------------------------- MODULE SearchPersistProof -------------------------
(***************************************************************************)
(* save(), crashes and open(), for any documents, configurations and       *)
(* tokenizer: what open() makes of a file it accepts, and for which        *)
(* reasons it can refuse a file that save() completed.                     *)
(***************************************************************************)
EXTENDS SearchPersist, SearchIndexProof

allvars == <<vars, pvars>>

(* A stored document was accepted under the configuration it came under.   *)
OnlyAccepted == \A i \in Stored : Refused(addedUnder[i], documents[i]) = {}

DiskOK ==
    /\ disk \in [kind : {"missing", "partial", "state"},
                 cfgs : Configs \union {None},
                 documents : [Ids -> Docs \union {None}],
                 addedUnder : [Ids -> Configs \union {None}]]
    /\ \A i \in Ids : disk.documents[i] # None =>
           Refused(disk.addedUnder[i], disk.documents[i]) = {}

ProcOK ==
    /\ proc \in {"down", "loading", "running", "saving"}
    /\ toLoad \subseteq Ids
    /\ proc # "loading" => toLoad = {}

(* No process, nothing in memory.                                          *)
DownOK ==
    proc = "down" =>
        /\ documents = Nothing
        /\ postings = NoPostings
        /\ numeric = {} /\ exact = {}

(* While open() runs, the engine has what it would have if the documents   *)
(* still to be loaded were not in the file.                                *)
LoadedExactly ==
    proc = "loading" =>
        /\ cfgs = disk.cfgs
        /\ \A i \in Ids : documents[i] = IF i \in toLoad THEN None ELSE disk.documents[i]
        /\ \A i \in toLoad : disk.documents[i] # None
        /\ \A f \in Fields, t \in Terms, i \in Ids :
               postings[f][t][i] = IF ShouldPost(f, t, i) THEN 1 ELSE 0
        /\ numeric = UNION {NumericEntries(cfgs, i, documents[i]) : i \in Stored}
        /\ exact = UNION {ExactEntries(cfgs, i, documents[i]) : i \in Stored}

PInv == IInv /\ OnlyAccepted /\ DiskOK /\ ProcOK /\ DownOK /\ LoadedExactly
-----------------------------------------------------------------------------
(* Nothing that open() reads is changed by a step that leaves memory and   *)
(* file alone.                                                             *)
LEMMA SameMemory ==
  ASSUME PInv, UNCHANGED vars
  PROVE  IInv' /\ OnlyAccepted'
<1>1. IInv'
  BY NextIInv DEF PInv
<1>2. OnlyAccepted'
  BY DEF PInv, OnlyAccepted, Stored, vars
<1>. QED
  BY <1>1, <1>2

(* A process that has died has nothing, which is a state of the invariant. *)
LEMMA ForgetStep ==
  ASSUME Forget
  PROVE  /\ IInv' /\ OnlyAccepted'
         /\ documents' = Nothing /\ postings' = NoPostings /\ numeric' = {} /\ exact' = {}
<1>1. /\ cfgs' = None /\ documents' = [i \in Ids |-> None] /\ postings' = NoPostings
      /\ lengths' = [f \in Fields |-> {}] /\ numeric' = {} /\ exact' = {}
      /\ addedUnder' = [i \in Ids |-> None] /\ torn' = {}
  BY DEF Forget, Nothing
<1>2. IInv'
  BY <1>1 DEF IInv, TypeOK, EnteredOnce, LengthsMatchPostings, FiltersCover,
              PostingsFollow, NoPostings, Stored
<1>3. OnlyAccepted'
  BY <1>1 DEF OnlyAccepted, Stored
<1>. QED
  BY <1>1, <1>2, <1>3 DEF Nothing

LEMMA InitPInv == PInit => PInv
<1> SUFFICES ASSUME PInit PROVE PInv
  OBVIOUS
<1>1. Init /\ disk = Missing /\ proc = "down" /\ toLoad = {}
  BY DEF PInit
<1>2. IInv
  BY <1>1, InitIInv
<1>3. OnlyAccepted
  BY <1>1 DEF Init, OnlyAccepted, Stored
<1>4. DiskOK
  BY <1>1 DEF DiskOK, Missing, File, Nothing
<1>5. ProcOK /\ DownOK /\ LoadedExactly
  BY <1>1 DEF ProcOK, DownOK, LoadedExactly, Init, Nothing
<1>. QED
  BY <1>2, <1>3, <1>4, <1>5 DEF PInv

(* The calls of the engine: a document is stored only if none of its text  *)
(* is refused, and the file is not touched.                                *)
LEMMA EditStep == ASSUME PInv, Edit PROVE PInv'
<1>1. IInv' /\ IInv
  BY NextIInv DEF PInv, Edit
<1>2. OnlyAccepted'
  <2>1. CASE \E c \in Configs : ConfigureFields(c)
    BY <2>1 DEF ConfigureFields, PInv, OnlyAccepted, Stored
  <2>2. CASE \E i \in Ids, d \in Docs : AddDocument(i, d)
    <3>1. PICK i \in Ids, d \in Docs : AddDocument(i, d)
      BY <2>2
    <3>2. /\ documents' = [documents EXCEPT ![i] = d] /\ addedUnder' = [addedUnder EXCEPT ![i] = cfgs]
          /\ Refused(cfgs, d) = {}
      BY <3>1 DEF AddDocument
    <3>3. documents \in [Ids -> Docs \union {None}] /\ addedUnder \in [Ids -> Configs \union {None}]
      BY <1>1 DEF IInv, TypeOK
    <3>. QED
      BY <3>2, <3>3 DEF PInv, OnlyAccepted, Stored
  <2>3. CASE \E i \in Ids, d \in Docs : AddDocumentFails(i, d)
    BY <2>3 DEF AddDocumentFails, PInv, OnlyAccepted, Stored
  <2>. QED
    BY <2>1, <2>2, <2>3 DEF Edit, Next
<1>3. proc = "running" /\ UNCHANGED <<disk, proc, toLoad>>
  BY DEF Edit, pvars
<1>4. DiskOK' /\ ProcOK' /\ DownOK' /\ LoadedExactly'
  BY <1>3 DEF PInv, DiskOK, ProcOK, DownOK, LoadedExactly
<1>. QED
  BY <1>1, <1>2, <1>4 DEF PInv

(* What save() writes are documents that were accepted.                    *)
LEMMA SaveStep ==
  ASSUME PInv, SaveTruncates \/ SaveCompletes \/ SaveFails
  PROVE  PInv'
<1>1. /\ proc \in {"running", "saving"} /\ proc' \in {"running", "saving"}
      /\ UNCHANGED vars /\ toLoad' = toLoad
      /\ disk' \in {disk, Partial, PersistedState}
  BY DEF SaveTruncates, SaveCompletes, SaveFails
<1>2. IInv' /\ OnlyAccepted'
  BY <1>1, SameMemory
<1>3. DiskOK'
  <2>1. CASE disk' = disk
    BY <2>1 DEF PInv, DiskOK
  <2>2. CASE disk' = Partial
    BY <2>2 DEF DiskOK, Partial, File, Nothing
  <2>3. CASE disk' = PersistedState
    BY <2>3 DEF PInv, IInv, TypeOK, OnlyAccepted, Stored, DiskOK, PersistedState, File
  <2>. QED
    BY <1>1, <2>1, <2>2, <2>3
<1>4. ProcOK' /\ DownOK' /\ LoadedExactly'
  BY <1>1 DEF PInv, ProcOK, DownOK, LoadedExactly
<1>. QED
  BY <1>2, <1>3, <1>4 DEF PInv

(* The process dies, or open() gives up.                                   *)
LEMMA DownStep ==
  ASSUME PInv, Forget, proc' = "down", toLoad' = {}, disk' = disk
  PROVE  PInv'
<1>1. IInv' /\ OnlyAccepted' /\ DownOK'
  BY ForgetStep DEF DownOK, Nothing
<1>2. DiskOK' /\ ProcOK' /\ LoadedExactly'
  BY DEF PInv, DiskOK, ProcOK, LoadedExactly
<1>. QED
  BY <1>1, <1>2 DEF PInv

(* open() begins with an empty engine that has the configuration.          *)
LEMMA OpenStateStep == ASSUME PInv, OpenState PROVE PInv'
<1>1. /\ proc = "down" /\ proc' = "loading" /\ cfgs' = disk.cfgs /\ disk' = disk
      /\ toLoad' = {i \in Ids : disk.documents[i] # None}
      /\ UNCHANGED <<documents, postings, lengths, numeric, exact, addedUnder, torn>>
  BY DEF OpenState
<1>2. documents = Nothing /\ postings = NoPostings /\ numeric = {} /\ exact = {}
  BY <1>1 DEF PInv, DownOK
<1>3. Stored = {} /\ Stored' = {}
  BY <1>1, <1>2 DEF Stored, Nothing
<1>4. cfgs' \in Configs \union {None}
  BY <1>1 DEF PInv, DiskOK
<1>5. IInv'
  BY <1>1, <1>3, <1>4 DEF PInv, IInv, TypeOK, EnteredOnce, LengthsMatchPostings, FiltersCover,
                          PostingsFollow
<1>6. OnlyAccepted'
  BY <1>3 DEF OnlyAccepted
<1>7. DiskOK' /\ ProcOK' /\ DownOK'
  BY <1>1 DEF PInv, DiskOK, ProcOK, DownOK
<1>8. LoadedExactly'
  BY <1>1, <1>2, <1>3 DEF LoadedExactly, ShouldPost, NoPostings, Nothing
<1>. QED
  BY <1>5, <1>6, <1>7, <1>8 DEF PInv

(* A document that is loaded is indexed beside those that were, and all of *)
(* its entries are new.                                                    *)
LEMMA LoadDocumentStep == ASSUME PInv, NEW i \in Ids, LoadDocument(i) PROVE PInv'
<1> DEFINE d == disk.documents[i]
<1>1. /\ proc = "loading" /\ i \in toLoad /\ toLoad' = toLoad \ {i}
      /\ AddDocument(i, d) /\ disk' = disk /\ proc' = proc
  BY DEF LoadDocument
<1>2. /\ cfgs = disk.cfgs
      /\ \A j \in Ids : documents[j] = IF j \in toLoad THEN None ELSE disk.documents[j]
      /\ \A j \in toLoad : disk.documents[j] # None
      /\ \A f \in Fields, t \in Terms, j \in Ids :
             postings[f][t][j] = IF ShouldPost(f, t, j) THEN 1 ELSE 0
      /\ numeric = UNION {NumericEntries(cfgs, j, documents[j]) : j \in Stored}
      /\ exact = UNION {ExactEntries(cfgs, j, documents[j]) : j \in Stored}
  BY <1>1 DEF PInv, LoadedExactly
<1>3. d \in Docs /\ d # None
  BY <1>1, <1>2 DEF PInv, DiskOK
<1>4. IInv /\ IInv'
  BY <1>1, <1>3, AddStep DEF PInv
<1> HIDE DEF d
<1>5. /\ documents \in [Ids -> Docs \union {None}] /\ documents' = [documents EXCEPT ![i] = d]
      /\ addedUnder \in [Ids -> Configs \union {None}] /\ addedUnder' = [addedUnder EXCEPT ![i] = cfgs]
      /\ cfgs' = cfgs /\ cfgs \in Configs /\ Refused(cfgs, d) = {}
      /\ postings' = IndexText(postings, i, d, ToIndex(cfgs, d))
      /\ numeric' = numeric \union NumericEntries(cfgs, i, d)
      /\ exact' = exact \union ExactEntries(cfgs, i, d)
  BY <1>1, <1>4 DEF AddDocument, IInv, TypeOK
<1>6. /\ i \notin Stored /\ Stored' = Stored \union {i} /\ documents'[i] = d
      /\ \A j \in Stored : documents'[j] = documents[j] /\ j # i /\ j \in Ids
  BY <1>1, <1>2, <1>3, <1>5 DEF Stored
<1>7. OnlyAccepted'
  BY <1>5, <1>6 DEF PInv, OnlyAccepted, Stored
<1>8. DiskOK' /\ ProcOK' /\ DownOK'
  BY <1>1 DEF PInv, DiskOK, ProcOK, DownOK
<1>9. \A j \in Ids : documents'[j] = IF j \in toLoad' THEN None ELSE disk.documents[j]
  BY <1>1, <1>2, <1>5, <1>6 DEF d
<1>10. ASSUME NEW f \in Fields, NEW t \in Terms, NEW j \in Ids
       PROVE  postings'[f][t][j] = IF ShouldPost(f, t, j)' THEN 1 ELSE 0
  <2>1. postings \in [Fields -> [Terms -> [Ids -> Nat]]]
    BY <1>4 DEF IInv, TypeOK
  <2>2. /\ f \in ToIndex(cfgs, d) /\ Yields(d, f) =>
             postings'[f][t][i] = IF t \in TokensOf(d[f]) THEN 1 ELSE 0
        /\ ~(f \in ToIndex(cfgs, d) /\ Yields(d, f)) => postings'[f][t][i] = postings[f][t][i]
        /\ j # i => postings'[f][t][j] = postings[f][t][j]
    BY <1>5, <2>1, IndexTextResult
  <2>3. CASE j = i
    <3>1. postings[f][t][i] = 0
      BY <1>2, <1>6 DEF ShouldPost
    <3>2. ShouldPost(f, t, i)' <=> f \in ToIndex(cfgs, d) /\ t \in TokensOf(d[f])
      BY <1>5, <1>6 DEF ShouldPost
    <3>3. t \in TokensOf(d[f]) => Yields(d, f)
      BY DEF Yields
    <3>. QED
      BY <2>2, <2>3, <3>1, <3>2, <3>3
  <2>4. CASE j # i
    <3>1. ShouldPost(f, t, j)' <=> ShouldPost(f, t, j)
      BY <1>5, <1>6, <2>4 DEF ShouldPost
    <3>. QED
      BY <1>2, <2>2, <2>4, <3>1
  <2>. QED
    BY <2>3, <2>4
<1>11. numeric' = UNION {NumericEntries(cfgs', j, documents'[j]) : j \in Stored'}
  BY <1>2, <1>5, <1>6
<1>12. exact' = UNION {ExactEntries(cfgs', j, documents'[j]) : j \in Stored'}
  BY <1>2, <1>5, <1>6
<1>13. \A j \in toLoad' : disk'.documents[j] # None
  BY <1>1, <1>2
<1>14. LoadedExactly'
  BY <1>1, <1>2, <1>5, <1>9, <1>10, <1>11, <1>12, <1>13 DEF LoadedExactly
<1>. QED
  BY <1>4, <1>7, <1>8, <1>14 DEF PInv

(* open() returns, or there was no file to read.                           *)
LEMMA OpenedStep ==
  ASSUME PInv, UNCHANGED <<vars, disk, toLoad>>, proc' \in {proc, "running"}, toLoad = {}
  PROVE  PInv'
<1>1. IInv' /\ OnlyAccepted'
  BY SameMemory
<1>2. UNCHANGED <<cfgs, documents, postings, numeric, exact>>
  BY DEF vars
<1>3. DiskOK' /\ ProcOK' /\ DownOK'
  BY <1>2 DEF PInv, DiskOK, ProcOK, DownOK
<1>4. LoadedExactly'
  BY <1>2 DEF PInv, LoadedExactly, ShouldPost, Stored
<1>. QED
  BY <1>1, <1>3, <1>4 DEF PInv

LEMMA NextPInv == PInv /\ [PNext]_allvars => PInv'
<1> SUFFICES ASSUME PInv, [PNext]_allvars PROVE PInv'
  OBVIOUS
<1>0. proc # "loading" => toLoad = {}
  BY DEF PInv, ProcOK
<1>1. CASE Edit
  BY <1>1, EditStep
<1>2. CASE SaveTruncates \/ SaveCompletes \/ SaveFails
  BY <1>2, SaveStep
<1>3. CASE Crash
  BY <1>3, DownStep DEF Crash
<1>4. CASE OpenFresh
  BY <1>0, <1>4, OpenedStep DEF OpenFresh
<1>5. CASE OpenCorrupt
  BY <1>0, <1>5, OpenedStep DEF OpenCorrupt, pvars
<1>6. CASE OpenState
  BY <1>6, OpenStateStep
<1>7. CASE LoadDone
  BY <1>7, OpenedStep DEF LoadDone
<1>8. CASE \E i \in Ids : LoadDocument(i)
  BY <1>8, LoadDocumentStep
<1>9. CASE \E i \in Ids : LoadFails(i)
  BY <1>9, DownStep DEF LoadFails
<1>10. CASE UNCHANGED allvars
  <2>1. UNCHANGED vars /\ UNCHANGED <<disk, proc, toLoad>>
    BY <1>10 DEF allvars, pvars
  <2>2. IInv' /\ OnlyAccepted'
    BY <2>1, SameMemory
  <2>3. DiskOK' /\ ProcOK' /\ DownOK' /\ LoadedExactly'
    BY <2>1 DEF PInv, DiskOK, ProcOK, DownOK, LoadedExactly, ShouldPost, Stored, vars
  <2>. QED
    BY <2>2, <2>3 DEF PInv
<1>. QED
  BY <1>1, <1>2, <1>3, <1>4, <1>5, <1>6, <1>7, <1>8, <1>9, <1>10 DEF PNext

LEMMA PInvariance == PSpec => []PInv
<1>1. PInv /\ [PNext]_<<vars, pvars>> => PInv'
  BY NextPInv DEF allvars
<1>. QED
  BY <1>1, InitPInv, PTL DEF PSpec
-----------------------------------------------------------------------------
(* The engine, the file and the documents still to be loaded keep their    *)
(* types, through crashes and failed writes.                               *)
THEOREM PersistTypeCorrect == PSpec => []PersistTypeOK
<1>1. PInv => PersistTypeOK
  BY DEF PInv, IInv, DiskOK, ProcOK, PersistTypeOK
<1>. QED
  BY <1>1, PInvariance, PTL

(* A file that save() completed is refused by open() only for what JSON    *)
(* does not carry (persist.rs:57, document.rs:5-10) or for a document that *)
(* was added under another configuration (persist.rs:89): the documents of *)
(* failed adds, crashes and earlier opens are no reason.                   *)
THEOREM RefusalHasAReason == PSpec => []RefusedForAReason
<1>1. PInv => RefusedForAReason
  <2> SUFFICES ASSUME PInv, disk.kind = "state", ~Opens(disk), ~NonFinite(disk.cfgs)
               PROVE  \E i \in Ids : /\ disk.documents[i] # None
                                    /\ \/ Unreadable(disk.documents[i])
                                       \/ disk.addedUnder[i] # disk.cfgs
    BY DEF RefusedForAReason
  <2>1. CASE ~Parses(disk)
    BY <2>1 DEF Parses
  <2>2. CASE Parses(disk)
    <3>1. PICK i \in Ids : /\ disk.documents[i] # None
                           /\ Refused(disk.cfgs, disk.documents[i]) # {}
      BY <2>2 DEF Opens
    <3>2. Refused(disk.addedUnder[i], disk.documents[i]) = {}
      BY <3>1 DEF PInv, DiskOK
    <3>. QED
      BY <3>1, <3>2
  <2>. QED
    BY <2>1, <2>2
<1>. QED
  BY <1>1, PInvariance, PTL

(* An engine that has been opened is the one that was saved, with the      *)
(* indexes of its documents and nothing else, whatever the order in which  *)
(* the documents were loaded.                                              *)
THEOREM OpenIsExact == PSpec => OpenReproduces
<1> DEFINE Opened == proc = "loading" /\ proc' = "running"
<1>1. ASSUME PInv, PNext, Opened
      PROVE  documents' = disk.documents /\ cfgs' = disk.cfgs /\ (Current = Rebuilt)'
  <2>1. LoadDone
    BY <1>1 DEF PNext, Edit, SaveTruncates, SaveCompletes, SaveFails, Crash, OpenFresh,
                OpenCorrupt, OpenState, LoadDocument, LoadFails, pvars
  <2>2. toLoad = {} /\ UNCHANGED <<cfgs, documents, postings, numeric, exact>>
    BY <2>1 DEF LoadDone, vars
  <2>3. documents = disk.documents
    <3>1. documents \in [Ids -> Docs \union {None}] /\ disk.documents \in [Ids -> Docs \union {None}]
      BY <1>1 DEF PInv, IInv, TypeOK, DiskOK
    <3>2. \A i \in Ids : documents[i] = disk.documents[i]
      BY <1>1, <2>2 DEF PInv, LoadedExactly
    <3>. QED
      BY <3>1, <3>2
  <2>4. postings = Rebuilt.postings
    <3>1. postings \in [Fields -> [Terms -> [Ids -> Nat]]]
      BY <1>1 DEF PInv, IInv, TypeOK
    <3>2. \A f \in Fields, t \in Terms, i \in Ids :
            postings[f][t][i] = IF ShouldPost(f, t, i) THEN 1 ELSE 0
      BY <1>1 DEF PInv, LoadedExactly
    <3>3. postings = [f \in Fields |-> [t \in Terms |->
                        [i \in Ids |-> IF ShouldPost(f, t, i) THEN 1 ELSE 0]]]
      BY <3>1, <3>2
    <3>. QED
      BY <3>3 DEF Rebuilt
  <2>5. Current = Rebuilt
    BY <1>1, <2>4 DEF PInv, LoadedExactly, Current, Rebuilt
  <2>6. (Current = Rebuilt)'
    BY <2>2, <2>5 DEF Current, Rebuilt, ShouldPost, Stored
  <2>7. cfgs' = disk.cfgs
    BY <1>1, <2>2 DEF PInv, LoadedExactly
  <2>. QED
    BY <2>2, <2>3, <2>6, <2>7
<1>2. PInv /\ [PNext]_<<vars, pvars>> =>
        [Opened => /\ documents' = disk.documents /\ cfgs' = disk.cfgs
                   /\ (Current = Rebuilt)']_<<vars, pvars>>
  BY <1>1
<1>3. QED
  BY <1>2, PInvariance, PTL DEF PSpec, OpenReproduces
=============================================================================
