---------------------------- MODULE SearchPersist ---------------------------
(***************************************************************************)
(* The engine of SearchIndex with its state.json: save(), open(), and the  *)
(* process dying in between.                                               *)
(*                                                                         *)
(* save() writes documents and configurations, no index, with              *)
(* std::fs::write, which truncates the file and then writes it: a crash or *)
(* an error in between leaves a part of the JSON, which open() refuses.    *)
(* open() starts from an empty engine and adds the documents one by one,   *)
(* in the order of a HashMap.  An I/O error before the file is truncated   *)
(* changes nothing, and is no action; nor is the version check, since only *)
(* this version writes the file.  save() takes &self and open() makes the  *)
(* engine, so no other call runs meanwhile.                                *)
(*                                                                         *)
(* Not everything that is written can be read again: see Parses.  What is  *)
(* read is otherwise taken to be what was written; that serde_json,        *)
(* without its feature float_roundtrip, may read a float with another last *)
(* bit is left out.                                                        *)
(***************************************************************************)
EXTENDS SearchIndex

CONSTANT Deep  \* values nested deeper than serde_json reads

VARIABLES
    disk,    \* state.json
    proc,    \* what the process does: "down", "loading", "running", "saving"
    toLoad   \* loading: the documents of the file not added yet

pvars == <<disk, proc, toLoad>>

File(kind, c, docs, under) ==
    [kind |-> kind, cfgs |-> c, documents |-> docs, addedUnder |-> under]

Nothing == [i \in Ids |-> None]

Missing == File("missing", None, Nothing, Nothing)
Partial == File("partial", None, Nothing, Nothing)

(* What is written.  addedUnder is history, for RefusedForAReason: the     *)
(* file does not have it.                                                  *)
PersistedState == File("state", cfgs, documents, addedUnder)

(* A boost that is not finite, of a field or of one of its values, is      *)
(* written as null, which is no f32.                                       *)
NonFinite(c) == c # None /\ \E f \in DOMAIN c : c[f].boost = "nonfinite"

(* A document is written as one object: its id, then its fields, flattened *)
(* beside it.  A field named "id" makes the key a duplicate.               *)
Unreadable(d) == "id" \in DOMAIN d \/ \E f \in DOMAIN d : d[f] \in Deep

(* serde_json::from_str() accepts the file.                                *)
Parses(file) ==
    /\ file.kind = "state"
    /\ ~NonFinite(file.cfgs)
    /\ \A i \in Ids : file.documents[i] # None => ~Unreadable(file.documents[i])

PInit ==
    /\ Init
    /\ disk = Missing
    /\ proc = "down"
    /\ toLoad = {}
-----------------------------------------------------------------------------
(* The memory of the process is gone.                                      *)
Forget ==
    /\ cfgs' = None
    /\ documents' = Nothing
    /\ postings' = NoPostings
    /\ lengths' = [f \in Fields |-> {}]
    /\ numeric' = {}
    /\ exact' = {}
    /\ addedUnder' = Nothing
    /\ torn' = {}

(* The calls of SearchIndex.                                               *)
Edit ==
    /\ proc = "running"
    /\ Next
    /\ UNCHANGED pvars

SaveTruncates ==
    /\ proc = "running"
    /\ proc' = "saving"
    /\ disk' = Partial
    /\ UNCHANGED <<vars, toLoad>>

SaveCompletes ==
    /\ proc = "saving"
    /\ proc' = "running"
    /\ disk' = PersistedState
    /\ UNCHANGED <<vars, toLoad>>

(* The write fails half way: save() returns the error.                     *)
SaveFails ==
    /\ proc = "saving"
    /\ proc' = "running"
    /\ UNCHANGED <<vars, disk, toLoad>>

(* The process dies, or the engine is dropped.                             *)
Crash ==
    /\ proc # "down"
    /\ Forget
    /\ proc' = "down"
    /\ toLoad' = {}
    /\ UNCHANGED disk

OpenFresh ==
    /\ proc = "down"
    /\ disk.kind = "missing"
    /\ proc' = "running"
    /\ UNCHANGED <<vars, disk, toLoad>>

(* "corrupt state file": open() fails, however often it is tried.          *)
OpenCorrupt ==
    /\ proc = "down"
    /\ disk.kind # "missing"
    /\ ~Parses(disk)
    /\ UNCHANGED <<vars, pvars>>

OpenState ==
    /\ proc = "down"
    /\ Parses(disk)
    /\ proc' = "loading"
    /\ cfgs' = disk.cfgs
    /\ toLoad' = {i \in Ids : disk.documents[i] # None}
    /\ UNCHANGED <<documents, postings, lengths, numeric, exact, addedUnder, torn, disk>>

LoadDocument(i) ==
    /\ proc = "loading"
    /\ i \in toLoad
    /\ AddDocument(i, disk.documents[i])
    /\ toLoad' = toLoad \ {i}
    /\ UNCHANGED <<disk, proc>>

(* Mutant: open() goes on with the other documents.                        *)
LoadSkipsRefused(i) ==
    /\ proc = "loading"
    /\ i \in toLoad
    /\ Refused(cfgs, disk.documents[i]) # {}
    /\ toLoad' = toLoad \ {i}
    /\ UNCHANGED <<vars, disk, proc>>

(* Mutant: the error leaves the rest to be loaded.                         *)
LoadFailsHalfWay(i) ==
    /\ proc = "loading"
    /\ i \in toLoad
    /\ Refused(cfgs, disk.documents[i]) # {}
    /\ Forget
    /\ proc' = "down"
    /\ UNCHANGED <<disk, toLoad>>

(* A document the tokenizer now refuses: open() fails, its engine dropped. *)
LoadFails(i) ==
    /\ proc = "loading"
    /\ i \in toLoad
    /\ Refused(cfgs, disk.documents[i]) # {}
    /\ Forget
    /\ proc' = "down"
    /\ toLoad' = {}
    /\ UNCHANGED disk

LoadDone ==
    /\ proc = "loading"
    /\ toLoad = {}
    /\ proc' = "running"
    /\ UNCHANGED <<vars, disk, toLoad>>

PNext ==
    \/ Edit
    \/ SaveTruncates \/ SaveCompletes \/ SaveFails
    \/ Crash
    \/ OpenFresh \/ OpenCorrupt \/ OpenState \/ LoadDone
    \/ \E i \in Ids : LoadDocument(i) \/ LoadFails(i)

PSpec == PInit /\ [][PNext]_<<vars, pvars>>
-----------------------------------------------------------------------------
PersistTypeOK ==
    /\ TypeOK
    /\ disk \in [kind : {"missing", "partial", "state"},
                 cfgs : Configs \union {None},
                 documents : [Ids -> Docs \union {None}],
                 addedUnder : [Ids -> Configs \union {None}]]
    /\ proc \in {"down", "loading", "running", "saving"}
    /\ toLoad \subseteq Ids
    /\ proc # "loading" => toLoad = {}

(* An open() that succeeds has every document and the configuration that   *)
(* were saved, and whatever the order it loads them in, exactly the        *)
(* indexes of those documents: nothing of a replaced document or of an     *)
(* earlier configuration comes back.                                       *)
OpenReproduces ==
    [][proc = "loading" /\ proc' = "running" =>
          /\ documents' = disk.documents
          /\ cfgs' = disk.cfgs
          /\ (Current = Rebuilt)']_<<vars, pvars>>

(* open() of the file would return an engine.                              *)
Opens(file) ==
    /\ Parses(file)
    /\ \A i \in Ids : file.documents[i] # None =>
           Refused(file.cfgs, file.documents[i]) = {}

(* A file that save() completed and open() refuses has what JSON does not  *)
(* carry (a boost that is not finite, a document with a field named "id"   *)
(* or one nested too deep), or a document that was added under another     *)
(* configuration.  No add_document() that failed, no reconfiguration that  *)
(* was taken back, no crash and no earlier open() is a reason.             *)
RefusedForAReason ==
    (disk.kind = "state" /\ ~Opens(disk)) =>
        \/ NonFinite(disk.cfgs)
        \/ \E i \in Ids : /\ disk.documents[i] # None
                          /\ \/ Unreadable(disk.documents[i])
                             \/ disk.addedUnder[i] # disk.cfgs
=============================================================================
