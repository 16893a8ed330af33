-------------------------- MODULE SearchIndexProof --------------------------
(***************************************************************************)
(* The indexes of SearchIndex against its documents, for any documents,    *)
(* configurations and tokenizer, however often a document is replaced, a   *)
(* configuration changed, or an add fails half way.                        *)
(*                                                                         *)
(* FiltersMissNothing and TextIndexIsFresh speak of the documents added    *)
(* under the PRESENT configuration, and are not inductive: setting another *)
(* configuration, and the first one again, must not lose anything.  IInv   *)
(* says it of each document under its own configuration.                   *)
(***************************************************************************)
EXTENDS SearchIndex, TLAPS

(* A value has terms of the tokenizer only.                                *)
LEMMA TokensOfType == \A v : TokensOf(v) \subseteq Terms
BY DataAssumption DEF TokensOf

(* The fields of a document that are text-indexed are fields.              *)
LEMMA ToIndexType ==
  ASSUME NEW c \in Configs, NEW d \in Docs
  PROVE  ToIndex(c, d) \subseteq Fields
BY DataAssumption DEF ToIndex, TextFields

(* insert_tokens() leaves the document once under each of its tokens, not  *)
(* at all under the others, and the other documents alone.                 *)
LEMMA InsertTokensResult ==
  ASSUME NEW terms \in [Terms -> [Ids -> Nat]], NEW i \in Ids, NEW toks \in SUBSET Terms
  PROVE  /\ InsertTokens(terms, i, toks) \in [Terms -> [Ids -> Nat]]
         /\ \A t \in Terms :
              /\ InsertTokens(terms, i, toks)[t][i] = IF t \in toks THEN 1 ELSE 0
              /\ \A j \in Ids \ {i} : InsertTokens(terms, i, toks)[t][j] = terms[t][j]
BY DEF InsertTokens, RemoveDoc

(* The same for a document: in the fields that are indexed and have tokens *)
(* it is listed under its tokens, elsewhere nothing changes.               *)
LEMMA IndexTextResult ==
  ASSUME NEW p \in [Fields -> [Terms -> [Ids -> Nat]]], NEW i \in Ids,
         NEW d, NEW fs
  PROVE  /\ IndexText(p, i, d, fs) \in [Fields -> [Terms -> [Ids -> Nat]]]
         /\ \A f \in Fields, t \in Terms :
              /\ f \in fs /\ Yields(d, f) =>
                   IndexText(p, i, d, fs)[f][t][i] =
                      IF t \in TokensOf(d[f]) THEN 1 ELSE 0
              /\ ~(f \in fs /\ Yields(d, f)) =>
                   IndexText(p, i, d, fs)[f][t][i] = p[f][t][i]
              /\ \A j \in Ids \ {i} : IndexText(p, i, d, fs)[f][t][j] = p[f][t][j]
<1> DEFINE q == IndexText(p, i, d, fs)
<1>1. ASSUME NEW f \in Fields, f \in fs, Yields(d, f)
      PROVE  /\ q[f] = InsertTokens(p[f], i, TokensOf(d[f]))
             /\ q[f] \in [Terms -> [Ids -> Nat]]
             /\ \A t \in Terms :
                  /\ q[f][t][i] = IF t \in TokensOf(d[f]) THEN 1 ELSE 0
                  /\ \A j \in Ids \ {i} : q[f][t][j] = p[f][t][j]
  <2>1. q[f] = InsertTokens(p[f], i, TokensOf(d[f]))
    BY <1>1 DEF IndexText
  <2>2. p[f] \in [Terms -> [Ids -> Nat]] /\ TokensOf(d[f]) \in SUBSET Terms
    BY TokensOfType
  <2>. QED
    BY <2>1, <2>2, InsertTokensResult
<1>2. ASSUME NEW f \in Fields, ~(f \in fs /\ Yields(d, f))
      PROVE  q[f] = p[f]
  BY <1>2 DEF IndexText
<1>3. \A f \in Fields : q[f] \in [Terms -> [Ids -> Nat]]
  BY <1>1, <1>2
<1>4. q \in [Fields -> [Terms -> [Ids -> Nat]]]
  BY <1>3 DEF IndexText
<1>. QED
  BY <1>1, <1>2, <1>4
-----------------------------------------------------------------------------
(* Indexing some of a document's text fields, be it all of them or those   *)
(* before the refused one, keeps the postings in order.                    *)
LEMMA IndexingKeepsPostings ==
  ASSUME IInv, NEW i \in Ids, NEW d, NEW fs,
         postings' = IndexText(postings, i, d, fs),
         lengths' = RecordLengths(lengths, i, d, fs)
  PROVE  /\ postings' \in [Fields -> [Terms -> [Ids -> Nat]]]
         /\ lengths' \in [Fields -> SUBSET Ids]
         /\ EnteredOnce'
         /\ LengthsMatchPostings'
<1>1. postings \in [Fields -> [Terms -> [Ids -> Nat]]] /\ lengths \in [Fields -> SUBSET Ids]
  BY DEF IInv, TypeOK
<1>2. /\ postings' \in [Fields -> [Terms -> [Ids -> Nat]]]
      /\ \A f \in Fields, t \in Terms :
           /\ f \in fs /\ Yields(d, f) =>
                postings'[f][t][i] = IF t \in TokensOf(d[f]) THEN 1 ELSE 0
           /\ ~(f \in fs /\ Yields(d, f)) => postings'[f][t][i] = postings[f][t][i]
           /\ \A j \in Ids \ {i} : postings'[f][t][j] = postings[f][t][j]
  BY <1>1, IndexTextResult
<1>3. lengths' \in [Fields -> SUBSET Ids]
  BY <1>1 DEF RecordLengths
<1>4. EnteredOnce'
  <2> SUFFICES ASSUME NEW f \in Fields, NEW t \in Terms, NEW j \in Ids
               PROVE  postings'[f][t][j] <= 1
    BY DEF EnteredOnce
  <2>1. postings[f][t][j] <= 1
    BY DEF IInv, EnteredOnce
  <2>. QED
    BY <1>2, <2>1
<1>5. LengthsMatchPostings'
  <2> SUFFICES ASSUME NEW f \in Fields, NEW j \in Ids
               PROVE  j \in lengths'[f] <=> \E t \in Terms : postings'[f][t][j] > 0
    BY DEF LengthsMatchPostings
  <2>1. j \in lengths[f] <=> \E t \in Terms : postings[f][t][j] > 0
    BY DEF IInv, LengthsMatchPostings
  <2>2. CASE f \in fs /\ Yields(d, f) /\ j = i
    <3>1. j \in lengths'[f]
      BY <1>1, <2>2 DEF RecordLengths
    <3>2. PICK t \in Terms : t \in TokensOf(d[f])
      BY <2>2, TokensOfType DEF Yields
    <3>3. postings'[f][t][j] = 1
      BY <1>2, <2>2, <3>2
    <3>. QED
      BY <3>1, <3>3
  <2>3. CASE ~(f \in fs /\ Yields(d, f) /\ j = i)
    <3>1. j \in lengths'[f] <=> j \in lengths[f]
      BY <1>1, <2>3 DEF RecordLengths
    <3>2. \A t \in Terms : postings'[f][t][j] = postings[f][t][j]
      BY <1>2, <2>3
    <3>. QED
      BY <2>1, <3>1, <3>2
  <2>. QED
    BY <2>2, <2>3
<1>. QED
  BY <1>2, <1>3, <1>4, <1>5

(* The entries of a document for the filters have the type of the indexes. *)
LEMMA EntriesType ==
  ASSUME NEW c \in Configs, NEW d \in Docs, NEW i \in Ids
  PROVE  /\ NumericEntries(c, i, d) \subseteq Fields \X Numbers \X Ids
         /\ ExactEntries(c, i, d) \subseteq Fields \X Strings \X Ids
<1>1. FieldsOfType(c, "number") \subseteq Fields /\ FieldsOfType(c, "keyword") \subseteq Fields
  BY DataAssumption DEF FieldsOfType
<1>. QED
  BY <1>1 DEF NumericEntries, ExactEntries

(* The engine starts with everything empty.                                *)
LEMMA InitIInv == Init => IInv
BY DEF Init, IInv, TypeOK, EnteredOnce, LengthsMatchPostings, FiltersCover,
       PostingsFollow, NoPostings, Stored

(* configure_fields() changes no index and no document.                    *)
LEMMA ConfigureStep ==
  ASSUME IInv, NEW c \in Configs, ConfigureFields(c)
  PROVE  IInv'
BY DEF ConfigureFields, IInv, TypeOK, EnteredOnce, LengthsMatchPostings,
       FiltersCover, PostingsFollow, Stored

(* add_document() that succeeds indexes the document under the present     *)
(* configuration, and leaves what is indexed of the others.                *)
LEMMA AddStep ==
  ASSUME IInv, NEW i \in Ids, NEW d \in Docs, AddDocument(i, d)
  PROVE  IInv'
<1> USE DEF AddDocument
<1>1. cfgs \in Configs /\ documents'[i] = d /\ addedUnder'[i] = cfgs /\ d # None
  BY DataAssumption DEF IInv, TypeOK
<1>2. \A j \in Ids \ {i} : documents'[j] = documents[j] /\ addedUnder'[j] = addedUnder[j]
  BY DEF IInv, TypeOK
<1>3. /\ postings' \in [Fields -> [Terms -> [Ids -> Nat]]]
      /\ lengths' \in [Fields -> SUBSET Ids]
      /\ EnteredOnce' /\ LengthsMatchPostings'
  BY IndexingKeepsPostings
<1>4. numeric' \subseteq Fields \X Numbers \X Ids /\ exact' \subseteq Fields \X Strings \X Ids
  BY <1>1, EntriesType DEF IInv, TypeOK
<1>5. TypeOK'
  BY <1>1, <1>3, <1>4 DEF IInv, TypeOK
<1>6. FiltersCover'
  <2> SUFFICES ASSUME NEW j \in Stored'
               PROVE  /\ addedUnder'[j] # None
                      /\ NumericEntries(addedUnder'[j], j, documents'[j]) \subseteq numeric'
                      /\ ExactEntries(addedUnder'[j], j, documents'[j]) \subseteq exact'
    BY DEF FiltersCover
  <2>1. CASE j = i
    BY <1>1, <2>1
  <2>2. CASE j # i
    <3>1. j \in Stored
      BY <1>2, <2>2 DEF Stored
    <3>. QED
      BY <1>2, <2>2, <3>1 DEF IInv, FiltersCover, Stored
  <2>. QED
    BY <2>1, <2>2
<1>7. PostingsFollow'
  <2> SUFFICES ASSUME NEW j \in Stored', j \notin torn',
                      NEW f \in ToIndex(addedUnder'[j], documents'[j]),
                      Yields(documents'[j], f), NEW t \in Terms
               PROVE  postings'[f][t][j] > 0 <=> t \in TokensOf(documents'[j][f])
    BY DEF PostingsFollow
  <2>1. postings \in [Fields -> [Terms -> [Ids -> Nat]]] /\ j \in Ids
    BY DEF IInv, TypeOK, Stored
  <2>2. ASSUME NEW g \in Fields
        PROVE  /\ g \in ToIndex(cfgs, d) /\ Yields(d, g) =>
                    postings'[g][t][i] = IF t \in TokensOf(d[g]) THEN 1 ELSE 0
               /\ j # i => postings'[g][t][j] = postings[g][t][j]
    <3>1. postings' = IndexText(postings, i, d, ToIndex(cfgs, d))
      OBVIOUS
    <3> HIDE DEF AddDocument
    <3>. QED
      BY <2>1, <3>1, IndexTextResult
  <2>3. CASE j = i
    <3>1. f \in Fields /\ f \in ToIndex(cfgs, d) /\ Yields(d, f)
      BY <1>1, <2>3, ToIndexType
    <3>2. postings'[f][t][i] = IF t \in TokensOf(d[f]) THEN 1 ELSE 0
      BY <2>2, <3>1
    <3>. QED
      BY <1>1, <2>3, <3>2
  <2>4. CASE j # i
    <3>1. j \in Stored \ torn /\ documents'[j] = documents[j] /\ addedUnder'[j] = addedUnder[j]
      BY <1>2, <2>1, <2>4 DEF Stored
    <3>2. addedUnder[j] \in Configs /\ documents[j] \in Docs
      BY <3>1 DEF IInv, TypeOK, FiltersCover, Stored
    <3>3. f \in Fields
      BY <3>1, <3>2, ToIndexType
    <3>4. postings'[f][t][j] = postings[f][t][j]
      BY <2>2, <2>4, <3>3
    <3>. QED
      BY <3>1, <3>4 DEF IInv, PostingsFollow
  <2>. QED
    BY <2>3, <2>4
<1>. QED
  BY <1>3, <1>5, <1>6, <1>7 DEF IInv

(* add_document() that fails has touched the postings of the one document  *)
(* it names, which from then on is torn.                                   *)
LEMMA FailStep ==
  ASSUME IInv, NEW i \in Ids, NEW d \in Docs, AddDocumentFails(i, d)
  PROVE  IInv'
<1> USE DEF AddDocumentFails
<1>1. PICK before \in SUBSET (ToIndex(cfgs, d) \ Refused(cfgs, d)) :
         /\ postings' = IndexText(postings, i, d, before)
         /\ lengths' = RecordLengths(lengths, i, d, before)
  OBVIOUS
<1>2. /\ postings' \in [Fields -> [Terms -> [Ids -> Nat]]]
      /\ lengths' \in [Fields -> SUBSET Ids]
      /\ EnteredOnce' /\ LengthsMatchPostings'
  BY <1>1, IndexingKeepsPostings
<1>3. TypeOK'
  BY <1>2 DEF IInv, TypeOK
<1>4. FiltersCover'
  BY DEF IInv, FiltersCover, Stored
<1>5. PostingsFollow'
  <2> SUFFICES ASSUME NEW j \in Stored, j \notin torn, j # i,
                      NEW f \in ToIndex(addedUnder[j], documents[j]),
                      Yields(documents[j], f), NEW t \in Terms
               PROVE  postings'[f][t][j] > 0 <=> t \in TokensOf(documents[j][f])
    BY DEF PostingsFollow, Stored
  <2>1. postings \in [Fields -> [Terms -> [Ids -> Nat]]] /\ j \in Ids
    BY DEF IInv, TypeOK, Stored
  <2>2. addedUnder[j] \in Configs /\ documents[j] \in Docs
    BY DEF IInv, TypeOK, FiltersCover, Stored
  <2>3. f \in Fields
    BY <2>2, ToIndexType
  <2>4. postings'[f][t][j] = postings[f][t][j]
    BY <1>1, <2>1, <2>3, IndexTextResult
  <2>. QED
    BY <2>4 DEF IInv, PostingsFollow
<1>. QED
  BY <1>2, <1>3, <1>4, <1>5 DEF IInv

(* Every step of the engine keeps the invariant.                           *)
LEMMA NextIInv == IInv /\ [Next]_vars => IInv'
<1> SUFFICES ASSUME IInv, [Next]_vars PROVE IInv'
  OBVIOUS
<1>1. CASE \E c \in Configs : ConfigureFields(c)
  BY <1>1, ConfigureStep
<1>2. CASE \E i \in Ids, d \in Docs : AddDocument(i, d)
  BY <1>2, AddStep
<1>3. CASE \E i \in Ids, d \in Docs : AddDocumentFails(i, d)
  BY <1>3, FailStep
<1>4. CASE UNCHANGED vars
  BY <1>4 DEF vars, IInv, TypeOK, EnteredOnce, LengthsMatchPostings, FiltersCover,
              PostingsFollow, Stored
<1>. QED
  BY <1>1, <1>2, <1>3, <1>4 DEF Next

(* The invariant holds throughout.                                         *)
THEOREM Invariance == Spec => []IInv
<1>. QED
  BY InitIInv, NextIInv, PTL DEF Spec

(* What the invariant says of the documents added under the present        *)
(* configuration.                                                          *)
LEMMA InvariantSuffices == IInv => FiltersMissNothing /\ TextIndexIsFresh
BY DEF IInv, FiltersCover, PostingsFollow, FiltersMissNothing, TextIndexIsFresh

(* The documents, the configurations and the three indexes keep their      *)
(* types, also through an add that fails half way.                         *)
THEOREM TypeCorrect == Spec => []TypeOK
<1>1. IInv => TypeOK
  BY DEF IInv
<1>. QED
  BY <1>1, Invariance, PTL


(* A document is entered at most once under a term of a field: what        *)
(* doc_freq() counts are documents.                                        *)
THEOREM DocumentsEnteredOnce == Spec => []EnteredOnce
<1>1. IInv => EnteredOnce
  BY DEF IInv
<1>. QED
  BY <1>1, Invariance, PTL

(* The lengths and the postings the score divides agree.                   *)
THEOREM LengthsAgree == Spec => []LengthsMatchPostings
<1>1. IInv => LengthsMatchPostings
  BY DEF IInv
<1>. QED
  BY <1>1, Invariance, PTL

(* A filter finds every document added under the present configuration     *)
(* that has its key.                                                       *)
THEOREM FiltersAreComplete == Spec => []FiltersMissNothing
<1>. QED
  BY Invariance, InvariantSuffices, PTL

(* The text index holds the present tokens of a document, and no older     *)
(* ones, in every field that still has tokens.                             *)
THEOREM TextIndexFollowsReplacement == Spec => []TextIndexIsFresh
<1>. QED
  BY Invariance, InvariantSuffices, PTL
=============================================================================
