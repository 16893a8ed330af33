---------------------------- MODULE SearchIndex -----------------------------
(***************************************************************************)
(* One collection of mini-search's Engine: the stored documents, the field *)
(* configuration, and the three indexes that add_document() maintains and  *)
(* search() reads (text postings, numeric keys, exact values).             *)
(*                                                                         *)
(* Data.  A string is a member of Strings, Tokens[s] is what the tokenizer *)
(* makes of it.  A JSON value is a set: {s} is a string, a larger set of   *)
(* strings an array, {n} with n \in Numbers a number; Long holds those     *)
(* whose joined text is above MAX_QUERY_BYTES, which the tokenizer         *)
(* refuses.  A document maps some of Fields to values.  The field types    *)
(* with the same treatment are one: "text" is Text and TextArray,          *)
(* "keyword" Keyword, Tags and Boolean, "number" Integer, Float and Date.  *)
(* Scores are left out: which of the candidates survive the cut at         *)
(* MaxResults is a choice.  Of a field's boosts only whether they are all  *)
(* finite numbers is kept, which SearchPersist needs.                      *)
(***************************************************************************)
EXTENDS Naturals, FiniteSets

CONSTANTS
    Ids, Fields, Strings, Numbers, Terms,
    Tokens,      \* Tokens[s]: the terms of string s
    Long,        \* values whose text the tokenizer refuses
    Docs,        \* the documents a caller adds
    Configs,     \* the configurations a caller sets
    None,        \* no configuration, no document
    MaxResults,  \* MAX_RESULTS
    Queries      \* the queries the properties are about

FieldConfig == [type : {"text", "keyword", "number"}, searchable : BOOLEAN,
                boost : {"finite", "nonfinite"}]

ASSUME DataAssumption ==
    /\ Tokens \in [Strings -> SUBSET Terms]
    /\ Long \subseteq SUBSET Strings \ {{}}
    /\ \A d \in Docs : /\ DOMAIN d \subseteq Fields
                       /\ \A f \in DOMAIN d :
                            d[f] \in SUBSET Strings \union {{n} : n \in Numbers}
    /\ \A c \in Configs : /\ DOMAIN c \subseteq Fields
                          /\ \A f \in DOMAIN c : c[f] \in FieldConfig
    /\ None \notin Configs
    /\ None \notin Docs
    /\ MaxResults \in Nat

VARIABLES
    cfgs,        \* field_configs of the collection, None before it is set
    documents,   \* documents[i]: the stored document, None for none
    postings,    \* postings[f][t][i]: entries of document i under term t
    lengths,     \* lengths[f]: the documents with a length in field f
    numeric,     \* numeric index: <<field, number, id>>
    exact,       \* exact index: <<field, string, id>>
    addedUnder,  \* history: the configuration of i's last successful add
    torn         \* history: ids whose last add failed half way

vars == <<cfgs, documents, postings, lengths, numeric, exact, addedUnder, torn>>

Stored == {i \in Ids : documents[i] # None}

NoPostings == [f \in Fields |-> [t \in Terms |-> [i \in Ids |-> 0]]]

Init ==
    /\ cfgs = None
    /\ documents = [i \in Ids |-> None]
    /\ postings = NoPostings
    /\ lengths = [f \in Fields |-> {}]
    /\ numeric = {}
    /\ exact = {}
    /\ addedUnder = [i \in Ids |-> None]
    /\ torn = {}
-----------------------------------------------------------------------------
(* Which fields go where.                                                  *)

TextFields(c) == {f \in DOMAIN c : c[f].type = "text" /\ c[f].searchable}

FieldsOfType(c, ty) == {f \in DOMAIN c : c[f].type = ty}

TokensOf(v) == UNION {Tokens[s] : s \in v \intersect Strings}

Oversized(v) == v \in Long

ToIndex(c, d) == TextFields(c) \intersect DOMAIN d

Refused(c, d) == {f \in ToIndex(c, d) : Oversized(d[f])}
-----------------------------------------------------------------------------
(* InvertedIndex: what is done to the postings of one field.               *)

RemoveDoc(terms, i) == [t \in Terms |-> [terms[t] EXCEPT ![i] = 0]]

(* Mutant: the old entries of the document are kept.                       *)
PushOnly(terms, i, toks) ==
    [t \in Terms |-> IF t \in toks THEN [terms[t] EXCEPT ![i] = @ + 1] ELSE terms[t]]

(* Mutant: the document stays listed under the terms it no longer has.     *)
KeepOldTerms(terms, i, toks) ==
    [t \in Terms |-> IF t \in toks THEN [terms[t] EXCEPT ![i] = 1] ELSE terms[t]]

InsertTokens(terms, i, toks) ==
    LET cleared == RemoveDoc(terms, i)
    IN  [t \in Terms |-> IF t \in toks THEN [cleared[t] EXCEPT ![i] = @ + 1]
                                       ELSE cleared[t]]

(* A field that yields no token is skipped: what the index held of the     *)
(* document under that field stays.                                        *)
Yields(d, f) == TokensOf(d[f]) # {}

IndexText(p, i, d, fs) ==
    [f \in Fields |-> IF f \in fs /\ Yields(d, f)
                      THEN InsertTokens(p[f], i, TokensOf(d[f]))
                      ELSE p[f]]

(* Mutant: a length is recorded for a field without tokens too.            *)
RecordAllLengths(l, i, d, fs) ==
    [f \in Fields |-> IF f \in fs THEN l[f] \union {i} ELSE l[f]]

RecordLengths(l, i, d, fs) ==
    [f \in Fields |-> IF f \in fs /\ Yields(d, f) THEN l[f] \union {i} ELSE l[f]]

NumericEntries(c, i, d) ==
    UNION {{<<f, n, i>> : n \in d[f] \intersect Numbers} :
             f \in FieldsOfType(c, "number") \intersect DOMAIN d}

(* Mutant: what is not a string is entered as well.                        *)
ExactEntriesOfAnything(c, i, d) ==
    UNION {{<<f, s, i>> : s \in d[f]} :
             f \in FieldsOfType(c, "keyword") \intersect DOMAIN d}

(* A Boolean field enters "true" or "false", which are strings here, and   *)
(* no array, as Keyword and Tags do.                                       *)
ExactEntries(c, i, d) ==
    UNION {{<<f, s, i>> : s \in d[f] \intersect Strings} :
             f \in FieldsOfType(c, "keyword") \intersect DOMAIN d}
-----------------------------------------------------------------------------
(* The operations.                                                         *)

(* Replaces the configuration; what is indexed stays as it is.             *)
ConfigureFields(c) ==
    /\ cfgs' = c
    /\ UNCHANGED <<documents, postings, lengths, numeric, exact, addedUnder, torn>>

(* Mutant: the filter entries of the id are cleared for the fields the new *)
(* document has, but after they were inserted.                             *)
AddDocumentClearsLate(i, d) ==
    /\ cfgs # None
    /\ Refused(cfgs, d) = {}
    /\ postings' = IndexText(postings, i, d, ToIndex(cfgs, d))
    /\ lengths' = RecordLengths(lengths, i, d, ToIndex(cfgs, d))
    /\ numeric' = {e \in numeric : e[3] # i \/ e[1] \notin DOMAIN d}
    /\ exact' = exact \union ExactEntries(cfgs, i, d)
    /\ documents' = [documents EXCEPT ![i] = d]
    /\ addedUnder' = [addedUnder EXCEPT ![i] = cfgs]
    /\ torn' = torn \ {i}
    /\ UNCHANGED cfgs

(* add_document() that succeeds.  The numeric and exact indexes only grow. *)
AddDocument(i, d) ==
    /\ cfgs # None
    /\ Refused(cfgs, d) = {}
    /\ postings' = IndexText(postings, i, d, ToIndex(cfgs, d))
    /\ lengths' = RecordLengths(lengths, i, d, ToIndex(cfgs, d))
    /\ numeric' = numeric \union NumericEntries(cfgs, i, d)
    /\ exact' = exact \union ExactEntries(cfgs, i, d)
    /\ documents' = [documents EXCEPT ![i] = d]
    /\ addedUnder' = [addedUnder EXCEPT ![i] = cfgs]
    /\ torn' = torn \ {i}
    /\ UNCHANGED cfgs

(* Mutant: the document is stored before its text is indexed.              *)
AddDocumentFailsStored(i, d) ==
    /\ cfgs # None
    /\ Refused(cfgs, d) # {}
    /\ documents' = [documents EXCEPT ![i] = d]
    /\ addedUnder' = [addedUnder EXCEPT ![i] = cfgs]
    /\ torn' = torn \union {i}
    /\ UNCHANGED <<cfgs, postings, lengths, numeric, exact>>

(* add_document() with a text field the tokenizer refuses.  The fields     *)
(* come out of a HashMap in any order: those before the refused one have   *)
(* been indexed when the error is returned.                                *)
AddDocumentFails(i, d) ==
    /\ cfgs # None
    /\ Refused(cfgs, d) # {}
    /\ \E before \in SUBSET (ToIndex(cfgs, d) \ Refused(cfgs, d)) :
          /\ postings' = IndexText(postings, i, d, before)
          /\ lengths' = RecordLengths(lengths, i, d, before)
    /\ torn' = torn \union {i}
    /\ UNCHANGED <<cfgs, documents, numeric, exact, addedUnder>>

Next ==
    \/ \E c \in Configs : ConfigureFields(c)
    \/ \E i \in Ids, d \in Docs : AddDocument(i, d) \/ AddDocumentFails(i, d)

Spec == Init /\ [][Next]_vars
-----------------------------------------------------------------------------
(* search(), which reads.  A clause is [field, term], the field AnyField   *)
(* every text field; a filter is [type, field, keys]: the ids under any of *)
(* its keys (a comparison or a range has several, an exact filter one).    *)
(* ix is the indexes searched: [postings, numeric, exact].                 *)

AnyField == "any field"

Current == [postings |-> postings, numeric |-> numeric, exact |-> exact]

ValidFilter(fl) ==
    /\ fl.field \in DOMAIN cfgs
    /\ fl.type = "number" => cfgs[fl.field].type = "number"

ClauseFields(cl) ==
    {f \in TextFields(cfgs) : cl.field \in {AnyField, f}}

TextCandidates(q, ix) ==
    {i \in Ids : \E cl \in q.text : \E f \in ClauseFields(cl) :
                    ix.postings[f][cl.term][i] > 0}

(* compare() and range(): keys has the numbers the comparison allows.      *)
NumericMatches(fl, ix) ==
    {i \in Ids : \E n \in fl.keys : <<fl.field, n, i>> \in ix.numeric}

(* matching(): keys has the one string that is asked for.                  *)
ExactMatches(fl, ix) ==
    {i \in Ids : \E s \in fl.keys : <<fl.field, s, i>> \in ix.exact}

FilterMatches(fl, ix) ==
    IF fl.type = "number" THEN NumericMatches(fl, ix) ELSE ExactMatches(fl, ix)

Candidates(q, ix) ==
    {i \in Ids :
        /\ q.text # {} => i \in TextCandidates(q, ix)
        /\ \A fl \in q.filters : i \in FilterMatches(fl, ix)
        /\ q.text = {} /\ q.filters = {} => i \in Stored}

(* The cut comes before the ids without a document are dropped.  Without   *)
(* any document the answer is NotFound.                                    *)
Outcomes(q, ix) ==
    LET found == Candidates(q, ix)
        kept == {s \in SUBSET found :
                   \/ s = found /\ Cardinality(found) <= MaxResults
                   \/ Cardinality(s) = MaxResults}
    IN  IF Stored = {} THEN {None} ELSE {s \intersect Stored : s \in kept}
-----------------------------------------------------------------------------
(* What the indexes of the stored documents should be, built from nothing, *)
(* as Engine::open() does.                                                 *)

Openable == cfgs # None /\ \A i \in Stored : Refused(cfgs, documents[i]) = {}

ShouldPost(f, t, i) ==
    /\ i \in Stored
    /\ f \in ToIndex(cfgs, documents[i])
    /\ t \in TokensOf(documents[i][f])

Rebuilt ==
    [postings |-> [f \in Fields |-> [t \in Terms |->
                     [i \in Ids |-> IF ShouldPost(f, t, i) THEN 1 ELSE 0]]],
     numeric |-> UNION {NumericEntries(cfgs, i, documents[i]) : i \in Stored},
     exact |-> UNION {ExactEntries(cfgs, i, documents[i]) : i \in Stored}]
-----------------------------------------------------------------------------
TypeOK ==
    /\ cfgs \in Configs \union {None}
    /\ documents \in [Ids -> Docs \union {None}]
    /\ postings \in [Fields -> [Terms -> [Ids -> Nat]]]
    /\ lengths \in [Fields -> SUBSET Ids]
    /\ numeric \subseteq Fields \X Numbers \X Ids
    /\ exact \subseteq Fields \X Strings \X Ids
    /\ addedUnder \in [Ids -> Configs \union {None}]
    /\ torn \subseteq Ids

(* A document is entered at most once under a term, whatever is added      *)
(* again or fails: doc_freq counts documents (tests/index.rs:71).          *)
EnteredOnce ==
    \A f \in Fields, t \in Terms, i \in Ids : postings[f][t][i] <= 1

(* A document has a length in a field exactly when it has a posting there: *)
(* the two maps the score divides one by the other never disagree.         *)
LengthsMatchPostings ==
    \A f \in Fields, i \in Ids :
        i \in lengths[f] <=> \E t \in Terms : postings[f][t][i] > 0

(* Filters miss nothing: a stored document that was added under the        *)
(* present configuration is found under its own keys, also after it was    *)
(* replaced and after a later add of it failed.                            *)
FiltersMissNothing ==
    \A i \in Stored : addedUnder[i] = cfgs =>
        /\ NumericEntries(cfgs, i, documents[i]) \subseteq numeric
        /\ ExactEntries(cfgs, i, documents[i]) \subseteq exact

(* The postings of a stored document are those of its present text, in     *)
(* every field that has tokens, unless its last add failed half way.       *)
TextIndexIsFresh ==
    \A i \in Stored \ torn : addedUnder[i] = cfgs =>
        \A f \in ToIndex(cfgs, documents[i]) : Yields(documents[i], f) =>
            \A t \in Terms :
                postings[f][t][i] > 0 <=> t \in TokensOf(documents[i][f])

(* What stays true while another configuration is set: each document is    *)
(* indexed as the configuration it was added under asks.                   *)
FiltersCover ==
    \A i \in Stored :
        /\ addedUnder[i] # None
        /\ NumericEntries(addedUnder[i], i, documents[i]) \subseteq numeric
        /\ ExactEntries(addedUnder[i], i, documents[i]) \subseteq exact

PostingsFollow ==
    \A i \in Stored \ torn :
        \A f \in ToIndex(addedUnder[i], documents[i]) : Yields(documents[i], f) =>
            \A t \in Terms :
                postings[f][t][i] > 0 <=> t \in TokensOf(documents[i][f])

(* The inductive invariant of SearchIndexProof.                            *)
IInv ==
    /\ TypeOK
    /\ EnteredOnce
    /\ LengthsMatchPostings
    /\ FiltersCover
    /\ PostingsFollow

(* tests/persist.rs:33 "round_trip_reproduces_search_results": the indexes *)
(* open() builds from what save() wrote answer every query as before; said *)
(* only of an engine without a failed add, whose documents all came in     *)
(* under the present configuration.                                        *)
RoundTripReproducesSearchResults ==
    (Openable /\ torn = {} /\ \A i \in Stored : addedUnder[i] = cfgs)
        => \A q \in Queries : (\A fl \in q.filters : ValidFilter(fl))
                => Outcomes(q, Current) = Outcomes(q, Rebuilt)
=============================================================================
