-------------------------- MODULE MCSearchPersist ---------------------------
(***************************************************************************)
(* SearchPersist for TLC: the body is text or a keyword, so that a long    *)
(* body can be added under one configuration and not under the other; the  *)
(* other has a boost that is not finite, and one document has a field      *)
(* named "id" and is nested too deep.                                      *)
(***************************************************************************)
EXTENDS SearchPersist, TLC

CONSTANTS dog, cat, huge

MCTokens == [s \in Strings |-> CASE s = dog -> {"dog"} [] s = cat -> {"cat"}
                                 [] OTHER -> {}]

Field(ty, b) == [type |-> ty, searchable |-> TRUE, boost |-> b]

MCConfigs ==
    {[body |-> Field("text", "finite"), tag |-> Field("keyword", "finite")],
     [body |-> Field("keyword", "nonfinite")]}

MCDocs == {[body |-> {dog}, tag |-> {dog}], [body |-> {huge}],
           [body |-> {cat}, id |-> {dog}]}

MCLong == {{huge}}

MCDeep == {{cat}}

Symmetry == Permutations(Ids)
=============================================================================
