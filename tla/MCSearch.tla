------------------------------ MODULE MCSearch ------------------------------
(***************************************************************************)
(* SearchIndex for TLC: a text, a keyword and a number field; strings with *)
(* one token, another token, none (punctuation), and one that is too long. *)
(***************************************************************************)
EXTENDS SearchIndex, TLC

CONSTANTS dog, cat, dashes, huge

MCTokens == [s \in Strings |-> CASE s = dog -> {"dog"} [] s = cat -> {"cat"}
                                 [] OTHER -> {}]

(* The usual configuration, and one in which body and tag change roles.    *)
Field(ty) == [type |-> ty, searchable |-> TRUE, boost |-> "finite"]

MCConfigs ==
    {[body |-> Field("text"), tag |-> Field("keyword"), dose |-> Field("number")],
     [body |-> Field("keyword"), tag |-> Field("text"), dose |-> Field("number")]}

MCDocs ==
    {[body |-> {dog}, tag |-> {dog}, dose |-> {1}],
     [body |-> {dog, cat}, tag |-> {cat}, dose |-> {2}],
     [body |-> {dashes}, tag |-> {1}],
     [body |-> {huge}, tag |-> {dog}, dose |-> {2}]}

MCLong == {{huge}}

MCQueries ==
    {[text |-> {[field |-> AnyField, term |-> "dog"]}, filters |-> {}],
     [text |-> {}, filters |-> {[type |-> "keyword", field |-> "tag", keys |-> {dog}]}],
     [text |-> {[field |-> "body", term |-> "cat"]},
      filters |-> {[type |-> "number", field |-> "dose", keys |-> {2}]}]}

Symmetry == Permutations(Ids)
=============================================================================
