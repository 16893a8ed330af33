------------------------------- MODULE MCDemo -------------------------------
(***************************************************************************)
(* Demo for TLC: a request for every operation, and for each kind of       *)
(* refusal: a body too large, a blank name, an id that is no number, a     *)
(* query that does not parse and one that panics.                          *)
(***************************************************************************)
EXTENDS Demo

NoBody == [declared |-> {}, size |-> 0, kind |-> "good"]
Sent(declared, size, kind) == [declared |-> declared, size |-> size, kind |-> kind]

Do(op, id, body, query) == [op |-> op, id |-> id, body |-> body, query |-> query]

MCRequests ==
    {Do(op, 0, NoBody, "good") : op \in {"health", "list", "seed", "documents", "explain"}}
        \cup {Do("get", id, NoBody, "good") : id \in 0..1}
        \cup {Do("create", 0, b, "good") :
                b \in {Sent({1}, 1, "good"), Sent({}, 1, "refused"), Sent({2}, 2, "good")}}
        \cup {Do("echo", 0, Sent({}, 1, "good"), "good")}
        \cup {Do("search", 0, NoBody, q) : q \in {"malformed", "inverted"}}
=============================================================================
