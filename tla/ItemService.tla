----------------------------- MODULE ItemService ----------------------------
(***************************************************************************)
(* What the demo's handlers can be relied on for, seen by its clients: the *)
(* items are numbered as they are created, and each call takes effect at   *)
(* one moment between its arrival and its answer, on all the items of that *)
(* moment.  No mutex, worker, body or log shows in an answer; only a call  *)
(* that has nothing to do with the items may end without one.              *)
(***************************************************************************)
EXTENDS Naturals

CONSTANTS Tasks, Requests

VARIABLES stored,  \* how many items there are: their ids are 1..stored
          call     \* [stage, request, status, shown] of each task

svars == <<stored, call>>

CallAt(stage, request, status, shown) ==
    [stage |-> stage, request |-> request, status |-> status, shown |-> shown]

NoCall == CallAt("none", {}, 0, {})

SInit ==
    /\ stored = 0
    /\ call = [c \in Tasks |-> NoCall]

Begin(c) ==
    /\ call[c].stage = "none"
    /\ \E r \in Requests : call' = [call EXCEPT ![c] = CallAt("called", {r}, 0, {})]
    /\ UNCHANGED stored

Asks(c, ops) == \A r \in call[c].request : r.op \in ops

Decide(c, status, shown) ==
    call' = [call EXCEPT ![c] = CallAt("decided", call[c].request, status, shown)]

Create(c) ==
    /\ Asks(c, {"create"})
    /\ stored' = stored + 1
    /\ Decide(c, 201, {stored + 1})

List(c) ==
    /\ Asks(c, {"list"})
    /\ Decide(c, 200, 1..stored)
    /\ UNCHANGED stored

Get(c) ==
    /\ Asks(c, {"get"})
    /\ \E r \in call[c].request :
           IF r.id \in 1..stored THEN Decide(c, 200, {r.id}) ELSE Decide(c, 404, {})
    /\ UNCHANGED stored

(* A list is never refused.                                                *)
Refuse(c) ==
    /\ ~Asks(c, {"list"})
    /\ \E status \in {400, 413} : Decide(c, status, {})
    /\ UNCHANGED stored

(* Calls that do not ask for the items, and show none; these may fail.     *)
Otherwise(c) ==
    /\ ~Asks(c, {"create", "list", "get"})
    /\ \/ \E status \in {200, 404} : Decide(c, status, {})
       \/ call' = [call EXCEPT ![c] = NoCall]
    /\ UNCHANGED stored

Return(c) ==
    /\ call[c].stage = "decided"
    /\ call' = [call EXCEPT ![c] = NoCall]
    /\ UNCHANGED stored

TakeEffect(c) ==
    /\ call[c].stage = "called"
    /\ Create(c) \/ List(c) \/ Get(c) \/ Refuse(c) \/ Otherwise(c)

(* Every step moves a call on.                                             *)
SNext ==
    \E c \in Tasks :
        /\ call'[c] # call[c]
        /\ Begin(c) \/ TakeEffect(c) \/ Return(c)

SSpec == SInit /\ [][SNext]_svars
=============================================================================
