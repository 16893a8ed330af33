----------------------------- MODULE ServeLoop ------------------------------
(***************************************************************************)
(* The accept loops of mini-serve (`serve_inner`, `serve_with_shutdown`    *)
(* and their TLS twins) and of mini-static, with the connection tasks they *)
(* spawn.  The loop accepts a connection, takes one of MaxConnections      *)
(* semaphore permits, and spawns a task that owns the permit until it      *)
(* ends.  With graceful shutdown the tasks live in a JoinSet, and          *)
(* `tokio::select!` picks any ready branch: accept, shutdown, join_next.   *)
(*                                                                         *)
(* The four variants of the loop differ only in the constants:             *)
(*   HasShutdown  serve_with_shutdown (TRUE) or serve_inner (FALSE)        *)
(*   UseTls       the task starts with a TLS handshake                     *)
(*   HasTimer     hyper closes a connection whose next request head does   *)
(*                not arrive within header_read_timeout (mini-serve);      *)
(*                mini-static gives hyper no timer                         *)
(*                                                                         *)
(* A failed accept() is `continue`: a step that changes nothing, so it is  *)
(* not an action.  The semaphore is never closed, so acquire_owned() only  *)
(* waits.  The requests of a connection come one after the other; what     *)
(* HTTP/2 (mini-static) multiplexes counts as one request here.            *)
(* Nothing bounds the time a TLS handshake or a request takes once its     *)
(* head is read: the server waits for the client, however long it is       *)
(* silent.  `Stall` is the client's step into such a silence.              *)
(* A Conns member is a slot: it is used again by a later client once its   *)
(* task has ended.                                                         *)
(***************************************************************************)
EXTENDS Naturals, FiniteSets

CONSTANTS
    Conns,           \* connection slots
    MaxConnections,  \* with_max_connections: permits of the semaphore
    MaxRequests,     \* bound: requests one client sends on a connection
    HasShutdown, UseTls, HasTimer

ASSUME ConnsAssumption == IsFiniteSet(Conns)
ASSUME LimitAssumption == MaxConnections \in Nat
ASSUME ClientAssumption == MaxRequests \in Nat
ASSUME VariantAssumption == {HasShutdown, UseTls, HasTimer} \subseteq BOOLEAN

VARIABLES
    loop,       \* where the loop is: "select", "acquire" or "returned"
    fired,      \* the shutdown future has completed
    initiated,  \* the loop's shutdown_initiated
    permits,    \* free permits of the semaphore
    conn,       \* conn[c]: where connection c is
    gone,       \* connections whose client has closed its end
    reqs,       \* reqs[c]: requests read from connection c
    finished    \* slots with an ended task the JoinSet still holds

vars == <<loop, fired, initiated, permits, conn, gone, reqs, finished>>

ServedState ==
    {"handshake",  \* TLS is being set up
     "idle",       \* the server waits for the head of a request
     "handling",   \* a request is being read or answered
     "stalled"}    \* the same, but its client has fallen silent

ConnState ==
    {"absent",     \* no client
     "backlog",    \* in the listener's queue
     "pending",    \* accepted; the loop waits for a permit for it
     "reset"}      \* closed by the kernel when the listener is dropped
    \union ServedState

(* The connections whose task runs, each holding a permit.                 *)
Serving == {c \in Conns : conn[c] \in ServedState}

Init ==
    /\ loop = "select"
    /\ fired = FALSE
    /\ initiated = FALSE
    /\ permits = MaxConnections
    /\ conn = [c \in Conns |-> "absent"]
    /\ gone = {}
    /\ reqs = [c \in Conns |-> 0]
    /\ finished = {}
-----------------------------------------------------------------------------
(* Clients and the shutdown signal.                                        *)

Connect(c) ==
    /\ loop # "returned"
    /\ conn[c] = "absent"
    /\ conn' = [conn EXCEPT ![c] = "backlog"]
    /\ UNCHANGED <<loop, fired, initiated, permits, gone, reqs, finished>>

(* The client closes.  What it sent before may still be read, so a gone    *)
(* client's request can still begin.                                       *)
Leave(c) ==
    /\ conn[c] \in {"backlog", "pending"} \union ServedState
    /\ c \notin gone
    /\ gone' = gone \union {c}
    /\ UNCHANGED <<loop, fired, initiated, permits, conn, reqs, finished>>

(* In the middle of a request its client falls silent: the rest of the     *)
(* body does not come, or the response is not read, or it is a stream of   *)
(* events that has no end.  That lasts until the client closes; a silence  *)
(* that ends is a long "handling".                                         *)
Stall(c) ==
    /\ conn[c] = "handling"
    /\ c \notin gone
    /\ conn' = [conn EXCEPT ![c] = "stalled"]
    /\ UNCHANGED <<loop, fired, initiated, permits, gone, reqs, finished>>

Signal ==
    /\ HasShutdown
    /\ ~fired
    /\ fired' = TRUE
    /\ UNCHANGED <<loop, initiated, permits, conn, gone, reqs, finished>>
-----------------------------------------------------------------------------
(* The loop.  Between accept() and the spawn it awaits only the permit.    *)

(* Mutant: the permit is awaited in the background, the loop accepts on.    *)
AcceptWhileWaiting(c) ==
    /\ loop \in {"select", "acquire"}
    /\ ~initiated
    /\ conn[c] = "backlog"
    /\ loop' = "acquire"
    /\ conn' = [conn EXCEPT ![c] = "pending"]
    /\ UNCHANGED <<fired, initiated, permits, gone, reqs, finished>>

(* Mutant: the accept branch without its `if !shutdown_initiated`.         *)
AcceptWhileDraining(c) ==
    /\ loop = "select"
    /\ conn[c] = "backlog"
    /\ loop' = "acquire"
    /\ conn' = [conn EXCEPT ![c] = "pending"]
    /\ UNCHANGED <<fired, initiated, permits, gone, reqs, finished>>

Accept(c) ==
    /\ loop = "select"
    /\ ~initiated
    /\ conn[c] = "backlog"
    /\ loop' = "acquire"
    /\ conn' = [conn EXCEPT ![c] = "pending"]
    /\ UNCHANGED <<fired, initiated, permits, gone, reqs, finished>>

(* Mutant: the task is spawned without a permit of its own.                *)
SpawnWithoutPermit(c) ==
    /\ loop = "acquire"
    /\ conn[c] = "pending"
    /\ permits' = permits - 1
    /\ conn' = [conn EXCEPT ![c] = IF UseTls THEN "handshake" ELSE "idle"]
    /\ loop' = "select"
    /\ UNCHANGED <<fired, initiated, gone, reqs, finished>>

(* acquire_owned() resolves and the task is spawned in the same poll.      *)
AcquireAndSpawn(c) ==
    /\ loop = "acquire"
    /\ conn[c] = "pending"
    /\ permits > 0
    /\ permits' = permits - 1
    /\ conn' = [conn EXCEPT ![c] = IF UseTls THEN "handshake" ELSE "idle"]
    /\ loop' = "select"
    /\ UNCHANGED <<fired, initiated, gone, reqs, finished>>

(* Mutant: the wait for a permit is raced against the shutdown, and losing *)
(* the race drops the stream in hand.                                      *)
TakeShutdownDropsPending ==
    /\ loop \in {"select", "acquire"}
    /\ fired
    /\ ~initiated
    /\ initiated' = TRUE
    /\ loop' = "select"
    /\ conn' = [c \in Conns |-> IF conn[c] = "pending" THEN "reset" ELSE conn[c]]
    /\ UNCHANGED <<fired, permits, gone, reqs, finished>>

TakeShutdown ==
    /\ loop = "select"
    /\ fired
    /\ ~initiated
    /\ initiated' = TRUE
    /\ UNCHANGED <<loop, fired, permits, conn, gone, reqs, finished>>

JoinNext(c) ==
    /\ loop = "select"
    /\ initiated
    /\ c \in finished
    /\ finished' = finished \ {c}
    /\ UNCHANGED <<loop, fired, initiated, permits, conn, gone, reqs>>

(* Mutant: the loop breaks as soon as no task has yet to be joined, and    *)
(* dropping the JoinSet aborts those that run.                             *)
ReturnWithoutDraining ==
    /\ loop = "select"
    /\ initiated
    /\ finished = {}
    /\ loop' = "returned"
    /\ conn' = [c \in Conns |-> CASE conn[c] = "backlog" -> "reset"
                                  [] conn[c] \in ServedState -> "absent"
                                  [] OTHER -> conn[c]]
    /\ permits' = MaxConnections
    /\ UNCHANGED <<fired, initiated, gone, reqs, finished>>

(* select!'s else branch: every branch is disabled, join_next() because    *)
(* the set is empty.  Returning drops the listener, which resets what is   *)
(* left in its queue.                                                      *)
Return ==
    /\ loop = "select"
    /\ initiated
    /\ Serving = {}
    /\ finished = {}
    /\ loop' = "returned"
    /\ conn' = [c \in Conns |-> IF conn[c] = "backlog" THEN "reset" ELSE conn[c]]
    /\ UNCHANGED <<fired, initiated, permits, gone, reqs, finished>>
-----------------------------------------------------------------------------
(* The connection tasks.                                                   *)

(* Mutant: the permit of a task whose client left is never given back.     *)
EndTaskLeaksPermit(c) ==
    /\ permits' = IF c \in gone THEN permits ELSE permits + 1
    /\ conn' = [conn EXCEPT ![c] = "absent"]
    /\ gone' = gone \ {c}
    /\ reqs' = [reqs EXCEPT ![c] = 0]
    /\ finished' = IF HasShutdown THEN finished \union {c} ELSE finished
    /\ UNCHANGED <<loop, fired, initiated>>

(* The task of c ends, however it ends: its permit is dropped with it, and *)
(* the JoinSet keeps the handle until join_next().  serve_inner detaches   *)
(* its tasks.                                                              *)
EndTask(c) ==
    /\ permits' = permits + 1
    /\ conn' = [conn EXCEPT ![c] = "absent"]
    /\ gone' = gone \ {c}
    /\ reqs' = [reqs EXCEPT ![c] = 0]
    /\ finished' = IF HasShutdown THEN finished \union {c} ELSE finished
    /\ UNCHANGED <<loop, fired, initiated>>

HandshakeDone(c) ==
    /\ conn[c] = "handshake"
    /\ conn' = [conn EXCEPT ![c] = "idle"]
    /\ UNCHANGED <<loop, fired, initiated, permits, gone, reqs, finished>>

HandshakeFails(c) ==
    /\ conn[c] = "handshake"
    /\ EndTask(c)

BeginRequest(c) ==
    /\ conn[c] = "idle"
    /\ reqs[c] < MaxRequests
    /\ conn' = [conn EXCEPT ![c] = "handling"]
    /\ reqs' = [reqs EXCEPT ![c] = @ + 1]
    /\ UNCHANGED <<loop, fired, initiated, permits, gone, finished>>

(* The response is written; the connection is kept alive.                  *)
FinishRequest(c) ==
    /\ conn[c] = "handling"
    /\ conn' = [conn EXCEPT ![c] = "idle"]
    /\ UNCHANGED <<loop, fired, initiated, permits, gone, reqs, finished>>

(* The response is written and the connection is not kept alive.           *)
FinishAndClose(c) ==
    /\ conn[c] = "handling"
    /\ EndTask(c)

(* A panic in the handler, or in the stream that is its body, unwinds the  *)
(* task: join_next() yields an Err the loop ignores.                       *)
HandlerPanics(c) ==
    /\ conn[c] \in {"handling", "stalled"}
    /\ EndTask(c)

(* hyper sees the end of the stream; a handler in progress is dropped.     *)
PeerClosed(c) ==
    /\ c \in gone
    /\ conn[c] \in ServedState
    /\ EndTask(c)

(* Mutant: the timer covers the first request head only.                   *)
HeaderTimeoutFirstOnly(c) ==
    /\ HasTimer
    /\ conn[c] = "idle"
    /\ reqs[c] = 0
    /\ EndTask(c)

HeaderTimeout(c) ==
    /\ HasTimer
    /\ conn[c] = "idle"
    /\ EndTask(c)
-----------------------------------------------------------------------------
Client(c) == Connect(c) \/ Leave(c) \/ Stall(c)

Task(c) ==
    \/ HandshakeDone(c) \/ HandshakeFails(c)
    \/ BeginRequest(c) \/ FinishRequest(c) \/ FinishAndClose(c)
    \/ HandlerPanics(c) \/ PeerClosed(c) \/ HeaderTimeout(c)

Terminated == loop = "returned" /\ UNCHANGED vars

Next ==
    \/ \E c \in Conns : Client(c) \/ Task(c)
    \/ \E c \in Conns : Accept(c) \/ AcquireAndSpawn(c) \/ JoinNext(c)
    \/ Signal \/ TakeShutdown \/ Return \/ Terminated

Spec == Init /\ [][Next]_vars

(* What the runtime can be trusted with: the loop's own steps are taken    *)
(* when they stay possible.  select! polls its branches in random order,   *)
(* so a shutdown branch that is ready each time round is eventually the    *)
(* one taken: strong fairness.                                             *)
LoopFairness ==
    /\ SF_vars(TakeShutdown)
    /\ WF_vars(Return)
    /\ \A c \in Conns : WF_vars(AcquireAndSpawn(c)) /\ WF_vars(JoinNext(c))

(* The tasks: a request whose client keeps up its part is answered, an end *)
(* of stream is noticed, a timer fires.                                    *)
TaskFairness ==
    \A c \in Conns :
        /\ WF_vars(FinishRequest(c) \/ FinishAndClose(c))
        /\ WF_vars(PeerClosed(c))
        /\ WF_vars(HeaderTimeout(c))

(* An assumption on the clients, not on this code: a client that is silent *)
(* within a handshake or a request leaves some day.  The header timer does *)
(* not cover these waits and no other timer does, so one such client that  *)
(* never leaves holds its permit, and a drain, for ever: the TLS handshake *)
(* of app.rs:572, and what UPGRADE.md:829-833 says of a slow body.         *)
(* Nothing is assumed of a client that is silent between two requests.     *)
(* (MaxRequests assumes of all of them that they stop sending requests.)   *)
ClientFairness ==
    \A c \in Conns : WF_vars(conn[c] \in {"handshake", "stalled"} /\ Leave(c))

FairSpec == Spec /\ LoopFairness /\ TaskFairness /\ ClientFairness
-----------------------------------------------------------------------------
TypeOK ==
    /\ loop \in {"select", "acquire", "returned"}
    /\ fired \in BOOLEAN
    /\ initiated \in BOOLEAN
    /\ permits \in Nat
    /\ conn \in [Conns -> ConnState]
    /\ gone \in SUBSET Conns
    /\ reqs \in [Conns -> 0..MaxRequests]
    /\ finished \in SUBSET Conns

(* Every permit is free or owned by exactly one running task: none leaks   *)
(* on any of the ways a task can end, and none is given twice.  With it,   *)
(* never more than max_connections connections are served at once.         *)
PermitsConserved == permits + Cardinality(Serving) = MaxConnections

(* The loop holds at most one accepted connection that has no permit, and  *)
(* holds one exactly while it waits in acquire_owned(): a saturated server *)
(* has taken at most one connection off the listener's queue that it does  *)
(* not serve.                                                              *)
OneConnectionWaits ==
    /\ \A c, d \in Conns : conn[c] = "pending" /\ conn[d] = "pending" => c = d
    /\ loop = "acquire" <=> \E c \in Conns : conn[c] = "pending"

(* While it drains the loop holds no connection; it returns only from      *)
(* there, with nothing left to serve.                                      *)
DrainingHoldsNothing ==
    /\ initiated => loop # "acquire"
    /\ loop = "returned" => initiated /\ Serving = {}

(* The inductive invariant of ServeLoopProof.                              *)
IInv ==
    /\ TypeOK
    /\ PermitsConserved
    /\ OneConnectionWaits
    /\ DrainingHoldsNothing

(* Once the loop has noticed the shutdown, no connection is taken from the *)
(* listener and none starts to be served.                                  *)
NoAdmissionOnceInitiated ==
    [][initiated => /\ Serving' \subseteq Serving
                    /\ \A c \in Conns : conn'[c] = "pending" => conn[c] = "pending"]_vars

(* app.rs:622 "Stops accepting new connections immediately" when the       *)
(* shutdown future completes.                                              *)
StopsAcceptingImmediately == [][fired => Serving' \subseteq Serving]_vars

(* A connection the loop has accepted is served: neither the shutdown nor  *)
(* a full server makes it drop the connection it holds, and the permit it  *)
(* waits for comes, if those who hold one are no silent clients that never *)
(* leave (ClientFairness).                                                 *)
AcceptedIsServed ==
    \A c \in Conns : conn[c] = "pending" ~> conn[c] \in ServedState

(* bind_with_shutdown returns some time after the shutdown future          *)
(* completes (mini-serve README:332, mini-static README:91), whatever the  *)
(* clients do that hold idle connections, and if those that are silent     *)
(* within a handshake or a request leave some day (ClientFairness).        *)
ShutdownReturns == fired ~> loop = "returned"

(* The loop does what GracefulServer promises.                             *)
Phase == IF loop = "returned" THEN "stopped"
         ELSE IF initiated THEN "draining" ELSE "serving"

Graceful == INSTANCE GracefulServer WITH phase <- Phase, open <- Serving

ImplementsGracefulServer == Graceful!ASpec
=============================================================================
