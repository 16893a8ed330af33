--------------------------- MODULE ServeLoopProof ---------------------------
(***************************************************************************)
(* The safety of the accept loop for any number of connections, any limit, *)
(* and each of its variants (TLS or not, timer or not, graceful or not).   *)
(*                                                                         *)
(* The only arithmetic is about Serving: a step adds one connection to it, *)
(* removes one, or leaves it.  ServingGains, ServingLoses and ServingStays *)
(* say so for a change of conn, and the step lemmas below say what each    *)
(* kind of step preserves.                                                 *)
(***************************************************************************)
EXTENDS ServeLoop, FiniteSetTheorems, TLAPS

(* Serving is finite, so its cardinality is a number.                      *)
LEMMA ServingFinite == IsFiniteSet(Serving) /\ Cardinality(Serving) \in Nat
<1>1. Serving \in SUBSET Conns
  BY DEF Serving
<1>2. IsFiniteSet(Serving)
  BY <1>1, ConnsAssumption, FS_Subset
<1>. QED
  BY <1>2, FS_CardinalityType

(* A connection that starts to be served adds one to the number served.    *)
LEMMA ServingGains ==
  ASSUME NEW c \in Conns, conn[c] \notin ServedState,
         conn'[c] \in ServedState, \A d \in Conns \ {c} : conn'[d] = conn[d]
  PROVE  /\ Serving' = Serving \union {c}
         /\ c \notin Serving
         /\ Cardinality(Serving') = Cardinality(Serving) + 1
<1>1. Serving' = Serving \union {c} /\ c \notin Serving
  BY DEF Serving
<1>. QED
  BY <1>1, ServingFinite, FS_AddElement

(* A connection that is served no longer takes one from it.                *)
LEMMA ServingLoses ==
  ASSUME NEW c \in Conns, conn[c] \in ServedState,
         conn'[c] \notin ServedState, \A d \in Conns \ {c} : conn'[d] = conn[d]
  PROVE  /\ Serving' = Serving \ {c}
         /\ c \in Serving
         /\ Cardinality(Serving') = Cardinality(Serving) - 1
<1>1. Serving' = Serving \ {c} /\ c \in Serving
  BY DEF Serving
<1>. QED
  BY <1>1, ServingFinite, FS_RemoveElement

(* Otherwise the set does not change.                                      *)
LEMMA ServingStays ==
  ASSUME \A d \in Conns : conn'[d] \in ServedState <=> conn[d] \in ServedState
  PROVE  Serving' = Serving
BY DEF Serving
-----------------------------------------------------------------------------
(* The end of a task, however it comes, keeps the invariant and takes its  *)
(* connection from those served.                                           *)
LEMMA EndTaskStep ==
  ASSUME IInv, NEW c \in Conns, conn[c] \in ServedState, EndTask(c)
  PROVE  IInv' /\ Serving' = Serving \ {c} /\ c \in Serving
<1>1. /\ Serving' = Serving \ {c}
      /\ c \in Serving
      /\ Cardinality(Serving') = Cardinality(Serving) - 1
  <2>1. conn' = [conn EXCEPT ![c] = "absent"] /\ conn \in [Conns -> ConnState]
    BY DEF EndTask, IInv, TypeOK
  <2>2. conn'[c] = "absent" /\ \A d \in Conns \ {c} : conn'[d] = conn[d]
    BY <2>1
  <2>3. conn'[c] \notin ServedState
    BY <2>2 DEF ServedState
  <2>. QED
    BY <2>2, <2>3, ServingLoses
<1>2. TypeOK'
  BY ClientAssumption DEF EndTask, IInv, TypeOK, ConnState
<1>3. PermitsConserved'
  BY <1>1, ServingFinite, LimitAssumption
     DEF EndTask, IInv, TypeOK, PermitsConserved
<1>4. OneConnectionWaits'
  BY DEF EndTask, IInv, TypeOK, OneConnectionWaits, ServedState
<1>5. DrainingHoldsNothing'
  BY <1>1 DEF EndTask, IInv, DrainingHoldsNothing
<1>. QED
  BY <1>1, <1>2, <1>3, <1>4, <1>5 DEF IInv

(* A step that moves one connection between states that are on the same    *)
(* side of being served, and is not about the wait for a permit, keeps     *)
(* the invariant and the set served.                                       *)
LEMMA MoveStep ==
  ASSUME IInv, NEW c \in Conns, NEW s \in ConnState \ {"pending"},
         conn' = [conn EXCEPT ![c] = s], conn[c] # "pending",
         s \in ServedState <=> conn[c] \in ServedState,
         reqs' \in [Conns -> 0..MaxRequests],
         UNCHANGED <<loop, fired, initiated, permits, gone, finished>>
  PROVE  IInv' /\ Serving' = Serving
<1>1. conn \in [Conns -> ConnState]
  BY DEF IInv, TypeOK
<1>2. Serving' = Serving
  BY <1>1, ServingStays
<1>3. TypeOK'
  BY <1>1 DEF IInv, TypeOK
<1>4. PermitsConserved'
  BY <1>2 DEF IInv, PermitsConserved
<1>5. OneConnectionWaits'
  BY <1>1 DEF IInv, OneConnectionWaits
<1>6. DrainingHoldsNothing'
  BY <1>2 DEF IInv, DrainingHoldsNothing
<1>. QED
  BY <1>2, <1>3, <1>4, <1>5, <1>6 DEF IInv

(* A step that leaves conn, loop and permits alone keeps the set served.   *)
LEMMA QuietStep ==
  ASSUME IInv, TypeOK', UNCHANGED <<loop, permits, conn>>,
         initiated' => initiated \/ loop = "select", initiated => initiated'
  PROVE  IInv' /\ Serving' = Serving
<1>1. Serving' = Serving
  BY DEF Serving
<1>2. PermitsConserved'
  BY <1>1 DEF IInv, PermitsConserved
<1>3. OneConnectionWaits' /\ DrainingHoldsNothing'
  BY <1>1 DEF IInv, OneConnectionWaits, DrainingHoldsNothing
<1>. QED
  BY <1>1, <1>2, <1>3 DEF IInv
-----------------------------------------------------------------------------
(* accept(): the loop takes hold of one connection and waits.              *)
LEMMA AcceptStep ==
  ASSUME IInv, NEW c \in Conns, Accept(c)
  PROVE  IInv' /\ Serving' = Serving
<1>1. conn \in [Conns -> ConnState] /\ conn' = [conn EXCEPT ![c] = "pending"]
  BY DEF Accept, IInv, TypeOK
<1>2. Serving' = Serving
  BY <1>1, ServingStays DEF Accept, ServedState
<1>3. TypeOK'
  BY DEF Accept, IInv, TypeOK, ConnState
<1>4. PermitsConserved'
  BY <1>2 DEF Accept, IInv, PermitsConserved
<1>5. OneConnectionWaits'
  BY <1>1 DEF Accept, IInv, OneConnectionWaits
<1>6. DrainingHoldsNothing'
  BY DEF Accept, DrainingHoldsNothing
<1>. QED
  BY <1>2, <1>3, <1>4, <1>5, <1>6 DEF IInv

(* The spawn: a permit is turned into a connection that is served.         *)
LEMMA SpawnStep ==
  ASSUME IInv, NEW c \in Conns, AcquireAndSpawn(c)
  PROVE  /\ IInv'
         /\ Serving' = Serving \union {c}
         /\ c \notin Serving
         /\ Cardinality(Serving) < MaxConnections
         /\ ~initiated
<1>1. PICK s \in {"handshake", "idle"} : conn' = [conn EXCEPT ![c] = s]
  BY DEF AcquireAndSpawn
<1>2. conn \in [Conns -> ConnState] /\ conn[c] = "pending"
  BY DEF AcquireAndSpawn, IInv, TypeOK
<1>3. conn'[c] = s /\ \A d \in Conns \ {c} : conn'[d] = conn[d]
  BY <1>1, <1>2
<1>4. /\ Serving' = Serving \union {c}
      /\ c \notin Serving
      /\ Cardinality(Serving') = Cardinality(Serving) + 1
  BY <1>2, <1>3, ServingGains DEF ServedState
<1>5. permits \in Nat /\ permits > 0 /\ permits' = permits - 1
  BY DEF AcquireAndSpawn, IInv, TypeOK
<1>6. TypeOK'
  BY <1>1, <1>5 DEF AcquireAndSpawn, IInv, TypeOK, ConnState, ServedState
<1>7. PermitsConserved' /\ Cardinality(Serving) < MaxConnections
  BY <1>4, <1>5, ServingFinite, LimitAssumption DEF IInv, PermitsConserved
<1>8. OneConnectionWaits'
  BY <1>2, <1>3 DEF AcquireAndSpawn, IInv, OneConnectionWaits
<1>9. DrainingHoldsNothing' /\ ~initiated
  BY DEF AcquireAndSpawn, IInv, DrainingHoldsNothing
<1>. QED
  BY <1>4, <1>6, <1>7, <1>8, <1>9 DEF IInv

(* The return: the set served is empty and stays so.                       *)
LEMMA ReturnStep ==
  ASSUME IInv, Return
  PROVE  IInv' /\ Serving' = Serving
<1>1. conn \in [Conns -> ConnState] /\ \A c \in Conns : conn[c] \notin ServedState
  BY DEF Return, IInv, TypeOK, Serving
<1>2. conn' = [c \in Conns |-> IF conn[c] = "backlog" THEN "reset" ELSE conn[c]]
  BY <1>1 DEF Return
<1>3. Serving' = Serving
  BY <1>1, <1>2, ServingStays DEF ServedState
<1>4. TypeOK'
  BY <1>1, <1>2 DEF Return, IInv, TypeOK, ConnState
<1>5. PermitsConserved'
  BY <1>3 DEF Return, IInv, PermitsConserved
<1>6. OneConnectionWaits'
  BY <1>1, <1>2 DEF Return, IInv, OneConnectionWaits
<1>7. DrainingHoldsNothing'
  BY <1>3 DEF Return, IInv, DrainingHoldsNothing
<1>. QED
  BY <1>3, <1>4, <1>5, <1>6, <1>7 DEF IInv
-----------------------------------------------------------------------------
(* A loop that starts serves nothing and has all its permits.              *)
LEMMA InitIInv == Init => IInv
<1> SUFFICES ASSUME Init PROVE IInv
  OBVIOUS
<1>1. TypeOK
  <2>1. conn \in [Conns -> ConnState]
    BY DEF Init, ConnState
  <2>2. reqs \in [Conns -> 0..MaxRequests]
    BY ClientAssumption DEF Init
  <2>. QED
    BY <2>1, <2>2, LimitAssumption DEF Init, TypeOK
<1>2. Serving = {}
  BY DEF Init, Serving, ServedState
<1>3. PermitsConserved
  BY <1>2, FS_EmptySet, LimitAssumption DEF Init, PermitsConserved
<1>4. OneConnectionWaits /\ DrainingHoldsNothing
  BY DEF Init, OneConnectionWaits, DrainingHoldsNothing
<1>. QED
  BY <1>1, <1>3, <1>4 DEF IInv

(* What any step does to the set served: it stays, one connection joins it *)
(* while the loop does not drain and the limit is not reached, or one      *)
(* leaves it.                                                              *)
ServingStep ==
    \/ Serving' = Serving
    \/ \E c \in Conns : /\ Serving' = Serving \union {c}
                        /\ c \notin Serving
                        /\ Cardinality(Serving) < MaxConnections
                        /\ loop = "acquire" /\ ~initiated
    \/ \E c \in Conns : c \in Serving /\ Serving' = Serving \ {c}

(* The steps of the clients.                                               *)
LEMMA ClientStep ==
  ASSUME IInv, NEW c \in Conns, Client(c)
  PROVE  IInv' /\ Serving' = Serving
<1>1. CASE Connect(c)
  <2>1. /\ "backlog" \in ConnState \ {"pending"}
        /\ ("backlog" \in ServedState <=> conn[c] \in ServedState)
        /\ conn[c] # "pending"
        /\ reqs' \in [Conns -> 0..MaxRequests]
    BY <1>1 DEF Connect, ConnState, ServedState, IInv, TypeOK
  <2>. QED
    BY <1>1, <2>1, MoveStep DEF Connect
<1>2. CASE Leave(c)
  <2>1. TypeOK'
    BY <1>2 DEF Leave, IInv, TypeOK
  <2>. QED
    BY <1>2, <2>1, QuietStep DEF Leave
<1>3. CASE Stall(c)
  <2>1. /\ "stalled" \in ConnState \ {"pending"}
        /\ ("stalled" \in ServedState <=> conn[c] \in ServedState)
        /\ conn[c] # "pending"
        /\ reqs' \in [Conns -> 0..MaxRequests]
    BY <1>3 DEF Stall, ConnState, ServedState, IInv, TypeOK
  <2>. QED
    BY <1>3, <2>1, MoveStep DEF Stall
<1>. QED
  BY <1>1, <1>2, <1>3 DEF Client

(* The steps of a connection's task.                                       *)
LEMMA TaskStep ==
  ASSUME IInv, NEW c \in Conns, Task(c)
  PROVE  IInv' /\ ServingStep
<1>1. CASE HandshakeDone(c)
  <2>1. /\ "idle" \in ConnState \ {"pending"}
        /\ ("idle" \in ServedState <=> conn[c] \in ServedState)
        /\ conn[c] # "pending"
        /\ reqs' \in [Conns -> 0..MaxRequests]
    BY <1>1 DEF HandshakeDone, ConnState, ServedState, IInv, TypeOK
  <2>. QED
    BY <1>1, <2>1, MoveStep DEF HandshakeDone, ServingStep
<1>2. CASE BeginRequest(c)
  <2>1. /\ "handling" \in ConnState \ {"pending"}
        /\ ("handling" \in ServedState <=> conn[c] \in ServedState)
        /\ conn[c] # "pending"
    BY <1>2 DEF BeginRequest, ConnState, ServedState
  <2>2. reqs' \in [Conns -> 0..MaxRequests]
    BY <1>2, ClientAssumption DEF BeginRequest, IInv, TypeOK
  <2>. QED
    BY <1>2, <2>1, <2>2, MoveStep DEF BeginRequest, ServingStep
<1>3. CASE FinishRequest(c)
  <2>1. /\ "idle" \in ConnState \ {"pending"}
        /\ ("idle" \in ServedState <=> conn[c] \in ServedState)
        /\ conn[c] # "pending"
        /\ reqs' \in [Conns -> 0..MaxRequests]
    BY <1>3 DEF FinishRequest, ConnState, ServedState, IInv, TypeOK
  <2>. QED
    BY <1>3, <2>1, MoveStep DEF FinishRequest, ServingStep
<1>4. CASE \/ HandshakeFails(c) \/ FinishAndClose(c) \/ HandlerPanics(c)
           \/ PeerClosed(c) \/ HeaderTimeout(c)
  <2>1. conn[c] \in ServedState /\ EndTask(c)
    BY <1>4 DEF HandshakeFails, FinishAndClose, HandlerPanics, PeerClosed,
                HeaderTimeout, ServedState
  <2>. QED
    BY <2>1, EndTaskStep DEF ServingStep
<1>. QED
  BY <1>1, <1>2, <1>3, <1>4 DEF Task

(* The steps of the loop and of the signal.                                *)
LEMMA LoopStep ==
  ASSUME IInv,
         \/ \E c \in Conns : Accept(c) \/ AcquireAndSpawn(c) \/ JoinNext(c)
         \/ Signal \/ TakeShutdown \/ Return \/ Terminated
  PROVE  IInv' /\ ServingStep
<1>1. ASSUME NEW c \in Conns, Accept(c)
      PROVE  IInv' /\ ServingStep
  BY <1>1, AcceptStep DEF ServingStep
<1>2. ASSUME NEW c \in Conns, AcquireAndSpawn(c)
      PROVE  IInv' /\ ServingStep
  <2>1. loop = "acquire"
    BY <1>2 DEF AcquireAndSpawn
  <2>. QED
    BY <1>2, <2>1, SpawnStep DEF ServingStep
<1>3. ASSUME NEW c \in Conns, JoinNext(c)
      PROVE  IInv' /\ ServingStep
  <2>1. TypeOK'
    BY <1>3 DEF JoinNext, IInv, TypeOK
  <2>. QED
    BY <1>3, <2>1, QuietStep DEF JoinNext, ServingStep
<1>4. CASE Signal
  <2>1. TypeOK'
    BY <1>4 DEF Signal, IInv, TypeOK
  <2>. QED
    BY <1>4, <2>1, QuietStep DEF Signal, ServingStep
<1>5. CASE TakeShutdown
  <2>1. TypeOK'
    BY <1>5 DEF TakeShutdown, IInv, TypeOK
  <2>. QED
    BY <1>5, <2>1, QuietStep DEF TakeShutdown, ServingStep
<1>6. CASE Return
  BY <1>6, ReturnStep DEF ServingStep
<1>7. CASE Terminated
  <2>1. TypeOK'
    BY <1>7 DEF Terminated, vars, IInv, TypeOK
  <2>. QED
    BY <1>7, <2>1, QuietStep DEF Terminated, vars, ServingStep
<1>. QED
  BY <1>1, <1>2, <1>3, <1>4, <1>5, <1>6, <1>7

(* Stuttering changes nothing.                                             *)
LEMMA StutterStep ==
  ASSUME IInv, UNCHANGED vars
  PROVE  IInv' /\ ServingStep
<1>1. TypeOK'
  BY DEF vars, IInv, TypeOK
<1>. QED
  BY <1>1, QuietStep DEF vars, ServingStep

(* Every step keeps the invariant, and changes Serving by one at most.     *)
LEMMA NextIInv == IInv /\ [Next]_vars => IInv' /\ ServingStep
<1> SUFFICES ASSUME IInv, [Next]_vars PROVE IInv' /\ ServingStep
  OBVIOUS
<1>1. ASSUME NEW c \in Conns, Client(c) PROVE IInv' /\ ServingStep
  BY <1>1, ClientStep DEF ServingStep
<1>2. ASSUME NEW c \in Conns, Task(c) PROVE IInv' /\ ServingStep
  BY <1>2, TaskStep
<1>. QED
  BY <1>1, <1>2, LoopStep, StutterStep DEF Next

(* The inductive invariant holds of every behaviour.                       *)
LEMMA Invariance == Spec => []IInv
<1>1. IInv /\ [Next]_vars => IInv'
  BY NextIInv
<1>. QED
  BY InitIInv, <1>1, PTL DEF Spec
-----------------------------------------------------------------------------
(* Every variable keeps its type; in particular the number of free permits *)
(* never goes below zero.                                                  *)
THEOREM TypeCorrect == Spec => []TypeOK
<1>1. IInv => TypeOK
  BY DEF IInv
<1>. QED
  BY Invariance, <1>1, PTL

(* No permit of the semaphore is lost or given twice, whatever the way a   *)
(* connection ends: app.rs:507-523, server.rs:334-361.                     *)
THEOREM PermitsAreConserved == Spec => []PermitsConserved
<1>1. IInv => PermitsConserved
  BY DEF IInv
<1>. QED
  BY Invariance, <1>1, PTL

(* At most one accepted connection is not served.                          *)
THEOREM AtMostOneWaits == Spec => []OneConnectionWaits
<1>1. IInv => OneConnectionWaits
  BY DEF IInv
<1>. QED
  BY Invariance, <1>1, PTL

(* No more than max_connections connections are served at once.            *)
THEOREM ServedWithinLimit == Spec => [](Cardinality(Serving) <= MaxConnections)
<1>1. IInv => Cardinality(Serving) <= MaxConnections
  BY ServingFinite, LimitAssumption DEF IInv, TypeOK, PermitsConserved
<1>. QED
  BY Invariance, <1>1, PTL
-----------------------------------------------------------------------------
(* Only accept() takes a connection off the queue, and not while draining. *)
LEMMA OnlyAcceptHolds ==
  ASSUME IInv, [Next]_vars, initiated, NEW c \in Conns, conn'[c] = "pending"
  PROVE  conn[c] = "pending"
<1>1. conn \in [Conns -> ConnState]
  BY DEF IInv, TypeOK
<1>2. ASSUME NEW d \in Conns, Client(d) PROVE conn[c] = "pending"
  BY <1>1, <1>2 DEF Client, Connect, Leave, Stall
<1>3. ASSUME NEW d \in Conns, Task(d) PROVE conn[c] = "pending"
  BY <1>1, <1>3 DEF Task, HandshakeDone, HandshakeFails, BeginRequest,
     FinishRequest, FinishAndClose, HandlerPanics, PeerClosed, HeaderTimeout, EndTask
<1>4. ASSUME NEW d \in Conns, Accept(d) \/ AcquireAndSpawn(d) \/ JoinNext(d)
      PROVE  conn[c] = "pending"
  BY <1>1, <1>4 DEF Accept, AcquireAndSpawn, JoinNext
<1>5. CASE Return
  BY <1>1, <1>5 DEF Return, ServedState
<1>6. CASE Signal \/ TakeShutdown \/ Terminated \/ UNCHANGED vars
  BY <1>6 DEF Signal, TakeShutdown, Terminated, vars
<1>. QED
  BY <1>2, <1>3, <1>4, <1>5, <1>6 DEF Next

(* Once the shutdown is noticed no connection is taken off the listener's  *)
(* queue and none starts to be served (the guards of the select! branches, *)
(* app.rs:496 and 525).                                                    *)
THEOREM NothingAdmittedOnceInitiated == Spec => NoAdmissionOnceInitiated
<1> DEFINE Closed == /\ Serving' \subseteq Serving
                     /\ \A c \in Conns : conn'[c] = "pending" => conn[c] = "pending"
<1>1. IInv /\ [Next]_vars => (initiated => Closed)
  <2> SUFFICES ASSUME IInv, [Next]_vars, initiated PROVE Closed
    OBVIOUS
  <2>1. Serving' \subseteq Serving
    BY NextIInv DEF ServingStep
  <2>2. \A c \in Conns : conn'[c] = "pending" => conn[c] = "pending"
    BY OnlyAcceptHolds
  <2>. QED
    BY <2>1, <2>2
<1>. QED
  BY Invariance, <1>1, PTL DEF Spec, NoAdmissionOnceInitiated
-----------------------------------------------------------------------------
(* How a step changes the phase a user of the server sees.                 *)
LEMMA PhaseStep ==
  ASSUME IInv, [Next]_vars
  PROVE  \/ Phase' = Phase
         \/ Phase = "serving" /\ Phase' = "draining" /\ Serving' = Serving
         \/ Phase = "draining" /\ Phase' = "stopped" /\ Serving = {} /\ Serving' = {}
<1>1. CASE Return
  <2>1. Serving = {} /\ Serving' = {}
    BY <1>1, ReturnStep DEF Return
  <2>. QED
    BY <1>1, <2>1 DEF Return, Phase
<1>2. CASE TakeShutdown
  <2>1. Serving' = Serving
    BY <1>2 DEF TakeShutdown, Serving
  <2>. QED
    BY <1>2, <2>1 DEF TakeShutdown, Phase
<1>3. ASSUME NEW c \in Conns, Accept(c) \/ AcquireAndSpawn(c) \/ JoinNext(c)
      PROVE  Phase' = Phase
  BY <1>3 DEF Accept, AcquireAndSpawn, JoinNext, Phase
<1>4. ASSUME NEW c \in Conns, Client(c) \/ Task(c)
      PROVE  loop' = loop /\ initiated' = initiated
  BY <1>4 DEF Client, Connect, Leave, Stall, Task, HandshakeDone, HandshakeFails,
     BeginRequest, FinishRequest, FinishAndClose, HandlerPanics, PeerClosed,
     HeaderTimeout, EndTask
<1>5. CASE Signal \/ Terminated \/ UNCHANGED vars
  BY <1>5 DEF Signal, Terminated, vars, Phase
<1>6. (loop' = loop /\ initiated' = initiated) => Phase' = Phase
  BY DEF Phase
<1>. QED
  BY <1>1, <1>2, <1>3, <1>4, <1>5, <1>6 DEF Next

(* The phase changes only when the set served does not.                    *)
LEMMA RefinementStep ==
  ASSUME IInv, [Next]_vars
  PROVE  [Graceful!ANext]_Graceful!avars
<1>1. CASE Phase = "serving" /\ Phase' = "draining" /\ Serving' = Serving
  BY <1>1 DEF Graceful!ANext, Graceful!BeginDrain
<1>2. CASE Phase = "draining" /\ Phase' = "stopped" /\ Serving = {} /\ Serving' = {}
  BY <1>2 DEF Graceful!ANext, Graceful!Stop
<1>3. CASE Phase' = Phase
  <2>1. CASE Serving' = Serving
    BY <1>3, <2>1 DEF Graceful!avars
  <2>2. ASSUME NEW c \in Conns, Serving' = Serving \union {c}, c \notin Serving,
               Cardinality(Serving) < MaxConnections, loop = "acquire", ~initiated
        PROVE  Graceful!ANext
    <3>1. Phase = "serving"
      BY <2>2 DEF Phase
    <3>2. Graceful!Cardinality(Serving) = Cardinality(Serving)
      BY DEF Graceful!Cardinality, Cardinality
    <3>. QED
      BY <1>3, <2>2, <3>1, <3>2 DEF Graceful!ANext, Graceful!Admit
  <2>3. ASSUME NEW c \in Conns, c \in Serving, Serving' = Serving \ {c}
        PROVE  Graceful!ANext
    BY <1>3, <2>3 DEF Graceful!ANext, Graceful!End
  <2>. QED
    BY <2>1, <2>2, <2>3, NextIInv DEF ServingStep
<1>. QED
  BY <1>1, <1>2, <1>3, PhaseStep

(* The accept loop, in every variant, implements GracefulServer.           *)
THEOREM Implementation == Spec => ImplementsGracefulServer
<1>1. Init => Graceful!AInit
  <2> SUFFICES ASSUME Init PROVE Graceful!AInit
    OBVIOUS
  <2>1. Serving = {}
    BY DEF Init, Serving, ServedState
  <2>2. Phase = "serving"
    BY DEF Init, Phase
  <2>. QED
    BY <2>1, <2>2 DEF Graceful!AInit
<1>2. IInv /\ [Next]_vars => [Graceful!ANext]_Graceful!avars
  BY RefinementStep
<1>. QED
  BY <1>1, <1>2, Invariance, PTL DEF Spec, ImplementsGracefulServer, Graceful!ASpec
=============================================================================
