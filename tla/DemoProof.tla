----------------------------- MODULE DemoProof -----------------------------
(***************************************************************************)
(* Proofs about Demo, for any tasks, workers and requests.  The invariants *)
(* of Demo are not inductive: that a task which ends leaves no mutex       *)
(* behind, and that no other mutex is poisoned with the search, depends on *)
(* where its guards are (GuardsAt); that ids are not handed out twice and  *)
(* what was created is found, on what the answers under way hold           *)
(* (AnswersFit).                                                           *)
(***************************************************************************)
EXTENDS Demo, FiniteSetTheorems, TLAPS

Ids == 1..(nextId - 1)
Late == {"log", "writing", "answer"}

(* A guard lives from its lock() to the end of the handler, that of the    *)
(* writer only while the entry is written.                                 *)
GuardsAt ==
    \A c \in Tasks :
        /\ holder["out"] = c => task[c].pc = "writing"
        /\ holder["inner"] = c => task[c].pc \in Late \cup {"locked"} /\ R(c).op \in ItemOps
        /\ holder["search"] = c => task[c].pc \in Late \cup {"locked"} /\ R(c).op \in SearchOps

(* An id that was answered, or is known to a task, was handed out.         *)
IdsHandedOut ==
    /\ created \subseteq Ids
    /\ \A c \in Tasks : task[c].known \subseteq Ids

(* No id is in two answers, and none is answered again.                    *)
NewIdsDiffer ==
    \A c \in Tasks : task[c].status = 201 =>
        /\ task[c].pc \in Late
        /\ task[c].shown \subseteq Ids
        /\ task[c].shown \cap created = {}
        /\ \A d \in Tasks \ {c} :
              task[d].status = 201 => task[c].shown \cap task[d].shown = {}

AnswersFit ==
    \A c \in Tasks : task[c].pc \in Late =>
        /\ R(c).op = "list" => task[c].known \subseteq task[c].shown
        /\ R(c).op = "get" /\ R(c).id \in task[c].known => task[c].status = 200

IInv == TypeOK /\ GuardsAt /\ IdsHandedOut /\ NewIdsDiffer /\ AnswersFit /\ PanicStaysInSearch
-----------------------------------------------------------------------------
(* What the ways to change a task do to it.                                *)

Others(c) == \A d \in Tasks \ {c} : task'[d] = task[d]
Keeps(c) == task'[c].request = task[c].request /\ task'[c].known = task[c].known

LEMMA GoSets ==
    ASSUME task \in [Tasks -> TaskType], NEW c \in Tasks,
           NEW pc \in {"idle", "queued", "body", "start", "locked", "log", "writing", "answer"},
           Go(c, pc)
    PROVE  /\ task' \in [Tasks -> TaskType] /\ Others(c) /\ Keeps(c)
           /\ task'[c].pc = pc
           /\ task'[c].status = task[c].status
           /\ task'[c].shown = task[c].shown
<1>1. task[c] \in TaskType
    OBVIOUS
<1>2. task'[c] = [task[c] EXCEPT !.pc = pc] /\ Others(c)
    BY DEF Go, Others
<1>3. task'[c] \in TaskType
    BY <1>1, <1>2 DEF TaskType
<1>4. task' \in [Tasks -> TaskType]
    BY <1>3 DEF Go
<1> QED
    BY <1>1, <1>2, <1>4 DEF Keeps, TaskType

LEMMA LogSets ==
    ASSUME task \in [Tasks -> TaskType], NEW c \in Tasks, NEW level \in Nat,
           NEW status \in Nat, NEW shown \in SUBSET Nat, Log(c, level, status, shown)
    PROVE  /\ task' \in [Tasks -> TaskType] /\ Others(c) /\ Keeps(c)
           /\ task'[c].pc = "log"
           /\ task'[c].status = status
           /\ task'[c].shown = shown
<1>1. task[c] \in TaskType
    OBVIOUS
<1>2. /\ Others(c)
      /\ task'[c] = [task[c] EXCEPT !.pc = "log", !.level = level, !.status = status,
                                    !.shown = shown]
    BY DEF Log, Others
<1>3. task'[c] \in TaskType
    BY <1>1, <1>2 DEF TaskType
<1>4. task' \in [Tasks -> TaskType]
    BY <1>3 DEF Log
<1> QED
    BY <1>1, <1>2, <1>4 DEF Keeps, TaskType

LEMMA AnswerSets ==
    ASSUME task \in [Tasks -> TaskType], NEW c \in Tasks, NEW status \in Nat,
           Answer(c, status)
    PROVE  /\ task' \in [Tasks -> TaskType] /\ Others(c) /\ Keeps(c)
           /\ task'[c].pc = "answer"
           /\ task'[c].status = status
           /\ task'[c].shown = task[c].shown
<1>1. task[c] \in TaskType
    OBVIOUS
<1>2. /\ Others(c)
      /\ task'[c] = [task[c] EXCEPT !.pc = "answer", !.status = status]
    BY DEF Answer, Others
<1>3. task'[c] \in TaskType
    BY <1>1, <1>2 DEF TaskType
<1>4. task' \in [Tasks -> TaskType]
    BY <1>3 DEF Answer
<1> QED
    BY <1>1, <1>2, <1>4 DEF Keeps, TaskType

LEMMA EndSets ==
    ASSUME task \in [Tasks -> TaskType], NEW c \in Tasks,
           task' = [task EXCEPT ![c] = NoTask]
    PROVE  /\ task' \in [Tasks -> TaskType] /\ Others(c)
           /\ task'[c] = NoTask
BY DEF NoTask, TaskType, Others

LEMMA SameRequest ==
    ASSUME NEW c \in Tasks, NEW d \in Tasks,
           d = c => Keeps(c), Others(c)
    PROVE  R(d)' = R(d)
BY DEF Keeps, Others, R
-----------------------------------------------------------------------------
(* Workers: only a task that resumes needs one more.                       *)

LEMMA OneMore ==
    ASSUME NEW S, NEW x, IsFiniteSet(S)
    PROVE  IsFiniteSet(S \cup {x}) /\ Cardinality(S \cup {x}) <= Cardinality(S) + 1
<1>1. Cardinality(S) \in Nat
    BY FS_CardinalityType
<1>2. /\ IsFiniteSet(S \cup {x})
      /\ Cardinality(S \cup {x}) = IF x \in S THEN Cardinality(S) ELSE Cardinality(S) + 1
    BY FS_AddElement
<1> QED
    BY <1>1, <1>2

LEMMA WorkersSuffice ==
    ASSUME TypeOK, NEW c \in Tasks, Others(c),
           \/ task'[c].pc \in {"idle", "queued", "body"}
           \/ c \in Running
           \/ Cardinality(Running) < Workers
    PROVE  Cardinality(Running') <= Workers
<1>1. IsFiniteSet(Running)
    BY TasksAssumption, FS_Subset DEF Running
<1>2. Cardinality(Running) \in Nat /\ Cardinality(Running) <= Workers
    BY <1>1, FS_CardinalityType DEF TypeOK
<1>3. CASE task'[c].pc \in {"idle", "queued", "body"} \/ c \in Running
    <2>1. Running' \subseteq Running
        BY <1>3 DEF Running, Others
    <2>2. Cardinality(Running') <= Cardinality(Running)
        BY <1>1, <2>1, FS_Subset
    <2>3. Cardinality(Running') \in Nat
        BY <1>1, <2>1, FS_Subset, FS_CardinalityType
    <2> QED
        BY <1>2, <2>2, <2>3, WorkersAssumption
<1>4. CASE Cardinality(Running) < Workers
    <2>1. Running' \subseteq Running \cup {c}
        BY DEF Running, Others
    <2>2. IsFiniteSet(Running \cup {c}) /\ Cardinality(Running \cup {c}) <= Cardinality(Running) + 1
        BY <1>1, OneMore
    <2>3. Cardinality(Running') <= Cardinality(Running \cup {c})
        BY <2>1, <2>2, FS_Subset
    <2>4. Cardinality(Running') \in Nat /\ Cardinality(Running \cup {c}) \in Nat
        BY <2>1, <2>2, FS_Subset, FS_CardinalityType
    <2> QED
        BY <1>2, <1>4, <2>2, <2>3, <2>4, WorkersAssumption
<1> QED
    BY <1>3, <1>4

(* A task that has nothing moves, or one that has moves on to its answer.  *)
LEMMA MoveKeeps ==
    ASSUME IInv, NEW c \in Tasks, task' \in [Tasks -> TaskType], Others(c),
           UNCHANGED <<nextId, items, holder, poisoned, created, panicked>>,
           requests' \in 0..MaxRequests,
           \/ task[c].pc \in {"idle", "queued", "body", "start"}
           \/ task[c].pc \in {"locked", "log"} /\ task'[c].pc \in {"log", "answer"} /\ Keeps(c),
           \/ task'[c].pc \in {"idle", "queued", "body"}
           \/ c \in Running
           \/ Cardinality(Running) < Workers,
           task'[c].known \subseteq Ids,
           task'[c].status = 201 =>
               task[c].status = 201 /\ task'[c].shown = task[c].shown /\ task'[c].pc \in Late,
           task'[c].pc \in Late =>
               /\ (R(c).op = "list")' => task'[c].known \subseteq task'[c].shown
               /\ (R(c).op = "get" /\ R(c).id \in task[c].known)' => task'[c].status = 200
    PROVE  IInv'
<1>1. \A d \in Tasks \ {c} : R(d)' = R(d)
    BY SameRequest
<1>2. Keeps(c) => R(c)' = R(c)
    BY SameRequest
<1>3. GuardsAt'
    BY <1>1, <1>2 DEF IInv, GuardsAt, Late, Others
<1>4. Cardinality(Running') <= Workers
    BY WorkersSuffice DEF IInv
<1>5. \A m \in Mutexes : holder'[m] # Nobody => holder'[m] \in Running'
    <2>1. (holder \in [Mutexes -> Tasks \cup {Nobody}])'
        BY DEF IInv, TypeOK
    <2> QED
        BY <1>3, <2>1 DEF GuardsAt, Mutexes, Late, Running
<1>6. TypeOK'
    BY <1>4, <1>5 DEF IInv, TypeOK
<1>7. IdsHandedOut'
    BY DEF IInv, IdsHandedOut, Ids, Others
<1>8. NewIdsDiffer'
    BY DEF IInv, NewIdsDiffer, Ids, Others
<1>9. AnswersFit'
    BY <1>1 DEF IInv, AnswersFit, Others
<1>10. PanicStaysInSearch'
    BY DEF IInv, PanicStaysInSearch
<1> QED
    BY <1>3, <1>6, <1>7, <1>8, <1>9, <1>10 DEF IInv
-----------------------------------------------------------------------------
(* The steps that take no mutex and give none back.                        *)

LEMMA JsonBodyType ==
    ASSUME NEW body PROVE JsonBody(body) \in {200, 400, 413}
BY DEF JsonBody

Quiet == UNCHANGED <<nextId, items, holder, poisoned, created, panicked>>

LEMMA ArriveKeeps ==
    ASSUME IInv, NEW c \in Tasks, NEW r \in Requests, Arrive(c, r)
    PROVE  IInv'
<1> DEFINE new == [NoTask EXCEPT !.pc = "queued", !.request = {r}, !.known = created]
<1>1. new \in TaskType /\ new.pc = "queued" /\ new.status = 0 /\ new.known = created
    BY DEF IInv, TypeOK, NoTask, TaskType
<1>2. task \in [Tasks -> TaskType]
    BY DEF IInv, TypeOK
<1>3. task' = [task EXCEPT ![c] = new]
    BY DEF Arrive
<1> HIDE DEF new
<1>4. task' \in [Tasks -> TaskType] /\ Others(c) /\ task'[c] = new
    BY <1>1, <1>2, <1>3 DEF Others
<1>5. task'[c].known \subseteq Ids
    BY <1>1, <1>4 DEF IInv, IdsHandedOut
<1>6. requests' \in 0..MaxRequests
    BY NumbersAssumption DEF Arrive, IInv, TypeOK
<1>7. task[c].pc = "idle" /\ Quiet
    BY DEF Arrive, Quiet
<1> QED
    BY <1>1, <1>4, <1>5, <1>6, <1>7, MoveKeeps DEF Quiet, Late

LEMMA WaitKeeps ==
    ASSUME IInv, NEW c \in Tasks, Resume(c) \/ BodyArrives(c) \/ AwaitBody(c)
    PROVE  IInv'
<1>1. task \in [Tasks -> TaskType] /\ requests \in 0..MaxRequests
    BY DEF IInv, TypeOK
<1>2. task[c].known \subseteq Ids /\ (task[c].status = 201 => task[c].pc \in Late)
    BY DEF IInv, IdsHandedOut, NewIdsDiffer
<1>3. CASE Resume(c)
    <2>1. Go(c, "start") /\ task[c].pc = "queued" /\ Cardinality(Running) < Workers
          /\ Quiet /\ requests' = requests
        BY <1>3 DEF Resume, Quiet
    <2> QED
        BY <1>1, <1>2, <2>1, GoSets, MoveKeeps DEF Quiet, Late, Keeps
<1>4. CASE AwaitBody(c)
    <2>1. Go(c, "body") /\ task[c].pc = "start" /\ Quiet /\ requests' = requests
        BY <1>4 DEF AwaitBody, Quiet
    <2> QED
        BY <1>1, <1>2, <2>1, GoSets, MoveKeeps DEF Quiet, Late, Keeps
<1>5. CASE BodyArrives(c)
    <2>1. task[c].pc = "body" /\ Quiet /\ requests' = requests
        BY <1>5 DEF BodyArrives, Quiet
    <2>2. task'[c] = [task[c] EXCEPT !.pc = "queued", !.arrived = TRUE] /\ Others(c)
        BY <1>1, <1>5 DEF BodyArrives, Others
    <2>3. task[c] \in TaskType
        BY <1>1
    <2>4. task'[c] \in TaskType /\ task'[c].pc = "queued" /\ Keeps(c)
          /\ task'[c].status = task[c].status
        BY <2>2, <2>3 DEF TaskType, Keeps
    <2>5. task' \in [Tasks -> TaskType]
        BY <1>1, <1>5, <2>4 DEF BodyArrives
    <2> QED
        BY <1>1, <1>2, <2>1, <2>2, <2>4, <2>5, MoveKeeps DEF Quiet, Late, Keeps
<1> QED
    BY <1>3, <1>4, <1>5

(* A task replies what fits its request, with a log entry or without.      *)
LEMMA LogKeeps ==
    ASSUME IInv, NEW c \in Tasks, NEW level \in Nat, NEW status \in Nat \ {201},
           NEW shown \in SUBSET Nat,
           Quiet, requests' = requests, task[c].pc \in {"start", "locked"},
           Log(c, level, status, shown),
           R(c).op = "list" => task[c].known \subseteq shown,
           R(c).op = "get" /\ R(c).id \in task[c].known => status = 200
    PROVE  IInv'
<1>1. task \in [Tasks -> TaskType] /\ requests' \in 0..MaxRequests
    BY DEF IInv, TypeOK
<1>2. task[c].known \subseteq Ids
    BY DEF IInv, IdsHandedOut
<1>3. /\ task' \in [Tasks -> TaskType] /\ Others(c) /\ Keeps(c)
      /\ task'[c].pc = "log" /\ task'[c].status = status /\ task'[c].shown = shown
    BY <1>1, LogSets
<1>4. R(c)' = R(c)
    BY <1>3, SameRequest
<1>5. c \in Running
    BY DEF Running
<1> QED
    BY <1>1, <1>2, <1>3, <1>4, <1>5, MoveKeeps DEF Quiet, Late, Keeps

LEMMA AnswerKeeps ==
    ASSUME IInv, NEW c \in Tasks, NEW status \in Nat \ {201},
           Quiet, requests' = requests, task[c].pc \in {"start", "locked"},
           Answer(c, status),
           R(c).op # "list",
           R(c).op = "get" /\ R(c).id \in task[c].known => status = 200
    PROVE  IInv'
<1>1. task \in [Tasks -> TaskType] /\ requests' \in 0..MaxRequests
    BY DEF IInv, TypeOK
<1>2. task[c].known \subseteq Ids
    BY DEF IInv, IdsHandedOut
<1>3. /\ task' \in [Tasks -> TaskType] /\ Others(c) /\ Keeps(c)
      /\ task'[c].pc = "answer" /\ task'[c].status = status
    BY <1>1, AnswerSets
<1>4. R(c)' = R(c)
    BY <1>3, SameRequest
<1>5. c \in Running
    BY DEF Running
<1> QED
    BY <1>1, <1>2, <1>3, <1>4, <1>5, MoveKeeps DEF Quiet, Late, Keeps

(* 1..nextId-1 are the ids of the items there are.                         *)
LEMMA ItemsAreIds ==
    ASSUME TypeOK PROVE ToSet(items) = Ids /\ Ids \subseteq Nat
BY DEF TypeOK, ToSet, Ids

LEMMA AnsweringKeeps ==
    ASSUME IInv, NEW c \in Tasks,
           \/ BodyRefused(c) \/ Health(c) \/ InputRefused(c) \/ Compute(c) \/ ParamsRefused(c)
           \/ ListItems(c) \/ GetItem(c) \/ Search(c) \/ Seed(c) \/ Documents(c)
    PROVE  IInv'
<1> USE LogKeeps, AnswerKeeps DEF Quiet
<1>1. task[c].known \subseteq Ids /\ ToSet(items) = Ids /\ Ids \subseteq Nat /\ 0 \notin Ids
    BY ItemsAreIds DEF IInv, IdsHandedOut, Ids
<1>2. CASE BodyRefused(c)
    BY <1>2, JsonBodyType DEF BodyRefused, BodyRead, BodyOps
<1>3. CASE Health(c)
    BY <1>3 DEF Health
<1>4. CASE InputRefused(c)
    BY <1>4 DEF InputRefused, BodyRead, Bad
<1>5. CASE Compute(c)
    BY <1>5 DEF Compute, BodyRead
<1>6. CASE ParamsRefused(c)
    BY <1>1, <1>6 DEF ParamsRefused, Bad
<1>7. CASE ListItems(c)
    BY <1>1, <1>7 DEF ListItems, Locked
<1>8. CASE GetItem(c)
    <2>1. CASE R(c).id \in ToSet(items)
        BY <1>1, <1>8, <2>1 DEF GetItem, Locked
    <2>2. CASE R(c).id \notin ToSet(items)
        BY <1>1, <1>8, <2>2 DEF GetItem, Locked, Gone
    <2> QED
        BY <2>1, <2>2
<1>9. CASE Search(c)
    <2>1. \E level \in {1, 2}, status \in {200, 400, 404} : Log(c, level, status, {})
        BY <1>9 DEF Search, Gone
    <2>2. R(c).op \in {"search", "explain"} /\ task[c].pc = "locked"
        BY <1>9 DEF Search, Locked
    <2> QED
        BY <1>9, <2>1, <2>2 DEF Search
<1>10. CASE Seed(c)
    BY <1>10 DEF Seed, Locked
<1>11. CASE Documents(c)
    BY <1>11 DEF Documents, Locked
<1> QED
    BY <1>2, <1>3, <1>4, <1>5, <1>6, <1>7, <1>8, <1>9, <1>10, <1>11
LEMMA NotLoggedKeeps ==
    ASSUME IInv, NEW c \in Tasks, NotLogged(c)
    PROVE  IInv'
<1>1. task \in [Tasks -> TaskType] /\ requests \in 0..MaxRequests
    BY DEF IInv, TypeOK
<1>2. Go(c, "answer") /\ task[c].pc = "log" /\ Quiet /\ requests' = requests
    BY DEF NotLogged, Quiet
<1>3. /\ task' \in [Tasks -> TaskType] /\ Others(c) /\ Keeps(c)
      /\ task'[c].pc = "answer" /\ task'[c].status = task[c].status
      /\ task'[c].shown = task[c].shown
    BY <1>1, <1>2, GoSets
<1>4. task[c].known \subseteq Ids
    BY DEF IInv, IdsHandedOut
<1>5. /\ R(c).op = "list" => task[c].known \subseteq task[c].shown
      /\ R(c).op = "get" /\ R(c).id \in task[c].known => task[c].status = 200
    BY <1>2 DEF IInv, AnswersFit, Late
<1>6. R(c)' = R(c)
    BY <1>3, SameRequest
<1>7. c \in Running
    BY <1>2 DEF Running
<1> QED
    BY <1>1, <1>2, <1>3, <1>4, <1>5, <1>6, <1>7, MoveKeeps DEF Quiet, Late, Keeps
-----------------------------------------------------------------------------
(* The steps that change who holds what.  The task that moves is on a      *)
(* worker already; its request and what it replies stay, or it ends.       *)

LEMMA GuardMoveKeeps ==
    ASSUME IInv, NEW c \in Tasks, task' \in [Tasks -> TaskType], Others(c), c \in Running,
           UNCHANGED <<nextId, items, requests>>,
           created' \subseteq Ids,
           PanicStaysInSearch', poisoned' \subseteq Mutexes,
           holder' \in [Mutexes -> Tasks \cup {Nobody}], GuardsAt',
           \/ /\ Keeps(c) /\ created' = created
              /\ task'[c].status = task[c].status /\ task'[c].shown = task[c].shown
              /\ \/ task[c].pc = "start" /\ task'[c].pc = "locked"
                 \/ task[c].pc \in Late /\ task'[c].pc \in Late
           \/ /\ task'[c] = NoTask
              /\ created' \subseteq created
                    \cup (IF task[c].status = 201 THEN task[c].shown ELSE {})
    PROVE  IInv'
<1>1. \A d \in Tasks \ {c} : R(d)' = R(d)
    BY SameRequest
<1>2. Keeps(c) => R(c)' = R(c)
    BY SameRequest
<1>3. NoTask.pc = "idle" /\ NoTask.status = 0 /\ NoTask.known = {}
    BY DEF NoTask
<1>4. Cardinality(Running') <= Workers
    BY WorkersSuffice DEF IInv
<1>5. \A m \in Mutexes : holder'[m] # Nobody => holder'[m] \in Running'
    BY DEF GuardsAt, Mutexes, Late, Running
<1>6. created' \subseteq Nat
    BY ItemsAreIds DEF IInv
<1>7. TypeOK'
    BY <1>4, <1>5, <1>6 DEF IInv, TypeOK
<1>8. IdsHandedOut'
    BY <1>3 DEF IInv, IdsHandedOut, Ids, Others, Keeps
<1>9. NewIdsDiffer'
    BY <1>3 DEF IInv, NewIdsDiffer, Ids, Others, Late
<1>10. AnswersFit'
    BY <1>1, <1>2, <1>3 DEF IInv, AnswersFit, Others, Keeps, Late
<1> QED
    BY <1>7, <1>8, <1>9, <1>10 DEF IInv

LEMMA LockingKeeps ==
    ASSUME IInv, NEW c \in Tasks, Lock(c) \/ TakeWriter(c) \/ Written(c)
    PROVE  IInv'
<1>1. /\ task \in [Tasks -> TaskType] /\ holder \in [Mutexes -> Tasks \cup {Nobody}]
      /\ poisoned \subseteq Mutexes /\ created \subseteq Ids
    BY DEF IInv, TypeOK, IdsHandedOut
<1>2. CASE Lock(c)
    <2>1. /\ Go(c, "locked") /\ task[c].pc = "start" /\ R(c).op \in ItemOps \cup SearchOps
          /\ holder' = [holder EXCEPT ![MutexOf(R(c).op)] = c]
          /\ UNCHANGED <<nextId, items, requests, poisoned, created, panicked>>
        BY <1>2 DEF Lock, Asks
    <2>2. /\ task' \in [Tasks -> TaskType] /\ Others(c) /\ Keeps(c) /\ task'[c].pc = "locked"
          /\ task'[c].status = task[c].status /\ task'[c].shown = task[c].shown
        BY <1>1, <2>1, GoSets
    <2>3. \A d \in Tasks : R(d)' = R(d)
        BY <2>2, SameRequest
    <2>4. MutexOf(R(c).op) = IF R(c).op \in ItemOps THEN "inner" ELSE "search"
        BY DEF MutexOf
    <2>5. holder' \in [Mutexes -> Tasks \cup {Nobody}]
        BY <1>1, <2>1
    <2>6. GuardsAt'
        BY <1>1, <2>1, <2>2, <2>3, <2>4 DEF IInv, GuardsAt, Others, Late, Mutexes
    <2>7. PanicStaysInSearch'
        BY <2>1 DEF IInv, PanicStaysInSearch
    <2> QED
        BY <1>1, <2>1, <2>2, <2>5, <2>6, <2>7, GuardMoveKeeps DEF Running
<1>3. CASE TakeWriter(c)
    <2>1. /\ Go(c, "writing") /\ task[c].pc = "log"
          /\ holder' = [holder EXCEPT !["out"] = c]
          /\ UNCHANGED <<nextId, items, requests, poisoned, created, panicked>>
        BY <1>3 DEF TakeWriter
    <2>2. /\ task' \in [Tasks -> TaskType] /\ Others(c) /\ Keeps(c) /\ task'[c].pc = "writing"
          /\ task'[c].status = task[c].status /\ task'[c].shown = task[c].shown
        BY <1>1, <2>1, GoSets
    <2>3. \A d \in Tasks : R(d)' = R(d)
        BY <2>2, SameRequest
    <2>4. holder' \in [Mutexes -> Tasks \cup {Nobody}]
        BY <1>1, <2>1
    <2>5. GuardsAt'
        BY <1>1, <2>1, <2>2, <2>3 DEF IInv, GuardsAt, Others, Late, Mutexes
    <2>6. PanicStaysInSearch'
        BY <2>1 DEF IInv, PanicStaysInSearch
    <2> QED
        BY <1>1, <2>1, <2>2, <2>4, <2>5, <2>6, GuardMoveKeeps DEF Running, Late
<1>4. CASE Written(c)
    <2>1. /\ Go(c, "answer") /\ task[c].pc = "writing"
          /\ holder' = [holder EXCEPT !["out"] = Nobody]
          /\ UNCHANGED <<nextId, items, requests, poisoned, created, panicked>>
        BY <1>4 DEF Written
    <2>2. /\ task' \in [Tasks -> TaskType] /\ Others(c) /\ Keeps(c) /\ task'[c].pc = "answer"
          /\ task'[c].status = task[c].status /\ task'[c].shown = task[c].shown
        BY <1>1, <2>1, GoSets
    <2>3. \A d \in Tasks : R(d)' = R(d)
        BY <2>2, SameRequest
    <2>4. holder' \in [Mutexes -> Tasks \cup {Nobody}]
        BY <1>1, <2>1
    <2>5. GuardsAt'
        BY <1>1, <2>1, <2>2, <2>3, TasksAssumption DEF IInv, GuardsAt, Others, Late, Mutexes
    <2>6. PanicStaysInSearch'
        BY <2>1 DEF IInv, PanicStaysInSearch
    <2> QED
        BY <1>1, <2>1, <2>2, <2>4, <2>5, <2>6, GuardMoveKeeps DEF Running, Late
<1> QED
    BY <1>2, <1>3, <1>4
LEMMA EndingKeeps ==
    ASSUME IInv, NEW c \in Tasks, LockPoisoned(c) \/ SearchPanics(c) \/ Respond(c)
    PROVE  IInv'
<1>1. /\ task \in [Tasks -> TaskType] /\ holder \in [Mutexes -> Tasks \cup {Nobody}]
      /\ poisoned \subseteq Mutexes /\ created \subseteq Ids
      /\ panicked \subseteq SearchOps /\ poisoned \subseteq {"search"}
    BY DEF IInv, TypeOK, IdsHandedOut, PanicStaysInSearch
<1>2. NoTask.pc = "idle"
    BY DEF NoTask
<1>3. task' = [task EXCEPT ![c] = NoTask] /\ UNCHANGED <<nextId, items, requests>>
    BY DEF LockPoisoned, SearchPanics, Panics, Respond
<1>4. task' \in [Tasks -> TaskType] /\ Others(c) /\ task'[c] = NoTask
    BY <1>1, <1>3, EndSets
<1>5. \A d \in Tasks \ {c} : R(d)' = R(d)
    BY <1>4, SameRequest
<1>6. CASE LockPoisoned(c)
    <2>1. /\ task[c].pc = "start" /\ R(c).op \in ItemOps \cup SearchOps
          /\ MutexOf(R(c).op) \in poisoned
          /\ panicked' = panicked \cup {R(c).op}
          /\ UNCHANGED <<holder, poisoned, created>>
        BY <1>6 DEF LockPoisoned, Asks, Panics
    <2>2. R(c).op \in SearchOps
        BY <1>1, <2>1 DEF MutexOf
    <2>3. GuardsAt'
        BY <1>4, <1>5, <2>1 DEF IInv, GuardsAt, Others, Late
    <2>4. PanicStaysInSearch'
        BY <1>1, <2>1, <2>2 DEF PanicStaysInSearch
    <2> QED
        BY <1>1, <1>3, <1>4, <2>1, <2>3, <2>4, GuardMoveKeeps DEF Running
<1>7. CASE SearchPanics(c)
    <2>1. /\ task[c].pc = "locked" /\ R(c).op = "search"
          /\ holder' = [holder EXCEPT !["search"] = Nobody]
          /\ poisoned' = poisoned \cup {"search"}
          /\ panicked' = panicked \cup {R(c).op}
          /\ created' = created
        BY <1>7 DEF SearchPanics, Locked, Panics
    <2>2. holder' \in [Mutexes -> Tasks \cup {Nobody}]
        BY <1>1, <2>1
    <2>3. GuardsAt'
        BY <1>1, <1>4, <1>5, <2>1, TasksAssumption
            DEF IInv, GuardsAt, Others, Late, Mutexes, ItemOps
    <2>4. PanicStaysInSearch' /\ poisoned' \subseteq Mutexes
        BY <1>1, <2>1 DEF PanicStaysInSearch, SearchOps, Mutexes
    <2> QED
        BY <1>1, <1>3, <1>4, <2>1, <2>2, <2>3, <2>4, GuardMoveKeeps DEF Running
<1>8. CASE Respond(c)
    <2>1. /\ task[c].pc = "answer"
          /\ holder' = [m \in Mutexes |-> IF holder[m] = c THEN Nobody ELSE holder[m]]
          /\ created' = created \cup (IF task[c].status = 201 THEN task[c].shown ELSE {})
          /\ UNCHANGED <<poisoned, panicked>>
        BY <1>8 DEF Respond
    <2>2. holder' \in [Mutexes -> Tasks \cup {Nobody}]
        BY <1>1, <2>1
    <2>3. GuardsAt'
        BY <1>1, <1>4, <1>5, <2>1, TasksAssumption DEF IInv, GuardsAt, Others, Late, Mutexes
    <2>4. PanicStaysInSearch'
        BY <1>1, <2>1 DEF PanicStaysInSearch
    <2>5. created' \subseteq Ids
        BY <1>1, <2>1 DEF IInv, NewIdsDiffer
    <2> QED
        BY <1>1, <1>3, <1>4, <2>1, <2>2, <2>3, <2>4, <2>5, GuardMoveKeeps DEF Running
<1> QED
    BY <1>6, <1>7, <1>8
-----------------------------------------------------------------------------
(* The step that hands out an id.                                          *)
LEMMA AddItemKeeps ==
    ASSUME IInv, NEW c \in Tasks, AddItem(c)
    PROVE  IInv'
<1>1. /\ task \in [Tasks -> TaskType] /\ items \in Seq(Nat) /\ nextId = Len(items) + 1
      /\ nextId \in Nat
    BY DEF IInv, TypeOK
<1>2. /\ Log(c, 2, 201, {nextId}) /\ task[c].pc = "start" /\ R(c).op = "create"
      /\ items' = Append(items, nextId) /\ nextId' = nextId + 1
      /\ UNCHANGED <<holder, poisoned, requests, created, panicked>>
    BY DEF AddItem, Creating, BodyRead
<1>3. /\ task' \in [Tasks -> TaskType] /\ Others(c) /\ Keeps(c)
      /\ task'[c].pc = "log" /\ task'[c].status = 201 /\ task'[c].shown = {nextId}
    <2>1. {nextId} \in SUBSET Nat
        BY <1>1
    <2>2. Log(c, 2, 201, {nextId})
        BY <1>2
    <2> QED
        BY <1>1, <2>1, <2>2, LogSets
<1>4. \A d \in Tasks : R(d)' = R(d)
    BY <1>3, SameRequest
<1>5. Ids' = Ids \cup {nextId} /\ nextId \notin Ids
    BY <1>1, <1>2 DEF Ids
<1>6. GuardsAt'
    BY <1>2, <1>3, <1>4 DEF IInv, GuardsAt, Others, Late
<1>7. Cardinality(Running') <= Workers
    BY <1>2, <1>3, WorkersSuffice DEF IInv, Running
<1>8. \A m \in Mutexes : holder'[m] # Nobody => holder'[m] \in Running'
    <2>1. holder' \in [Mutexes -> Tasks \cup {Nobody}]
        BY <1>2 DEF IInv, TypeOK
    <2> QED
        BY <1>6, <2>1 DEF GuardsAt, Mutexes, Late, Running
<1>9. /\ items' \in Seq(Nat) /\ nextId' = Len(items') + 1
      /\ \A k \in DOMAIN items' : items'[k] = k
    <2>1. /\ items' \in Seq(Nat) /\ Len(items') = Len(items) + 1
          /\ DOMAIN items' = 1..(Len(items) + 1) /\ DOMAIN items = 1..Len(items)
          /\ \A k \in 1..Len(items) : items'[k] = items[k]
          /\ items'[Len(items) + 1] = nextId
        BY <1>1, <1>2
    <2>2. \A k \in DOMAIN items : items[k] = k
        BY DEF IInv, TypeOK
    <2>3. Len(items) \in Nat
        BY <1>1
    <2>4. \A k \in DOMAIN items' : items'[k] = k
        BY <1>1, <2>1, <2>2, <2>3
    <2> QED
        BY <1>1, <1>2, <2>1, <2>4
<1>10. TypeOK'
    BY <1>2, <1>3, <1>7, <1>8, <1>9 DEF IInv, TypeOK
<1>11. IdsHandedOut'
    BY <1>2, <1>3, <1>5 DEF IInv, IdsHandedOut, Others, Keeps
<1>12. NewIdsDiffer'
    BY <1>2, <1>3, <1>5 DEF IInv, NewIdsDiffer, IdsHandedOut, Others, Late
<1>13. AnswersFit'
    BY <1>2, <1>3, <1>4 DEF IInv, AnswersFit, Others, Late
<1>14. PanicStaysInSearch'
    BY <1>2 DEF IInv, PanicStaysInSearch
<1> QED
    BY <1>6, <1>10, <1>11, <1>12, <1>13, <1>14 DEF IInv
-----------------------------------------------------------------------------
LEMMA InitHolds == Init => IInv
<1> SUFFICES ASSUME Init PROVE IInv
    OBVIOUS
<1> USE DEF Init, NoTask
<1>1. task \in [Tasks -> TaskType]
    BY DEF TaskType
<1>2. Running = {}
    BY DEF Running
<1>3. Cardinality(Running) <= Workers
    BY <1>2, FS_EmptySet, WorkersAssumption
<1>4. TypeOK
    BY <1>1, <1>3, NumbersAssumption DEF TypeOK
<1>5. GuardsAt
    BY TasksAssumption DEF GuardsAt, Mutexes
<1>6. IdsHandedOut /\ NewIdsDiffer /\ AnswersFit /\ PanicStaysInSearch
    BY DEF IdsHandedOut, NewIdsDiffer, AnswersFit, PanicStaysInSearch, Ids, Late
<1> QED
    BY <1>4, <1>5, <1>6 DEF IInv

LEMMA StepsKeep == IInv /\ [Next]_vars => IInv'
<1> SUFFICES ASSUME IInv, [Next]_vars PROVE IInv'
    OBVIOUS
<1>1. CASE UNCHANGED vars
    <2> USE <1>1 DEF vars, IInv
    <2>1. TypeOK'
        BY DEF TypeOK, Running
    <2>2. \A c \in Tasks : R(c)' = R(c)
        BY DEF R
    <2>3. GuardsAt'
        BY <2>2 DEF GuardsAt
    <2>4. IdsHandedOut'
        BY DEF IdsHandedOut, Ids
    <2>5. NewIdsDiffer'
        BY DEF NewIdsDiffer, Ids
    <2>6. AnswersFit'
        BY <2>2 DEF AnswersFit
    <2>7. PanicStaysInSearch'
        BY DEF PanicStaysInSearch
    <2> QED
        BY <2>1, <2>3, <2>4, <2>5, <2>6, <2>7
<1>2. ASSUME NEW c \in Tasks, NEW r \in Requests, Arrive(c, r) PROVE IInv'
    BY <1>2, ArriveKeeps
<1>3. ASSUME NEW c \in Tasks, Step(c) PROVE IInv'
    BY <1>3, WaitKeeps, AnsweringKeeps, NotLoggedKeeps, LockingKeeps, EndingKeeps, AddItemKeeps
        DEF Step, Handler
<1> QED
    BY <1>1, <1>2, <1>3 DEF Next

LEMMA InvariantHolds == Spec => []IInv
BY InitHolds, StepsKeep, PTL DEF Spec

(* Whatever tasks, workers and requests there are, a mutex is held only by *)
(* a task on a worker, never by one that waits for its body, so a task     *)
(* that ends has given back what its handler locked.                       *)
THEOREM TypeCorrect == Spec => []TypeOK
<1>1. IInv => TypeOK
    BY DEF IInv
<1> QED
    BY <1>1, InvariantHolds, PTL

(* A panic in the engine poisons only the search: the handlers that panic  *)
(* are those of the search, and no other mutex is ever poisoned.           *)
THEOREM OnlySearchPanics == Spec => []PanicStaysInSearch
<1>1. IInv => PanicStaysInSearch
    BY DEF IInv
<1> QED
    BY <1>1, InvariantHolds, PTL

(* Whoever asks for an item after its creation was answered is shown it,   *)
(* and no id is answered twice, however the requests overlap.              *)
THEOREM ItemsAreFound == Spec => []CreatedIsFound
<1>1. IInv => CreatedIsFound
    BY DEF IInv, AnswersFit, NewIdsDiffer, CreatedIsFound, Late
<1> QED
    BY <1>1, InvariantHolds, PTL
-----------------------------------------------------------------------------
(* Refinement: the handlers implement ItemService.                         *)

(* A task has one request until it ends, and shows nothing of the items    *)
(* before it is decided.                                                   *)
Undecided ==
    \A c \in Tasks :
        /\ task[c].pc # "idle" => \E r \in Requests : task[c].request = {r}
        /\ task[c].pc \notin Late => task[c].shown = {}

LEMMA TaskKeepsUndecided ==
    ASSUME Undecided, NEW c \in Tasks, Others(c),
           \/ task'[c].pc = "idle" /\ task'[c].shown = {}
           \/ /\ task[c].pc # "idle" /\ task'[c].request = task[c].request
              /\ \/ task'[c].pc \in Late
                 \/ task[c].pc \notin Late /\ task'[c].shown = task[c].shown
           \/ task'[c].shown = {} /\ \E r \in Requests : task'[c].request = {r}
    PROVE  Undecided'
BY DEF Undecided, Others

LEMMA OneRequest ==
    ASSUME Undecided, NEW c \in Tasks, task[c].pc # "idle"
    PROVE  task[c].request = {R(c)}
BY DEF Undecided, R

(* How a step of a task shows in the calls.                                *)
LEMMA CallsChange ==
    ASSUME NEW c \in Tasks, Others(c)
    PROVE  Calls' = [Calls EXCEPT ![c] =
                        Service!CallAt(Stage(task'[c].pc), task'[c].request,
                                       task'[c].status, task'[c].shown)]
BY DEF Calls, Others, Service!CallAt

LEMMA CallOfTask ==
    ASSUME NEW c \in Tasks
    PROVE  Calls[c].stage = Stage(task[c].pc) /\ Calls[c].request = task[c].request
BY DEF Calls

LEMMA Unseen ==
    ASSUME NEW c \in Tasks, Others(c), Keeps(c),
           Stage(task'[c].pc) = Stage(task[c].pc),
           task'[c].status = task[c].status, task'[c].shown = task[c].shown,
           UNCHANGED items
    PROVE  UNCHANGED Service!svars
<1>1. Calls' = Calls
    BY DEF Calls, Others, Keeps
<1> QED
    BY <1>1 DEF Service!svars

LEMMA Decides ==
    ASSUME Undecided, NEW c \in Tasks, Others(c), Keeps(c),
           task[c].pc \in {"start", "locked"}, task'[c].pc \in {"log", "answer"}
    PROVE  /\ Calls[c].stage = "called" /\ Calls[c].request = {R(c)}
           /\ Service!Decide(c, task'[c].status, task'[c].shown)
<1>1. task[c].request = {R(c)}
    BY OneRequest
<1>2. Stage(task[c].pc) = "called" /\ Stage(task'[c].pc) = "decided"
    BY DEF Stage
<1>3. Calls[c].stage = "called" /\ Calls[c].request = {R(c)}
    BY <1>1, <1>2, CallOfTask
<1>4. Calls' = [Calls EXCEPT ![c] =
                   Service!CallAt("decided", {R(c)}, task'[c].status, task'[c].shown)]
    <2>1. task'[c].request = {R(c)}
        BY <1>1 DEF Keeps
    <2> QED
        BY <1>2, <2>1, CallsChange
<1> QED
    BY <1>3, <1>4 DEF Service!Decide

LEMMA Ends ==
    ASSUME NEW c \in Tasks, Others(c), task'[c] = NoTask
    PROVE  Calls' = [Calls EXCEPT ![c] = Service!NoCall]
<1>1. /\ NoTask.pc = "idle" /\ NoTask.request = {} /\ NoTask.status = 0 /\ NoTask.shown = {}
    BY DEF NoTask
<1>2. Stage(NoTask.pc) = "none"
    BY <1>1 DEF Stage
<1> QED
    BY <1>1, <1>2, CallsChange DEF Service!NoCall

(* The moves of ItemService that a handler makes, from what it does.       *)
LEMMA RefusesCall ==
    ASSUME NEW c \in Tasks, Calls[c].stage = "called", Calls[c].request = {R(c)},
           R(c).op # "list", NEW status \in {400, 413}, Service!Decide(c, status, {}),
           UNCHANGED items
    PROVE  Service!TakeEffect(c)
<1>1. Service!Refuse(c)
    BY DEF Service!Refuse, Service!Asks
<1> QED
    BY <1>1 DEF Service!TakeEffect

LEMMA AnswersOtherwise ==
    ASSUME NEW c \in Tasks, Calls[c].stage = "called", Calls[c].request = {R(c)},
           R(c).op \notin {"create", "list", "get"}, UNCHANGED items,
           \/ \E status \in {200, 404} : Service!Decide(c, status, {})
           \/ Calls' = [Calls EXCEPT ![c] = Service!NoCall]
    PROVE  Service!TakeEffect(c)
<1>1. Service!Otherwise(c)
    BY DEF Service!Otherwise, Service!Asks
<1> QED
    BY <1>1 DEF Service!TakeEffect
-----------------------------------------------------------------------------
RInv == IInv /\ Undecided

(* The steps of the runtime and of the log show in no call.                *)
LEMMA WaitIsUnseen ==
    ASSUME RInv, NEW c \in Tasks,
           \/ Resume(c) \/ BodyArrives(c) \/ AwaitBody(c) \/ Lock(c)
           \/ TakeWriter(c) \/ NotLogged(c) \/ Written(c)
    PROVE  UNCHANGED Service!svars /\ Undecided'
<1>1. task \in [Tasks -> TaskType] /\ Undecided
    BY DEF RInv, IInv, TypeOK
<1>2. UNCHANGED items
    BY DEF Resume, BodyArrives, AwaitBody, Lock, TakeWriter, NotLogged, Written
<1>3. CASE BodyArrives(c)
    <2>1. /\ task[c].pc = "body" /\ task[c] \in TaskType /\ Others(c)
          /\ task'[c] = [task[c] EXCEPT !.pc = "queued", !.arrived = TRUE]
        BY <1>1, <1>3 DEF BodyArrives, Others
    <2>2. /\ task'[c].pc = "queued" /\ Keeps(c)
          /\ task'[c].status = task[c].status /\ task'[c].shown = task[c].shown
        BY <2>1 DEF TaskType, Keeps
    <2>3. Stage(task'[c].pc) = Stage(task[c].pc)
        BY <2>1, <2>2 DEF Stage
    <2> QED
        BY <1>1, <1>2, <2>1, <2>2, <2>3, Unseen, TaskKeepsUndecided DEF Keeps, Late
<1>4. ASSUME NEW pc \in {"body", "start", "locked", "writing", "answer"}, Go(c, pc),
             \/ pc \in {"body", "start", "locked"} /\ task[c].pc \in {"queued", "start"}
             \/ pc \in {"writing", "answer"} /\ task[c].pc \in {"log", "writing"}
      PROVE  UNCHANGED Service!svars /\ Undecided'
    <2>1. /\ Others(c) /\ Keeps(c) /\ task'[c].pc = pc
          /\ task'[c].status = task[c].status /\ task'[c].shown = task[c].shown
        BY <1>1, <1>4, GoSets
    <2>2. Stage(task'[c].pc) = Stage(task[c].pc)
        BY <1>4, <2>1 DEF Stage
    <2> QED
        BY <1>1, <1>2, <1>4, <2>1, <2>2, Unseen, TaskKeepsUndecided DEF Keeps, Late
<1>5. CASE Resume(c) \/ AwaitBody(c) \/ Lock(c)
    <2>1. \E pc \in {"body", "start", "locked"} :
             Go(c, pc) /\ task[c].pc \in {"queued", "start"}
        BY <1>5 DEF Resume, AwaitBody, Lock, Asks
    <2> QED
        BY <1>4, <2>1
<1>6. CASE TakeWriter(c) \/ NotLogged(c) \/ Written(c)
    <2>1. \E pc \in {"writing", "answer"} :
             Go(c, pc) /\ task[c].pc \in {"log", "writing"}
        BY <1>6 DEF TakeWriter, NotLogged, Written
    <2> QED
        BY <1>4, <2>1
<1> QED
    BY <1>3, <1>5, <1>6

LEMMA ArriveBegins ==
    ASSUME RInv, NEW c \in Tasks, NEW r \in Requests, Arrive(c, r)
    PROVE  Service!Begin(c) /\ Undecided'
<1> DEFINE new == [NoTask EXCEPT !.pc = "queued", !.request = {r}, !.known = created]
<1>1. new.pc = "queued" /\ new.request = {r}
    BY DEF NoTask
<1>2. new.status = 0 /\ new.shown = {}
    BY DEF NoTask
<1>3. /\ task \in [Tasks -> TaskType] /\ task[c].pc = "idle" /\ task' = [task EXCEPT ![c] = new]
      /\ UNCHANGED items
    BY DEF RInv, IInv, TypeOK, Arrive
<1> HIDE DEF new
<1>4. task'[c] = new /\ Others(c)
    BY <1>3 DEF Others
<1>5. Stage("queued") = "called" /\ Stage("idle") = "none"
    BY DEF Stage
<1>6. Calls' = [Calls EXCEPT ![c] = Service!CallAt("called", {r}, 0, {})]
    <2>1. Calls' = [Calls EXCEPT ![c] = Service!CallAt(Stage(new.pc), new.request,
                                                       new.status, new.shown)]
        BY <1>4, CallsChange
    <2> QED
        BY <1>1, <1>2, <1>5, <2>1
<1>7. Calls[c].stage = "none"
    BY <1>3, <1>5, CallOfTask
<1>8. Undecided'
    BY <1>1, <1>2, <1>4, TaskKeepsUndecided DEF RInv
<1> QED
    BY <1>3, <1>6, <1>7, <1>8 DEF Service!Begin

(* A handler that logs or answers without a new item is decided then.      *)
LEMMA LogDecides ==
    ASSUME RInv, NEW c \in Tasks, task[c].pc \in {"start", "locked"},
           NEW level \in Nat, NEW status \in Nat, NEW shown \in SUBSET Nat,
           Log(c, level, status, shown)
    PROVE  /\ Calls[c].stage = "called" /\ Calls[c].request = {R(c)}
           /\ Service!Decide(c, status, shown)
           /\ Undecided'
<1>1. task \in [Tasks -> TaskType] /\ Undecided
    BY DEF RInv, IInv, TypeOK
<1>2. /\ Others(c) /\ Keeps(c) /\ task'[c].pc = "log"
      /\ task'[c].status = status /\ task'[c].shown = shown
    BY <1>1, LogSets
<1>3. Undecided'
    BY <1>1, <1>2, TaskKeepsUndecided DEF Keeps, Late
<1> QED
    BY <1>1, <1>2, <1>3, Decides

LEMMA AnswerDecides ==
    ASSUME RInv, NEW c \in Tasks, task[c].pc \in {"start", "locked"},
           NEW status \in Nat, Answer(c, status)
    PROVE  /\ Calls[c].stage = "called" /\ Calls[c].request = {R(c)}
           /\ Service!Decide(c, status, {})
           /\ Undecided'
<1>1. task \in [Tasks -> TaskType] /\ Undecided
    BY DEF RInv, IInv, TypeOK
<1>2. /\ Others(c) /\ Keeps(c) /\ task'[c].pc = "answer"
      /\ task'[c].status = status /\ task'[c].shown = {}
    BY <1>1, AnswerSets DEF Undecided, Late
<1>3. Undecided'
    BY <1>1, <1>2, TaskKeepsUndecided DEF Keeps, Late
<1> QED
    BY <1>1, <1>2, <1>3, Decides

(* Refusals, whatever the operation.                                       *)
LEMMA RefusalsImplement ==
    ASSUME RInv, NEW c \in Tasks, BodyRefused(c) \/ InputRefused(c) \/ ParamsRefused(c)
    PROVE  Service!TakeEffect(c) /\ Undecided'
<1>1. UNCHANGED items /\ task[c].pc = "start" /\ R(c).op # "list"
    BY DEF BodyRefused, InputRefused, ParamsRefused, BodyRead, BodyOps
<1>2. ASSUME NEW status \in {400, 413}, Answer(c, status)
      PROVE  Service!TakeEffect(c) /\ Undecided'
    BY <1>1, <1>2, AnswerDecides, RefusesCall
<1>3. CASE BodyRefused(c)
    <2>1. JsonBody(R(c).body) \in {400, 413} /\ Answer(c, JsonBody(R(c).body))
        BY <1>3, JsonBodyType DEF BodyRefused
    <2> QED
        BY <1>2, <2>1
<1>4. CASE ParamsRefused(c)
    BY <1>2, <1>4 DEF ParamsRefused, Bad
<1>5. CASE InputRefused(c)
    <2>1. Log(c, 0, 400, {})
        BY <1>5 DEF InputRefused, Bad
    <2> QED
        BY <1>1, <2>1, LogDecides, RefusesCall
<1> QED
    BY <1>3, <1>4, <1>5

(* Handlers that do not ask for the items.                                 *)
LEMMA OthersImplement ==
    ASSUME RInv, NEW c \in Tasks,
           Health(c) \/ Compute(c) \/ Seed(c) \/ Documents(c) \/ Search(c)
    PROVE  Service!TakeEffect(c) /\ Undecided'
<1>1. /\ UNCHANGED items /\ task[c].pc \in {"start", "locked"}
      /\ R(c).op \notin {"create", "list", "get"}
    BY DEF Health, Compute, Seed, Documents, Search, Locked, BodyRead
<1>2. ASSUME NEW level \in {1, 2}, NEW status \in {200, 400, 404}, Log(c, level, status, {})
      PROVE  Service!TakeEffect(c) /\ Undecided'
    <2>1. /\ Calls[c].stage = "called" /\ Calls[c].request = {R(c)}
          /\ Service!Decide(c, status, {}) /\ Undecided'
        <3>1. level \in Nat /\ status \in Nat /\ {} \in SUBSET Nat
            OBVIOUS
        <3> QED
            BY <1>1, <1>2, <3>1, LogDecides
    <2>2. CASE status = 400
        BY <1>1, <2>1, <2>2, RefusesCall
    <2>3. CASE status \in {200, 404}
        BY <1>1, <2>1, <2>3, AnswersOtherwise
    <2> QED
        BY <2>1, <2>2, <2>3
<1>3. CASE Documents(c)
    <2>1. Answer(c, 200)
        BY <1>3 DEF Documents
    <2> QED
        BY <1>1, <2>1, AnswerDecides, AnswersOtherwise
<1>4. CASE Search(c)
    BY <1>2, <1>4 DEF Search, Gone
<1> QED
    BY <1>2, <1>3, <1>4 DEF Health, Compute, Seed

LEMMA CreationImplements ==
    ASSUME RInv, NEW c \in Tasks, AddItem(c)
    PROVE  Service!TakeEffect(c) /\ Undecided'
<1>1. items \in Seq(Nat) /\ nextId = Len(items) + 1 /\ nextId \in Nat
    BY DEF RInv, IInv, TypeOK
<1>2. /\ Log(c, 2, 201, {nextId}) /\ task[c].pc = "start" /\ R(c).op = "create"
      /\ items' = Append(items, nextId)
    BY DEF AddItem, Creating, BodyRead
<1>3. /\ Calls[c].stage = "called" /\ Calls[c].request = {R(c)}
      /\ Service!Decide(c, 201, {nextId}) /\ Undecided'
    <2>1. {nextId} \in SUBSET Nat
        BY <1>1
    <2> QED
        BY <1>2, <2>1, LogDecides
<1>4. Len(items)' = Len(items) + 1
    BY <1>1, <1>2
<1>5. Service!Create(c)
    BY <1>1, <1>2, <1>3, <1>4 DEF Service!Create, Service!Asks
<1> QED
    BY <1>3, <1>5 DEF Service!TakeEffect

LEMMA ReadingImplements ==
    ASSUME RInv, NEW c \in Tasks, ListItems(c) \/ GetItem(c)
    PROVE  Service!TakeEffect(c) /\ Undecided'
<1>1. ToSet(items) = 1..Len(items)
    BY DEF RInv, IInv, TypeOK, ToSet
<1>2. UNCHANGED items /\ task[c].pc = "locked" /\ ToSet(items) \in SUBSET Nat
    BY <1>1 DEF ListItems, GetItem, Locked
<1>3. CASE ListItems(c)
    <2>1. Log(c, 2, 200, ToSet(items)) /\ R(c).op = "list"
        BY <1>3 DEF ListItems, Locked
    <2>2. /\ Calls[c].stage = "called" /\ Calls[c].request = {R(c)}
          /\ Service!Decide(c, 200, ToSet(items)) /\ Undecided'
        BY <1>2, <2>1, LogDecides
    <2>3. Service!List(c)
        BY <1>1, <1>2, <2>1, <2>2 DEF Service!List, Service!Asks
    <2> QED
        BY <2>2, <2>3 DEF Service!TakeEffect
<1>4. CASE GetItem(c)
    <2>1. R(c).op = "get"
        BY <1>4 DEF GetItem, Locked
    <2>2. CASE R(c).id \in ToSet(items)
        <3>1. Log(c, 2, 200, {R(c).id}) /\ {R(c).id} \in SUBSET Nat
            BY <1>2, <1>4, <2>2 DEF GetItem
        <3>2. /\ Calls[c].stage = "called" /\ Calls[c].request = {R(c)}
              /\ Service!Decide(c, 200, {R(c).id}) /\ Undecided'
            BY <1>2, <3>1, LogDecides
        <3>3. Service!Get(c)
            BY <1>1, <1>2, <2>1, <2>2, <3>2 DEF Service!Get, Service!Asks
        <3> QED
            BY <3>2, <3>3 DEF Service!TakeEffect
    <2>3. CASE R(c).id \notin ToSet(items)
        <3>1. Log(c, 1, 404, {})
            BY <1>4, <2>3 DEF GetItem, Gone
        <3>2. /\ Calls[c].stage = "called" /\ Calls[c].request = {R(c)}
              /\ Service!Decide(c, 404, {}) /\ Undecided'
            BY <1>2, <3>1, LogDecides
        <3>3. Service!Get(c)
            BY <1>1, <1>2, <2>1, <2>3, <3>2 DEF Service!Get, Service!Asks
        <3> QED
            BY <3>2, <3>3 DEF Service!TakeEffect
    <2> QED
        BY <2>2, <2>3
<1> QED
    BY <1>3, <1>4

(* Endings.  Only a task of the search panics: a poisoned "inner" is what  *)
(* would leave a call for the items without an answer.                     *)
LEMMA EndingImplements ==
    ASSUME RInv, NEW c \in Tasks, LockPoisoned(c) \/ SearchPanics(c) \/ Respond(c)
    PROVE  (Service!TakeEffect(c) \/ Service!Return(c)) /\ Undecided'
<1>1. /\ task \in [Tasks -> TaskType] /\ Undecided /\ poisoned \subseteq {"search"}
    BY DEF RInv, IInv, TypeOK, PanicStaysInSearch
<1>2. task' = [task EXCEPT ![c] = NoTask] /\ UNCHANGED items
    BY DEF LockPoisoned, SearchPanics, Panics, Respond
<1>3. Others(c) /\ task'[c] = NoTask
    BY <1>1, <1>2, EndSets
<1>4. NoTask.pc = "idle" /\ NoTask.shown = {}
    BY DEF NoTask
<1>5. Undecided' /\ Calls' = [Calls EXCEPT ![c] = Service!NoCall]
    BY <1>1, <1>3, <1>4, Ends, TaskKeepsUndecided
<1>6. CASE Respond(c)
    <2>1. Stage(task[c].pc) = "decided"
        BY <1>6 DEF Respond, Stage
    <2>2. Calls[c].stage = "decided"
        BY <2>1, CallOfTask
    <2>3. Service!Return(c)
        BY <1>2, <1>5, <2>2 DEF Service!Return
    <2> QED
        BY <1>5, <2>3
<1>7. CASE LockPoisoned(c) \/ SearchPanics(c)
    <2>1. /\ task[c].pc \in {"start", "locked"} /\ R(c).op \in SearchOps
        BY <1>1, <1>7 DEF LockPoisoned, SearchPanics, Asks, Locked, MutexOf, SearchOps
    <2>2. Stage(task[c].pc) = "called" /\ R(c).op \notin {"create", "list", "get"}
        BY <2>1 DEF Stage, SearchOps
    <2>3. task[c].request = {R(c)}
        BY <1>1, <2>1, OneRequest
    <2>4. Calls[c].stage = "called" /\ Calls[c].request = {R(c)}
        BY <2>2, <2>3, CallOfTask
    <2> QED
        BY <1>2, <1>5, <2>2, <2>4, AnswersOtherwise
<1> QED
    BY <1>6, <1>7

LEMMA StepMovesCall ==
    ASSUME NEW c \in Tasks, Service!Begin(c) \/ Service!TakeEffect(c) \/ Service!Return(c)
    PROVE  Calls'[c] # Calls[c]
<1>1. ASSUME NEW stage, NEW request, NEW status, NEW shown, Calls[c].stage # stage,
             Calls' = [Calls EXCEPT ![c] = Service!CallAt(stage, request, status, shown)]
      PROVE  Calls'[c] # Calls[c]
    <2>1. Calls'[c] = Service!CallAt(stage, request, status, shown)
        BY <1>1 DEF Calls
    <2>2. Calls'[c].stage = stage
        BY <2>1 DEF Service!CallAt
    <2> QED
        BY <1>1, <2>2
<1>2. ASSUME Calls[c].stage \in {"called", "decided"},
             Calls' = [Calls EXCEPT ![c] = Service!NoCall]
      PROVE  Calls'[c] # Calls[c]
    BY <1>1, <1>2 DEF Service!NoCall
<1>3. ASSUME Calls[c].stage = "called", NEW status, NEW shown, Service!Decide(c, status, shown)
      PROVE  Calls'[c] # Calls[c]
    BY <1>1, <1>3 DEF Service!Decide
<1>4. CASE Service!Begin(c)
    <2>1. PICK r \in Requests :
             Calls' = [Calls EXCEPT ![c] = Service!CallAt("called", {r}, 0, {})]
        BY <1>4 DEF Service!Begin
    <2>2. Calls[c].stage # "called"
        BY <1>4 DEF Service!Begin
    <2> QED
        BY <1>1, <2>1, <2>2
<1>5. CASE Service!TakeEffect(c)
    <2>1. Calls[c].stage = "called"
        BY <1>5 DEF Service!TakeEffect
    <2>2. \/ \E status, shown : Service!Decide(c, status, shown)
          \/ Calls' = [Calls EXCEPT ![c] = Service!NoCall]
        BY <1>5 DEF Service!TakeEffect, Service!Create, Service!List, Service!Get,
                    Service!Refuse, Service!Otherwise
    <2> QED
        BY <1>2, <1>3, <2>1, <2>2
<1>6. CASE Service!Return(c)
    BY <1>2, <1>6 DEF Service!Return
<1> QED
    BY <1>4, <1>5, <1>6

LEMMA RefinementStep == RInv /\ [Next]_vars => [Service!SNext]_Service!svars /\ Undecided'
<1> SUFFICES ASSUME RInv, [Next]_vars PROVE [Service!SNext]_Service!svars /\ Undecided'
    OBVIOUS
<1>1. CASE UNCHANGED vars
    BY <1>1 DEF vars, RInv, Undecided, Service!svars, Calls
<1>2. ASSUME NEW c \in Tasks, NEW r \in Requests, Arrive(c, r)
      PROVE  Service!SNext /\ Undecided'
    BY <1>2, ArriveBegins, StepMovesCall DEF Service!SNext
<1>3. ASSUME NEW c \in Tasks, Step(c)
      PROVE  [Service!SNext]_Service!svars /\ Undecided'
    <2>1. \/ UNCHANGED Service!svars /\ Undecided'
          \/ (Service!TakeEffect(c) \/ Service!Return(c)) /\ Undecided'
        BY <1>3, WaitIsUnseen, RefusalsImplement, OthersImplement, CreationImplements,
           ReadingImplements, EndingImplements
            DEF Step, Handler
    <2> QED
        BY <2>1, StepMovesCall DEF Service!SNext
<1> QED
    BY <1>1, <1>2, <1>3 DEF Next

(* The demo implements ItemService, for any tasks, workers and requests:   *)
(* each list, look-up and creation is atomic at a moment between its       *)
(* arrival and its answer, and none of them ends without an answer.        *)
THEOREM Implementation == Spec => ImplementsItemService
<1>1. Init => Service!SInit
    <2> SUFFICES ASSUME Init PROVE Service!SInit
        OBVIOUS
    <2>1. Len(items) = 0
        BY DEF Init
    <2>2. Calls = [c \in Tasks |-> Service!NoCall]
        BY DEF Init, NoTask, Calls, Stage, Service!NoCall, Service!CallAt
    <2> QED
        BY <2>1, <2>2 DEF Service!SInit
<1>2. Init => Undecided
    BY DEF Init, NoTask, Undecided, Late
<1>3. IInv /\ Undecided /\ [Next]_vars => Undecided' /\ [Service!SNext]_Service!svars
    BY RefinementStep DEF RInv
<1> QED
    BY <1>1, <1>2, <1>3, InvariantHolds, PTL DEF Spec, ImplementsItemService, Service!SSpec
=============================================================================
