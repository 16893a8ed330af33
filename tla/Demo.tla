-------------------------------- MODULE Demo --------------------------------
(***************************************************************************)
(* The demo: requests run as tokio tasks on a few worker threads and share *)
(* the items, the search engine and the log writer, each behind a          *)
(* std::sync::Mutex.  A task that waits for a mutex keeps its worker; one  *)
(* that waits for the body of its request does not.                        *)
(*                                                                         *)
(* An item is its id.  The engine and its documents are the same after     *)
(* every seeding, so what seeding writes is left out.                      *)
(***************************************************************************)
EXTENDS Integers, Sequences, FiniteSets, SequencesExt

CONSTANTS
    Tasks,
    Nobody,
    Workers,     \* threads of the runtime
    Requests,    \* [op, id, body, query]
    MaxBody,     \* MaxBodySize
    LogLevel,    \* LOG_LEVEL: 0 error, 1 warn, 2 info
    MaxRequests  \* bound: requests

ASSUME NumbersAssumption == {MaxBody, LogLevel, MaxRequests} \subseteq Nat
ASSUME WorkersAssumption == Workers \in Nat \ {0}
ASSUME TasksAssumption == IsFiniteSet(Tasks) /\ Nobody \notin Tasks

VARIABLES
    nextId,
    items,      \* ids in the order of the Vec
    holder,     \* who has each mutex
    poisoned,   \* mutexes
    task,       \* [pc, request, arrived, known, level, status, shown]
    requests,   \* how many came
    created,    \* history: ids in answers
    panicked    \* history: operations that panicked

vars == <<nextId, items, holder, poisoned, task, requests, created, panicked>>

Mutexes == {"inner", "search", "out"}
ItemOps == {"list", "get"}
SearchOps == {"search", "explain", "seed", "documents"}
BodyOps == {"create", "divide", "echo"}

(* Of a task: known is history, the ids in answers when it came; shown is  *)
(* what its answer has of the items.                                       *)
NoTask ==
    [pc |-> "idle", request |-> {}, arrived |-> FALSE, known |-> {}, level |-> 0,
     status |-> 0, shown |-> {}]

Running == {c \in Tasks : task[c].pc \notin {"idle", "queued", "body"}}

(* error_code() and From<Error> for ServeError.                            *)
Bad == 400
Gone == 404

Init ==
    /\ nextId = 1
    /\ items = <<>>
    /\ holder = [m \in Mutexes |-> Nobody]
    /\ poisoned = {}
    /\ task = [c \in Tasks |-> NoTask]
    /\ requests = 0
    /\ created = {}
    /\ panicked = {}

R(c) == CHOOSE r \in task[c].request : TRUE

Go(c, pc) == task' = [task EXCEPT ![c].pc = pc]
Log(c, level, status, shown) ==
    task' = [task EXCEPT ![c].pc = "log", ![c].level = level, ![c].status = status,
                         ![c].shown = shown]
Answer(c, status) == task' = [task EXCEPT ![c].pc = "answer", ![c].status = status]
-----------------------------------------------------------------------------
(* tokio and the clients.                                                  *)

Arrive(c, r) ==
    /\ task[c].pc = "idle"
    /\ requests < MaxRequests
    /\ requests' = requests + 1
    /\ task' = [task EXCEPT ![c] = [NoTask EXCEPT !.pc = "queued", !.request = {r},
                                                  !.known = created]]
    /\ UNCHANGED <<nextId, items, holder, poisoned, created, panicked>>

Resume(c) ==
    /\ task[c].pc = "queued"
    /\ Cardinality(Running) < Workers
    /\ Go(c, "start")
    /\ UNCHANGED <<nextId, items, holder, poisoned, requests, created, panicked>>

BodyArrives(c) ==
    /\ task[c].pc = "body"
    /\ task' = [task EXCEPT ![c].pc = "queued", ![c].arrived = TRUE]
    /\ UNCHANGED <<nextId, items, holder, poisoned, requests, created, panicked>>
-----------------------------------------------------------------------------
(* json_body().                                                            *)

(* The content-length is looked at before the body is waited for.          *)
DeclaredTooLarge(c) == \E n \in R(c).body.declared : n > MaxBody

AwaitBody(c) ==
    /\ task[c].pc = "start"
    /\ R(c).op \in BodyOps
    /\ ~task[c].arrived /\ ~DeclaredTooLarge(c)
    /\ Go(c, "body")
    /\ UNCHANGED <<nextId, items, holder, poisoned, requests, created, panicked>>

(* What is read is counted as well.                                        *)
JsonBody(body) ==
    IF \E n \in body.declared : n > MaxBody THEN 413
    ELSE IF body.size > MaxBody THEN 413
    ELSE IF body.kind \in {"broken", "not json"} THEN 400
    ELSE 200

BodyRead(c) ==
    /\ task[c].pc = "start"
    /\ R(c).op \in BodyOps
    /\ task[c].arrived \/ DeclaredTooLarge(c)

BodyRefused(c) ==
    /\ BodyRead(c)
    /\ JsonBody(R(c).body) # 200
    /\ Answer(c, JsonBody(R(c).body))
    /\ UNCHANGED <<nextId, items, holder, poisoned, requests, created, panicked>>
-----------------------------------------------------------------------------
(* Handlers that need no mutex, or not any more.                           *)

Health(c) ==
    /\ task[c].pc = "start"
    /\ R(c).op = "health"
    /\ Log(c, 2, 200, {})
    /\ UNCHANGED <<nextId, items, holder, poisoned, requests, created, panicked>>

(* A blank name, or a division by zero.                                    *)
InputRefused(c) ==
    /\ BodyRead(c)
    /\ JsonBody(R(c).body) = 200
    /\ R(c).op \in {"create", "divide"}
    /\ R(c).body.kind = "refused"
    /\ Log(c, 0, Bad, {})
    /\ UNCHANGED <<nextId, items, holder, poisoned, requests, created, panicked>>

Compute(c) ==
    /\ BodyRead(c)
    /\ JsonBody(R(c).body) = 200
    /\ \/ R(c).op = "echo"
       \/ R(c).op = "divide" /\ R(c).body.kind # "refused"
    /\ Log(c, 2, 200, {})
    /\ UNCHANGED <<nextId, items, holder, poisoned, requests, created, panicked>>

(* Path parameters that are no number; no q, or no id.                     *)
ParamsRefused(c) ==
    /\ task[c].pc = "start"
    /\ \/ R(c).op = "get" /\ R(c).id = 0
       \/ R(c).op \in {"search", "explain"} /\ R(c).query = "missing"
    /\ Answer(c, Bad)
    /\ UNCHANGED <<nextId, items, holder, poisoned, requests, created, panicked>>

Creating(c) ==
    /\ BodyRead(c)
    /\ R(c).op = "create"
    /\ JsonBody(R(c).body) = 200
    /\ R(c).body.kind # "refused"
    /\ holder["inner"] = Nobody

(* Mutant: the id follows from the items there were when the request came. *)
AddItemFromSnapshot(c) ==
    /\ Creating(c)
    /\ items' = Append(items, Cardinality(task[c].known) + 1)
    /\ nextId' = nextId + 1
    /\ Log(c, 2, 201, {Cardinality(task[c].known) + 1})
    /\ UNCHANGED <<holder, poisoned, requests, created, panicked>>

(* lock().unwrap().add_item(): the guard ends with the statement.  The     *)
(* panic of unwrap() is left out: nothing panics with this mutex held, so  *)
(* it is never poisoned (PanicStaysInSearch).                              *)
AddItem(c) ==
    /\ Creating(c)
    /\ items' = Append(items, nextId)
    /\ nextId' = nextId + 1
    /\ Log(c, 2, 201, {nextId})
    /\ UNCHANGED <<holder, poisoned, requests, created, panicked>>
-----------------------------------------------------------------------------
(* Handlers that keep their guard to the end.                              *)

(* Mutant: one mutex for the whole state.                                  *)
OneMutex(op) == "search"

MutexOf(op) == IF op \in ItemOps THEN "inner" ELSE "search"

Asks(c) ==
    /\ task[c].pc = "start"
    /\ R(c).op \in ItemOps \cup SearchOps
    /\ R(c).op = "get" => R(c).id # 0
    /\ R(c).op \in {"search", "explain"} => R(c).query # "missing"
    /\ holder[MutexOf(R(c).op)] = Nobody

Lock(c) ==
    /\ Asks(c)
    /\ MutexOf(R(c).op) \notin poisoned
    /\ holder' = [holder EXCEPT ![MutexOf(R(c).op)] = c]
    /\ Go(c, "locked")
    /\ UNCHANGED <<nextId, items, poisoned, requests, created, panicked>>

(* A panic ends the task and its connection; a guard it holds poisons.     *)
Panics(c) ==
    /\ task' = [task EXCEPT ![c] = NoTask]
    /\ panicked' = panicked \cup {R(c).op}
    /\ UNCHANGED <<nextId, items, requests, created>>

(* lock().unwrap() of a poisoned mutex.                                    *)
LockPoisoned(c) ==
    /\ Asks(c)
    /\ MutexOf(R(c).op) \in poisoned
    /\ Panics(c)
    /\ UNCHANGED <<holder, poisoned>>

Locked(c, op) == task[c].pc = "locked" /\ R(c).op = op

(* Mutant: the number of items is logged through a lock() of its own.      *)
ListItemsLockingTwice(c) ==
    /\ Locked(c, "list")
    /\ holder["inner"] = Nobody
    /\ Log(c, 2, 200, ToSet(items))
    /\ UNCHANGED <<nextId, items, holder, poisoned, requests, created, panicked>>

(* Mutant: the list is put together before the lock is taken.              *)
ListItemsAsOfArrival(c) ==
    /\ Locked(c, "list")
    /\ Log(c, 2, 200, task[c].known)
    /\ UNCHANGED <<nextId, items, holder, poisoned, requests, created, panicked>>

ListItems(c) ==
    /\ Locked(c, "list")
    /\ Log(c, 2, 200, ToSet(items))
    /\ UNCHANGED <<nextId, items, holder, poisoned, requests, created, panicked>>

GetItem(c) ==
    /\ Locked(c, "get")
    /\ IF R(c).id \in ToSet(items) THEN Log(c, 2, 200, {R(c).id}) ELSE Log(c, 1, Gone, {})
    /\ UNCHANGED <<nextId, items, holder, poisoned, requests, created, panicked>>

(* A query that does not parse is refused; explain() says not found.       *)
Search(c) ==
    /\ \/ Locked(c, "search") /\ R(c).query # "inverted"
       \/ Locked(c, "explain")
    /\ IF R(c).query = "malformed"
       THEN Log(c, 1, IF R(c).op = "search" THEN 400 ELSE Gone, {})
       ELSE \/ Log(c, 2, 200, {})
            \/ R(c).op = "explain" /\ Log(c, 1, Gone, {})
    /\ UNCHANGED <<nextId, items, holder, poisoned, requests, created, panicked>>

(* price:[10 TO 1]: BTreeMap::range() panics inside the engine.            *)
SearchPanics(c) ==
    /\ Locked(c, "search")
    /\ R(c).query = "inverted"
    /\ Panics(c)
    /\ holder' = [holder EXCEPT !["search"] = Nobody]
    /\ poisoned' = poisoned \cup {"search"}

Seed(c) ==
    /\ Locked(c, "seed")
    /\ Log(c, 2, 200, {})
    /\ UNCHANGED <<nextId, items, holder, poisoned, requests, created, panicked>>

Documents(c) ==
    /\ Locked(c, "documents")
    /\ Answer(c, 200)
    /\ UNCHANGED <<nextId, items, holder, poisoned, requests, created, panicked>>
-----------------------------------------------------------------------------
(* Entry::emit(), under whatever guard the handler has.                    *)

TakeWriter(c) ==
    /\ task[c].pc = "log"
    /\ task[c].level <= LogLevel
    /\ holder["out"] = Nobody
    /\ holder' = [holder EXCEPT !["out"] = c]
    /\ Go(c, "writing")
    /\ UNCHANGED <<nextId, items, poisoned, requests, created, panicked>>

NotLogged(c) ==
    /\ task[c].pc = "log"
    /\ task[c].level > LogLevel
    /\ Go(c, "answer")
    /\ UNCHANGED <<nextId, items, holder, poisoned, requests, created, panicked>>

Written(c) ==
    /\ task[c].pc = "writing"
    /\ holder' = [holder EXCEPT !["out"] = Nobody]
    /\ Go(c, "answer")
    /\ UNCHANGED <<nextId, items, poisoned, requests, created, panicked>>

(* Mutant: the guard lives on in the answer.                               *)
RespondKeepsGuard(c) ==
    /\ task[c].pc = "answer"
    /\ created' = created \cup (IF task[c].status = 201 THEN task[c].shown ELSE {})
    /\ task' = [task EXCEPT ![c] = NoTask]
    /\ UNCHANGED <<nextId, items, holder, poisoned, requests, panicked>>

(* The handler returns; its guards are dropped.                            *)
Respond(c) ==
    /\ task[c].pc = "answer"
    /\ holder' = [m \in Mutexes |-> IF holder[m] = c THEN Nobody ELSE holder[m]]
    /\ created' = created \cup (IF task[c].status = 201 THEN task[c].shown ELSE {})
    /\ task' = [task EXCEPT ![c] = NoTask]
    /\ UNCHANGED <<nextId, items, poisoned, requests, panicked>>

Handler(c) ==
    \/ AwaitBody(c) \/ BodyRefused(c)
    \/ Health(c) \/ InputRefused(c) \/ Compute(c) \/ ParamsRefused(c) \/ AddItem(c)
    \/ Lock(c) \/ LockPoisoned(c)
    \/ ListItems(c) \/ GetItem(c) \/ Search(c) \/ SearchPanics(c) \/ Seed(c) \/ Documents(c)
    \/ TakeWriter(c) \/ NotLogged(c) \/ Written(c) \/ Respond(c)

Step(c) == Resume(c) \/ BodyArrives(c) \/ Handler(c)

Next == \E c \in Tasks : Step(c) \/ \E r \in Requests : Arrive(c, r)

Spec == Init /\ [][Next]_vars

(* Threads run on, the runtime polls a task that can go on, and a client   *)
(* sends the body it announced or breaks the connection.  A task is at one *)
(* of the three at a time.                                                 *)
FairSpec == Spec /\ \A c \in Tasks : WF_vars(Step(c))
-----------------------------------------------------------------------------
TaskType ==
    [pc : {"idle", "queued", "body", "start", "locked", "log", "writing", "answer"},
     request : SUBSET Requests, arrived : BOOLEAN, known : SUBSET Nat, level : Nat,
     status : Nat, shown : SUBSET Nat]

(* Types; a mutex is held only by a task on a worker, never by one that    *)
(* waits for its body, and ids are handed out in order.                    *)
TypeOK ==
    /\ items \in Seq(Nat)
    /\ \A k \in DOMAIN items : items[k] = k
    /\ nextId = Len(items) + 1
    /\ task \in [Tasks -> TaskType]
    /\ holder \in [Mutexes -> Tasks \cup {Nobody}]
    /\ \A m \in Mutexes : holder[m] # Nobody => holder[m] \in Running
    /\ poisoned \subseteq Mutexes
    /\ Cardinality(Running) <= Workers
    /\ requests \in 0..MaxRequests
    /\ created \subseteq Nat

(* Whoever asks after a creation was answered is shown the item, and no    *)
(* two creations are answered with the same id, however they overlap.      *)
CreatedIsFound ==
    \A c \in Tasks : task[c].pc = "answer" =>
        /\ R(c).op = "list" => task[c].known \subseteq task[c].shown
        /\ R(c).op = "get" /\ R(c).id \in task[c].known => task[c].status = 200
        /\ task[c].status = 201 => task[c].shown \cap created = {}

(* A query that panics in the engine poisons the search for good, and      *)
(* nothing else: no other operation ever panics.                           *)
PanicStaysInSearch ==
    /\ panicked \subseteq SearchOps
    /\ poisoned \subseteq {"search"}

(* Every request ends, answered or in a panic: the mutexes, the writer     *)
(* taken under them and the workers never make tasks wait in a circle.     *)
EveryRequestEnds == \A c \in Tasks : []<>(task[c].pc = "idle")

(* A call is decided when its handler looks at the items, or refuses.      *)
Stage(pc) ==
    IF pc = "idle" THEN "none"
    ELSE IF pc \in {"log", "writing", "answer"} THEN "decided"
    ELSE "called"

Calls ==
    [c \in Tasks |-> [stage |-> Stage(task[c].pc), request |-> task[c].request,
                      status |-> task[c].status, shown |-> task[c].shown]]

(* The handlers do what ItemService promises: each list, look-up and       *)
(* creation is atomic, at a moment between its arrival and its answer,     *)
(* whatever mutexes, workers, bodies and log entries come in between.      *)
Service == INSTANCE ItemService WITH stored <- Len(items), call <- Calls

ImplementsItemService == Service!SSpec
=============================================================================
