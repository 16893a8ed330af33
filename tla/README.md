# Verification of smallstack

TLA+ models of the parts of smallstack in which something can go wrong over
several steps: TLC checks them on small instances, and TLAPS proves the most
important properties for every size. Paths below are relative to
`src/crates/`.

## The system

smallstack is a workspace of small Rust crates. What each keeps, does and needs:

| Part | State | Operations | What makes it correct |
|---|---|---|---|
| mini-serve, accept loop (`app.rs`) | listener, semaphore, `JoinSet`, `shutdown_initiated`, connection tasks | accept, wait for a permit, spawn, notice shutdown, join, return | permits conserved; nothing admitted while draining; the drain ends, and ends after the last connection |
| mini-static, accept loop (`server.rs`) | the same | the same, HTTP/1 and 2, no header timer | the same |
| mini-serve, router (`router.rs`, `app.rs` `route`) | route trie, fixed once sealed | insert, look up, apply middleware; HEAD and 404/405 | a registered route that matches is found; precedence static, parameter, wildcard |
| mini-serve, middleware and CORS | wrapped handlers, a CORS configuration | wrap, preflight, add headers | order of wrapping; headers only for allowed origins |
| mini-static, file responses (`server.rs`, `resolve.rs`) | none; the file system | resolve, conditional GET, range, stream or buffer | bytes, range and validators belong to one version of the file |
| mini-static, live reload (`live.rs`) | poller's mtimes, list of senders, a channel per browser | scan, broadcast, subscribe, deliver | a change reaches each connected browser; no event without a change |
| mini-search, engine (`engine.rs`, `index/`) | documents, configurations, text, numeric and exact index | configure, add, search | the indexes agree with the documents |
| mini-search, persistence (`persist.rs`) | `state.json` | save, open | what is opened is what was saved |
| mini-search, query, tokenizer, scoring | none | parse, tokenize, BM25 | grammar and bounds |
| mini-unified | none | mounts mini-static on mini-serve | every path under the mount is served |
| mini-err, mini-log | scope interner; a log entry's eight fields | intern, (de)serialize; add field, emit | bound respected; nothing lost silently |
| demo | the items, the engine and the log writer, each in a `Mutex` | HTTP handlers on worker threads | no circle of waiting; a panic reaches no further than its lock; what was created is found |

How they interact. An accept loop and its connection tasks share the semaphore
and the `JoinSet`; tasks run concurrently on tokio and end by a response, a
close, a timeout, a panic or a failed handshake. A task calls the router
(mini-serve) or the file handler (mini-static); mini-unified calls the second
from the first. In debug builds of mini-static a poller task, the SSE handlers
and the browsers share the Broadcaster. The engine of mini-search is sequential
(`&mut self`); its hard parts are long sequences of calls and crashes around
`save`. The demo puts the items and an engine behind mutexes which its handlers
hold while they log, on worker threads that a waiting `lock()` blocks.

The hard behaviours: shutdown racing with accept and with the wait for a
permit; tasks that end in many ways; a drain that depends on clients; documents
replaced, refused half way and reconfigured; a crash in the middle of a save;
files that change while they are scanned or sent; builder calls in any order;
a trie search that backtracks; tasks that wait for a mutex, for a worker and for
a body. `PROJECT.json` lists each
hazard with its line and the properties about it.

## The models

### ServeLoop and GracefulServer: the accept loops

`ServeLoop` is the loop of `serve_with_shutdown` (`mini-serve/src/app.rs`) with
the tasks it spawns. Its constants make it one of the repository's loops:
`HasShutdown` FALSE is `serve_inner`, `UseTls` the TLS variants, `HasTimer`
FALSE mini-static.

| Model | Code |
|---|---|
| `loop` | at the `select!`, inside its accept branch waiting for a permit, or returned |
| `fired`, `initiated` | the shutdown future has completed; `shutdown_initiated` |
| `permits` | `semaphore` |
| `conn[c]` | where a connection is, from the listener's queue to the end of its task |
| `finished` | ended tasks the `JoinSet` still holds |
| `Accept`, `AcquireAndSpawn` | the two halves of the accept branch, between which it awaits `acquire_owned()` |
| `TakeShutdown`, `JoinNext`, `Return` | the other branches of `select!` |
| `HandshakeDone/Fails`, `BeginRequest`, `FinishRequest`, `FinishAndClose`, `HandlerPanics`, `PeerClosed`, `HeaderTimeout` | the life of a task; `EndTask` is common to all its ends |
| `Connect`, `Leave`, `Signal` | clients and the shutdown future |
| `Stall` (`"stalled"`) | a client goes silent in its body, or does not read its answer; only its leaving ends that |

`GracefulServer` is what a caller may rely on: a bounded set of connections, a
moment at which the server begins to drain, no admission from then on, and a
return when none is left. `ImplementsGracefulServer` says that ServeLoop does
that, with `Serving` as the open connections.

### SearchIndex: documents and indexes

One collection of an `Engine`. A document maps fields to values; a value is a
set of strings or one number; the tokenizer is the constant `Tokens`. The text
index counts entries (`postings[f][t][i]`), so that a double insertion shows.
`AddDocument` is the whole of `add_document`; `AddDocumentFails` is the return
at the first oversized field, after any of the other fields were indexed, since
they come out of a `HashMap`. `search` reads only: `Candidates` and `Outcomes`
give the sets of hits it can return, the choice among candidates beyond
`MAX_RESULTS` being the score's, which is abstracted. `addedUnder` and `torn`
are history for the properties.

### SearchPersist: save, open, crash

Extends SearchIndex with `state.json` and the process. `save` is two steps,
because `std::fs::write` truncates before it writes; `Crash` is possible
between any two steps; `open` is a loop of `AddDocument` over the saved
documents in any order, given up at the first refusal. A failed `open` of a
partial file is the step `OpenCorrupt`, which changes nothing.

JSON is not the identity. `PersistedState` is what is written, `Parses` whether
serde_json reads it back: not if a boost is not finite, which is written as
null; not if a document has a field named `id`, since `fields` is flattened
beside the id (`document.rs:5-10`) and the key is then a duplicate; not if a
value is nested deeper than the parser goes. `save` reports none of these.
Everything else is taken to be read as it was written; the last bit of a
float, which serde_json may read differently, is left out.

### LiveReload: poller, Broadcaster, browsers

A scan looks at each file once, in any order, at its own moment; files are
written and deleted between those moments. A browser loads a page, then
subscribes; the stream it reads is a member of `Streams`, and the Broadcaster's
list is the set of streams whose senders it holds. A browser that gets anything
but a css event reloads, which leaves a dead sender behind, exactly as the
injected script does; `Broadcast` sends to the live ones and drops the dead.
`stale`, `writes`, `unseen` and `announced` are history.

### Router, Cors and App: from builder calls to an answer

`Router` is the trie (`mini-serve/src/router.rs`) as operators on a value. A
node is named by the segments on the way to it; `Insert` keeps the order in
which nodes were made, because parameters are tried in that order. `FindNode` is
the depth-first search as a recursive function (`Visit`, of the segments still
to be matched; the branch is decided by the first child that finds something). Each
call comes back with the node and with the map of captured values that
`find_node` passes down: cloned for a child, extended by a parameter's piece,
assigned back if the child finds something, dropped at a dead end. `PathParams`
is the map the handler gets; `Captures` says, without a search, what a pattern
captures of a path.
`Cors` is `CorsConfig` (`middleware.rs`): `Build` with its different answers in
debug and release builds, `ApplyToResponse`, `PreflightResponse`.

`App` has the builder as its state machine. Each call of `RouteBuilder` and, in
the closure of `group()`, of `GroupBuilder` is an action; `CloseGroup`,
`MountRoute` and `Mounted` are what `group()` does when the closure returns;
`ServeStatic` is what mini-unified adds. After `Seal` nothing changes any more,
so `route()` is the operator `Respond`, and the invariants quantify over
requests and over what a handler may return (`Ask`, in which a path or a query
may also be too long and refused before the router). A handler is its owner (0 for the
builder, else the group) and the middleware around it.

### StaticFile: one response against a changing file

`handle()` of `mini-static/src/server.rs` in the steps between which it awaits
the file system: `Resolve`, `Metadata` with the decisions on conditions and
ranges, `Open`, `ReadChunk`, `Finish`. `Replace`, `Overwrite` and `Delete` come
at any moment; `inode` and `fd` tell a file renamed into place from one
written in place. The constant `Servers` selects the paths through the code:
streamed or buffered, under `handle_request()` or not, debug or release.
`Receive` keeps a response, and `Send` builds conditions from what was kept, so
that a 304 is about a copy some earlier race has produced. `versions` and
`edits` are history.

### Demo: mutexes and workers

A request is a task; it runs on a worker from `Resume` until it answers, panics
or waits for its body. `holder` has the three mutexes; a guard is taken at the
step of its `lock()` and kept as long as the code keeps it: over the log entry
and to the end of the handler for `list` and `search`, for the statement alone
in `create`. `json_body()` looks at the declared length before it waits and at
the size after. An inverted range in a query panics in the engine with the
guard held.

`ItemService` is what a client of the items may rely on, without mutexes,
workers, bodies or a log: ids are numbered as items are created, and a call is
decided at one moment between its arrival and its answer, on all the items of
that moment. Only a call that has nothing to do with the items may end
undecided. `ImplementsItemService` says that Demo does that, with `Calls` as
the calls: a task is decided once its handler has looked at the items, or has
refused, whatever it still waits for then.

## The runs

| Run | Instance | Shows |
|---|---|---|
| `serve_graceful` | TLS, timer, 3 connections, 2 permits | type, permits, one waiter, no admission while draining, refinement; if silent clients leave, the shutdown returns and an accepted connection is served |
| `serve_stops_accepting` | 2 connections, 1 permit | **violated**: connections are admitted after the signal |
| `static_shutdown_waits` | no timer, 2 connections, 2 permits | **violated**: an idle keep-alive connection keeps the drain from ending |
| `search_index` | 2 ids, 4 documents, 2 configurations, 3 fields | indexes agree with documents |
| `search_round_trip` | the same | **violated**: a replaced document is found by what it no longer has |
| `search_persist` | 2 ids, 3 documents, 2 configurations, one document and one boost that do not read back | what is opened is what was saved, exactly indexed; a complete file is refused only for a named reason |
| `live_reload` | 2 browsers, 2 streams, 2 files, 1 write, 1 error | streams and senders agree, no event without a cause, every change is told |
| `app` | 5 patterns, 1 group prefix, 2 middlewares, 4 CORS settings, 3 calls | the search, the parameters, the wrapping, 404 and 405, who may read an answer |
| `router_backtracks` | 3 overlapping patterns | **violated**: a node without handlers hides another route |
| `head_headers` | a GET and a POST route, 2 calls | **violated**: HEAD has another content-length than GET |
| `static_file` | 2 versions of at most 2 bytes, 2 seconds, 4 kinds of server | exact ranges, no mixed versions, true 304s |
| `demo` | 3 requests on 2 workers | created items are found, a panic stays in the search, every request ends, refinement |

Bounds. Three connections for two permits are the smallest server in which
tasks run beside each other while a third connection waits in the loop or in
the listener's queue; a slot is used again after its task has ended, so more
clients come than there are slots, and a waiter depends on another's end.
`MaxRequests` = 1
distinguishes a fresh connection from one kept alive. In the search runs one
document has each kind of value (found, changed, without tokens, too long) and
the configurations exchange the roles of two fields; ids do not interact other
than in the cut of `search`, where `MaxResults` = 1 makes two of them compete.
In `live_reload` each file exists from the start or not and one write follows,
which may fall before, in or after any scan; one error is a failed walk or a
failed metadata call at any moment; two streams let a live sender stand beside a
dead one or beside another live one. In `app` the patterns overlap at every kind
of segment, and three calls are the fewest in which a group, its middleware and
a route beside it occur, or a route and a `wrap()` on each side; which calls
came before matters only through the trie and the lists they leave. In
`static_file` two bytes are enough for a range to be empty, to stop short of the
end, to reach it and to pass it, and for a body to need two reads; `MaxU64` is one beyond what a file can reach; two versions suffice since the
code compares a copy with the present file only. In `demo` three requests are
a creation, a second one or a look-up beside it, and one to hold a lock or
a worker; a list that was put together before its lock is taken already differs
from the items with two. The models are without time: nothing in them depends on how long a
step takes.

Fairness (`ServeLoop!FairSpec`). The loop's own steps are weakly fair, except
`TakeShutdown`, which is strongly fair: `select!` polls its branches in random
order, so a shutdown that is ready each time round is taken in the end. Handlers
return, hyper notices a closed connection and its timer fires, and a request
whose client keeps up its part is answered (`TaskFairness`).

`ClientFairness` is an assumption on the clients which nothing in the code
enforces: a client that is silent within a TLS handshake or within a request
(`"stalled"`) leaves some day. Neither wait has a timer: the header timer covers
neither, the handshake is awaited as it is (`app.rs:572`), and of a slow body
`UPGRADE.md:829-833` says that it can hold a connection for ever. Without the
assumption both liveness properties are false: one such client holds its permit,
and a drain; if it holds the last permit the loop does not even come back from
its accept branch to look at the shutdown (`UPGRADE.md:392-396`). Nothing is assumed of clients that are idle between two requests;
those the timer ends, and in mini-static, which has none, they are what
`static_shutdown_waits` finds. `MaxRequests` also assumes that no client sends
requests on one connection for ever.

`LiveReload!FairSpec`: the interval ticks, the poller runs on, browsers read
their streams; errors do not come for ever (`MaxErrors`). `Demo!FairSpec`:
threads run on, the runtime polls a task that can go on, and a client sends the
body it announced or breaks the connection; no fairness between tasks that want the
same mutex is needed, since the requests are finite (`MaxRequests`). The other
modules are about safety only.

## What disagrees with its documentation

- **Immediate stop.** `bind_with_shutdown` "stops accepting new connections
  immediately" (`mini-serve/src/app.rs:622`). `select!` may take the accept
  branch once more, and while that branch waits for a permit the shutdown is
  not even polled. What does hold is `NoAdmissionOnceInitiated`: nothing is
  admitted once the loop has noticed.
- **mini-static's drain** (`mini-static/README.md:91`) returns only when every
  keep-alive client has closed, since its connections have no timer and are
  not told of the shutdown.
- **Round trip** (`mini-search/tests/persist.rs:33`). Adding a document again
  never removes its old numeric and exact keys, nor the postings of a field
  that no longer has tokens; an engine opened from the saved state is rebuilt
  without them. The property is said only of engines without a failed add whose
  documents were all added under the present configuration.
- **Backtracking** (`mini-serve/src/router.rs:120-122`, "overlapping routes like
  `/a/b` and `/:x/c` both work"). `find_node` takes the first node at the depth
  of the path, handler or not (`router.rs:129-131`): with `/a/b/c` and `/:x/b`
  registered, `GET /a/b` is a 404. Among nodes the precedence does hold
  (`FindsMostSpecific`).
- **HEAD** (`mini-serve/src/app.rs:226`, "HEAD must return identical headers to
  GET"). The fallback sets `content-length: 0` whatever the body's length
  (`UPGRADE.md:416`); a test asserts the zero (`mini-serve/tests/routing.rs:167`).

Met on the way, in the models as the code has it and without a run of their own:

- The 400s for a path or a query that is too long return before the CORS headers
  are added (`mini-serve/src/app.rs:166-171`): no page of another origin can
  read them, be it allowed or not. `ReadableByAllowed` says so.
- `save` writes three things `open` refuses (`Parses`, above), and a document
  added under another configuration may be refused too.
  `RefusedForAReason` says that there are no other reasons.
- A client silent in its body or its handshake holds a drain and a permit for as
  long as it likes (`ClientFairness`, above).
- `mini-static/README.md:58`, "I/O errors return 500": a read that fails while a
  file is streamed cuts the response off, or, under `handle_request()`, makes it
  an empty 200 with the validators of the file (`ReadFails`).
- `mini-static/README.md:34` lists If-Range among what is handled; no code
  reads it.
- An inverted range such as `price:[10 TO 1]` parses, and `BTreeMap::range`
  panics on it (`mini-search/src/index/numeric.rs:102`). In the demo that
  poisons the mutex of the search until a restart (`PanicStaysInSearch`).

## What is proved

Each proof module is named after the module it is about. The invariants of the
runs are seldom inductive; each module defines the strengthening it uses.

**ServeLoopProof**, for any finite set of connections, any limit and all
variants of the loop. `IInv` is `TypeOK`, `PermitsConserved`,
`OneConnectionWaits` and `DrainingHoldsNothing`. The last is
the strengthening: that a drain admits nothing depends on the loop never being inside its accept branch once
the flag is set. The only arithmetic is the cardinality of `Serving`, which
three lemmas reduce to a change of one. Besides the invariants: at most
`max_connections` are served, nothing is admitted once the shutdown is noticed,
and `Implementation`, that every step of the loop is a step of GracefulServer
or leaves it alone.

**SearchIndexProof**, for any documents, configurations and tokenizer. `IInv`
has `TypeOK`, `EnteredOnce`, `LengthsMatchPostings`, `FiltersCover` and
`PostingsFollow`. The checked `FiltersMissNothing` and `TextIndexIsFresh` speak
of documents added under the present configuration and are not inductive:
setting another configuration and then the first again must lose nothing. The
strengthened forms say it of each document under its own configuration.

**SearchPersistProof**, on top of it. `LoadedExactly` says what the engine has
in the middle of `open()`: the saved documents but those still to be loaded,
indexed exactly, whatever the order; `OpenIsExact` is its last step.
`OnlyAccepted` and `DiskOK` say that what is stored, in memory and in the file,
was accepted under the configuration it was added under, from which
`RefusalHasAReason` follows;
`DownOK` that a crash leaves nothing in memory.

**LiveReloadProof**, for any files, browsers, streams, writes and failures.
`NoSpuriousReload` is strengthened by `Paid`: an announcement that is still to
come is already paid for by the write or the failed look that made it due, also
for a file the running scan has passed.

**RouterProof**, for any trie, pattern and path. `Trie` is what `insert()` keeps
(`InsertKeepsTrie`): no node twice, and with each node the one above it, so that
a node is reached by the search from the root. `FindNodeIsFirst` says what the
search returns: nothing if no node matches the path, and otherwise a matching
node that comes before every other in the precedence, with static segments
before parameters before the wildcard, and parameters by age. The search is a
recursive function on the segments left; where it could go wrong is one level of
it, so the proof takes a path for which it does go wrong with the fewest
segments left, and shows that one of the branches below it goes wrong too.
`PrecedenceIsStrict` is what makes "first" mean something: two nodes never come
before each other, so only one can be first. `ParamsOfSearch` is about the map that is handed
through the search: what comes back is what the pattern that was found captures
of the path, and nothing of the branches that were given up. A path for which
that goes wrong with the fewest segments left cannot exist, by the same argument.

**AppProof**, for any routes, groups, settings and any number and order of
builder calls. `RouterWrapped` and `GroupWrapped` follow a handler from the
closure of its group into the trie and through `seal()`, which gives
`MiddlewareOnceEach`. `CredentialsNeverForAll` rests on what `Build` can return,
through the invariant that `cors` holds nothing else; `AllowedPagesRead` on that
and on the headers `apply_to_response()` adds, or does not, to the 400s that are
returned before it. `BuilderKeepsTypes` makes the
router a `Trie` at every moment, which is what RouterProof needs for
`SearchFindsMostSpecific` and `ParamsAreOfTheRouteFound`; `NotFoundAndNotAllowed`
is about the decisions of `route()` on the node that was found.

**StaticFileProof**, for files, chunks and numbers of versions of any size.
`RangesAreExact` is about the arithmetic alone: the range computed from a spec
has just the positions RFC 9110 selects. The invariant relates what was read to
the version `metadata()` saw, as long as that is the newest (`ReadExactly`), and
each response and kept copy to the version its validators name, unless a newer
one has come (`Of`); a 304 then means that none has. `AnsweredExactly` needs
another invariant, `ExactSoFar`, about the response that is being made: unless
the file is edited meanwhile, `metadata()` saw the version that is still there,
the range is what one of the specs of the request selects of it (`Asked`), and
what was read is the bytes of that version, from the start of the range.

**DemoProof**, for any tasks, workers and requests. `GuardsAt` says where in its
handler a task can be that holds a mutex, and for which operations;
`NewIdsDiffer` and `AnswersFit` are about answers that are under way.
`Implementation` is the refinement of ItemService: the steps of the runtime, the
locks and the log change no call (`WaitIsUnseen`), and each other step is the
move of ItemService it should be. It needs that a task shows nothing before it
is decided (`Undecided`), that the items are numbered without gaps (of
`TypeOK`), and, for the calls that end in a panic, `PanicStaysInSearch`: a
poisoned mutex of the items is what would leave a list without an answer.

The assumptions are those the modules name, on constants only: bounds are
natural numbers, sets of connections and tasks are finite, names that stand for
"none" are not members of the sets they are added to, requests and settings have
the fields the code parses. Those of `App` say what its types and its builder
say: a pattern is a sequence of static segments, parameters and wildcards
(`PatternsAssumption`), a path one of strings (`PathsAssumption`), and there is
a call for GET and none for HEAD (`MethodsAssumption`). TLC evaluates each of
them in the runs.

Every invariant and every safety property of the passing runs is proved. Only
model-checked is liveness (`ShutdownReturns`, `AcceptedIsServed`,
`EveryChangeIsTold`, `EveryRequestEnds`), which the prover does not reach: it
has no rules for fairness, and no ENABLED. The violations need no proof; TLC's
traces are theirs.

## Not modelled

- The text processing of mini-search: query grammar, tokenizer, BM25, boosts,
  explanations, redaction, processors. Functions of text and floating point,
  without state; the tokenizer is the constant `Tokens`, a query a record.
- mini-err's interner of scope names: a set with a bound under one lock, filled
  only when errors are deserialized, which nothing in the workspace does at run
  time. mini-log's entry: a pure builder, one branch per field.
- Header parsing and formatting, MIME types, transforms, path arithmetic of
  `resolve()` (its outcomes are in StaticFile), the copy of headers in
  mini-unified, certificate loading, extractors, and the wasm binding.
- HTTP/2 multiplexing, which belongs to hyper, and time: a timer is a step that
  may come, a clock a number that may advance. A failed `accept()` is retried at
  once and changes nothing.

## Plan

Done: ServeLoop with GracefulServer, SearchIndex, SearchPersist, LiveReload,
Router, Cors, App, StaticFile, Demo with ItemService, and the proofs above. What
would add most next:

1. `search()` as steps with processors that fail, and several collections.
2. The composition of LiveReload with StaticFile: a page loaded while its file
   changes, whose script subscribes afterwards.
