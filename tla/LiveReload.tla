----------------------------- MODULE LiveReload -----------------------------
(***************************************************************************)
(* mini-static's live reload (debug builds): a poller scans the directory  *)
(* every 500 ms and compares modification times with those of the scan     *)
(* before; a Broadcaster sends an event to every subscribed SSE stream;    *)
(* the script in the page reacts.  Files change, browsers come and go, and *)
(* scans fail, at any moment of a scan.                                    *)
(*                                                                         *)
(* Data.  A file is a member of Paths with a modification time, 0 when it  *)
(* does not exist; every write takes a new one (the clock of the file      *)
(* system is finer than the writes).  An event carries the change type     *)
(* only; the model keeps the path, from which the type follows.  The walk  *)
(* lists all directories and then reads the metadata of each file: for one *)
(* file this is one look at it, and Visit takes the looks in any order.    *)
(***************************************************************************)
EXTENDS Naturals, Sequences, SequencesExt

CONSTANTS
    Paths,       \* the files of the served directory
    Stylesheets, \* those with the extension css
    Browsers,
    Streams,     \* SSE streams with their senders: bounds the Broadcaster's list
    MaxClock,    \* bound: writes
    MaxErrors    \* bound: failed walks and failed metadata() calls

ASSUME FilesAssumption == Stylesheets \subseteq Paths
ASSUME StreamsAssumption == Streams \cap {"closed", "loaded"} = {}
ASSUME BoundsAssumption == MaxClock \in Nat \ {0} /\ MaxErrors \in Nat

VARIABLES
    clock, mtime,   \* the file system: mtime[p], 0 for no file
    first,          \* first_pass
    known,          \* mtimes: known[p] of the scan before, 0 for no entry
    current,        \* the map of the scan that runs
    toVisit,        \* its files still to be looked at
    scanning,       \* a scan runs; otherwise the poller waits for its tick
    senders,        \* the Broadcaster's list, as a set of streams
    page,           \* page[b]: "closed", "loaded", or the stream it reads
    inbox,          \* inbox[b]: the events in the channel of b
    errors,         \* how many calls have failed
    stale,          \* history: stale[b], changes b has to be told of
    writes,         \* history: writes[p]
    unseen,         \* history: unseen[p], scans that failed to see p
    announced       \* history: announced[p], events broadcast for p

files == <<clock, mtime>>
poller == <<first, known, current, toVisit, scanning>>
clients == <<senders, page, inbox>>
history == <<stale, writes, unseen, announced>>
vars == <<files, poller, clients, errors, history>>

(* A browser is connected as long as it reads a stream.  A sender whose    *)
(* stream nobody reads any more is dead: its receiver was dropped.         *)
Connected(b) == page[b] \in Streams
Live == {s \in Streams : \E b \in Browsers : page[b] = s}

Init ==
    /\ clock = 1
    /\ mtime \in [Paths -> {0, 1}]
    /\ first = TRUE
    /\ known = [p \in Paths |-> 0]
    /\ current = [p \in Paths |-> 0]
    /\ toVisit = {}
    /\ scanning = FALSE
    /\ senders = {}
    /\ page = [b \in Browsers |-> "closed"]
    /\ inbox = [b \in Browsers |-> <<>>]
    /\ errors = 0
    /\ stale = [b \in Browsers |-> {}]
    /\ writes = [p \in Paths |-> 0]
    /\ unseen = [p \in Paths |-> 0]
    /\ announced = [p \in Paths |-> 0]
-----------------------------------------------------------------------------
(* The file system.  A change is one the poller has to tell unless it      *)
(* precedes the first look at the file, which only sets the baseline.      *)

HasBaseline(p) == ~first \/ (scanning /\ p \notin toVisit)

Write(p) ==
    /\ clock < MaxClock
    /\ clock' = clock + 1
    /\ mtime' = [mtime EXCEPT ![p] = clock']
    /\ writes' = [writes EXCEPT ![p] = @ + 1]
    /\ stale' = [b \in Browsers |-> IF Connected(b) /\ HasBaseline(p)
                                    THEN stale[b] \union {p} ELSE stale[b]]
    /\ UNCHANGED <<poller, clients, errors, unseen, announced>>

(* The poller tells of no deletion: what was owed for the file is void.    *)
Delete(p) ==
    /\ mtime[p] # 0
    /\ mtime' = [mtime EXCEPT ![p] = 0]
    /\ stale' = [b \in Browsers |-> stale[b] \ {p}]
    /\ UNCHANGED <<clock, poller, clients, errors, writes, unseen, announced>>
-----------------------------------------------------------------------------
(* The Broadcaster.  The list is locked while it is walked.                *)

Send(told, p) ==
    LET hears(b) == page[b] \in told IN
    /\ inbox' = [b \in Browsers |-> IF hears(b) THEN Append(inbox[b], p) ELSE inbox[b]]
    /\ stale' = [b \in Browsers |-> IF hears(b) THEN stale[b] \ {p} ELSE stale[b]]
    /\ announced' = [announced EXCEPT ![p] = @ + 1]

(* Mutant: the list is walked with swap_remove, and the sender that takes  *)
(* the place of a dead one is not called.                                  *)
BroadcastSkipping(p) ==
    /\ senders' = senders \cap Live
    /\ \E skipped \in SUBSET senders :
          /\ skipped # {} <=> ~ senders \subseteq Live
          /\ Send((senders \cap Live) \ skipped, p)

(* Mutant: the list is taken out of its mutex and not put back.            *)
BroadcastDrains(p) ==
    /\ senders' = {}
    /\ Send(senders \cap Live, p)

(* retain() calls every sender and drops those whose receiver is gone.     *)
Broadcast(p) ==
    /\ senders' = senders \cap Live
    /\ Send(senders \cap Live, p)

NoBroadcast == UNCHANGED <<senders, inbox, stale, announced>>
-----------------------------------------------------------------------------
(* The poller.                                                             *)

StartScan ==
    /\ ~scanning
    /\ scanning' = TRUE
    /\ toVisit' = Paths
    /\ current' = [p \in Paths |-> 0]
    /\ UNCHANGED <<first, known, files, clients, errors, history>>

(* walk_dir() fails: unwrap_or_default() makes it an empty directory.      *)
WalkFails ==
    /\ ~scanning
    /\ errors < MaxErrors
    /\ errors' = errors + 1
    /\ known' = [p \in Paths |-> 0]
    /\ first' = FALSE
    /\ unseen' = [p \in Paths |-> unseen[p] + 1]
    /\ UNCHANGED <<current, toVisit, scanning, files, clients, stale, writes, announced>>

Visit(p) ==
    /\ scanning
    /\ p \in toVisit
    /\ toVisit' = toVisit \ {p}
    /\ current' = [current EXCEPT ![p] = mtime[p]]
    /\ IF ~first /\ mtime[p] # 0 /\ mtime[p] # known[p] THEN Broadcast(p) ELSE NoBroadcast
    /\ UNCHANGED <<first, known, scanning, files, page, errors, writes, unseen>>

(* metadata() fails: the file is left out of this scan.                    *)
MetadataFails(p) ==
    /\ scanning
    /\ p \in toVisit
    /\ mtime[p] # 0
    /\ errors < MaxErrors
    /\ errors' = errors + 1
    /\ toVisit' = toVisit \ {p}
    /\ unseen' = [unseen EXCEPT ![p] = @ + 1]
    /\ UNCHANGED <<first, known, current, scanning, files, clients, stale, writes, announced>>

(* Mutant: entries are added to the map and never updated.                 *)
EndScanKeepsOld ==
    /\ scanning
    /\ toVisit = {}
    /\ known' = [p \in Paths |-> IF known[p] # 0 THEN known[p] ELSE current[p]]
    /\ first' = FALSE
    /\ scanning' = FALSE
    /\ UNCHANGED <<current, toVisit, files, clients, errors, history>>

EndScan ==
    /\ scanning
    /\ toVisit = {}
    /\ known' = current
    /\ first' = FALSE
    /\ scanning' = FALSE
    /\ UNCHANGED <<current, toVisit, files, clients, errors, history>>
-----------------------------------------------------------------------------
(* The browsers.                                                           *)

LoadPage(b) ==
    /\ page[b] = "closed"
    /\ page' = [page EXCEPT ![b] = "loaded"]
    /\ UNCHANGED <<senders, inbox, files, poller, errors, history>>

(* GET /__mini_reload: a channel of its own for every request (which one   *)
(* of those not in the list does not matter).                              *)
Subscribe(b) ==
    /\ page[b] = "loaded"
    /\ ~ Streams \subseteq senders
    /\ LET s == CHOOSE x \in Streams \ senders : TRUE
       IN  senders' = senders \union {s} /\ page' = [page EXCEPT ![b] = s]
    /\ UNCHANGED <<inbox, files, poller, errors, history>>

(* Mutant: the events of the closed stream are kept.                       *)
HangupKeepsInbox(b) ==
    /\ page' = [page EXCEPT ![b] = "closed"]
    /\ stale' = [stale EXCEPT ![b] = {}]
    /\ UNCHANGED inbox

(* The stream of b is dropped, with its receiver and what is in it.  The   *)
(* sender stays in the list until the next event.                          *)
Hangup(b) ==
    /\ page' = [page EXCEPT ![b] = "closed"]
    /\ inbox' = [inbox EXCEPT ![b] = <<>>]
    /\ stale' = [stale EXCEPT ![b] = {}]

Leave(b) ==
    /\ Connected(b)
    /\ Hangup(b)
    /\ UNCHANGED <<senders, files, poller, errors, writes, unseen, announced>>

(* A css event refreshes the stylesheets of the page, any other reloads    *)
(* it, which closes the stream with all that is in it.                     *)
Deliver(b) ==
    /\ Connected(b)
    /\ inbox[b] # <<>>
    /\ IF Head(inbox[b]) \in Stylesheets
       THEN inbox' = [inbox EXCEPT ![b] = Tail(@)] /\ UNCHANGED <<page, stale>>
       ELSE Hangup(b)
    /\ UNCHANGED <<senders, files, poller, errors, writes, unseen, announced>>
-----------------------------------------------------------------------------
Next ==
    \/ \E p \in Paths : Write(p) \/ Delete(p)
    \/ StartScan \/ WalkFails \/ EndScan
    \/ \E p \in Paths : Visit(p) \/ MetadataFails(p)
    \/ \E b \in Browsers : LoadPage(b) \/ Subscribe(b) \/ Leave(b) \/ Deliver(b)

Spec == Init /\ [][Next]_vars

(* The interval ticks, the poller's task runs on, and a browser with an    *)
(* open stream reads it.  No file and no browser has to do anything, and   *)
(* an error may come at any call, though not for ever (MaxErrors).         *)
Fairness ==
    /\ WF_vars(StartScan)
    /\ WF_vars(EndScan)
    /\ \A p \in Paths : WF_vars(Visit(p))
    /\ \A b \in Browsers : WF_vars(Deliver(b))

FairSpec == Spec /\ Fairness
-----------------------------------------------------------------------------
TypeOK ==
    /\ clock \in 1..MaxClock
    /\ mtime \in [Paths -> 0..MaxClock]
    /\ first \in BOOLEAN
    /\ known \in [Paths -> 0..MaxClock]
    /\ current \in [Paths -> 0..MaxClock]
    /\ toVisit \subseteq Paths
    /\ scanning \in BOOLEAN
    /\ senders \subseteq Streams
    /\ page \in [Browsers -> {"closed", "loaded"} \union Streams]
    /\ inbox \in [Browsers -> Seq(Paths)]
    /\ \A b \in Browsers : ~Connected(b) => inbox[b] = <<>>
    /\ errors \in 0..MaxErrors
    /\ stale \in [Browsers -> SUBSET Paths]
    /\ writes \in [Paths -> Nat]
    /\ unseen \in [Paths -> Nat]
    /\ announced \in [Paths -> Nat]

(* The list and the streams agree: the sender of every stream that is      *)
(* read is in the list, and no two browsers read the same stream.          *)
OneSenderPerStream ==
    /\ Live \subseteq senders
    /\ \A b, c \in Browsers : Connected(b) /\ page[b] = page[c] => b = c

(* The browsers are not told of what did not happen: a file is announced   *)
(* at most once for each time it was written, and once more for each scan  *)
(* that failed to see it.                                                  *)
NoSpuriousReload == \A p \in Paths : announced[p] <= writes[p] + unseen[p]

(* README.md:278 "On change, an SSE event is sent to all connected         *)
(* browsers": a file that changes while a browser is connected, at         *)
(* whatever moment of a scan and whatever calls fail, is announced to it   *)
(* and the event handled, unless the browser leaves or the file is gone    *)
(* again.                                                                  *)
Owed(b) == stale[b] \union ToSet(inbox[b])

EveryChangeIsTold == \A b \in Browsers, p \in Paths : p \in Owed(b) ~> p \notin Owed(b)
=============================================================================
