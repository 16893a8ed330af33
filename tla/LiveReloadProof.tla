--------------------------- MODULE LiveReloadProof ---------------------------
(***************************************************************************)
(* What LiveReload.tla promises without fairness, for any directory, any   *)
(* browsers and any number of writes and failures.                         *)
(***************************************************************************)
EXTENDS LiveReload, SequenceTheorems, TLAPS

(* The poller would announce p if it saw the file as it is now: in this    *)
(* scan, or in the next one for a file this scan has passed.               *)
Due(p) == IF scanning /\ p \notin toVisit
          THEN mtime[p] # 0 /\ mtime[p] # current[p]
          ELSE ~first /\ mtime[p] # 0 /\ mtime[p] # known[p]

(* An announcement to come is paid for by the write or by the failed look  *)
(* that made it due.                                                       *)
Paid(p) == announced[p] + (IF Due(p) THEN 1 ELSE 0) <= writes[p] + unseen[p]

AllPaid == \A p \in Paths : Paid(p)

(* The streams stay within the list while a broadcast removes the rest.    *)
LEMMA LiveIsInStreams == Live \subseteq Streams
BY DEF Live

LEMMA InitTypeOK == Init => TypeOK
<1> SUFFICES ASSUME Init PROVE TypeOK
    OBVIOUS
<1> USE BoundsAssumption DEF Init
<1>1. mtime \in [Paths -> 0..MaxClock]
    OBVIOUS
<1>2. /\ page \in [Browsers -> {"closed", "loaded"} \union Streams]
      /\ inbox \in [Browsers -> Seq(Paths)]
      /\ \A b \in Browsers : inbox[b] = <<>>
    OBVIOUS
<1>3. /\ clock \in 1..MaxClock
      /\ known \in [Paths -> 0..MaxClock]
      /\ current \in [Paths -> 0..MaxClock]
      /\ errors \in 0..MaxErrors
    OBVIOUS
<1> QED
    BY <1>1, <1>2, <1>3 DEF TypeOK

(* What Broadcast and NoBroadcast keep.                                    *)
LEMMA BroadcastTypes ==
    ASSUME TypeOK, NEW p \in Paths, Broadcast(p) \/ NoBroadcast, page' = page
    PROVE  /\ senders' \subseteq Streams
           /\ inbox' \in [Browsers -> Seq(Paths)]
           /\ \A b \in Browsers : ~Connected(b)' => inbox'[b] = <<>>
           /\ stale' \in [Browsers -> SUBSET Paths]
           /\ announced' \in [Paths -> Nat]
<1>1. CASE Broadcast(p)
    <2>1. \A b \in Browsers : Append(inbox[b], p) \in Seq(Paths)
        BY DEF TypeOK
    <2>2. \A b \in Browsers : page[b] \in senders \cap Live => Connected(b)
        BY LiveIsInStreams DEF Connected
    <2>3. /\ inbox' \in [Browsers -> Seq(Paths)]
          /\ \A b \in Browsers : ~Connected(b)' => inbox'[b] = <<>>
        BY <1>1, <2>1, <2>2 DEF TypeOK, Broadcast, Send, Connected
    <2>4. senders' \subseteq Streams
        BY <1>1 DEF TypeOK, Broadcast
    <2>5. stale' \in [Browsers -> SUBSET Paths]
        BY <1>1 DEF TypeOK, Broadcast, Send
    <2>6. announced' \in [Paths -> Nat]
        BY <1>1 DEF TypeOK, Broadcast, Send
    <2> QED
        BY <2>3, <2>4, <2>5, <2>6
<1>2. CASE NoBroadcast
    BY <1>2 DEF TypeOK, NoBroadcast, Connected
<1> QED
    BY <1>1, <1>2

LEMMA HangupTypes ==
    ASSUME TypeOK, NEW b \in Browsers, Hangup(b)
    PROVE  /\ page' \in [Browsers -> {"closed", "loaded"} \union Streams]
           /\ inbox' \in [Browsers -> Seq(Paths)]
           /\ \A c \in Browsers : ~Connected(c)' => inbox'[c] = <<>>
           /\ stale' \in [Browsers -> SUBSET Paths]
<1>1. <<>> \in Seq(Paths)
    OBVIOUS
<1> QED
    BY <1>1 DEF TypeOK, Hangup, Connected

LEMMA NextTypeOK == TypeOK /\ [Next]_vars => TypeOK'
<1> SUFFICES ASSUME TypeOK, [Next]_vars PROVE TypeOK'
    OBVIOUS
<1> USE BoundsAssumption, StreamsAssumption
<1>1. ASSUME NEW p \in Paths, Write(p) PROVE TypeOK'
    BY <1>1 DEF TypeOK, Write, poller, clients, Connected
<1>2. ASSUME NEW p \in Paths, Delete(p) PROVE TypeOK'
    BY <1>2 DEF TypeOK, Delete, poller, clients, Connected
<1>3. CASE StartScan
    BY <1>3 DEF TypeOK, StartScan, files, clients, history, Connected
<1>4. CASE WalkFails
    <2>1. /\ known' \in [Paths -> 0..MaxClock]
          /\ first' \in BOOLEAN
          /\ unseen' \in [Paths -> Nat]
        <3>1. \A p \in Paths : unseen[p] + 1 \in Nat
            BY DEF TypeOK
        <3>2. 0 \in 0..MaxClock
            OBVIOUS
        <3>3. known' = [p \in Paths |-> 0] /\ unseen' = [p \in Paths |-> unseen[p] + 1]
            BY <1>4 DEF WalkFails
        <3> QED
            BY <1>4, <3>1, <3>2, <3>3 DEF WalkFails
    <2>2. errors' \in 0..MaxErrors
        BY <1>4 DEF TypeOK, WalkFails
    <2>3. UNCHANGED <<current, toVisit, scanning, files, clients, stale, writes, announced>>
        BY <1>4 DEF WalkFails
    <2> QED
        BY <2>1, <2>2, <2>3 DEF TypeOK, files, clients, Connected
<1>5. CASE EndScan
    BY <1>5 DEF TypeOK, EndScan, files, clients, history, Connected
<1>6. ASSUME NEW p \in Paths, Visit(p) PROVE TypeOK'
    <2>1. (Broadcast(p) \/ NoBroadcast) /\ page' = page
        BY <1>6 DEF Visit
    <2>2. /\ toVisit' \subseteq Paths
          /\ current' \in [Paths -> 0..MaxClock]
        BY <1>6 DEF TypeOK, Visit
    <2>3. UNCHANGED <<first, known, scanning, files, page, errors, writes, unseen>>
        BY <1>6 DEF Visit
    <2> QED
        BY <2>1, <2>2, <2>3, BroadcastTypes DEF TypeOK, files
<1>7. ASSUME NEW p \in Paths, MetadataFails(p) PROVE TypeOK'
    BY <1>7 DEF TypeOK, MetadataFails, files, clients, Connected
<1>8. ASSUME NEW b \in Browsers, LoadPage(b) PROVE TypeOK'
    BY <1>8 DEF TypeOK, LoadPage, files, poller, history, Connected
<1>9. ASSUME NEW b \in Browsers, Subscribe(b) PROVE TypeOK'
    <2> DEFINE s == CHOOSE x \in Streams \ senders : TRUE
    <2>1. s \in Streams \ senders
        BY <1>9 DEF Subscribe
    <2>2. /\ senders' = senders \union {s}
          /\ page' = [page EXCEPT ![b] = s]
          /\ UNCHANGED <<inbox, files, poller, errors, history>>
        BY <1>9 DEF Subscribe
    <2> HIDE DEF s
    <2> QED
        BY <2>1, <2>2 DEF TypeOK, files, poller, history, Connected
<1>10. ASSUME NEW b \in Browsers, Leave(b) PROVE TypeOK'
    BY <1>10, HangupTypes DEF TypeOK, Leave, files, poller
<1>11. ASSUME NEW b \in Browsers, Deliver(b) PROVE TypeOK'
    <2>1. CASE Hangup(b)
        BY <1>11, <2>1, HangupTypes DEF TypeOK, Deliver, files, poller
    <2>2. CASE inbox' = [inbox EXCEPT ![b] = Tail(@)] /\ UNCHANGED <<page, stale>>
        <3>1. Tail(inbox[b]) \in Seq(Paths)
            BY <1>11 DEF TypeOK, Deliver
        <3>2. Connected(b)
            BY <1>11 DEF Deliver
        <3> QED
            BY <1>11, <2>2, <3>1, <3>2 DEF TypeOK, Deliver, files, poller, Connected
    <2> QED
        BY <1>11, <2>1, <2>2 DEF Deliver
<1>12. CASE UNCHANGED vars
    BY <1>12 DEF TypeOK, vars, files, poller, clients, history, Connected
<1> QED
    BY <1>1, <1>2, <1>3, <1>4, <1>5, <1>6, <1>7, <1>8, <1>9, <1>10, <1>11, <1>12 DEF Next

(* The poller's task, the Broadcaster and the streams keep their types.    *)
THEOREM TypeCorrect == Spec => []TypeOK
BY InitTypeOK, NextTypeOK, PTL DEF Spec
-----------------------------------------------------------------------------
LEMMA NextOneSender == TypeOK /\ OneSenderPerStream /\ [Next]_vars => OneSenderPerStream'
<1> SUFFICES ASSUME TypeOK, OneSenderPerStream, [Next]_vars PROVE OneSenderPerStream'
    OBVIOUS
<1> USE StreamsAssumption DEF OneSenderPerStream, Live, Connected
<1>1. CASE UNCHANGED <<senders, page>>
    BY <1>1
<1>2. ASSUME NEW p \in Paths, Visit(p) PROVE OneSenderPerStream'
    <2>1. page' = page /\ senders' \in {senders, senders \cap Live}
        BY <1>2 DEF Visit, Broadcast, NoBroadcast
    <2> QED
        BY <2>1
<1>3. ASSUME NEW b \in Browsers, LoadPage(b) PROVE OneSenderPerStream'
    BY <1>3 DEF LoadPage, TypeOK
<1>4. ASSUME NEW b \in Browsers, Subscribe(b) PROVE OneSenderPerStream'
    <2> DEFINE s == CHOOSE x \in Streams \ senders : TRUE
    <2>1. s \in Streams \ senders
        BY <1>4 DEF Subscribe
    <2>2. /\ senders' = senders \union {s}
          /\ page' = [page EXCEPT ![b] = s]
        BY <1>4 DEF Subscribe
    <2> HIDE DEF s
    <2>3. \A c \in Browsers : page[c] # s
        BY <2>1
    <2> QED
        BY <2>1, <2>2, <2>3 DEF TypeOK
<1>5. ASSUME NEW b \in Browsers, Hangup(b), senders' = senders PROVE OneSenderPerStream'
    BY <1>5 DEF Hangup, TypeOK
<1>6. ASSUME NEW b \in Browsers, Deliver(b) PROVE OneSenderPerStream'
    BY <1>1, <1>5, <1>6 DEF Deliver
<1>7. ASSUME NEW b \in Browsers, Leave(b) PROVE OneSenderPerStream'
    BY <1>5, <1>7 DEF Leave
<1>8. ASSUME NEW p \in Paths, Write(p) \/ Delete(p) \/ MetadataFails(p)
      PROVE UNCHANGED <<senders, page>>
    BY <1>8 DEF Write, Delete, MetadataFails, clients
<1>9. ASSUME StartScan \/ WalkFails \/ EndScan \/ UNCHANGED vars
      PROVE UNCHANGED <<senders, page>>
    BY <1>9 DEF StartScan, WalkFails, EndScan, vars, clients
<1> QED
    BY <1>1, <1>2, <1>3, <1>4, <1>6, <1>7, <1>8, <1>9 DEF Next

(* The Broadcaster never loses the sender of a stream that is read, and    *)
(* never gives two browsers the same one.                                  *)
THEOREM SendersAndStreamsAgree == Spec => []OneSenderPerStream
<1>1. Init => OneSenderPerStream
    BY StreamsAssumption DEF Init, OneSenderPerStream, Live, Connected
<1> QED
    BY <1>1, TypeCorrect, NextOneSender, PTL DEF Spec
-----------------------------------------------------------------------------
LEMMA NextAllPaid == TypeOK /\ AllPaid /\ [Next]_vars => AllPaid'
<1> SUFFICES ASSUME TypeOK, AllPaid, [Next]_vars, NEW q \in Paths PROVE Paid(q)'
    BY DEF AllPaid
<1>0. /\ Paid(q)
      /\ writes[q] \in Nat /\ unseen[q] \in Nat /\ announced[q] \in Nat
    BY DEF AllPaid, TypeOK
<1>a. ASSUME UNCHANGED <<announced, writes, unseen>>, Due(q)' => Due(q) PROVE Paid(q)'
    BY <1>0, <1>a DEF Paid
<1>b. ASSUME announced' = announced,
             writes'[q] + unseen'[q] = writes[q] + unseen[q] + 1
      PROVE Paid(q)'
    BY <1>0, <1>b DEF Paid
<1>1. ASSUME NEW p \in Paths, Write(p) PROVE Paid(q)'
    <2>1. CASE p = q
        <3>1. announced' = announced /\ writes'[q] = writes[q] + 1 /\ unseen' = unseen
            BY <1>1, <2>1 DEF Write, TypeOK
        <3> QED
            BY <1>0, <1>b, <3>1
    <2>2. CASE p # q
        <3>1. /\ mtime'[q] = mtime[q] /\ writes'[q] = writes[q]
              /\ UNCHANGED <<poller, unseen, announced>>
            BY <1>1, <2>2 DEF Write, TypeOK
        <3> QED
            BY <1>0, <3>1 DEF Paid, Due, poller
    <2> QED
        BY <2>1, <2>2
<1>2. ASSUME NEW p \in Paths, Delete(p) PROVE Paid(q)'
    <2>1. mtime'[q] \in {0, mtime[q]} /\ UNCHANGED <<poller, announced, writes, unseen>>
        BY <1>2 DEF Delete, TypeOK
    <2> QED
        BY <1>a, <2>1 DEF Due, poller
<1>3. CASE StartScan
    <2>1. UNCHANGED <<announced, writes, unseen>>
        BY <1>3 DEF StartScan, history
    <2>2. Due(q)' => Due(q)
        BY <1>3 DEF StartScan, Due, files
    <2> QED
        BY <1>a, <2>1, <2>2
<1>4. CASE WalkFails
    <2>1. announced' = announced /\ writes' = writes /\ unseen'[q] = unseen[q] + 1
        BY <1>4 DEF WalkFails
    <2> QED
        BY <1>0, <1>b, <2>1
<1>5. CASE EndScan
    <2>1. UNCHANGED <<announced, writes, unseen>>
        BY <1>5 DEF EndScan, history
    <2>2. Due(q)' => Due(q)
        BY <1>5 DEF EndScan, Due, files
    <2> QED
        BY <1>a, <2>1, <2>2
<1>6. ASSUME NEW p \in Paths, Visit(p) PROVE Paid(q)'
    <2>1. /\ writes' = writes /\ unseen' = unseen
          /\ UNCHANGED <<first, known, scanning, mtime>>
          /\ toVisit' = toVisit \ {p} /\ current' = [current EXCEPT ![p] = mtime[p]]
          /\ scanning /\ p \in toVisit
        BY <1>6 DEF Visit, files
    <2>2. CASE p = q
        <3>1. ~Due(q)'
            BY <2>1, <2>2 DEF Due, TypeOK
        <3>2. CASE Due(q)
            <4>1. announced'[q] \in {announced[q], announced[q] + 1}
                BY <1>6, <2>2 DEF Visit, Broadcast, Send, NoBroadcast, TypeOK
            <4> QED
                BY <1>0, <2>1, <3>1, <3>2, <4>1 DEF Paid
        <3>3. CASE ~Due(q)
            <4>1. announced' = announced
                BY <1>6, <2>1, <2>2, <3>3 DEF Visit, NoBroadcast, Due
            <4> QED
                BY <1>a, <2>1, <3>1, <4>1
        <3> QED
            BY <3>2, <3>3
    <2>3. CASE p # q
        <3>1. announced'[q] = announced[q]
            BY <1>6, <2>3 DEF Visit, Broadcast, Send, NoBroadcast, TypeOK
        <3>2. Due(q)' <=> Due(q)
            BY <2>1, <2>3 DEF Due, TypeOK
        <3> QED
            BY <1>0, <2>1, <3>1, <3>2 DEF Paid
    <2> QED
        BY <2>2, <2>3
<1>7. ASSUME NEW p \in Paths, MetadataFails(p) PROVE Paid(q)'
    <2>1. CASE p = q
        <3>1. announced' = announced /\ writes' = writes /\ unseen'[q] = unseen[q] + 1
            BY <1>7, <2>1 DEF MetadataFails, TypeOK
        <3> QED
            BY <1>0, <1>b, <3>1
    <2>2. CASE p # q
        <3>1. /\ unseen'[q] = unseen[q] /\ writes' = writes /\ announced' = announced
              /\ UNCHANGED <<first, known, current, scanning, mtime>>
              /\ toVisit' = toVisit \ {p}
            BY <1>7, <2>2 DEF MetadataFails, files, TypeOK
        <3> QED
            BY <1>0, <2>2, <3>1 DEF Paid, Due
    <2> QED
        BY <2>1, <2>2
<1>8. ASSUME UNCHANGED <<files, poller, writes, unseen, announced>> PROVE Paid(q)'
    BY <1>a, <1>8 DEF Due, files, poller
<1>9. ASSUME NEW b \in Browsers, LoadPage(b) \/ Subscribe(b) \/ Leave(b) \/ Deliver(b)
      PROVE Paid(q)'
    BY <1>8, <1>9 DEF LoadPage, Subscribe, Leave, Deliver, history
<1>10. CASE UNCHANGED vars
    BY <1>8, <1>10 DEF vars, history
<1> QED
    BY <1>1, <1>2, <1>3, <1>4, <1>5, <1>6, <1>7, <1>9, <1>10 DEF Next

(* Every announcement has a write or a failed look of its own, however the *)
(* writes fall among the looks of the scans.                               *)
THEOREM NothingAnnouncedTwice == Spec => []NoSpuriousReload
<1>1. Init => AllPaid
    BY DEF Init, AllPaid, Paid, Due
<1>2. TypeOK /\ AllPaid => NoSpuriousReload
    <2> SUFFICES ASSUME TypeOK, AllPaid, NEW p \in Paths
                 PROVE  announced[p] <= writes[p] + unseen[p]
        BY DEF NoSpuriousReload
    <2>1. writes[p] \in Nat /\ unseen[p] \in Nat /\ announced[p] \in Nat
        BY DEF TypeOK
    <2> QED
        BY <2>1 DEF AllPaid, Paid
<1> QED
    BY <1>1, <1>2, TypeCorrect, NextAllPaid, PTL DEF Spec
=============================================================================
