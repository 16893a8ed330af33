--------------------------- MODULE StaticFileProof ---------------------------
(***************************************************************************)
(* Proofs about StaticFile: the range arithmetic for files of every        *)
(* length, and what a response is made of, however the directory is edited *)
(* while it is read.                                                       *)
(***************************************************************************)
EXTENDS StaticFile, SequenceTheorems, TLAPS

TooLarge(s) == \E n \in s.first \cup s.last : n > MaxU64

(* The four kinds of spec, by which ends it has.                           *)
LEMMA SpecShapes ==
    ASSUME NEW s, IsSpec(s)
    PROVE  /\ s.first = {} \/ \E a \in Nat : s.first = {a}
           /\ s.last = {} \/ \E b \in Nat : s.last = {b}
<1>1. ASSUME NEW T, T \subseteq Nat, \A x, y \in T : x = y, T # {}
      PROVE  \E a \in Nat : T = {a}
    <2>1. PICK a \in T : TRUE
        BY <1>1
    <2>2. T = {a} /\ a \in Nat
        BY <1>1, <2>1
    <2> QED
        BY <2>2
<1>2. s.first = {} \/ \E a \in Nat : s.first = {a}
    <2>1. s.first \subseteq Nat /\ \A x, y \in s.first : x = y
        BY DEF IsSpec
    <2> QED
        BY <1>1, <2>1
<1>3. s.last = {} \/ \E b \in Nat : s.last = {b}
    <2>1. s.last \subseteq Nat /\ \A x, y \in s.last : x = y
        BY DEF IsSpec
    <2> QED
        BY <1>1, <2>1
<1> QED
    BY <1>2, <1>3

(* What a spec comes to, written out for each kind of spec.                *)
LEMMA SuffixSpec ==
    ASSUME NEW s, NEW len \in Nat, ~TooLarge(s), s.first = {}, NEW n \in Nat, s.last = {n}
    PROVE  ParseRangeSpec(s, len) =
             IF n = 0 \/ len = 0 THEN {}
             ELSE {[start |-> IF n > len THEN 0 ELSE len - n, end |-> len - 1]}
<1>1. ParseRangeSpec(s, len) =
        {[start |-> IF k > len THEN 0 ELSE len - k, end |-> len - 1] :
            k \in {k \in {n} : k > 0 /\ len > 0}}
    BY DEF ParseRangeSpec, TooLarge
<1>2. CASE n = 0 \/ len = 0
    <2>1. {k \in {n} : k > 0 /\ len > 0} = {}
        BY <1>2
    <2> QED
        BY <1>1, <1>2, <2>1
<1>3. CASE ~(n = 0 \/ len = 0)
    <2>1. {k \in {n} : k > 0 /\ len > 0} = {n}
        BY <1>3
    <2> QED
        BY <1>1, <1>3, <2>1
<1> QED
    BY <1>2, <1>3

(* Starts and ends are the sets parse_range_spec() takes them from.        *)
LEMMA WithFirst ==
    ASSUME NEW s, NEW len, ~TooLarge(s), s.first # {}, NEW Starts, NEW Ends,
           Starts = {a \in s.first : a < len /\ \A b \in s.last : a <= b},
           Ends = Least(s.last \cup {len - 1})
    PROVE  ParseRangeSpec(s, len) = {[start |-> a, end |-> b] : a \in Starts, b \in Ends}
BY DEF ParseRangeSpec, TooLarge

LEMMA OpenSpec ==
    ASSUME NEW s, NEW len \in Nat, ~TooLarge(s), s.last = {}, NEW a \in Nat, s.first = {a}
    PROVE  ParseRangeSpec(s, len) =
             IF a < len THEN {[start |-> a, end |-> len - 1]} ELSE {}
<1> DEFINE Starts == IF a < len THEN {a} ELSE {}
<1>1. Starts = {x \in s.first : x < len /\ \A b \in s.last : x <= b}
    OBVIOUS
<1>2. {len - 1} = Least(s.last \cup {len - 1})
    BY DEF Least
<1>3. ParseRangeSpec(s, len) = {[start |-> x, end |-> y] : x \in Starts, y \in {len - 1}}
    <2> HIDE DEF Starts
    <2> QED
        BY <1>1, <1>2, WithFirst
<1> QED
    BY <1>3

LEMMA ClosedSpec ==
    ASSUME NEW s, NEW len \in Nat, ~TooLarge(s), NEW a \in Nat, s.first = {a},
           NEW b \in Nat, s.last = {b}
    PROVE  ParseRangeSpec(s, len) =
             IF a < len /\ a <= b
             THEN {[start |-> a, end |-> IF b <= len - 1 THEN b ELSE len - 1]} ELSE {}
<1> DEFINE Starts == IF a < len /\ a <= b THEN {a} ELSE {}
           e == IF b <= len - 1 THEN b ELSE len - 1
<1>1. Starts = {x \in s.first : x < len /\ \A y \in s.last : x <= y}
    OBVIOUS
<1>2. {e} = Least(s.last \cup {len - 1})
    BY DEF Least
<1>3. ParseRangeSpec(s, len) = {[start |-> x, end |-> y] : x \in Starts, y \in {e}}
    <2> HIDE DEF Starts, e
    <2> QED
        BY <1>1, <1>2, WithFirst
<1> QED
    BY <1>3

(* R is at most one range within a file of length len; it has just the     *)
(* bytes that the RFC says s selects, or s selects none or does not parse. *)
Exact(R, s, len) ==
    /\ \A r \in R : /\ r \in [start : Nat, end : Nat]
                    /\ r.start <= r.end /\ r.end < len
                    /\ r.start..r.end = Selected(s, len)
    /\ \A q, r \in R : q = r
    /\ R = {} => Selected(s, len) = {} \/ TooLarge(s)

LEMMA ExactNone ==
    ASSUME NEW s, NEW len, Selected(s, len) = {} \/ TooLarge(s)
    PROVE  Exact({}, s, len)
BY DEF Exact

LEMMA ExactOne ==
    ASSUME NEW s, NEW len \in Nat, NEW a \in Nat, NEW b \in Nat, a <= b, b < len,
           Selected(s, len) = a..b
    PROVE  Exact({[start |-> a, end |-> b]}, s, len)
<1> DEFINE r == [start |-> a, end |-> b]
<1>1. r \in [start : Nat, end : Nat] /\ r.start = a /\ r.end = b
    OBVIOUS
<1> HIDE DEF r
<1> QED
    BY <1>1 DEF Exact

(* What parse_range_spec() makes of a spec are just the bytes that the RFC *)
(* says it selects, for a file of any length.                              *)
THEOREM RangesAreExact ==
    ASSUME NEW s, IsSpec(s), NEW len \in Nat
    PROVE  Exact(ParseRangeSpec(s, len), s, len)
<1>1. CASE TooLarge(s)
    <2>1. ParseRangeSpec(s, len) = {}
        BY <1>1 DEF ParseRangeSpec, TooLarge
    <2> QED
        BY <1>1, <2>1, ExactNone
<1>2. CASE ~TooLarge(s) /\ s.first = {} /\ s.last = {}
    <2>1. ParseRangeSpec(s, len) = {}
        BY <1>2 DEF ParseRangeSpec, TooLarge
    <2>2. Selected(s, len) = {}
        BY <1>2 DEF Selected
    <2> QED
        BY <2>1, <2>2, ExactNone
<1>3. ASSUME ~TooLarge(s), s.first = {}, NEW n \in Nat, s.last = {n}
      PROVE  Exact(ParseRangeSpec(s, len), s, len)
    <2>1. Selected(s, len) = {i \in 0..(len - 1) : i >= len - n}
        BY <1>3 DEF Selected
    <2>2. CASE n = 0 \/ len = 0
        <3>1. Selected(s, len) = {}
            BY <2>1, <2>2
        <3>2. ParseRangeSpec(s, len) = {}
            BY <1>3, <2>2, SuffixSpec
        <3> QED
            BY <3>1, <3>2, ExactNone
    <2>3. CASE n > 0 /\ len > 0
        <3> DEFINE a == IF n > len THEN 0 ELSE len - n
        <3>1. a \in Nat /\ len - 1 \in Nat /\ a <= len - 1
            BY <2>3
        <3>2. Selected(s, len) = a..(len - 1)
            BY <2>1, <2>3
        <3>3. ParseRangeSpec(s, len) = {[start |-> a, end |-> len - 1]}
            BY <1>3, <2>3, SuffixSpec
        <3> HIDE DEF a
        <3> QED
            BY <3>1, <3>2, <3>3, ExactOne
    <2> QED
        BY <2>2, <2>3
<1>4. ASSUME ~TooLarge(s), NEW a \in Nat, s.first = {a}, s.last = {}
      PROVE  Exact(ParseRangeSpec(s, len), s, len)
    <2>1. Selected(s, len) = {i \in 0..(len - 1) : a <= i}
        BY <1>4 DEF Selected
    <2>2. CASE a < len
        <3>1. Selected(s, len) = a..(len - 1) /\ len - 1 \in Nat /\ a <= len - 1
            BY <2>1, <2>2
        <3>2. ParseRangeSpec(s, len) = {[start |-> a, end |-> len - 1]}
            BY <1>4, <2>2, OpenSpec
        <3> QED
            BY <2>2, <3>1, <3>2, ExactOne
    <2>3. CASE ~(a < len)
        <3>1. Selected(s, len) = {}
            BY <2>1, <2>3
        <3> QED
            BY <1>4, <2>3, <3>1, OpenSpec, ExactNone
    <2> QED
        BY <2>2, <2>3
<1>5. ASSUME ~TooLarge(s), NEW a \in Nat, s.first = {a}, NEW b \in Nat, s.last = {b}
      PROVE  Exact(ParseRangeSpec(s, len), s, len)
    <2>1. Selected(s, len) = {i \in 0..(len - 1) : a <= i /\ i <= b}
        BY <1>5 DEF Selected
    <2>2. CASE a < len /\ a <= b
        <3> DEFINE e == IF b <= len - 1 THEN b ELSE len - 1
        <3>1. Selected(s, len) = a..e /\ e \in Nat /\ a <= e /\ e < len
            BY <2>1, <2>2
        <3>2. ParseRangeSpec(s, len) = {[start |-> a, end |-> e]}
            BY <1>5, <2>2, ClosedSpec
        <3> HIDE DEF e
        <3> QED
            BY <3>1, <3>2, ExactOne
    <2>3. CASE ~(a < len /\ a <= b)
        <3>1. Selected(s, len) = {}
            BY <2>1, <2>3
        <3> QED
            BY <1>5, <2>3, <3>1, ClosedSpec, ExactNone
    <2> QED
        BY <2>2, <2>3
<1> QED
    BY <1>1, <1>2, <1>3, <1>4, <1>5, SpecShapes
-----------------------------------------------------------------------------
(* The inductive invariant.                                                *)

DiskOK ==
    /\ now \in Seconds
    /\ versions \in Seq(Versions)
    /\ Len(versions) \in 1..MaxVersions
    /\ inode \in [Inodes -> 0..Len(versions)]
    /\ name \in Inodes \cup {0}
    /\ name # 0 => inode[name] = Len(versions)

HandlingOK ==
    /\ phase \in {"idle", "resolve", "metadata", "open", "read", "answered"}
    /\ server \in Servers
    /\ fd \in Inodes \cup {0}
    /\ phase = "read" => fd \in Inodes /\ inode[fd] \in DOMAIN versions
    /\ meta \in Option(DOMAIN versions)
    /\ range \in Option(Ranges)
    /\ phase \in {"idle", "resolve", "metadata"} => range = {}
    /\ \A r \in range : \E v \in meta : r.start <= r.end /\ r.end < versions[v].len

Start(r) == IF r = {} THEN 0 ELSE (CHOOSE x \in r : TRUE).start

(* What was read so far is what version v has there.                       *)
ReadExactly(v) ==
    /\ inode[fd] = v
    /\ Len(source) + Start(range) <= versions[v].len
    /\ \A k \in DOMAIN source : source[k] = <<v, Start(range) + k - 1>>

SourceOK ==
    /\ source \in Seq(Bytes)
    /\ \A r \in range : Len(source) <= r.end - r.start + 1
    /\ phase \notin {"read", "answered"} => source = <<>>
    /\ source # <<>> => fd \in Inodes
    /\ "overwritten" \notin edits => \A j \in DOMAIN source : source[j][1] = inode[fd]
    /\ phase = "read" => \A v \in meta : v = Len(versions) => ReadExactly(v)

RequestOK ==
    /\ \A h, g \in request.range : h = g /\ (Len(h.specs) = 1 => IsSpec(h.specs[1]))
    /\ request.tags \subseteq UNION {c.tag : c \in cache}
    /\ request.since \subseteq UNION {c.date : c \in cache}

(* A response with the validators of version v has its content, unless a   *)
(* read failed or another version has come since.                          *)
Of(c, v) ==
    /\ c.tag = {Tag(v)}
    /\ c.date = {versions[v].mtime}
    /\ c.failed \/ v < Len(versions) \/ c.source = Expected(c, v)

ResponseOK ==
    /\ response \in Responses
    /\ \A r \in response.range : Len(response.source) <= r.end - r.start + 1
    /\ phase = "answered" /\ response.status \in {200, 206} /\ response.tag # {} =>
           \E v \in DOMAIN versions : Of(response, v)

CacheOK ==
    /\ cache \subseteq Responses
    /\ \A c \in cache : \E v \in DOMAIN versions : Of(c, v)
    /\ \A c, d \in cache : c = d

IInv ==
    /\ DiskOK /\ HandlingOK /\ SourceOK /\ RequestOK /\ ResponseOK /\ CacheOK
    /\ NotModifiedIsFresh
-----------------------------------------------------------------------------
LEMMA AnsweredIsPlain ==
    ASSUME NEW s
    PROVE  /\ Answered(s).status = s
           /\ Answered(s).tag = {} /\ Answered(s).range = {} /\ Answered(s).source = <<>>
BY DEF Answered

LEMMA AnsweredIsResponse ==
    ASSUME NEW s \in {0, 200, 206, 304, 403, 404, 416, 500}
    PROVE  Answered(s) \in Responses
<1>1. <<>> \in Seq(Bytes)
    BY EmptySeq
<1> QED
    BY <1>1 DEF Answered, Responses, Option

LEMMA InitIInv == Init => IInv
<1> SUFFICES ASSUME Init PROVE IInv
    OBVIOUS
<1> USE DEF Init
<1>1. PICK n \in 0..MaxLen : versions = <<[mtime |-> 0, len |-> n]>>
    OBVIOUS
<1>2. versions \in Seq(Versions) /\ Len(versions) = 1
    BY <1>1, BoundsAssumption DEF Versions, Seconds
<1>3. DiskOK
    BY <1>2, NoInode, BoundsAssumption DEF DiskOK, Seconds
<1>4. HandlingOK
    BY DEF HandlingOK, Option
<1>5. SourceOK
    BY EmptySeq DEF SourceOK
<1>6. RequestOK
    BY DEF RequestOK, NoRequest
<1>7. ResponseOK
    BY AnsweredIsPlain, AnsweredIsResponse DEF ResponseOK
<1>8. CacheOK /\ NotModifiedIsFresh
    BY DEF CacheOK, NotModifiedIsFresh
<1> QED
    BY <1>3, <1>4, <1>5, <1>6, <1>7, <1>8 DEF IInv
-----------------------------------------------------------------------------
(* A new version leaves the ones before it, and what was made of them.     *)

LEMMA WriteGrows ==
    ASSUME DiskOK, NEW i \in Inodes, NEW len \in 0..MaxLen, Write(i, len)
    PROVE  /\ versions' \in Seq(Versions)
           /\ Len(versions') = Len(versions) + 1
           /\ Len(versions) + 1 <= MaxVersions
           /\ DOMAIN versions = 1..Len(versions)
           /\ DOMAIN versions' = 1..(Len(versions) + 1)
           /\ \A v \in DOMAIN versions : versions'[v] = versions[v]
           /\ inode' = [inode EXCEPT ![i] = Len(versions) + 1]
<1> DEFINE x == [mtime |-> now, len |-> len]
<1>1. x \in Versions
    BY DEF DiskOK, Versions
<1>2. versions' = Append(versions, x) /\ Len(versions) < MaxVersions
    BY DEF Write
<1>3. versions \in Seq(Versions) /\ Len(versions) \in Nat
    BY DEF DiskOK
<1> HIDE DEF x
<1>4. versions' \in Seq(Versions) /\ Len(versions') = Len(versions) + 1
    BY <1>1, <1>2, <1>3, AppendProperties
<1>5. \A v \in 1..Len(versions) : versions'[v] = versions[v]
    BY <1>1, <1>2, <1>3, AppendProperties
<1>6. DOMAIN versions = 1..Len(versions) /\ DOMAIN versions' = 1..(Len(versions) + 1)
    BY <1>3, <1>4, LenProperties
<1> QED
    BY <1>2, <1>3, <1>4, <1>5, <1>6, BoundsAssumption DEF Write

LEMMA OfGrows ==
    ASSUME NEW c, NEW v \in DOMAIN versions, Of(c, v),
           versions'[v] = versions[v], v \in Nat, Len(versions) \in Nat,
           Len(versions') >= Len(versions)
    PROVE  Of(c, v)'
<1>1. Tag(v)' = Tag(v) /\ Expected(c, v)' = Expected(c, v)
    BY DEF Tag, Expected
<1>2. v < Len(versions) => v < Len(versions')
    OBVIOUS
<1> QED
    BY <1>1, <1>2 DEF Of

LEMMA FreshGrows ==
    ASSUME NotModifiedIsFresh, meta \subseteq DOMAIN versions,
           DOMAIN versions \subseteq DOMAIN versions',
           \A v \in DOMAIN versions : versions'[v] = versions[v],
           UNCHANGED <<phase, response, request, cache, meta>>
    PROVE  NotModifiedIsFresh'
<1> SUFFICES ASSUME phase = "answered", response.status = 304, ~request.star,
                    NEW c \in cache, NEW v \in meta,
                    IF request.tags # {} THEN TagsDiffer' ELSE DatesDiffer', ~c.failed
             PROVE  c.source = Expected(c, v)'
    BY DEF NotModifiedIsFresh
<1>1. TagsDiffer' => TagsDiffer
    BY DEF TagsDiffer, Tag
<1>2. DatesDiffer' => DatesDiffer
    BY DEF DatesDiffer
<1>3. Expected(c, v)' = Expected(c, v)
    BY DEF Expected
<1> QED
    BY <1>1, <1>2, <1>3 DEF NotModifiedIsFresh

LEMMA WriteKeeps ==
    ASSUME IInv, NEW i \in Inodes, NEW len \in 0..MaxLen, Write(i, len),
           UNCHANGED <<now, server, phase, request, handling, response, cache>>,
           name' = i \/ (name' = name /\ name = i),
           (i # fd /\ Edit("replaced")) \/ Edit("overwritten")
    PROVE  IInv'
<1>0. /\ DiskOK /\ HandlingOK /\ SourceOK /\ RequestOK /\ ResponseOK /\ CacheOK
      /\ NotModifiedIsFresh
    BY DEF IInv
<1>1. /\ versions' \in Seq(Versions)
      /\ Len(versions') = Len(versions) + 1
      /\ Len(versions) + 1 <= MaxVersions
      /\ DOMAIN versions = 1..Len(versions)
      /\ DOMAIN versions' = 1..(Len(versions) + 1)
      /\ \A v \in DOMAIN versions : versions'[v] = versions[v]
      /\ inode' = [inode EXCEPT ![i] = Len(versions) + 1]
      /\ Len(versions) \in 1..MaxVersions
    BY <1>0, WriteGrows DEF DiskOK
<1>2. UNCHANGED <<now, server, phase, request, meta, range, fd, source, response, cache>>
    BY DEF handling
<1>3. DiskOK'
    <2>1. inode' \in [Inodes -> 0..Len(versions')]
        BY <1>0, <1>1, BoundsAssumption DEF DiskOK
    <2>2. name' \in Inodes \cup {0} /\ inode'[name'] = Len(versions')
        BY <1>0, <1>1 DEF DiskOK
    <2>3. Len(versions') \in 1..MaxVersions
        BY <1>1, BoundsAssumption
    <2> QED
        BY <1>0, <1>1, <1>2, <2>1, <2>2, <2>3 DEF DiskOK
<1>4. HandlingOK'
    <2>1. meta' \in Option(DOMAIN versions') /\ meta \subseteq DOMAIN versions
        BY <1>0, <1>1, <1>2 DEF HandlingOK, Option
    <2>2. phase' = "read" => fd' \in Inodes /\ inode'[fd'] \in DOMAIN versions'
        BY <1>0, <1>1, <1>2 DEF HandlingOK, DiskOK
    <2>3. \A r \in range' : \E v \in meta' : r.start <= r.end /\ r.end < versions'[v].len
        BY <1>0, <1>1, <1>2, <2>1 DEF HandlingOK
    <2> QED
        BY <1>0, <1>2, <2>1, <2>2, <2>3 DEF HandlingOK
<1>5. SourceOK'
    <2>1. "overwritten" \notin edits' => \A j \in DOMAIN source' : source'[j][1] = inode'[fd']
        <3>1. CASE source = <<>>
            BY <1>2, <3>1
        <3>2. CASE source # <<>> /\ i # fd /\ Edit("replaced")
            <4>1. fd \in Inodes /\ inode'[fd] = inode[fd]
                BY <1>0, <1>1, <3>2 DEF SourceOK, DiskOK
            <4>2. "overwritten" \notin edits' => "overwritten" \notin edits
                BY <1>0, <3>2 DEF Edit, SourceOK
            <4> QED
                BY <1>0, <1>2, <4>1, <4>2 DEF SourceOK
        <3>3. CASE source # <<>> /\ Edit("overwritten")
            BY <1>0, <3>3 DEF Edit, SourceOK
        <3> QED
            BY <3>1, <3>2, <3>3
    <2>2. \A v \in meta' : v # Len(versions')
        BY <1>0, <1>1, <1>2 DEF HandlingOK, Option
    <2> QED
        BY <1>0, <1>2, <2>1, <2>2 DEF SourceOK
<1>6. RequestOK'
    BY <1>0, <1>2 DEF RequestOK
<1>7. ASSUME NEW c, NEW v \in DOMAIN versions, Of(c, v) PROVE Of(c, v)'
    BY <1>1, <1>7, OfGrows
<1>8. ResponseOK'
    BY <1>0, <1>1, <1>2, <1>7 DEF ResponseOK
<1>9. CacheOK'
    BY <1>0, <1>1, <1>2, <1>7 DEF CacheOK
<1>10. NotModifiedIsFresh'
    <2>1. meta \subseteq DOMAIN versions
        BY <1>0 DEF HandlingOK, Option
    <2> QED
        BY <1>0, <1>1, <1>2, <2>1, FreshGrows
<1> QED
    BY <1>3, <1>4, <1>5, <1>6, <1>8, <1>9, <1>10 DEF IInv

(* Deletions and the clock: nothing that was or is to be read changes.     *)
LEMMA DiskKeeps ==
    ASSUME IInv, UNCHANGED <<versions, inode, server, phase, request, handling, response, cache>>,
           now' \in Seconds, name' \in {0, name}, edits' = edits \/ Edit("replaced")
    PROVE  IInv'
<1>0. /\ DiskOK /\ HandlingOK /\ SourceOK /\ RequestOK /\ ResponseOK /\ CacheOK
      /\ NotModifiedIsFresh
    BY DEF IInv
<1>1. UNCHANGED <<versions, inode, server, phase, request, meta, range, fd, source, response, cache>>
    BY DEF handling
<1>2. DiskOK' /\ HandlingOK' /\ RequestOK'
    BY <1>0, <1>1 DEF DiskOK, HandlingOK, RequestOK
<1>3. SourceOK'
    <2>1. source = <<>> \/ ("overwritten" \notin edits' => "overwritten" \notin edits)
        BY <1>0 DEF Edit, SourceOK
    <2>2. \A v : ReadExactly(v)' <=> ReadExactly(v)
        BY <1>1 DEF ReadExactly
    <2> QED
        BY <1>0, <1>1, <2>1, <2>2 DEF SourceOK
<1>4. \A c, v : Of(c, v)' <=> Of(c, v)
    BY <1>1 DEF Of, Tag, Expected
<1>5. ResponseOK' /\ CacheOK'
    BY <1>0, <1>1, <1>4 DEF ResponseOK, CacheOK
<1>6. NotModifiedIsFresh'
    BY <1>0, <1>1 DEF NotModifiedIsFresh, TagsDiffer, DatesDiffer, Tag, Expected
<1> QED
    BY <1>0, <1>2, <1>3, <1>5, <1>6 DEF IInv
-----------------------------------------------------------------------------
(* The client.                                                             *)

LEMMA SendKeeps == ASSUME IInv, NEW r \in Requests, Send(r) PROVE IInv'
<1>0. /\ DiskOK /\ HandlingOK /\ SourceOK /\ RequestOK /\ ResponseOK /\ CacheOK
    BY DEF IInv
<1>1. /\ phase = "idle" /\ phase' = "resolve" /\ edits' = {}
      /\ request'.range = r.range
      /\ request'.tags = UNION {c.tag : c \in Kept(r, {"tag", "both"})}
      /\ request'.since = UNION {c.date : c \in Kept(r, {"date", "both"})}
      /\ UNCHANGED <<now, versions, inode, name, server, meta, range, fd, source, response, cache>>
    BY DEF Send, handling
<1>2. DiskOK' /\ HandlingOK'
    BY <1>0, <1>1 DEF DiskOK, HandlingOK
<1>3. SourceOK'
    BY <1>0, <1>1 DEF SourceOK
<1>4. RequestOK'
    <2>1. \A T : Kept(r, T) \subseteq cache
        BY DEF Kept
    <2>2. /\ request'.tags \subseteq UNION {c.tag : c \in cache}
          /\ request'.since \subseteq UNION {c.date : c \in cache}
        BY <1>1, <2>1
    <2> QED
        BY <1>1, <2>2, RequestsAssumption DEF RequestOK
<1>5. \A c, v : Of(c, v)' <=> Of(c, v)
    BY <1>1 DEF Of, Tag, Expected
<1>6. ResponseOK' /\ CacheOK'
    BY <1>0, <1>1, <1>5 DEF ResponseOK, CacheOK
<1>7. NotModifiedIsFresh'
    BY <1>1 DEF NotModifiedIsFresh
<1> QED
    BY <1>2, <1>3, <1>4, <1>6, <1>7 DEF IInv

LEMMA ReceiveKeeps == ASSUME IInv, NEW keep \in BOOLEAN, Receive(keep) PROVE IInv'
<1>0. /\ DiskOK /\ HandlingOK /\ SourceOK /\ RequestOK /\ ResponseOK /\ CacheOK
    BY DEF IInv
<1>1. /\ phase = "answered" /\ phase' = "idle" /\ edits' = {}
      /\ request' = NoRequest /\ response' = Answered(0)
      /\ meta' = {} /\ range' = {} /\ fd' = 0 /\ source' = <<>>
      /\ UNCHANGED <<now, versions, inode, name, server>>
      /\ keep => response.status \in {200, 206} /\ response.tag # {}
      /\ cache' = IF keep THEN {response} ELSE cache
    BY DEF Receive
<1>2. DiskOK'
    BY <1>0, <1>1 DEF DiskOK
<1>3. HandlingOK'
    BY <1>0, <1>1 DEF HandlingOK, Option
<1>4. SourceOK'
    BY <1>1, EmptySeq DEF SourceOK
<1>5. RequestOK'
    BY <1>1 DEF RequestOK, NoRequest
<1>6. ResponseOK'
    BY <1>1, AnsweredIsPlain, AnsweredIsResponse DEF ResponseOK
<1>7. CacheOK'
    <2>1. \A c, v : Of(c, v)' <=> Of(c, v)
        BY <1>1 DEF Of, Tag, Expected
    <2>2. cache' = {response} \/ cache' = cache
        BY <1>1
    <2>3. cache' = {response} => keep \/ cache' = cache
        BY <1>1
    <2> QED
        BY <1>0, <1>1, <2>1, <2>2, <2>3 DEF CacheOK, ResponseOK
<1>8. NotModifiedIsFresh'
    BY <1>1 DEF NotModifiedIsFresh
<1> QED
    BY <1>2, <1>3, <1>4, <1>5, <1>6, <1>7, <1>8 DEF IInv
-----------------------------------------------------------------------------
(* handle().                                                               *)

(* Any answer but a 304, which depends on what the client kept.            *)
LEMMA AnswerKeeps ==
    ASSUME IInv, NEW r \in Responses, Answer(r), r.status # 304,
           \A x \in r.range : Len(r.source) <= x.end - x.start + 1,
           r.status \in {200, 206} /\ r.tag # {} => \E v \in DOMAIN versions : Of(r, v)
    PROVE  IInv'
<1>0. /\ DiskOK /\ HandlingOK /\ SourceOK /\ RequestOK /\ CacheOK
    BY DEF IInv
<1>1. /\ phase' = "answered" /\ response' = r
      /\ UNCHANGED <<now, versions, inode, name, edits, server, request, meta, range, fd, source, cache>>
    BY DEF Answer, disk, handling
<1>2. DiskOK' /\ HandlingOK' /\ SourceOK' /\ RequestOK'
    BY <1>0, <1>1 DEF DiskOK, HandlingOK, SourceOK, RequestOK
<1>3. \A c, v : Of(c, v)' <=> Of(c, v)
    BY <1>1 DEF Of, Tag, Expected
<1>4. CacheOK'
    BY <1>0, <1>1, <1>3 DEF CacheOK
<1>5. ResponseOK'
    BY <1>1, <1>3 DEF ResponseOK
<1>6. NotModifiedIsFresh'
    BY <1>1 DEF NotModifiedIsFresh
<1> QED
    BY <1>2, <1>4, <1>5, <1>6 DEF IInv

LEMMA PlainAnswerKeeps ==
    ASSUME IInv, NEW s \in {200, 403, 404, 416, 500}, Answer(Answered(s))
    PROVE  IInv'
BY AnswerKeeps, AnsweredIsPlain, AnsweredIsResponse

(* A step of handle() before the body is read.                             *)
LEMMA ProceedKeeps ==
    ASSUME IInv, UNCHANGED <<disk, server, request, range, meta, fd, source, response, cache>>,
           phase \in {"resolve", "metadata"}, phase' \in {"metadata", "open"}
    PROVE  IInv'
<1>0. /\ DiskOK /\ HandlingOK /\ SourceOK /\ RequestOK /\ ResponseOK /\ CacheOK
    BY DEF IInv
<1>1. UNCHANGED <<now, versions, inode, name, edits>>
    BY DEF disk
<1>2. DiskOK' /\ HandlingOK' /\ SourceOK' /\ RequestOK'
    BY <1>0, <1>1 DEF DiskOK, HandlingOK, SourceOK, RequestOK
<1>3. \A c, v : Of(c, v)' <=> Of(c, v)
    BY <1>1 DEF Of, Tag, Expected
<1>4. ResponseOK' /\ CacheOK'
    BY <1>0, <1>1, <1>3 DEF ResponseOK, CacheOK
<1>5. NotModifiedIsFresh'
    BY DEF NotModifiedIsFresh
<1> QED
    BY <1>2, <1>4, <1>5 DEF IInv

LEMMA ParseRangeOK ==
    ASSUME RequestOK, NEW len \in 0..MaxLen
    PROVE  /\ ParseRange(request, len) \in Option(Ranges)
           /\ \A r \in ParseRange(request, len) : r.start <= r.end /\ r.end < len
<1>1. ASSUME NEW h \in request.range, Len(h.specs) = 1
      PROVE  Exact(ParseRangeSpec(h.specs[1], len), h.specs[1], len)
    BY <1>1, RangesAreExact, BoundsAssumption DEF RequestOK
<1>2. \A r \in ParseRange(request, len) :
          \E h \in request.range : Len(h.specs) = 1 /\ r \in ParseRangeSpec(h.specs[1], len)
    BY DEF ParseRange, InBytes
<1>3. \A r \in ParseRange(request, len) :
          r \in [start : Nat, end : Nat] /\ r.start <= r.end /\ r.end < len
    BY <1>1, <1>2 DEF Exact
<1>4. \A q, r \in ParseRange(request, len) : q = r
    BY <1>1, <1>2 DEF Exact, RequestOK
<1>5. ParseRange(request, len) \subseteq Ranges
    BY <1>3, BoundsAssumption DEF Ranges
<1>6. ParseRange(request, len) = {} \/ \E r \in Ranges : ParseRange(request, len) = {r}
    BY <1>4, <1>5
<1> QED
    BY <1>3, <1>6 DEF Option

LEMMA MetadataKeeps == ASSUME IInv, Metadata PROVE IInv'
<1>0. /\ DiskOK /\ HandlingOK /\ SourceOK /\ RequestOK /\ ResponseOK /\ CacheOK
    BY DEF IInv
<1> DEFINE v == inode[name]
           satisfiable == ParseRange(request, versions[v].len)
<1>1. /\ phase = "metadata" /\ name # 0 /\ meta' = {v}
      /\ UNCHANGED <<now, versions, inode, name, edits, server, request, fd, source, cache>>
    BY DEF Metadata, disk
<1>2. v = Len(versions) /\ DOMAIN versions = 1..Len(versions) /\ v \in DOMAIN versions
    BY <1>0, <1>1, LenProperties DEF DiskOK
<1>3. versions[v] \in Versions
    BY <1>0, <1>2, ElementOfSeq DEF DiskOK
<1>4. source = <<>>
    BY <1>0, <1>1 DEF SourceOK
<1>5. \A c, w : Of(c, w)' <=> Of(c, w)
    BY <1>1 DEF Of, Tag, Expected
<1>6. DiskOK' /\ RequestOK' /\ CacheOK'
    BY <1>0, <1>1, <1>5 DEF DiskOK, RequestOK, CacheOK
<1>7. /\ satisfiable \in Option(Ranges)
      /\ \A r \in satisfiable : r.start <= r.end /\ r.end < versions[v].len
    BY <1>0, <1>3, ParseRangeOK DEF Versions
<1>8. \/ /\ NotModified(request, Tag(v), versions[v].mtime)
         /\ phase' = "answered" /\ response' = [Answered(304) EXCEPT !.tag = {Tag(v)}]
         /\ range' = range
      \/ /\ phase' = "answered" /\ response' = Answered(416) /\ range' = range
      \/ /\ phase' = "open" /\ range' \in {{}, satisfiable} /\ response' = response
    BY DEF Metadata
<1>9. HandlingOK' /\ SourceOK'
    <2>1. meta' \in Option(DOMAIN versions')
        BY <1>1, <1>2 DEF Option
    <2>2. /\ range' \in Option(Ranges)
          /\ \A r \in range' : r.start <= r.end /\ \E w \in meta' : r.end < versions'[w].len
        <3>1. CASE range' = range
            BY <1>0, <1>1, <3>1 DEF HandlingOK, Option
        <3>2. CASE range' \in {{}, satisfiable}
            BY <1>1, <1>7, <3>2 DEF Option
        <3> QED
            BY <1>8, <3>1, <3>2
    <2>3. HandlingOK'
        BY <1>0, <1>1, <1>8, <2>1, <2>2 DEF HandlingOK
    <2>4. SourceOK'
        <3>1. \A r \in range' : r.start \in Nat /\ r.end \in Nat /\ r.start <= r.end
            BY <2>2, BoundsAssumption DEF Option, Ranges
        <3> QED
            BY <1>1, <1>4, <1>8, <3>1, EmptySeq DEF SourceOK
    <2> QED
        BY <2>3, <2>4
<1>10. ResponseOK'
    <2>1. CASE response' = [Answered(304) EXCEPT !.tag = {Tag(v)}]
        <3>1. Tag(v) \in Tags
            BY <1>3 DEF Tag, Tags, Versions
        <3> DEFINE t == {Tag(v)}
        <3>2. t \in Option(Tags)
            BY <3>1 DEF Option
        <3> HIDE DEF t
        <3>3. response' = [status |-> 304, tag |-> t, date |-> {}, range |-> {}, source |-> <<>>,
                           failed |-> FALSE, aborted |-> FALSE]
            BY <2>1 DEF Answered, t
        <3>4. response' \in Responses
            BY <3>2, <3>3, EmptySeq DEF Responses, Option
        <3> QED
            BY <3>3, <3>4 DEF ResponseOK
    <2>2. CASE response' = Answered(416)
        BY <2>2, AnsweredIsPlain, AnsweredIsResponse DEF ResponseOK
    <2>3. CASE phase' = "open" /\ response' = response
        BY <1>0, <2>3 DEF ResponseOK
    <2> QED
        BY <1>8, <2>1, <2>2, <2>3
<1>11. NotModifiedIsFresh'
    <2> SUFFICES ASSUME phase' = "answered", response'.status = 304, ~request.star, NEW c \in cache,
                        IF request.tags # {} THEN TagsDiffer ELSE DatesDiffer, ~c.failed
                 PROVE  c.source = Expected(c, v)
        BY <1>1 DEF NotModifiedIsFresh, TagsDiffer, DatesDiffer, Tag, Expected
    <2>1. NotModified(request, Tag(v), versions[v].mtime)
        BY <1>8, AnsweredIsPlain
    <2>2. PICK w \in DOMAIN versions : Of(c, w)
        BY <1>0 DEF CacheOK
    <2>3. \A d \in cache : d.tag = {Tag(w)} /\ d.date = {versions[w].mtime}
        BY <1>0, <2>2 DEF CacheOK, Of
    <2>4. CASE request.tags # {}
        <3>1. Tag(v) \in request.tags
            BY <2>1, <2>4 DEF NotModified
        <3>2. Tag(v) = Tag(w)
            BY <1>0, <2>3, <3>1 DEF RequestOK
        <3>3. v = w
            BY <1>2, <2>4, <3>2 DEF TagsDiffer
        <3> QED
            BY <1>0, <1>2, <2>2, <3>3 DEF Of, DiskOK
    <2>5. CASE request.tags = {}
        <3>1. PICK t \in request.since : versions[v].mtime <= t
            BY <2>1, <2>5 DEF NotModified
        <3>2. versions[v].mtime <= versions[w].mtime
            BY <1>0, <2>3, <3>1 DEF RequestOK
        <3>3. versions[w] \in Versions
            BY <1>0, <1>2, ElementOfSeq DEF DiskOK
        <3>4. ~(versions[w].mtime < versions[v].mtime)
            BY <1>3, <3>2, <3>3, BoundsAssumption DEF Versions, Seconds
        <3>5. v = w
            BY <1>0, <1>2, <2>5, <3>4 DEF DatesDiffer, DiskOK
        <3> QED
            BY <1>0, <1>2, <2>2, <3>5 DEF Of, DiskOK
    <2> QED
        BY <2>4, <2>5
<1> QED
    BY <1>6, <1>9, <1>10, <1>11 DEF IInv

LEMMA StartIsNat ==
    ASSUME range \in Option(Ranges)
    PROVE  Start(range) \in Nat /\ \A r \in range : r \in Ranges /\ Start(range) = r.start
<1>1. range = {} \/ \E r \in Ranges : range = {r}
    BY DEF Option
<1> QED
    BY <1>1, BoundsAssumption DEF Start, Ranges

(* A file that was just opened was read up to where its range starts.      *)
LEMMA OpensAtStart ==
    ASSUME DiskOK, HandlingOK, SourceOK, Open, NEW v, v = inode[name],
           \A r \in range : r.start <= r.end /\ r.end < versions[v].len
    PROVE  ReadExactly(v)'
<1>1. /\ phase = "open" /\ name # 0 /\ fd' = name
      /\ UNCHANGED <<versions, inode, range, source>>
    BY DEF Open, disk
<1>2. source = <<>>
    BY <1>1 DEF SourceOK
<1>3. v \in DOMAIN versions
    BY <1>1, LenProperties DEF DiskOK
<1>4. versions[v].len \in Nat
    <2>1. versions[v] \in Versions
        BY <1>3 DEF DiskOK
    <2> QED
        BY <2>1, BoundsAssumption DEF Versions
<1>5. Start(range) \in Nat /\ Start(range) <= versions[v].len
    <2>1. range \in Option(Ranges)
        BY DEF HandlingOK
    <2>2. CASE range = {}
        BY <1>4, <2>2 DEF Start
    <2>3. CASE range # {}
        <3>1. PICK r \in range : r \in Ranges /\ Start(range) = r.start
            BY <2>1, <2>3, StartIsNat
        <3>2. r.start \in Nat /\ r.end \in Nat
            BY <3>1, BoundsAssumption DEF Ranges
        <3> QED
            BY <1>4, <3>1, <3>2
    <2> QED
        BY <2>2, <2>3
<1> QED
    BY <1>1, <1>2, <1>5 DEF ReadExactly

LEMMA OpenKeeps == ASSUME IInv, Open PROVE IInv'
<1>0. /\ DiskOK /\ HandlingOK /\ SourceOK /\ RequestOK /\ ResponseOK /\ CacheOK
    BY DEF IInv
<1>1. /\ phase = "open" /\ phase' = "read" /\ name # 0 /\ fd' = name
      /\ UNCHANGED <<now, versions, inode, name, edits, server, request, meta, range, source,
                     response, cache>>
    BY DEF Open, disk
<1>2. source = <<>>
    BY <1>0, <1>1 DEF SourceOK
<1>3. name \in Inodes /\ inode[name] = Len(versions) /\ DOMAIN versions = 1..Len(versions)
    BY <1>0, <1>1, LenProperties DEF DiskOK
<1>4. HandlingOK'
    BY <1>0, <1>1, <1>3 DEF HandlingOK, DiskOK
<1>5. ASSUME NEW v \in meta, v = Len(versions) PROVE ReadExactly(v)'
    <2>1. \A r \in range : r.start <= r.end /\ r.end < versions[v].len
        BY <1>0, <1>5 DEF HandlingOK, Option
    <2> QED
        BY <1>0, <1>3, <1>5, <2>1, OpensAtStart
<1>6. SourceOK'
    BY <1>0, <1>1, <1>2, <1>5 DEF SourceOK
<1>7. \A c, v : Of(c, v)' <=> Of(c, v)
    BY <1>1 DEF Of, Tag, Expected
<1>8. DiskOK' /\ RequestOK' /\ ResponseOK' /\ CacheOK'
    BY <1>0, <1>1, <1>7 DEF DiskOK, RequestOK, ResponseOK, CacheOK
<1>9. NotModifiedIsFresh'
    BY <1>1 DEF NotModifiedIsFresh
<1> QED
    BY <1>4, <1>6, <1>8, <1>9 DEF IInv

LEMMA SliceOfVersion ==
    ASSUME NEW v \in 1..MaxVersions, NEW p \in Nat, NEW n \in Nat, p + n <= MaxLen + 1
    PROVE  /\ Slice(v, p, p + n - 1) \in Seq(Bytes)
           /\ Len(Slice(v, p, p + n - 1)) = n
           /\ \A k \in 1..n : Slice(v, p, p + n - 1)[k] = <<v, p + k - 1>>
<1>1. Slice(v, p, p + n - 1) = [k \in 1..n |-> <<v, p + k - 1>>]
    <2>1. (p + n - 1) + 1 - p = n
        OBVIOUS
    <2> QED
        BY <2>1 DEF Slice
<1>2. [k \in 1..n |-> <<v, p + k - 1>>] \in [1..n -> Bytes]
    <2>1. \A k \in 1..n : p + k - 1 \in 0..MaxLen
        BY BoundsAssumption
    <2> QED
        BY <2>1 DEF Bytes
<1> HIDE DEF Slice
<1> DEFINE f == [k \in 1..n |-> <<v, p + k - 1>>]
<1>3. f \in Seq(Bytes) /\ Len(f) = n
    <2> HIDE DEF f
    <2>1. f \in Seq(Bytes) /\ DOMAIN f = 1..n
        BY <1>2, SeqDef DEF f
    <2> QED
        BY <2>1, LenProperties
<1> QED
    BY <1>1, <1>3

(* One chunk more: it is what the open inode has at this position.         *)
LEMMA ChunkIsRead ==
    ASSUME DiskOK, HandlingOK, SourceOK, NEW n \in 1..Chunk, ReadChunk(n)
    PROVE  /\ source' \in Seq(Bytes)
           /\ Len(source') = Len(source) + n
           /\ Len(source') + Start(range) <= versions[inode[fd]].len
           /\ \A r \in range : Len(source') <= r.end - r.start + 1
           /\ \A k \in DOMAIN source' :
                  \/ k \in DOMAIN source /\ source'[k] = source[k]
                  \/ source'[k] = <<inode[fd], Start(range) + k - 1>>
<1> DEFINE v == inode[fd]
           p == Len(source) + Start(range)
           more == Slice(v, p, p + n - 1)
<1>1. /\ phase = "read" /\ source' = source \o more /\ p + n <= versions[v].len
      /\ \A r \in range : Len(source) + n <= r.end - r.start + 1
      /\ UNCHANGED <<now, versions, inode, name, edits, server, phase, request, meta, range, fd,
                     response, cache>>
    BY DEF ReadChunk, Position, Start, Take, disk
<1>2. v \in DOMAIN versions /\ fd \in Inodes
    BY <1>1 DEF HandlingOK
<1>3. DOMAIN versions = 1..Len(versions) /\ v \in 1..MaxVersions /\ versions[v] \in Versions
    BY <1>2, LenProperties, ElementOfSeq, BoundsAssumption DEF DiskOK
<1>4. Start(range) \in Nat /\ Len(source) \in Nat /\ p \in Nat /\ n \in Nat
    BY StartIsNat, LenProperties, BoundsAssumption DEF HandlingOK, SourceOK
<1>5. versions[v].len \in 0..MaxLen
    BY <1>3 DEF Versions
<1>6. /\ more \in Seq(Bytes) /\ Len(more) = n
      /\ \A k \in 1..n : more[k] = <<v, p + k - 1>>
    <2>1. p + n <= MaxLen + 1
        <3> HIDE DEF v, p
        <3> QED
            BY <1>1, <1>4, <1>5, BoundsAssumption
    <2> HIDE DEF v, p
    <2> QED
        BY <1>3, <1>4, <2>1, SliceOfVersion
<1> HIDE DEF more
<1>7. /\ source' \in Seq(Bytes)
      /\ Len(source') = Len(source) + n
      /\ \A k \in 1..(Len(source) + n) :
             source'[k] = IF k <= Len(source) THEN source[k] ELSE more[k - Len(source)]
    <2>1. source \in Seq(Bytes)
        BY DEF SourceOK
    <2> QED
        BY <1>1, <1>6, <2>1, ConcatProperties
<1>8. DOMAIN source = 1..Len(source) /\ DOMAIN source' = 1..(Len(source) + n)
    BY <1>7, LenProperties DEF SourceOK
<1>9. \A k \in DOMAIN source' :
          \/ k \in DOMAIN source /\ source'[k] = source[k]
          \/ source'[k] = <<v, Start(range) + k - 1>>
    <2> SUFFICES ASSUME NEW k \in 1..(Len(source) + n), ~(k <= Len(source))
                 PROVE  source'[k] = <<v, Start(range) + k - 1>>
        BY <1>4, <1>7, <1>8
    <2>1. k - Len(source) \in 1..n /\ p + (k - Len(source)) - 1 = Start(range) + k - 1
        BY <1>4
    <2> QED
        BY <1>6, <1>7, <2>1
<1>10. Len(source') + Start(range) = p + n
    BY <1>4, <1>7
<1>11. \A r \in range : Len(source') <= r.end - r.start + 1
    BY <1>1, <1>7
<1> QED
    BY <1>1, <1>7, <1>9, <1>10, <1>11

LEMMA ReadsOn ==
    ASSUME DiskOK, HandlingOK, SourceOK, NEW n \in 1..Chunk, ReadChunk(n),
           NEW v, ReadExactly(v)
    PROVE  ReadExactly(v)'
<1>1. UNCHANGED <<versions, inode, range, fd>>
    BY DEF ReadChunk, disk
<1>2. inode[fd] = v /\ \A k \in DOMAIN source : source[k] = <<v, Start(range) + k - 1>>
    BY DEF ReadExactly
<1>3. Start(range)' = Start(range)
    BY <1>1
<1>4. Len(source') + Start(range) <= versions[v].len
    BY <1>2, ChunkIsRead
<1>5. \A k \in DOMAIN source' : source'[k] = <<v, Start(range) + k - 1>>
    BY <1>2, ChunkIsRead
<1> QED
    BY <1>1, <1>2, <1>3, <1>4, <1>5 DEF ReadExactly

LEMMA ReadChunkKeeps == ASSUME IInv, NEW n \in 1..Chunk, ReadChunk(n) PROVE IInv'
<1>0. /\ DiskOK /\ HandlingOK /\ SourceOK /\ RequestOK /\ ResponseOK /\ CacheOK
    BY DEF IInv
<1>1. /\ phase = "read"
      /\ UNCHANGED <<now, versions, inode, name, edits, server, phase, request, meta, range, fd,
                     response, cache>>
    BY DEF ReadChunk, disk
<1>2. SourceOK'
    <2>1. "overwritten" \notin edits' => \A j \in DOMAIN source' : source'[j][1] = inode'[fd']
        BY <1>0, <1>1, ChunkIsRead DEF SourceOK
    <2>2. ASSUME NEW v \in meta, v = Len(versions) PROVE ReadExactly(v)'
        <3>1. ReadExactly(v)
            BY <1>0, <1>1, <2>2 DEF SourceOK
        <3> QED
            BY <1>0, <3>1, ReadsOn
    <2>3. /\ source' \in Seq(Bytes) /\ fd \in Inodes
          /\ \A r \in range' : Len(source') <= r.end - r.start + 1
        BY <1>0, <1>1, ChunkIsRead DEF HandlingOK
    <2> QED
        BY <1>1, <2>1, <2>2, <2>3 DEF SourceOK
<1>3. \A c, w : Of(c, w)' <=> Of(c, w)
    BY <1>1 DEF Of, Tag, Expected
<1>4. DiskOK' /\ HandlingOK' /\ RequestOK' /\ ResponseOK' /\ CacheOK'
    BY <1>0, <1>1, <1>3 DEF DiskOK, HandlingOK, RequestOK, ResponseOK, CacheOK
<1>5. NotModifiedIsFresh'
    BY <1>1 DEF NotModifiedIsFresh
<1> QED
    BY <1>2, <1>4, <1>5 DEF IInv

LEMMA FileResponseOK ==
    ASSUME DiskOK, HandlingOK, NEW V \in Option(DOMAIN versions), NEW body \in Seq(Bytes),
           NEW f \in BOOLEAN, NEW a \in BOOLEAN
    PROVE  FileResponse(V, body, f, a) \in Responses
<1> DEFINE tag == {Tag(v) : v \in V}
           date == {versions[v].mtime : v \in V}
           status == IF range = {} THEN 200 ELSE 206
<1>1. V = {} \/ \E v \in DOMAIN versions : V = {v}
    BY DEF Option
<1>2. ASSUME NEW v \in DOMAIN versions PROVE versions[v].mtime \in Seconds /\ Tag(v) \in Tags
    <2>1. versions \in Seq(Versions)
        BY DEF DiskOK
    <2>2. versions[v] \in Versions
        BY <2>1
    <2> QED
        BY <2>2 DEF Tag, Tags, Versions
<1>3. tag \in Option(Tags) /\ date \in Option(Seconds)
    BY <1>1, <1>2 DEF Option
<1>4. range \in Option(Ranges)
    BY DEF HandlingOK
<1>5. status \in {0, 200, 206, 304, 403, 404, 416, 500}
    OBVIOUS
<1> HIDE DEF tag, date, status
<1>6. [status |-> status, tag |-> tag, date |-> date, range |-> range, source |-> body,
       failed |-> f, aborted |-> a] \in Responses
    BY <1>3, <1>4, <1>5 DEF Responses
<1> QED
    BY <1>6 DEF FileResponse, tag, date, status

LEMMA ValidatorsAreMeta == Validators \in {{}, meta}
BY DEF Validators

(* A body that was read to its end is all that was to be read.             *)
LEMMA ReadToTheEnd ==
    ASSUME DiskOK, HandlingOK, SourceOK, AtEnd, NEW v \in DOMAIN versions, ReadExactly(v),
           \A r \in range : r.start <= r.end /\ r.end < versions[v].len,
           NEW c, c.range = range, c.source = source
    PROVE  c.source = Expected(c, v)
<1>1. ReadExactly(v) /\ source \in Seq(Bytes)
    BY DEF SourceOK
<1>2. Len(source) \in Nat /\ DOMAIN source = 1..Len(source)
    BY <1>1, LenProperties
<1>4. versions[v].len \in Nat
    <2>1. versions \in Seq(Versions)
        BY DEF DiskOK
    <2>2. versions[v] \in Versions
        BY <2>1
    <2> QED
        BY <2>2, BoundsAssumption DEF Versions
<1>5. \/ Len(source) + Start(range) >= versions[v].len
      \/ \E r \in range : Len(source) >= r.end - r.start + 1
    BY <1>1 DEF AtEnd, Position, Start, Take, ReadExactly
<1>6. Start(range) \in Nat /\ \A r \in range : r \in Ranges /\ Start(range) = r.start
    BY StartIsNat DEF HandlingOK
<1>7. ASSUME NEW a \in Nat, NEW b \in Int, Len(source) = b + 1 - a, Start(range) = a
      PROVE  source = Slice(v, a, b)
    <2>1. source = [k \in 1..Len(source) |-> source[k]]
        BY <1>1, <1>2
    <2>2. \A k \in 1..Len(source) : source[k] = <<v, a + k - 1>>
        BY <1>1, <1>2, <1>7 DEF ReadExactly
    <2>3. Slice(v, a, b) = [k \in 1..Len(source) |-> <<v, a + k - 1>>]
        BY <1>7 DEF Slice
    <2> QED
        BY <2>1, <2>2, <2>3
<1>8. CASE range = {}
    <2>1. Len(source) + Start(range) <= versions[v].len /\ Start(range) = 0
        BY <1>1, <1>8 DEF ReadExactly, Start
    <2>2. Len(source) = versions[v].len
        BY <1>2, <1>4, <1>5, <1>8, <2>1
    <2>3. source = Slice(v, 0, versions[v].len - 1)
        BY <1>4, <1>7, <2>1, <2>2
    <2> QED
        BY <1>8, <2>3 DEF Expected
<1>9. CASE range # {}
    <2>1. PICK r \in Ranges : range = {r}
        BY <1>9 DEF HandlingOK, Option
    <2>2. r.start \in Nat /\ r.end \in Nat /\ Start(range) = r.start
        BY <1>6, <2>1, BoundsAssumption DEF Ranges
    <2>3. r.start <= r.end /\ r.end < versions[v].len
        BY <2>1
    <2>4. Len(source) <= r.end - r.start + 1
        BY <2>1 DEF SourceOK
    <2>5. Len(source) = r.end + 1 - r.start
        BY <1>2, <1>4, <1>5, <2>1, <2>2, <2>3, <2>4
    <2>6. source = Slice(v, r.start, r.end)
        BY <1>7, <2>2, <2>5
    <2> QED
        BY <2>1, <2>6 DEF Expected
<1> QED
    BY <1>8, <1>9

LEMMA FileResponseKeeps ==
    ASSUME IInv, phase = "read", NEW body \in {<<>>, source}, NEW f \in BOOLEAN, NEW a \in BOOLEAN,
           Answer(FileResponse(Validators, body, f, a)), f \/ (AtEnd /\ body = source)
    PROVE  IInv'
<1>0. DiskOK /\ HandlingOK /\ SourceOK
    BY DEF IInv
<1> DEFINE r == FileResponse(Validators, body, f, a)
<1>1. /\ r.status # 304 /\ r.range = range /\ r.source = body /\ r.failed = f
      /\ r.tag = {Tag(v) : v \in Validators}
      /\ r.date = {versions[v].mtime : v \in Validators}
    BY DEF FileResponse
<1>2. body \in Seq(Bytes) /\ Validators \in Option(DOMAIN versions)
    BY <1>0, ValidatorsAreMeta, EmptySeq DEF SourceOK, HandlingOK, Option
<1>3. r \in Responses
    BY <1>0, <1>2, FileResponseOK
<1> HIDE DEF r
<1>4. \A x \in r.range : Len(r.source) <= x.end - x.start + 1
    <2>1. \A x \in range : x \in Ranges /\ x.start <= x.end
        BY <1>0, StartIsNat DEF HandlingOK
    <2>2. \A x \in range : x.start \in Nat /\ x.end \in Nat
        BY <2>1, BoundsAssumption DEF Ranges
    <2> QED
        BY <1>0, <1>1, <2>1, <2>2 DEF SourceOK
<1>5. ASSUME r.tag # {} PROVE \E v \in DOMAIN versions : Of(r, v)
    <2>1. PICK v \in DOMAIN versions : Validators = {v} /\ meta = {v}
        BY <1>0, <1>1, <1>5, ValidatorsAreMeta DEF HandlingOK, Option
    <2>2. r.tag = {Tag(v)} /\ r.date = {versions[v].mtime}
        BY <1>1, <2>1
    <2>3. f \/ v < Len(versions) \/ (v = Len(versions) /\ AtEnd /\ r.source = source)
        BY <1>0, <1>1, <2>1, LenProperties DEF DiskOK
    <2>4. (v = Len(versions) /\ AtEnd /\ r.source = source) => r.source = Expected(r, v)
        <3>1. v = Len(versions) => ReadExactly(v)
            BY <1>0, <2>1 DEF SourceOK
        <3>2. \A x \in range : x.start <= x.end /\ x.end < versions[v].len
            BY <1>0, <2>1 DEF HandlingOK
        <3> QED
            BY <1>0, <1>1, <3>1, <3>2, ReadToTheEnd
    <2> QED
        BY <1>1, <2>2, <2>3, <2>4 DEF Of
<1>6. Answer(r)
    BY DEF r
<1> QED
    BY <1>1, <1>3, <1>4, <1>5, <1>6, AnswerKeeps

LEMMA FinishKeeps == ASSUME IInv, Finish PROVE IInv'
<1>1. source \in {<<>>, source} /\ FALSE \in BOOLEAN
    OBVIOUS
<1>2. phase = "read" /\ AtEnd /\ Answer(FileResponse(Validators, source, FALSE, FALSE))
    BY DEF Finish
<1> QED
    BY <1>1, <1>2, FileResponseKeeps

LEMMA ReadFailsKeeps == ASSUME IInv, ReadFails PROVE IInv'
<1>1. CASE server.buffered
    <2>1. Answer(Answered(500))
        BY <1>1 DEF ReadFails
    <2> QED
        BY <2>1, PlainAnswerKeeps
<1>2. CASE ~server.buffered
    <2> DEFINE body == IF server.collected THEN <<>> ELSE source
               cut == ~server.collected
    <2>1. phase = "read" /\ Answer(FileResponse(Validators, body, TRUE, cut))
        BY <1>2 DEF ReadFails
    <2>2. body \in {<<>>, source} /\ cut \in BOOLEAN
        OBVIOUS
    <2> HIDE DEF body, cut
    <2> QED
        BY <2>1, <2>2, FileResponseKeeps
<1> QED
    BY <1>1, <1>2

LEMMA HandleKeeps == ASSUME IInv, Handle PROVE IInv'
<1>1. CASE CustomHandler
    BY <1>1, PlainAnswerKeeps DEF CustomHandler
<1>2. CASE ResolveError
    <2>1. Answer(Answered(403)) \/ Answer(Answered(404))
        BY <1>2 DEF ResolveError
    <2> QED
        BY <2>1, PlainAnswerKeeps
<1>3. CASE Resolve
    BY <1>3, ProceedKeeps DEF Resolve, handling
<1>4. CASE Metadata
    BY <1>4, MetadataKeeps
<1>5. CASE MetadataFails
    BY <1>5, ProceedKeeps DEF MetadataFails, handling
<1>6. CASE Open
    BY <1>6, OpenKeeps
<1>7. CASE OpenFails
    BY <1>7, PlainAnswerKeeps DEF OpenFails
<1>8. CASE \E n \in 1..Chunk : ReadChunk(n)
    BY <1>8, ReadChunkKeeps
<1>9. CASE Finish
    BY <1>9, FinishKeeps
<1>10. CASE ReadFails
    BY <1>10, ReadFailsKeeps
<1> QED
    BY <1>1, <1>2, <1>3, <1>4, <1>5, <1>6, <1>7, <1>8, <1>9, <1>10 DEF Handle

LEMMA StutterKeeps == ASSUME IInv, UNCHANGED vars PROVE IInv'
<1>1. /\ UNCHANGED <<versions, inode, server, phase, request, handling, response, cache>>
      /\ now' = now /\ name' = name /\ edits' = edits
    BY DEF vars, disk
<1>2. now \in Seconds
    BY DEF IInv, DiskOK
<1> QED
    BY <1>1, <1>2, DiskKeeps

LEMMA NextKeeps == IInv /\ [Next]_vars => IInv'
<1> SUFFICES ASSUME IInv, [Next]_vars PROVE IInv'
    OBVIOUS
<1>0. DiskOK
    BY DEF IInv
<1>1. CASE Tick
    <2>1. /\ UNCHANGED <<versions, inode, server, phase, request, handling, response, cache>>
          /\ now' \in Seconds /\ name' = name /\ edits' = edits
        BY <1>0, <1>1, BoundsAssumption DEF Tick, DiskOK, Seconds
    <2> QED
        BY <2>1, DiskKeeps
<1>2. CASE Delete
    <2>1. /\ UNCHANGED <<versions, inode, server, phase, request, handling, response, cache>>
          /\ now' \in Seconds /\ name' = 0 /\ Edit("replaced")
        BY <1>0, <1>2 DEF Delete, DiskOK
    <2> QED
        BY <2>1, DiskKeeps
<1>3. CASE \E n \in 0..MaxLen : Overwrite(n)
    <2>1. PICK n \in 0..MaxLen : Overwrite(n)
        BY <1>3
    <2>2. name \in Inodes /\ Write(name, n) /\ name' = name /\ Edit("overwritten")
        BY <1>0, <2>1 DEF Overwrite, DiskOK
    <2>3. UNCHANGED <<now, server, phase, request, handling, response, cache>>
        BY <2>1 DEF Overwrite
    <2> QED
        BY <2>2, <2>3, WriteKeeps
<1>4. CASE \E n \in 0..MaxLen, i \in Inodes : Replace(i, n)
    BY <1>4, WriteKeeps DEF Replace
<1>5. CASE \E r \in Requests : Send(r)
    BY <1>5, SendKeeps
<1>6. CASE \E keep \in BOOLEAN : Receive(keep)
    BY <1>6, ReceiveKeeps
<1>7. CASE Handle
    BY <1>7, HandleKeeps
<1>8. CASE UNCHANGED vars
    BY <1>8, StutterKeeps
<1> QED
    BY <1>1, <1>2, <1>3, <1>4, <1>5, <1>6, <1>7, <1>8 DEF Next

LEMMA Invariant == Spec => []IInv
BY InitIInv, NextKeeps, PTL DEF Spec
-----------------------------------------------------------------------------
(* Every variable has its type; a range ends within the version it was     *)
(* computed for, and what is read is an inode that has a version.          *)
THEOREM TypeCorrect == Spec => []TypeOK
<1>1. IInv => TypeOK
    <2> SUFFICES ASSUME DiskOK, HandlingOK, SourceOK, ResponseOK, CacheOK PROVE TypeOK
        BY DEF IInv
    <2>1. now \in Seconds /\ versions \in Seq(Versions) /\ name \in Inodes \cup {0}
        BY DEF DiskOK
    <2>5. inode \in [Inodes -> 0..MaxVersions]
        <3>1. Len(versions) \in 1..MaxVersions /\ inode \in [Inodes -> 0..Len(versions)]
            BY DEF DiskOK
        <3>2. 0..Len(versions) \subseteq 0..MaxVersions
            BY <3>1, BoundsAssumption
        <3> QED
            BY <3>1, <3>2
    <2>2. name # 0 => inode[name] \in DOMAIN versions
        <3>1. DOMAIN versions = 1..Len(versions) /\ Len(versions) \in 1..MaxVersions
            BY LenProperties DEF DiskOK
        <3> QED
            BY <3>1 DEF DiskOK
    <2>3. /\ server \in Servers
          /\ phase \in {"idle", "resolve", "metadata", "open", "read", "answered"}
          /\ phase = "read" => fd \in Inodes /\ inode[fd] \in DOMAIN versions
          /\ meta \in Option(DOMAIN versions) /\ range \in Option(Ranges)
          /\ \A r \in range : \E v \in meta : r.start <= r.end /\ r.end < versions[v].len
        BY DEF HandlingOK
    <2>4. source \in Seq(Bytes) /\ response \in Responses /\ cache \subseteq Responses
        BY DEF SourceOK, ResponseOK, CacheOK
    <2> QED
        BY <2>1, <2>2, <2>3, <2>4, <2>5 DEF TypeOK
<1> QED
    BY <1>1, Invariant, PTL

(* A body is of one version unless the file was written in place while it  *)
(* was read: all reads are of the inode that was opened once.              *)
THEOREM BodiesAreOneVersion == Spec => []OneVersionIfRenamed
<1>1. IInv => OneVersionIfRenamed
    <2> SUFFICES ASSUME IInv, "overwritten" \notin edits, NEW j \in DOMAIN source,
                        NEW k \in DOMAIN source
                 PROVE  source[j][1] = source[k][1]
        BY DEF OneVersionIfRenamed
    <2>1. source[j][1] = inode[fd] /\ source[k][1] = inode[fd]
        BY DEF IInv, SourceOK
    <2> QED
        BY <2>1
<1> QED
    BY <1>1, Invariant, PTL

(* Who is told 304 has the present content, if versions differ in tag (or  *)
(* in date, for a condition on it): validators are taken before the bytes, *)
(* so a copy read from a later version has an outdated tag.                *)
THEOREM NotModifiedIsTrue == Spec => []NotModifiedIsFresh
<1>1. IInv => NotModifiedIsFresh
    BY DEF IInv
<1> QED
    BY <1>1, Invariant, PTL
-----------------------------------------------------------------------------
(* Exactness.  What the response to be depends on, while the file is left  *)
(* alone: metadata() saw the present version, the range is what a spec of  *)
(* the request selects of it, and what is open and read is that version.   *)

Asked == {h.specs[1] : h \in {h \in InBytes(request) : Len(h.specs) = 1}}

ExactSoFar ==
    /\ phase \in {"idle", "resolve", "metadata"} => meta = {}
    /\ phase \in {"open", "read"} /\ edits = {} /\ name # 0 =>
           /\ meta \subseteq {inode[name]}
           /\ \A x \in range : \E s \in Asked :
                  x.start..x.end = Selected(s, versions[inode[name]].len)
           /\ phase = "read" => fd = name /\ ReadExactly(inode[name])

EInv == IInv /\ ExactSoFar /\ AnswersAreExact

LEMMA InitExact == Init => ExactSoFar /\ AnswersAreExact
BY DEF Init, ExactSoFar, AnswersAreExact

(* Who edits the file says so, unless no request is served.                *)
LEMMA EditKeepsExact ==
    ASSUME ExactSoFar, NEW kind, Edit(kind), UNCHANGED <<phase, meta>>
    PROVE  ExactSoFar' /\ AnswersAreExact'
<1>1. CASE phase = "idle"
    BY <1>1 DEF ExactSoFar, AnswersAreExact
<1>2. CASE phase # "idle"
    <2>1. edits' # {}
        BY <1>2 DEF Edit
    <2> QED
        BY <2>1 DEF ExactSoFar, AnswersAreExact
<1> QED
    BY <1>1, <1>2

LEMMA SameKeepsExact ==
    ASSUME ExactSoFar, AnswersAreExact,
           UNCHANGED <<versions, inode, name, edits, phase, request, handling, response>>
    PROVE  ExactSoFar' /\ AnswersAreExact'
<1>1. UNCHANGED <<meta, range, fd, source>>
    BY DEF handling
<1>2. Asked' = Asked
    BY DEF Asked, InBytes
<1>3. \A v : ReadExactly(v)' <=> ReadExactly(v)
    BY <1>1 DEF ReadExactly
<1>4. ExactSoFar'
    BY <1>1, <1>2, <1>3 DEF ExactSoFar
<1>5. AnswersAreExact'
    <2>1. UNCHANGED <<versions, inode, name, edits, phase, request, response>>
        OBVIOUS
    <2> QED
        BY <2>1 DEF AnswersAreExact, InBytes, Expected
<1> QED
    BY <1>4, <1>5

LEMMA SendKeepsExact ==
    ASSUME ExactSoFar, NEW r \in Requests, Send(r) PROVE ExactSoFar' /\ AnswersAreExact'
BY DEF Send, handling, ExactSoFar, AnswersAreExact

LEMMA ReceiveKeepsExact ==
    ASSUME NEW keep \in BOOLEAN, Receive(keep) PROVE ExactSoFar' /\ AnswersAreExact'
BY DEF Receive, ExactSoFar, AnswersAreExact

(* Answers without a body; only a custom handler's is a 200.               *)
LEMMA PlainAnswerKeepsExact ==
    ASSUME phase' = "answered", request' = request, response'.range = {},
           response'.status \in {200, 304, 403, 404, 500},
           response'.status = 200 => request.path = "custom"
    PROVE  ExactSoFar' /\ AnswersAreExact'
<1>1. ExactSoFar'
    BY DEF ExactSoFar
<1>2. response'.status \notin {206, 416}
    OBVIOUS
<1>3. AnswersAreExact'
    BY <1>2 DEF AnswersAreExact
<1> QED
    BY <1>1, <1>3

(* The sole spec of a request, and what parse_range() makes of it.         *)
LEMMA RangeIsAsked ==
    ASSUME RequestOK, NEW len \in Nat
    PROVE  /\ \A x \in ParseRange(request, len) :
                  \E s \in Asked : x.start..x.end = Selected(s, len)
           /\ ParseRange(request, len) = {} =>
                  \A s \in Asked : Selected(s, len) = {} \/ TooLarge(s)
<1>1. ASSUME NEW h \in InBytes(request), Len(h.specs) = 1
      PROVE  Exact(ParseRangeSpec(h.specs[1], len), h.specs[1], len) /\ h.specs[1] \in Asked
    BY <1>1, RangesAreExact DEF RequestOK, InBytes, Asked
<1>2. \A x \in ParseRange(request, len) :
          \E h \in InBytes(request) : Len(h.specs) = 1 /\ x \in ParseRangeSpec(h.specs[1], len)
    BY DEF ParseRange
<1>3. \A h \in InBytes(request) :
          Len(h.specs) = 1 => ParseRangeSpec(h.specs[1], len) \subseteq ParseRange(request, len)
    BY DEF ParseRange
<1>4. \A s \in Asked : \E h \in InBytes(request) : Len(h.specs) = 1 /\ s = h.specs[1]
    BY DEF Asked
<1>5. ASSUME NEW x \in ParseRange(request, len)
      PROVE  \E s \in Asked : x.start..x.end = Selected(s, len)
    BY <1>1, <1>2 DEF Exact
<1>6. ASSUME ParseRange(request, len) = {}, NEW s \in Asked
      PROVE  Selected(s, len) = {} \/ TooLarge(s)
    <2>1. PICK h \in InBytes(request) : Len(h.specs) = 1 /\ s = h.specs[1]
        BY <1>4
    <2>2. ParseRangeSpec(s, len) = {}
        BY <1>3, <1>6, <2>1
    <2> QED
        BY <1>1, <2>1, <2>2 DEF Exact
<1> QED
    BY <1>5, <1>6

LEMMA MetadataKeepsExact ==
    ASSUME IInv, Metadata PROVE ExactSoFar' /\ AnswersAreExact'
<1>0. DiskOK /\ HandlingOK /\ RequestOK
    BY DEF IInv
<1> DEFINE v == inode[name]
           satisfiable == ParseRange(request, versions[v].len)
<1>1. /\ phase = "metadata" /\ name # 0 /\ meta' = {v}
      /\ UNCHANGED <<now, versions, inode, name, edits, server, request, fd, source, cache>>
    BY DEF Metadata, disk
<1>2. versions[v].len \in Nat
    <2>1. v = Len(versions) /\ DOMAIN versions = 1..Len(versions) /\ v \in DOMAIN versions
        BY <1>0, <1>1, LenProperties DEF DiskOK
    <2>2. versions[v] \in Versions
        BY <1>0, <2>1, ElementOfSeq DEF DiskOK
    <2> QED
        BY <2>2, BoundsAssumption DEF Versions
<1>3. /\ \A x \in satisfiable : \E s \in Asked : x.start..x.end = Selected(s, versions[v].len)
      /\ satisfiable = {} => \A s \in Asked : Selected(s, versions[v].len) = {} \/ TooLarge(s)
    BY <1>0, <1>2, RangeIsAsked
<1>4. Asked' = Asked /\ InBytes(request') = InBytes(request)
    BY <1>1 DEF Asked, InBytes
<1>5. CASE phase' = "answered" /\ response' = [Answered(304) EXCEPT !.tag = {Tag(v)}]
    <2>1. response'.status = 304 /\ response'.range = {}
        BY <1>5 DEF Answered
    <2> QED
        BY <1>1, <1>5, <2>1, PlainAnswerKeepsExact
<1>6. CASE /\ phase' = "answered" /\ response' = Answered(416)
           /\ InBytes(request) # {} /\ satisfiable = {}
    <2>1. ExactSoFar'
        BY <1>6 DEF ExactSoFar
    <2>2. response'.status = 416 /\ response'.range = {}
        BY <1>6, AnsweredIsPlain
    <2>3. \A s \in Asked' : Selected(s, versions'[inode'[name']].len) = {} \/ TooLarge(s)
        BY <1>1, <1>3, <1>4, <1>6
    <2>4. AnswersAreExact'
        BY <1>4, <1>6, <2>2, <2>3 DEF AnswersAreExact, Asked, TooLarge
    <2> QED
        BY <2>1, <2>4
<1>7. CASE phase' = "open" /\ range' \in {{}, satisfiable}
    <2>1. \A x \in range' : \E s \in Asked : x.start..x.end = Selected(s, versions[v].len)
        BY <1>3, <1>7
    <2>2. ExactSoFar'
        BY <1>1, <1>4, <1>7, <2>1 DEF ExactSoFar
    <2> QED
        BY <1>7, <2>2 DEF AnswersAreExact
<1> QED
    BY <1>5, <1>6, <1>7 DEF Metadata

LEMMA OpenKeepsExact ==
    ASSUME IInv, ExactSoFar, Open PROVE ExactSoFar' /\ AnswersAreExact'
<1>0. DiskOK /\ HandlingOK /\ SourceOK
    BY DEF IInv
<1>1. /\ phase = "open" /\ phase' = "read" /\ name # 0 /\ fd' = name
      /\ UNCHANGED <<versions, inode, name, edits, request, meta, range>>
    BY DEF Open, disk
<1>2. Asked' = Asked
    BY <1>1 DEF Asked, InBytes
<1>3. ASSUME edits = {} PROVE ReadExactly(inode[name])'
    <2>1. meta \subseteq {inode[name]}
        BY <1>1, <1>3 DEF ExactSoFar
    <2>2. \A r \in range : r.start <= r.end /\ r.end < versions[inode[name]].len
        BY <1>0, <2>1 DEF HandlingOK
    <2> DEFINE v == inode[name]
    <2>3. v' = v
        BY <1>1
    <2> QED
        BY <1>0, <2>2, OpensAtStart, <2>3 DEF ReadExactly
<1> QED
    BY <1>1, <1>2, <1>3 DEF ExactSoFar, AnswersAreExact

LEMMA ReadChunkKeepsExact ==
    ASSUME IInv, ExactSoFar, NEW n \in 1..Chunk, ReadChunk(n)
    PROVE  ExactSoFar' /\ AnswersAreExact'
<1>0. DiskOK /\ HandlingOK /\ SourceOK
    BY DEF IInv
<1>1. /\ phase = "read"
      /\ UNCHANGED <<versions, inode, name, edits, phase, request, meta, range, fd>>
    BY DEF ReadChunk, disk
<1>2. Asked' = Asked
    BY <1>1 DEF Asked, InBytes
<1>3. ASSUME edits = {}, name # 0 PROVE ReadExactly(inode[name])'
    <2>1. ReadExactly(inode[name])
        BY <1>1, <1>3 DEF ExactSoFar
    <2> DEFINE v == inode[name]
    <2>2. v' = v
        BY <1>1
    <2> QED
        BY <1>0, <2>1, <2>2, ReadsOn DEF ReadExactly
<1> QED
    BY <1>1, <1>2, <1>3 DEF ExactSoFar, AnswersAreExact

LEMMA FinishKeepsExact ==
    ASSUME IInv, ExactSoFar, Finish PROVE ExactSoFar' /\ AnswersAreExact'
<1>0. DiskOK /\ HandlingOK /\ SourceOK
    BY DEF IInv
<1> DEFINE r == FileResponse(Validators, source, FALSE, FALSE)
           v == inode[name]
<1>1. /\ phase = "read" /\ phase' = "answered" /\ AtEnd /\ response' = r
      /\ UNCHANGED <<versions, inode, name, edits, request>>
    BY DEF Finish, Answer, disk
<1>2. ExactSoFar'
    BY <1>1 DEF ExactSoFar
<1>3. r.range = range /\ r.source = source /\ r.status = IF range = {} THEN 200 ELSE 206
    BY DEF FileResponse
<1> HIDE DEF r
<1>4. ASSUME edits = {}, name # 0
      PROVE  /\ r.source = Expected(r, v)
             /\ \A x \in range : \E s \in Asked : x.start..x.end = Selected(s, versions[v].len)
    <2>1. /\ meta \subseteq {v} /\ fd = name /\ ReadExactly(v)
          /\ \A x \in range : \E s \in Asked : x.start..x.end = Selected(s, versions[v].len)
        BY <1>1, <1>4 DEF ExactSoFar
    <2>2. \A x \in range : x.start <= x.end /\ x.end < versions[v].len
        BY <1>0, <2>1 DEF HandlingOK
    <2>3. v \in DOMAIN versions
        BY <1>0, <1>1, <2>1 DEF HandlingOK
    <2>4. r.source = Expected(r, v)
        BY <1>0, <1>1, <1>3, <2>1, <2>2, <2>3, ReadToTheEnd
    <2> QED
        BY <2>1, <2>4
<1>5. range # {} /\ edits = {} /\ name # 0 => InBytes(request) # {}
    BY <1>4 DEF Asked
<1>6. AnswersAreExact'
    <2> SUFFICES ASSUME edits = {}, name # 0
                 PROVE  AnswersAreExact'
        BY <1>1 DEF AnswersAreExact
    <2> QED
        BY <1>1, <1>3, <1>4, <1>5 DEF AnswersAreExact, Asked, Expected, InBytes
<1> QED
    BY <1>2, <1>6

LEMMA ReadFailsKeepsExact ==
    ASSUME ReadFails PROVE ExactSoFar' /\ AnswersAreExact'
<1>1. phase' = "answered" /\ request' = request
    BY DEF ReadFails, Answer
<1>2. response' = Answered(500) \/ response'.failed
    BY DEF ReadFails, Answer, FileResponse
<1>3. CASE response' = Answered(500)
    BY <1>1, <1>3, AnsweredIsPlain, PlainAnswerKeepsExact
<1>4. CASE response'.failed
    BY <1>1, <1>4 DEF ExactSoFar, AnswersAreExact
<1> QED
    BY <1>2, <1>3, <1>4

LEMMA HandleKeepsExact ==
    ASSUME IInv, ExactSoFar, Handle PROVE ExactSoFar' /\ AnswersAreExact'
<1>1. CASE CustomHandler
    BY <1>1, AnsweredIsPlain, PlainAnswerKeepsExact DEF CustomHandler, Answer
<1>2. CASE ResolveError
    <2>1. PICK s \in {403, 404} : Answer(Answered(s))
        BY <1>2 DEF ResolveError
    <2> QED
        BY <2>1, AnsweredIsPlain, PlainAnswerKeepsExact DEF Answer
<1>3. CASE Resolve
    BY <1>3 DEF Resolve, handling, ExactSoFar, AnswersAreExact
<1>4. CASE Metadata
    BY <1>4, MetadataKeepsExact
<1>5. CASE MetadataFails
    <2>1. phase = "metadata" /\ phase' = "open" /\ meta' = meta /\ range' = range
        BY <1>5 DEF MetadataFails, handling
    <2>2. meta = {} /\ range = {}
        BY <2>1 DEF ExactSoFar, IInv, HandlingOK
    <2> QED
        BY <2>1, <2>2 DEF ExactSoFar, AnswersAreExact
<1>6. CASE Open
    BY <1>6, OpenKeepsExact
<1>7. CASE OpenFails
    BY <1>7, AnsweredIsPlain, PlainAnswerKeepsExact DEF OpenFails, Answer
<1>8. CASE \E n \in 1..Chunk : ReadChunk(n)
    BY <1>8, ReadChunkKeepsExact
<1>9. CASE Finish
    BY <1>9, FinishKeepsExact
<1>10. CASE ReadFails
    BY <1>10, ReadFailsKeepsExact
<1> QED
    BY <1>1, <1>2, <1>3, <1>4, <1>5, <1>6, <1>7, <1>8, <1>9, <1>10 DEF Handle

LEMMA NextKeepsExact == EInv /\ [Next]_vars => ExactSoFar' /\ AnswersAreExact'
<1> SUFFICES ASSUME IInv, ExactSoFar, AnswersAreExact, [Next]_vars
             PROVE  ExactSoFar' /\ AnswersAreExact'
    BY DEF EInv
<1>1. CASE Tick \/ UNCHANGED vars
    <2>1. UNCHANGED <<versions, inode, name, edits, phase, request, handling, response>>
        BY <1>1 DEF Tick, vars, disk
    <2> QED
        BY <2>1, SameKeepsExact
<1>2. CASE \/ Delete \/ \E n \in 0..MaxLen : Overwrite(n) \/ \E i \in Inodes : Replace(i, n)
    <2>1. UNCHANGED <<phase, meta>> /\ (Edit("replaced") \/ Edit("overwritten"))
        BY <1>2 DEF Delete, Overwrite, Replace, handling
    <2> QED
        BY <2>1, EditKeepsExact
<1>3. CASE \E r \in Requests : Send(r)
    BY <1>3, SendKeepsExact
<1>4. CASE \E keep \in BOOLEAN : Receive(keep)
    BY <1>4, ReceiveKeepsExact
<1>5. CASE Handle
    BY <1>5, HandleKeepsExact
<1> QED
    BY <1>1, <1>2, <1>3, <1>4, <1>5 DEF Next

(* A file that is left alone is answered exactly, whatever its length and  *)
(* the size of the reads: handle() sends all of it or just the bytes that  *)
(* the sole spec of the range selects, and refuses only what selects none. *)
THEOREM AnsweredExactly == Spec => []AnswersAreExact
<1>1. Init => EInv
    BY InitIInv, InitExact DEF EInv
<1>2. EInv /\ [Next]_vars => EInv'
    BY NextKeeps, NextKeepsExact DEF EInv
<1>3. EInv => AnswersAreExact
    BY DEF EInv
<1> QED
    BY <1>1, <1>2, <1>3, PTL DEF Spec
=============================================================================
