----------------------------- MODULE StaticFile -----------------------------
(***************************************************************************)
(* mini-static's handle(): a request for a file is answered in steps, and  *)
(* whoever edits the served directory may act between any two of them.     *)
(*                                                                         *)
(* A version of the file is its number in versions, the history; byte p of *)
(* version v is <<v, p>>.  An edit makes a new version, in the same inode  *)
(* or in a new one that takes the name.  A response is made of the bytes   *)
(* read (source); the transform and the script that is injected are        *)
(* functions of those.  Optional values are sets of at most one element.   *)
(***************************************************************************)
EXTENDS Integers, Sequences, FiniteSets

CONSTANTS
    Servers,     \* [collected, buffered, debug], see below
    Requests,    \* [path, range, condition] a client may send
    Inodes,
    Chunk,       \* bytes read at once, FILE_CHUNK_SIZE
    MaxU64,      \* largest number that parses
    MaxLen,      \* bound: length of a version
    MaxVersions, \* bound: versions
    MaxSecond    \* bound: the clock

ASSUME BoundsAssumption ==
    {Chunk, MaxU64, MaxLen, MaxSecond} \subseteq Nat /\ MaxVersions \in Nat \ {0}
ASSUME ServersAssumption ==
    Servers \subseteq [collected : BOOLEAN,  \* through handle_request(), as in mini-unified
                       buffered : BOOLEAN,   \* needs_buffer
                       debug : BOOLEAN]      \* debug_assertions
ASSUME NoInode == 0 \notin Inodes

(* A Range header has a unit and specs; a spec is <first>-<last>, each of  *)
(* which may be missing (both, for text that is no range at all).          *)
IsSpec(s) ==
    /\ s.first \subseteq Nat /\ s.last \subseteq Nat
    /\ \A x, y \in s.first : x = y
    /\ \A x, y \in s.last : x = y

ASSUME RequestsAssumption ==
    \A r \in Requests : \A h, g \in r.range :
        h = g /\ (Len(h.specs) = 1 => IsSpec(h.specs[1]))

VARIABLES
    now,        \* in seconds
    versions,   \* history: [mtime, len] of every version
    inode,      \* the version in each inode
    name,       \* the inode of the file, 0 if there is none
    edits,      \* history: "replaced", "overwritten" while the request was served
    server,     \* never changes
    phase,      \* "idle", "resolve", "metadata", "open", "read", "answered"
    request,
    meta,       \* the version metadata() saw
    range,      \* the range to serve
    fd,         \* the inode that is open, or 0
    source,     \* bytes read
    response,
    cache       \* what the client kept

disk == <<now, versions, inode, name, edits>>
handling == <<meta, range, fd, source>>
vars == <<disk, server, phase, request, handling, response, cache>>

Option(S) == {{}} \cup {{x} : x \in S}
Seconds == 0..MaxSecond
Versions == [mtime : Seconds, len : 0..MaxLen]
Ranges == [start : 0..MaxLen, end : 0..MaxLen]
Tags == Seconds \X (0..MaxLen)
Bytes == (1..MaxVersions) \X (0..MaxLen)

(* W/"{mtime}-{len}".                                                      *)
Tag(v) == <<versions[v].mtime, versions[v].len>>

(* Bytes start to end of a version.                                        *)
Slice(v, start, end) == [k \in 1..(end + 1 - start) |-> <<v, start + k - 1>>]

Answered(status) ==
    [status |-> status, tag |-> {}, date |-> {}, range |-> {}, source |-> <<>>,
     failed |-> FALSE, aborted |-> FALSE]

NoRequest ==
    [path |-> "none", range |-> {}, star |-> FALSE, tags |-> {}, since |-> {}]

Init ==
    /\ now = 0
    /\ versions \in {<<[mtime |-> 0, len |-> n]>> : n \in 0..MaxLen}
    /\ name \in Inodes
    /\ inode = [i \in Inodes |-> IF i = name THEN 1 ELSE 0]
    /\ edits = {}
    /\ server \in Servers
    /\ phase = "idle"
    /\ request = NoRequest
    /\ meta = {}
    /\ range = {}
    /\ fd = 0
    /\ source = <<>>
    /\ response = Answered(0)
    /\ cache = {}
-----------------------------------------------------------------------------
(* Ranges.                                                                 *)

Least(S) == {m \in S : \A x \in S : m <= x}

(* Mutant: a last byte beyond the file is taken as it is.                  *)
ParseRangeSpecUnclipped(s, len) ==
    {[start |-> a, end |-> b] : a \in {a \in s.first : a < len /\ \A b \in s.last : a <= b},
                                b \in s.last}

ParseRangeSpec(s, len) ==
    IF \E n \in s.first \cup s.last : n > MaxU64
    THEN {}
    ELSE IF s.first = {}
    THEN {[start |-> IF n > len THEN 0 ELSE len - n, end |-> len - 1] :
              n \in {n \in s.last : n > 0 /\ len > 0}}
    ELSE {[start |-> a, end |-> b] :
              a \in {a \in s.first : a < len /\ \A b \in s.last : a <= b},
              b \in Least(s.last \cup {len - 1})}

(* A header in another unit counts as none.                                *)
InBytes(r) == {h \in r.range : h.unit = "bytes"}

(* More than one spec is unsatisfiable.                                    *)
ParseRange(r, len) ==
    UNION {ParseRangeSpec(h.specs[1], len) : h \in {h \in InBytes(r) : Len(h.specs) = 1}}

(* Reference: the positions a spec selects, by RFC 9110.                   *)
Selected(s, len) ==
    {i \in 0..(len - 1) :
        IF s.first = {} THEN \E n \in s.last : i >= len - n
                        ELSE (\A a \in s.first : a <= i) /\ (\A b \in s.last : i <= b)}

(* take(): how many bytes of the file a range lets through; also the       *)
(* content-length of the 206.  Mutant: the last one is forgotten.          *)
TakeToEnd(r) == r.end - r.start

Take(r) == r.end - r.start + 1

NotModified(r, tag, mtime) ==
    IF r.star \/ r.tags # {} THEN r.star \/ tag \in r.tags
                             ELSE \E t \in r.since : mtime <= t
-----------------------------------------------------------------------------
(* Whoever edits the directory.                                            *)

Edit(kind) == edits' = IF phase = "idle" THEN {} ELSE edits \cup {kind}

Write(i, len) ==
    /\ Len(versions) < MaxVersions
    /\ versions' = Append(versions, [mtime |-> now, len |-> len])
    /\ inode' = [inode EXCEPT ![i] = Len(versions')]

(* A new file is renamed to the name; who has the old one open keeps it.   *)
Replace(i, len) ==
    /\ i \notin {name, fd}
    /\ Write(i, len)
    /\ name' = i
    /\ Edit("replaced")
    /\ UNCHANGED <<now, server, phase, request, handling, response, cache>>

Overwrite(len) ==
    /\ name # 0
    /\ Write(name, len)
    /\ Edit("overwritten")
    /\ UNCHANGED <<now, name, server, phase, request, handling, response, cache>>

Delete ==
    /\ name # 0
    /\ name' = 0
    /\ Edit("replaced")
    /\ UNCHANGED <<now, versions, inode, server, phase, request, handling, response, cache>>

Tick ==
    /\ now < MaxSecond
    /\ now' = now + 1
    /\ UNCHANGED <<versions, inode, name, edits, server, phase, request, handling, response, cache>>
-----------------------------------------------------------------------------
(* The client.  A condition is built from the response it kept; If-Range   *)
(* is left out, the code never reads it.                                   *)

Kept(r, conditions) == {c \in cache : r.condition \in conditions}

Send(r) ==
    /\ phase = "idle"
    /\ r.condition \in {"tag", "date", "both"} => cache # {}
    /\ phase' = "resolve"
    /\ edits' = {}
    /\ request' = [path |-> r.path, range |-> r.range, star |-> r.condition = "star",
                   tags |-> UNION {c.tag : c \in Kept(r, {"tag", "both"})},
                   since |-> UNION {c.date : c \in Kept(r, {"date", "both"})}]
    /\ UNCHANGED <<now, versions, inode, name, server, handling, response, cache>>

(* A client can tell a body that was cut off, or is not as long as its     *)
(* content-length, and does not keep it.                                   *)
Complete ==
    /\ ~response.aborted
    /\ \A r \in response.range : Len(response.source) = Take(r)

Receive(keep) ==
    /\ phase = "answered"
    /\ keep => response.status \in {200, 206} /\ response.tag # {} /\ Complete
    /\ phase' = "idle"
    /\ cache' = IF keep THEN {response} ELSE cache
    /\ request' = NoRequest
    /\ response' = Answered(0)
    /\ meta' = {}
    /\ range' = {}
    /\ fd' = 0
    /\ source' = <<>>
    /\ edits' = {}
    /\ UNCHANGED <<now, versions, inode, name, server>>
-----------------------------------------------------------------------------
(* handle().                                                               *)

Answer(r) ==
    /\ phase' = "answered"
    /\ response' = r
    /\ UNCHANGED <<disk, server, request, handling, cache>>

(* A custom handler answers "custom"; handle_request() is given none.      *)
CustomHandler ==
    /\ phase = "resolve"
    /\ request.path = "custom"
    /\ ~server.collected
    /\ Answer(Answered(200))

(* resolve(): "dots" has .. or NUL in it, "outside" is a link out of the   *)
(* root, "empty" a directory without index.html, "file" is the file and    *)
(* "directory" the one it is the index.html of.  The root itself stays.    *)
Found == request.path \in {"file", "directory"} /\ name # 0

ResolveError ==
    /\ phase = "resolve"
    /\ ~Found
    /\ request.path = "custom" => server.collected
    /\ Answer(Answered(IF request.path \in {"dots", "outside"} THEN 403 ELSE 404))

Resolve ==
    /\ phase = "resolve"
    /\ Found
    /\ phase' = "metadata"
    /\ UNCHANGED <<disk, server, request, handling, response, cache>>

(* Conditions come before ranges; a range that is not satisfiable is       *)
(* refused even if the file is buffered, a satisfiable one is ignored then.*)
Metadata ==
    /\ phase = "metadata"
    /\ name # 0
    /\ LET v == inode[name]
           m == versions[v]
           satisfiable == ParseRange(request, m.len)
       IN  /\ meta' = {v}
           /\ IF NotModified(request, Tag(v), m.mtime)
              THEN /\ phase' = "answered"
                   /\ response' = [Answered(304) EXCEPT !.tag = {Tag(v)}]
                   /\ UNCHANGED range
              ELSE IF InBytes(request) # {} /\ satisfiable = {}
              THEN /\ phase' = "answered"
                   /\ response' = Answered(416)
                   /\ UNCHANGED range
              ELSE /\ phase' = "open"
                   /\ range' = IF server.buffered THEN {} ELSE satisfiable
                   /\ UNCHANGED response
    /\ UNCHANGED <<disk, server, request, fd, source, cache>>

(* metadata() may fail also for a file that is there.                      *)
MetadataFails ==
    /\ phase = "metadata"
    /\ phase' = "open"
    /\ UNCHANGED <<disk, server, request, handling, response, cache>>

Open ==
    /\ phase = "open"
    /\ name # 0
    /\ fd' = name
    /\ phase' = "read"
    /\ UNCHANGED <<disk, server, request, meta, range, source, response, cache>>

(* File::open(), read() or the seek.                                       *)
OpenFails ==
    /\ phase = "open"
    /\ Answer(Answered(500))

(* The position of the next byte: the seek, then what was read.            *)
Position(r) == Len(source) + (IF r = {} THEN 0 ELSE (CHOOSE x \in r : TRUE).start)

(* Mutant: each chunk is read from the name.                               *)
ReadChunkByName(n) ==
    /\ phase = "read"
    /\ name # 0
    /\ LET v == inode[name]
           p == Position(range)
       IN  /\ p + n <= versions[v].len
           /\ \A r \in range : Len(source) + n <= Take(r)
           /\ source' = source \o Slice(v, p, p + n - 1)
    /\ UNCHANGED <<disk, server, phase, request, meta, range, fd, response, cache>>

(* ReadStream yields what one read returned.                               *)
ReadChunk(n) ==
    /\ phase = "read"
    /\ LET v == inode[fd]
           p == Position(range)
       IN  /\ p + n <= versions[v].len
           /\ \A r \in range : Len(source) + n <= Take(r)
           /\ source' = source \o Slice(v, p, p + n - 1)
    /\ UNCHANGED <<disk, server, phase, request, meta, range, fd, response, cache>>

AtEnd ==
    \/ Position(range) >= versions[inode[fd]].len
    \/ \E r \in range : Len(source) >= Take(r)

(* file_response() of a debug build gives no validators.                   *)
Validators == IF server.buffered /\ server.debug THEN {} ELSE meta

(* A 200, or a 206 with a range.                                           *)
FileResponse(validators, body, failed, aborted) ==
    [status |-> IF range = {} THEN 200 ELSE 206,
     tag |-> {Tag(v) : v \in validators}, date |-> {versions[v].mtime : v \in validators},
     range |-> range, source |-> body, failed |-> failed, aborted |-> aborted]

(* Mutant: the validators are those of the file when the body is complete. *)
FinishWithLateTag ==
    /\ phase = "read"
    /\ AtEnd
    /\ name # 0
    /\ Answer(FileResponse({inode[name]}, source, FALSE, FALSE))

Finish ==
    /\ phase = "read"
    /\ AtEnd
    /\ Answer(FileResponse(Validators, source, FALSE, FALSE))

(* A read fails: read() makes it a 500; a stream is cut off after its      *)
(* headers were sent, and handle_request() takes an empty body instead.    *)
ReadFails ==
    /\ phase = "read"
    /\ IF server.buffered
       THEN Answer(Answered(500))
       ELSE Answer(FileResponse(Validators, IF server.collected THEN <<>> ELSE source,
                                TRUE, ~server.collected))

Handle ==
    \/ CustomHandler \/ ResolveError \/ Resolve
    \/ Metadata \/ MetadataFails \/ Open \/ OpenFails
    \/ \E n \in 1..Chunk : ReadChunk(n)
    \/ Finish \/ ReadFails

Next ==
    \/ Tick \/ Delete
    \/ \E n \in 0..MaxLen : Overwrite(n) \/ \E i \in Inodes : Replace(i, n)
    \/ \E r \in Requests : Send(r)
    \/ \E keep \in BOOLEAN : Receive(keep)
    \/ Handle

Spec == Init /\ [][Next]_vars
-----------------------------------------------------------------------------
Responses ==
    [status : {0, 200, 206, 304, 403, 404, 416, 500}, tag : Option(Tags), date : Option(Seconds),
     range : Option(Ranges), source : Seq(Bytes), failed : BOOLEAN, aborted : BOOLEAN]

(* Types; a response is open only while it is read, a 206 has a range and  *)
(* validators, and a range ends within the version it was computed for.    *)
TypeOK ==
    /\ now \in Seconds
    /\ versions \in Seq(Versions)
    /\ inode \in [Inodes -> 0..MaxVersions]
    /\ name \in Inodes \cup {0}
    /\ name # 0 => inode[name] \in DOMAIN versions
    /\ server \in Servers
    /\ phase \in {"idle", "resolve", "metadata", "open", "read", "answered"}
    /\ phase = "read" => fd \in Inodes /\ inode[fd] \in DOMAIN versions
    /\ meta \in Option(DOMAIN versions)
    /\ range \in Option(Ranges)
    /\ \A r \in range : \E v \in meta : r.start <= r.end /\ r.end < versions[v].len
    /\ source \in Seq(Bytes)
    /\ response \in Responses
    /\ cache \subseteq Responses

(* What a complete, whole or partial, response for version v is made of.   *)
Expected(r, v) ==
    IF r.range = {} THEN Slice(v, 0, versions[v].len - 1)
                    ELSE LET x == CHOOSE x \in r.range : TRUE IN Slice(v, x.start, x.end)

(* A file that is left alone is answered exactly: the body is the whole of *)
(* it or the bytes that the one spec of the range selects by the RFC; a    *)
(* range is refused only if it selects nothing of it (or does not parse).  *)
AnswersAreExact ==
    phase = "answered" /\ edits = {} /\ name # 0 /\ ~response.failed =>
        LET v == inode[name]
            len == versions[v].len
            Asked == {h.specs[1] : h \in {h \in InBytes(request) : Len(h.specs) = 1}}
        IN  /\ response.status \in {200, 206} /\ request.path # "custom" =>
                   response.source = Expected(response, v)
            /\ response.status \in {206, 416} => InBytes(request) # {}
            /\ \A x \in response.range : \E s \in Asked : x.start..x.end = Selected(s, len)
            /\ response.status = 416 =>
                   \A s \in Asked : \/ Selected(s, len) = {}
                                    \/ \E n \in s.first \cup s.last : n > MaxU64

(* Files that are only ever replaced by renaming are never sent mixed: all *)
(* bytes of a body are of one version, though several reads are made.      *)
OneVersionIfRenamed ==
    "overwritten" \notin edits => \A j, k \in DOMAIN source : source[j][1] = source[k][1]

(* A client told that its copy is not modified has the present content, no *)
(* matter how the file changed while the copy was sent.  That is said of   *)
(* tags that differ when the versions do, of dates that differ, and of     *)
(* copies none of whose reads failed.                                      *)
TagsDiffer == \A j, k \in DOMAIN versions : j # k => Tag(j) # Tag(k)
DatesDiffer ==
    \A j, k \in DOMAIN versions : j < k => versions[j].mtime < versions[k].mtime

NotModifiedIsFresh ==
    phase = "answered" /\ response.status = 304 /\ ~request.star =>
        \A c \in cache, v \in meta :
            (IF request.tags # {} THEN TagsDiffer ELSE DatesDiffer) /\ ~c.failed =>
                c.source = Expected(c, v)
=============================================================================
