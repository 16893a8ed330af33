------------------------------- MODULE Router -------------------------------
(***************************************************************************)
(* mini-serve's route trie: insert, the backtracking search, has_path and  *)
(* match_route, as operators on a router value.                            *)
(*                                                                         *)
(* Data.  A node of the trie is the sequence of pattern segments on the    *)
(* way to it: insert() never makes two children for the same segment, so   *)
(* the sequence names the node.  A router has its nodes in the order they  *)
(* were made, which is the order of the children of each, and its handlers *)
(* by node and method.  A request path is the sequence of its pieces       *)
(* between slashes.  A parameter without a name ("/:") is left out.        *)
(***************************************************************************)
EXTENDS Naturals, Sequences, SequencesExt

Static(s) == [kind |-> "static", name |-> s]
Param(s) == [kind |-> "param", name |-> s]
Wildcard == [kind |-> "wildcard", name |-> "*"]

Segments ==
    {s \in [kind : {"static", "param", "wildcard"}, name : STRING] :
        s.kind = "wildcard" => s = Wildcard}

Root == <<>>
NoNode == <<[kind |-> "none", name |-> ""]>>

NewRouter == [nodes |-> <<Root>>, handlers |-> <<>>]

(* split_path(): two slashes in a row are one.                             *)
SplitPath(raw) ==
    LET split[k \in 0..Len(raw)] ==
          IF k = 0 THEN <<>>
          ELSE IF raw[k] = "" THEN split[k - 1]
          ELSE Append(split[k - 1], raw[k])
    IN  split[Len(raw)]

(* Mutant: a child of the segment is not looked for.                       *)
InsertAllNew(t, m, pattern, h) ==
    [nodes    |-> t.nodes \o [k \in 1..Len(pattern) |-> SubSeq(pattern, 1, k)],
     handlers |-> [k \in DOMAIN t.handlers \union {<<pattern, m>>} |->
                     IF k = <<pattern, m>> THEN h ELSE t.handlers[k]]]

(* How far down the pattern there are nodes already.                       *)
Depth(t, pattern) == Max({k \in 0..Len(pattern) : SubSeq(pattern, 1, k) \in ToSet(t.nodes)})

(* The nodes missing on the way to the pattern are made, and the handler   *)
(* replaces the one the node has for the method.                           *)
Insert(t, m, pattern, h) ==
    LET depth == Depth(t, pattern)
    IN  [nodes    |-> t.nodes \o [k \in 1..(Len(pattern) - depth) |->
                                    SubSeq(pattern, 1, depth + k)],
         handlers |-> [k \in DOMAIN t.handlers \union {<<pattern, m>>} |->
                         IF k = <<pattern, m>> THEN h ELSE t.handlers[k]]]

(* The node made first.                                                    *)
Index(t, n) == CHOOSE i \in DOMAIN t.nodes : t.nodes[i] = n
Earliest(t, S) == CHOOSE c \in S : \A d \in S : Index(t, c) <= Index(t, d)

ParamChildren(t, n) ==
    {c \in ToSet(t.nodes) : c # Root /\ Front(c) = n /\ Last(c).kind = "param"}

(* What a call of find_node() comes back with: the node, and what it has   *)
(* put into the PathParams of its caller.  A call that finds nothing has   *)
(* put nothing there: what its children captured went into clones.         *)
NoParams == [x \in {} |-> <<>>]
Found(n, params) == [node |-> n, params |-> params]
DeadEnd == Found(NoNode, NoParams)

(* The name gets its piece, and then what is deeper its own: it replaces   *)
(* the piece of a name that is used twice.                                 *)
Bind(name, piece, deeper) ==
    [x \in DOMAIN deeper \union {name} |-> IF x \in DOMAIN deeper THEN deeper[x] ELSE piece]

(* Mutant: the first child to try decides, no dead end is left.            *)
VisitGreedy(t, path, find, n) ==
    LET piece == path[Len(n) + 1]
        same == Append(n, Static(piece))
        params == ParamChildren(t, n)
        first == Earliest(t, params)
        wild == Append(n, Wildcard)
    IN  IF Len(n) = Len(path) THEN Found(n, NoParams)
        ELSE IF same \in ToSet(t.nodes) THEN find[same]
        ELSE IF params # {}
        THEN Found(find[first].node, Bind(Last(first).name, <<piece>>, find[first].params))
        ELSE IF wild \in ToSet(t.nodes)
        THEN Found(wild, Bind("*", SubSeq(path, Len(n) + 1, Len(path)), NoParams))
        ELSE DeadEnd

(* Mutant: the parameter children get the map itself, no clone, so that    *)
(* one that leads nowhere leaves what it captured.                         *)
VisitUncloned(t, path, find, n) ==
    LET piece == path[Len(n) + 1]
        same == Append(n, Static(piece))
        params == {c \in ParamChildren(t, n) : find[c].node # NoNode}
        first == Earliest(t, params)
        wild == Append(n, Wildcard)
        left == [x \in {Last(c).name : c \in ParamChildren(t, n) \ params} |-> <<piece>>]
    IN  IF Len(n) = Len(path) THEN Found(n, NoParams)
        ELSE IF same \in ToSet(t.nodes) /\ find[same].node # NoNode THEN find[same]
        ELSE IF params # {}
        THEN Found(find[first].node, Bind(Last(first).name, <<piece>>, find[first].params))
        ELSE IF wild \in ToSet(t.nodes)
        THEN Found(wild, Bind("*", SubSeq(path, Len(n) + 1, Len(path)), left))
        ELSE Found(NoNode, left)

(* find_node() at the node n: the static child, the parameters in the      *)
(* order they were made, the wildcard.  A child searches with a clone of   *)
(* the map, a parameter's with the piece it captures put in, which becomes *)
(* the map if the child finds something.  A node at the depth of the path  *)
(* is taken whether it has handlers or not; a wildcard is taken at any     *)
(* depth, and nothing below it is ever reached.                            *)
Visit(t, path, find, n) ==
    LET piece == path[Len(n) + 1]
        same == Append(n, Static(piece))
        params == {c \in ParamChildren(t, n) : find[c].node # NoNode}
        first == Earliest(t, params)
        wild == Append(n, Wildcard)
    IN  IF Len(n) = Len(path) THEN Found(n, NoParams)
        ELSE IF same \in ToSet(t.nodes) /\ find[same].node # NoNode THEN find[same]
        ELSE IF params # {}
        THEN Found(find[first].node, Bind(Last(first).name, <<piece>>, find[first].params))
        ELSE IF wild \in ToSet(t.nodes)
        THEN Found(wild, Bind("*", SubSeq(path, Len(n) + 1, Len(path)), NoParams))
        ELSE DeadEnd

(* The depth-first search, from every node that is not below the path.     *)
Search(t, path) ==
    LET find[n \in {n \in ToSet(t.nodes) : Len(n) <= Len(path)}] == Visit(t, path, find, n)
    IN  find

FindNode(t, path) == Search(t, path)[Root].node

(* The PathParams that match_route() hands to the handler of that node.    *)
PathParams(t, path) == Search(t, path)[Root].params

HasHandler(t, n, m) == <<n, m>> \in DOMAIN t.handlers

(* Mutant: any node of the trie counts as a path.                          *)
HasPathOfAnyNode(t, raw) == FindNode(t, SplitPath(raw)) # NoNode

HasPath(t, raw) ==
    LET n == FindNode(t, SplitPath(raw))
    IN  \E k \in DOMAIN t.handlers : k[1] = n

(* The node whose handler answers the method, or NoNode.                   *)
MatchRoute(t, m, raw) ==
    LET n == FindNode(t, SplitPath(raw))
    IN  IF HasHandler(t, n, m) THEN n ELSE NoNode

(* A middleware is a function on handlers; the last applied is outermost.  *)
Wrapped(h, middleware) == [owner |-> h.owner, wraps |-> h.wraps \o middleware]

(* Every handler of the trie is wrapped by each middleware, in order.      *)
ApplyMiddleware(t, middleware) ==
    [nodes    |-> t.nodes,
     handlers |-> [k \in DOMAIN t.handlers |-> Wrapped(t.handlers[k], middleware)]]
-----------------------------------------------------------------------------
(* What the documentation says of the patterns: a static segment is equal, *)
(* a parameter takes one piece, a wildcard all that remain, at least one.  *)

Matches(n, path) ==
    /\ \/ Len(n) = Len(path)
       \/ n # Root /\ Last(n) = Wildcard /\ Len(n) <= Len(path)
    /\ \A k \in DOMAIN n : \/ n[k] = Static(path[k])
                           \/ n[k].kind = "param"
                           \/ n[k] = Wildcard /\ k = Len(n)

(* "static -> param -> wildcard", and parameters in the order they came.   *)
Rank(t, n, k) ==
    CASE n[k].kind = "static" -> 0
      [] n[k].kind = "param" -> Index(t, SubSeq(n, 1, k))
      [] n[k].kind = "wildcard" -> Len(t.nodes) + 1

Precedes(t, a, b) ==
    \E k \in DOMAIN a \intersect DOMAIN b :
        /\ SubSeq(a, 1, k - 1) = SubSeq(b, 1, k - 1)
        /\ Rank(t, a, k) < Rank(t, b, k)

(* The parameters of a route: each name of the pattern from its a-th       *)
(* segment on has the piece at its place, "*" all that are left, a name    *)
(* used twice that of the later place, and there is no other.              *)
Binders(n, a) == {k \in DOMAIN n : k >= a /\ n[k].kind # "static"}

Captures(n, path, a, params) ==
    /\ DOMAIN params = {n[k].name : k \in Binders(n, a)}
    /\ \A k \in Binders(n, a) :
          (\A j \in Binders(n, a) : n[j].name = n[k].name => j <= k)
            => params[n[k].name] = IF n[k] = Wildcard THEN SubSeq(path, k, Len(path))
                                                     ELSE <<path[k]>>
=============================================================================
