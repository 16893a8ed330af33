---------------------------- MODULE RouterProof ----------------------------
(***************************************************************************)
(* What the route trie promises for any patterns and paths: insertion      *)
(* keeps it a trie, and the backtracking search finds the node that comes  *)
(* first in precedence order among those whose pattern the path has, with  *)
(* that pattern's parameters.                                              *)
(*                                                                         *)
(* The search and split_path() are recursive.  What they compute is proved *)
(* by the least counterexample: were the claim false somewhere, it would   *)
(* be false first at some least natural number, where it follows from the  *)
(* smaller ones (Least).                                                   *)
(***************************************************************************)
EXTENDS Router, SequenceTheorems, WellFoundedInduction, TLAPS

Less == {p \in Nat \X Nat : p[1] < p[2]}

(* A set of natural numbers that is not empty has a least element.         *)
LEMMA Least ==
    ASSUME NEW T, T \subseteq Nat, T # {}
    PROVE  \E m \in T : \A k \in T : m <= k
<1>1. IsWellFoundedOn(Less, Nat)
    BY NatLessThanWellFounded DEF OpToRel, Less
<1>2. PICK m \in T : \A k \in T : ~ (<<k, m>> \in Less)
    BY <1>1, WFMin
<1>3. \A k \in T : ~ (k < m)
    BY <1>2 DEF Less
<1> QED
    BY <1>3

(* A set of natural numbers that has a bound has a greatest element.       *)
LEMMA Greatest ==
    ASSUME NEW T, T \subseteq Nat, T # {}, NEW b \in Nat, \A k \in T : k <= b
    PROVE  Max(T) \in T /\ \A k \in T : k <= Max(T)
<1> DEFINE gaps == {b - k : k \in T}
<1>1. gaps \subseteq Nat /\ gaps # {}
    <2>1. \A k \in T : b - k \in Nat
        OBVIOUS
    <2> QED
        BY <2>1
<1>2. PICK g \in gaps : \A k \in gaps : g <= k
    BY <1>1, Least
<1>3. PICK m \in T : g = b - m
    BY <1>2
<1>4. \A k \in T : m >= k
    <2> TAKE k \in T
    <2>1. b - m <= b - k
        BY <1>2, <1>3
    <2> QED
        BY <2>1
<1>5. Max(T) \in T /\ \A k \in T : Max(T) >= k
    BY <1>4 DEF Max
<1> QED
    BY <1>5
(* The start of a sequence.                                                *)
LEMMA Start ==
    ASSUME NEW S, NEW s \in Seq(S), NEW k \in 0..Len(s)
    PROVE  /\ SubSeq(s, 1, k) \in Seq(S)
           /\ Len(SubSeq(s, 1, k)) = k /\ DOMAIN SubSeq(s, 1, k) = 1..k
           /\ \A i \in 1..k : SubSeq(s, 1, k)[i] = s[i]
           /\ \A j \in 0..k : SubSeq(SubSeq(s, 1, k), 1, j) = SubSeq(s, 1, j)
<1>1. Len(s) \in Nat /\ \A i \in 1..Len(s) : s[i] \in S
    BY ElementOfSeq
<1>2. ASSUME NEW u \in Seq(S), NEW j \in 0..Len(u)
      PROVE  /\ SubSeq(u, 1, j) \in Seq(S) /\ Len(SubSeq(u, 1, j)) = j
             /\ \A i \in 1..j : SubSeq(u, 1, j)[i] = u[i]
    <2>1. Len(u) \in Nat /\ \A i \in 1..j : u[i] \in S
        BY ElementOfSeq
    <2>2. j \in Nat
        BY <2>1
    <2> QED
        BY <2>1, <2>2, SubSeqProperties
<1>3. k \in Nat
    BY <1>1
<1>4. ASSUME NEW j \in 0..k PROVE SubSeq(SubSeq(s, 1, k), 1, j) = SubSeq(s, 1, j)
    <2> DEFINE u == SubSeq(s, 1, k)
    <2>1. u \in Seq(S) /\ Len(u) = k /\ \A i \in 1..k : u[i] = s[i]
        BY <1>2
    <2> HIDE DEF u
    <2>2. j \in 0..Len(u) /\ j \in 0..Len(s)
        BY <1>1, <1>3, <2>1
    <2>3. /\ SubSeq(u, 1, j) \in Seq(S) /\ Len(SubSeq(u, 1, j)) = j
          /\ SubSeq(s, 1, j) \in Seq(S) /\ Len(SubSeq(s, 1, j)) = j
          /\ \A i \in 1..j : SubSeq(u, 1, j)[i] = u[i] /\ SubSeq(s, 1, j)[i] = s[i]
        BY <1>2, <2>1, <2>2
    <2>4. \A i \in 1..j : SubSeq(u, 1, j)[i] = SubSeq(s, 1, j)[i]
        BY <1>3, <2>1, <2>3
    <2>5. SubSeq(u, 1, j) = SubSeq(s, 1, j)
        BY <2>3, <2>4, SeqEqual
    <2> QED
        BY <2>5 DEF u
<1> QED
    BY <1>2, <1>4

LEMMA FunctionIsSeq ==
    ASSUME NEW S, NEW k \in Nat, NEW f \in [1..k -> S]
    PROVE  f \in Seq(S) /\ Len(f) = k
<1>1. f \in Seq(S)
    BY SeqDef
<1>2. 1..Len(f) = 1..k /\ Len(f) \in Nat
    BY <1>1, LenProperties
<1> QED
    BY <1>1, <1>2

LEMMA StartOfAll ==
    ASSUME NEW S, NEW s \in Seq(S)
    PROVE  Len(s) \in 0..Len(s) /\ SubSeq(s, 1, Len(s)) = s
BY SubSeqFull
-----------------------------------------------------------------------------
(* The segments of the nodes.  That the names written in the code are      *)
(* strings has to be said: the provers do not know it of a literal.        *)
NodeSegments ==
    {s \in [kind : {"static", "param", "wildcard"}, name : STRING \union {"*", "__mini_reload"}] :
        s.kind = "wildcard" => s = Wildcard}

LEMMA SegmentsOfNodes ==
    /\ Segments \subseteq NodeSegments
    /\ Wildcard \in NodeSegments
    /\ Static("__mini_reload") \in NodeSegments
<1>1. Segments \subseteq NodeSegments
    BY DEF Segments, NodeSegments
<1>2. Wildcard \in NodeSegments
    BY DEF Wildcard, NodeSegments
<1>3. Static("__mini_reload") \in NodeSegments
    BY DEF Static, NodeSegments
<1> QED
    BY <1>1, <1>2, <1>3

(* The shape of the trie: no node twice, and the parent of each.           *)
Trie(t) ==
    /\ t.nodes \in Seq(Seq(NodeSegments))
    /\ IsInjective(t.nodes)
    /\ Root \in ToSet(t.nodes)
    /\ \A n \in ToSet(t.nodes) : n # Root => Front(n) \in ToSet(t.nodes)

LEMMA SegmentKinds ==
    ASSUME NEW s \in NodeSegments
    PROVE  /\ s.kind \in {"static", "param", "wildcard"}
           /\ s = [kind |-> s.kind, name |-> s.name]
           /\ s.kind = "wildcard" => s = Wildcard
BY DEF NodeSegments

LEMMA NodesAreSequences ==
    ASSUME NEW t, Trie(t), NEW n \in ToSet(t.nodes)
    PROVE  n \in Seq(NodeSegments) /\ Len(n) \in Nat /\ DOMAIN n = 1..Len(n) /\ n # NoNode
<1>1. n \in Seq(NodeSegments)
    BY DEF Trie, ToSet
<1>2. Len(n) \in Nat /\ DOMAIN n = 1..Len(n)
    BY <1>1
<1>3. n # NoNode
    <2> SUFFICES ASSUME n = NoNode PROVE FALSE
        OBVIOUS
    <2>1. Len(NoNode) = 1 /\ NoNode[1].kind = "none"
        BY DEF NoNode
    <2>2. 1 \in 1..Len(n)
        BY <2>1
    <2>3. n[1] \in NodeSegments
        BY <1>1, <2>2, ElementOfSeq
    <2> QED
        BY <2>1, <2>3, SegmentKinds
<1> QED
    BY <1>1, <1>2, <1>3

(* The start of a node's pattern is a node.                                *)
LEMMA AncestorsAreNodes ==
    ASSUME NEW t, Trie(t), NEW n \in ToSet(t.nodes)
    PROVE  \A k \in 0..Len(n) : SubSeq(n, 1, k) \in ToSet(t.nodes)
<1> DEFINE bad == {d \in 0..Len(n) : SubSeq(n, 1, Len(n) - d) \notin ToSet(t.nodes)}
<1>1. n \in Seq(NodeSegments) /\ Len(n) \in Nat
    BY NodesAreSequences
<1>2. ASSUME NEW d \in bad, \A x \in bad : d <= x PROVE FALSE
    <2>0. d \in 0..Len(n) /\ SubSeq(n, 1, Len(n) - d) \notin ToSet(t.nodes)
        OBVIOUS
    <2>1. d # 0
        <3>1. Len(n) - 0 = Len(n) /\ SubSeq(n, 1, Len(n)) = n
            BY <1>1, StartOfAll
        <3> QED
            BY <2>0, <3>1
    <2>2. d - 1 \in 0..Len(n) /\ d - 1 \notin bad
        BY <1>1, <1>2, <2>1
    <2>3. SubSeq(n, 1, Len(n) - d + 1) \in ToSet(t.nodes)
        BY <1>1, <2>2
    <2>4. PICK m : m = SubSeq(n, 1, Len(n) - d + 1)
        OBVIOUS
    <2>5. /\ Len(m) = Len(n) - d + 1
          /\ SubSeq(m, 1, Len(n) - d) = SubSeq(n, 1, Len(n) - d)
        <3>1. Len(n) - d + 1 \in 0..Len(n) /\ Len(n) - d \in 0..(Len(n) - d + 1)
            BY <1>1, <2>0, <2>1
        <3> QED
            BY <1>1, <2>4, <3>1, Start
    <2>6. m # Root
        BY <1>1, <2>0, <2>5 DEF Root
    <2>7. Front(m) \in ToSet(t.nodes)
        BY <2>3, <2>4, <2>6 DEF Trie
    <2>8. Front(m) = SubSeq(n, 1, Len(n) - d)
        BY <1>1, <2>0, <2>5 DEF Front
    <2> QED
        BY <2>0, <2>7, <2>8
<1>3. bad \subseteq Nat
    BY <1>1
<1>4. bad = {}
    <2> HIDE DEF bad
    <2> QED
        BY <1>2, <1>3, Least
<1>5. \A k \in 0..Len(n) : Len(n) - k \in 0..Len(n) /\ Len(n) - (Len(n) - k) = k
    BY <1>1
<1> QED
    BY <1>4, <1>5
-----------------------------------------------------------------------------
LEMMA NewTrie == Trie(NewRouter)
<1>1. NewRouter.nodes = <<Root>> /\ Root \in Seq(NodeSegments)
    BY DEF NewRouter, Root
<1>2. <<Root>> \in Seq(Seq(NodeSegments)) /\ Len(<<Root>>) = 1 /\ <<Root>>[1] = Root
    BY <1>1
<1>3. DOMAIN <<Root>> = 1..1
    BY <1>2
<1>4. ToSet(<<Root>>) = {Root}
    BY <1>2, <1>3 DEF ToSet
<1> QED
    BY <1>1, <1>2, <1>3, <1>4 DEF Trie, IsInjective

LEMMA ToSetOfConcat ==
    ASSUME NEW S, NEW a \in Seq(S), NEW b \in Seq(S)
    PROVE  ToSet(a \o b) = ToSet(a) \union ToSet(b)
<1>1. \A s : ToSet(s) = Range(s)
    BY DEF ToSet, Range
<1> QED
    BY <1>1, RangeConcatenation

(* What is found of the pattern is its longest start with a node.          *)
LEMMA DepthIsLongest ==
    ASSUME NEW t, Trie(t), NEW pattern \in Seq(NodeSegments)
    PROVE  /\ Depth(t, pattern) \in 0..Len(pattern)
           /\ SubSeq(pattern, 1, Depth(t, pattern)) \in ToSet(t.nodes)
           /\ \A k \in 0..Len(pattern) :
                SubSeq(pattern, 1, k) \in ToSet(t.nodes) => k <= Depth(t, pattern)
<1> DEFINE known == {k \in 0..Len(pattern) : SubSeq(pattern, 1, k) \in ToSet(t.nodes)}
<1>1. Len(pattern) \in Nat
    OBVIOUS
<1>2. SubSeq(pattern, 1, 0) = Root
    BY SubSeqEmpty DEF Root
<1>3. 0 \in known /\ known \subseteq Nat /\ \A k \in known : k <= Len(pattern)
    <2>1. Root \in ToSet(t.nodes) /\ 0 \in 0..Len(pattern)
        BY <1>1 DEF Trie
    <2>2. 0 \in known
        BY <1>2, <2>1
    <2>3. known \subseteq 0..Len(pattern)
        OBVIOUS
    <2> HIDE DEF known
    <2> QED
        BY <1>1, <2>2, <2>3
<1>4. Max(known) \in known /\ \A k \in known : k <= Max(known)
    <2> HIDE DEF known
    <2> QED
        BY <1>1, <1>3, Greatest
<1> QED
    BY <1>4 DEF Depth

(* insert() keeps the trie a trie and adds the starts of the pattern.      *)
THEOREM InsertKeepsTrie ==
    ASSUME NEW t, Trie(t), NEW pattern \in Seq(NodeSegments), NEW m, NEW h
    PROVE  LET u == Insert(t, m, pattern, h)
           IN  /\ Trie(u)
               /\ ToSet(t.nodes) \subseteq ToSet(u.nodes)
               /\ pattern \in ToSet(u.nodes)
<1> DEFINE u == Insert(t, m, pattern, h)
           d == Depth(t, pattern)
           old == Len(t.nodes)
           made == [k \in 1..(Len(pattern) - d) |-> SubSeq(pattern, 1, d + k)]
<1>1. /\ d \in 0..Len(pattern)
      /\ SubSeq(pattern, 1, d) \in ToSet(t.nodes)
      /\ \A k \in 0..Len(pattern) : SubSeq(pattern, 1, k) \in ToSet(t.nodes) => k <= d
    BY DepthIsLongest
<1>2. u.nodes = t.nodes \o made
    BY DEF Insert
<1> HIDE DEF u, d
<1>3. Len(pattern) \in Nat /\ Len(pattern) - d \in Nat
    BY <1>1
<1>4. \A k \in 1..(Len(pattern) - d) :
         /\ d + k \in 0..Len(pattern) /\ d + k > d
         /\ SubSeq(pattern, 1, d + k) \in Seq(NodeSegments)
         /\ Len(SubSeq(pattern, 1, d + k)) = d + k
         /\ SubSeq(pattern, 1, d + k) \notin ToSet(t.nodes)
    <2> TAKE k \in 1..(Len(pattern) - d)
    <2>1. d + k \in 0..Len(pattern) /\ d + k > d
        BY <1>1, <1>3
    <2> QED
        BY <1>1, <2>1, Start
<1>5. /\ made \in Seq(Seq(NodeSegments)) /\ Len(made) = Len(pattern) - d
      /\ DOMAIN made = 1..Len(made)
      /\ \A k \in 1..Len(made) : made[k] = SubSeq(pattern, 1, d + k)
    <2>1. made \in [1..(Len(pattern) - d) -> Seq(NodeSegments)]
        BY <1>4
    <2>2. made \in Seq(Seq(NodeSegments)) /\ Len(made) = Len(pattern) - d
        <3> HIDE DEF made
        <3> QED
            BY <1>3, <2>1, FunctionIsSeq
    <2> QED
        BY <2>2
<1> HIDE DEF made, old
<1>6. t.nodes \in Seq(Seq(NodeSegments)) /\ old \in Nat /\ DOMAIN t.nodes = 1..old
    BY DEF Trie, old
<1>7. /\ u.nodes \in Seq(Seq(NodeSegments))
      /\ DOMAIN u.nodes = 1..(old + Len(made))
      /\ \A i \in 1..old : u.nodes[i] = t.nodes[i]
      /\ \A i \in 1..(old + Len(made)) : i > old => u.nodes[i] = SubSeq(pattern, 1, d + (i - old))
    <2>1. /\ u.nodes \in Seq(Seq(NodeSegments)) /\ Len(u.nodes) = old + Len(made)
          /\ \A i \in 1..(old + Len(made)) :
                u.nodes[i] = IF i <= old THEN t.nodes[i] ELSE made[i - old]
        <3>1. Len(t.nodes) = old
            BY DEF old
        <3>2. /\ t.nodes \o made \in Seq(Seq(NodeSegments))
              /\ Len(t.nodes \o made) = Len(t.nodes) + Len(made)
              /\ \A i \in 1..(Len(t.nodes) + Len(made)) :
                    (t.nodes \o made)[i]
                      = IF i <= Len(t.nodes) THEN t.nodes[i] ELSE made[i - Len(t.nodes)]
            BY <1>5, <1>6, ConcatProperties
        <3> QED
            BY <1>2, <3>1, <3>2
    <2>2. Len(made) \in Nat
        BY <1>3, <1>5
    <2>3. DOMAIN u.nodes = 1..(old + Len(made)) /\ \A i \in 1..old : u.nodes[i] = t.nodes[i]
        <3>1. \A i \in 1..old : i \in 1..(old + Len(made)) /\ i <= old
            BY <1>6, <2>2
        <3> QED
            BY <1>6, <2>1, <3>1
    <2>4. ASSUME NEW i \in 1..(old + Len(made)), i > old
          PROVE  u.nodes[i] = SubSeq(pattern, 1, d + (i - old))
        <3>1. i - old \in 1..Len(made)
            BY <1>6, <2>2, <2>4
        <3>2. ~(i <= old)
            BY <1>6, <2>2, <2>4
        <3>3. u.nodes[i] = made[i - old]
            BY <2>1, <3>2
        <3>4. made[i - old] = SubSeq(pattern, 1, d + (i - old))
            BY <1>5, <3>1
        <3> QED
            BY <3>3, <3>4
    <2> QED
        BY <2>1, <2>3, <2>4
<1>8. ToSet(u.nodes) = ToSet(t.nodes) \union ToSet(made)
    BY <1>2, <1>5, <1>6, ToSetOfConcat
<1>9. pattern \in ToSet(u.nodes)
    <2>1. CASE d = Len(pattern)
        BY <1>1, <1>8, <2>1, StartOfAll
    <2>2. CASE d < Len(pattern)
        <3>1. Len(made) \in 1..Len(made) /\ d + Len(made) = Len(pattern)
            BY <1>1, <1>3, <1>5, <2>2
        <3>2. made[Len(made)] = pattern
            BY <1>5, <3>1, StartOfAll
        <3> QED
            BY <1>5, <1>8, <3>1, <3>2 DEF ToSet
    <2> QED
        BY <1>1, <2>1, <2>2
<1>10. IsInjective(u.nodes)
    <2> SUFFICES ASSUME NEW i \in 1..(old + Len(made)), NEW j \in 1..(old + Len(made)),
                        u.nodes[i] = u.nodes[j], i < j
                 PROVE  FALSE
        <3>1. ASSUME NEW i \in DOMAIN u.nodes, NEW j \in DOMAIN u.nodes
              PROVE  i < j \/ i = j \/ j < i
            BY <1>3, <1>5, <1>6, <1>7
        <3> QED
            BY <1>7, <3>1 DEF IsInjective
    <2>0. Len(made) \in Nat /\ i \in Nat /\ j \in Nat
        BY <1>3, <1>5, <1>6
    <2>1. CASE j <= old
        <3>1. i \in 1..old /\ j \in 1..old
            BY <1>6, <2>0, <2>1
        <3>2. t.nodes[i] = t.nodes[j]
            BY <1>7, <3>1
        <3>3. i = j
            BY <1>6, <3>1, <3>2 DEF Trie, IsInjective
        <3> QED
            BY <2>0, <3>3
    <2>2. ASSUME NEW x \in 1..(old + Len(made)), x > old
          PROVE  x - old \in 1..(Len(pattern) - d) /\ u.nodes[x] = SubSeq(pattern, 1, d + (x - old))
        <3>1. x - old \in 1..Len(made)
            BY <1>6, <2>0, <2>2
        <3>2. u.nodes[x] = SubSeq(pattern, 1, d + (x - old))
            BY <1>7, <2>2
        <3> QED
            BY <1>5, <3>1, <3>2
    <2>3. CASE i <= old /\ j > old
        <3>1. u.nodes[j] \notin ToSet(t.nodes)
            BY <1>4, <2>2, <2>3
        <3>2. i \in 1..old
            BY <1>6, <2>0, <2>3
        <3>3. u.nodes[i] \in ToSet(t.nodes)
            BY <1>6, <1>7, <3>2 DEF ToSet
        <3> QED
            BY <3>1, <3>3
    <2>4. CASE i > old
        <3>1. j > old
            BY <1>6, <2>0, <2>4
        <3>2. Len(u.nodes[i]) = d + (i - old) /\ Len(u.nodes[j]) = d + (j - old)
            BY <1>4, <2>2, <2>4, <3>1
        <3>3. d \in Nat
            BY <1>1, <1>3
        <3> QED
            BY <1>6, <2>0, <3>2, <3>3
    <2> QED
        BY <1>6, <2>0, <2>1, <2>3, <2>4
<1>11. ASSUME NEW n \in ToSet(made) PROVE Front(n) \in ToSet(u.nodes)
    <2>1. PICK k \in 1..Len(made) : n = SubSeq(pattern, 1, d + k)
        BY <1>5, <1>11 DEF ToSet
    <2>2. d + k - 1 \in 0..(d + k) /\ d + k \in 0..Len(pattern)
        BY <1>1, <1>3, <1>5
    <2>3. Front(n) = SubSeq(pattern, 1, d + k - 1)
        <3>1. Len(n) = d + k
            BY <1>4, <1>5, <2>1
        <3>2. SubSeq(SubSeq(pattern, 1, d + k), 1, d + k - 1) = SubSeq(pattern, 1, d + k - 1)
            BY <2>2, Start
        <3>3. Front(n) = SubSeq(n, 1, d + k - 1)
            BY <1>1, <1>3, <1>5, <3>1 DEF Front
        <3> QED
            BY <2>1, <3>2, <3>3
    <2>4. CASE k = 1
        BY <1>1, <1>8, <2>3, <2>4
    <2>5. CASE k > 1
        <3>1. k - 1 \in 1..Len(made) /\ d + k - 1 = d + (k - 1)
            BY <1>1, <1>5, <2>5
        <3>2. Front(n) \in ToSet(made)
            BY <1>5, <2>3, <3>1 DEF ToSet
        <3> QED
            BY <1>8, <3>2
    <2> QED
        BY <1>5, <2>4, <2>5
<1>12. Trie(u)
    BY <1>7, <1>8, <1>10, <1>11 DEF Trie
<1> QED
    BY <1>8, <1>9, <1>12 DEF u
-----------------------------------------------------------------------------
(* The search.                                                             *)

LEMMA ParamChildrenAreDeeper ==
    ASSUME NEW t, Trie(t), NEW n \in ToSet(t.nodes), NEW c \in ParamChildren(t, n)
    PROVE  /\ c \in ToSet(t.nodes) /\ Len(c) = Len(n) + 1
           /\ SubSeq(c, 1, Len(n)) = n /\ c[Len(n) + 1].kind = "param"
<1>1. c \in ToSet(t.nodes) /\ c # Root /\ Front(c) = n /\ Last(c).kind = "param"
    BY DEF ParamChildren
<1>2. c \in Seq(NodeSegments) /\ Len(c) \in Nat
    BY <1>1, NodesAreSequences
<1>3. Len(c) > 0
    BY <1>1, <1>2 DEF Root
<1>4. Len(n) = Len(c) - 1
    BY <1>1, <1>2, <1>3, Start DEF Front
<1> QED
    BY <1>1, <1>2, <1>4 DEF Front, Last

LEMMA AppendedIsDeeper ==
    ASSUME NEW S, NEW n \in Seq(S), NEW x \in S
    PROVE  /\ Len(Append(n, x)) = Len(n) + 1
           /\ SubSeq(Append(n, x), 1, Len(n)) = n /\ Append(n, x)[Len(n) + 1] = x
<1>1. /\ Append(n, x) \in Seq(S) /\ Len(Append(n, x)) = Len(n) + 1
      /\ Append(n, x)[Len(n) + 1] = x
      /\ \A i \in 1..Len(n) : Append(n, x)[i] = n[i]
    BY AppendProperties
<1>2. /\ SubSeq(Append(n, x), 1, Len(n)) \in Seq(S)
      /\ Len(SubSeq(Append(n, x), 1, Len(n))) = Len(n)
      /\ \A i \in 1..Len(n) : SubSeq(Append(n, x), 1, Len(n))[i] = Append(n, x)[i]
    <2>1. Len(n) \in Nat /\ Len(n) \in 0..Len(Append(n, x))
        BY <1>1
    <2> QED
        BY <1>1, <2>1, Start
<1>3. \A i \in 1..Len(n) : SubSeq(Append(n, x), 1, Len(n))[i] = n[i]
    BY <1>1, <1>2
<1>4. SubSeq(Append(n, x), 1, Len(n)) = n
    BY <1>2, <1>3, SeqEqual
<1> QED
    BY <1>1, <1>4

LEMMA IndexIsPosition ==
    ASSUME NEW t, Trie(t), NEW n \in ToSet(t.nodes)
    PROVE  Index(t, n) \in 1..Len(t.nodes) /\ t.nodes[Index(t, n)] = n
<1>1. \E i \in DOMAIN t.nodes : t.nodes[i] = n
    BY DEF ToSet
<1>2. Index(t, n) \in DOMAIN t.nodes /\ t.nodes[Index(t, n)] = n
    BY <1>1 DEF Index
<1> QED
    BY <1>2 DEF Trie

LEMMA EarliestIsFirst ==
    ASSUME NEW t, Trie(t), NEW S, S \subseteq ToSet(t.nodes), S # {}
    PROVE  Earliest(t, S) \in S /\ \A d \in S : Index(t, Earliest(t, S)) <= Index(t, d)
<1> DEFINE places == {Index(t, d) : d \in S}
<1>1. places \subseteq Nat /\ places # {}
    <2>1. Len(t.nodes) \in Nat
        BY DEF Trie
    <2>2. \A d \in S : Index(t, d) \in Nat
        BY <2>1, IndexIsPosition
    <2> QED
        BY <2>2
<1>2. PICK i \in places : \A j \in places : i <= j
    <2> HIDE DEF places
    <2> QED
        BY <1>1, Least
<1>3. \E c \in S : \A d \in S : Index(t, c) <= Index(t, d)
    BY <1>2
<1> QED
    BY <1>3 DEF Earliest

(* find_node() at a node asks only for its children.                       *)
LEMMA VisitAsksChildren ==
    ASSUME NEW t, Trie(t), NEW path \in Seq(STRING),
           NEW n \in ToSet(t.nodes), Len(n) <= Len(path), NEW f, NEW g,
           \A c \in ToSet(t.nodes) :
              Len(c) = Len(n) + 1 /\ Len(c) <= Len(path) => f[c] = g[c]
    PROVE  Visit(t, path, f, n) = Visit(t, path, g, n)
<1>1. n \in Seq(NodeSegments) /\ Len(n) \in Nat /\ Len(path) \in Nat
    BY NodesAreSequences
<1>2. CASE Len(n) = Len(path)
    BY <1>2 DEF Visit
<1>3. CASE Len(n) < Len(path)
    <2> DEFINE same == Append(n, Static(path[Len(n) + 1]))
    <2>1. Len(n) + 1 <= Len(path)
        BY <1>1, <1>3
    <2>2. same \in ToSet(t.nodes) => f[same] = g[same]
        <3>1. n \in Seq(NodeSegments \union {Static(path[Len(n) + 1])})
            BY <1>1, SeqMonotonic
        <3>2. Len(same) = Len(n) + 1
            BY <3>1, AppendedIsDeeper
        <3> QED
            BY <2>1, <3>2
    <2>3. \A c \in ParamChildren(t, n) : f[c] = g[c]
        BY <2>1, ParamChildrenAreDeeper
    <2>4. {c \in ParamChildren(t, n) : f[c].node # NoNode}
           = {c \in ParamChildren(t, n) : g[c].node # NoNode}
        BY <2>3
    <2> DEFINE params == {c \in ParamChildren(t, n) : f[c].node # NoNode}
    <2>5. params # {} => f[Earliest(t, params)] = g[Earliest(t, params)]
        <3>1. params \subseteq ToSet(t.nodes) /\ params \subseteq ParamChildren(t, n)
            BY DEF ParamChildren
        <3>2. params # {} => Earliest(t, params) \in ParamChildren(t, n)
            <4> HIDE DEF params
            <4> QED
                BY <3>1, EarliestIsFirst
        <3> QED
            BY <2>3, <3>2
    <2> QED
        BY <2>2, <2>4, <2>5 DEF Visit
<1> QED
    BY <1>1, <1>2, <1>3

(* The search is what its recursive definition says, at every node that is *)
(* not below the path: there is a function that solves it for the nodes at *)
(* most d above the path, for any d.                                       *)
LEMMA SearchEquation ==
    ASSUME NEW t, Trie(t), NEW path \in Seq(STRING)
    PROVE  \A n \in ToSet(t.nodes) : Len(n) <= Len(path) =>
              Search(t, path)[n] = Visit(t, path, Search(t, path), n)
<1> DEFINE near(d) == {n \in ToSet(t.nodes) : Len(n) <= Len(path) /\ Len(path) - Len(n) <= d}
           solves(g, d) == g = [n \in near(d) |-> Visit(t, path, g, n)]
           bad == {d \in Nat : ~ \E g : solves(g, d)}
<1>1. Len(path) \in Nat /\ \A n \in ToSet(t.nodes) : Len(n) \in Nat
    BY NodesAreSequences
<1>2. \E g : solves(g, 0)
    <2> DEFINE g == [n \in near(0) |-> Found(n, NoParams)]
    <2>1. \A n \in near(0) : Visit(t, path, g, n) = Found(n, NoParams)
        BY <1>1 DEF Visit
    <2>2. solves(g, 0)
        <3> HIDE DEF near
        <3> QED
            BY <2>1
    <2> QED
        BY <2>2
<1>3. ASSUME NEW d \in Nat, NEW g, solves(g, d) PROVE \E h : solves(h, d + 1)
    <2> DEFINE h == [n \in near(d + 1) |-> Visit(t, path, g, n)]
    <2>1. near(d) \subseteq near(d + 1)
        BY <1>1
    <2>2. \A n \in near(d) : h[n] = g[n]
        <3> HIDE DEF near
        <3> QED
            BY <1>3, <2>1
    <2>3. ASSUME NEW n \in near(d + 1) PROVE Visit(t, path, g, n) = Visit(t, path, h, n)
        <3>1. n \in ToSet(t.nodes) /\ Len(n) <= Len(path) /\ Len(path) - Len(n) <= d + 1
            OBVIOUS
        <3>2. \A c \in ToSet(t.nodes) :
                 Len(c) = Len(n) + 1 /\ Len(c) <= Len(path) => c \in near(d)
            BY <1>1, <3>1
        <3>3. \A c \in ToSet(t.nodes) :
                 Len(c) = Len(n) + 1 /\ Len(c) <= Len(path) => g[c] = h[c]
            BY <2>2, <3>2
        <3> HIDE DEF h
        <3> QED
            BY <3>1, <3>3, VisitAsksChildren
    <2>4. solves(h, d + 1)
        <3> HIDE DEF near
        <3> QED
            BY <2>3
    <2> QED
        BY <2>4
<1>4. bad = {}
    <2> SUFFICES ASSUME bad # {} PROVE FALSE
        OBVIOUS
    <2> HIDE DEF solves
    <2>1. bad \subseteq Nat
        OBVIOUS
    <2>2. PICK d \in bad : \A e \in bad : d <= e
        <3> HIDE DEF bad
        <3> QED
            BY <2>1, Least
    <2>3. d # 0
        BY <1>2, <2>2
    <2>4. d - 1 \in Nat /\ d - 1 \notin bad /\ (d - 1) + 1 = d
        BY <2>1, <2>2, <2>3
    <2>5. PICK g : solves(g, d - 1)
        BY <2>4
    <2>6. \E h : solves(h, d)
        BY <1>3, <2>4, <2>5
    <2> QED
        BY <2>2, <2>6
<1> DEFINE reach == {n \in ToSet(t.nodes) : Len(n) <= Len(path)}
<1>5. reach = near(Len(path))
    BY <1>1
<1>6. \E g : g = [n \in reach |-> Visit(t, path, g, n)]
    <2>1. \E g : solves(g, Len(path))
        <3> HIDE DEF solves
        <3> QED
            BY <1>1, <1>4
    <2> QED
        BY <1>5, <2>1
<1>7. Search(t, path) = CHOOSE g : g = [n \in reach |-> Visit(t, path, g, n)]
    BY DEF Search
<1>8. Search(t, path) = [n \in reach |-> Visit(t, path, Search(t, path), n)]
    BY <1>6, <1>7
<1> QED
    BY <1>8
-----------------------------------------------------------------------------
(* What is found at a node: the first, in precedence order, of the nodes   *)
(* at it and below it that have the path.                                  *)

OnWay(n, path) == \A k \in DOMAIN n : n[k] = Static(path[k]) \/ n[k].kind = "param"

Below(t, path, n) ==
    {c \in ToSet(t.nodes) : Matches(c, path) /\ Len(n) <= Len(c) /\ SubSeq(c, 1, Len(n)) = n}

IsFirst(t, path, n, found) ==
    /\ found = NoNode <=> Below(t, path, n) = {}
    /\ found # NoNode => found \in Below(t, path, n)
    /\ \A c \in Below(t, path, n) : c = found \/ Precedes(t, found, c)

LEMMA MatchesIsShort ==
    ASSUME NEW t, Trie(t), NEW path \in Seq(STRING), NEW c \in ToSet(t.nodes), Matches(c, path)
    PROVE  Len(c) <= Len(path)
BY NodesAreSequences DEF Matches

(* A fitting node below another one is below its static child, below a     *)
(* parameter, or is its wildcard.                                          *)
LEMMA Branches ==
    ASSUME NEW t, Trie(t), NEW path \in Seq(STRING), NEW n \in ToSet(t.nodes),
           OnWay(n, path), Len(n) < Len(path), NEW c \in Below(t, path, n)
    PROVE  LET e == SubSeq(c, 1, Len(n) + 1)
           IN  /\ Len(n) + 1 \in 1..Len(c) /\ e \in ToSet(t.nodes) /\ Len(e) = Len(n) + 1
               /\ e[Len(n) + 1] = c[Len(n) + 1] /\ SubSeq(e, 1, Len(n)) = n
               /\ \/ /\ c[Len(n) + 1] = Static(path[Len(n) + 1])
                     /\ OnWay(e, path) /\ c \in Below(t, path, e)
                     /\ e = Append(n, Static(path[Len(n) + 1]))
                  \/ /\ c[Len(n) + 1].kind = "param"
                     /\ OnWay(e, path) /\ c \in Below(t, path, e)
                     /\ e \in ParamChildren(t, n)
                  \/ /\ c[Len(n) + 1] = Wildcard
                     /\ c = e /\ e = Append(n, Wildcard)
<1> DEFINE k == Len(n) + 1
           e == SubSeq(c, 1, k)
<1>1. /\ n \in Seq(NodeSegments) /\ Len(n) \in Nat /\ DOMAIN n = 1..Len(n) /\ Len(path) \in Nat
      /\ c \in ToSet(t.nodes) /\ c \in Seq(NodeSegments) /\ Len(c) \in Nat /\ DOMAIN c = 1..Len(c)
      /\ Matches(c, path) /\ Len(n) <= Len(c) /\ SubSeq(c, 1, Len(n)) = n
    BY NodesAreSequences DEF Below
<1>2. Len(n) # Len(c)
    <2> SUFFICES ASSUME Len(n) = Len(c) PROVE FALSE
        OBVIOUS
    <2>1. c = n
        BY <1>1, StartOfAll
    <2>2. n # Root /\ Last(n) = Wildcard
        BY <1>1, <2>1 DEF Matches
    <2>3. Len(n) \in DOMAIN n
        BY <1>1, <2>2 DEF Root
    <2> QED
        BY <2>2, <2>3 DEF OnWay, Last, Static, Wildcard
<1>3. k \in 1..Len(c) /\ k \in 0..Len(c)
    <2>1. Len(n) \in Nat /\ Len(c) \in Nat /\ Len(n) <= Len(c)
        BY <1>1
    <2> QED
        BY <1>2, <2>1
<1>4. /\ e \in ToSet(t.nodes) /\ e \in Seq(NodeSegments) /\ Len(e) = k /\ DOMAIN e = 1..k
      /\ \A i \in 1..k : e[i] = c[i]
      /\ SubSeq(e, 1, Len(n)) = n
    <2>1. e \in ToSet(t.nodes)
        BY <1>1, <1>3, AncestorsAreNodes
    <2>2. Len(n) \in 0..k
        BY <1>1
    <2> QED
        BY <1>1, <1>3, <2>1, <2>2, Start
<1>5. Len(n) \in 0..Len(c) /\ \A i \in 1..Len(n) : n[i] = c[i]
    BY <1>1, Start
<1>6. c \in Below(t, path, e)
    BY <1>1, <1>3, <1>4 DEF Below
<1> HIDE DEF e
<1>7. e # Root /\ Front(e) = n /\ Last(e) = c[k]
    BY <1>1, <1>4 DEF Front, Last, Root
<1>8. ASSUME NEW x, c[k] = x PROVE e = Append(n, x)
    <2>1. x \in NodeSegments
        BY <1>1, <1>3, <1>8, ElementOfSeq
    <2>2. Append(n, x) \in Seq(NodeSegments) /\ Len(Append(n, x)) = k
          /\ Append(n, x)[k] = x /\ \A i \in 1..Len(n) : Append(n, x)[i] = n[i]
        BY <1>1, <2>1, AppendProperties
    <2>3. \A i \in 1..k : i = k \/ i \in 1..Len(n)
        BY <1>1
    <2>4. \A i \in 1..k : e[i] = Append(n, x)[i]
        BY <1>4, <1>5, <1>8, <2>2, <2>3
    <2> QED
        BY <1>4, <2>2, <2>4, SeqEqual
<1>9. ASSUME c[k] = Static(path[k]) \/ c[k].kind = "param" PROVE OnWay(e, path)
    <2>1. \A i \in 1..k : i = k \/ i \in 1..Len(n)
        BY <1>1
    <2>2. \A i \in 1..Len(n) : e[i] = n[i]
        BY <1>1, <1>4, <1>5, <2>1
    <2> QED
        BY <1>1, <1>4, <1>9, <2>1, <2>2 DEF OnWay
<1>10. c[k] = Static(path[k]) \/ c[k].kind = "param" \/ (c[k] = Wildcard /\ k = Len(c))
    BY <1>1, <1>3 DEF Matches
<1>11. CASE c[k] = Static(path[k])
    BY <1>3, <1>4, <1>6, <1>8, <1>9, <1>11 DEF e
<1>12. CASE c[k].kind = "param"
    <2>1. e \in ParamChildren(t, n)
        BY <1>4, <1>7, <1>12 DEF ParamChildren
    <2> QED
        BY <1>3, <1>4, <1>6, <1>9, <1>12, <2>1 DEF e
<1>13. CASE c[k] = Wildcard /\ k = Len(c)
    <2>1. c = e
        BY <1>1, <1>13, StartOfAll DEF e
    <2> QED
        BY <1>3, <1>4, <1>8, <1>13, <2>1 DEF e
<1> QED
    BY <1>10, <1>11, <1>12, <1>13

(* A node below a child is below its parent.                               *)
LEMMA BelowChild ==
    ASSUME NEW t, Trie(t), NEW path \in Seq(STRING), NEW n \in ToSet(t.nodes),
           NEW e \in ToSet(t.nodes), Len(n) <= Len(e), SubSeq(e, 1, Len(n)) = n,
           NEW c \in Below(t, path, e)
    PROVE  c \in Below(t, path, n)
<1>1. /\ c \in ToSet(t.nodes) /\ Matches(c, path) /\ Len(e) <= Len(c) /\ SubSeq(c, 1, Len(e)) = e
      /\ c \in Seq(NodeSegments) /\ Len(c) \in Nat /\ Len(e) \in Nat /\ Len(n) \in Nat
    BY NodesAreSequences DEF Below
<1>2. Len(e) \in 0..Len(c) /\ Len(n) \in 0..Len(e)
    BY <1>1
<1>3. SubSeq(SubSeq(c, 1, Len(e)), 1, Len(n)) = SubSeq(c, 1, Len(n))
    BY <1>1, <1>2, Start
<1>4. Len(n) <= Len(c)
    BY <1>1
<1> QED
    BY <1>1, <1>3, <1>4 DEF Below

(* Of two nodes that part after n, the one whose next segment ranks lower  *)
(* precedes.                                                               *)
LEMMA LowerRankPrecedes ==
    ASSUME NEW t, Trie(t), NEW path \in Seq(STRING), NEW n \in ToSet(t.nodes),
           NEW a \in Below(t, path, n), NEW b \in Below(t, path, n),
           Len(n) < Len(a), Len(n) < Len(b),
           Rank(t, a, Len(n) + 1) < Rank(t, b, Len(n) + 1)
    PROVE  Precedes(t, a, b)
<1>1. /\ a \in ToSet(t.nodes) /\ b \in ToSet(t.nodes)
      /\ SubSeq(a, 1, Len(n)) = n /\ SubSeq(b, 1, Len(n)) = n
    BY DEF Below
<1>2. /\ Len(a) \in Nat /\ Len(b) \in Nat /\ Len(n) \in Nat
      /\ DOMAIN a = 1..Len(a) /\ DOMAIN b = 1..Len(b)
    BY <1>1, NodesAreSequences
<1>3. Len(n) + 1 \in DOMAIN a \intersect DOMAIN b /\ (Len(n) + 1) - 1 = Len(n)
    BY <1>2
<1> QED
    BY <1>1, <1>3 DEF Precedes

LEMMA Ranks ==
    ASSUME NEW t, Trie(t), NEW c \in ToSet(t.nodes), NEW k \in 1..Len(c)
    PROVE  /\ c[k].kind = "static" => Rank(t, c, k) = 0
           /\ c[k].kind = "param" => /\ Rank(t, c, k) = Index(t, SubSeq(c, 1, k))
                                     /\ Rank(t, c, k) \in 1..Len(t.nodes)
           /\ c[k] = Wildcard => Rank(t, c, k) = Len(t.nodes) + 1
<1>1. c[k].kind = "static" => Rank(t, c, k) = 0
    BY DEF Rank
<1>2. c[k].kind = "param" => Rank(t, c, k) = Index(t, SubSeq(c, 1, k))
    BY DEF Rank
<1>3. SubSeq(c, 1, k) \in ToSet(t.nodes)
    <2>1. k \in 0..Len(c)
        BY NodesAreSequences
    <2> QED
        BY <2>1, AncestorsAreNodes
<1>4. Index(t, SubSeq(c, 1, k)) \in 1..Len(t.nodes)
    BY <1>3, IndexIsPosition
<1>5. c[k] = Wildcard => c[k].kind = "wildcard"
    BY DEF Wildcard
<1>6. c[k] = Wildcard => Rank(t, c, k) = Len(t.nodes) + 1
    BY <1>5 DEF Rank
<1> QED
    BY <1>1, <1>2, <1>4, <1>6

LEMMA RankIsNumber ==
    ASSUME NEW t, Trie(t), NEW c \in ToSet(t.nodes), NEW k \in 1..Len(c)
    PROVE  Rank(t, c, k) \in Nat
<1>1. c[k] \in NodeSegments /\ Len(t.nodes) \in Nat
    BY NodesAreSequences, ElementOfSeq DEF Trie
<1>2. c[k].kind = "static" \/ c[k].kind = "param" \/ c[k] = Wildcard
    BY <1>1, SegmentKinds
<1> QED
    BY <1>1, <1>2, Ranks

(* Two nodes on the same way so far have the same rank there.              *)
LEMMA SameRank ==
    ASSUME NEW t, Trie(t), NEW a \in ToSet(t.nodes), NEW b \in ToSet(t.nodes),
           NEW m \in Nat, m <= Len(a), m <= Len(b), SubSeq(a, 1, m) = SubSeq(b, 1, m),
           NEW k \in 1..m
    PROVE  Rank(t, a, k) = Rank(t, b, k)
<1>1. a \in Seq(NodeSegments) /\ b \in Seq(NodeSegments) /\ Len(a) \in Nat /\ Len(b) \in Nat
    BY NodesAreSequences
<1>2. m \in 0..Len(a) /\ m \in 0..Len(b) /\ k \in 0..m
    BY <1>1
<1>3. a[k] = b[k]
    BY <1>1, <1>2, Start
<1>4. SubSeq(a, 1, k) = SubSeq(b, 1, k)
    <2>1. SubSeq(SubSeq(a, 1, m), 1, k) = SubSeq(a, 1, k)
        BY <1>1, <1>2, Start
    <2>2. SubSeq(SubSeq(b, 1, m), 1, k) = SubSeq(b, 1, k)
        BY <1>1, <1>2, Start
    <2> QED
        BY <2>1, <2>2
<1> QED
    BY <1>3, <1>4 DEF Rank

(* Two nodes of a trie never precede each other, so that only one node can *)
(* be the first to have a path.                                            *)
THEOREM PrecedenceIsStrict ==
    ASSUME NEW t, Trie(t), NEW a \in ToSet(t.nodes), NEW b \in ToSet(t.nodes),
           Precedes(t, a, b)
    PROVE  ~Precedes(t, b, a)
<1> SUFFICES ASSUME Precedes(t, b, a) PROVE FALSE
    OBVIOUS
<1>1. PICK j \in DOMAIN a \intersect DOMAIN b :
          SubSeq(a, 1, j - 1) = SubSeq(b, 1, j - 1) /\ Rank(t, a, j) < Rank(t, b, j)
    BY DEF Precedes
<1>2. PICK k \in DOMAIN a \intersect DOMAIN b :
          SubSeq(b, 1, k - 1) = SubSeq(a, 1, k - 1) /\ Rank(t, b, k) < Rank(t, a, k)
    BY DEF Precedes
<1>3. j \in 1..Len(a) /\ j \in 1..Len(b) /\ k \in 1..Len(a) /\ k \in 1..Len(b)
    BY NodesAreSequences
<1>4. /\ Rank(t, a, j) \in Nat /\ Rank(t, b, j) \in Nat
      /\ Rank(t, a, k) \in Nat /\ Rank(t, b, k) \in Nat
    BY <1>3, RankIsNumber
<1>5. Len(a) \in Nat /\ Len(b) \in Nat
    BY NodesAreSequences
<1>6. CASE j = k
    BY <1>1, <1>2, <1>4, <1>6
<1>7. CASE j < k
    <2>1. k - 1 \in Nat /\ k - 1 <= Len(a) /\ k - 1 <= Len(b) /\ j \in 1..(k - 1)
        BY <1>3, <1>5, <1>7
    <2>2. Rank(t, a, j) = Rank(t, b, j)
        BY <1>2, <2>1, SameRank
    <2> QED
        BY <1>1, <1>4, <2>2
<1>8. CASE k < j
    <2>1. j - 1 \in Nat /\ j - 1 <= Len(a) /\ j - 1 <= Len(b) /\ k \in 1..(j - 1)
        BY <1>3, <1>5, <1>8
    <2>2. Rank(t, a, k) = Rank(t, b, k)
        BY <1>1, <2>1, SameRank
    <2> QED
        BY <1>2, <1>4, <2>2
<1> QED
    BY <1>3, <1>6, <1>7, <1>8

(* The children the search goes into are on the way as well.               *)
LEMMA ParamChildOnWay ==
    ASSUME NEW t, Trie(t), NEW path \in Seq(STRING), NEW n \in ToSet(t.nodes), OnWay(n, path),
           NEW e \in ParamChildren(t, n)
    PROVE  /\ e \in ToSet(t.nodes) /\ Len(e) = Len(n) + 1 /\ SubSeq(e, 1, Len(n)) = n
           /\ OnWay(e, path) /\ e[Len(n) + 1].kind = "param"
<1> DEFINE k == Len(n) + 1
<1>1. Len(n) \in Nat /\ DOMAIN n = 1..Len(n)
    BY NodesAreSequences
<1>2. e \in ToSet(t.nodes) /\ Len(e) = k /\ SubSeq(e, 1, Len(n)) = n /\ e[k].kind = "param"
    BY ParamChildrenAreDeeper
<1>3. e \in Seq(NodeSegments) /\ DOMAIN e = 1..k /\ Len(n) \in 0..Len(e)
    BY <1>1, <1>2, NodesAreSequences
<1>4. \A i \in 1..Len(n) : n[i] = e[i]
    BY <1>2, <1>3, Start
<1>5. \A i \in 1..k : i = k \/ i \in 1..Len(n)
    BY <1>1
<1>6. \A i \in 1..k : e[i] = Static(path[i]) \/ e[i].kind = "param"
    BY <1>1, <1>2, <1>4, <1>5 DEF OnWay
<1> QED
    BY <1>2, <1>3, <1>6 DEF OnWay

LEMMA SameChildOnWay ==
    ASSUME NEW t, Trie(t), NEW path \in Seq(STRING), NEW n \in ToSet(t.nodes), OnWay(n, path),
           Append(n, Static(path[Len(n) + 1])) \in ToSet(t.nodes)
    PROVE  LET same == Append(n, Static(path[Len(n) + 1]))
           IN  /\ Len(same) = Len(n) + 1 /\ SubSeq(same, 1, Len(n)) = n /\ OnWay(same, path)
               /\ same[Len(n) + 1] = Static(path[Len(n) + 1])
<1> DEFINE k == Len(n) + 1
           same == Append(n, Static(path[k]))
<1>1. n \in Seq(NodeSegments) /\ Len(n) \in Nat /\ DOMAIN n = 1..Len(n)
    BY NodesAreSequences
<1>2. Len(same) = k /\ SubSeq(same, 1, Len(n)) = n /\ same[k] = Static(path[k])
    <2>1. n \in Seq(NodeSegments \union {Static(path[k])})
        BY <1>1, SeqMonotonic
    <2> QED
        BY <2>1, AppendedIsDeeper
<1>3. same \in ToSet(t.nodes)
    OBVIOUS
<1> HIDE DEF same
<1>4. same \in Seq(NodeSegments) /\ DOMAIN same = 1..k /\ Len(n) \in 0..Len(same)
    BY <1>1, <1>2, <1>3, NodesAreSequences
<1>5. \A i \in 1..Len(n) : n[i] = same[i]
    BY <1>2, <1>4, Start
<1>6. \A i \in 1..k : i = k \/ i \in 1..Len(n)
    BY <1>1
<1>7. \A i \in 1..k : same[i] = Static(path[i]) \/ same[i].kind = "param"
    BY <1>1, <1>2, <1>5, <1>6 DEF OnWay
<1>8. OnWay(same, path)
    BY <1>4, <1>7 DEF OnWay
<1> QED
    BY <1>2, <1>8 DEF same

(* One step of the search: where the children that were asked have their   *)
(* first fitting node, the node that asked has.                            *)
LEMMA VisitIsFirst ==
    ASSUME NEW t, Trie(t), NEW path \in Seq(STRING), NEW n \in ToSet(t.nodes),
           OnWay(n, path), Len(n) <= Len(path), NEW f,
           \A e \in ToSet(t.nodes) :
              Len(e) = Len(n) + 1 /\ Len(e) <= Len(path) /\ OnWay(e, path)
                 => IsFirst(t, path, e, f[e].node)
    PROVE  IsFirst(t, path, n, Visit(t, path, f, n).node)
<1> DEFINE k == Len(n) + 1
           same == Append(n, Static(path[k]))
           params == {c \in ParamChildren(t, n) : f[c].node # NoNode}
           wild == Append(n, Wildcard)
           found == Visit(t, path, f, n).node
<1>1. /\ n \in Seq(NodeSegments) /\ Len(n) \in Nat /\ DOMAIN n = 1..Len(n) /\ n # NoNode
      /\ Len(path) \in Nat /\ Len(t.nodes) \in Nat
    BY NodesAreSequences DEF Trie
<1>2. CASE Len(n) = Len(path)
    <2>1. found = n
        BY <1>2 DEF Visit, Found
    <2>2. n \in Below(t, path, n)
        <3>1. Matches(n, path)
            BY <1>1, <1>2 DEF Matches, OnWay
        <3> QED
            BY <1>1, <3>1, StartOfAll DEF Below
    <2>3. ASSUME NEW c \in Below(t, path, n) PROVE c = n
        <3>1. /\ c \in ToSet(t.nodes) /\ Matches(c, path)
              /\ Len(n) <= Len(c) /\ SubSeq(c, 1, Len(n)) = n
            BY DEF Below
        <3>2. c \in Seq(NodeSegments) /\ Len(c) \in Nat /\ Len(c) <= Len(path)
            BY <3>1, NodesAreSequences, MatchesIsShort
        <3>3. Len(c) = Len(n)
            BY <1>1, <1>2, <3>1, <3>2
        <3> QED
            BY <3>1, <3>2, <3>3, StartOfAll
    <2> QED
        BY <1>1, <2>1, <2>2, <2>3 DEF IsFirst
<1>3. CASE Len(n) < Len(path)
    <2>0. k <= Len(path) /\ k \in Nat
        BY <1>1, <1>3
    <2>1. found = IF same \in ToSet(t.nodes) /\ f[same].node # NoNode THEN f[same].node
                  ELSE IF params # {} THEN f[Earliest(t, params)].node
                  ELSE IF wild \in ToSet(t.nodes) THEN wild
                  ELSE NoNode
        BY <1>1, <1>3 DEF Visit, Found, DeadEnd
    <2> SUFFICES IsFirst(t, path, n, found)
        OBVIOUS
    <2> HIDE DEF found
    (* What is below a child e that was asked, and how it ranks.           *)
    <2>2. ASSUME NEW e \in ToSet(t.nodes), Len(e) = k, SubSeq(e, 1, Len(n)) = n, OnWay(e, path)
          PROVE  /\ IsFirst(t, path, e, f[e].node)
                 /\ f[e].node # NoNode => f[e].node \in Below(t, path, n)
                 /\ \A c \in Below(t, path, e) :
                      /\ c \in Below(t, path, n) /\ f[e].node # NoNode
                      /\ c \in ToSet(t.nodes) /\ k \in 1..Len(c) /\ Len(n) < Len(c)
                      /\ SubSeq(c, 1, k) = e /\ c[k] = e[k]
        <3>1. IsFirst(t, path, e, f[e].node)
            BY <2>0, <2>2
        <3>2. Len(n) <= Len(e)
            BY <1>1, <2>2
        <3>3. \A c \in Below(t, path, e) : c \in Below(t, path, n)
            BY <2>2, <3>2, BelowChild
        <3>4. ASSUME NEW c \in Below(t, path, e)
              PROVE  /\ c \in ToSet(t.nodes) /\ k \in 1..Len(c) /\ Len(n) < Len(c)
                     /\ SubSeq(c, 1, k) = e /\ c[k] = e[k]
            <4>1. c \in ToSet(t.nodes) /\ Len(e) <= Len(c) /\ SubSeq(c, 1, Len(e)) = e
                BY DEF Below
            <4>2. c \in Seq(NodeSegments) /\ Len(c) \in Nat
                BY <4>1, NodesAreSequences
            <4>3. k \in 1..Len(c) /\ k \in 0..Len(c) /\ k \in 1..k /\ Len(n) < Len(c)
                BY <1>1, <2>2, <4>1, <4>2
            <4>4. SubSeq(c, 1, k)[k] = c[k]
                BY <4>2, <4>3, Start
            <4> QED
                BY <2>2, <4>1, <4>3, <4>4
        <3> QED
            BY <3>1, <3>3, <3>4 DEF IsFirst
    <2>3. ASSUME NEW e \in ParamChildren(t, n)
          PROVE  e \in ToSet(t.nodes) /\ Len(e) = k /\ SubSeq(e, 1, Len(n)) = n /\ OnWay(e, path)
        BY ParamChildOnWay
    <2>4. ASSUME NEW c \in Below(t, path, n)
          PROVE  /\ c \in ToSet(t.nodes) /\ k \in 1..Len(c) /\ Len(n) < Len(c)
                 /\ \/ /\ same \in ToSet(t.nodes) /\ Len(same) = k /\ SubSeq(same, 1, Len(n)) = n
                       /\ OnWay(same, path) /\ c \in Below(t, path, same)
                       /\ c[k] = Static(path[k])
                    \/ \E e \in params : c \in Below(t, path, e) /\ SubSeq(c, 1, k) = e
                                         /\ c[k].kind = "param"
                    \/ c = wild /\ wild \in ToSet(t.nodes) /\ c[k] = Wildcard
        <3> DEFINE e == SubSeq(c, 1, k)
        <3>1. /\ k \in 1..Len(c) /\ e \in ToSet(t.nodes) /\ Len(e) = k
              /\ e[k] = c[k] /\ SubSeq(e, 1, Len(n)) = n
              /\ \/ /\ c[k] = Static(path[k])
                    /\ OnWay(e, path) /\ c \in Below(t, path, e) /\ e = same
                 \/ /\ c[k].kind = "param"
                    /\ OnWay(e, path) /\ c \in Below(t, path, e) /\ e \in ParamChildren(t, n)
                 \/ c[k] = Wildcard /\ c = e /\ e = wild
            BY <1>3, Branches
        <3>2. c \in ToSet(t.nodes) /\ Len(n) < Len(c)
            <4>1. c \in ToSet(t.nodes)
                BY DEF Below
            <4>2. Len(c) \in Nat
                BY <4>1, NodesAreSequences
            <4> QED
                BY <1>1, <3>1, <4>1, <4>2
        <3>3. c \in Below(t, path, e) /\ OnWay(e, path) => f[e].node # NoNode
            BY <2>2, <3>1
        <3> HIDE DEF e, same, wild, k
        <3>4. c \in Below(t, path, e) /\ OnWay(e, path) /\ e \in ParamChildren(t, n) => e \in params
            BY <3>3
        <3> HIDE DEF params
        <3> QED
            BY <3>1, <3>2, <3>4 DEF e
    <2>5. same \in ToSet(t.nodes) =>
             /\ Len(same) = k /\ SubSeq(same, 1, Len(n)) = n /\ OnWay(same, path)
             /\ same[k] = Static(path[k])
        BY SameChildOnWay
    <2>6. Static(path[k]).kind = "static" /\ 0 < Len(t.nodes) + 1
        BY <1>1 DEF Static
    <2> HIDE DEF k, same, params, wild
    <2>7. CASE same \in ToSet(t.nodes) /\ f[same].node # NoNode
        <3>1. found = f[same].node /\ found \in Below(t, path, same) /\ found \in Below(t, path, n)
              /\ IsFirst(t, path, same, found)
            BY <2>1, <2>2, <2>5, <2>7 DEF IsFirst
        <3>2. /\ found \in ToSet(t.nodes) /\ k \in 1..Len(found) /\ Len(n) < Len(found)
              /\ found[k] = same[k]
            BY <2>2, <2>5, <2>7, <3>1
        <3>3. Rank(t, found, k) = 0
            BY <2>5, <2>6, <2>7, <3>2, Ranks
        <3>4. ASSUME NEW c \in Below(t, path, n), c \notin Below(t, path, same)
              PROVE  Precedes(t, found, c)
            <4>1. /\ c \in ToSet(t.nodes) /\ k \in 1..Len(c) /\ Len(n) < Len(c)
                  /\ c[k].kind = "param" \/ c[k] = Wildcard
                BY <2>4, <3>4
            <4>2. Rank(t, found, k) < Rank(t, c, k)
                BY <1>1, <2>6, <3>3, <4>1, Ranks
            <4> QED
                BY <3>1, <3>2, <4>1, <4>2, LowerRankPrecedes DEF k
        <3> QED
            BY <2>7, <3>1, <3>4 DEF IsFirst
    <2>8. CASE ~(same \in ToSet(t.nodes) /\ f[same].node # NoNode) /\ params # {}
        <3> DEFINE e == Earliest(t, params)
        <3>1. e \in params /\ \A d \in params : Index(t, e) <= Index(t, d)
            <4>1. params \subseteq ToSet(t.nodes)
                BY <2>3 DEF params
            <4> QED
                BY <2>8, <4>1, EarliestIsFirst
        <3> HIDE DEF e
        <3>2. \A d \in params : /\ d \in ToSet(t.nodes) /\ d \in ParamChildren(t, n) /\ f[d].node # NoNode
                                /\ Len(d) = k /\ SubSeq(d, 1, Len(n)) = n /\ OnWay(d, path)
                                /\ d[k].kind = "param"
            BY <2>3, ParamChildrenAreDeeper DEF params, k
        <3>3. found = f[e].node /\ found \in Below(t, path, e) /\ found \in Below(t, path, n)
              /\ IsFirst(t, path, e, found)
            <4>1. found = f[e].node
                BY <2>1, <2>8 DEF e
            <4> QED
                BY <2>2, <3>1, <3>2, <4>1 DEF IsFirst
        <3>4. /\ found \in ToSet(t.nodes) /\ k \in 1..Len(found) /\ Len(n) < Len(found)
              /\ SubSeq(found, 1, k) = e /\ found[k] = e[k]
            BY <2>2, <3>1, <3>2, <3>3
        <3>5. Rank(t, found, k) = Index(t, e) /\ Rank(t, found, k) \in 1..Len(t.nodes)
            BY <3>1, <3>2, <3>4, Ranks
        <3>6. ASSUME NEW c \in Below(t, path, n), c \notin Below(t, path, e)
              PROVE  Precedes(t, found, c)
            <4>1. /\ c \in ToSet(t.nodes) /\ k \in 1..Len(c) /\ Len(n) < Len(c)
                  /\ \/ \E d \in params : c \in Below(t, path, d) /\ SubSeq(c, 1, k) = d
                                            /\ c[k].kind = "param"
                     \/ c[k] = Wildcard
                BY <2>2, <2>4, <2>8
            <4>2. ASSUME NEW d \in params, c \in Below(t, path, d), SubSeq(c, 1, k) = d,
                         c[k].kind = "param"
                  PROVE  Rank(t, found, k) < Rank(t, c, k)
                <5>1. d # e
                    BY <3>6, <4>2
                <5>2. Index(t, e) # Index(t, d) /\ Index(t, e) \in Nat /\ Index(t, d) \in Nat
                    BY <1>1, <3>1, <3>2, <5>1, IndexIsPosition
                <5>3. Index(t, e) <= Index(t, d)
                    BY <3>1
                <5>4. Rank(t, c, k) = Index(t, d)
                    BY <4>1, <4>2, Ranks
                <5> QED
                    BY <3>5, <5>2, <5>3, <5>4
            <4>3. c[k] = Wildcard => Rank(t, found, k) < Rank(t, c, k)
                BY <1>1, <3>5, <4>1, Ranks
            <4>4. Rank(t, found, k) < Rank(t, c, k)
                BY <4>1, <4>2, <4>3
            <4> QED
                BY <3>3, <3>4, <4>1, <4>4, LowerRankPrecedes DEF k
        <3>7. found # NoNode
            BY <3>4, NodesAreSequences
        <3> QED
            BY <3>3, <3>6, <3>7 DEF IsFirst
    <2>9. CASE ~(same \in ToSet(t.nodes) /\ f[same].node # NoNode) /\ params = {}
        <3>1. \A c \in Below(t, path, n) : c = wild /\ wild \in ToSet(t.nodes)
            BY <2>2, <2>4, <2>9
        <3>2. CASE wild \in ToSet(t.nodes)
            <4>1. found = wild /\ wild # NoNode
                BY <2>1, <2>9, <3>2, NodesAreSequences
            <4>2. wild \in Below(t, path, n)
                <5>1. /\ Len(wild) = k /\ SubSeq(wild, 1, Len(n)) = n /\ wild[k] = Wildcard
                    BY <1>1, SegmentsOfNodes, AppendedIsDeeper DEF wild, k
                <5>2. wild \in Seq(NodeSegments) /\ DOMAIN wild = 1..k /\ Len(n) \in 0..Len(wild)
                    BY <1>1, <3>2, <5>1, NodesAreSequences DEF k
                <5>3. \A i \in 1..Len(n) : n[i] = wild[i]
                    BY <5>1, <5>2, Start
                <5>4. \A i \in 1..k : i = k \/ i \in 1..Len(n)
                    BY <1>1 DEF k
                <5>5. \A i \in 1..k : \/ wild[i] = Static(path[i]) \/ wild[i].kind = "param"
                                      \/ wild[i] = Wildcard /\ i = k
                    BY <1>1, <5>1, <5>3, <5>4 DEF OnWay
                <5>6. wild # Root /\ Last(wild) = Wildcard
                    BY <1>1, <5>1 DEF Root, Last, k
                <5>7. Matches(wild, path)
                    BY <2>0, <5>1, <5>2, <5>5, <5>6 DEF Matches
                <5>8. Len(n) <= Len(wild)
                    BY <1>1, <5>1 DEF k
                <5> QED
                    BY <3>2, <5>1, <5>7, <5>8 DEF Below
            <4> QED
                BY <3>1, <4>1, <4>2 DEF IsFirst
        <3>3. CASE wild \notin ToSet(t.nodes)
            BY <2>1, <2>9, <3>1, <3>3 DEF IsFirst
        <3> QED
            BY <3>2, <3>3
    <2> QED
        BY <2>7, <2>8, <2>9
<1> QED
    BY <1>1, <1>2, <1>3

LEMMA SearchIsFirst ==
    ASSUME NEW t, Trie(t), NEW path \in Seq(STRING)
    PROVE  \A n \in ToSet(t.nodes) :
              OnWay(n, path) /\ Len(n) <= Len(path) => IsFirst(t, path, n, Search(t, path)[n].node)
<1> DEFINE f == Search(t, path)
           wrong(n) == OnWay(n, path) /\ Len(n) <= Len(path) /\ ~IsFirst(t, path, n, f[n].node)
           bad == {Len(path) - Len(n) : n \in {n \in ToSet(t.nodes) : wrong(n)}}
<1>1. Len(path) \in Nat /\ \A n \in ToSet(t.nodes) : Len(n) \in Nat
    BY NodesAreSequences
<1>2. bad \subseteq Nat
    BY <1>1
<1>3. bad = {}
    <2> SUFFICES ASSUME bad # {} PROVE FALSE
        OBVIOUS
    <2>1. PICK d \in bad : \A x \in bad : d <= x
        <3> HIDE DEF bad
        <3> QED
            BY <1>2, Least
    <2>2. PICK n \in ToSet(t.nodes) : wrong(n) /\ d = Len(path) - Len(n)
        BY <2>1
    <2>3. ASSUME NEW e \in ToSet(t.nodes), Len(e) = Len(n) + 1, Len(e) <= Len(path), OnWay(e, path)
          PROVE  IsFirst(t, path, e, f[e].node)
        <3>1. Len(path) - Len(e) < d
            BY <1>1, <2>2, <2>3
        <3>2. Len(path) - Len(e) \notin bad
            <4> HIDE DEF bad
            <4> QED
                BY <1>1, <1>2, <2>1, <3>1
        <3> QED
            BY <2>3, <3>2
    <2>4. f[n] = Visit(t, path, f, n)
        BY <2>2, SearchEquation
    <2> HIDE DEF f
    <2>5. IsFirst(t, path, n, Visit(t, path, f, n).node)
        BY <2>2, <2>3, VisitIsFirst
    <2> QED
        BY <2>2, <2>4, <2>5
<1> QED
    BY <1>3

(* The search starts at a node that is on the way to everything.           *)
LEMMA RootIsOnWay ==
    ASSUME NEW t, Trie(t), NEW path \in Seq(STRING)
    PROVE  Root \in ToSet(t.nodes) /\ OnWay(Root, path) /\ Len(Root) = 0 /\ Len(Root) <= Len(path)
<1>1. Root \in ToSet(t.nodes)
    BY DEF Trie
<1>2. DOMAIN Root = {} /\ Len(Root) = 0
    BY DEF Root
<1> QED
    BY <1>1, <1>2 DEF OnWay

(* The search finds a node if some node has the path, and the first of     *)
(* those in precedence order.                                              *)
THEOREM FindNodeIsFirst ==
    ASSUME NEW t, Trie(t), NEW path \in Seq(STRING)
    PROVE  LET found == FindNode(t, path)
               fitting == {n \in ToSet(t.nodes) : Matches(n, path)}
           IN  /\ found = NoNode <=> fitting = {}
               /\ found # NoNode => found \in fitting
               /\ \A n \in fitting : n = found \/ Precedes(t, found, n)
<1>1. ASSUME NEW n \in ToSet(t.nodes) PROVE Len(Root) <= Len(n) /\ SubSeq(n, 1, Len(Root)) = Root
    <2>1. Len(n) \in Nat /\ Len(Root) = 0
        BY NodesAreSequences DEF Root
    <2>2. SubSeq(n, 1, 0) = <<>>
        BY SubSeqEmpty
    <2> QED
        BY <2>1, <2>2 DEF Root
<1>2. Below(t, path, Root) = {n \in ToSet(t.nodes) : Matches(n, path)}
    BY <1>1 DEF Below
<1>3. IsFirst(t, path, Root, FindNode(t, path))
    BY RootIsOnWay, SearchIsFirst DEF FindNode
<1> QED
    BY <1>2, <1>3 DEF IsFirst

-----------------------------------------------------------------------------
(* The parameters.  What the search captures from a place of the pattern   *)
(* on, by the kind of the segment there.                                   *)

LEMMA BindersFrom ==
    ASSUME NEW t, Trie(t), NEW c \in ToSet(t.nodes), NEW a \in 1..Len(c)
    PROVE  /\ c[a].kind = "static" => Binders(c, a) = Binders(c, a + 1)
           /\ c[a].kind # "static" => Binders(c, a) = Binders(c, a + 1) \union {a}
           /\ \A k \in Binders(c, a + 1) : k > a
<1>1. Len(c) \in Nat /\ DOMAIN c = 1..Len(c)
    BY NodesAreSequences
<1>2. \A k \in DOMAIN c : (k >= a <=> k >= a + 1 \/ k = a) /\ (k >= a + 1 => k > a)
    BY <1>1
<1> QED
    BY <1>1, <1>2 DEF Binders

LEMMA CapturesNothing ==
    ASSUME NEW t, Trie(t), NEW c \in ToSet(t.nodes), NEW path
    PROVE  Captures(c, path, Len(c) + 1, NoParams)
<1>1. Len(c) \in Nat /\ DOMAIN c = 1..Len(c)
    BY NodesAreSequences
<1>2. Binders(c, Len(c) + 1) = {}
    BY <1>1 DEF Binders
<1>3. DOMAIN NoParams = {}
    BY DEF NoParams
<1> QED
    BY <1>2, <1>3 DEF Captures

LEMMA CapturesPastStatic ==
    ASSUME NEW t, Trie(t), NEW c \in ToSet(t.nodes), NEW a \in 1..Len(c), c[a].kind = "static",
           NEW path, NEW params, Captures(c, path, a + 1, params)
    PROVE  Captures(c, path, a, params)
BY BindersFrom DEF Captures

LEMMA CapturesPiece ==
    ASSUME NEW t, Trie(t), NEW c \in ToSet(t.nodes), NEW a \in 1..Len(c), c[a].kind # "static",
           NEW path, NEW deeper, Captures(c, path, a + 1, deeper), NEW piece,
           piece = IF c[a] = Wildcard THEN SubSeq(path, a, Len(path)) ELSE <<path[a]>>
    PROVE  Captures(c, path, a, Bind(c[a].name, piece, deeper))
<1> DEFINE params == Bind(c[a].name, piece, deeper)
           later == Binders(c, a + 1)
           taken(k) == IF c[k] = Wildcard THEN SubSeq(path, k, Len(path)) ELSE <<path[k]>>
<1>1. /\ Binders(c, a) = later \union {a}
      /\ \A k \in later : k > a
      /\ later \subseteq Nat /\ a \in Nat
    BY BindersFrom, NodesAreSequences DEF Binders
<1>2. /\ DOMAIN deeper = {c[k].name : k \in later}
      /\ \A k \in later :
            (\A j \in later : c[j].name = c[k].name => j <= k) => deeper[c[k].name] = taken(k)
    BY DEF Captures
<1>3. /\ DOMAIN params = DOMAIN deeper \union {c[a].name}
      /\ \A x \in DOMAIN params : params[x] = IF x \in DOMAIN deeper THEN deeper[x] ELSE piece
    BY DEF Bind
<1>4. piece = taken(a)
    OBVIOUS
<1> HIDE DEF later, params, taken
<1>5. DOMAIN params = {c[k].name : k \in later \union {a}}
    BY <1>2, <1>3
<1>6. ASSUME NEW k \in later \union {a},
             \A j \in later \union {a} : c[j].name = c[k].name => j <= k
      PROVE  params[c[k].name] = taken(k)
    <2>1. CASE k \in later
        <3>1. deeper[c[k].name] = taken(k) /\ c[k].name \in DOMAIN deeper
            BY <1>2, <1>6, <2>1
        <3> QED
            BY <1>3, <3>1
    <2>2. CASE k \notin later
        <3>1. k = a
            BY <2>2
        <3>2. \A j \in later : c[j].name # c[a].name
            BY <1>1, <1>6, <3>1
        <3>3. c[a].name \notin DOMAIN deeper
            BY <1>2, <3>2
        <3> QED
            BY <1>3, <1>4, <3>1, <3>3
    <2> QED
        BY <2>1, <2>2
<1> QED
    BY <1>1, <1>5, <1>6 DEF Captures, params, taken

(* One step of the search: where the children that were asked captured     *)
(* what is theirs, the node that asked has.                                *)
CapturesBelow(t, path, n, found) ==
    found.node # NoNode => Captures(found.node, path, Len(n) + 1, found.params)

LEMMA VisitCaptures ==
    ASSUME NEW t, Trie(t), NEW path \in Seq(STRING), NEW n \in ToSet(t.nodes),
           OnWay(n, path), Len(n) <= Len(path), NEW f,
           \A e \in ToSet(t.nodes) :
              Len(e) = Len(n) + 1 /\ Len(e) <= Len(path) /\ OnWay(e, path)
                 => IsFirst(t, path, e, f[e].node) /\ CapturesBelow(t, path, e, f[e])
    PROVE  CapturesBelow(t, path, n, Visit(t, path, f, n))
<1> DEFINE k == Len(n) + 1
           same == Append(n, Static(path[k]))
           params == {c \in ParamChildren(t, n) : f[c].node # NoNode}
           first == Earliest(t, params)
           wild == Append(n, Wildcard)
           found == Visit(t, path, f, n)
<1>1. n \in Seq(NodeSegments) /\ Len(n) \in Nat /\ Len(path) \in Nat
    BY NodesAreSequences
<1>2. CASE Len(n) = Len(path)
    <2>1. found = Found(n, NoParams)
        BY <1>2 DEF Visit
    <2>2. found.node = n /\ found.params = NoParams
        BY <2>1 DEF Found
    <2> QED
        BY <2>2, CapturesNothing DEF CapturesBelow
<1>3. CASE Len(n) < Len(path)
    <2>0. k <= Len(path) /\ k \in Nat
        BY <1>1, <1>3
    (* What a child has found goes on from the child.                      *)
    <2>1. ASSUME NEW e \in ToSet(t.nodes), Len(e) = k, OnWay(e, path), f[e].node # NoNode
          PROVE  /\ f[e].node \in ToSet(t.nodes) /\ k \in 1..Len(f[e].node)
                 /\ f[e].node[k] = e[k]
                 /\ Captures(f[e].node, path, k + 1, f[e].params)
        <3>1. IsFirst(t, path, e, f[e].node) /\ CapturesBelow(t, path, e, f[e])
            BY <2>0, <2>1
        <3>2. f[e].node \in Below(t, path, e) /\ Captures(f[e].node, path, k + 1, f[e].params)
            BY <2>1, <3>1 DEF IsFirst, CapturesBelow
        <3> DEFINE c == f[e].node
        <3>3. c \in ToSet(t.nodes) /\ k <= Len(c) /\ SubSeq(c, 1, k) = e
            BY <2>1, <3>2 DEF Below
        <3> HIDE DEF c
        <3>4. c \in Seq(NodeSegments) /\ Len(c) \in Nat
            BY <3>3, NodesAreSequences
        <3>5. k \in 1..Len(c) /\ k \in 0..Len(c) /\ k \in 1..k
            BY <1>1, <3>3, <3>4
        <3>6. SubSeq(c, 1, k)[k] = c[k]
            BY <3>4, <3>5, Start
        <3> QED
            BY <3>2, <3>3, <3>5, <3>6 DEF c
    <2>2. found = IF same \in ToSet(t.nodes) /\ f[same].node # NoNode THEN f[same]
                  ELSE IF params # {}
                  THEN Found(f[first].node, Bind(Last(first).name, <<path[k]>>, f[first].params))
                  ELSE IF wild \in ToSet(t.nodes)
                  THEN Found(wild, Bind("*", SubSeq(path, k, Len(path)), NoParams))
                  ELSE DeadEnd
        BY <1>1, <1>3 DEF Visit
    <2> SUFFICES CapturesBelow(t, path, n, found)
        OBVIOUS
    <2> HIDE DEF found
    <2>3. CASE same \in ToSet(t.nodes) /\ f[same].node # NoNode
        <3>1. found = f[same]
            BY <2>2, <2>3
        <3>2. Len(same) = k /\ OnWay(same, path) /\ same[k] = Static(path[k])
            BY <2>3, SameChildOnWay
        <3> HIDE DEF same
        <3>3. /\ f[same].node \in ToSet(t.nodes) /\ k \in 1..Len(f[same].node)
              /\ f[same].node[k].kind = "static"
              /\ Captures(f[same].node, path, k + 1, f[same].params)
            BY <2>1, <2>3, <3>2 DEF Static
        <3>4. Captures(f[same].node, path, k, f[same].params)
            BY <3>3, CapturesPastStatic
        <3> QED
            BY <3>1, <3>4 DEF CapturesBelow
    <2>4. CASE ~(same \in ToSet(t.nodes) /\ f[same].node # NoNode) /\ params # {}
        <3>1. first \in params
            <4>1. params \subseteq ToSet(t.nodes)
                BY DEF ParamChildren
            <4> QED
                BY <2>4, <4>1, EarliestIsFirst
        <3>2. found = Found(f[first].node, Bind(Last(first).name, <<path[k]>>, f[first].params))
            BY <2>2, <2>4
        <3> HIDE DEF first, same, wild
        <3>3. first \in ParamChildren(t, n) /\ f[first].node # NoNode
            BY <3>1
        <3> HIDE DEF params
        <3>4. /\ first \in ToSet(t.nodes) /\ Len(first) = k /\ OnWay(first, path)
              /\ first[k].kind = "param"
            BY <3>3, ParamChildOnWay
        <3>5. Last(first) = first[k]
            BY <3>4 DEF Last
        <3>6. /\ f[first].node \in ToSet(t.nodes) /\ k \in 1..Len(f[first].node)
              /\ f[first].node[k] = first[k]
              /\ Captures(f[first].node, path, k + 1, f[first].params)
            BY <2>1, <3>3, <3>4
        <3>7. first[k].kind # "static" /\ first[k] # Wildcard
            BY <3>4 DEF Wildcard
        <3>8. Captures(f[first].node, path, k, Bind(first[k].name, <<path[k]>>, f[first].params))
            <4> HIDE DEF k
            <4>1. <<path[k]>> = IF f[first].node[k] = Wildcard THEN SubSeq(path, k, Len(path))
                                                              ELSE <<path[k]>>
                BY <3>6, <3>7
            <4>2. f[first].node[k].kind # "static"
                BY <3>6, <3>7
            <4>3. Captures(f[first].node, path, k, Bind(f[first].node[k].name, <<path[k]>>, f[first].params))
                BY <3>6, <4>1, <4>2, CapturesPiece
            <4> QED
                BY <3>6, <4>3
        <3> QED
            BY <3>2, <3>5, <3>8 DEF CapturesBelow, Found
    <2>5. CASE ~(same \in ToSet(t.nodes) /\ f[same].node # NoNode) /\ params = {}
        <3>1. CASE wild \in ToSet(t.nodes)
            <4>1. found = Found(wild, Bind("*", SubSeq(path, k, Len(path)), NoParams))
                BY <2>2, <2>5, <3>1
            <4>2. Len(wild) = k /\ wild[k] = Wildcard
                BY <1>1, SegmentsOfNodes, AppendedIsDeeper
            <4> HIDE DEF wild
            <4>3. Captures(wild, path, k + 1, NoParams)
                BY <3>1, <4>2, CapturesNothing
            <4>4. k \in 1..Len(wild) /\ wild[k].kind # "static" /\ wild[k].name = "*"
                BY <1>1, <4>2 DEF Wildcard
            <4>5. Captures(wild, path, k, Bind("*", SubSeq(path, k, Len(path)), NoParams))
                <5> HIDE DEF k
                <5>1. Captures(wild, path, k, Bind(wild[k].name, SubSeq(path, k, Len(path)), NoParams))
                    BY <3>1, <4>2, <4>3, <4>4, CapturesPiece
                <5> QED
                    BY <4>4, <5>1
            <4> QED
                BY <4>1, <4>5 DEF CapturesBelow, Found
        <3>2. CASE wild \notin ToSet(t.nodes)
            BY <2>2, <2>5, <3>2 DEF CapturesBelow, DeadEnd, Found
        <3> QED
            BY <3>1, <3>2
    <2> QED
        BY <2>3, <2>4, <2>5
<1> QED
    BY <1>1, <1>2, <1>3

(* The handler is given the parameters of its own pattern, each with what  *)
(* the path has at its place, and no other: nothing is left of the         *)
(* branches the search gave up.                                            *)
THEOREM ParamsOfSearch ==
    ASSUME NEW t, Trie(t), NEW path \in Seq(STRING), FindNode(t, path) # NoNode
    PROVE  Captures(FindNode(t, path), path, 1, PathParams(t, path))
<1> DEFINE f == Search(t, path)
           wrong(n) == OnWay(n, path) /\ Len(n) <= Len(path) /\ ~CapturesBelow(t, path, n, f[n])
           bad == {Len(path) - Len(n) : n \in {n \in ToSet(t.nodes) : wrong(n)}}
<1>1. Len(path) \in Nat /\ \A n \in ToSet(t.nodes) : Len(n) \in Nat
    BY NodesAreSequences
<1>2. bad \subseteq Nat
    BY <1>1
<1>3. bad = {}
    <2> SUFFICES ASSUME bad # {} PROVE FALSE
        OBVIOUS
    <2>1. PICK d \in bad : \A x \in bad : d <= x
        <3> HIDE DEF bad
        <3> QED
            BY <1>2, Least
    <2>2. PICK n \in ToSet(t.nodes) : wrong(n) /\ d = Len(path) - Len(n)
        BY <2>1
    <2>3. ASSUME NEW e \in ToSet(t.nodes), Len(e) = Len(n) + 1, Len(e) <= Len(path), OnWay(e, path)
          PROVE  IsFirst(t, path, e, f[e].node) /\ CapturesBelow(t, path, e, f[e])
        <3>1. Len(path) - Len(e) < d
            BY <1>1, <2>2, <2>3
        <3>2. Len(path) - Len(e) \notin bad
            <4> HIDE DEF bad
            <4> QED
                BY <1>1, <1>2, <2>1, <3>1
        <3> QED
            BY <2>3, <3>2, SearchIsFirst
    <2>4. f[n] = Visit(t, path, f, n)
        BY <2>2, SearchEquation
    <2> HIDE DEF f
    <2>5. CapturesBelow(t, path, n, Visit(t, path, f, n))
        BY <2>2, <2>3, VisitCaptures
    <2> QED
        BY <2>2, <2>4, <2>5
<1>4. CapturesBelow(t, path, Root, f[Root])
    BY <1>3, RootIsOnWay
<1> QED
    BY <1>4, RootIsOnWay DEF CapturesBelow, FindNode, PathParams
-----------------------------------------------------------------------------
(* split_path() gives a sequence of pieces.                                *)
LEMMA SplitPathIsSequence ==
    ASSUME NEW raw \in Seq(STRING)
    PROVE  SplitPath(raw) \in Seq(STRING)
<1> DEFINE step(g, k) == IF k = 0 THEN <<>>
                         ELSE IF raw[k] = "" THEN g[k - 1]
                         ELSE Append(g[k - 1], raw[k])
           solves(g, d) == g \in [0..d -> Seq(STRING)] /\ g = [k \in 0..d |-> step(g, k)]
           bad == {d \in 0..Len(raw) : ~ \E g : solves(g, d)}
<1>1. Len(raw) \in Nat /\ \A k \in 1..Len(raw) : raw[k] \in STRING
    BY ElementOfSeq
<1>2. \E g : solves(g, 0)
    <2> DEFINE g == [k \in 0..0 |-> <<>>]
    <2>1. solves(g, 0)
        OBVIOUS
    <2> QED
        BY <2>1
<1>3. ASSUME NEW d \in Nat, d + 1 <= Len(raw), NEW g, solves(g, d) PROVE \E h : solves(h, d + 1)
    <2> DEFINE h == [k \in 0..(d + 1) |-> step(g, k)]
    <2>0. Len(raw) \in Nat /\ d + 1 <= Len(raw) /\ g \in [0..d -> Seq(STRING)]
        BY <1>1, <1>3
    <2>1. \A k \in 0..(d + 1) : k = 0 \/ (k - 1 \in 0..d /\ k \in 1..Len(raw))
        BY <2>0
    <2>2. ASSUME NEW k \in 0..(d + 1) PROVE step(g, k) \in Seq(STRING)
        <3>1. CASE k = 0
            BY <3>1
        <3>2. CASE k - 1 \in 0..d /\ k \in 1..Len(raw)
            <4>1. g[k - 1] \in Seq(STRING) /\ raw[k] \in STRING /\ k # 0
                BY <1>1, <2>0, <3>2
            <4>2. Append(g[k - 1], raw[k]) \in Seq(STRING)
                BY <4>1, AppendProperties
            <4> QED
                BY <4>1, <4>2
        <3> QED
            BY <2>1, <3>1, <3>2
    <2>3. \A k \in 0..d : h[k] = g[k]
        <3> HIDE DEF step
        <3>1. g = [k \in 0..d |-> step(g, k)]
            BY <1>3
        <3>2. \A k \in 0..d : k \in 0..(d + 1)
            OBVIOUS
        <3> QED
            BY <3>1, <3>2
    <2>4. \A k \in 0..(d + 1) : step(g, k) = step(h, k)
        <3> HIDE DEF h
        <3> QED
            BY <2>1, <2>3
    <2>5. solves(h, d + 1)
        <3> HIDE DEF step
        <3> QED
            BY <2>2, <2>4
    <2> QED
        BY <2>5
<1>4. bad = {}
    <2> SUFFICES ASSUME bad # {} PROVE FALSE
        OBVIOUS
    <2> HIDE DEF solves
    <2>1. bad \subseteq Nat
        BY <1>1
    <2>2. PICK d \in bad : \A x \in bad : d <= x
        <3> HIDE DEF bad
        <3> QED
            BY <2>1, Least
    <2>3. d # 0
        BY <1>2, <2>2
    <2>4. d \in 1..Len(raw) /\ d - 1 \in 0..Len(raw) /\ d - 1 < d /\ (d - 1) + 1 = d
        BY <1>1, <2>2, <2>3
    <2>5. PICK g : solves(g, d - 1)
        <3>1. d - 1 \notin bad
            <4> HIDE DEF bad
            <4> QED
                BY <1>1, <2>1, <2>2, <2>4
        <3> QED
            BY <2>4, <3>1
    <2>6. \E h : solves(h, d)
        BY <1>1, <1>3, <2>4, <2>5
    <2> QED
        BY <2>2, <2>6
<1>5. \E g : g = [k \in 0..Len(raw) |-> step(g, k)]
    <2>1. \E g : solves(g, Len(raw))
        <3> HIDE DEF solves
        <3> QED
            BY <1>1, <1>4
    <2> QED
        BY <2>1
<1>6. PICK out : /\ out = CHOOSE g : g = [k \in 0..Len(raw) |-> step(g, k)]
                 /\ out = [k \in 0..Len(raw) |-> step(out, k)]
    BY <1>5
<1> DEFINE odd == {k \in 0..Len(raw) : out[k] \notin Seq(STRING)}
<1>7. odd = {}
    <2> SUFFICES ASSUME odd # {} PROVE FALSE
        OBVIOUS
    <2>1. odd \subseteq Nat
        BY <1>1
    <2>2. PICK k \in odd : \A x \in odd : k <= x
        <3> HIDE DEF odd
        <3> QED
            BY <2>1, Least
    <2>3. k \in 0..Len(raw)
        OBVIOUS
    <2>a. out[k] = step(out, k)
        <3> HIDE DEF step
        <3> QED
            BY <1>6, <2>3
    <2>4. CASE k = 0
        <3>1. out[k] \in Seq(STRING)
            BY <2>4, <2>a, EmptySeq
        <3>2. out[k] \notin Seq(STRING)
            OBVIOUS
        <3> QED
            BY <3>1, <3>2
    <2>5. CASE k > 0
        <3>1. k - 1 \in 0..Len(raw) /\ k \in 1..Len(raw) /\ k - 1 < k
            BY <1>1, <2>3, <2>5
        <3>2. k - 1 \notin odd
            <4> HIDE DEF odd
            <4> QED
                BY <1>1, <2>1, <2>2, <3>1
        <3>3. out[k - 1] \in Seq(STRING) /\ raw[k] \in STRING
            BY <1>1, <3>1, <3>2
        <3>4. Append(out[k - 1], raw[k]) \in Seq(STRING)
            BY <3>3, AppendProperties
        <3>5. out[k] = out[k - 1] \/ out[k] = Append(out[k - 1], raw[k])
            <4>1. k # 0
                BY <1>1, <3>1
            <4> QED
                BY <4>1, <2>a, Zenon
        <3>6. out[k] \notin Seq(STRING)
            OBVIOUS
        <3> QED
            BY <3>3, <3>4, <3>5, <3>6
    <2> QED
        BY <2>1, <2>2, <2>4, <2>5
<1>8. out[Len(raw)] \in Seq(STRING)
    BY <1>1, <1>7
<1> QED
    BY <1>6, <1>8 DEF SplitPath
=============================================================================
