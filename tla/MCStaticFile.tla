---------------------------- MODULE MCStaticFile ----------------------------
(***************************************************************************)
(* StaticFile for TLC: every kind of path, and every kind of range that    *)
(* the ends of a file of at most two bytes tell apart.                     *)
(***************************************************************************)
EXTENDS StaticFile, TLC

Served(collected, buffered, debug) ==
    [collected |-> collected, buffered |-> buffered, debug |-> debug]

(* Plain; under mini-unified; with a transform; html in a debug build.     *)
AllServers ==
    {Served(FALSE, FALSE, FALSE), Served(TRUE, FALSE, FALSE),
     Served(FALSE, TRUE, FALSE), Served(TRUE, TRUE, TRUE)}

Spec1(first, last) == [first |-> first, last |-> last]
InUnit(unit, specs) == {[unit |-> unit, specs |-> specs]}

RangeHeaders ==
    {InUnit("bytes", <<Spec1({0}, {0})>>), InUnit("bytes", <<Spec1({1}, {})>>),
     InUnit("bytes", <<Spec1({1}, {2})>>), InUnit("bytes", <<Spec1({}, {1})>>),
     InUnit("bytes", <<Spec1({}, {3})>>), InUnit("bytes", <<Spec1({}, {0})>>),
     InUnit("bytes", <<Spec1({1}, {0})>>), InUnit("bytes", <<Spec1({0}, {4})>>),
     InUnit("bytes", <<Spec1({}, {})>>), InUnit("items", <<Spec1({0}, {0})>>),
     InUnit("bytes", <<Spec1({0}, {0}), Spec1({1}, {1})>>)}

For(p, h, c) == [path |-> p, range |-> h, condition |-> c]

FromByte1 == InUnit("bytes", <<Spec1({1}, {})>>)

MCRequests ==
    {For("file", h, "none") : h \in RangeHeaders}
        \cup {For("file", {}, c) : c \in {"none", "star", "tag", "date", "both"}}
        \cup {For("file", FromByte1, c) : c \in {"tag", "both"}}
        \cup {For(p, {}, "none") : p \in {"directory", "empty", "dots", "outside", "custom"}}

Symmetry == Permutations(Inodes)
=============================================================================
