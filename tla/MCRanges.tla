-------------------------------- MODULE MCRanges --------------------------------
(***************************************************************************)
(* The calls that TLC makes: every pair of ranges over a few bounds, lists *)
(* of segments in any order, ranges with the versions to simplify them for.*)
(***************************************************************************)
EXTENDS RangesProperties

Segments == {s \in Segment : ValidSegment(s.start, s.end)}

\* The ranges of up to n segments.
RangesUpTo[n \in Nat] ==
    IF n = 0 THEN {Empty}
    ELSE RangesUpTo[n - 1] \cup
         {r \in {Append(q, s) : q \in RangesUpTo[n - 1], s \in Segments} : WellFormed(r)}

AllRanges == RangesUpTo[Cardinality(BoundVersions) + 1]

Family(ops, lefts, rights, versionLists) ==
    [ops |-> ops, lefts |-> lefts, rights |-> rights, versions |-> versionLists]

PairCalls ==
    {Family({"union", "intersection", "is_disjoint", "subset_of"}, AllRanges, AllRanges, {<< >>}),
     Family({"complement"}, AllRanges, {Empty}, {<< >>})}

\* A range and one more segment, to be inserted anywhere in it or skipped.
InsertCalls ==
    {Family({"from_iter"}, {Append(l, s) : l \in AllRanges, s \in Segment}, {Empty}, {<< >>})}

\* The lists of versions in order, up to n.
SortedUpTo[n \in Nat] ==
    IF n = 0 THEN {<< >>} ELSE SortedUpTo[n - 1] \cup {Append(l, n) : l \in SortedUpTo[n - 1]}

\* Versions in order; two versions, sorted or not.
SortedLists == SortedUpTo[Cardinality(Versions)]
ShortLists  == [1 .. 2 -> Versions]

SimplifyCalls == {Family({"simplify"}, AllRanges, {Empty}, SortedLists \cup ShortLists)}

UnsortedCalls == {Family({"simplify"}, AllRanges, {Empty}, ShortLists)}

AllCalls == PairCalls \cup InsertCalls \cup SimplifyCalls

\* The ranges that the constructors make, for any bounds.
Constructed ==
    {Empty, Full}
    \cup {c : c \in UNION {{HigherThan(v), StrictlyHigherThan(v), LowerThan(v),
                            StrictlyLowerThan(v), Singleton(v)} : v \in BoundVersions}}
    \cup {FromRangeBounds(s.start, s.end) : s \in Segment}

BetweenCalls ==
    {Family({"intersection"}, {Between(v1, v2) : v1 \in BoundVersions, v2 \in BoundVersions},
           Constructed, {<< >>})}
=================================================================================
