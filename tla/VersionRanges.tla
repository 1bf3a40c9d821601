---------------------------- MODULE VersionRanges ----------------------------
(***************************************************************************)
(* Sets of versions as sorted segments (Ranges, version-ranges/src/lib.rs):*)
(* the comparisons of bounds and the operations that are not loops.        *)
(*                                                                         *)
(* The versions a bound may name are some of the versions.  Ranges are     *)
(* meant for orders that have versions between any two bounds, below and   *)
(* above them; nothing here depends on it but the properties that say so.  *)
(***************************************************************************)
EXTENDS Integers, Sequences

CONSTANTS
    Versions,
    BoundVersions    \* the versions that occur in bounds

ASSUME VersionsAssumption == Versions \subseteq Int /\ BoundVersions \subseteq Versions

Included(v) == [kind |-> "Included", at |-> v]
Excluded(v) == [kind |-> "Excluded", at |-> v]
Unbounded   == [kind |-> "Unbounded", at |-> 0]

Bound == [kind : {"Included", "Excluded"}, at : BoundVersions] \cup {Unbounded}

IsUnbounded(b) == b.kind = "Unbounded"
IsIncluded(b)  == b.kind = "Included"

Segment     == [start : Bound, end : Bound]
Seg(s, e)   == [start |-> s, end |-> e]

-----------------------------------------------------------------------------
(* Comparisons of bounds *)

\* At least one version fits between start and end.
ValidSegment(start, end) ==
    \/ IsUnbounded(start) \/ IsUnbounded(end)
    \/ start.at < end.at
    \/ start.at = end.at /\ IsIncluded(start) /\ IsIncluded(end)

\* The end of a segment leaves a gap before the start of another.
EndBeforeStartWithGap(end, start) ==
    /\ ~IsUnbounded(end) /\ ~IsUnbounded(start)
    /\ \/ end.at < start.at
       \/ end.at = start.at /\ ~IsIncluded(end) /\ ~IsIncluded(start)

LeftStartIsSmaller(left, right) ==
    \/ IsUnbounded(left)
    \/ /\ ~IsUnbounded(right)
       /\ \/ left.at < right.at
          \/ left.at = right.at /\ (IsIncluded(left) \/ ~IsIncluded(right))

\* Mutant: an included end counts as smaller than the same end excluded.
LeftEndIsSmallerByVersion(left, right) ==
    IsUnbounded(right) \/ (~IsUnbounded(left) /\ left.at <= right.at)

LeftEndIsSmaller(left, right) ==
    \/ IsUnbounded(right)
    \/ /\ ~IsUnbounded(left)
       /\ \/ left.at < right.at
          \/ left.at = right.at /\ (~IsIncluded(left) \/ IsIncluded(right))

\* Ordering, as a number.
Less    == -1
Equal   == 0
Greater == 1

CmpVersions(v1, v2) == IF v1 < v2 THEN Less ELSE IF v1 = v2 THEN Equal ELSE Greater

\* Where an unbounded bound is, and the order of bounds at the same version,
\* depends on the side.
CmpBounds(left, right, unbounded, included) ==
    IF left = right THEN Equal
    ELSE IF IsUnbounded(left)  THEN unbounded
    ELSE IF IsUnbounded(right) THEN -unbounded
    ELSE IF left.at # right.at THEN CmpVersions(left.at, right.at)
    ELSE IF IsIncluded(left) THEN included ELSE -included

CmpBoundsStart(left, right) == CmpBounds(left, right, Less, Less)
CmpBoundsEnd(left, right)   == CmpBounds(left, right, Greater, Greater)

\* Mutant: a segment contains the versions of both its bounds.
WithinBoundsInclusive(v, segment) ==
    IF ~IsUnbounded(segment.start) /\ v < segment.start.at THEN Less
    ELSE IF ~IsUnbounded(segment.end) /\ v > segment.end.at THEN Greater ELSE Equal

\* Where a version is with respect to a segment.
WithinBounds(v, segment) ==
    LET below == /\ ~IsUnbounded(segment.start)
                 /\ IF IsIncluded(segment.start) THEN v < segment.start.at
                                                 ELSE v <= segment.start.at
        above == /\ ~IsUnbounded(segment.end)
                 /\ IF IsIncluded(segment.end) THEN v > segment.end.at
                                               ELSE v >= segment.end.at
    IN  IF below THEN Less ELSE IF above THEN Greater ELSE Equal

-----------------------------------------------------------------------------
(* Ranges: sequences of segments *)

WellFormed(segments) ==
    /\ segments \in Seq(Segment)
    /\ \A k \in DOMAIN segments : ValidSegment(segments[k].start, segments[k].end)
    /\ \A k \in 1 .. Len(segments) - 1 :
          EndBeforeStartWithGap(segments[k].end, segments[k + 1].start)

Contains(segments, v) == \E k \in DOMAIN segments : WithinBounds(v, segments[k]) = Equal

Empty                == << >>
Full                 == <<Seg(Unbounded, Unbounded)>>
HigherThan(v)         == <<Seg(Included(v), Unbounded)>>
StrictlyHigherThan(v) == <<Seg(Excluded(v), Unbounded)>>
LowerThan(v)          == <<Seg(Unbounded, Included(v))>>
StrictlyLowerThan(v)  == <<Seg(Unbounded, Excluded(v))>>
Between(v1, v2)       == <<Seg(Included(v1), Excluded(v2))>>
Singleton(v)          == <<Seg(Included(v), Included(v))>>

FromRangeBounds(start, end) ==
    IF ValidSegment(start, end) THEN <<Seg(start, end)>> ELSE Empty

IsSingleton(segments) ==
    /\ Len(segments) = 1
    /\ IsIncluded(segments[1].start) /\ IsIncluded(segments[1].end)
    /\ segments[1].start.at = segments[1].end.at

\* bounding_range of a range that is not empty.
BoundingRange(segments) == Seg(segments[1].start, segments[Len(segments)].end)

\* The bound that excludes what b includes.
Flip(b) == IF IsUnbounded(b) THEN Unbounded
           ELSE IF IsIncluded(b) THEN Excluded(b.at) ELSE Included(b.at)

\* negate_segments: what lies between the segments, from `start' on.
NegateSegments(start, segments) ==
    LET n == Len(segments)
        starts == [k \in 1 .. n + 1 |-> IF k = 1 THEN start ELSE Flip(segments[k - 1].end)]
    IN  [k \in 1 .. n |-> Seg(starts[k], Flip(segments[k].start))]
        \o (IF IsUnbounded(starts[n + 1]) THEN << >> ELSE <<Seg(starts[n + 1], Unbounded)>>)

\* Mutant: a first segment without a lower bound is treated like the others.
ComplementOfBounded(segments) ==
    IF segments = Empty THEN Full ELSE NegateSegments(Unbounded, segments)

Complement(segments) ==
    IF segments = Empty THEN Full
    ELSE LET start == segments[1].start
             end   == segments[1].end
         IN  IF IsUnbounded(start) /\ IsUnbounded(end) THEN Empty
             ELSE IF IsUnbounded(end) THEN IF IsIncluded(start) THEN StrictlyLowerThan(start.at)
                                                                ELSE LowerThan(start.at)
             ELSE IF IsUnbounded(start) THEN NegateSegments(Flip(end), Tail(segments))
             ELSE NegateSegments(Unbounded, segments)

\* Mutant: segments beyond the end of the shorter range are not compared.
CompareZipped(left, right) ==
    LET differs == {k \in DOMAIN left : k \in DOMAIN right /\ left[k] # right[k]}
        first   == CHOOSE k \in differs : \A m \in differs : k <= m
        start   == CmpBoundsStart(left[first].start, right[first].start)
    IN  IF differs = {} THEN Equal
        ELSE IF start # Equal THEN start
        ELSE CmpBoundsEnd(left[first].end, right[first].end)

\* partial_cmp: the first bounds that differ decide, and then the length.
Compare(left, right) ==
    LET differs == {k \in DOMAIN left : k \in DOMAIN right /\ left[k] # right[k]}
        first   == CHOOSE k \in differs : \A m \in differs : k <= m
        start   == CmpBoundsStart(left[first].start, right[first].start)
    IN  IF differs = {} THEN CmpVersions(Len(left), Len(right))
        ELSE IF start # Equal THEN start
        ELSE CmpBoundsEnd(left[first].end, right[first].end)
=============================================================================
