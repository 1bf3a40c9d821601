--------------------------- MODULE RangesAlgorithms ---------------------------
(***************************************************************************)
(* The loops over segments of version-ranges/src/lib.rs.  A behaviour is   *)
(* one call of the operation `op'; a step is one iteration of its loop.    *)
(*                                                                         *)
(*   union, intersection    of left and right, merging from both           *)
(*   is_disjoint            of left and right                              *)
(*   subset_of              left in right: j is at the containing segment  *)
(*   complement             of left, in one step                           *)
(*   from_iter              of the segments in left, in any order          *)
(*   simplify               left, for the versions in `versions'           *)
(*                                                                         *)
(* i and j are the next elements of the iterators on left and right.       *)
(***************************************************************************)
EXTENDS VersionRanges, FiniteSets

Operations == {"union", "intersection", "is_disjoint", "subset_of", "complement",
               "from_iter", "simplify"}

Ranges == Seq(Segment)

CONSTANT Calls    \* families of calls: operations, and what each of their
                  \* arguments may be

ASSUME CallsAssumption ==
    \A family \in Calls :
        /\ family.ops \subseteq Operations
        /\ family.lefts \subseteq Ranges /\ family.rights \subseteq Ranges
        /\ family.versions \subseteq Seq(Versions)

VARIABLES
    op, left, right, versions,
    running,
    i, j,
    accumulator,    \* the segment under construction, if any
    located,        \* simplify: which of the versions so far left contains
    last,           \* simplify: the version the assertion compares with, if any
    panicked,       \* the assertion failed
    output,
    answer          \* of is_disjoint and subset_of

arguments == <<op, left, right, versions>>
check     == <<last, panicked>>
vars == <<op, left, right, versions, running, i, j, accumulator, located, last, panicked,
          output, answer>>

Init ==
    /\ \E family \in Calls :
          /\ op \in family.ops /\ left \in family.lefts /\ right \in family.rights
          /\ versions \in family.versions
    /\ running = TRUE
    /\ i = 1 /\ j = 1
    /\ accumulator = << >>
    /\ located = << >>
    /\ last = << >> /\ panicked = FALSE
    /\ output = Empty
    /\ answer = FALSE

LeftHasNext  == i <= Len(left)
RightHasNext == j <= Len(right)
Running(o)   == running /\ op = o

Return(value) ==
    /\ output' = value
    /\ running' = FALSE
    /\ UNCHANGED <<arguments, i, j, accumulator, located, check, answer>>

Answer(value) ==
    /\ answer' = value
    /\ running' = FALSE
    /\ UNCHANGED <<arguments, i, j, accumulator, located, check, output>>

AdvanceLeft  == i' = i + 1 /\ j' = j
AdvanceRight == i' = i /\ j' = j + 1

-----------------------------------------------------------------------------
(* union *)

LeftIsNext == LeftHasNext /\ (RightHasNext => LeftStartIsSmaller(left[i].start, right[j].start))

\* Mutant: the end of the segment that was met last.
LaterEndIsLast(end1, end2) == end2

LaterEnd(end1, end2) ==
    IF IsUnbounded(end1) \/ IsUnbounded(end2) THEN Unbounded
    ELSE IF end1.at = end2.at /\ IsIncluded(end1) THEN end1
    ELSE IF end1.at > end2.at THEN end1 ELSE end2

\* Mutant: a segment that only touches the accumulator is kept apart.
LeavesAccumulatorTouching(segment) ==
    \/ accumulator = << >>
    \/ /\ ~IsUnbounded(accumulator[1].end) /\ ~IsUnbounded(segment.start)
       /\ accumulator[1].end.at <= segment.start.at

LeavesAccumulator(segment) ==
    accumulator = << >> \/ EndBeforeStartWithGap(accumulator[1].end, segment.start)

Unite(segment) ==
    IF LeavesAccumulator(segment)
    THEN output' = output \o accumulator /\ accumulator' = <<segment>>
    ELSE /\ accumulator' = <<Seg(accumulator[1].start, LaterEnd(accumulator[1].end, segment.end))>>
         /\ UNCHANGED output

UnionStep ==
    /\ Running("union")
    /\ LeftHasNext \/ RightHasNext
    /\ IF LeftIsNext THEN AdvanceLeft /\ Unite(left[i]) ELSE AdvanceRight /\ Unite(right[j])
    /\ UNCHANGED <<arguments, running, located, check, answer>>

UnionEnd ==
    /\ Running("union")
    /\ ~LeftHasNext /\ ~RightHasNext
    /\ Return(output \o accumulator)

-----------------------------------------------------------------------------
(* intersection *)

LaterStart(start1, start2) ==
    IF IsUnbounded(start2) THEN start1
    ELSE IF IsUnbounded(start1) THEN start2
    ELSE IF start1.at # start2.at THEN (IF start1.at < start2.at THEN start2 ELSE start1)
    ELSE IF IsIncluded(start1) THEN start2 ELSE start1

\* The segment that ends first is left behind; it meets the other one unless
\* that starts later.
IntersectionStep ==
    /\ Running("intersection")
    /\ LeftHasNext /\ RightHasNext
    /\ LET leftFirst  == LeftEndIsSmaller(left[i].end, right[j].end)
           end        == IF leftFirst THEN left[i].end ELSE right[j].end
           otherStart == IF leftFirst THEN right[j].start ELSE left[i].start
       IN  /\ IF leftFirst THEN AdvanceLeft ELSE AdvanceRight
           /\ output' = IF ValidSegment(otherStart, end)
                        THEN Append(output, Seg(LaterStart(left[i].start, right[j].start), end))
                        ELSE output
    /\ UNCHANGED <<arguments, running, accumulator, located, check, answer>>

IntersectionEnd ==
    /\ Running("intersection")
    /\ ~(LeftHasNext /\ RightHasNext)
    /\ Return(output)

-----------------------------------------------------------------------------
(* is_disjoint *)

DisjointStep ==
    /\ Running("is_disjoint")
    /\ LeftHasNext /\ RightHasNext
    /\ \/ ~ValidSegment(right[j].start, left[i].end) /\ AdvanceLeft
       \/ /\ ValidSegment(right[j].start, left[i].end)
          /\ ~ValidSegment(left[i].start, right[j].end)
          /\ AdvanceRight
    /\ UNCHANGED <<arguments, running, accumulator, located, check, output, answer>>

DisjointOverlap ==
    /\ Running("is_disjoint")
    /\ LeftHasNext /\ RightHasNext
    /\ ValidSegment(right[j].start, left[i].end)
    /\ ValidSegment(left[i].start, right[j].end)
    /\ Answer(FALSE)

DisjointEnd ==
    /\ Running("is_disjoint")
    /\ ~(LeftHasNext /\ RightHasNext)
    /\ Answer(TRUE)

-----------------------------------------------------------------------------
(* subset_of *)

SegmentContained(inner, outer) ==
    /\ LeftStartIsSmaller(outer.start, inner.start)
    /\ LeftEndIsSmaller(inner.end, outer.end)

EndsBefore(outer, inner) == ~ValidSegment(inner.start, outer.end)

SubsetOfEmpty ==
    /\ Running("subset_of")
    /\ right = Empty
    /\ Answer(left = Empty)

SubsetSkip ==
    /\ Running("subset_of")
    /\ LeftHasNext /\ RightHasNext
    /\ EndsBefore(right[j], left[i])
    /\ AdvanceRight
    /\ UNCHANGED <<arguments, running, accumulator, located, check, output, answer>>

SubsetStep ==
    /\ Running("subset_of")
    /\ LeftHasNext /\ RightHasNext
    /\ ~EndsBefore(right[j], left[i])
    /\ SegmentContained(left[i], right[j])
    /\ AdvanceLeft
    /\ UNCHANGED <<arguments, running, accumulator, located, check, output, answer>>

SubsetFails ==
    /\ Running("subset_of")
    /\ right # Empty
    /\ LeftHasNext
    /\ RightHasNext => ~EndsBefore(right[j], left[i]) /\ ~SegmentContained(left[i], right[j])
    /\ Answer(FALSE)

SubsetEnd ==
    /\ Running("subset_of")
    /\ right # Empty
    /\ ~LeftHasNext
    /\ Answer(TRUE)

-----------------------------------------------------------------------------
(* complement *)

ComplementCall == Running("complement") /\ Return(Complement(left))

-----------------------------------------------------------------------------
(* from_iter *)

\* partition_point: the segments that start before the new one.
StartingBefore(segments, segment) ==
    Cardinality({k \in DOMAIN segments : CmpBoundsStart(segments[k].start, segment.start) = Less})

LastOverlapping(segments, segment, n) ==
    CHOOSE m \in n .. Len(segments) :
        /\ \A k \in n + 1 .. m : ~EndBeforeStartWithGap(segment.end, segments[k].start)
        /\ m < Len(segments) => EndBeforeStartWithGap(segment.end, segments[m + 1].start)

\* Mutant: the segment has the last word.
MaxEndOfFirst(end1, end2) == end1

\* The later end.
MaxEnd(end1, end2) == IF CmpBoundsEnd(end1, end2) = Less THEN end2 ELSE end1

Insert(segments, segment) ==
    LET n         == StartingBefore(segments, segment)
        m         == LastOverlapping(segments, segment, n)
        previous  == n > 0 /\ ~EndBeforeStartWithGap(segments[n].end, segment.start)
        following == m > n
        start     == IF previous THEN segments[n].start ELSE segment.start
        end       == IF following THEN MaxEnd(segment.end, segments[m].end)
                     ELSE IF previous THEN MaxEnd(segments[n].end, segment.end)
                     ELSE segment.end
    IN  SubSeq(segments, 1, IF previous THEN n - 1 ELSE n)
        \o <<Seg(start, end)>> \o SubSeq(segments, m + 1, Len(segments))

FromIterStep ==
    /\ Running("from_iter")
    /\ LeftHasNext
    /\ output' = IF ValidSegment(left[i].start, left[i].end) THEN Insert(output, left[i])
                                                             ELSE output
    /\ AdvanceLeft
    /\ UNCHANGED <<arguments, running, accumulator, located, check, answer>>

FromIterEnd ==
    /\ Running("from_iter")
    /\ ~LeftHasNext
    /\ Return(output)

-----------------------------------------------------------------------------
(* simplify: i is at the segment of left, j at the version *)

VersionsHaveNext == j <= Len(versions)

SimplifySingleton ==
    /\ Running("simplify")
    /\ IsSingleton(left)
    /\ Return(left)

\* The scan of contains_many: past the segments that end before the version.
SegmentFor(v) ==
    CHOOSE k \in i .. Len(left) + 1 :
        /\ \A m \in i .. k - 1 : WithinBounds(v, left[m]) = Greater
        /\ k <= Len(left) => WithinBounds(v, left[k]) # Greater

LocationIn(v, k) == IF k <= Len(left) /\ WithinBounds(v, left[k]) = Equal THEN k ELSE 0

\* group_adjacent_locations: the accumulator is a pair of locations, the
\* first 0 when the very first version was matched.  A pair is kept, with its
\* segments, when a version is met that left does not contain.
KeptSegment(s, e) ==
    Seg(IF s = 0 THEN Unbounded ELSE left[s].start,
        IF e = 0 THEN Unbounded ELSE left[e].end)

\* Mutant: the first location does not count as the lower bound.
GroupedFromFirst(group, location, first) ==
    <<IF group = << >> THEN location ELSE group[1], location>>

Grouped(group, location, first) ==
    <<IF first THEN 0 ELSE IF group = << >> THEN location ELSE group[1], location>>

\* The assertion of debug builds that the versions are sorted.
IncorrectlySorted == VersionsHaveNext /\ last # << >> /\ last[1] > versions[j]

SimplifyPanics ==
    /\ Running("simplify")
    /\ ~IsSingleton(left)
    /\ IncorrectlySorted
    /\ panicked' = TRUE
    /\ running' = FALSE
    /\ UNCHANGED <<arguments, i, j, accumulator, located, last, output, answer>>

SimplifyStep ==
    /\ Running("simplify")
    /\ ~IsSingleton(left)
    /\ VersionsHaveNext
    /\ ~IncorrectlySorted
    /\ LET k        == SegmentFor(versions[j])
           location == LocationIn(versions[j], k)
       IN  /\ i' = k
           /\ located' = Append(located, location # 0)
           /\ last' = IF k > Len(left) THEN <<versions[j]>> ELSE last
           /\ IF location # 0
              THEN /\ accumulator' = Grouped(accumulator, location, j = 1)
                   /\ UNCHANGED output
              ELSE /\ accumulator' = << >>
                   /\ output' = IF accumulator = << >> THEN output
                                ELSE Append(output, KeptSegment(accumulator[1], accumulator[2]))
    /\ j' = j + 1
    /\ UNCHANGED <<arguments, running, panicked, answer>>

\* The last pair has no upper bound.  A range none of whose segments is kept
\* is returned as it is.
SimplifyEnd ==
    /\ Running("simplify")
    /\ ~IsSingleton(left)
    /\ ~VersionsHaveNext
    /\ LET kept == IF accumulator = << >> THEN output
                   ELSE Append(output, KeptSegment(accumulator[1], 0))
       IN  Return(IF kept = Empty THEN left ELSE kept)

Terminated == ~running /\ UNCHANGED vars

Next ==
    \/ UnionStep \/ UnionEnd
    \/ IntersectionStep \/ IntersectionEnd
    \/ DisjointStep \/ DisjointOverlap \/ DisjointEnd
    \/ SubsetOfEmpty \/ SubsetSkip \/ SubsetStep \/ SubsetFails \/ SubsetEnd
    \/ ComplementCall
    \/ FromIterStep \/ FromIterEnd
    \/ SimplifySingleton \/ SimplifyPanics \/ SimplifyStep \/ SimplifyEnd
    \/ Terminated

Spec == Init /\ [][Next]_vars
=============================================================================
