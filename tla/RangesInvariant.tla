---------------------------- MODULE RangesInvariant ----------------------------
(***************************************************************************)
(* What is true of each loop of RangesAlgorithms while it goes on: strong  *)
(* enough that every step keeps it, and that the results follow from it.   *)
(* A conjunct for each operation; the loops are described by operators of  *)
(* their arguments (l and r), their iterators (a and b) and what they have *)
(* built, so that the proofs can speak of the state before and after.      *)
(***************************************************************************)
EXTENDS RangesProperties

\* What the type `Ranges' keeps, and its callers rely on.  from_iter may be
\* given any list of segments.
WellFormedArguments == (op # "from_iter" => WellFormed(left)) /\ WellFormed(right)

\* Well formed, said of any two segments rather than of neighbours.
Apart(segments) ==
    \A k, m \in DOMAIN segments :
        k < m => EndBeforeStartWithGap(segments[k].end, segments[m].start)

Proper(segments) ==
    /\ segments \in Ranges
    /\ \A k \in DOMAIN segments : ValidSegment(segments[k].start, segments[k].end)
    /\ Apart(segments)

\* The versions of the first segments, before the iterator.
MembersBefore(segments, a) ==
    UNION {SegmentMembers(segments[k]) : k \in {m \in DOMAIN segments : m < a}}

-----------------------------------------------------------------------------
(* union *)

\* The accumulator starts before every segment to come.
StartsBefore(accu, segments, a) ==
    \A x \in DOMAIN accu : \A k \in DOMAIN segments :
        a <= k => LeftStartIsSmaller(accu[x].start, segments[k].start)

United(l, r, a, b, accu, out) ==
    /\ accu \in Ranges /\ Len(accu) \in {0, 1}
    /\ accu = << >> => out = << >>
    /\ Proper(out \o accu)
    /\ Members(out \o accu) = MembersBefore(l, a) \cup MembersBefore(r, b)
    /\ StartsBefore(accu, l, a) /\ StartsBefore(accu, r, b)

UnionInvariant ==
    /\ running => United(left, right, i, j, accumulator, output)
    /\ ~running => Proper(output) /\ Members(output) = Members(left) \cup Members(right)

-----------------------------------------------------------------------------
(* intersection, is_disjoint, subset_of *)

\* v is in two segments, one of which is passed.
InPassedPair(l, r, a, b, v) ==
    \E k \in DOMAIN l, m \in DOMAIN r :
        (k < a \/ m < b) /\ v \in SegmentMembers(l[k]) /\ v \in SegmentMembers(r[m])

\* An end is that of a segment passed, in one of the ranges.
EndIsPassed(l, r, a, b, end) ==
    \/ \E k \in DOMAIN l : k < a /\ l[k].end = end
    \/ \E m \in DOMAIN r : m < b /\ r[m].end = end

Intersected(l, r, a, b, out) ==
    /\ Proper(out)
    /\ \A x \in DOMAIN out : EndIsPassed(l, r, a, b, out[x].end)
    /\ \A v \in Versions : v \in Members(out) <=> InPassedPair(l, r, a, b, v)

IntersectionInvariant ==
    /\ running => Intersected(left, right, i, j, output)
    /\ ~running => Proper(output) /\ Members(output) = Members(left) \cap Members(right)

DisjointInvariant ==
    /\ output = Empty
    /\ running => \A v \in Versions : ~InPassedPair(left, right, i, j, v)
    /\ ~running => (answer <=> Members(left) \cap Members(right) = {})

\* The segments of l passed are contained; those of r end too early for the
\* segments of l to come.
ContainedSoFar(l, r, a, b) ==
    /\ \A k \in DOMAIN l : k < a => SegmentMembers(l[k]) \subseteq Members(r)
    /\ \A k \in DOMAIN l, m \in DOMAIN r :
          a <= k /\ m < b => SegmentMembers(l[k]) \cap SegmentMembers(r[m]) = {}

SubsetInvariant ==
    /\ output = Empty
    /\ running => ContainedSoFar(left, right, i, j)
    /\ ~running => (answer <=> Members(left) \subseteq Members(right))

-----------------------------------------------------------------------------
(* complement, from_iter *)

ComplementInvariant ==
    ~running => Proper(output) /\ Members(output) = Versions \ Members(left)

FromIterInvariant ==
    /\ Proper(output)
    /\ Members(output) = MembersBefore(left, i)
    /\ ~running => i = Len(left) + 1

-----------------------------------------------------------------------------
(* simplify *)

KeptOf(l, s, e) ==
    Seg(IF s = 0 THEN Unbounded ELSE l[s].start, IF e = 0 THEN Unbounded ELSE l[e].end)

\* The versions before b are known; the scan is past the segments before a.
Scanned(l, vs, a, b, loc) ==
    /\ Len(loc) = b - 1
    /\ \A q \in 1 .. b - 1 : loc[q] <=> vs[q] \in Members(l)
    /\ \A q \in 1 .. Len(vs), m \in 1 .. a - 1 : b - 1 <= q => ~BeforeEnd(vs[q], l[m].end)

\* The pair under construction ends at the segment of the last version.
PairInProgress(l, vs, a, b, pair) ==
    pair # << >> =>
        /\ 1 < b /\ a <= Len(l)
        /\ pair[2] = a /\ pair[1] \in 0 .. a
        /\ vs[b - 1] \in SegmentMembers(l[a])
        /\ AfterStart(vs[b - 1], KeptOf(l, pair[1], a).start)

\* Everything kept ends before the pair, or the segments to come.
KeptBehind(l, a, pair, out) ==
    \A x \in DOMAIN out : \E e \in DOMAIN l :
        out[x].end = l[e].end /\ e < (IF pair = << >> THEN a ELSE pair[1])

\* The versions before b that l contains are kept, and no other.
AgreesBefore(l, vs, b, loc, pair, out) ==
    /\ \A q \in 1 .. b - 1 : loc[q] =>
          \/ vs[q] \in Members(out)
          \/ pair # << >> /\ vs[q] \in SegmentMembers(KeptOf(l, pair[1], pair[2]))
    /\ \A q \in 1 .. b - 1 : ~loc[q] =>
          /\ vs[q] \notin Members(out)
          /\ pair # << >> => ~AfterStart(vs[q], KeptOf(l, pair[1], pair[2]).start)

\* As long as all versions were found, the pair has no lower bound.
FromTheFirst(b, loc, pair, out) ==
    /\ b = 1 => out = << >>
    /\ 1 < b /\ (\A q \in 1 .. b - 1 : loc[q]) => pair # << >> /\ pair[1] = 0

Simplifying(l, vs, a, b, pair, loc, out) ==
    /\ Scanned(l, vs, a, b, loc)
    /\ PairInProgress(l, vs, a, b, pair)
    /\ KeptBehind(l, a, pair, out)
    /\ Proper(out)
    /\ AgreesBefore(l, vs, b, loc, pair, out)
    /\ FromTheFirst(b, loc, pair, out)

Simplified(l, vs, out) ==
    /\ Proper(out)
    /\ \A q \in DOMAIN vs : vs[q] \in Members(out) <=> vs[q] \in Members(l)
    /\ l # Empty => out # Empty
    /\ vs # << >> /\ (\A q \in DOMAIN vs : vs[q] \in Members(l)) /\ ~IsSingleton(l) => out = Full

LastIsListed == last # << >> => \E q \in 1 .. j - 1 : last = <<versions[q]>>

SimplifyInvariant ==
    SortedVersions =>
        /\ ~panicked
        /\ LastIsListed
        /\ running => Simplifying(left, versions, i, j, accumulator, located, output)
        /\ ~running => Simplified(left, versions, output)
        /\ \A q \in DOMAIN located : located[q] <=> versions[q] \in Members(left)

-----------------------------------------------------------------------------

Pairs == {<< >>} \cup ((0 .. Len(left)) \X (1 .. Len(left)))

RangesType ==
    /\ op \in Operations
    /\ left \in Ranges /\ right \in Ranges /\ versions \in Seq(Versions)
    /\ running \in BOOLEAN /\ answer \in BOOLEAN /\ panicked \in BOOLEAN
    /\ i \in 1 .. Len(left) + 1
    /\ j \in 1 .. (IF op = "simplify" THEN Len(versions) ELSE Len(right)) + 1
    /\ accumulator \in IF op = "simplify" THEN Pairs ELSE Ranges
    /\ located \in Seq(BOOLEAN)
    /\ output \in Ranges

RangesInvariant ==
    /\ RangesType
    /\ WellFormedArguments
    /\ op = "union"        => UnionInvariant
    /\ op = "intersection" => IntersectionInvariant
    /\ op = "is_disjoint"  => DisjointInvariant
    /\ op = "subset_of"    => SubsetInvariant
    /\ op = "complement"   => ComplementInvariant
    /\ op = "from_iter"    => FromIterInvariant
    /\ op = "simplify"     => SimplifyInvariant
=================================================================================
