---------------------------- MODULE RangesTheorems ----------------------------
(***************************************************************************)
(* The loops of RangesAlgorithms compute what they should, for ranges of   *)
(* any length over any versions that have one between any two bounds and   *)
(* on both sides of them: what the comparisons of bounds say of the        *)
(* versions, what each loop does to the sets of versions, the invariant of *)
(* the loops (RangesInvariant), and what follows from it of the results.   *)
(***************************************************************************)
EXTENDS RangesInvariant, SequenceTheorems, FiniteSetTheorems, WellFoundedInduction, TLAPS

\* A bound is unbounded, or is at a version.
LEMMA BoundCases ==
    ASSUME NEW b \in Bound
    PROVE  \/ IsUnbounded(b) /\ ~IsIncluded(b)
           \/ ~IsUnbounded(b) /\ b.at \in BoundVersions /\ b.at \in Versions /\ b.at \in Int
<1>1. CASE b = Unbounded
  BY <1>1 DEF Unbounded, IsUnbounded, IsIncluded
<1>2. CASE b \in [kind : {"Included", "Excluded"}, at : BoundVersions]
  <2>1. b.kind \in {"Included", "Excluded"} /\ b.at \in BoundVersions
    BY <1>2
  <2>2. b.at \in Versions /\ b.at \in Int
    BY <2>1, VersionsAssumption
  <2> QED BY <2>1, <2>2 DEF IsUnbounded
<1> QED BY <1>1, <1>2 DEF Bound

\* valid_segment: a segment is valid exactly when it contains a version.
THEOREM ValidSegmentMeaning ==
    ASSUME NEW start \in Bound, NEW end \in Bound
    PROVE  ValidSegment(start, end) <=> SegmentMembers(Seg(start, end)) # {}
<1>1. SegmentMembers(Seg(start, end)) # {}
         <=> \E v \in Versions : AfterStart(v, start) /\ BeforeEnd(v, end)
  BY DEF SegmentMembers, Seg
<1>2. ASSUME ValidSegment(start, end)
      PROVE  \E v \in Versions : AfterStart(v, start) /\ BeforeEnd(v, end)
  <2>1. CASE IsUnbounded(start) /\ IsUnbounded(end)
    BY <2>1, DenseVersions DEF AfterStart, BeforeEnd
  <2>2. CASE IsUnbounded(start) /\ ~IsUnbounded(end)
    BY <2>2, DenseVersions, BoundCases, VersionsAssumption DEF AfterStart, BeforeEnd
  <2>3. CASE ~IsUnbounded(start) /\ IsUnbounded(end)
    BY <2>3, DenseVersions, BoundCases, VersionsAssumption DEF AfterStart, BeforeEnd
  <2>4. CASE ~IsUnbounded(start) /\ ~IsUnbounded(end)
    <3>1. CASE start.at < end.at
      BY <2>4, <3>1, DenseVersions, BoundCases, VersionsAssumption DEF AfterStart, BeforeEnd
    <3>2. CASE start.at = end.at /\ IsIncluded(start) /\ IsIncluded(end)
      BY <2>4, <3>2, BoundCases DEF AfterStart, BeforeEnd
    <3> QED BY <1>2, <2>4, <3>1, <3>2 DEF ValidSegment
  <2> QED BY <2>1, <2>2, <2>3, <2>4
<1>3. ASSUME NEW v \in Versions, AfterStart(v, start), BeforeEnd(v, end)
      PROVE  ValidSegment(start, end)
  BY <1>3, BoundCases, VersionsAssumption DEF AfterStart, BeforeEnd, ValidSegment
<1> QED BY <1>1, <1>2, <1>3

\* end_before_start_with_gap: true exactly when a version lies after the one
\* segment and before the other.
THEOREM GapMeaning ==
    ASSUME NEW end \in Bound, NEW start \in Bound
    PROVE  EndBeforeStartWithGap(end, start)
              <=> \E v \in Versions : ~BeforeEnd(v, end) /\ ~AfterStart(v, start)
<1>1. ASSUME EndBeforeStartWithGap(end, start)
      PROVE  \E v \in Versions : ~BeforeEnd(v, end) /\ ~AfterStart(v, start)
  <2>1. /\ ~IsUnbounded(end) /\ ~IsUnbounded(start)
        /\ end.at \in BoundVersions /\ start.at \in BoundVersions
        /\ end.at \in Versions /\ end.at \in Int /\ start.at \in Int
    BY <1>1, BoundCases DEF EndBeforeStartWithGap
  <2>2. CASE end.at < start.at
    BY <2>1, <2>2, DenseVersions, VersionsAssumption DEF AfterStart, BeforeEnd
  <2>3. CASE end.at = start.at /\ ~IsIncluded(end) /\ ~IsIncluded(start)
    BY <2>1, <2>3 DEF AfterStart, BeforeEnd
  <2> QED BY <1>1, <2>2, <2>3 DEF EndBeforeStartWithGap
<1>2. ASSUME NEW v \in Versions, ~BeforeEnd(v, end), ~AfterStart(v, start)
      PROVE  EndBeforeStartWithGap(end, start)
  BY <1>2, BoundCases, VersionsAssumption DEF AfterStart, BeforeEnd, EndBeforeStartWithGap
<1> QED BY <1>1, <1>2

\* left_start_is_smaller: everything after the second start is after the first.
THEOREM StartOrderMeaning ==
    ASSUME NEW start1 \in Bound, NEW start2 \in Bound
    PROVE  LeftStartIsSmaller(start1, start2)
              <=> \A v \in Versions : AfterStart(v, start2) => AfterStart(v, start1)
<1>1. ASSUME LeftStartIsSmaller(start1, start2), NEW v \in Versions, AfterStart(v, start2)
      PROVE  AfterStart(v, start1)
  BY <1>1, BoundCases, VersionsAssumption DEF AfterStart, LeftStartIsSmaller
<1>2. ASSUME ~LeftStartIsSmaller(start1, start2)
      PROVE  \E v \in Versions : AfterStart(v, start2) /\ ~AfterStart(v, start1)
  <2>1. ~IsUnbounded(start1) /\ start1.at \in BoundVersions /\ start1.at \in Versions
        /\ start1.at \in Int
    BY <1>2, BoundCases DEF LeftStartIsSmaller
  <2>2. CASE IsUnbounded(start2)
    BY <2>1, <2>2, DenseVersions, VersionsAssumption DEF AfterStart
  <2>3. CASE ~IsUnbounded(start2) /\ start2.at < start1.at
    BY <2>1, <2>3, BoundCases, DenseVersions, VersionsAssumption DEF AfterStart
  <2>4. CASE /\ ~IsUnbounded(start2) /\ start2.at = start1.at
             /\ ~IsIncluded(start1) /\ IsIncluded(start2)
    BY <2>1, <2>4 DEF AfterStart
  <2> QED BY <1>2, <2>1, <2>2, <2>3, <2>4, BoundCases DEF LeftStartIsSmaller
<1> QED BY <1>1, <1>2

\* left_end_is_smaller: everything before the first end is before the second.
THEOREM EndOrderMeaning ==
    ASSUME NEW end1 \in Bound, NEW end2 \in Bound
    PROVE  LeftEndIsSmaller(end1, end2)
              <=> \A v \in Versions : BeforeEnd(v, end1) => BeforeEnd(v, end2)
<1>1. ASSUME LeftEndIsSmaller(end1, end2), NEW v \in Versions, BeforeEnd(v, end1)
      PROVE  BeforeEnd(v, end2)
  BY <1>1, BoundCases, VersionsAssumption DEF BeforeEnd, LeftEndIsSmaller
<1>2. ASSUME ~LeftEndIsSmaller(end1, end2)
      PROVE  \E v \in Versions : BeforeEnd(v, end1) /\ ~BeforeEnd(v, end2)
  <2>1. ~IsUnbounded(end2) /\ end2.at \in BoundVersions /\ end2.at \in Versions
        /\ end2.at \in Int
    BY <1>2, BoundCases DEF LeftEndIsSmaller
  <2>2. CASE IsUnbounded(end1)
    BY <2>1, <2>2, DenseVersions, VersionsAssumption DEF BeforeEnd
  <2>3. CASE ~IsUnbounded(end1) /\ end2.at < end1.at
    BY <2>1, <2>3, BoundCases, DenseVersions, VersionsAssumption DEF BeforeEnd
  <2>4. CASE ~IsUnbounded(end1) /\ end2.at = end1.at /\ IsIncluded(end1) /\ ~IsIncluded(end2)
    BY <2>1, <2>4 DEF BeforeEnd
  <2> QED BY <1>2, <2>1, <2>2, <2>3, <2>4, BoundCases DEF LeftEndIsSmaller
<1> QED BY <1>1, <1>2

\* within_bounds: Equal exactly for the members, Less below and Greater above.
THEOREM WithinBoundsMeaning ==
    ASSUME NEW segment \in Segment, NEW v \in Versions
    PROVE  /\ WithinBounds(v, segment) = Equal <=> v \in SegmentMembers(segment)
           /\ WithinBounds(v, segment) = Less <=> ~AfterStart(v, segment.start)
<1>1. segment.start \in Bound /\ segment.end \in Bound
  BY DEF Segment
<1>2. v \in Int
  BY VersionsAssumption
<1> QED BY <1>1, <1>2, BoundCases
        DEF WithinBounds, SegmentMembers, AfterStart, BeforeEnd, Less, Equal, Greater

\* The step of the intersection: the segment it pushes is that of the versions
\* of both segments, and it pushes none exactly when there is no such version.
THEOREM IntersectionOfSegments ==
    ASSUME NEW s \in Segment, NEW t \in Segment,
           ValidSegment(s.start, s.end), ValidSegment(t.start, t.end),
           LeftEndIsSmaller(s.end, t.end)
    PROVE  /\ SegmentMembers(Seg(LaterStart(s.start, t.start), s.end))
                 = SegmentMembers(s) \cap SegmentMembers(t)
           /\ ValidSegment(t.start, s.end)
                 <=> SegmentMembers(s) \cap SegmentMembers(t) # {}
<1>1. s.start \in Bound /\ s.end \in Bound /\ t.start \in Bound /\ t.end \in Bound
  BY DEF Segment
<1>2. LaterStart(s.start, t.start) \in {s.start, t.start}
  BY DEF LaterStart
<1>3. ASSUME NEW v \in Versions
      PROVE  AfterStart(v, LaterStart(s.start, t.start))
                <=> AfterStart(v, s.start) /\ AfterStart(v, t.start)
  <2>1. v \in Int
    BY VersionsAssumption
  <2> QED BY <1>1, <2>1, BoundCases DEF LaterStart, AfterStart
<1>4. \A v \in Versions : BeforeEnd(v, s.end) => BeforeEnd(v, t.end)
  BY <1>1, EndOrderMeaning
<1>5. SegmentMembers(Seg(LaterStart(s.start, t.start), s.end))
         = SegmentMembers(s) \cap SegmentMembers(t)
  BY <1>3, <1>4 DEF SegmentMembers, Seg
<1>6. ValidSegment(LaterStart(s.start, t.start), s.end)
         <=> SegmentMembers(Seg(LaterStart(s.start, t.start), s.end)) # {}
  BY <1>1, <1>2, ValidSegmentMeaning
<1>7. ValidSegment(LaterStart(s.start, t.start), s.end) <=> ValidSegment(t.start, s.end)
  BY <1>1, BoundCases DEF LaterStart, ValidSegment
<1> QED BY <1>5, <1>6, <1>7

-----------------------------------------------------------------------------
(* Versions and bounds *)

\* Later versions are after more starts, earlier ones before more ends.
LEMMA Monotone ==
    ASSUME NEW b \in Bound, NEW v \in Versions, NEW w \in Versions, v <= w
    PROVE  /\ AfterStart(v, b) => AfterStart(w, b)
           /\ BeforeEnd(w, b) => BeforeEnd(v, b)
BY BoundCases, VersionsAssumption DEF AfterStart, BeforeEnd

\* No version is before the one bound and after the other.
LEMMA GapSplits ==
    ASSUME NEW e \in Bound, NEW s \in Bound, EndBeforeStartWithGap(e, s), NEW v \in Versions
    PROVE  ~(BeforeEnd(v, e) /\ AfterStart(v, s))
BY BoundCases, VersionsAssumption DEF AfterStart, BeforeEnd, EndBeforeStartWithGap

\* Gaps on both sides of a segment make a gap.
LEMMA GapTransitive ==
    ASSUME NEW e1 \in Bound, NEW s2 \in Bound, NEW e2 \in Bound, NEW s3 \in Bound,
           EndBeforeStartWithGap(e1, s2), ValidSegment(s2, e2), EndBeforeStartWithGap(e2, s3)
    PROVE  EndBeforeStartWithGap(e1, s3)
BY BoundCases DEF EndBeforeStartWithGap, ValidSegment

\* A gap before a start is one before any later start.
LEMMA GapBeforeLater ==
    ASSUME NEW e \in Bound, NEW s \in Bound, NEW t \in Bound,
           EndBeforeStartWithGap(e, s), LeftStartIsSmaller(s, t)
    PROVE  EndBeforeStartWithGap(e, t)
BY BoundCases DEF EndBeforeStartWithGap, LeftStartIsSmaller

\* The smallest of a set of numbers.
LEMMA SmallestOf ==
    ASSUME NEW T \in SUBSET Nat, T # {}
    PROVE  \E x \in T : \A y \in T : x <= y
<1>1. \E x \in T : \A y \in T : ~(<<y, x>> \in OpToRel(<, Nat))
  BY NatLessThanWellFounded, WFMin
<1>2. \A x \in T, y \in T : y < x => <<y, x>> \in OpToRel(<, Nat)
  BY DEF OpToRel
<1>3. \E x \in T : \A y \in T : ~(y < x)
  BY <1>1, <1>2, Zenon
<1> QED BY <1>3

-----------------------------------------------------------------------------
(* Sequences of segments *)

\* The elements of a range are segments, and these have bounds.
LEMMA RangeElements ==
    ASSUME NEW s \in Ranges
    PROVE  /\ Len(s) \in Nat /\ DOMAIN s = 1 .. Len(s)
           /\ \A k \in 1 .. Len(s) :
                 s[k] \in Segment /\ s[k].start \in Bound /\ s[k].end \in Bound
<1>1. Len(s) \in Nat /\ DOMAIN s = 1 .. Len(s) /\ \A k \in 1 .. Len(s) : s[k] \in Segment
  BY DEF Ranges
<1> QED BY <1>1 DEF Segment

\* A segment is its two bounds.
LEMMA SegmentBounds ==
    ASSUME NEW s \in Segment
    PROVE  s.start \in Bound /\ s.end \in Bound /\ s = Seg(s.start, s.end)
BY DEF Segment, Seg

\* Two bounds make a segment.
LEMMA SegForm ==
    ASSUME NEW s \in Bound, NEW e \in Bound
    PROVE  Seg(s, e) \in Segment /\ Seg(s, e).start = s /\ Seg(s, e).end = e
BY DEF Segment, Seg

\* The sets of versions, one version at a time.
LEMMA InSegment ==
    ASSUME NEW s, NEW v
    PROVE  v \in SegmentMembers(s)
              <=> v \in Versions /\ AfterStart(v, s.start) /\ BeforeEnd(v, s.end)
BY DEF SegmentMembers

LEMMA InMembers ==
    ASSUME NEW s, NEW v
    PROVE  v \in Members(s) <=> \E k \in DOMAIN s : v \in SegmentMembers(s[k])
BY DEF Members

LEMMA InMembersBefore ==
    ASSUME NEW s, NEW a, NEW v
    PROVE  v \in MembersBefore(s, a) <=> \E k \in DOMAIN s : k < a /\ v \in SegmentMembers(s[k])
BY DEF MembersBefore

\* A valid segment has a member.
LEMMA ValidHasMember ==
    ASSUME NEW s \in Segment, ValidSegment(s.start, s.end)
    PROVE  \E v \in Versions : v \in SegmentMembers(s)
<1>1. SegmentMembers(s) # {}
  BY SegmentBounds, ValidSegmentMeaning
<1> QED BY <1>1, InSegment

\* Neighbours apart are enough: what lies between two segments is valid.
LEMMA ProperIsWellFormed ==
    ASSUME NEW s
    PROVE  WellFormed(s) <=> Proper(s)
<1>1. ASSUME Proper(s) PROVE WellFormed(s)
  <2>1. s \in Ranges
    BY <1>1 DEF Proper
  <2> QED BY <1>1, <2>1, RangeElements DEF WellFormed, Proper, Apart, Ranges
<1>2. ASSUME WellFormed(s) PROVE Proper(s)
  <2>1. s \in Ranges
    BY <1>2 DEF WellFormed, Ranges
  <2>2. Len(s) \in Nat /\ DOMAIN s = 1 .. Len(s)
    BY <2>1, RangeElements
  <2> SUFFICES ASSUME NEW k \in DOMAIN s, NEW m0 \in DOMAIN s, k < m0,
                      ~EndBeforeStartWithGap(s[k].end, s[m0].start)
               PROVE  FALSE
    BY <1>2, <2>1 DEF Proper, Apart, WellFormed
  <2>3. PICK T : T = {m \in 1 .. Len(s) : k < m /\ ~EndBeforeStartWithGap(s[k].end, s[m].start)}
    OBVIOUS
  <2>4. T \in SUBSET Nat /\ T # {}
    BY <2>2, <2>3
  <2>5. PICK m \in T : \A y \in T : m <= y
    BY <2>4, SmallestOf
  <2>6. m \in 1 .. Len(s) /\ k < m /\ ~EndBeforeStartWithGap(s[k].end, s[m].start)
    BY <2>3, <2>5
  <2>7. k # m - 1
    BY <1>2, <2>2, <2>6 DEF WellFormed
  <2>8. m - 1 \in 1 .. Len(s) /\ k < m - 1 /\ ~(m <= m - 1)
    BY <2>2, <2>6, <2>7
  <2>9. EndBeforeStartWithGap(s[k].end, s[m - 1].start)
    BY <2>3, <2>5, <2>8
  <2>10. ValidSegment(s[m - 1].start, s[m - 1].end)
    BY <1>2, <2>2, <2>8 DEF WellFormed
  <2>11. EndBeforeStartWithGap(s[m - 1].end, s[m].start)
    <3>1. m - 1 \in 1 .. Len(s) - 1 /\ (m - 1) + 1 = m
      BY <2>2, <2>6, <2>8
    <3> QED BY <1>2, <3>1 DEF WellFormed
  <2>12. /\ s[k].end \in Bound /\ s[m - 1].start \in Bound /\ s[m - 1].end \in Bound
         /\ s[m].start \in Bound
    BY <2>1, <2>2, <2>6, <2>8, RangeElements
  <2> QED BY <2>6, <2>9, <2>10, <2>11, <2>12, GapTransitive
<1> QED BY <1>1, <1>2

\* The versions in one segment are not after the start of a later one.
LEMMA EarlierMembers ==
    ASSUME NEW s, Proper(s), NEW k \in DOMAIN s, NEW m \in DOMAIN s, k < m,
           NEW v \in Versions
    PROVE  ~(BeforeEnd(v, s[k].end) /\ AfterStart(v, s[m].start))
<1>1. s \in Ranges /\ EndBeforeStartWithGap(s[k].end, s[m].start)
  BY DEF Proper, Apart
<1>2. s[k].end \in Bound /\ s[m].start \in Bound
  BY <1>1, RangeElements
<1> QED BY <1>1, <1>2, GapSplits

\* A version after the start of a segment is after that of an earlier one; a
\* version before the end is before that of a later one.
LEMMA SegmentsOrdered ==
    ASSUME NEW s, Proper(s), NEW k \in DOMAIN s, NEW m \in DOMAIN s, k <= m,
           NEW v \in Versions
    PROVE  /\ AfterStart(v, s[m].start) => AfterStart(v, s[k].start)
           /\ BeforeEnd(v, s[k].end) => BeforeEnd(v, s[m].end)
<1>1. /\ s \in Ranges
      /\ ValidSegment(s[k].start, s[k].end) /\ ValidSegment(s[m].start, s[m].end)
  BY DEF Proper
<1>2. /\ Len(s) \in Nat /\ DOMAIN s = 1 .. Len(s)
      /\ s[k] \in Segment /\ s[m] \in Segment
      /\ s[k].start \in Bound /\ s[k].end \in Bound /\ s[m].start \in Bound /\ s[m].end \in Bound
  BY <1>1, RangeElements
<1>3. CASE k = m
  BY <1>3
<1>4. CASE k < m
  <2>1. PICK x \in Versions : x \in SegmentMembers(s[k])
    BY <1>1, <1>2, ValidHasMember
  <2>2. PICK y \in Versions : y \in SegmentMembers(s[m])
    BY <1>1, <1>2, ValidHasMember
  <2>3. /\ AfterStart(x, s[k].start) /\ BeforeEnd(x, s[k].end)
        /\ AfterStart(y, s[m].start) /\ BeforeEnd(y, s[m].end)
    BY <2>1, <2>2, InSegment
  <2>4. v \in Int /\ x \in Int /\ y \in Int
    BY VersionsAssumption
  <2>5. ASSUME AfterStart(v, s[m].start) PROVE AfterStart(v, s[k].start)
    <3>1. ~BeforeEnd(v, s[k].end)
      BY <1>4, <2>5, EarlierMembers
    <3>2. x <= v
      BY <1>2, <2>3, <2>4, <3>1, Monotone
    <3> QED BY <1>2, <2>3, <3>2, Monotone
  <2>6. ASSUME BeforeEnd(v, s[k].end) PROVE BeforeEnd(v, s[m].end)
    <3>1. ~AfterStart(v, s[m].start)
      BY <1>4, <2>6, EarlierMembers
    <3>2. v <= y
      BY <1>2, <2>3, <2>4, <3>1, Monotone
    <3> QED BY <1>2, <2>3, <3>2, Monotone
  <2> QED BY <2>5, <2>6
<1> QED BY <1>2, <1>3, <1>4

\* A sequence without segments, and one of a single segment.
LEMMA ProperSmall ==
    /\ Proper(<< >>) /\ Members(<< >>) = {}
    /\ \A s \in Segment : ValidSegment(s.start, s.end) =>
          Proper(<<s>>) /\ Members(<<s>>) = SegmentMembers(s)
<1>1. << >> \in Ranges /\ \A s \in Segment : <<s>> \in Ranges
  BY DEF Ranges
<1>2. Proper(<< >>) /\ Members(<< >>) = {}
  BY <1>1 DEF Proper, Apart, Members
<1>3. ASSUME NEW s \in Segment, ValidSegment(s.start, s.end)
      PROVE  Proper(<<s>>) /\ Members(<<s>>) = SegmentMembers(s)
  <2>1. PICK q : q = <<s>>
    OBVIOUS
  <2>2. DOMAIN q = {1} /\ q[1] = s /\ q \in Ranges
    BY <1>1, <2>1
  <2>3. Proper(q)
    BY <1>3, <2>2 DEF Proper, Apart
  <2>4. Members(q) = SegmentMembers(s)
    <3>1. \A v : v \in Members(q) <=> v \in SegmentMembers(s)
      BY <2>2, InMembers
    <3> QED BY <3>1
  <2> QED BY <2>1, <2>3, <2>4
<1> QED BY <1>2, <1>3

\* Two proper sequences, the first of which ends before the second starts.
LEMMA ConcatProper ==
    ASSUME NEW s, NEW t, Proper(s), Proper(t),
           \A k \in DOMAIN s, m \in DOMAIN t : EndBeforeStartWithGap(s[k].end, t[m].start)
    PROVE  Proper(s \o t)
<1>1. s \in Ranges /\ t \in Ranges
  BY DEF Proper
<1>2. PICK u : u = s \o t
  OBVIOUS
<1>3. /\ u \in Ranges /\ Len(u) = Len(s) + Len(t)
      /\ Len(s) \in Nat /\ DOMAIN s = 1 .. Len(s) /\ Len(t) \in Nat /\ DOMAIN t = 1 .. Len(t)
      /\ DOMAIN u = 1 .. Len(s) + Len(t)
  BY <1>1, <1>2, ConcatProperties, RangeElements DEF Ranges
<1>4. \A k \in 1 .. Len(s) : u[k] = s[k]
  BY <1>1, <1>2, <1>3, ConcatProperties DEF Ranges
<1>5. \A k \in Len(s) + 1 .. Len(s) + Len(t) : u[k] = t[k - Len(s)] /\ k - Len(s) \in 1 .. Len(t)
  BY <1>1, <1>2, <1>3, ConcatProperties DEF Ranges
<1>6. ASSUME NEW k \in DOMAIN u PROVE ValidSegment(u[k].start, u[k].end)
  <2>1. CASE k <= Len(s)
    BY <1>3, <1>4, <1>6, <2>1 DEF Proper
  <2>2. CASE Len(s) < k
    <3>1. k - Len(s) \in DOMAIN t /\ u[k] = t[k - Len(s)]
      BY <1>3, <1>5, <1>6, <2>2
    <3> QED BY <3>1 DEF Proper
  <2> QED BY <1>3, <2>1, <2>2
<1>7. ASSUME NEW k \in DOMAIN u, NEW m \in DOMAIN u, k < m
      PROVE  EndBeforeStartWithGap(u[k].end, u[m].start)
  <2>1. CASE m <= Len(s)
    <3>1. k \in DOMAIN s /\ m \in DOMAIN s /\ u[k] = s[k] /\ u[m] = s[m]
      BY <1>3, <1>4, <1>7, <2>1
    <3> QED BY <1>7, <3>1 DEF Proper, Apart
  <2>2. CASE k <= Len(s) /\ Len(s) < m
    <3>1. k \in DOMAIN s /\ m - Len(s) \in DOMAIN t /\ u[k] = s[k] /\ u[m] = t[m - Len(s)]
      BY <1>3, <1>4, <1>5, <1>7, <2>2
    <3> QED BY <3>1
  <2>3. CASE Len(s) < k
    <3>1. /\ k - Len(s) \in DOMAIN t /\ m - Len(s) \in DOMAIN t /\ k - Len(s) < m - Len(s)
          /\ u[k] = t[k - Len(s)] /\ u[m] = t[m - Len(s)]
      BY <1>3, <1>5, <1>7, <2>3
    <3> QED BY <3>1 DEF Proper, Apart
  <2> QED BY <1>3, <1>7, <2>1, <2>2, <2>3
<1> QED BY <1>2, <1>3, <1>6, <1>7 DEF Proper, Apart

\* A concatenation has the versions of both parts.
LEMMA ConcatMembers ==
    ASSUME NEW s \in Ranges, NEW t \in Ranges
    PROVE  s \o t \in Ranges /\ Members(s \o t) = Members(s) \cup Members(t)
<1>1. PICK u : u = s \o t
  OBVIOUS
<1>2. /\ u \in Ranges /\ Len(u) = Len(s) + Len(t)
      /\ Len(s) \in Nat /\ DOMAIN s = 1 .. Len(s) /\ Len(t) \in Nat /\ DOMAIN t = 1 .. Len(t)
      /\ DOMAIN u = 1 .. Len(s) + Len(t)
  BY <1>1, ConcatProperties, RangeElements DEF Ranges
<1>3. \A k \in 1 .. Len(s) : u[k] = s[k]
  BY <1>1, <1>2, ConcatProperties DEF Ranges
<1>4. \A k \in Len(s) + 1 .. Len(s) + Len(t) : u[k] = t[k - Len(s)] /\ k - Len(s) \in 1 .. Len(t)
  BY <1>1, <1>2, ConcatProperties DEF Ranges
<1>5. ASSUME NEW v, v \in Members(u) PROVE v \in Members(s) \cup Members(t)
  <2>1. PICK k \in DOMAIN u : v \in SegmentMembers(u[k])
    BY <1>5, InMembers
  <2>2. CASE k <= Len(s)
    BY <1>2, <1>3, <2>1, <2>2, InMembers
  <2>3. CASE Len(s) < k
    BY <1>2, <1>4, <2>1, <2>3, InMembers
  <2> QED BY <1>2, <2>1, <2>2, <2>3
<1>6. ASSUME NEW v, v \in Members(s) PROVE v \in Members(u)
  <2>1. PICK k \in DOMAIN s : v \in SegmentMembers(s[k])
    BY <1>6, InMembers
  <2>2. k \in DOMAIN u /\ u[k] = s[k]
    BY <1>2, <1>3, <2>1
  <2> QED BY <2>1, <2>2, InMembers
<1>7. ASSUME NEW v, v \in Members(t) PROVE v \in Members(u)
  <2>1. PICK k \in DOMAIN t : v \in SegmentMembers(t[k])
    BY <1>7, InMembers
  <2>2. k + Len(s) \in DOMAIN u /\ u[k + Len(s)] = t[k]
    <3>1. k + Len(s) \in Len(s) + 1 .. Len(s) + Len(t) /\ (k + Len(s)) - Len(s) = k
      BY <1>2, <2>1
    <3> QED BY <1>2, <1>4, <3>1
  <2> QED BY <2>1, <2>2, InMembers
<1> QED BY <1>1, <1>2, <1>5, <1>6, <1>7

\* A segment pushed behind the others.
LEMMA AppendProper ==
    ASSUME NEW s, Proper(s), NEW g \in Segment, ValidSegment(g.start, g.end),
           \A k \in DOMAIN s : EndBeforeStartWithGap(s[k].end, g.start)
    PROVE  /\ Proper(Append(s, g))
           /\ Members(Append(s, g)) = Members(s) \cup SegmentMembers(g)
<1>1. s \in Ranges /\ Proper(<<g>>) /\ Members(<<g>>) = SegmentMembers(g)
  BY ProperSmall DEF Proper
<1>2. Append(s, g) = s \o <<g>>
  BY <1>1 DEF Ranges
<1>3. PICK q : q = <<g>>
  OBVIOUS
<1>4. q \in Ranges /\ \A m \in DOMAIN q : q[m] = g
  BY <1>3 DEF Ranges
<1>5. Proper(s \o q) /\ Members(s \o q) = Members(s) \cup Members(q)
  BY <1>1, <1>3, <1>4, ConcatProper, ConcatMembers
<1> QED BY <1>1, <1>2, <1>3, <1>5

-----------------------------------------------------------------------------
(* intersection and is_disjoint: every pair of segments is passed, or still *)
(* to come.                                                                 *)

\* Of two ends one is the smaller.
LEMMA EndsTotal ==
    ASSUME NEW e \in Bound, NEW f \in Bound
    PROVE  LeftEndIsSmaller(e, f) \/ LeftEndIsSmaller(f, e)
BY BoundCases DEF LeftEndIsSmaller

\* The later of two starts does not depend on their order.
LEMMA LaterStartSymmetric ==
    ASSUME NEW s \in Bound, NEW t \in Bound
    PROVE  LaterStart(s, t) = LaterStart(t, s)
<1>1. CASE IsUnbounded(s) /\ IsUnbounded(t)
  <2>1. s = t
    BY <1>1 DEF Bound, IsUnbounded, Unbounded
  <2> QED BY <2>1
<1>2. CASE \/ IsUnbounded(s) /\ ~IsUnbounded(t)
           \/ IsUnbounded(t) /\ ~IsUnbounded(s)
  BY <1>2 DEF LaterStart
<1>3. CASE ~IsUnbounded(s) /\ ~IsUnbounded(t) /\ s.at # t.at
  BY <1>3, BoundCases DEF LaterStart
<1>4. CASE ~IsUnbounded(s) /\ ~IsUnbounded(t) /\ s.at = t.at
  <2>1. s \in [kind : {"Included", "Excluded"}, at : BoundVersions]
        /\ t \in [kind : {"Included", "Excluded"}, at : BoundVersions]
    BY <1>4 DEF Bound, IsUnbounded, Unbounded
  <2>2. s.kind = t.kind => s = t
    BY <1>4, <2>1
  <2> QED BY <1>4, <2>1, <2>2 DEF LaterStart, IsIncluded
<1> QED BY <1>1, <1>2, <1>3, <1>4 DEF IsUnbounded

\* The two ranges of a merge may change places.
LEMMA InPassedPairSwap ==
    ASSUME NEW l, NEW r, NEW a, NEW b, NEW v
    PROVE  InPassedPair(l, r, a, b, v) <=> InPassedPair(r, l, b, a, v)
BY DEF InPassedPair

LEMMA IntersectedSwap ==
    ASSUME NEW l, NEW r, NEW a, NEW b, NEW out
    PROVE  Intersected(l, r, a, b, out) <=> Intersected(r, l, b, a, out)
<1>1. \A end : EndIsPassed(l, r, a, b, end) <=> EndIsPassed(r, l, b, a, end)
  BY DEF EndIsPassed
<1> QED BY <1>1, InPassedPairSwap DEF Intersected

\* With the segment of l that ends first, the pairs of l with those of r
\* after its counterpart are passed without a common version.
LEMMA PassedStep ==
    ASSUME NEW l, NEW r, Proper(l), Proper(r), NEW a \in DOMAIN l, NEW b \in DOMAIN r,
           \A v \in Versions : BeforeEnd(v, l[a].end) => BeforeEnd(v, r[b].end),
           NEW v \in Versions
    PROVE  InPassedPair(l, r, a + 1, b, v)
              <=> InPassedPair(l, r, a, b, v)
                  \/ (v \in SegmentMembers(l[a]) /\ v \in SegmentMembers(r[b]))
<1>1. l \in Ranges /\ r \in Ranges
  BY DEF Proper
<1>2. /\ Len(l) \in Nat /\ DOMAIN l = 1 .. Len(l)
      /\ Len(r) \in Nat /\ DOMAIN r = 1 .. Len(r)
  BY <1>1, RangeElements
<1>3. ASSUME InPassedPair(l, r, a, b, v) PROVE InPassedPair(l, r, a + 1, b, v)
  BY <1>2, <1>3 DEF InPassedPair
<1>4. ASSUME v \in SegmentMembers(l[a]), v \in SegmentMembers(r[b])
      PROVE  InPassedPair(l, r, a + 1, b, v)
  <2>1. a < a + 1
    BY <1>2
  <2> QED BY <1>4, <2>1 DEF InPassedPair
<1>5. ASSUME InPassedPair(l, r, a + 1, b, v), ~InPassedPair(l, r, a, b, v)
      PROVE  v \in SegmentMembers(l[a]) /\ v \in SegmentMembers(r[b])
  <2>1. PICK k \in DOMAIN l : \E m \in DOMAIN r :
           (k < a + 1 \/ m < b) /\ v \in SegmentMembers(l[k]) /\ v \in SegmentMembers(r[m])
    BY <1>5 DEF InPassedPair
  <2>2. PICK m \in DOMAIN r :
           (k < a + 1 \/ m < b) /\ v \in SegmentMembers(l[k]) /\ v \in SegmentMembers(r[m])
    BY <2>1
  <2>3. ~(k < a) /\ ~(m < b)
    BY <1>5, <2>2 DEF InPassedPair
  <2>4. k = a /\ b <= m
    BY <1>2, <2>2, <2>3
  <2>5. BeforeEnd(v, r[b].end) /\ AfterStart(v, r[m].start)
    BY <2>2, <2>4, InSegment
  <2>6. ~(b < m)
    BY <2>5, EarlierMembers
  <2>7. b = m
    BY <1>2, <2>4, <2>6
  <2> QED BY <2>2, <2>4, <2>7
<1> QED BY <1>3, <1>4, <1>5

\* A step of intersection, when the left segment ends first.
LEMMA IntersectedStep ==
    ASSUME NEW l, NEW r, Proper(l), Proper(r), NEW a \in DOMAIN l, NEW b \in DOMAIN r, NEW out,
           Intersected(l, r, a, b, out), LeftEndIsSmaller(l[a].end, r[b].end),
           NEW new,
           new = IF ValidSegment(r[b].start, l[a].end)
                 THEN Append(out, Seg(LaterStart(l[a].start, r[b].start), l[a].end)) ELSE out
    PROVE  Intersected(l, r, a + 1, b, new)
<1>1. l \in Ranges /\ r \in Ranges /\ Proper(out)
  BY DEF Proper, Intersected
<1>2. /\ Len(l) \in Nat /\ DOMAIN l = 1 .. Len(l)
      /\ Len(r) \in Nat /\ DOMAIN r = 1 .. Len(r)
      /\ l[a] \in Segment /\ r[b] \in Segment
      /\ l[a].start \in Bound /\ l[a].end \in Bound /\ r[b].start \in Bound /\ r[b].end \in Bound
  BY <1>1, RangeElements
<1>3. PICK g : g = Seg(LaterStart(l[a].start, r[b].start), l[a].end)
  OBVIOUS
<1>4. LaterStart(l[a].start, r[b].start) \in {l[a].start, r[b].start}
  BY DEF LaterStart
<1>5. g \in Segment /\ g.start = LaterStart(l[a].start, r[b].start) /\ g.end = l[a].end
  BY <1>2, <1>3, <1>4, SegForm
<1>6. /\ SegmentMembers(g) = SegmentMembers(l[a]) \cap SegmentMembers(r[b])
      /\ ValidSegment(r[b].start, l[a].end)
            <=> SegmentMembers(l[a]) \cap SegmentMembers(r[b]) # {}
  <2>1. ValidSegment(l[a].start, l[a].end) /\ ValidSegment(r[b].start, r[b].end)
    BY DEF Proper
  <2> QED BY <1>2, <1>3, <2>1, IntersectionOfSegments
<1>7. \A v \in Versions : BeforeEnd(v, l[a].end) => BeforeEnd(v, r[b].end)
  BY <1>2, EndOrderMeaning
<1>8. \A v \in Versions :
         InPassedPair(l, r, a + 1, b, v) <=> InPassedPair(l, r, a, b, v) \/ v \in SegmentMembers(g)
  BY <1>6, <1>7, PassedStep
<1>9. \A end : EndIsPassed(l, r, a, b, end) => EndIsPassed(l, r, a + 1, b, end)
  BY <1>2 DEF EndIsPassed
<1>10. CASE ~ValidSegment(r[b].start, l[a].end)
  <2>1. new = out /\ SegmentMembers(g) = {}
    BY <1>6, <1>10
  <2> QED BY <1>8, <1>9, <2>1 DEF Intersected
<1>11. CASE ValidSegment(r[b].start, l[a].end)
  <2>1. new = Append(out, g)
    BY <1>3, <1>11
  <2>2. ValidSegment(g.start, g.end)
    <3>1. SegmentMembers(g) # {}
      BY <1>6, <1>11
    <3> QED BY <1>5, <3>1, SegmentBounds, ValidSegmentMeaning
  <2>3. ASSUME NEW x \in DOMAIN out PROVE EndBeforeStartWithGap(out[x].end, g.start)
    <3>1. EndIsPassed(l, r, a, b, out[x].end)
      BY DEF Intersected
    <3>2. /\ out[x].end \in Bound
          /\ LeftStartIsSmaller(l[a].start, g.start) /\ LeftStartIsSmaller(r[b].start, g.start)
      BY <1>1, <1>2, <1>5, RangeElements, BoundCases DEF LaterStart, LeftStartIsSmaller, Proper
    <3>3. CASE \E k \in DOMAIN l : k < a /\ l[k].end = out[x].end
      <4>1. EndBeforeStartWithGap(out[x].end, l[a].start)
        BY <3>3 DEF Proper, Apart
      <4> QED BY <1>2, <1>5, <3>2, <4>1, SegmentBounds, GapBeforeLater
    <3>4. CASE \E m \in DOMAIN r : m < b /\ r[m].end = out[x].end
      <4>1. EndBeforeStartWithGap(out[x].end, r[b].start)
        BY <3>4 DEF Proper, Apart
      <4> QED BY <1>2, <1>5, <3>2, <4>1, SegmentBounds, GapBeforeLater
    <3> QED BY <3>1, <3>3, <3>4 DEF EndIsPassed
  <2>4. Proper(new) /\ Members(new) = Members(out) \cup SegmentMembers(g)
    BY <1>1, <1>5, <2>1, <2>2, <2>3, AppendProper
  <2>5. ASSUME NEW x \in DOMAIN new PROVE EndIsPassed(l, r, a + 1, b, new[x].end)
    <3>1. /\ Len(out) \in Nat /\ DOMAIN out = 1 .. Len(out) /\ DOMAIN new = 1 .. Len(out) + 1
          /\ new[Len(out) + 1] = g /\ \A y \in 1 .. Len(out) : new[y] = out[y]
      BY <1>1, <1>5, <2>1, RangeElements DEF Proper, Ranges
    <3>2. CASE x \in DOMAIN out
      BY <1>9, <3>1, <3>2 DEF Intersected
    <3>3. CASE x = Len(out) + 1
      <4>1. new[x].end = l[a].end /\ a < a + 1
        BY <1>2, <1>5, <3>1, <3>3
      <4> QED BY <4>1 DEF EndIsPassed
    <3> QED BY <3>1, <3>2, <3>3
  <2>6. \A v \in Versions : v \in Members(new) <=> InPassedPair(l, r, a + 1, b, v)
    BY <1>8, <2>4 DEF Intersected
  <2> QED BY <2>4, <2>5, <2>6 DEF Intersected
<1> QED BY <1>10, <1>11

\* When one range is at its end, all pairs are passed.
LEMMA AllPassed ==
    ASSUME NEW l \in Ranges, NEW r \in Ranges, NEW a \in Int, NEW b \in Int,
           Len(l) < a \/ Len(r) < b, NEW v
    PROVE  InPassedPair(l, r, a, b, v) <=> v \in Members(l) /\ v \in Members(r)
<1>1. /\ Len(l) \in Nat /\ DOMAIN l = 1 .. Len(l)
      /\ Len(r) \in Nat /\ DOMAIN r = 1 .. Len(r)
  BY RangeElements
<1>2. ASSUME NEW k \in DOMAIN l, NEW m \in DOMAIN r PROVE k < a \/ m < b
  BY <1>1
<1> QED BY <1>2, InMembers DEF InPassedPair

\* At the beginning no pair is passed.
LEMMA NothingPassed ==
    ASSUME NEW l \in Ranges, NEW r \in Ranges, NEW v
    PROVE  ~InPassedPair(l, r, 1, 1, v)
<1>1. /\ DOMAIN l = 1 .. Len(l) /\ DOMAIN r = 1 .. Len(r) /\ Len(l) \in Nat /\ Len(r) \in Nat
  BY RangeElements
<1> QED BY <1>1 DEF InPassedPair

\* is_disjoint: a segment that ends before its counterpart starts is passed.
LEMMA DisjointPasses ==
    ASSUME NEW l, NEW r, Proper(l), Proper(r), NEW a \in DOMAIN l, NEW b \in DOMAIN r,
           \A v \in Versions : ~InPassedPair(l, r, a, b, v),
           ~ValidSegment(r[b].start, l[a].end)
    PROVE  \A v \in Versions : ~InPassedPair(l, r, a + 1, b, v)
<1>1. l \in Ranges /\ r \in Ranges
  BY DEF Proper
<1>2. /\ Len(l) \in Nat /\ DOMAIN l = 1 .. Len(l)
      /\ Len(r) \in Nat /\ DOMAIN r = 1 .. Len(r)
      /\ l[a].end \in Bound /\ r[b].start \in Bound
  BY <1>1, RangeElements
<1> SUFFICES ASSUME NEW v \in Versions, NEW k \in DOMAIN l, NEW m \in DOMAIN r,
                    k < a + 1 \/ m < b,
                    v \in SegmentMembers(l[k]), v \in SegmentMembers(r[m])
             PROVE  FALSE
  BY DEF InPassedPair
<1>3. ~(k < a) /\ ~(m < b)
  BY DEF InPassedPair
<1>4. k = a /\ b <= m
  BY <1>2, <1>3
<1>5. AfterStart(v, r[m].start) /\ BeforeEnd(v, l[a].end)
  BY <1>4, InSegment
<1>6. AfterStart(v, r[b].start)
  BY <1>4, <1>5, SegmentsOrdered
<1>7. PICK g : g = Seg(r[b].start, l[a].end)
  OBVIOUS
<1>8. g.start = r[b].start /\ g.end = l[a].end
  BY <1>2, <1>7, SegForm
<1>9. v \in SegmentMembers(g)
  BY <1>5, <1>6, <1>8, InSegment
<1> QED BY <1>2, <1>7, <1>9, ValidSegmentMeaning

\* Two segments neither of which ends before the other starts overlap.
LEMMA OverlapHasVersion ==
    ASSUME NEW s \in Segment, NEW t \in Segment,
           ValidSegment(s.start, s.end), ValidSegment(t.start, t.end),
           ValidSegment(t.start, s.end), ValidSegment(s.start, t.end)
    PROVE  SegmentMembers(s) \cap SegmentMembers(t) # {}
<1>1. LeftEndIsSmaller(s.end, t.end) \/ LeftEndIsSmaller(t.end, s.end)
  BY SegmentBounds, EndsTotal
<1>2. CASE LeftEndIsSmaller(s.end, t.end)
  BY <1>2, IntersectionOfSegments
<1>3. CASE LeftEndIsSmaller(t.end, s.end)
  BY <1>3, IntersectionOfSegments
<1> QED BY <1>1, <1>2, <1>3

-----------------------------------------------------------------------------
(* subset_of *)

\* A segment that is contained may be passed.
LEMMA SubsetPassesLeft ==
    ASSUME NEW l \in Ranges, NEW r \in Ranges, NEW a \in DOMAIN l, NEW b \in Int,
           ContainedSoFar(l, r, a, b), SegmentMembers(l[a]) \subseteq Members(r)
    PROVE  ContainedSoFar(l, r, a + 1, b)
<1>1. DOMAIN l = 1 .. Len(l) /\ Len(l) \in Nat
  BY RangeElements
<1>2. \A k \in DOMAIN l : (k < a + 1 => k < a \/ k = a) /\ (a + 1 <= k => a <= k)
  BY <1>1
<1> QED BY <1>2 DEF ContainedSoFar

\* The bounds that subset_of compares decide.
LEMMA SubsetContained ==
    ASSUME NEW s \in Segment, NEW t \in Segment, SegmentContained(s, t)
    PROVE  SegmentMembers(s) \subseteq SegmentMembers(t)
<1>1. /\ \A v \in Versions : AfterStart(v, s.start) => AfterStart(v, t.start)
      /\ \A v \in Versions : BeforeEnd(v, s.end) => BeforeEnd(v, t.end)
  BY SegmentBounds, StartOrderMeaning, EndOrderMeaning DEF SegmentContained
<1> QED BY <1>1, InSegment

\* A segment of r that ends before that of l starts is skipped.
LEMMA SubsetPassesRight ==
    ASSUME NEW l, NEW r, Proper(l), Proper(r), NEW a \in DOMAIN l, NEW b \in DOMAIN r,
           ContainedSoFar(l, r, a, b), EndsBefore(r[b], l[a])
    PROVE  ContainedSoFar(l, r, a, b + 1)
<1>1. l \in Ranges /\ r \in Ranges
  BY DEF Proper
<1>2. /\ DOMAIN r = 1 .. Len(r) /\ Len(r) \in Nat
      /\ l[a].start \in Bound /\ r[b].end \in Bound
  BY <1>1, RangeElements
<1>3. ASSUME NEW k \in DOMAIN l, a <= k, NEW v \in Versions,
             v \in SegmentMembers(l[k]), v \in SegmentMembers(r[b])
      PROVE  FALSE
  <2>1. AfterStart(v, l[a].start) /\ BeforeEnd(v, r[b].end)
    BY <1>3, InSegment, SegmentsOrdered
  <2>2. PICK g : g = Seg(l[a].start, r[b].end)
    OBVIOUS
  <2>3. g.start = l[a].start /\ g.end = r[b].end
    BY <1>2, <2>2, SegForm
  <2>4. v \in SegmentMembers(g)
    BY <2>1, <2>3, InSegment
  <2> QED BY <1>2, <2>2, <2>4, ValidSegmentMeaning DEF EndsBefore
<1>4. \A k \in DOMAIN l : a <= k => SegmentMembers(l[k]) \cap SegmentMembers(r[b]) = {}
  BY <1>3, InSegment
<1>5. \A m \in DOMAIN r : m < b + 1 => m < b \/ m = b
  BY <1>2
<1> QED BY <1>4, <1>5 DEF ContainedSoFar

\* With no segment of r left, or one that overlaps and does not contain, some
\* version is in no segment of r.
LEMMA SubsetMissesVersion ==
    ASSUME NEW l, NEW r, Proper(l), Proper(r), NEW a \in DOMAIN l,
           NEW b \in 1 .. Len(r) + 1, ContainedSoFar(l, r, a, b),
           b <= Len(r) => ~EndsBefore(r[b], l[a]) /\ ~SegmentContained(l[a], r[b])
    PROVE  ~(Members(l) \subseteq Members(r))
<1>1. l \in Ranges /\ r \in Ranges
  BY DEF Proper
<1>2. /\ DOMAIN r = 1 .. Len(r) /\ Len(r) \in Nat /\ b \in Int
      /\ l[a] \in Segment /\ l[a].start \in Bound /\ l[a].end \in Bound
      /\ ValidSegment(l[a].start, l[a].end)
  BY <1>1, RangeElements DEF Proper
<1>3. PICK x \in Versions : x \in SegmentMembers(l[a])
  BY <1>2, ValidHasMember
<1>4. x \in Int /\ AfterStart(x, l[a].start) /\ BeforeEnd(x, l[a].end)
  BY <1>3, InSegment, VersionsAssumption
\* It is enough to find a version that no segment from b on contains.
<1>5. ASSUME NEW v \in Versions, v \in SegmentMembers(l[a]),
             \A m \in DOMAIN r : b <= m => v \notin SegmentMembers(r[m])
      PROVE  ~(Members(l) \subseteq Members(r))
  <2>1. \A m \in DOMAIN r : m < b \/ b <= m
    BY <1>2
  <2>2. a <= a
    BY <1>1, RangeElements
  <2>3. v \notin Members(r)
    BY <1>5, <2>1, <2>2, InMembers DEF ContainedSoFar
  <2>4. v \in Members(l)
    BY <1>5, InMembers
  <2> QED BY <2>3, <2>4
<1>6. CASE Len(r) < b
  <2>1. \A m \in DOMAIN r : ~(b <= m)
    BY <1>2, <1>6
  <2> QED BY <1>3, <1>5, <2>1
<1>7. CASE b <= Len(r)
  <2>1. /\ b \in DOMAIN r /\ r[b].start \in Bound /\ r[b].end \in Bound
        /\ ValidSegment(l[a].start, r[b].end) /\ ~SegmentContained(l[a], r[b])
    BY <1>1, <1>2, <1>7, RangeElements DEF EndsBefore
  <2>2. CASE ~LeftStartIsSmaller(r[b].start, l[a].start)
    <3>1. PICK v \in Versions : AfterStart(v, l[a].start) /\ ~AfterStart(v, r[b].start)
      BY <1>2, <2>1, <2>2, StartOrderMeaning
    <3>2. v \in Int
      BY VersionsAssumption
    <3>3. ASSUME NEW w \in Versions, w \in SegmentMembers(l[a]), ~AfterStart(w, r[b].start)
          PROVE  ~(Members(l) \subseteq Members(r))
      <4>1. \A m \in DOMAIN r : b <= m => w \notin SegmentMembers(r[m])
        BY <2>1, <3>3, SegmentsOrdered, InSegment
      <4> QED BY <1>5, <3>3, <4>1
    <3>4. CASE BeforeEnd(v, l[a].end)
      BY <3>1, <3>3, <3>4, InSegment
    <3>5. CASE ~BeforeEnd(v, l[a].end)
      <4>1. x <= v
        BY <1>2, <1>4, <3>2, <3>5, Monotone
      <4>2. ~AfterStart(x, r[b].start)
        BY <2>1, <3>1, <4>1, Monotone
      <4> QED BY <1>3, <3>3, <4>2
    <3> QED BY <3>4, <3>5
  <2>3. CASE ~LeftEndIsSmaller(l[a].end, r[b].end)
    <3>1. PICK v \in Versions : BeforeEnd(v, l[a].end) /\ ~BeforeEnd(v, r[b].end)
      BY <1>2, <2>1, <2>3, EndOrderMeaning
    <3>2. PICK g : g = Seg(l[a].start, r[b].end)
      OBVIOUS
    <3>3. g \in Segment /\ g.start = l[a].start /\ g.end = r[b].end
      BY <1>2, <2>1, <3>2, SegForm
    <3>4. PICK w \in Versions : w \in SegmentMembers(g)
      BY <2>1, <3>3, ValidHasMember
    <3>5. v \in Int /\ w \in Int /\ AfterStart(w, l[a].start) /\ BeforeEnd(w, r[b].end)
      BY <3>3, <3>4, InSegment, VersionsAssumption
    <3>6. w <= v
      BY <2>1, <3>1, <3>5, Monotone
    <3>7. AfterStart(v, l[a].start)
      BY <1>2, <3>5, <3>6, Monotone
    <3>8. v \in SegmentMembers(l[a]) /\ v \notin SegmentMembers(r[b])
      BY <3>1, <3>7, InSegment
    <3>9. CASE \A m \in DOMAIN r : b <= m => v \notin SegmentMembers(r[m])
      BY <1>5, <3>8, <3>9
    <3>10. CASE \E m \in DOMAIN r : b <= m /\ v \in SegmentMembers(r[m])
      <4>1. PICK m \in DOMAIN r : b <= m /\ v \in SegmentMembers(r[m])
        BY <3>10
      <4>2. m # b
        BY <3>8, <4>1
      <4>3. b + 1 \in DOMAIN r /\ b < b + 1 /\ b + 1 <= m
        BY <1>2, <2>1, <4>1, <4>2
      <4>4. r[b + 1].start \in Bound /\ EndBeforeStartWithGap(r[b].end, r[b + 1].start)
        BY <1>1, <1>2, <2>1, <4>3, RangeElements DEF Proper, Apart
      <4>5. PICK y \in Versions : ~BeforeEnd(y, r[b].end) /\ ~AfterStart(y, r[b + 1].start)
        BY <2>1, <4>4, GapMeaning
      <4>6. AfterStart(v, r[b + 1].start)
        BY <4>1, <4>3, InSegment, SegmentsOrdered
      <4>7. y \in Int
        BY VersionsAssumption
      <4>8. y <= v /\ w <= y
        BY <2>1, <3>5, <4>4, <4>5, <4>6, <4>7, Monotone
      <4>9. y \in SegmentMembers(l[a])
        <5>1. AfterStart(y, l[a].start)
          BY <1>2, <3>5, <4>8, Monotone
        <5>2. BeforeEnd(y, l[a].end)
          BY <1>2, <3>1, <4>8, Monotone
        <5> QED BY <5>1, <5>2, InSegment
      <4>10. ASSUME NEW z \in DOMAIN r, b <= z, y \in SegmentMembers(r[z]) PROVE FALSE
        <5>1. z # b
          BY <4>5, <4>10, InSegment
        <5>2. b + 1 <= z
          BY <1>2, <2>1, <4>10, <5>1
        <5>3. AfterStart(y, r[b + 1].start)
          BY <4>3, <4>10, <5>2, InSegment, SegmentsOrdered
        <5> QED BY <4>5, <5>3
      <4> QED BY <1>5, <4>9, <4>10
    <3> QED BY <3>9, <3>10
  <2> QED BY <2>1, <2>2, <2>3 DEF SegmentContained
<1> QED BY <1>2, <1>6, <1>7

\* All segments of l passed are contained.
LEMMA SubsetAllPassed ==
    ASSUME NEW l \in Ranges, NEW r, NEW a \in Int, NEW b, Len(l) < a, ContainedSoFar(l, r, a, b)
    PROVE  Members(l) \subseteq Members(r)
<1>1. \A k \in DOMAIN l : k < a
  BY RangeElements
<1> QED BY <1>1, InMembers DEF ContainedSoFar

-----------------------------------------------------------------------------
(* union *)

\* Segments are in the order of their starts.
LEMMA StartsOrdered ==
    ASSUME NEW s, Proper(s), NEW k \in DOMAIN s, NEW m \in DOMAIN s, k <= m
    PROVE  LeftStartIsSmaller(s[k].start, s[m].start)
<1>1. s[k].start \in Bound /\ s[m].start \in Bound
  BY RangeElements DEF Proper
<1>2. \A v \in Versions : AfterStart(v, s[m].start) => AfterStart(v, s[k].start)
  BY SegmentsOrdered
<1> QED BY <1>1, <1>2, StartOrderMeaning

\* The order of starts is one.
LEMMA StartsTransitive ==
    ASSUME NEW s \in Bound, NEW t \in Bound, NEW u \in Bound,
           LeftStartIsSmaller(s, t), LeftStartIsSmaller(t, u)
    PROVE  LeftStartIsSmaller(s, u)
BY BoundCases DEF LeftStartIsSmaller

LEMMA StartsTotal ==
    ASSUME NEW s \in Bound, NEW t \in Bound
    PROVE  LeftStartIsSmaller(s, s) /\ (LeftStartIsSmaller(s, t) \/ LeftStartIsSmaller(t, s))
BY BoundCases DEF LeftStartIsSmaller

\* The later end lets through what either end does.
LEMMA LaterEndMeaning ==
    ASSUME NEW e \in Bound, NEW f \in Bound
    PROVE  /\ LaterEnd(e, f) \in Bound
           /\ \A v \in Versions :
                 BeforeEnd(v, LaterEnd(e, f)) <=> BeforeEnd(v, e) \/ BeforeEnd(v, f)
<1>1. Unbounded \in Bound /\ IsUnbounded(Unbounded)
  BY DEF Bound, IsUnbounded, Unbounded
<1>2. LaterEnd(e, f) \in {e, f, Unbounded}
  BY DEF LaterEnd
<1>3. CASE IsUnbounded(e) \/ IsUnbounded(f)
  BY <1>1, <1>3 DEF LaterEnd, BeforeEnd
<1>4. CASE ~IsUnbounded(e) /\ ~IsUnbounded(f)
  BY <1>1, <1>2, <1>4, BoundCases, VersionsAssumption DEF LaterEnd, BeforeEnd
<1> QED BY <1>1, <1>2, <1>3, <1>4

\* A segment that starts in another, or touches it, extends it.
LEMMA UnionOfSegments ==
    ASSUME NEW s \in Segment, NEW t \in Segment,
           ValidSegment(s.start, s.end), ValidSegment(t.start, t.end),
           LeftStartIsSmaller(s.start, t.start), ~EndBeforeStartWithGap(s.end, t.start)
    PROVE  LET g == Seg(s.start, LaterEnd(s.end, t.end))
           IN  /\ g \in Segment /\ g.start = s.start /\ ValidSegment(g.start, g.end)
               /\ SegmentMembers(g) = SegmentMembers(s) \cup SegmentMembers(t)
<1>1. s.start \in Bound /\ s.end \in Bound /\ t.start \in Bound /\ t.end \in Bound
  BY SegmentBounds
<1>2. PICK g : g = Seg(s.start, LaterEnd(s.end, t.end))
  OBVIOUS
<1>3. /\ g \in Segment /\ g.start = s.start
      /\ \A v \in Versions : BeforeEnd(v, g.end) <=> BeforeEnd(v, s.end) \/ BeforeEnd(v, t.end)
  BY <1>1, <1>2, LaterEndMeaning, SegForm
<1>4. \A v \in Versions : AfterStart(v, t.start) => AfterStart(v, s.start)
  BY <1>1, StartOrderMeaning
<1>5. \A v \in Versions : BeforeEnd(v, s.end) \/ AfterStart(v, t.start)
  BY <1>1, GapMeaning
<1>6. \A v \in Versions : v \in SegmentMembers(g)
                             <=> v \in SegmentMembers(s) \/ v \in SegmentMembers(t)
  BY <1>3, <1>4, <1>5, InSegment
<1>7. SegmentMembers(g) = SegmentMembers(s) \cup SegmentMembers(t)
  BY <1>6, InSegment
<1>8. SegmentMembers(g) # {}
  BY <1>7, ValidHasMember
<1>9. ValidSegment(g.start, g.end)
  BY <1>3, <1>8, SegmentBounds, ValidSegmentMeaning
<1> QED BY <1>2, <1>3, <1>7, <1>9

\* The accumulator has one segment.
LEMMA ConcatOne ==
    ASSUME NEW s \in Ranges, NEW t \in Ranges, Len(t) = 1
    PROVE  /\ t[1] \in Segment /\ t = <<t[1]>> /\ DOMAIN t = {1}
           /\ s \o t = Append(s, t[1])
<1>1. t[1] \in Segment /\ DOMAIN t = {1}
  <2>1. DOMAIN t = 1 .. 1 /\ \A k \in 1 .. 1 : t[k] \in Segment
    BY RangeElements
  <2> QED BY <2>1
<1>2. PICK g : g = t[1]
  OBVIOUS
<1>3. <<g>> \in Ranges /\ Len(<<g>>) = 1 /\ <<g>>[1] = g
  BY <1>1, <1>2 DEF Ranges
<1>4. t = <<g>>
  BY <1>2, <1>3, SeqEqual DEF Ranges
<1>5. s \o <<g>> = Append(s, g)
  BY <1>1, <1>2 DEF Ranges
<1> QED BY <1>1, <1>2, <1>4, <1>5

\* What is true of a range without its last segment.
LEMMA AppendParts ==
    ASSUME NEW s \in Ranges, NEW g \in Segment, Proper(Append(s, g))
    PROVE  /\ Proper(s) /\ ValidSegment(g.start, g.end)
           /\ \A k \in DOMAIN s : EndBeforeStartWithGap(s[k].end, g.start)
           /\ Members(Append(s, g)) = Members(s) \cup SegmentMembers(g)
<1>1. PICK u : u = Append(s, g)
  OBVIOUS
<1>2. /\ Len(s) \in Nat /\ DOMAIN s = 1 .. Len(s) /\ DOMAIN u = 1 .. Len(s) + 1
      /\ u[Len(s) + 1] = g /\ \A k \in 1 .. Len(s) : u[k] = s[k]
  BY <1>1, RangeElements DEF Ranges
<1>3. ValidSegment(g.start, g.end) /\ \A k \in DOMAIN s : ValidSegment(s[k].start, s[k].end)
  BY <1>1, <1>2 DEF Proper
<1>4. ASSUME NEW k \in DOMAIN s PROVE EndBeforeStartWithGap(s[k].end, g.start)
  <2>1. k \in DOMAIN u /\ Len(s) + 1 \in DOMAIN u /\ k < Len(s) + 1 /\ u[k] = s[k]
    BY <1>2
  <2> QED BY <1>1, <1>2, <2>1 DEF Proper, Apart
<1>5. ASSUME NEW k \in DOMAIN s, NEW m \in DOMAIN s, k < m
      PROVE  EndBeforeStartWithGap(s[k].end, s[m].start)
  <2>1. k \in DOMAIN u /\ m \in DOMAIN u /\ u[k] = s[k] /\ u[m] = s[m]
    BY <1>2
  <2> QED BY <1>1, <1>5, <2>1 DEF Proper, Apart
<1>6. Proper(s)
  BY <1>3, <1>5 DEF Proper, Apart
<1> QED BY <1>3, <1>4, <1>6, AppendProper

\* A step of the iterator adds the versions of its segment.
LEMMA MembersBeforeNext ==
    ASSUME NEW s \in Ranges, NEW a \in DOMAIN s
    PROVE  MembersBefore(s, a + 1) = MembersBefore(s, a) \cup SegmentMembers(s[a])
<1>1. DOMAIN s = 1 .. Len(s) /\ Len(s) \in Nat
  BY RangeElements
<1>2. \A k \in DOMAIN s : k < a + 1 <=> k < a \/ k = a
  BY <1>1
<1>3. \A v : v \in MembersBefore(s, a + 1)
                <=> v \in MembersBefore(s, a) \/ v \in SegmentMembers(s[a])
  BY <1>2, InMembersBefore
<1> QED BY <1>3

\* What is before the iterator at its first and its last place.
LEMMA MembersBeforeEnds ==
    ASSUME NEW s \in Ranges
    PROVE  /\ MembersBefore(s, 1) = {}
           /\ \A a \in Int : Len(s) < a => MembersBefore(s, a) = Members(s)
<1>1. DOMAIN s = 1 .. Len(s) /\ Len(s) \in Nat
  BY RangeElements
<1>2. \A v : v \notin MembersBefore(s, 1)
  BY <1>1, InMembersBefore
<1>3. ASSUME NEW a \in Int, Len(s) < a PROVE MembersBefore(s, a) = Members(s)
  <2>1. \A k \in DOMAIN s : k < a
    BY <1>1, <1>3
  <2>2. \A v : v \in MembersBefore(s, a) <=> v \in Members(s)
    BY <2>1, InMembersBefore, InMembers
  <2> QED BY <2>2
<1> QED BY <1>2, <1>3

\* union treats left and right alike.
LEMMA UnitedSwap ==
    ASSUME NEW l, NEW r, NEW a, NEW b, NEW accu, NEW out
    PROVE  United(l, r, a, b, accu, out) <=> United(r, l, b, a, accu, out)
<1>1. MembersBefore(l, a) \cup MembersBefore(r, b) = MembersBefore(r, b) \cup MembersBefore(l, a)
  OBVIOUS
<1> QED BY <1>1 DEF United

\* The segment of l that is next, because none of r starts before it, is
\* merged into the accumulator or takes its place.
LEMMA UnitedStep ==
    ASSUME NEW l, NEW r, Proper(l), Proper(r), NEW a \in DOMAIN l, NEW b \in 1 .. Len(r) + 1,
           b <= Len(r) => LeftStartIsSmaller(l[a].start, r[b].start),
           NEW accu, NEW out \in Ranges, United(l, r, a, b, accu, out),
           NEW accu2, NEW out2,
           IF accu = << >> \/ EndBeforeStartWithGap(accu[1].end, l[a].start)
           THEN out2 = out \o accu /\ accu2 = <<l[a]>>
           ELSE /\ accu2 = <<Seg(accu[1].start, LaterEnd(accu[1].end, l[a].end))>>
                /\ out2 = out
    PROVE  United(l, r, a + 1, b, accu2, out2) /\ out2 \in Ranges
<1>1. l \in Ranges /\ r \in Ranges /\ accu \in Ranges
  BY DEF Proper, United
<1>2. /\ Len(l) \in Nat /\ DOMAIN l = 1 .. Len(l) /\ \A k \in DOMAIN l : l[k].start \in Bound
      /\ Len(r) \in Nat /\ DOMAIN r = 1 .. Len(r) /\ \A k \in DOMAIN r : r[k].start \in Bound
      /\ l[a] \in Segment /\ ValidSegment(l[a].start, l[a].end)
      /\ l[a].start \in Bound /\ l[a].end \in Bound
  BY <1>1, RangeElements DEF Proper
<1>3. PICK g : g = l[a]
  OBVIOUS
<1>4. \A k \in DOMAIN l : a + 1 <= k => a <= k /\ LeftStartIsSmaller(g.start, l[k].start)
  <2>1. \A k \in DOMAIN l : a + 1 <= k => a <= k
    BY <1>2
  <2> QED BY <1>3, <2>1, StartsOrdered
<1>5. ASSUME NEW k \in DOMAIN r, b <= k PROVE LeftStartIsSmaller(g.start, r[k].start)
  <2>1. b \in DOMAIN r /\ b <= Len(r)
    BY <1>2, <1>5
  <2>2. LeftStartIsSmaller(r[b].start, r[k].start)
    BY <1>5, <2>1, StartsOrdered
  <2> QED BY <1>2, <1>3, <1>5, <2>1, <2>2, StartsTransitive
<1>6. MembersBefore(l, a + 1) = MembersBefore(l, a) \cup SegmentMembers(g)
  BY <1>1, <1>3, MembersBeforeNext
<1>7. CASE accu = << >> \/ EndBeforeStartWithGap(accu[1].end, g.start)
  <2>1. out2 = out \o accu /\ accu2 = <<g>>
    BY <1>3, <1>7
  <2>2. Proper(out2) /\ Members(out2) = MembersBefore(l, a) \cup MembersBefore(r, b)
    BY <2>1 DEF United
  <2>3. out2 \in Ranges
    BY <2>2 DEF Proper
  <2>4. ASSUME NEW k \in DOMAIN out2 PROVE EndBeforeStartWithGap(out2[k].end, g.start)
    <3>1. CASE accu = << >>
      <4>1. out2 = << >>
        BY <2>1, <3>1, ConcatEmptySeq DEF United, Ranges
      <4> QED BY <4>1
    <3>2. CASE accu # << >>
      <4>1. Len(accu) = 1
        BY <1>1, <3>2 DEF United, Ranges
      <4>2. PICK c : c = accu[1]
        OBVIOUS
      <4>3. out2 = Append(out, c) /\ c \in Segment /\ 1 \in DOMAIN accu
        BY <1>1, <2>1, <4>1, <4>2, ConcatOne
      <4>4. c.start \in Bound /\ c.end \in Bound /\ EndBeforeStartWithGap(c.end, g.start)
        BY <1>7, <3>2, <4>2, <4>3, SegmentBounds
      <4>5. /\ Len(out) \in Nat /\ DOMAIN out = 1 .. Len(out) /\ DOMAIN out2 = 1 .. Len(out) + 1
            /\ out2[Len(out) + 1] = c /\ \A x \in 1 .. Len(out) : out2[x] = out[x]
        BY <4>3, RangeElements DEF Ranges
      <4>6. CASE k = Len(out) + 1
        BY <4>4, <4>5, <4>6
      <4>7. CASE k \in DOMAIN out
        <5>1. EndBeforeStartWithGap(out[k].end, c.start) /\ out[k].end \in Bound
          BY <2>2, <4>3, <4>5, <4>7, AppendParts, RangeElements
        <5>2. LeftStartIsSmaller(c.start, g.start)
          <6>1. a <= a
            BY <1>2
          <6> QED BY <1>3, <4>2, <4>3, <6>1 DEF United, StartsBefore
        <5> QED BY <1>2, <1>3, <4>4, <4>5, <4>7, <5>1, <5>2, GapBeforeLater
      <4> QED BY <4>5, <4>6, <4>7
    <3> QED BY <3>1, <3>2
  <2>5. Proper(Append(out2, g)) /\ Members(Append(out2, g)) = Members(out2) \cup SegmentMembers(g)
    BY <1>2, <1>3, <2>2, <2>4, AppendProper
  <2>6. accu2 \in Ranges /\ Len(accu2) = 1 /\ accu2 # << >> /\ DOMAIN accu2 = {1} /\ accu2[1] = g
    BY <1>2, <1>3, <2>1 DEF Ranges
  <2>7. out2 \o accu2 = Append(out2, g)
    BY <2>3, <2>6, ConcatOne
  <2>8. Members(out2 \o accu2) = MembersBefore(l, a + 1) \cup MembersBefore(r, b)
    BY <1>6, <2>2, <2>5, <2>7
  <2>9. StartsBefore(accu2, l, a + 1) /\ StartsBefore(accu2, r, b)
    BY <1>4, <1>5, <2>6 DEF StartsBefore
  <2> QED BY <2>3, <2>5, <2>6, <2>7, <2>8, <2>9 DEF United
<1>8. CASE ~(accu = << >> \/ EndBeforeStartWithGap(accu[1].end, g.start))
  <2>1. Len(accu) = 1
    BY <1>1, <1>8 DEF United, Ranges
  <2>2. PICK c : c = accu[1]
    OBVIOUS
  <2>3. PICK h : h = Seg(c.start, LaterEnd(c.end, g.end))
    OBVIOUS
  <2>4. out2 = out /\ accu2 = <<h>>
    BY <1>3, <1>8, <2>2, <2>3
  <2>5. out \o accu = Append(out, c) /\ c \in Segment /\ 1 \in DOMAIN accu
    BY <1>1, <2>1, <2>2, ConcatOne
  <2>6. /\ Proper(Append(out, c))
        /\ Members(Append(out, c)) = MembersBefore(l, a) \cup MembersBefore(r, b)
    BY <2>5 DEF United
  <2>7. /\ Proper(out) /\ ValidSegment(c.start, c.end)
        /\ \A k \in DOMAIN out : EndBeforeStartWithGap(out[k].end, c.start)
        /\ Members(Append(out, c)) = Members(out) \cup SegmentMembers(c)
    BY <2>5, <2>6, AppendParts
  <2>8. LeftStartIsSmaller(c.start, g.start)
    <3>1. a <= a
      BY <1>2
    <3> QED BY <1>3, <2>2, <2>5, <3>1 DEF United, StartsBefore
  <2>9. /\ h \in Segment /\ h.start = c.start /\ ValidSegment(h.start, h.end)
        /\ SegmentMembers(h) = SegmentMembers(c) \cup SegmentMembers(g)
    BY <1>2, <1>3, <1>8, <2>2, <2>3, <2>5, <2>7, <2>8, UnionOfSegments
  <2>10. Proper(Append(out, h)) /\ Members(Append(out, h)) = Members(out) \cup SegmentMembers(h)
    BY <2>7, <2>9, AppendProper
  <2>11. accu2 \in Ranges /\ Len(accu2) = 1 /\ accu2 # << >> /\ DOMAIN accu2 = {1} /\ accu2[1] = h
    BY <2>4, <2>9 DEF Ranges
  <2>12. out2 \o accu2 = Append(out, h)
    BY <2>4, <2>11, ConcatOne
  <2>13. Members(out2 \o accu2) = MembersBefore(l, a + 1) \cup MembersBefore(r, b)
    BY <1>6, <2>6, <2>7, <2>9, <2>10, <2>12
  <2>14. StartsBefore(accu2, l, a + 1) /\ StartsBefore(accu2, r, b)
    BY <1>4, <2>2, <2>5, <2>9, <2>11 DEF StartsBefore, United
  <2> QED BY <2>4, <2>10, <2>11, <2>12, <2>13, <2>14 DEF United
<1> QED BY <1>7, <1>8

-----------------------------------------------------------------------------
(* complement *)

\* The flipped bound is the other side of the cut.
LEMMA FlipMeaning ==
    ASSUME NEW b \in Bound
    PROVE  /\ Flip(b) \in Bound
           /\ IsUnbounded(Flip(b)) <=> IsUnbounded(b)
           /\ ~IsUnbounded(b) => \A v \in Versions :
                 /\ AfterStart(v, Flip(b)) <=> ~BeforeEnd(v, b)
                 /\ BeforeEnd(v, Flip(b)) <=> ~AfterStart(v, b)
<1>1. CASE IsUnbounded(b)
  BY <1>1 DEF Flip, IsUnbounded, Unbounded, Bound
<1>2. CASE ~IsUnbounded(b)
  <2>1. b \in [kind : {"Included", "Excluded"}, at : BoundVersions]
    BY <1>2 DEF Bound, IsUnbounded, Unbounded
  <2>2. PICK f : f = Flip(b)
    OBVIOUS
  <2>3. /\ f.at = b.at /\ f.kind \in {"Included", "Excluded"}
        /\ f.kind = "Included" <=> b.kind # "Included"
        /\ f \in [kind : {"Included", "Excluded"}, at : BoundVersions]
    BY <1>2, <2>1, <2>2 DEF Flip, Included, Excluded, IsIncluded
  <2>4. b.at \in Int
    BY <1>2, BoundCases
  <2>5. f \in Bound /\ ~IsUnbounded(f)
    BY <2>3 DEF Bound, IsUnbounded
  <2>6. ASSUME NEW v \in Versions
        PROVE  /\ AfterStart(v, f) <=> ~BeforeEnd(v, b)
               /\ BeforeEnd(v, f) <=> ~AfterStart(v, b)
    <3>1. v \in Int
      BY VersionsAssumption
    <3> QED BY <1>2, <2>3, <2>4, <2>5, <3>1 DEF AfterStart, BeforeEnd, IsIncluded
  <2> QED BY <1>2, <2>2, <2>5, <2>6
<1> QED BY <1>1, <1>2

\* What lies in a gap is a segment.
LEMMA GapIsSegment ==
    ASSUME NEW e \in Bound, NEW s \in Bound, EndBeforeStartWithGap(e, s)
    PROVE  ValidSegment(Flip(e), Flip(s))
<1>1. ~IsUnbounded(e) /\ ~IsUnbounded(s)
  BY DEF EndBeforeStartWithGap
<1>2. PICK v \in Versions : ~BeforeEnd(v, e) /\ ~AfterStart(v, s)
  BY GapMeaning
<1>3. /\ Flip(e) \in Bound /\ Flip(s) \in Bound
      /\ AfterStart(v, Flip(e)) /\ BeforeEnd(v, Flip(s))
  BY <1>1, <1>2, FlipMeaning
<1>4. PICK g : g = Seg(Flip(e), Flip(s))
  OBVIOUS
<1>5. v \in SegmentMembers(g)
  BY <1>3, <1>4, SegForm, InSegment
<1> QED BY <1>3, <1>4, <1>5, ValidSegmentMeaning

\* The segments that negate_segments makes, one by one.
NegatedStart(start, s, k) == IF k = 1 THEN start ELSE Flip(s[k - 1].end)

\* The segments that negate_segments makes.
LEMMA NegatedElements ==
    ASSUME NEW start \in Bound, NEW s \in Ranges
    PROVE  LET n == Len(s)
               u == NegateSegments(start, s)
               open == ~IsUnbounded(NegatedStart(start, s, n + 1))
           IN  /\ u \in Ranges
               /\ DOMAIN u = 1 .. (IF open THEN n + 1 ELSE n)
               /\ \A k \in 1 .. n : /\ u[k].start = NegatedStart(start, s, k)
                                    /\ u[k].end = Flip(s[k].start)
               /\ open => /\ u[n + 1].start = NegatedStart(start, s, n + 1)
                          /\ u[n + 1].end = Unbounded
<1>1. PICK n \in Nat : n = Len(s)
  BY RangeElements
<1>2. PICK f : f = [k \in 1 .. n + 1 |-> IF k = 1 THEN start ELSE Flip(s[k - 1].end)]
  OBVIOUS
<1>3. \A k \in 1 .. n + 1 : f[k] = NegatedStart(start, s, k) /\ f[k] \in Bound
  <2> SUFFICES ASSUME NEW k \in 1 .. n + 1
               PROVE  f[k] = NegatedStart(start, s, k) /\ f[k] \in Bound
    OBVIOUS
  <2>1. f[k] = NegatedStart(start, s, k)
    BY <1>2 DEF NegatedStart
  <2>2. CASE k = 1
    BY <2>1, <2>2 DEF NegatedStart
  <2>3. CASE k # 1
    <3>1. k - 1 \in 1 .. Len(s)
      BY <1>1, <2>3
    <3>2. s[k - 1].end \in Bound
      BY <3>1, RangeElements
    <3> QED BY <2>1, <2>3, <3>2, FlipMeaning DEF NegatedStart
  <2> QED BY <2>2, <2>3
<1>4. PICK x : x = [k \in 1 .. n |-> Seg(f[k], Flip(s[k].start))]
  OBVIOUS
<1>5. PICK y : y = IF IsUnbounded(f[n + 1]) THEN << >> ELSE <<Seg(f[n + 1], Unbounded)>>
  OBVIOUS
<1>6. NegateSegments(start, s) = x \o y
  BY <1>1, <1>2, <1>4, <1>5 DEF NegateSegments
<1>7. \A k \in 1 .. n : x[k] \in Segment /\ x[k].start = f[k] /\ x[k].end = Flip(s[k].start)
  <2> SUFFICES ASSUME NEW k \in 1 .. n
               PROVE  x[k] \in Segment /\ x[k].start = f[k] /\ x[k].end = Flip(s[k].start)
    OBVIOUS
  <2>1. f[k] \in Bound /\ Flip(s[k].start) \in Bound
    BY <1>1, <1>3, RangeElements, FlipMeaning
  <2>2. x[k] = Seg(f[k], Flip(s[k].start))
    BY <1>4
  <2> QED BY <2>1, <2>2, SegForm
<1>8. x \in [1 .. n -> Segment]
  BY <1>4, <1>7
<1>9. x \in Ranges /\ Len(x) = n
  BY <1>8 DEF Ranges
<1>10. f[n + 1] = NegatedStart(start, s, n + 1) /\ f[n + 1] \in Bound /\ Unbounded \in Bound
  BY <1>3 DEF Bound
<1>11. PICK u : u = x \o y
  OBVIOUS
<1>12. CASE IsUnbounded(f[n + 1])
  <2>1. u = x /\ DOMAIN u = 1 .. n
    BY <1>5, <1>8, <1>9, <1>11, <1>12, ConcatEmptySeq DEF Ranges
  <2> QED BY <1>1, <1>3, <1>6, <1>7, <1>9, <1>10, <1>11, <1>12, <2>1
<1>13. CASE ~IsUnbounded(f[n + 1])
  <2>1. PICK g : g = Seg(f[n + 1], Unbounded)
    OBVIOUS
  <2>2. g \in Segment /\ g.start = f[n + 1] /\ g.end = Unbounded /\ y = <<g>>
    BY <1>5, <1>10, <1>13, <2>1, SegForm
  <2>3. u = Append(x, g)
    BY <1>9, <1>11, <2>2 DEF Ranges
  <2>4. u \in Ranges /\ DOMAIN u = 1 .. n + 1 /\ u[n + 1] = g /\ \A k \in 1 .. n : u[k] = x[k]
    BY <1>9, <2>2, <2>3 DEF Ranges
  <2> QED BY <1>1, <1>3, <1>6, <1>7, <1>10, <1>11, <1>13, <2>2, <2>4
<1> QED BY <1>12, <1>13

\* negate_segments: the versions from `start' on that are in no segment, if
\* there are versions after `start' and before the first segment.
LEMMA NegateSegmentsMeaning ==
    ASSUME NEW start \in Bound, NEW s, Proper(s),
           s = << >> => ~IsUnbounded(start),
           s # << >> => ~IsUnbounded(s[1].start) /\ ValidSegment(start, Flip(s[1].start))
    PROVE  /\ Proper(NegateSegments(start, s))
           /\ \A v \in Versions : v \in Members(NegateSegments(start, s))
                                     <=> AfterStart(v, start) /\ v \notin Members(s)
<1>1. s \in Ranges
  BY DEF Proper
<1>2. PICK n \in Nat : n = Len(s)
  BY <1>1, RangeElements
<1>3. /\ DOMAIN s = 1 .. n /\ (n = 0 => s = << >>) /\ (0 < n => s # << >>)
      /\ \A k \in 1 .. n : s[k] \in Segment /\ s[k].start \in Bound /\ s[k].end \in Bound
                           /\ ValidSegment(s[k].start, s[k].end)
  <2>1. DOMAIN s = 1 .. n /\ (n = 0 => s = << >>) /\ (0 < n => s # << >>)
    BY <1>1, <1>2, RangeElements, EmptySeq DEF Ranges
  <2> QED BY <1>1, <1>2, <2>1, RangeElements DEF Proper
<1>4. PICK u : u = NegateSegments(start, s)
  OBVIOUS
<1>5. PICK open \in BOOLEAN : open <=> ~IsUnbounded(NegatedStart(start, s, n + 1))
  OBVIOUS
<1>6. /\ u \in Ranges /\ DOMAIN u = 1 .. (IF open THEN n + 1 ELSE n)
      /\ \A k \in 1 .. n : u[k].start = NegatedStart(start, s, k) /\ u[k].end = Flip(s[k].start)
      /\ open => u[n + 1].start = NegatedStart(start, s, n + 1) /\ u[n + 1].end = Unbounded
  BY <1>1, <1>2, <1>4, <1>5, NegatedElements
<1>7. IsUnbounded(Unbounded) /\ Unbounded \in Bound
  BY DEF IsUnbounded, Unbounded, Bound
\* The bounds of the segments between which u has its segments.
<1>8. ASSUME NEW k \in 1 .. n PROVE ~IsUnbounded(s[k].start)
  <2>1. CASE k = 1
    BY <1>3, <2>1
  <2>2. CASE k # 1
    <3>1. k - 1 \in DOMAIN s /\ k \in DOMAIN s /\ k - 1 < k
      BY <1>3, <2>2
    <3> QED BY <3>1 DEF Proper, Apart, EndBeforeStartWithGap
  <2> QED BY <2>1, <2>2
<1>9. ASSUME NEW k \in DOMAIN u, k # 1
      PROVE  /\ k - 1 \in DOMAIN s /\ ~IsUnbounded(s[k - 1].end)
             /\ u[k].start = Flip(s[k - 1].end)
  <2>1. k - 1 \in 1 .. n /\ k \in 1 .. n + 1
    BY <1>6, <1>9
  <2>2. NegatedStart(start, s, k) = Flip(s[k - 1].end)
    BY <1>9 DEF NegatedStart
  <2>3. CASE k \in 1 .. n
    <3>1. k - 1 \in DOMAIN s /\ k \in DOMAIN s /\ k - 1 < k
      BY <1>3, <2>1, <2>3
    <3> QED BY <1>6, <2>2, <2>3, <3>1 DEF Proper, Apart, EndBeforeStartWithGap
  <2>4. CASE k = n + 1
    <3>1. open
      BY <1>6, <2>4
    <3>2. u[k].start = Flip(s[k - 1].end) /\ ~IsUnbounded(Flip(s[k - 1].end))
      BY <1>5, <1>6, <2>2, <2>4, <3>1
    <3> QED BY <1>3, <2>1, <3>2, FlipMeaning
  <2> QED BY <2>1, <2>3, <2>4
<1>10. ASSUME NEW k \in DOMAIN u PROVE ValidSegment(u[k].start, u[k].end)
  <2>1. CASE k = n + 1
    BY <1>6, <1>7, <2>1 DEF ValidSegment
  <2>2. CASE k \in 1 .. n /\ k = 1
    <3>1. u[k].start = start
      BY <1>6, <2>2 DEF NegatedStart
    <3> QED BY <1>3, <1>6, <2>2, <3>1
  <2>3. CASE k \in 1 .. n /\ k # 1
    <3>1. k - 1 \in DOMAIN s /\ k \in DOMAIN s /\ k - 1 < k /\ u[k].start = Flip(s[k - 1].end)
      BY <1>3, <1>9, <2>3
    <3>2. EndBeforeStartWithGap(s[k - 1].end, s[k].start)
      BY <3>1 DEF Proper, Apart
    <3> QED BY <1>3, <1>6, <2>3, <3>1, <3>2, GapIsSegment
  <2> QED BY <1>6, <2>1, <2>2, <2>3
<1>11. ASSUME NEW k \in DOMAIN u, NEW m \in DOMAIN u, k < m
       PROVE  EndBeforeStartWithGap(u[k].end, u[m].start)
  <2>1. k \in 1 .. n /\ m # 1 /\ k <= m - 1
    BY <1>6, <1>11
  <2>2. m - 1 \in DOMAIN s /\ ~IsUnbounded(s[m - 1].end) /\ u[m].start = Flip(s[m - 1].end)
    BY <1>9, <2>1
  <2>3. PICK v \in Versions : v \in SegmentMembers(s[k])
    BY <1>3, <2>1, ValidHasMember
  <2>4. AfterStart(v, s[k].start) /\ BeforeEnd(v, s[m - 1].end)
    BY <1>3, <2>1, <2>2, <2>3, InSegment, SegmentsOrdered
  <2>5. ~BeforeEnd(v, Flip(s[k].start)) /\ ~AfterStart(v, Flip(s[m - 1].end))
    BY <1>3, <1>8, <2>1, <2>2, <2>4, FlipMeaning
  <2> QED BY <1>3, <1>6, <2>1, <2>2, <2>5, FlipMeaning, GapMeaning
<1>12. Proper(u)
  BY <1>6, <1>10, <1>11 DEF Proper, Apart
\* The versions behind a segment are after `start'.
<1>13. ASSUME NEW v \in Versions, NEW m \in DOMAIN s, ~BeforeEnd(v, s[m].end)
       PROVE  AfterStart(v, start)
  <2>1. 1 \in DOMAIN s /\ 1 <= m
    BY <1>3, <1>13
  <2>2. PICK g : g = Seg(start, Flip(s[1].start))
    OBVIOUS
  <2>3. g \in Segment /\ g.start = start /\ g.end = Flip(s[1].start)
    BY <1>3, <2>1, <2>2, FlipMeaning, SegForm
  <2>4. ValidSegment(g.start, g.end)
    BY <1>3, <2>1, <2>3
  <2>5. PICK w \in Versions : w \in SegmentMembers(g)
    BY <2>3, <2>4, ValidHasMember
  <2>6. AfterStart(w, start) /\ ~AfterStart(w, s[1].start)
    BY <1>3, <1>8, <2>1, <2>3, <2>5, InSegment, FlipMeaning
  <2>7. PICK x \in Versions : x \in SegmentMembers(s[m])
    BY <1>3, <1>13, ValidHasMember
  <2>8. AfterStart(x, s[1].start) /\ BeforeEnd(x, s[m].end)
    BY <2>1, <2>7, InSegment, SegmentsOrdered
  <2>9. v \in Int /\ w \in Int /\ x \in Int
    BY VersionsAssumption
  <2>10. w <= x /\ x <= v
    BY <1>3, <1>13, <2>1, <2>6, <2>8, <2>9, Monotone
  <2> QED BY <2>6, <2>9, <2>10, Monotone
<1>14. ASSUME NEW v \in Versions, v \in Members(u)
       PROVE  AfterStart(v, start) /\ v \notin Members(s)
  <2>1. PICK k \in DOMAIN u : v \in SegmentMembers(u[k])
    BY <1>14, InMembers
  <2>2. AfterStart(v, u[k].start) /\ BeforeEnd(v, u[k].end)
    BY <2>1, InSegment
  <2>3. k # 1 => k - 1 \in DOMAIN s /\ ~BeforeEnd(v, s[k - 1].end)
    BY <1>3, <1>9, <2>2, FlipMeaning
  <2>4. k = 1 => u[k].start = start
    BY <1>6 DEF NegatedStart
  <2>5. AfterStart(v, start)
    BY <1>13, <2>2, <2>3, <2>4
  <2>6. ASSUME NEW m \in DOMAIN s, v \in SegmentMembers(s[m]) PROVE FALSE
    <3>1. AfterStart(v, s[m].start) /\ BeforeEnd(v, s[m].end)
      BY <2>6, InSegment
    <3>2. CASE m < k
      <4>1. k # 1 /\ m <= k - 1
        BY <1>3, <1>6, <2>6, <3>2
      <4> QED BY <2>3, <3>1, <4>1, SegmentsOrdered
    <3>3. CASE k <= m
      <4>1. k \in 1 .. n
        BY <1>3, <1>6, <2>6, <3>3
      <4>2. ~AfterStart(v, s[k].start)
        BY <1>3, <1>6, <1>8, <2>2, <4>1, FlipMeaning
      <4> QED BY <1>3, <3>1, <3>3, <4>1, <4>2, SegmentsOrdered
    <3> QED BY <1>3, <1>6, <2>6, <3>2, <3>3
  <2> QED BY <2>5, <2>6, InMembers
<1>15. ASSUME NEW v \in Versions, AfterStart(v, start), v \notin Members(s)
       PROVE  v \in Members(u)
  <2>1. PICK T : T = {k \in 1 .. n : BeforeEnd(v, s[k].end)}
    OBVIOUS
  \* It is in the segment of u at k if it is behind that of s before k.
  <2>2. ASSUME NEW k \in 1 .. n + 1, k # 1 => ~BeforeEnd(v, s[k - 1].end)
        PROVE  AfterStart(v, NegatedStart(start, s, k))
    <3>1. CASE k = 1
      BY <1>15, <3>1 DEF NegatedStart
    <3>2. CASE k # 1
      <4>1. k - 1 \in 1 .. n /\ ~BeforeEnd(v, s[k - 1].end)
        BY <2>2, <3>2
      <4>2. s[k - 1].end \in Bound /\ ~IsUnbounded(s[k - 1].end)
        BY <1>3, <4>1 DEF BeforeEnd
      <4> QED BY <3>2, <4>1, <4>2, FlipMeaning DEF NegatedStart
    <3> QED BY <3>1, <3>2
  <2>3. CASE T = {}
    <3>1. n + 1 # 1 => n \in 1 .. n /\ (n + 1) - 1 = n
      OBVIOUS
    <3>2. n + 1 # 1 => ~BeforeEnd(v, s[(n + 1) - 1].end)
      BY <2>1, <2>3, <3>1
    <3>3. AfterStart(v, NegatedStart(start, s, n + 1))
      BY <2>2, <3>2
    <3>4. open
      <4>1. CASE n = 0
        BY <1>3, <1>5, <4>1 DEF NegatedStart
      <4>2. CASE n # 0
        <5>1. n \in 1 .. n /\ (n + 1) - 1 = n /\ n + 1 # 1
          BY <4>2
        <5>2. ~BeforeEnd(v, s[n].end) /\ s[n].end \in Bound
          BY <1>3, <2>1, <2>3, <5>1
        <5>3. ~IsUnbounded(Flip(s[n].end))
          BY <5>2, FlipMeaning DEF BeforeEnd
        <5> QED BY <1>5, <5>1, <5>3 DEF NegatedStart
      <4> QED BY <4>1, <4>2
    <3>5. n + 1 \in DOMAIN u /\ AfterStart(v, u[n + 1].start) /\ BeforeEnd(v, u[n + 1].end)
      BY <1>6, <1>7, <3>3, <3>4 DEF BeforeEnd
    <3> QED BY <3>5, InSegment, InMembers
  <2>4. CASE T # {}
    <3>1. PICK k \in T : \A m \in T : k <= m
      <4>1. T \in SUBSET Nat
        BY <2>1
      <4> QED BY <2>4, <4>1, SmallestOf
    <3>2. k \in 1 .. n /\ BeforeEnd(v, s[k].end)
      BY <2>1, <3>1
    <3>3. k # 1 => ~BeforeEnd(v, s[k - 1].end)
      <4>1. k # 1 => k - 1 \in 1 .. n /\ ~(k <= k - 1)
        BY <3>2
      <4> QED BY <2>1, <3>1, <4>1
    <3>4. AfterStart(v, u[k].start)
      BY <1>6, <2>2, <3>2, <3>3
    <3>5. ~AfterStart(v, s[k].start)
      BY <1>3, <1>15, <3>2, InSegment, InMembers
    <3>6. BeforeEnd(v, u[k].end)
      BY <1>3, <1>6, <1>8, <3>2, <3>5, FlipMeaning
    <3>7. k \in DOMAIN u
      BY <1>6, <3>2
    <3> QED BY <3>4, <3>6, <3>7, InSegment, InMembers
  <2> QED BY <2>3, <2>4
<1> QED BY <1>4, <1>12, <1>14, <1>15

\* A segment without an upper bound is the last one.
LEMMA UnboundedEndIsLast ==
    ASSUME NEW s, Proper(s), NEW k \in DOMAIN s, IsUnbounded(s[k].end)
    PROVE  \A m \in DOMAIN s : m <= k
<1>1. DOMAIN s = 1 .. Len(s) /\ Len(s) \in Nat
  BY RangeElements DEF Proper
<1>2. \A m \in DOMAIN s : ~(k < m)
  BY DEF Proper, Apart, EndBeforeStartWithGap
<1> QED BY <1>1, <1>2

\* All but the first segment.
LEMMA TailProper ==
    ASSUME NEW s, Proper(s), s # << >>
    PROVE  /\ Proper(Tail(s)) /\ 1 \in DOMAIN s
           /\ Tail(s) # << >> => 2 \in DOMAIN s /\ Tail(s)[1] = s[2]
           /\ \A v : v \in Members(s) <=> v \in SegmentMembers(s[1]) \/ v \in Members(Tail(s))
<1>1. s \in Ranges /\ s # << >>
  BY DEF Proper
<1>2. PICK t : t = Tail(s)
  OBVIOUS
<1>3. /\ Len(s) \in Nat /\ 0 < Len(s) /\ DOMAIN s = 1 .. Len(s)
      /\ t \in Ranges /\ Len(t) = Len(s) - 1 /\ DOMAIN t = 1 .. Len(s) - 1
  BY <1>1, <1>2, RangeElements, EmptySeq, HeadTailProperties DEF Ranges
<1>4. \A k \in DOMAIN t : t[k] = s[k + 1] /\ k + 1 \in DOMAIN s
  BY <1>1, <1>2, <1>3, HeadTailProperties DEF Ranges
<1>5. ASSUME NEW k \in DOMAIN t, NEW m \in DOMAIN t, k < m
      PROVE  EndBeforeStartWithGap(t[k].end, t[m].start)
  <2>1. k + 1 < m + 1
    BY <1>3, <1>5
  <2> QED BY <1>4, <2>1 DEF Proper, Apart
<1>6. Proper(t)
  BY <1>3, <1>4, <1>5 DEF Proper, Apart
<1>7. t # << >> => 1 \in DOMAIN t
  BY <1>3, EmptySeq DEF Ranges
<1>8. t # << >> => 2 \in DOMAIN s /\ t[1] = s[2]
  BY <1>4, <1>7
<1>9. ASSUME NEW v, v \in Members(s) PROVE v \in SegmentMembers(s[1]) \/ v \in Members(t)
  <2>1. PICK k \in DOMAIN s : v \in SegmentMembers(s[k])
    BY <1>9, InMembers
  <2>2. CASE k = 1
    BY <2>1, <2>2
  <2>3. CASE k # 1
    <3>1. k - 1 \in DOMAIN t /\ (k - 1) + 1 = k
      BY <1>3, <2>1, <2>3
    <3>2. t[k - 1] = s[k]
      BY <1>4, <3>1
    <3> QED BY <2>1, <3>1, <3>2, InMembers
  <2> QED BY <2>2, <2>3
<1>10. 1 \in DOMAIN s
  BY <1>3
<1>11. ASSUME NEW v, v \in SegmentMembers(s[1]) \/ v \in Members(t) PROVE v \in Members(s)
  BY <1>4, <1>10, <1>11, InMembers
<1> QED BY <1>2, <1>6, <1>8, <1>9, <1>10, <1>11

\* A range of one segment with one bound is that side of it.
LEMMA HalfLine ==
    ASSUME NEW b \in Bound, ~IsUnbounded(b)
    PROVE  /\ Proper(<<Seg(Unbounded, Flip(b))>>)
           /\ \A v \in Versions : v \in Members(<<Seg(Unbounded, Flip(b))>>) <=> ~AfterStart(v, b)
<1>1. PICK g : g = Seg(Unbounded, Flip(b))
  OBVIOUS
<1>2. Unbounded \in Bound /\ IsUnbounded(Unbounded) /\ Flip(b) \in Bound
  BY FlipMeaning DEF Unbounded, Bound, IsUnbounded
<1>3. g \in Segment /\ g.start = Unbounded /\ g.end = Flip(b)
  BY <1>1, <1>2, SegForm
<1>4. ValidSegment(g.start, g.end)
  BY <1>2, <1>3 DEF ValidSegment
<1>5. Proper(<<g>>) /\ Members(<<g>>) = SegmentMembers(g)
  BY <1>3, <1>4, ProperSmall
<1>6. \A v \in Versions : v \in SegmentMembers(g) <=> ~AfterStart(v, b)
  BY <1>2, <1>3, FlipMeaning, InSegment DEF AfterStart
<1> QED BY <1>1, <1>5, <1>6

\* The full range has all versions.
LEMMA FullMeaning ==
    /\ Full \in Ranges /\ Proper(Full) /\ \A v \in Versions : v \in Members(Full)
    /\ Full # << >>
<1>1. PICK g : g = Seg(Unbounded, Unbounded)
  OBVIOUS
<1>2. Unbounded \in Bound /\ IsUnbounded(Unbounded)
  BY DEF Unbounded, Bound, IsUnbounded
<1>3. g \in Segment /\ g.start = Unbounded /\ g.end = Unbounded
  BY <1>1, <1>2, SegForm
<1>4. ValidSegment(g.start, g.end) /\ \A v \in Versions : v \in SegmentMembers(g)
  BY <1>2, <1>3, InSegment DEF ValidSegment, AfterStart, BeforeEnd
<1>5. Proper(<<g>>) /\ Members(<<g>>) = SegmentMembers(g) /\ <<g>> # << >>
  BY <1>3, <1>4, ProperSmall
<1> QED BY <1>1, <1>4, <1>5 DEF Full, Proper

\* complement, for all its cases.
LEMMA ComplementMeaning ==
    ASSUME NEW s, Proper(s)
    PROVE  /\ Proper(Complement(s))
           /\ \A v \in Versions : v \in Members(Complement(s)) <=> v \notin Members(s)
<1>1. CASE s = Empty
  <2>1. Complement(s) = Full /\ Members(s) = {}
    BY <1>1, ProperSmall DEF Complement, Empty
  <2> QED BY <2>1, FullMeaning
<1>2. CASE s # Empty
  <2>1. s \in Ranges /\ s # << >>
    BY <1>2 DEF Empty, Proper
  <2>2. 1 \in DOMAIN s /\ DOMAIN s = 1 .. Len(s) /\ Len(s) \in Nat
    BY <2>1, TailProper, RangeElements
  <2>3. s[1] \in Segment /\ s[1].start \in Bound /\ s[1].end \in Bound
    BY <2>1, <2>2, RangeElements
  <2>4. Unbounded \in Bound /\ IsUnbounded(Unbounded)
    BY DEF Unbounded, Bound, IsUnbounded
  \* A first segment without an upper bound is the only one.
  <2>5. ASSUME IsUnbounded(s[1].end), NEW v \in Versions
        PROVE  v \in Members(s) <=> AfterStart(v, s[1].start)
    <3>1. \A m \in DOMAIN s : m = 1
      <4>1. \A m \in DOMAIN s : m <= 1
        BY <2>2, <2>5, UnboundedEndIsLast
      <4> QED BY <2>2, <4>1
    <3>2. v \in Members(s) <=> v \in SegmentMembers(s[1])
      BY <2>2, <3>1, InMembers
    <3> QED BY <2>5, <3>2, InSegment DEF BeforeEnd
  <2>6. CASE IsUnbounded(s[1].start) /\ IsUnbounded(s[1].end)
    <3>1. Complement(s) = << >>
      BY <1>2, <2>6 DEF Complement, Empty
    <3>2. \A v \in Versions : v \in Members(s)
      BY <2>5, <2>6 DEF AfterStart
    <3> QED BY <3>1, <3>2, ProperSmall
  <2>7. CASE ~IsUnbounded(s[1].start) /\ IsUnbounded(s[1].end)
    <3>1. Complement(s) = <<Seg(Unbounded, Flip(s[1].start))>>
      BY <1>2, <2>7 DEF Complement, StrictlyLowerThan, LowerThan, Flip
    <3> QED BY <2>3, <2>5, <2>7, <3>1, HalfLine
  <2>8. CASE IsUnbounded(s[1].start) /\ ~IsUnbounded(s[1].end)
    <3>1. Complement(s) = NegateSegments(Flip(s[1].end), Tail(s))
      BY <1>2, <2>8 DEF Complement
    <3>2. PICK f : f = Flip(s[1].end)
      OBVIOUS
    <3>3. /\ f \in Bound /\ ~IsUnbounded(f)
          /\ \A v \in Versions : AfterStart(v, f) <=> ~BeforeEnd(v, s[1].end)
      BY <2>3, <2>8, <3>2, FlipMeaning
    <3>4. PICK t : t = Tail(s)
      OBVIOUS
    <3>5. /\ Proper(t) /\ (t # << >> => 2 \in DOMAIN s /\ t[1] = s[2])
          /\ \A v : v \in Members(s) <=> v \in SegmentMembers(s[1]) \/ v \in Members(t)
      BY <2>1, <3>4, TailProper
    <3>6. t # << >> => ~IsUnbounded(t[1].start) /\ ValidSegment(f, Flip(t[1].start))
      <4>1. SUFFICES ASSUME 2 \in DOMAIN s
                     PROVE  ~IsUnbounded(s[2].start) /\ ValidSegment(f, Flip(s[2].start))
        BY <3>5
      <4>2. EndBeforeStartWithGap(s[1].end, s[2].start) /\ s[2].start \in Bound
        BY <2>1, <2>2, <4>1, RangeElements DEF Proper, Apart
      <4> QED BY <2>3, <3>2, <4>2, GapIsSegment DEF EndBeforeStartWithGap
    <3>7. /\ Proper(NegateSegments(f, t))
          /\ \A v \in Versions : v \in Members(NegateSegments(f, t))
                                    <=> AfterStart(v, f) /\ v \notin Members(t)
      BY <3>3, <3>5, <3>6, NegateSegmentsMeaning
    <3>8. \A v \in Versions : v \in SegmentMembers(s[1]) <=> BeforeEnd(v, s[1].end)
      BY <2>8, InSegment DEF AfterStart
    <3> QED BY <3>1, <3>2, <3>3, <3>4, <3>5, <3>7, <3>8
  <2>9. CASE ~IsUnbounded(s[1].start) /\ ~IsUnbounded(s[1].end)
    <3>1. Complement(s) = NegateSegments(Unbounded, s)
      BY <1>2, <2>9 DEF Complement
    <3>2. ValidSegment(Unbounded, Flip(s[1].start))
      BY <2>4 DEF ValidSegment
    <3> QED BY <2>1, <2>4, <2>9, <3>1, <3>2, NegateSegmentsMeaning DEF AfterStart
  <2> QED BY <2>6, <2>7, <2>8, <2>9
<1> QED BY <1>1, <1>2

-----------------------------------------------------------------------------
(* from_iter *)

\* Bounds are equal when they are of a kind and at a version.
LEMMA BoundsEqual ==
    ASSUME NEW b \in Bound, NEW c \in Bound
    PROVE  b = c <=> \/ IsUnbounded(b) /\ IsUnbounded(c)
                     \/ /\ ~IsUnbounded(b) /\ ~IsUnbounded(c) /\ b.at = c.at
                        /\ (IsIncluded(b) <=> IsIncluded(c))
<1>1. CASE IsUnbounded(b) \/ IsUnbounded(c)
  <2>1. /\ IsUnbounded(b) => b = Unbounded
        /\ IsUnbounded(c) => c = Unbounded
    BY DEF Bound, IsUnbounded, Unbounded
  <2> QED BY <1>1, <2>1
<1>2. CASE ~IsUnbounded(b) /\ ~IsUnbounded(c)
  <2>1. /\ b \in [kind : {"Included", "Excluded"}, at : BoundVersions]
        /\ c \in [kind : {"Included", "Excluded"}, at : BoundVersions]
    BY <1>2 DEF Bound, IsUnbounded, Unbounded
  <2>2. b.kind \in {"Included", "Excluded"} /\ c.kind \in {"Included", "Excluded"}
    BY <2>1
  <2>3. b = c <=> b.kind = c.kind /\ b.at = c.at
    BY <2>1
  <2> QED BY <1>2, <2>2, <2>3 DEF IsIncluded
<1> QED BY <1>1, <1>2

\* The comparison of starts by Ordering is the other one.
LEMMA CmpStartMeaning ==
    ASSUME NEW s \in Bound, NEW t \in Bound
    PROVE  CmpBoundsStart(s, t) = Less <=> ~LeftStartIsSmaller(t, s)
<1>1. CASE s = t
  BY <1>1, StartsTotal DEF CmpBoundsStart, CmpBounds, Less, Equal
<1>2. CASE s # t
  <2>1. CASE IsUnbounded(s) \/ IsUnbounded(t)
    BY <1>2, <2>1, BoundsEqual
       DEF CmpBoundsStart, CmpBounds, Less, Equal, LeftStartIsSmaller
  <2>2. CASE ~IsUnbounded(s) /\ ~IsUnbounded(t)
    BY <1>2, <2>2, BoundsEqual, BoundCases
       DEF CmpBoundsStart, CmpBounds, CmpVersions, Less, Equal, Greater, LeftStartIsSmaller
  <2> QED BY <2>1, <2>2
<1> QED BY <1>1, <1>2

\* The comparison of ends by Ordering is the other one.
LEMMA CmpEndMeaning ==
    ASSUME NEW e \in Bound, NEW f \in Bound
    PROVE  CmpBoundsEnd(e, f) = Less <=> ~LeftEndIsSmaller(f, e)
<1>1. CASE e = f
  BY <1>1, EndsTotal DEF CmpBoundsEnd, CmpBounds, Less, Equal
<1>2. CASE e # f
  <2>1. CASE IsUnbounded(e) \/ IsUnbounded(f)
    BY <1>2, <2>1, BoundsEqual
       DEF CmpBoundsEnd, CmpBounds, Less, Equal, Greater, LeftEndIsSmaller
  <2>2. CASE ~IsUnbounded(e) /\ ~IsUnbounded(f)
    BY <1>2, <2>2, BoundsEqual, BoundCases
       DEF CmpBoundsEnd, CmpBounds, CmpVersions, Less, Equal, Greater, LeftEndIsSmaller
  <2> QED BY <2>1, <2>2
<1> QED BY <1>1, <1>2

\* The larger end lets through what either end does.
LEMMA MaxEndMeaning ==
    ASSUME NEW e \in Bound, NEW f \in Bound
    PROVE  /\ MaxEnd(e, f) \in {e, f}
           /\ \A v \in Versions : BeforeEnd(v, MaxEnd(e, f)) <=> BeforeEnd(v, e) \/ BeforeEnd(v, f)
<1>1. CASE CmpBoundsEnd(e, f) = Less
  <2>1. MaxEnd(e, f) = f /\ LeftEndIsSmaller(e, f)
    BY <1>1, CmpEndMeaning, EndsTotal DEF MaxEnd
  <2>2. \A v \in Versions : BeforeEnd(v, e) => BeforeEnd(v, f)
    BY <2>1, EndOrderMeaning
  <2> QED BY <2>1, <2>2
<1>2. CASE CmpBoundsEnd(e, f) # Less
  <2>1. MaxEnd(e, f) = e /\ LeftEndIsSmaller(f, e)
    BY <1>2, CmpEndMeaning DEF MaxEnd
  <2>2. \A v \in Versions : BeforeEnd(v, f) => BeforeEnd(v, e)
    BY <2>1, EndOrderMeaning
  <2> QED BY <2>1, <2>2
<1> QED BY <1>1, <1>2

\* A set of first positions has as many elements as its last one.
LEMMA FirstPositions ==
    ASSUME NEW n \in Nat, NEW B \in SUBSET (1 .. n), \A k \in B : 1 .. k \subseteq B
    PROVE  Cardinality(B) \in 0 .. n /\ B = 1 .. Cardinality(B)
<1>1. PICK T : T = (1 .. n + 1) \ B
  OBVIOUS
<1>2. PICK x \in T : \A y \in T : x <= y
  <2>1. T \in SUBSET Nat /\ n + 1 \in T
    BY <1>1
  <2> QED BY <2>1, SmallestOf
<1>3. x \in 1 .. n + 1 /\ x \notin B
  BY <1>1, <1>2
<1>4. ASSUME NEW k \in 1 .. x - 1 PROVE k \in B
  <2>1. k \in 1 .. n + 1 /\ ~(x <= k)
    BY <1>3
  <2> QED BY <1>1, <1>2, <2>1
<1>5. ASSUME NEW k \in B PROVE k \in 1 .. x - 1
  <2>1. k \in 1 .. n /\ x \notin 1 .. k
    BY <1>3
  <2> QED BY <1>3, <2>1
<1>6. B = 1 .. x - 1
  BY <1>4, <1>5
<1>7. Cardinality(1 .. x - 1) = x - 1
  <2>1. 1 \in Int /\ x - 1 \in Int
    BY <1>3
  <2>2. Cardinality(1 .. x - 1) = IF 1 > x - 1 THEN 0 ELSE (x - 1) - 1 + 1
    BY <2>1, FS_Interval
  <2> QED BY <1>3, <2>2
<1> QED BY <1>3, <1>6, <1>7

\* partition_point: the segments up to there start before the new one, and no
\* other.
LEMMA StartingBeforeMeaning ==
    ASSUME NEW s, Proper(s), NEW g \in Segment, NEW n, n = StartingBefore(s, g)
    PROVE  /\ n \in 0 .. Len(s)
           /\ \A k \in 1 .. n : LeftStartIsSmaller(s[k].start, g.start)
           /\ \A k \in n + 1 .. Len(s) : LeftStartIsSmaller(g.start, s[k].start)
<1>1. /\ s \in Ranges /\ Len(s) \in Nat /\ DOMAIN s = 1 .. Len(s)
      /\ \A k \in 1 .. Len(s) : s[k].start \in Bound
      /\ g.start \in Bound
  BY RangeElements, SegmentBounds DEF Proper
<1>2. PICK B : B = {k \in DOMAIN s : CmpBoundsStart(s[k].start, g.start) = Less}
  OBVIOUS
<1>3. \A k \in 1 .. Len(s) : k \in B <=> ~LeftStartIsSmaller(g.start, s[k].start)
  BY <1>1, <1>2, CmpStartMeaning
<1>4. ASSUME NEW k \in B, NEW m \in 1 .. k PROVE m \in B
  <2>1. k \in 1 .. Len(s) /\ m \in 1 .. Len(s) /\ m <= k
    BY <1>1, <1>2
  <2>2. LeftStartIsSmaller(s[m].start, s[k].start)
    BY <1>1, <2>1, StartsOrdered
  <2> QED BY <1>1, <1>3, <2>1, <2>2, StartsTransitive
<1>5. B \in SUBSET (1 .. Len(s)) /\ \A k \in B : 1 .. k \subseteq B
  BY <1>1, <1>2, <1>4
<1>6. n \in 0 .. Len(s) /\ B = 1 .. n
  <2>1. n = Cardinality(B)
    BY <1>2 DEF StartingBefore
  <2> QED BY <1>1, <1>5, <2>1, FirstPositions
<1>7. \A k \in 1 .. n : LeftStartIsSmaller(s[k].start, g.start)
  <2>1. \A k \in 1 .. n : k \in 1 .. Len(s) /\ k \in B
    BY <1>1, <1>6
  <2> QED BY <1>1, <1>3, <2>1, StartsTotal
<1>8. \A k \in n + 1 .. Len(s) : LeftStartIsSmaller(g.start, s[k].start)
  <2>1. \A k \in n + 1 .. Len(s) : k \in 1 .. Len(s) /\ k \notin B
    BY <1>1, <1>6
  <2> QED BY <1>3, <2>1
<1> QED BY <1>6, <1>7, <1>8

\* Where the segments that the new one touches end.
LEMMA LastOverlappingMeaning ==
    ASSUME NEW s \in Ranges, NEW g, NEW n \in 0 .. Len(s), NEW m, m = LastOverlapping(s, g, n)
    PROVE  /\ m \in n .. Len(s)
           /\ \A k \in n + 1 .. m : ~EndBeforeStartWithGap(g.end, s[k].start)
           /\ m < Len(s) => EndBeforeStartWithGap(g.end, s[m + 1].start)
<1>1. Len(s) \in Nat
  BY RangeElements
<1>2. PICK T : T = {k \in n + 1 .. Len(s) : EndBeforeStartWithGap(g.end, s[k].start)}
  OBVIOUS
<1>3. \E x \in n .. Len(s) :
         /\ \A k \in n + 1 .. x : ~EndBeforeStartWithGap(g.end, s[k].start)
         /\ x < Len(s) => EndBeforeStartWithGap(g.end, s[x + 1].start)
  <2>1. CASE T = {}
    <3>1. Len(s) \in n .. Len(s) /\ ~(Len(s) < Len(s))
      BY <1>1
    <3> QED BY <1>2, <2>1, <3>1
  <2>2. CASE T # {}
    <3>1. PICK y \in T : \A z \in T : y <= z
      <4>1. T \in SUBSET Nat
        BY <1>1, <1>2
      <4> QED BY <2>2, <4>1, SmallestOf
    <3>2. y \in n + 1 .. Len(s) /\ EndBeforeStartWithGap(g.end, s[y].start)
      BY <1>2, <3>1
    <3>3. y - 1 \in n .. Len(s) /\ (y - 1) + 1 = y
      BY <1>1, <3>2
    <3>4. \A k \in n + 1 .. y - 1 : ~EndBeforeStartWithGap(g.end, s[k].start)
      <4>1. \A k \in n + 1 .. y - 1 : k \in n + 1 .. Len(s) /\ ~(y <= k)
        BY <1>1, <3>2
      <4> QED BY <1>2, <3>1, <4>1
    <3> QED BY <3>2, <3>3, <3>4
  <2> QED BY <2>1, <2>2
<1> QED BY <1>3, Zenon DEF LastOverlapping

\* A piece of a range.
IsPiece(s, a, b, p) ==
    /\ Proper(p) /\ DOMAIN p = 1 .. b - a + 1
    /\ \A k \in 1 .. b - a + 1 : p[k] = s[a + k - 1]
    /\ \A v : v \in Members(p) <=> \E k \in a .. b : v \in SegmentMembers(s[k])

\* A piece of a range is one.
LEMMA PieceProper ==
    ASSUME NEW s, Proper(s), NEW a \in 1 .. Len(s) + 1, NEW b \in a - 1 .. Len(s),
           NEW p, p = SubSeq(s, a, b)
    PROVE  IsPiece(s, a, b, p)
<1>1. s \in Ranges /\ Len(s) \in Nat /\ DOMAIN s = 1 .. Len(s)
      /\ \A k \in 1 .. Len(s) : s[k] \in Segment
  BY RangeElements DEF Proper
<1>2. a \in Int /\ b \in Int /\ \A k \in a .. b : k \in DOMAIN s /\ s[k] \in Segment
  BY <1>1
<1>3. /\ p \in Seq(Segment) /\ Len(p) = b - a + 1
      /\ \A k \in 1 .. b - a + 1 : p[k] = s[a + k - 1]
  <2>1. p \in Seq(Segment) /\ \A k \in 1 .. b - a + 1 : p[k] = s[a + k - 1]
    BY <1>2, SubSeqProperties
  <2>2. Len(p) = IF a <= b THEN b - a + 1 ELSE 0
    BY <1>2, SubSeqProperties
  <2> QED BY <1>1, <2>1, <2>2
<1>4. p \in Ranges /\ DOMAIN p = 1 .. b - a + 1
  BY <1>3 DEF Ranges
<1>5. \A k \in DOMAIN p : a + k - 1 \in a .. b /\ p[k] = s[a + k - 1]
  BY <1>2, <1>3, <1>4
<1>6. ASSUME NEW k \in DOMAIN p, NEW m \in DOMAIN p, k < m
      PROVE  EndBeforeStartWithGap(p[k].end, p[m].start)
  <2>1. /\ a + k - 1 \in DOMAIN s /\ a + m - 1 \in DOMAIN s /\ a + k - 1 < a + m - 1
        /\ p[k] = s[a + k - 1] /\ p[m] = s[a + m - 1]
    <3>1. /\ a + k - 1 \in a .. b /\ a + m - 1 \in a .. b
          /\ p[k] = s[a + k - 1] /\ p[m] = s[a + m - 1]
      BY <1>5
    <3>2. k \in Int /\ m \in Int
      BY <1>4
    <3>3. a + k - 1 < a + m - 1
      BY <1>2, <1>6, <3>2
    <3> QED BY <1>2, <3>1, <3>3
  <2> QED BY <2>1 DEF Proper, Apart
<1>7. Proper(p)
  BY <1>2, <1>4, <1>5, <1>6 DEF Proper, Apart
<1>8. ASSUME NEW v, NEW k \in a .. b, v \in SegmentMembers(s[k]) PROVE v \in Members(p)
  <2>1. k - a + 1 \in DOMAIN p /\ a + (k - a + 1) - 1 = k
    BY <1>2, <1>4
  <2>2. p[k - a + 1] = s[k]
    BY <1>5, <2>1
  <2> QED BY <1>8, <2>1, <2>2, InMembers
<1>9. ASSUME NEW v, v \in Members(p) PROVE \E k \in a .. b : v \in SegmentMembers(s[k])
  <2>1. PICK k \in DOMAIN p : v \in SegmentMembers(p[k])
    BY <1>9, InMembers
  <2>2. a + k - 1 \in a .. b /\ p[k] = s[a + k - 1]
    BY <1>5, <2>1
  <2> QED BY <2>1, <2>2
<1> QED BY <1>3, <1>4, <1>7, <1>8, <1>9 DEF IsPiece

\* A segment in the place of those after a and up to m.
IsSpliced(s, a, m, h, u) ==
    /\ Proper(u)
    /\ \A v : v \in Members(u) <=>
          \/ v \in SegmentMembers(h)
          \/ \E k \in 1 .. a : v \in SegmentMembers(s[k])
          \/ \E k \in m + 1 .. Len(s) : v \in SegmentMembers(s[k])

\* A segment in place of some of a range, with gaps on both sides.
LEMMA SpliceProper ==
    ASSUME NEW s, Proper(s), NEW a \in 0 .. Len(s), NEW m \in a .. Len(s),
           NEW h \in Segment, ValidSegment(h.start, h.end),
           \A k \in 1 .. a : EndBeforeStartWithGap(s[k].end, h.start),
           \A k \in m + 1 .. Len(s) : EndBeforeStartWithGap(h.end, s[k].start),
           NEW u, u = SubSeq(s, 1, a) \o <<h>> \o SubSeq(s, m + 1, Len(s))
    PROVE  IsSpliced(s, a, m, h, u)
<1>1. s \in Ranges /\ Len(s) \in Nat /\ DOMAIN s = 1 .. Len(s) /\ a \in Int /\ m \in Int
  BY RangeElements DEF Proper
<1>2. PICK x : x = SubSeq(s, 1, a)
  OBVIOUS
<1>3. PICK y : y = SubSeq(s, m + 1, Len(s))
  OBVIOUS
<1>4. 1 \in 1 .. Len(s) + 1 /\ a \in 1 - 1 .. Len(s) /\ a - 1 + 1 = a
  BY <1>1
<1>5. m + 1 \in 1 .. Len(s) + 1 /\ Len(s) \in (m + 1) - 1 .. Len(s)
  BY <1>1
<1>6. /\ Proper(x) /\ DOMAIN x = 1 .. a /\ \A k \in 1 .. a : x[k] = s[k]
      /\ \A v : v \in Members(x) <=> \E k \in 1 .. a : v \in SegmentMembers(s[k])
  <2>1. IsPiece(s, 1, a, x)
    BY <1>2, <1>4, PieceProper
  <2>2. \A k \in 1 .. a : 1 + k - 1 = k
    BY <1>1
  <2> QED BY <1>1, <1>4, <2>1, <2>2 DEF IsPiece
<1>7. /\ Proper(y) /\ DOMAIN y = 1 .. Len(s) - (m + 1) + 1
      /\ \A k \in 1 .. Len(s) - (m + 1) + 1 : y[k] = s[(m + 1) + k - 1]
      /\ \A v : v \in Members(y) <=> \E k \in m + 1 .. Len(s) : v \in SegmentMembers(s[k])
  <2>1. IsPiece(s, m + 1, Len(s), y)
    BY <1>3, <1>5, PieceProper
  <2> QED BY <2>1 DEF IsPiece
<1>8. \A k \in DOMAIN y : \E z \in m + 1 .. Len(s) : y[k] = s[z]
  BY <1>1, <1>7
<1>9. /\ Proper(Append(x, h)) /\ Members(Append(x, h)) = Members(x) \cup SegmentMembers(h)
  BY <1>6, AppendProper
<1>10. x \in Ranges /\ y \in Ranges
  BY <1>6, <1>7 DEF Proper
<1>11. PICK w : w = Append(x, h)
  OBVIOUS
<1>12. /\ w \in Ranges /\ DOMAIN w = 1 .. a + 1 /\ w[a + 1] = h /\ \A k \in 1 .. a : w[k] = s[k]
  <2>1. Len(x) = a
    BY <1>1, <1>6, <1>10, RangeElements
  <2> QED BY <1>6, <1>10, <1>11, <2>1 DEF Ranges
<1>13. ASSUME NEW k \in DOMAIN w, NEW q \in DOMAIN y
       PROVE  EndBeforeStartWithGap(w[k].end, y[q].start)
  <2>1. PICK z \in m + 1 .. Len(s) : y[q] = s[z]
    BY <1>8
  <2>2. CASE k = a + 1
    BY <1>12, <2>1, <2>2
  <2>3. CASE k \in 1 .. a
    <3>1. k \in DOMAIN s /\ z \in DOMAIN s /\ k < z
      BY <1>1, <2>1, <2>3
    <3> QED BY <1>12, <2>1, <2>3, <3>1 DEF Proper, Apart
  <2> QED BY <1>12, <2>2, <2>3
<1>14. Proper(w \o y) /\ Members(w \o y) = Members(w) \cup Members(y)
  BY <1>7, <1>9, <1>10, <1>11, <1>12, <1>13, ConcatProper, ConcatMembers
<1>15. u = w \o y
  <2>1. x \o <<h>> = Append(x, h)
    BY <1>10 DEF Ranges
  <2> QED BY <1>2, <1>3, <1>11, <2>1
<1>16. Members(u) = (Members(x) \cup SegmentMembers(h)) \cup Members(y)
  BY <1>9, <1>11, <1>14, <1>15
<1>17. \A v : v \in Members(u) <=>
          v \in SegmentMembers(h) \/ v \in Members(x) \/ v \in Members(y)
  BY <1>16
<1> QED BY <1>6, <1>7, <1>14, <1>15, <1>17 DEF IsSpliced

\* One step of from_iter: the range with one more segment.
LEMMA InsertMeaning ==
    ASSUME NEW s, Proper(s), NEW g \in Segment, ValidSegment(g.start, g.end)
    PROVE  /\ Proper(Insert(s, g))
           /\ Members(Insert(s, g)) = Members(s) \cup SegmentMembers(g)
<1>1. /\ s \in Ranges /\ Len(s) \in Nat /\ DOMAIN s = 1 .. Len(s)
      /\ g.start \in Bound /\ g.end \in Bound
  BY RangeElements, SegmentBounds DEF Proper
<1>2. \A k \in 1 .. Len(s) : s[k] \in Segment /\ s[k].start \in Bound /\ s[k].end \in Bound
  BY <1>1, RangeElements
<1>3. PICK n : n = StartingBefore(s, g)
  OBVIOUS
<1>4. /\ n \in 0 .. Len(s)
      /\ \A k \in 1 .. n : LeftStartIsSmaller(s[k].start, g.start)
      /\ \A k \in n + 1 .. Len(s) : LeftStartIsSmaller(g.start, s[k].start)
  BY <1>3, StartingBeforeMeaning
<1>5. PICK m : m = LastOverlapping(s, g, n)
  OBVIOUS
<1>6. /\ m \in n .. Len(s)
      /\ \A k \in n + 1 .. m : ~EndBeforeStartWithGap(g.end, s[k].start)
      /\ m < Len(s) => EndBeforeStartWithGap(g.end, s[m + 1].start)
  BY <1>1, <1>4, <1>5, LastOverlappingMeaning
<1>7. PICK previous \in BOOLEAN :
         previous <=> n > 0 /\ ~EndBeforeStartWithGap(s[n].end, g.start)
  OBVIOUS
<1>8. PICK a : a = IF previous THEN n - 1 ELSE n
  OBVIOUS
<1>9. PICK start : start = IF previous THEN s[n].start ELSE g.start
  OBVIOUS
<1>10. PICK end : end = IF m > n THEN MaxEnd(g.end, s[m].end)
                        ELSE IF previous THEN MaxEnd(s[n].end, g.end) ELSE g.end
  OBVIOUS
<1>11. Insert(s, g) = SubSeq(s, 1, a) \o <<Seg(start, end)>> \o SubSeq(s, m + 1, Len(s))
  BY <1>3, <1>5, <1>7, <1>8, <1>9, <1>10 DEF Insert
<1>12. /\ n \in Int /\ m \in Int /\ n <= m /\ m <= Len(s)
       /\ previous => n \in 1 .. Len(s) /\ n \in 1 .. n
       /\ m > n => m \in 1 .. Len(s) /\ m \in n + 1 .. m /\ m \in n + 1 .. Len(s)
       /\ a \in 0 .. Len(s) /\ m \in a .. Len(s) /\ a \in Int
  BY <1>1, <1>4, <1>6, <1>7, <1>8
<1>13. start \in Bound /\ end \in Bound /\ end \in {g.end} \cup {s[k].end : k \in 1 .. m}
  <2>1. start \in Bound
    BY <1>1, <1>2, <1>9, <1>12
  <2>2. CASE m > n
    <3>1. m \in 1 .. m /\ s[m].end \in Bound /\ end = MaxEnd(g.end, s[m].end)
      BY <1>2, <1>10, <1>12, <2>2
    <3> QED BY <1>1, <2>1, <3>1, MaxEndMeaning
  <2>3. CASE ~(m > n) /\ previous
    <3>1. n \in 1 .. m /\ s[n].end \in Bound /\ end = MaxEnd(s[n].end, g.end)
      BY <1>2, <1>10, <1>12, <2>3
    <3> QED BY <1>1, <2>1, <3>1, MaxEndMeaning
  <2>4. CASE ~(m > n) /\ ~previous
    BY <1>1, <1>10, <2>1, <2>4
  <2> QED BY <2>2, <2>3, <2>4
<1>14. PICK h : h = Seg(start, end)
  OBVIOUS
<1>15. h \in Segment /\ h.start = start /\ h.end = end
  BY <1>13, <1>14, SegForm
\* What the new segment stands for.
<1>16. ASSUME NEW v \in Versions
       PROVE  /\ AfterStart(v, start) <=> AfterStart(v, g.start)
                                          \/ (previous /\ AfterStart(v, s[n].start))
              /\ BeforeEnd(v, end) <=> \/ BeforeEnd(v, g.end)
                                       \/ previous /\ BeforeEnd(v, s[n].end)
                                       \/ m > n /\ BeforeEnd(v, s[m].end)
  <2>1. previous => (AfterStart(v, g.start) => AfterStart(v, s[n].start))
    BY <1>1, <1>2, <1>4, <1>12, StartOrderMeaning
  <2>2. previous /\ m > n => (BeforeEnd(v, s[n].end) => BeforeEnd(v, s[m].end))
    BY <1>1, <1>12, SegmentsOrdered
  <2>3. m > n => (BeforeEnd(v, end) <=> BeforeEnd(v, g.end) \/ BeforeEnd(v, s[m].end))
    BY <1>1, <1>2, <1>10, <1>12, MaxEndMeaning
  <2>4. ~(m > n) /\ previous =>
           (BeforeEnd(v, end) <=> BeforeEnd(v, s[n].end) \/ BeforeEnd(v, g.end))
    BY <1>1, <1>2, <1>10, <1>12, MaxEndMeaning
  <2>5. AfterStart(v, start) <=> AfterStart(v, g.start) \/ (previous /\ AfterStart(v, s[n].start))
    BY <1>9, <2>1
  <2>6. CASE m > n
    BY <2>2, <2>3, <2>5, <2>6
  <2>7. CASE ~(m > n)
    BY <1>10, <2>4, <2>5, <2>7
  <2> QED BY <2>6, <2>7
<1>17. ASSUME NEW v, v \in SegmentMembers(g) PROVE v \in SegmentMembers(h)
  BY <1>15, <1>16, <1>17, InSegment
<1>18. ASSUME NEW v, NEW k \in a + 1 .. m, v \in SegmentMembers(s[k]) PROVE v \in SegmentMembers(h)
  <2>1. v \in Versions /\ AfterStart(v, s[k].start) /\ BeforeEnd(v, s[k].end)
    BY <1>18, InSegment
  <2>2. k \in DOMAIN s /\ k \in Int
    BY <1>1, <1>12
  <2>3. CASE n < k
    <3>1. k \in n + 1 .. Len(s) /\ m > n /\ m \in DOMAIN s /\ k <= m
      BY <1>1, <1>12, <2>2, <2>3
    <3>2. AfterStart(v, g.start)
      BY <1>1, <1>2, <1>4, <2>1, <2>2, <3>1, StartOrderMeaning
    <3>3. BeforeEnd(v, s[m].end)
      BY <2>1, <2>2, <3>1, SegmentsOrdered
    <3> QED BY <1>15, <1>16, <2>1, <3>1, <3>2, <3>3, InSegment
  <2>4. CASE ~(n < k)
    <3>1. previous /\ k = n
      BY <1>8, <1>12, <2>2, <2>4
    <3> QED BY <1>15, <1>16, <2>1, <3>1, InSegment
  <2> QED BY <2>3, <2>4
<1>19. ASSUME NEW v, v \in SegmentMembers(h)
       PROVE  v \in SegmentMembers(g) \/ \E k \in a + 1 .. m : v \in SegmentMembers(s[k])
  <2>1. v \in Versions /\ AfterStart(v, start) /\ BeforeEnd(v, end)
    BY <1>15, <1>19, InSegment
  \* The overlaps with the neighbours leave nothing out.
  <2>2. previous => BeforeEnd(v, s[n].end) \/ AfterStart(v, g.start)
    BY <1>1, <1>2, <1>7, <1>12, <2>1, GapMeaning
  <2>3. m > n => BeforeEnd(v, g.end) \/ AfterStart(v, s[m].start)
    BY <1>1, <1>2, <1>6, <1>12, <2>1, GapMeaning
  <2>4. previous /\ AfterStart(v, s[n].start) /\ BeforeEnd(v, s[n].end)
           => \E k \in a + 1 .. m : v \in SegmentMembers(s[k])
    <3>1. previous => n \in a + 1 .. m
      BY <1>8, <1>12
    <3> QED BY <2>1, <3>1, InSegment
  <2>5. m > n /\ AfterStart(v, s[m].start) /\ BeforeEnd(v, s[m].end)
           => \E k \in a + 1 .. m : v \in SegmentMembers(s[k])
    <3>1. m > n => m \in a + 1 .. m
      BY <1>8, <1>12
    <3> QED BY <2>1, <3>1, InSegment
  <2>6. AfterStart(v, g.start) /\ BeforeEnd(v, g.end) => v \in SegmentMembers(g)
    BY <2>1, InSegment
  <2>7. previous => (AfterStart(v, g.start) => AfterStart(v, s[n].start))
    BY <1>1, <1>2, <1>4, <1>12, <2>1, StartOrderMeaning
  <2> QED BY <1>16, <2>1, <2>2, <2>3, <2>4, <2>5, <2>6, <2>7
<1>20. ValidSegment(h.start, h.end)
  <2>1. PICK v \in Versions : v \in SegmentMembers(g)
    BY ValidHasMember
  <2>2. v \in SegmentMembers(h)
    BY <1>17, <2>1
  <2> QED BY <1>13, <1>14, <1>15, <2>2, ValidSegmentMeaning
<1>21. ASSUME NEW k \in 1 .. a PROVE EndBeforeStartWithGap(s[k].end, h.start)
  <2>1. k \in 1 .. Len(s) /\ k \in Int /\ k <= a
    BY <1>12
  <2>2. CASE previous
    <3>1. k \in DOMAIN s /\ n \in DOMAIN s /\ k < n
      BY <1>1, <1>8, <1>12, <2>1, <2>2
    <3> QED BY <1>9, <1>15, <2>2, <3>1 DEF Proper, Apart
  <2>3. CASE ~previous
    <3>1. /\ n > 0 /\ n \in DOMAIN s /\ n \in 1 .. n /\ k <= n /\ k \in DOMAIN s
      BY <1>1, <1>8, <1>12, <2>1, <2>3
    <3>2. EndBeforeStartWithGap(s[n].end, g.start)
      BY <1>7, <2>3, <3>1
    <3>3. CASE k = n
      BY <1>9, <1>15, <2>3, <3>2, <3>3
    <3>4. CASE k # n
      <4>1. EndBeforeStartWithGap(s[k].end, s[n].start)
        BY <1>12, <2>1, <3>1, <3>4 DEF Proper, Apart
      <4>2. LeftStartIsSmaller(s[n].start, g.start)
        BY <1>4, <3>1
      <4>3. EndBeforeStartWithGap(s[k].end, g.start)
        BY <1>1, <1>2, <3>1, <4>1, <4>2, GapBeforeLater
      <4> QED BY <1>9, <1>15, <2>3, <4>3
    <3> QED BY <3>3, <3>4
  <2> QED BY <2>2, <2>3
<1>22. ASSUME NEW k \in m + 1 .. Len(s) PROVE EndBeforeStartWithGap(h.end, s[k].start)
  <2>1. k \in DOMAIN s /\ m < Len(s) /\ m + 1 \in DOMAIN s /\ m + 1 <= k
    BY <1>1, <1>6, <1>12
  <2>2. EndBeforeStartWithGap(g.end, s[k].start)
    <3>1. EndBeforeStartWithGap(g.end, s[m + 1].start)
      BY <1>6, <2>1
    <3>2. LeftStartIsSmaller(s[m + 1].start, s[k].start)
      BY <2>1, StartsOrdered
    <3> QED BY <1>1, <1>2, <2>1, <3>1, <3>2, GapBeforeLater
  <2>3. \A x \in 1 .. m : EndBeforeStartWithGap(s[x].end, s[k].start)
    <3>1. \A x \in 1 .. m : x \in DOMAIN s /\ x < k
      BY <1>1, <1>12, <2>1
    <3> QED BY <2>1, <3>1 DEF Proper, Apart
  <2> QED BY <1>13, <1>15, <2>2, <2>3
<1>23. PICK u : u = SubSeq(s, 1, a) \o <<h>> \o SubSeq(s, m + 1, Len(s))
  OBVIOUS
<1>24. /\ Proper(u)
       /\ \A v : v \in Members(u) <=>
             \/ v \in SegmentMembers(h)
             \/ \E k \in 1 .. a : v \in SegmentMembers(s[k])
             \/ \E k \in m + 1 .. Len(s) : v \in SegmentMembers(s[k])
  <2>1. IsSpliced(s, a, m, h, u)
    BY <1>12, <1>15, <1>20, <1>21, <1>22, <1>23, SpliceProper
  <2> QED BY <2>1 DEF IsSpliced
<1>25. \A v : v \in Members(s) <=>
          \/ \E k \in 1 .. a : v \in SegmentMembers(s[k])
          \/ \E k \in a + 1 .. m : v \in SegmentMembers(s[k])
          \/ \E k \in m + 1 .. Len(s) : v \in SegmentMembers(s[k])
  <2>1. \A k : k \in DOMAIN s <=> k \in 1 .. a \/ k \in a + 1 .. m \/ k \in m + 1 .. Len(s)
    BY <1>1, <1>12
  <2> QED BY <2>1, InMembers
<1>26. \A v : v \in Members(u) <=> v \in Members(s) \/ v \in SegmentMembers(g)
  BY <1>17, <1>18, <1>19, <1>24, <1>25
<1> QED BY <1>11, <1>14, <1>23, <1>24, <1>26

-----------------------------------------------------------------------------
(* simplify *)

SortedList(vs) == \A q, p \in DOMAIN vs : q <= p => vs[q] <= vs[p]

\* Neighbours in order are enough.
LEMMA SortedPairs ==
    ASSUME NEW vs \in Seq(Versions), \A k \in 1 .. Len(vs) - 1 : vs[k] <= vs[k + 1]
    PROVE  SortedList(vs)
<1>1. /\ Len(vs) \in Nat /\ DOMAIN vs = 1 .. Len(vs)
      /\ \A q \in 1 .. Len(vs) : vs[q] \in Versions /\ vs[q] \in Int
  <2>1. Len(vs) \in Nat /\ DOMAIN vs = 1 .. Len(vs) /\ \A q \in 1 .. Len(vs) : vs[q] \in Versions
    OBVIOUS
  <2> QED BY <2>1, VersionsAssumption
<1> SUFFICES ASSUME NEW q \in DOMAIN vs, NEW p0 \in DOMAIN vs, q <= p0, ~(vs[q] <= vs[p0])
             PROVE  FALSE
  BY DEF SortedList
<1>2. PICK T : T = {p \in 1 .. Len(vs) : q <= p /\ ~(vs[q] <= vs[p])}
  OBVIOUS
<1>3. T \in SUBSET Nat /\ T # {}
  BY <1>1, <1>2
<1>4. PICK p \in T : \A y \in T : p <= y
  BY <1>3, SmallestOf
<1>5. p \in 1 .. Len(vs) /\ q <= p /\ ~(vs[q] <= vs[p])
  BY <1>2, <1>4
<1>6. q # p
  BY <1>1, <1>5
<1>7. p - 1 \in 1 .. Len(vs) /\ p - 1 \in 1 .. Len(vs) - 1 /\ q <= p - 1 /\ ~(p <= p - 1)
      /\ (p - 1) + 1 = p
  BY <1>1, <1>5, <1>6
<1>8. vs[q] <= vs[p - 1]
  BY <1>2, <1>4, <1>7
<1>9. vs[p - 1] <= vs[p]
  BY <1>7
<1>10. vs[q] \in Int /\ vs[p - 1] \in Int /\ vs[p] \in Int
  BY <1>1, <1>5, <1>7
<1> QED BY <1>5, <1>8, <1>9, <1>10

\* What contains_many skips, and what it stops at.
LEMMA WithinBoundsGreater ==
    ASSUME NEW s \in Segment, NEW v \in Versions
    PROVE  /\ WithinBounds(v, s) = Greater => ~BeforeEnd(v, s.end)
           /\ WithinBounds(v, s) # Greater => ~AfterStart(v, s.start) \/ BeforeEnd(v, s.end)
<1>1. v \in Int /\ s.start \in Bound /\ s.end \in Bound
  BY SegmentBounds, VersionsAssumption
<1> QED BY <1>1, BoundCases
        DEF WithinBounds, AfterStart, BeforeEnd, Less, Equal, Greater

\* The segment at which the scan for v stops.
ScanFrom(l, a, v) ==
    CHOOSE k \in a .. Len(l) + 1 :
        /\ \A m \in a .. k - 1 : WithinBounds(v, l[m]) = Greater
        /\ k <= Len(l) => WithinBounds(v, l[k]) # Greater

\* There is a segment to stop at, if only behind the last one.
LEMMA ScanMeaning ==
    ASSUME NEW l \in Ranges, NEW a \in 1 .. Len(l) + 1, NEW v, NEW k, k = ScanFrom(l, a, v)
    PROVE  /\ k \in a .. Len(l) + 1
           /\ \A m \in a .. k - 1 : WithinBounds(v, l[m]) = Greater
           /\ k <= Len(l) => WithinBounds(v, l[k]) # Greater
<1>1. Len(l) \in Nat
  BY RangeElements
<1>2. PICK T : T = {m \in a .. Len(l) + 1 : m <= Len(l) => WithinBounds(v, l[m]) # Greater}
  OBVIOUS
<1>3. PICK y \in T : \A z \in T : y <= z
  <2>1. Len(l) + 1 \in T /\ T \in SUBSET Nat
    BY <1>1, <1>2
  <2> QED BY <2>1, SmallestOf
<1>4. y \in a .. Len(l) + 1 /\ (y <= Len(l) => WithinBounds(v, l[y]) # Greater)
  BY <1>2, <1>3
<1>5. \A m \in a .. y - 1 : WithinBounds(v, l[m]) = Greater
  <2>1. \A m \in a .. y - 1 : m \in a .. Len(l) + 1 /\ m <= Len(l) /\ ~(y <= m)
    BY <1>1, <1>4
  <2> QED BY <1>2, <1>3, <2>1
<1>6. \E x \in a .. Len(l) + 1 :
         /\ \A m \in a .. x - 1 : WithinBounds(v, l[m]) = Greater
         /\ x <= Len(l) => WithinBounds(v, l[x]) # Greater
  BY <1>4, <1>5
<1> QED BY <1>6, Zenon DEF ScanFrom

\* The version at b, after a scan that stops at k.
IsScanned(l, vs, a, b, k, found) ==
    /\ k \in a .. Len(l) + 1
    /\ found <=> vs[b] \in Members(l)
    /\ found => k \in DOMAIN l /\ vs[b] \in SegmentMembers(l[k])
    /\ ~found /\ k <= Len(l) => ~AfterStart(vs[b], l[k].start)
    /\ \A q \in DOMAIN vs, m \in 1 .. k - 1 : b <= q => ~BeforeEnd(vs[q], l[m].end)

\* Where the scan stops decides whether the version is in the range.
LEMMA ScanStep ==
    ASSUME NEW l, Proper(l), NEW vs \in Seq(Versions), SortedList(vs),
           NEW a \in 1 .. Len(l) + 1, NEW b \in 1 .. Len(vs), NEW loc, Scanned(l, vs, a, b, loc),
           NEW k, k = ScanFrom(l, a, vs[b]),
           NEW found, found <=> k <= Len(l) /\ WithinBounds(vs[b], l[k]) = Equal
    PROVE  IsScanned(l, vs, a, b, k, found)
<1>1. /\ l \in Ranges /\ Len(l) \in Nat /\ DOMAIN l = 1 .. Len(l)
      /\ \A m \in 1 .. Len(l) : l[m] \in Segment /\ l[m].start \in Bound /\ l[m].end \in Bound
      /\ Len(vs) \in Nat /\ DOMAIN vs = 1 .. Len(vs)
      /\ \A q \in 1 .. Len(vs) : vs[q] \in Versions
  BY RangeElements DEF Proper
<1>2. PICK v \in Versions : v = vs[b]
  BY <1>1
<1>3. /\ k \in a .. Len(l) + 1
      /\ \A m \in a .. k - 1 : WithinBounds(v, l[m]) = Greater
      /\ k <= Len(l) => WithinBounds(v, l[k]) # Greater
  BY <1>1, <1>2, ScanMeaning
<1>4. ASSUME NEW q \in DOMAIN vs, NEW m \in 1 .. k - 1, b <= q
      PROVE  ~BeforeEnd(vs[q], l[m].end)
  <2>1. CASE m < a
    <3>1. m \in 1 .. a - 1 /\ b - 1 <= q
      BY <1>1, <1>4, <2>1
    <3> QED BY <1>1, <3>1 DEF Scanned
  <2>2. CASE a <= m
    <3>1. m \in a .. k - 1 /\ m \in 1 .. Len(l)
      BY <1>1, <1>3, <2>2
    <3>2. ~BeforeEnd(v, l[m].end)
      BY <1>1, <1>3, <3>1, WithinBoundsGreater
    <3>3. v <= vs[q] /\ vs[q] \in Versions
      BY <1>1, <1>2, <1>4 DEF SortedList
    <3> QED BY <1>1, <3>1, <3>2, <3>3, Monotone
  <2> QED BY <1>1, <1>3, <2>1, <2>2
<1>5. ASSUME found PROVE k \in DOMAIN l /\ v \in SegmentMembers(l[k])
  <2>1. k \in 1 .. Len(l) /\ WithinBounds(v, l[k]) = Equal
    BY <1>1, <1>2, <1>3, <1>5
  <2> QED BY <1>1, <2>1, WithinBoundsMeaning
<1>6. ASSUME ~found, k <= Len(l) PROVE ~AfterStart(v, l[k].start)
  <2>1. k \in 1 .. Len(l) /\ WithinBounds(v, l[k]) # Equal /\ WithinBounds(v, l[k]) # Greater
    BY <1>1, <1>2, <1>3, <1>6
  <2> QED BY <1>1, <2>1, WithinBoundsMeaning, WithinBoundsGreater, InSegment
<1>7. ASSUME ~found, v \in Members(l) PROVE FALSE
  <2>1. PICK m \in DOMAIN l : v \in SegmentMembers(l[m])
    BY <1>7, InMembers
  <2>2. AfterStart(v, l[m].start) /\ BeforeEnd(v, l[m].end)
    BY <2>1, InSegment
  <2>3. b \in DOMAIN vs /\ b <= b
    BY <1>1
  <2>4. ~(m \in 1 .. k - 1)
    BY <1>2, <1>4, <2>2, <2>3
  <2>5. k <= m /\ k <= Len(l) /\ k \in DOMAIN l
    BY <1>1, <1>3, <2>4
  <2> QED BY <1>6, <1>7, <2>2, <2>5, SegmentsOrdered
<1>8. found => v \in Members(l)
  BY <1>5, InMembers
<1> QED BY <1>2, <1>3, <1>4, <1>5, <1>6, <1>7, <1>8 DEF IsScanned

\* A pair of locations gives a segment.
LEMMA KeptForm ==
    ASSUME NEW l \in Ranges, NEW s \in 0 .. Len(l), NEW e \in 0 .. Len(l)
    PROVE  /\ KeptOf(l, s, e) \in Segment
           /\ KeptOf(l, s, e).start = IF s = 0 THEN Unbounded ELSE l[s].start
           /\ KeptOf(l, s, e).end = IF e = 0 THEN Unbounded ELSE l[e].end
<1>1. Unbounded \in Bound /\ Len(l) \in Nat
  BY RangeElements DEF Bound
<1>2. (s # 0 => l[s].start \in Bound) /\ (e # 0 => l[e].end \in Bound)
  BY <1>1, RangeElements
<1>3. PICK x \in Bound : x = IF s = 0 THEN Unbounded ELSE l[s].start
  BY <1>1, <1>2
<1>4. PICK y \in Bound : y = IF e = 0 THEN Unbounded ELSE l[e].end
  BY <1>1, <1>2
<1>5. KeptOf(l, s, e) = Seg(x, y)
  BY <1>3, <1>4 DEF KeptOf
<1> QED BY <1>3, <1>4, <1>5, SegForm

LEMMA KeptEnds ==
    ASSUME NEW l \in Ranges, NEW s \in 0 .. Len(l), NEW e \in 1 .. Len(l),
           NEW h, h = KeptOf(l, s, e)
    PROVE  h.start = (IF s = 0 THEN Unbounded ELSE l[s].start) /\ h.end = l[e].end
<1>1. e \in 0 .. Len(l) /\ e # 0
  BY RangeElements
<1> QED BY <1>1, KeptForm

\* The list of what was found, with one more version.
NextScan(l, vs, k, b, loc, loc2, found) ==
    /\ Scanned(l, vs, k, b + 1, loc2) /\ loc2 \in Seq(BOOLEAN)
    /\ loc2[b] = found /\ \A q \in 1 .. b - 1 : loc2[q] = loc[q]

LEMMA ScannedNext ==
    ASSUME NEW l \in Ranges, NEW vs \in Seq(Versions),
           NEW a \in 1 .. Len(l) + 1, NEW b \in 1 .. Len(vs), NEW loc \in Seq(BOOLEAN),
           Scanned(l, vs, a, b, loc), NEW k, NEW found \in BOOLEAN,
           IsScanned(l, vs, a, b, k, found),
           NEW loc2, loc2 = Append(loc, found)
    PROVE  NextScan(l, vs, k, b, loc, loc2, found)
<1>1. Len(loc) = b - 1 /\ Len(vs) \in Nat /\ DOMAIN vs = 1 .. Len(vs) /\ b \in Int
  BY DEF Scanned
<1>2. loc2 \in Seq(BOOLEAN) /\ Len(loc2) = b
  BY <1>1
<1>3. loc2[b] = found /\ \A q \in 1 .. b - 1 : loc2[q] = loc[q]
  BY <1>1
<1>4. ASSUME NEW q \in 1 .. b PROVE loc2[q] <=> vs[q] \in Members(l)
  <2>1. CASE q = b
    BY <1>3, <2>1 DEF IsScanned
  <2>2. CASE q # b
    <3>1. q \in 1 .. b - 1
      BY <1>1, <2>2
    <3> QED BY <1>3, <3>1 DEF Scanned
  <2> QED BY <2>1, <2>2
<1>5. (b + 1) - 1 = b
  BY <1>1
<1>6. \A q \in 1 .. Len(vs), m \in 1 .. k - 1 : b <= q => ~BeforeEnd(vs[q], l[m].end)
  BY <1>1 DEF IsScanned
<1> QED BY <1>2, <1>3, <1>4, <1>5, <1>6 DEF Scanned, NextScan

PairOrNone(l, pair) ==
    pair = << >> \/ (pair # << >> /\ pair[1] \in 0 .. Len(l) /\ pair[2] \in 1 .. Len(l))

\* A version that l contains opens a pair, or extends the one in progress.
LEMMA FoundStep ==
    ASSUME NEW l, Proper(l), NEW vs \in Seq(Versions), SortedList(vs),
           NEW a \in 1 .. Len(l) + 1, NEW b \in 1 .. Len(vs),
           NEW pair, PairOrNone(l, pair), NEW loc \in Seq(BOOLEAN), NEW out,
           Simplifying(l, vs, a, b, pair, loc, out),
           NEW k, IsScanned(l, vs, a, b, k, TRUE),
           NEW loc2, loc2 = Append(loc, TRUE),
           NEW pair2, pair2 # << >>, pair2[2] = k,
           pair2[1] = IF b = 1 THEN 0 ELSE IF pair = << >> THEN k ELSE pair[1]
    PROVE  Simplifying(l, vs, k, b + 1, pair2, loc2, out) /\ PairOrNone(l, pair2)
<1>1. /\ l \in Ranges /\ Len(l) \in Nat /\ DOMAIN l = 1 .. Len(l) /\ b \in Int /\ a \in Int
      /\ \A m \in 1 .. Len(l) : l[m] \in Segment /\ l[m].start \in Bound /\ l[m].end \in Bound
      /\ Len(vs) \in Nat /\ DOMAIN vs = 1 .. Len(vs)
      /\ \A q \in 1 .. Len(vs) : vs[q] \in Versions
  BY RangeElements DEF Proper
<1>2. Scanned(l, vs, k, b + 1, loc2) /\ loc2[b] = TRUE /\ \A q \in 1 .. b - 1 : loc2[q] = loc[q]
  <2>1. Scanned(l, vs, a, b, loc)
    BY DEF Simplifying
  <2>2. PICK found \in BOOLEAN : found = TRUE
    OBVIOUS
  <2>3. IsScanned(l, vs, a, b, k, found) /\ loc2 = Append(loc, found)
    BY <2>2
  <2>4. NextScan(l, vs, k, b, loc, loc2, found)
    BY <1>1, <2>1, <2>3, ScannedNext
  <2> QED BY <2>2, <2>4 DEF NextScan
<1>3. /\ k \in 1 .. Len(l) /\ a <= k /\ vs[b] \in SegmentMembers(l[k])
      /\ vs[b] \in Versions /\ AfterStart(vs[b], l[k].start) /\ BeforeEnd(vs[b], l[k].end)
  BY <1>1, InSegment DEF IsScanned
<1>4. IsUnbounded(Unbounded) /\ (b + 1) - 1 = b /\ 1 < b + 1 /\ b + 1 # 1
  BY <1>1 DEF IsUnbounded, Unbounded
<1>5. pair # << >> => /\ 1 < b /\ a <= Len(l) /\ pair[2] = a /\ pair[1] \in 0 .. a
                      /\ pair2[1] = pair[1]
  BY <1>1 DEF Simplifying, PairInProgress
<1>6. b = 1 => pair2[1] = 0 /\ pair = << >>
  BY <1>1, <1>5
<1>7. b # 1 /\ pair = << >> => pair2[1] = k
  OBVIOUS
<1>8. pair2[1] \in 0 .. k /\ PairOrNone(l, pair2)
  BY <1>1, <1>3, <1>5, <1>6, <1>7 DEF PairOrNone
<1>9. PICK g : g = KeptOf(l, pair2[1], k)
  OBVIOUS
<1>10. g.start = (IF pair2[1] = 0 THEN Unbounded ELSE l[pair2[1]].start) /\ g.end = l[k].end
  <2>1. pair2[1] \in 0 .. Len(l) /\ k \in 0 .. Len(l) /\ k # 0
    BY <1>1, <1>3, <1>8
  <2> QED BY <1>1, <1>9, <2>1, KeptForm
<1>11. AfterStart(vs[b], g.start)
  <2>1. CASE pair2[1] = 0
    BY <1>4, <1>10, <2>1 DEF AfterStart
  <2>2. CASE pair2[1] # 0
    <3>1. pair2[1] \in DOMAIN l /\ k \in DOMAIN l /\ pair2[1] <= k
      BY <1>1, <1>3, <1>8, <2>2
    <3> QED BY <1>3, <1>10, <2>2, <3>1, SegmentsOrdered
  <2> QED BY <2>1, <2>2
<1>12. PairInProgress(l, vs, k, b + 1, pair2)
  <2>1. k <= Len(l)
    BY <1>3
  <2> QED BY <1>3, <1>4, <1>8, <1>9, <1>11, <2>1 DEF PairInProgress
<1>13. KeptBehind(l, k, pair2, out)
  <2> SUFFICES ASSUME NEW x \in DOMAIN out
               PROVE  \E e \in DOMAIN l : out[x].end = l[e].end /\ e < pair2[1]
    BY DEF KeptBehind
  <2>1. PICK e \in DOMAIN l : out[x].end = l[e].end /\ e < (IF pair = << >> THEN a ELSE pair[1])
    BY DEF Simplifying, KeptBehind
  <2>2. b # 1
    <3>1. out # << >>
      OBVIOUS
    <3> QED BY <3>1 DEF Simplifying, FromTheFirst
  <2>3. e < pair2[1]
    BY <1>1, <1>3, <1>5, <1>7, <2>1, <2>2
  <2> QED BY <2>1, <2>3
<1>14. ASSUME NEW q \in 1 .. (b + 1) - 1, loc2[q]
       PROVE  vs[q] \in Members(out) \/ vs[q] \in SegmentMembers(KeptOf(l, pair2[1], pair2[2]))
  <2>1. CASE q = b
    BY <1>3, <1>9, <1>10, <1>11, <2>1, InSegment
  <2>2. CASE q # b
    <3>1. q \in 1 .. b - 1
      BY <1>1, <2>2
    <3>2. loc[q]
      BY <1>2, <1>14, <3>1
    <3>3. CASE vs[q] \in Members(out)
      BY <3>3
    <3>4. CASE pair # << >> /\ vs[q] \in SegmentMembers(KeptOf(l, pair[1], pair[2]))
      <4>1. PICK h : h = KeptOf(l, pair[1], a)
        OBVIOUS
      <4>2. /\ h.start = (IF pair[1] = 0 THEN Unbounded ELSE l[pair[1]].start)
            /\ h.end = l[a].end /\ a \in DOMAIN l
        <5>1. l \in Ranges /\ pair[1] \in 0 .. Len(l) /\ a \in 1 .. Len(l) /\ a \in DOMAIN l
          BY <1>1, <1>5, <3>4
        <5>2. PICK s : s = pair[1]
          OBVIOUS
        <5>3. h.start = (IF s = 0 THEN Unbounded ELSE l[s].start) /\ h.end = l[a].end
          BY <4>1, <5>1, <5>2, KeptEnds
        <5> QED BY <5>1, <5>2, <5>3
      <4>3. vs[q] \in Versions /\ AfterStart(vs[q], h.start) /\ BeforeEnd(vs[q], h.end)
        BY <1>5, <3>4, <4>1, InSegment
      <4>4. BeforeEnd(vs[q], l[k].end)
        <5>1. a \in DOMAIN l /\ k \in DOMAIN l /\ a <= k /\ BeforeEnd(vs[q], l[a].end)
          BY <1>1, <1>3, <4>2, <4>3
        <5> QED BY <4>3, <5>1, SegmentsOrdered
      <4>5. h.start = g.start
        BY <1>5, <1>10, <3>4, <4>2
      <4> QED BY <1>9, <1>10, <4>3, <4>4, <4>5, InSegment
    <3> QED BY <3>1, <3>2, <3>3, <3>4 DEF Simplifying, AgreesBefore
  <2> QED BY <2>1, <2>2
<1>15. ASSUME NEW q \in 1 .. (b + 1) - 1, ~loc2[q]
       PROVE  vs[q] \notin Members(out) /\ ~AfterStart(vs[q], KeptOf(l, pair2[1], pair2[2]).start)
  <2>1. q \in 1 .. b - 1 /\ ~loc[q] /\ b # 1 /\ q \in 1 .. Len(vs)
    <3>1. q # b
      BY <1>2, <1>15
    <3>2. q \in 1 .. b - 1 /\ b # 1 /\ q \in 1 .. Len(vs)
      BY <1>1, <3>1
    <3> QED BY <1>2, <1>15, <3>2
  <2>2. /\ vs[q] \notin Members(out)
        /\ pair # << >> => ~AfterStart(vs[q], KeptOf(l, pair[1], pair[2]).start)
    BY <2>1 DEF Simplifying, AgreesBefore
  <2>3. CASE pair # << >>
    <3>1. PICK h : h = KeptOf(l, pair[1], a)
      OBVIOUS
    <3>2. h.start = (IF pair[1] = 0 THEN Unbounded ELSE l[pair[1]].start)
      <4>1. l \in Ranges /\ pair[1] \in 0 .. Len(l) /\ a \in 1 .. Len(l)
        BY <1>1, <1>5, <2>3
      <4>2. PICK s : s = pair[1]
        OBVIOUS
      <4>3. h.start = (IF s = 0 THEN Unbounded ELSE l[s].start)
        BY <3>1, <4>1, <4>2, KeptEnds
      <4> QED BY <4>2, <4>3
    <3>3. h.start = g.start /\ ~AfterStart(vs[q], h.start)
      BY <1>5, <1>10, <2>2, <2>3, <3>1, <3>2
    <3> QED BY <1>9, <2>2, <3>3
  <2>4. CASE pair = << >>
    <3>1. g.start = l[k].start
      BY <1>3, <1>7, <1>10, <2>1, <2>4
    <3>2. ASSUME AfterStart(vs[q], l[k].start) PROVE FALSE
      <4>1. vs[q] <= vs[b] /\ vs[q] \in Versions
        <5>1. q \in DOMAIN vs /\ b \in DOMAIN vs /\ q <= b /\ vs[q] \in Versions
          BY <1>1, <2>1
        <5> QED BY <5>1 DEF SortedList
      <4>2. BeforeEnd(vs[q], l[k].end)
        BY <1>1, <1>3, <4>1, Monotone
      <4>3. vs[q] \in Members(l)
        BY <1>1, <1>3, <3>2, <4>1, <4>2, InSegment, InMembers
      <4> QED BY <2>1, <4>3 DEF Simplifying, Scanned
    <3> QED BY <1>9, <2>2, <3>1, <3>2
  <2> QED BY <2>3, <2>4
<1>16. AgreesBefore(l, vs, b + 1, loc2, pair2, out)
  BY <1>14, <1>15 DEF AgreesBefore
<1>17. FromTheFirst(b + 1, loc2, pair2, out)
  <2> SUFFICES ASSUME \A q \in 1 .. (b + 1) - 1 : loc2[q] PROVE pair2[1] = 0
    BY <1>4 DEF FromTheFirst
  <2>1. CASE b = 1
    BY <1>6, <2>1
  <2>2. CASE b # 1
    <3>1. 1 < b /\ \A q \in 1 .. b - 1 : loc[q]
      <4>1. 1 < b /\ \A q \in 1 .. b - 1 : q \in 1 .. (b + 1) - 1
        BY <1>1, <2>2
      <4> QED BY <1>2, <4>1
    <3>2. pair # << >> /\ pair[1] = 0
      BY <3>1 DEF Simplifying, FromTheFirst
    <3> QED BY <1>5, <3>2
  <2> QED BY <2>1, <2>2
<1> QED BY <1>2, <1>8, <1>12, <1>13, <1>16, <1>17 DEF Simplifying

\* What a pair keeps is a segment behind those that are kept.
KeptFit(l, a, pair, out, e, g) ==
    /\ g \in Segment /\ g.end = (IF e = 0 THEN Unbounded ELSE l[a].end)
    /\ g.start = KeptOf(l, pair[1], pair[2]).start
    /\ Proper(Append(out, g)) /\ Members(Append(out, g)) = Members(out) \cup SegmentMembers(g)
    /\ pair[1] = 0 => g.start = Unbounded /\ out = << >>

\* The segment of a pair fits behind what is kept.
LEMMA KeptFits ==
    ASSUME NEW l, Proper(l), NEW vs \in Seq(Versions), NEW a \in 1 .. Len(l) + 1, NEW b \in Int,
           NEW pair, pair # << >>, NEW out, Proper(out),
           PairInProgress(l, vs, a, b, pair), KeptBehind(l, a, pair, out),
           NEW e \in {0, a}, NEW g, g = KeptOf(l, pair[1], e)
    PROVE  KeptFit(l, a, pair, out, e, g)
<1>1. /\ l \in Ranges /\ Len(l) \in Nat /\ DOMAIN l = 1 .. Len(l) /\ out \in Ranges
      /\ a \in DOMAIN l /\ pair[2] = a /\ pair[1] \in 0 .. a /\ pair[1] \in 0 .. Len(l)
      /\ a \in 0 .. Len(l) /\ e \in 0 .. Len(l) /\ (e # 0 => e = a)
      /\ vs[b - 1] \in SegmentMembers(l[a])
      /\ AfterStart(vs[b - 1], KeptOf(l, pair[1], a).start)
  BY RangeElements DEF Proper, PairInProgress
<1>2. /\ g \in Segment /\ g.start = (IF pair[1] = 0 THEN Unbounded ELSE l[pair[1]].start)
      /\ g.end = (IF e = 0 THEN Unbounded ELSE l[a].end)
  BY <1>1, KeptForm
<1>3. g.start = KeptOf(l, pair[1], a).start
  BY <1>1, <1>2, KeptForm
<1>4. ValidSegment(g.start, g.end)
  <2>1. BeforeEnd(vs[b - 1], g.end) /\ vs[b - 1] \in Versions
    BY <1>1, <1>2, InSegment DEF BeforeEnd, IsUnbounded, Unbounded
  <2>2. vs[b - 1] \in SegmentMembers(g)
    BY <1>1, <1>3, <2>1, InSegment
  <2> QED BY <1>2, <2>2, SegmentBounds, ValidSegmentMeaning
<1>5. ASSUME NEW x \in DOMAIN out
      PROVE  pair[1] # 0 /\ EndBeforeStartWithGap(out[x].end, g.start)
  <2>1. PICK y \in DOMAIN l : out[x].end = l[y].end /\ y < pair[1]
    BY DEF KeptBehind
  <2>2. pair[1] \in DOMAIN l /\ pair[1] # 0
    BY <1>1, <2>1
  <2> QED BY <1>2, <2>1, <2>2 DEF Proper, Apart
<1>6. Proper(Append(out, g)) /\ Members(Append(out, g)) = Members(out) \cup SegmentMembers(g)
  BY <1>2, <1>4, <1>5, AppendProper
<1>7. pair[1] = 0 => out = << >>
  <2>1. out # << >> => 1 \in DOMAIN out
    BY <1>1, RangeElements, EmptySeq DEF Ranges
  <2> QED BY <1>5, <2>1
<1> QED BY <1>1, <1>2, <1>3, <1>6, <1>7 DEF KeptFit

\* A version that l does not contain closes the pair in progress.
LEMMA MissedStep ==
    ASSUME NEW l, Proper(l), NEW vs \in Seq(Versions), SortedList(vs),
           NEW a \in 1 .. Len(l) + 1, NEW b \in 1 .. Len(vs),
           NEW pair, PairOrNone(l, pair), NEW loc \in Seq(BOOLEAN), NEW out,
           Simplifying(l, vs, a, b, pair, loc, out),
           NEW k, IsScanned(l, vs, a, b, k, FALSE),
           NEW loc2, loc2 = Append(loc, FALSE),
           NEW out2,
           out2 = IF pair = << >> THEN out ELSE Append(out, KeptOf(l, pair[1], pair[2]))
    PROVE  Simplifying(l, vs, k, b + 1, << >>, loc2, out2)
<1>1. /\ l \in Ranges /\ Len(l) \in Nat /\ DOMAIN l = 1 .. Len(l) /\ b \in Int /\ a \in Int
      /\ \A m \in 1 .. Len(l) : l[m] \in Segment /\ l[m].start \in Bound /\ l[m].end \in Bound
      /\ Len(vs) \in Nat /\ DOMAIN vs = 1 .. Len(vs)
      /\ \A q \in 1 .. Len(vs) : vs[q] \in Versions
  BY RangeElements DEF Proper
<1>2. Scanned(l, vs, k, b + 1, loc2) /\ loc2[b] = FALSE /\ \A q \in 1 .. b - 1 : loc2[q] = loc[q]
  <2>1. Scanned(l, vs, a, b, loc)
    BY DEF Simplifying
  <2>2. PICK found \in BOOLEAN : found = FALSE
    OBVIOUS
  <2>3. IsScanned(l, vs, a, b, k, found) /\ loc2 = Append(loc, found)
    BY <2>2
  <2>4. NextScan(l, vs, k, b, loc, loc2, found)
    BY <1>1, <2>1, <2>3, ScannedNext
  <2> QED BY <2>2, <2>4 DEF NextScan
<1>3. /\ k \in a .. Len(l) + 1 /\ k \in Int /\ a <= k
      /\ vs[b] \in Versions /\ vs[b] \notin Members(l)
      /\ k <= Len(l) => ~AfterStart(vs[b], l[k].start)
      /\ \A m \in 1 .. k - 1 : ~BeforeEnd(vs[b], l[m].end)
  <2>1. b \in DOMAIN vs /\ b <= b
    BY <1>1
  <2>2. k \in a .. Len(l) + 1 /\ \A m \in 1 .. k - 1 : ~BeforeEnd(vs[b], l[m].end)
    BY <2>1 DEF IsScanned
  <2>3. vs[b] \notin Members(l) /\ (k <= Len(l) => ~AfterStart(vs[b], l[k].start))
    BY DEF IsScanned
  <2> QED BY <1>1, <2>2, <2>3
<1>4. (b + 1) - 1 = b /\ 1 < b + 1 /\ b + 1 # 1 /\ b \in 1 .. b
  BY <1>1
<1>5. PairInProgress(l, vs, k, b + 1, << >>)
  BY DEF PairInProgress
<1>6. FromTheFirst(b + 1, loc2, << >>, out2)
  BY <1>2, <1>4 DEF FromTheFirst
<1>7. CASE pair = << >>
  <2>1. out2 = out /\ Proper(out)
    BY <1>7 DEF Simplifying
  <2>2. ASSUME NEW x \in DOMAIN out PROVE \E e \in DOMAIN l : out[x].end = l[e].end /\ e < k
    <3>1. PICK e \in DOMAIN l : out[x].end = l[e].end /\ e < a
      BY <1>7 DEF Simplifying, KeptBehind
    <3> QED BY <1>1, <1>3, <3>1
  <2>3. KeptBehind(l, k, << >>, out)
    BY <2>2 DEF KeptBehind
  <2>4. vs[b] \notin Members(out)
    <3> SUFFICES ASSUME NEW x \in DOMAIN out, vs[b] \in SegmentMembers(out[x]) PROVE FALSE
      BY InMembers
    <3>1. PICK e \in DOMAIN l : out[x].end = l[e].end /\ e < k
      BY <2>2
    <3>2. e \in 1 .. k - 1 /\ BeforeEnd(vs[b], out[x].end)
      BY <1>1, <1>3, <3>1, InSegment
    <3> QED BY <1>3, <3>1, <3>2
  <2>5. ASSUME NEW q \in 1 .. b
        PROVE  (loc2[q] => vs[q] \in Members(out)) /\ (~loc2[q] => vs[q] \notin Members(out))
    <3>1. CASE q = b
      BY <1>2, <2>4, <3>1
    <3>2. CASE q # b
      <4>1. q \in 1 .. b - 1 /\ loc2[q] = loc[q]
        <5>1. q \in 1 .. b - 1
          BY <1>1, <3>2
        <5> QED BY <1>2, <5>1
      <4> QED BY <1>7, <4>1 DEF Simplifying, AgreesBefore
    <3> QED BY <3>1, <3>2
  <2>6. AgreesBefore(l, vs, b + 1, loc2, << >>, out)
    BY <1>4, <2>5 DEF AgreesBefore
  <2> QED BY <1>2, <1>5, <1>6, <2>1, <2>3, <2>6 DEF Simplifying
<1>8. CASE pair # << >>
  <2>1. /\ Proper(out) /\ PairInProgress(l, vs, a, b, pair) /\ KeptBehind(l, a, pair, out)
        /\ 1 < b /\ a \in 1 .. Len(l) /\ pair[2] = a /\ pair[1] \in 0 .. a
        /\ vs[b - 1] \in SegmentMembers(l[a])
    BY <1>1, <1>8 DEF Simplifying, PairInProgress
  <2>2. PICK g : g = KeptOf(l, pair[1], a)
    OBVIOUS
  <2>3. /\ g \in Segment /\ g.end = l[a].end /\ g.start = KeptOf(l, pair[1], pair[2]).start
        /\ Proper(Append(out, g)) /\ Members(Append(out, g)) = Members(out) \cup SegmentMembers(g)
    <3>1. PICK e \in {0, a} : e = a
      OBVIOUS
    <3>2. g = KeptOf(l, pair[1], e) /\ e # 0
      BY <2>1, <2>2, <3>1
    <3>3. KeptFit(l, a, pair, out, e, g)
      BY <1>1, <1>8, <2>1, <3>2, KeptFits
    <3> QED BY <3>2, <3>3 DEF KeptFit
  <2>4. out2 = Append(out, g)
    BY <1>8, <2>1, <2>2
  \* The version is behind the segment at which the pair ends.
  <2>5. a < k
    <3>1. b - 1 \in DOMAIN vs /\ b \in DOMAIN vs /\ b - 1 <= b
      BY <1>1, <2>1
    <3>2. vs[b - 1] <= vs[b] /\ vs[b - 1] \in Versions
      BY <1>1, <3>1 DEF SortedList
    <3>3. AfterStart(vs[b], l[a].start)
      BY <1>1, <1>3, <2>1, <3>2, InSegment, Monotone
    <3> QED BY <1>1, <1>3, <2>1, <3>3
  <2>6. ~BeforeEnd(vs[b], l[a].end)
    <3>1. a \in 1 .. k - 1
      BY <1>3, <2>1, <2>5
    <3> QED BY <1>3, <3>1
  <2>7. ASSUME NEW x \in DOMAIN out PROVE \E e \in DOMAIN l : out[x].end = l[e].end /\ e < a
    <3>1. PICK e \in DOMAIN l : out[x].end = l[e].end /\ e < pair[1]
      BY <1>8, <2>1 DEF KeptBehind
    <3> QED BY <1>1, <2>1, <3>1
  <2>8. /\ out \in Ranges /\ Len(out) \in Nat /\ DOMAIN out = 1 .. Len(out)
        /\ DOMAIN out2 = 1 .. Len(out) + 1 /\ out2[Len(out) + 1] = g
        /\ \A x \in 1 .. Len(out) : out2[x] = out[x]
    <3>1. out \in Ranges
      BY <2>1 DEF Proper
    <3> QED BY <2>3, <2>4, <3>1, RangeElements DEF Ranges
  <2>9. ASSUME NEW x \in DOMAIN out2 PROVE \E e \in DOMAIN l : out2[x].end = l[e].end /\ e < k
    <3>1. CASE x \in DOMAIN out
      <4>1. PICK e \in DOMAIN l : out[x].end = l[e].end /\ e < a
        BY <2>7, <3>1
      <4>2. e < k /\ out2[x].end = l[e].end
        BY <1>1, <1>3, <2>5, <2>8, <3>1, <4>1
      <4> QED BY <4>2
    <3>2. CASE x = Len(out) + 1
      BY <1>1, <2>1, <2>3, <2>5, <2>8, <3>2
    <3> QED BY <2>8, <3>1, <3>2
  <2>10. KeptBehind(l, k, << >>, out2)
    BY <2>9 DEF KeptBehind
  <2>11. vs[b] \notin Members(out2)
    <3> SUFFICES ASSUME NEW x \in DOMAIN out2, vs[b] \in SegmentMembers(out2[x]) PROVE FALSE
      BY InMembers
    <3>1. PICK e \in DOMAIN l : out2[x].end = l[e].end /\ e < k
      BY <2>9
    <3>2. e \in 1 .. k - 1
      BY <1>1, <1>3, <3>1
    <3>3. BeforeEnd(vs[b], out2[x].end)
      BY InSegment
    <3> QED BY <1>3, <3>1, <3>2, <3>3
  <2>12. ASSUME NEW q \in 1 .. b
         PROVE  (loc2[q] => vs[q] \in Members(out2)) /\ (~loc2[q] => vs[q] \notin Members(out2))
    <3>1. CASE q = b
      BY <1>2, <2>11, <3>1
    <3>2. CASE q # b
      <4>1. q \in 1 .. b - 1 /\ loc2[q] = loc[q]
        <5>1. q \in 1 .. b - 1
          BY <1>1, <3>2
        <5> QED BY <1>2, <5>1
      <4>2. loc[q] => vs[q] \in Members(out) \/ vs[q] \in SegmentMembers(g)
        BY <2>1, <2>2, <4>1 DEF Simplifying, AgreesBefore
      <4>3. ~loc[q] => vs[q] \notin Members(out) /\ ~AfterStart(vs[q], g.start)
        BY <1>8, <2>1, <2>2, <4>1 DEF Simplifying, AgreesBefore
      <4> QED BY <2>3, <2>4, <4>1, <4>2, <4>3, InSegment
    <3> QED BY <3>1, <3>2
  <2>13. AgreesBefore(l, vs, b + 1, loc2, << >>, out2)
    BY <1>4, <2>12 DEF AgreesBefore
  <2> QED BY <1>2, <1>5, <1>6, <2>3, <2>4, <2>10, <2>13 DEF Simplifying
<1> QED BY <1>7, <1>8

\* After the last version, the pair in progress loses its upper bound.
LEMMA SimplifiedEnd ==
    ASSUME NEW l, Proper(l), ~IsSingleton(l), NEW vs \in Seq(Versions), NEW a \in 1 .. Len(l) + 1,
           NEW pair, NEW loc \in Seq(BOOLEAN), NEW out,
           Simplifying(l, vs, a, Len(vs) + 1, pair, loc, out),
           NEW kept, kept = IF pair = << >> THEN out ELSE Append(out, KeptOf(l, pair[1], 0))
    PROVE  Simplified(l, vs, IF kept = Empty THEN l ELSE kept)
<1>1. /\ Len(vs) \in Nat /\ DOMAIN vs = 1 .. Len(vs) /\ (Len(vs) + 1) - 1 = Len(vs)
      /\ (vs # << >> => 1 < Len(vs) + 1)
  OBVIOUS
<1>2. \A q \in DOMAIN vs : loc[q] <=> vs[q] \in Members(l)
  BY <1>1 DEF Simplifying, Scanned
<1>3. vs # << >> /\ (\A q \in DOMAIN vs : vs[q] \in Members(l)) => pair # << >> /\ pair[1] = 0
  BY <1>1, <1>2 DEF Simplifying, FromTheFirst
<1>4. Proper(out)
  BY DEF Simplifying
<1>5. CASE pair = << >>
  <2>1. kept = out
    BY <1>5
  <2>2. CASE out = Empty
    BY <1>3, <1>5, <2>1, <2>2 DEF Simplified
  <2>3. CASE out # Empty
    <3>1. \A q \in DOMAIN vs : vs[q] \in Members(out) <=> vs[q] \in Members(l)
      BY <1>1, <1>2, <1>5 DEF Simplifying, AgreesBefore
    <3> QED BY <1>3, <1>4, <1>5, <2>1, <2>3, <3>1 DEF Simplified
  <2> QED BY <2>2, <2>3
<1>6. CASE pair # << >>
  <2>1. PICK b : b = Len(vs) + 1
    OBVIOUS
  <2>2. /\ b \in Int /\ PairInProgress(l, vs, a, b, pair) /\ KeptBehind(l, a, pair, out)
        /\ pair[2] = a
    BY <1>1, <1>6, <2>1 DEF Simplifying, PairInProgress
  <2>3. PICK g : g = KeptOf(l, pair[1], 0)
    OBVIOUS
  <2>4. /\ g \in Segment /\ g.end = Unbounded /\ g.start = KeptOf(l, pair[1], a).start
        /\ Proper(Append(out, g)) /\ Members(Append(out, g)) = Members(out) \cup SegmentMembers(g)
        /\ pair[1] = 0 => g.start = Unbounded /\ out = << >>
    <3>1. PICK e \in {0, a} : e = 0
      OBVIOUS
    <3>2. g = KeptOf(l, pair[1], e)
      BY <2>3, <3>1
    <3>3. KeptFit(l, a, pair, out, e, g)
      BY <1>4, <1>6, <2>2, <3>2, KeptFits
    <3> QED BY <2>2, <3>1, <3>3 DEF KeptFit
  <2>5. kept = Append(out, g) /\ kept # Empty
    <3>1. kept = Append(out, g) /\ out \in Seq(Segment)
      BY <1>4, <1>6, <2>3 DEF Proper, Ranges
    <3> QED BY <2>4, <3>1 DEF Empty
  <2>6. ASSUME NEW q \in DOMAIN vs PROVE vs[q] \in Members(kept) <=> vs[q] \in Members(l)
    <3>1. loc[q] => vs[q] \in Members(out) \/ vs[q] \in SegmentMembers(KeptOf(l, pair[1], a))
      BY <1>1, <2>2 DEF Simplifying, AgreesBefore
    <3>2. ~loc[q] => vs[q] \notin Members(out) /\ ~AfterStart(vs[q], g.start)
      BY <1>1, <1>6, <2>2, <2>4 DEF Simplifying, AgreesBefore
    <3>3. vs[q] \in SegmentMembers(KeptOf(l, pair[1], a)) => vs[q] \in SegmentMembers(g)
      BY <2>4, InSegment DEF BeforeEnd, IsUnbounded, Unbounded
    <3>4. vs[q] \in SegmentMembers(g) => AfterStart(vs[q], g.start)
      BY InSegment
    <3>5. vs[q] \in Members(kept) <=> vs[q] \in Members(out) \/ vs[q] \in SegmentMembers(g)
      BY <2>4, <2>5
    <3> QED BY <1>2, <3>1, <3>2, <3>3, <3>4, <3>5
  <2>7. ASSUME pair[1] = 0 PROVE kept = Full
    <3>1. g = Seg(Unbounded, Unbounded) /\ kept = Append(<< >>, g)
      BY <2>4, <2>5, <2>7, SegmentBounds
    <3>2. Append(<< >>, g) = <<g>>
      OBVIOUS
    <3> QED BY <3>1, <3>2 DEF Full
  <2> QED BY <1>3, <2>4, <2>5, <2>6, <2>7 DEF Simplified
<1> QED BY <1>5, <1>6

\* A single version is returned as it is.
LEMMA SimplifiedSingleton ==
    ASSUME NEW l, Proper(l), IsSingleton(l), NEW vs
    PROVE  Simplified(l, vs, l)
BY DEF Simplified

-----------------------------------------------------------------------------
(* The steps of the loops *)

\* Only the steps of its operation are possible in a call.
LEMMA StepsOfOperation ==
    ASSUME Next
    PROVE  /\ op = "union" => UnionStep \/ UnionEnd \/ UNCHANGED vars
           /\ op = "intersection" => IntersectionStep \/ IntersectionEnd \/ UNCHANGED vars
           /\ op = "is_disjoint" =>
                 DisjointStep \/ DisjointOverlap \/ DisjointEnd \/ UNCHANGED vars
           /\ op = "subset_of" =>
                 \/ SubsetOfEmpty \/ SubsetSkip \/ SubsetStep \/ SubsetFails \/ SubsetEnd
                 \/ UNCHANGED vars
           /\ op = "complement" => ComplementCall \/ UNCHANGED vars
           /\ op = "from_iter" => FromIterStep \/ FromIterEnd \/ UNCHANGED vars
           /\ op = "simplify" =>
                 \/ SimplifySingleton \/ SimplifyPanics \/ SimplifyStep \/ SimplifyEnd
                 \/ UNCHANGED vars
<1>1. UnionStep \/ UnionEnd => op = "union"
  BY DEF UnionStep, UnionEnd, Running
<1>2. IntersectionStep \/ IntersectionEnd => op = "intersection"
  BY DEF IntersectionStep, IntersectionEnd, Running
<1>3. DisjointStep \/ DisjointOverlap \/ DisjointEnd => op = "is_disjoint"
  BY DEF DisjointStep, DisjointOverlap, DisjointEnd, Running
<1>4. SubsetOfEmpty \/ SubsetSkip \/ SubsetStep \/ SubsetFails \/ SubsetEnd => op = "subset_of"
  BY DEF SubsetOfEmpty, SubsetSkip, SubsetStep, SubsetFails, SubsetEnd, Running
<1>5. ComplementCall => op = "complement"
  BY DEF ComplementCall, Running
<1>6. FromIterStep \/ FromIterEnd => op = "from_iter"
  BY DEF FromIterStep, FromIterEnd, Running
<1>7. SimplifySingleton \/ SimplifyPanics \/ SimplifyStep \/ SimplifyEnd => op = "simplify"
  BY DEF SimplifySingleton, SimplifyPanics, SimplifyStep, SimplifyEnd, Running
<1>8. Terminated => UNCHANGED vars
  BY DEF Terminated
<1> QED BY <1>1, <1>2, <1>3, <1>4, <1>5, <1>6, <1>7, <1>8 DEF Next

\* The three ways to end a step keep the types.
LEMMA ReturnKeepsType ==
    ASSUME RangesType, NEW value \in Ranges, Return(value)
    PROVE  RangesType' /\ running' = FALSE /\ output' = value
<1>1. /\ UNCHANGED <<op, left, right, versions, i, j, accumulator, located, answer, panicked>>
      /\ running' = FALSE /\ output' = value
  BY DEF Return, arguments, check
<1> QED BY <1>1 DEF RangesType, Pairs

LEMMA AnswerKeepsType ==
    ASSUME RangesType, NEW value \in BOOLEAN, Answer(value)
    PROVE  RangesType' /\ running' = FALSE /\ answer' = value /\ output' = output
<1>1. /\ UNCHANGED <<op, left, right, versions, i, j, accumulator, located, panicked, output>>
      /\ running' = FALSE /\ answer' = value
  BY DEF Answer, arguments, check
<1> QED BY <1>1 DEF RangesType, Pairs

LEMMA AdvanceKeepsType ==
    ASSUME RangesType, op # "simplify", UNCHANGED <<arguments, running, located, check, answer>>,
           \/ LeftHasNext /\ AdvanceLeft
           \/ RightHasNext /\ AdvanceRight,
           accumulator' \in Ranges, output' \in Ranges
    PROVE  RangesType'
<1>1. UNCHANGED <<op, left, right, versions, running, located, panicked, answer>>
  BY DEF arguments, check
<1>2. Len(left) \in Nat /\ Len(right) \in Nat
  BY DEF RangesType, Ranges
<1>3. i' \in 1 .. Len(left) + 1 /\ j' \in 1 .. Len(right) + 1
  BY <1>2 DEF RangesType, LeftHasNext, RightHasNext, AdvanceLeft, AdvanceRight
<1> QED BY <1>1, <1>3 DEF RangesType

\* The types and the form of the arguments.
LEMMA ArgumentsAreProper ==
    ASSUME RangesInvariant
    PROVE  /\ RangesType
           /\ left \in Ranges /\ Len(left) \in Nat /\ DOMAIN left = 1 .. Len(left)
           /\ right \in Ranges /\ Len(right) \in Nat /\ DOMAIN right = 1 .. Len(right)
           /\ Proper(right) /\ (op # "from_iter" => Proper(left))
           /\ op # "simplify" => /\ i \in 1 .. Len(left) + 1 /\ j \in 1 .. Len(right) + 1
                                 /\ i \in Int /\ j \in Int
<1>1. RangesType /\ WellFormedArguments /\ left \in Ranges /\ right \in Ranges
  BY DEF RangesInvariant, RangesType
<1>2. Proper(right) /\ (op # "from_iter" => Proper(left))
  BY <1>1, ProperIsWellFormed DEF WellFormedArguments
<1>3. op # "simplify" => i \in 1 .. Len(left) + 1 /\ j \in 1 .. Len(right) + 1
  BY <1>1 DEF RangesType
<1> QED BY <1>1, <1>2, <1>3, RangeElements

\* The loop of union keeps its invariant.
LEMMA UnionKeeps ==
    ASSUME RangesInvariant, op = "union", Next
    PROVE  RangesType' /\ UnionInvariant'
<1>1. /\ RangesType /\ left \in Ranges /\ right \in Ranges /\ Proper(left) /\ Proper(right)
      /\ Len(left) \in Nat /\ DOMAIN left = 1 .. Len(left)
      /\ Len(right) \in Nat /\ DOMAIN right = 1 .. Len(right)
      /\ i \in 1 .. Len(left) + 1 /\ j \in 1 .. Len(right) + 1 /\ i \in Int /\ j \in Int
  BY ArgumentsAreProper
<1>2. UnionStep \/ UnionEnd \/ UNCHANGED vars
  BY StepsOfOperation
<1>3. UnionInvariant /\ output \in Ranges
  BY DEF RangesInvariant, RangesType
<1>4. CASE UnionStep
  <2>1. /\ running /\ running' = running /\ left' = left /\ right' = right
        /\ UNCHANGED <<arguments, running, located, check, answer>>
    BY <1>4 DEF UnionStep, Running, arguments
  <2>2. United(left, right, i, j, accumulator, output)
    BY <1>3, <2>1 DEF UnionInvariant
  <2>3. PICK accu2 : accu2 = accumulator'
    OBVIOUS
  <2>4. PICK out2 : out2 = output'
    OBVIOUS
  <2>5. CASE LeftIsNext
    <3>1. /\ i \in DOMAIN left
          /\ j <= Len(right) => LeftStartIsSmaller(left[i].start, right[j].start)
      BY <1>1, <2>5 DEF LeftIsNext, LeftHasNext, RightHasNext
    <3>2. i' = i + 1 /\ j' = j /\ Unite(left[i])
      BY <1>4, <2>5 DEF UnionStep, AdvanceLeft
    <3>3. IF accumulator = << >> \/ EndBeforeStartWithGap(accumulator[1].end, left[i].start)
          THEN out2 = output \o accumulator /\ accu2 = <<left[i]>>
          ELSE /\ accu2 = <<Seg(accumulator[1].start, LaterEnd(accumulator[1].end, left[i].end))>>
               /\ out2 = output
      BY <2>3, <2>4, <3>2 DEF Unite, LeavesAccumulator
    <3>4. United(left, right, i + 1, j, accu2, out2) /\ out2 \in Ranges
      BY <1>1, <1>3, <2>2, <3>1, <3>3, UnitedStep
    <3>5. accumulator' \in Ranges /\ output' \in Ranges
      BY <2>3, <2>4, <3>4 DEF United
    <3>6. RangesType'
      <4>1. LeftHasNext /\ AdvanceLeft /\ op # "simplify"
        BY <2>5, <3>2 DEF LeftIsNext, AdvanceLeft
      <4> QED BY <1>1, <2>1, <3>5, <4>1, AdvanceKeepsType
    <3> QED BY <2>1, <2>3, <2>4, <3>2, <3>4, <3>6 DEF UnionInvariant
  <2>6. CASE ~LeftIsNext
    <3>1. /\ j \in DOMAIN right
          /\ i <= Len(left) => LeftStartIsSmaller(right[j].start, left[i].start)
      <4>1. j \in DOMAIN right
        BY <1>1, <1>4, <2>6 DEF UnionStep, LeftIsNext, LeftHasNext, RightHasNext
      <4>2. ASSUME i <= Len(left) PROVE LeftStartIsSmaller(right[j].start, left[i].start)
        <5>1. ~LeftStartIsSmaller(left[i].start, right[j].start)
          BY <2>6, <4>2 DEF LeftIsNext, LeftHasNext
        <5>2. left[i].start \in Bound /\ right[j].start \in Bound
          BY <1>1, <4>1, <4>2, RangeElements
        <5> QED BY <5>1, <5>2, StartsTotal
      <4> QED BY <4>1, <4>2
    <3>2. i' = i /\ j' = j + 1 /\ Unite(right[j])
      BY <1>4, <2>6 DEF UnionStep, AdvanceRight
    <3>3. IF accumulator = << >> \/ EndBeforeStartWithGap(accumulator[1].end, right[j].start)
          THEN out2 = output \o accumulator /\ accu2 = <<right[j]>>
          ELSE /\ accu2 = <<Seg(accumulator[1].start, LaterEnd(accumulator[1].end, right[j].end))>>
               /\ out2 = output
      BY <2>3, <2>4, <3>2 DEF Unite, LeavesAccumulator
    <3>4. United(right, left, j, i, accumulator, output)
      BY <2>2, UnitedSwap
    <3>5. United(right, left, j + 1, i, accu2, out2) /\ out2 \in Ranges
      BY <1>1, <1>3, <3>1, <3>3, <3>4, UnitedStep
    <3>6. United(left, right, i, j + 1, accu2, out2)
      BY <3>5, UnitedSwap
    <3>7. accumulator' \in Ranges /\ output' \in Ranges
      BY <2>3, <2>4, <3>5, <3>6 DEF United
    <3>8. RangesType'
      <4>1. RightHasNext /\ AdvanceRight /\ op # "simplify"
        BY <1>1, <3>1, <3>2 DEF RightHasNext, AdvanceRight
      <4> QED BY <1>1, <2>1, <3>7, <4>1, AdvanceKeepsType
    <3> QED BY <2>1, <2>3, <2>4, <3>2, <3>6, <3>8 DEF UnionInvariant
  <2> QED BY <2>5, <2>6
<1>5. CASE UnionEnd
  <2>1. running /\ Return(output \o accumulator) /\ ~LeftHasNext /\ ~RightHasNext
    BY <1>5 DEF UnionEnd, Running
  <2>2. United(left, right, i, j, accumulator, output)
    BY <1>3, <2>1 DEF UnionInvariant
  <2>3. PICK value : value = output \o accumulator
    OBVIOUS
  <2>4. Proper(value) /\ Members(value) = MembersBefore(left, i) \cup MembersBefore(right, j)
    BY <2>2, <2>3 DEF United
  <2>5. MembersBefore(left, i) = Members(left) /\ MembersBefore(right, j) = Members(right)
    <3>1. Len(left) < i /\ Len(right) < j
      BY <1>1, <2>1 DEF LeftHasNext, RightHasNext
    <3> QED BY <1>1, <3>1, MembersBeforeEnds
  <2>6. RangesType' /\ running' = FALSE /\ output' = value
    <3>1. value \in Ranges /\ Return(value)
      BY <2>1, <2>3, <2>4 DEF Proper
    <3> QED BY <1>1, <3>1, ReturnKeepsType
  <2>7. left' = left /\ right' = right
    BY <2>1 DEF Return, arguments
  <2> QED BY <2>4, <2>5, <2>6, <2>7 DEF UnionInvariant
<1>6. CASE UNCHANGED vars
  <2>1. RangesType' = RangesType /\ UnionInvariant' = UnionInvariant
    BY <1>6 DEF vars, RangesType, Pairs, UnionInvariant
  <2> QED BY <1>1, <1>3, <2>1
<1> QED BY <1>2, <1>4, <1>5, <1>6

\* The loop of intersection keeps its invariant.
LEMMA IntersectionKeeps ==
    ASSUME RangesInvariant, op = "intersection", Next
    PROVE  RangesType' /\ IntersectionInvariant'
<1>1. /\ RangesType /\ left \in Ranges /\ right \in Ranges /\ Proper(left) /\ Proper(right)
      /\ Len(left) \in Nat /\ DOMAIN left = 1 .. Len(left)
      /\ Len(right) \in Nat /\ DOMAIN right = 1 .. Len(right)
      /\ i \in 1 .. Len(left) + 1 /\ j \in 1 .. Len(right) + 1 /\ i \in Int /\ j \in Int
  BY ArgumentsAreProper
<1>2. IntersectionStep \/ IntersectionEnd \/ UNCHANGED vars
  BY StepsOfOperation
<1>3. IntersectionInvariant /\ output \in Ranges /\ accumulator \in Ranges
  BY DEF RangesInvariant, RangesType
<1>4. CASE IntersectionStep
  <2>1. /\ running /\ running' = running /\ left' = left /\ right' = right
        /\ UNCHANGED <<arguments, running, located, check, answer>>
        /\ accumulator' = accumulator /\ LeftHasNext /\ RightHasNext
    BY <1>4 DEF IntersectionStep, Running, arguments
  <2>2. Intersected(left, right, i, j, output)
    BY <1>3, <2>1 DEF IntersectionInvariant
  <2>3. PICK new : new = output'
    OBVIOUS
  <2>4. /\ i \in DOMAIN left /\ j \in DOMAIN right
        /\ left[i].start \in Bound /\ left[i].end \in Bound
        /\ right[j].start \in Bound /\ right[j].end \in Bound
    <3>1. i \in 1 .. Len(left) /\ j \in 1 .. Len(right)
      BY <1>1, <2>1 DEF LeftHasNext, RightHasNext
    <3> QED BY <1>1, <3>1, RangeElements
  <2>5. CASE LeftEndIsSmaller(left[i].end, right[j].end)
    <3>1. /\ AdvanceLeft /\ i' = i + 1 /\ j' = j
          /\ new = IF ValidSegment(right[j].start, left[i].end)
                   THEN Append(output, Seg(LaterStart(left[i].start, right[j].start), left[i].end))
                   ELSE output
      BY <1>4, <2>3, <2>5 DEF IntersectionStep, AdvanceLeft
    <3>2. Intersected(left, right, i + 1, j, new)
      BY <1>1, <2>2, <2>4, <2>5, <3>1, IntersectedStep
    <3>3. accumulator' \in Ranges /\ output' \in Ranges /\ op # "simplify"
      BY <1>3, <2>1, <2>3, <3>2 DEF Intersected, Proper
    <3>4. RangesType'
      BY <1>1, <2>1, <3>1, <3>3, AdvanceKeepsType
    <3> QED BY <2>1, <2>3, <3>1, <3>2, <3>4 DEF IntersectionInvariant
  <2>6. CASE ~LeftEndIsSmaller(left[i].end, right[j].end)
    <3>1. LeftEndIsSmaller(right[j].end, left[i].end)
      BY <2>4, <2>6, EndsTotal
    <3>2. /\ AdvanceRight /\ i' = i /\ j' = j + 1
          /\ new = IF ValidSegment(left[i].start, right[j].end)
                   THEN Append(output, Seg(LaterStart(left[i].start, right[j].start), right[j].end))
                   ELSE output
      BY <1>4, <2>3, <2>6 DEF IntersectionStep, AdvanceRight
    <3>3. LaterStart(left[i].start, right[j].start) = LaterStart(right[j].start, left[i].start)
      BY <2>4, LaterStartSymmetric
    <3>4. new = IF ValidSegment(left[i].start, right[j].end)
                THEN Append(output, Seg(LaterStart(right[j].start, left[i].start), right[j].end))
                ELSE output
      BY <3>2, <3>3
    <3>5. Intersected(right, left, j, i, output)
      BY <2>2, IntersectedSwap
    <3>6. Intersected(right, left, j + 1, i, new)
      BY <1>1, <2>4, <3>1, <3>4, <3>5, IntersectedStep
    <3>7. Intersected(left, right, i, j + 1, new)
      BY <3>6, IntersectedSwap
    <3>8. accumulator' \in Ranges /\ output' \in Ranges /\ op # "simplify"
      BY <1>3, <2>1, <2>3, <3>7 DEF Intersected, Proper
    <3>9. RangesType'
      BY <1>1, <2>1, <3>2, <3>8, AdvanceKeepsType
    <3> QED BY <2>1, <2>3, <3>2, <3>7, <3>9 DEF IntersectionInvariant
  <2> QED BY <2>5, <2>6
<1>5. CASE IntersectionEnd
  <2>1. running /\ Return(output) /\ ~(LeftHasNext /\ RightHasNext)
    BY <1>5 DEF IntersectionEnd, Running
  <2>2. Intersected(left, right, i, j, output)
    BY <1>3, <2>1 DEF IntersectionInvariant
  <2>3. RangesType' /\ running' = FALSE /\ output' = output
    BY <1>1, <1>3, <2>1, ReturnKeepsType
  <2>4. left' = left /\ right' = right
    BY <2>1 DEF Return, arguments
  <2>5. \A v : InPassedPair(left, right, i, j, v) <=> v \in Members(left) /\ v \in Members(right)
    <3>1. Len(left) < i \/ Len(right) < j
      BY <1>1, <2>1 DEF LeftHasNext, RightHasNext
    <3> QED BY <1>1, <3>1, AllPassed
  <2>6. Members(output) = Members(left) \cap Members(right)
    <3>1. \A v : v \in Members(output) => v \in Versions
      BY InMembers, InSegment
    <3>2. \A v : v \in Members(left) => v \in Versions
      BY InMembers, InSegment
    <3> QED BY <2>2, <2>5, <3>1, <3>2 DEF Intersected
  <2>7. Proper(output)
    BY <2>2 DEF Intersected
  <2> QED BY <2>3, <2>4, <2>6, <2>7 DEF IntersectionInvariant
<1>6. CASE UNCHANGED vars
  <2>1. RangesType' = RangesType /\ IntersectionInvariant' = IntersectionInvariant
    BY <1>6 DEF vars, RangesType, Pairs, IntersectionInvariant
  <2> QED BY <1>1, <1>3, <2>1
<1> QED BY <1>2, <1>4, <1>5, <1>6

\* The loop of is_disjoint keeps its invariant.
LEMMA DisjointKeeps ==
    ASSUME RangesInvariant, op = "is_disjoint", Next
    PROVE  RangesType' /\ DisjointInvariant'
<1>1. /\ RangesType /\ left \in Ranges /\ right \in Ranges /\ Proper(left) /\ Proper(right)
      /\ Len(left) \in Nat /\ DOMAIN left = 1 .. Len(left)
      /\ Len(right) \in Nat /\ DOMAIN right = 1 .. Len(right)
      /\ i \in 1 .. Len(left) + 1 /\ j \in 1 .. Len(right) + 1 /\ i \in Int /\ j \in Int
  BY ArgumentsAreProper
<1>2. DisjointStep \/ DisjointOverlap \/ DisjointEnd \/ UNCHANGED vars
  BY StepsOfOperation
<1>3. DisjointInvariant /\ output \in Ranges /\ accumulator \in Ranges
  BY DEF RangesInvariant, RangesType
<1>4. ASSUME LeftHasNext, RightHasNext
      PROVE  /\ i \in DOMAIN left /\ j \in DOMAIN right
             /\ left[i] \in Segment /\ right[j] \in Segment
             /\ ValidSegment(left[i].start, left[i].end)
             /\ ValidSegment(right[j].start, right[j].end)
  <2>1. i \in 1 .. Len(left) /\ j \in 1 .. Len(right)
    BY <1>1, <1>4 DEF LeftHasNext, RightHasNext
  <2> QED BY <1>1, <2>1, RangeElements DEF Proper
<1>5. CASE DisjointStep
  <2>1. /\ running /\ running' = running /\ left' = left /\ right' = right
        /\ UNCHANGED <<arguments, running, located, check, answer>>
        /\ accumulator' = accumulator /\ output' = output /\ LeftHasNext /\ RightHasNext
    BY <1>5 DEF DisjointStep, Running, arguments
  <2>2. \A v \in Versions : ~InPassedPair(left, right, i, j, v)
    BY <1>3, <2>1 DEF DisjointInvariant
  <2>3. CASE AdvanceLeft /\ ~ValidSegment(right[j].start, left[i].end)
    <3>1. i' = i + 1 /\ j' = j
      BY <2>3 DEF AdvanceLeft
    <3>2. \A v \in Versions : ~InPassedPair(left, right, i + 1, j, v)
      BY <1>1, <1>4, <2>1, <2>2, <2>3, DisjointPasses
    <3>3. RangesType'
      BY <1>1, <1>3, <2>1, <2>3, AdvanceKeepsType
    <3> QED BY <1>3, <2>1, <3>1, <3>2, <3>3 DEF DisjointInvariant
  <2>4. CASE AdvanceRight /\ ~ValidSegment(left[i].start, right[j].end)
    <3>1. i' = i /\ j' = j + 1
      BY <2>4 DEF AdvanceRight
    <3>2. \A v \in Versions : ~InPassedPair(right, left, j, i, v)
      BY <2>2, InPassedPairSwap
    <3>3. \A v \in Versions : ~InPassedPair(right, left, j + 1, i, v)
      BY <1>1, <1>4, <2>1, <2>4, <3>2, DisjointPasses
    <3>4. \A v \in Versions : ~InPassedPair(left, right, i, j + 1, v)
      BY <3>3, InPassedPairSwap
    <3>5. RangesType'
      BY <1>1, <1>3, <2>1, <2>4, AdvanceKeepsType
    <3> QED BY <1>3, <2>1, <3>1, <3>4, <3>5 DEF DisjointInvariant
  <2> QED BY <1>5, <2>3, <2>4 DEF DisjointStep
<1>6. CASE DisjointOverlap
  <2>1. /\ running /\ Answer(FALSE) /\ LeftHasNext /\ RightHasNext
        /\ ValidSegment(right[j].start, left[i].end) /\ ValidSegment(left[i].start, right[j].end)
    BY <1>6 DEF DisjointOverlap, Running
  <2>2. PICK value \in BOOLEAN : value = FALSE
    OBVIOUS
  <2>3. RangesType' /\ running' = FALSE /\ answer' = value /\ output' = output
    BY <1>1, <2>1, <2>2, AnswerKeepsType
  <2>4. left' = left /\ right' = right
    BY <2>1 DEF Answer, arguments
  <2>5. SegmentMembers(left[i]) \cap SegmentMembers(right[j]) # {}
    BY <1>4, <2>1, OverlapHasVersion
  <2>6. Members(left) \cap Members(right) # {}
    <3>1. PICK v : v \in SegmentMembers(left[i]) /\ v \in SegmentMembers(right[j])
      BY <2>5
    <3>2. v \in Members(left) /\ v \in Members(right)
      BY <1>4, <2>1, <3>1, InMembers
    <3> QED BY <3>2
  <2> QED BY <1>3, <2>2, <2>3, <2>4, <2>6 DEF DisjointInvariant
<1>7. CASE DisjointEnd
  <2>1. running /\ Answer(TRUE) /\ ~(LeftHasNext /\ RightHasNext)
    BY <1>7 DEF DisjointEnd, Running
  <2>2. \A v \in Versions : ~InPassedPair(left, right, i, j, v)
    BY <1>3, <2>1 DEF DisjointInvariant
  <2>3. PICK value \in BOOLEAN : value = TRUE
    OBVIOUS
  <2>4. RangesType' /\ running' = FALSE /\ answer' = value /\ output' = output
    BY <1>1, <2>1, <2>3, AnswerKeepsType
  <2>5. left' = left /\ right' = right
    BY <2>1 DEF Answer, arguments
  <2>6. \A v : InPassedPair(left, right, i, j, v) <=> v \in Members(left) /\ v \in Members(right)
    <3>1. Len(left) < i \/ Len(right) < j
      BY <1>1, <2>1 DEF LeftHasNext, RightHasNext
    <3> QED BY <1>1, <3>1, AllPassed
  <2>7. Members(left) \cap Members(right) = {}
    <3>1. \A v : v \in Members(left) => v \in Versions
      BY InMembers, InSegment
    <3> QED BY <2>2, <2>6, <3>1
  <2> QED BY <1>3, <2>3, <2>4, <2>5, <2>7 DEF DisjointInvariant
<1>8. CASE UNCHANGED vars
  <2>1. RangesType' = RangesType /\ DisjointInvariant' = DisjointInvariant
    BY <1>8 DEF vars, RangesType, Pairs, DisjointInvariant
  <2> QED BY <1>1, <1>3, <2>1
<1> QED BY <1>2, <1>5, <1>6, <1>7, <1>8

\* The loop of subset_of keeps its invariant.
LEMMA SubsetKeeps ==
    ASSUME RangesInvariant, op = "subset_of", Next
    PROVE  RangesType' /\ SubsetInvariant'
<1>1. /\ RangesType /\ left \in Ranges /\ right \in Ranges /\ Proper(left) /\ Proper(right)
      /\ Len(left) \in Nat /\ DOMAIN left = 1 .. Len(left)
      /\ Len(right) \in Nat /\ DOMAIN right = 1 .. Len(right)
      /\ i \in 1 .. Len(left) + 1 /\ j \in 1 .. Len(right) + 1 /\ i \in Int /\ j \in Int
  BY ArgumentsAreProper
<1>2. SubsetOfEmpty \/ SubsetSkip \/ SubsetStep \/ SubsetFails \/ SubsetEnd \/ UNCHANGED vars
  BY StepsOfOperation
<1>3. SubsetInvariant /\ output \in Ranges /\ accumulator \in Ranges
  BY DEF RangesInvariant, RangesType
<1>4. LeftHasNext => i \in DOMAIN left
  BY <1>1 DEF LeftHasNext
<1>5. RightHasNext => j \in DOMAIN right
  BY <1>1 DEF RightHasNext
<1>6. CASE SubsetSkip \/ SubsetStep
  <2>1. /\ running /\ running' = running /\ left' = left /\ right' = right
        /\ UNCHANGED <<arguments, running, located, check, answer>>
        /\ accumulator' = accumulator /\ output' = output /\ LeftHasNext /\ RightHasNext
    BY <1>6 DEF SubsetSkip, SubsetStep, Running, arguments
  <2>2. ContainedSoFar(left, right, i, j)
    BY <1>3, <2>1 DEF SubsetInvariant
  <2>3. CASE SubsetSkip
    <3>1. AdvanceRight /\ i' = i /\ j' = j + 1 /\ EndsBefore(right[j], left[i])
      BY <2>3 DEF SubsetSkip, AdvanceRight
    <3>2. ContainedSoFar(left, right, i, j + 1)
      BY <1>1, <1>4, <1>5, <2>1, <2>2, <3>1, SubsetPassesRight
    <3>3. RangesType'
      BY <1>1, <1>3, <2>1, <3>1, AdvanceKeepsType
    <3> QED BY <1>3, <2>1, <3>1, <3>2, <3>3 DEF SubsetInvariant
  <2>4. CASE SubsetStep
    <3>1. AdvanceLeft /\ i' = i + 1 /\ j' = j /\ SegmentContained(left[i], right[j])
      BY <2>4 DEF SubsetStep, AdvanceLeft
    <3>2. left[i] \in Segment /\ right[j] \in Segment
      BY <1>1, <1>4, <1>5, <2>1, RangeElements
    <3>3. SegmentMembers(left[i]) \subseteq SegmentMembers(right[j])
      BY <3>1, <3>2, SubsetContained
    <3>4. SegmentMembers(left[i]) \subseteq Members(right)
      BY <1>5, <2>1, <3>3, InMembers
    <3>5. ContainedSoFar(left, right, i + 1, j)
      BY <1>1, <1>4, <2>1, <2>2, <3>4, SubsetPassesLeft
    <3>6. RangesType'
      BY <1>1, <1>3, <2>1, <3>1, AdvanceKeepsType
    <3> QED BY <1>3, <2>1, <3>1, <3>5, <3>6 DEF SubsetInvariant
  <2> QED BY <1>6, <2>3, <2>4
<1>7. ASSUME NEW value \in BOOLEAN, Answer(value), value <=> Members(left) \subseteq Members(right)
      PROVE  RangesType' /\ SubsetInvariant'
  <2>1. RangesType' /\ running' = FALSE /\ answer' = value /\ output' = output
    BY <1>1, <1>7, AnswerKeepsType
  <2>2. left' = left /\ right' = right
    BY <1>7 DEF Answer, arguments
  <2> QED BY <1>3, <1>7, <2>1, <2>2 DEF SubsetInvariant
<1>8. CASE SubsetOfEmpty
  <2>1. right = Empty /\ Answer(left = Empty)
    BY <1>8 DEF SubsetOfEmpty
  <2>2. Members(right) = {}
    BY <2>1, ProperSmall DEF Empty
  <2>3. left = Empty => Members(left) = {}
    BY ProperSmall DEF Empty
  <2>4. ASSUME left # Empty PROVE Members(left) # {}
    <3>1. 1 \in DOMAIN left
      BY <1>1, <2>4, EmptySeq DEF Ranges, Empty
    <3>2. left[1] \in Segment /\ ValidSegment(left[1].start, left[1].end)
      BY <1>1, <3>1, RangeElements DEF Proper
    <3>3. PICK v \in Versions : v \in SegmentMembers(left[1])
      BY <3>2, ValidHasMember
    <3> QED BY <3>1, <3>3, InMembers
  <2>5. PICK value \in BOOLEAN : value = (left = Empty)
    OBVIOUS
  <2>6. Answer(value)
    BY <2>1, <2>5
  <2>7. value <=> Members(left) \subseteq Members(right)
    BY <2>2, <2>3, <2>4, <2>5
  <2> QED BY <1>7, <2>6, <2>7
<1>9. CASE SubsetFails
  <2>1. /\ running /\ Answer(FALSE) /\ LeftHasNext
        /\ RightHasNext => ~EndsBefore(right[j], left[i]) /\ ~SegmentContained(left[i], right[j])
    BY <1>9 DEF SubsetFails, Running
  <2>2. ContainedSoFar(left, right, i, j)
    BY <1>3, <2>1 DEF SubsetInvariant
  <2>3. ~(Members(left) \subseteq Members(right))
    BY <1>1, <1>4, <2>1, <2>2, SubsetMissesVersion DEF RightHasNext
  <2>4. PICK value \in BOOLEAN : value = FALSE
    OBVIOUS
  <2> QED BY <1>7, <2>1, <2>3, <2>4
<1>10. CASE SubsetEnd
  <2>1. running /\ Answer(TRUE) /\ ~LeftHasNext
    BY <1>10 DEF SubsetEnd, Running
  <2>2. ContainedSoFar(left, right, i, j)
    BY <1>3, <2>1 DEF SubsetInvariant
  <2>3. Members(left) \subseteq Members(right)
    <3>1. Len(left) < i
      BY <1>1, <2>1 DEF LeftHasNext
    <3> QED BY <1>1, <2>2, <3>1, SubsetAllPassed
  <2>4. PICK value \in BOOLEAN : value = TRUE
    OBVIOUS
  <2> QED BY <1>7, <2>1, <2>3, <2>4
<1>11. CASE UNCHANGED vars
  <2>1. RangesType' = RangesType /\ SubsetInvariant' = SubsetInvariant
    BY <1>11 DEF vars, RangesType, Pairs, SubsetInvariant
  <2> QED BY <1>1, <1>3, <2>1
<1> QED BY <1>2, <1>6, <1>8, <1>9, <1>10, <1>11

\* complement establishes its invariant.
LEMMA ComplementKeeps ==
    ASSUME RangesInvariant, op = "complement", Next
    PROVE  RangesType' /\ ComplementInvariant'
<1>1. RangesType /\ left \in Ranges /\ Proper(left)
  BY ArgumentsAreProper
<1>2. ComplementCall \/ UNCHANGED vars
  BY StepsOfOperation
<1>3. ComplementInvariant
  BY DEF RangesInvariant
<1>4. CASE ComplementCall
  <2>1. PICK value : value = Complement(left)
    OBVIOUS
  <2>2. Return(value)
    BY <1>4, <2>1 DEF ComplementCall
  <2>3. Proper(value) /\ \A v \in Versions : v \in Members(value) <=> v \notin Members(left)
    BY <1>1, <2>1, ComplementMeaning
  <2>4. RangesType' /\ running' = FALSE /\ output' = value
    <3>1. value \in Ranges
      BY <2>3 DEF Proper
    <3> QED BY <1>1, <2>2, <3>1, ReturnKeepsType
  <2>5. left' = left
    BY <2>2 DEF Return, arguments
  <2>6. Members(value) = Versions \ Members(left)
    <3>1. \A v : v \in Members(value) => v \in Versions
      BY InMembers, InSegment
    <3> QED BY <2>3, <3>1
  <2> QED BY <2>3, <2>4, <2>5, <2>6 DEF ComplementInvariant
<1>5. CASE UNCHANGED vars
  <2>1. RangesType' = RangesType /\ ComplementInvariant' = ComplementInvariant
    BY <1>5 DEF vars, RangesType, Pairs, ComplementInvariant
  <2> QED BY <1>1, <1>3, <2>1
<1> QED BY <1>2, <1>4, <1>5

\* The loop of from_iter keeps its invariant.
LEMMA FromIterKeeps ==
    ASSUME RangesInvariant, op = "from_iter", Next
    PROVE  RangesType' /\ FromIterInvariant'
<1>1. /\ RangesType /\ left \in Ranges /\ Len(left) \in Nat /\ DOMAIN left = 1 .. Len(left)
      /\ i \in 1 .. Len(left) + 1 /\ i \in Int
  BY ArgumentsAreProper
<1>2. FromIterStep \/ FromIterEnd \/ UNCHANGED vars
  BY StepsOfOperation
<1>3. /\ FromIterInvariant /\ accumulator \in Ranges /\ output \in Ranges
      /\ Proper(output) /\ Members(output) = MembersBefore(left, i)
  BY DEF RangesInvariant, RangesType, FromIterInvariant
<1>4. CASE FromIterStep
  <2>1. /\ running /\ running' = running /\ left' = left
        /\ UNCHANGED <<arguments, running, located, check, answer>>
        /\ accumulator' = accumulator /\ LeftHasNext /\ AdvanceLeft /\ i' = i + 1
    BY <1>4 DEF FromIterStep, Running, arguments, AdvanceLeft
  <2>2. PICK new : new = output'
    OBVIOUS
  <2>3. i \in DOMAIN left /\ left[i] \in Segment /\ left[i].start \in Bound /\ left[i].end \in Bound
    <3>1. i \in 1 .. Len(left)
      BY <1>1, <2>1 DEF LeftHasNext
    <3> QED BY <1>1, <3>1, RangeElements
  <2>4. MembersBefore(left, i + 1) = MembersBefore(left, i) \cup SegmentMembers(left[i])
    BY <1>1, <2>3, MembersBeforeNext
  <2>5. Proper(new) /\ Members(new) = MembersBefore(left, i + 1)
    <3>1. CASE ValidSegment(left[i].start, left[i].end)
      <4>1. new = Insert(output, left[i])
        BY <1>4, <2>2, <3>1 DEF FromIterStep
      <4> QED BY <1>3, <2>3, <2>4, <3>1, <4>1, InsertMeaning
    <3>2. CASE ~ValidSegment(left[i].start, left[i].end)
      <4>1. new = output
        BY <1>4, <2>2, <3>2 DEF FromIterStep
      <4>2. SegmentMembers(left[i]) = {}
        BY <2>3, <3>2, SegmentBounds, ValidSegmentMeaning
      <4> QED BY <1>3, <2>4, <4>1, <4>2
    <3> QED BY <3>1, <3>2
  <2>6. RangesType'
    <3>1. output' \in Ranges /\ accumulator' \in Ranges /\ op # "simplify"
      BY <1>3, <2>1, <2>2, <2>5 DEF Proper
    <3> QED BY <1>1, <2>1, <3>1, AdvanceKeepsType
  <2> QED BY <2>1, <2>2, <2>5, <2>6 DEF FromIterInvariant
<1>5. CASE FromIterEnd
  <2>1. Return(output) /\ ~LeftHasNext
    BY <1>5 DEF FromIterEnd
  <2>2. RangesType' /\ running' = FALSE /\ output' = output
    BY <1>1, <1>3, <2>1, ReturnKeepsType
  <2>3. left' = left /\ i' = i
    BY <2>1 DEF Return, arguments
  <2>4. i = Len(left) + 1
    BY <1>1, <2>1 DEF LeftHasNext
  <2> QED BY <1>3, <2>2, <2>3, <2>4 DEF FromIterInvariant
<1>6. CASE UNCHANGED vars
  <2>1. RangesType' = RangesType /\ FromIterInvariant' = FromIterInvariant
    BY <1>6 DEF vars, RangesType, Pairs, FromIterInvariant
  <2> QED BY <1>1, <1>3, <2>1
<1> QED BY <1>2, <1>4, <1>5, <1>6

\* The pairs of locations, and their parts.
LEMMA PairForms ==
    ASSUME NEW l \in Ranges, NEW P, P = {<< >>} \cup ((0 .. Len(l)) \X (1 .. Len(l)))
    PROVE  /\ \A pair \in P : PairOrNone(l, pair)
           /\ << >> \in P
           /\ \A x \in 0 .. Len(l), y \in 1 .. Len(l) :
                 <<x, y>> \in P /\ <<x, y>>[1] = x /\ <<x, y>>[2] = y /\ <<x, y>> # << >>
<1>1. ASSUME NEW pair \in P PROVE PairOrNone(l, pair)
  <2>1. CASE pair = << >>
    BY <2>1 DEF PairOrNone
  <2>2. CASE pair \in (0 .. Len(l)) \X (1 .. Len(l))
    <3>1. pair[1] \in 0 .. Len(l) /\ pair[2] \in 1 .. Len(l)
      BY <2>2
    <3> QED BY <3>1 DEF PairOrNone
  <2> QED BY <2>1, <2>2
<1> QED BY <1>1

\* What one version changes: the scan, and the pair that it extends or closes.
VersionTaken(l, vs, a, b, pair, loc, out, k, found, pair2, loc2, out2) ==
    /\ k = ScanFrom(l, a, vs[b])
    /\ found \in BOOLEAN /\ (found <=> k <= Len(l) /\ WithinBounds(vs[b], l[k]) = Equal)
    /\ loc2 = Append(loc, found)
    /\ found => /\ out2 = out /\ pair2 # << >> /\ pair2[2] = k
                /\ pair2[1] = IF b = 1 THEN 0 ELSE IF pair = << >> THEN k ELSE pair[1]
    /\ ~found => /\ pair2 = << >>
                 /\ out2 = IF pair = << >> THEN out ELSE Append(out, KeptOf(l, pair[1], pair[2]))

\* One version, met or missed, keeps the invariant of simplify.
LEMMA VersionKeeps ==
    ASSUME NEW l, Proper(l), NEW vs \in Seq(Versions), SortedList(vs),
           NEW a \in 1 .. Len(l) + 1, NEW b \in 1 .. Len(vs),
           NEW pair, PairOrNone(l, pair), NEW loc \in Seq(BOOLEAN), NEW out,
           Simplifying(l, vs, a, b, pair, loc, out),
           NEW k, NEW found, NEW pair2, NEW loc2, NEW out2,
           VersionTaken(l, vs, a, b, pair, loc, out, k, found, pair2, loc2, out2)
    PROVE  Simplifying(l, vs, k, b + 1, pair2, loc2, out2)
<1>1. /\ k = ScanFrom(l, a, vs[b]) /\ loc2 = Append(loc, found)
      /\ found <=> k <= Len(l) /\ WithinBounds(vs[b], l[k]) = Equal
  BY DEF VersionTaken
<1>2. Scanned(l, vs, a, b, loc)
  BY DEF Simplifying
<1>3. IsScanned(l, vs, a, b, k, found)
  BY <1>1, <1>2, ScanStep
<1>4. CASE found
  <2>1. found = TRUE
    BY <1>4 DEF VersionTaken
  <2>2. /\ out2 = out /\ pair2 # << >> /\ pair2[2] = k
        /\ pair2[1] = IF b = 1 THEN 0 ELSE IF pair = << >> THEN k ELSE pair[1]
    BY <1>4 DEF VersionTaken
  <2>3. IsScanned(l, vs, a, b, k, TRUE) /\ loc2 = Append(loc, TRUE)
    BY <1>1, <1>3, <2>1
  <2> QED BY <2>2, <2>3, FoundStep
<1>5. CASE ~found
  <2>1. found = FALSE
    BY <1>5 DEF VersionTaken
  <2>2. /\ pair2 = << >>
        /\ out2 = IF pair = << >> THEN out ELSE Append(out, KeptOf(l, pair[1], pair[2]))
    BY <1>5 DEF VersionTaken
  <2>3. IsScanned(l, vs, a, b, k, FALSE) /\ loc2 = Append(loc, FALSE)
    BY <1>1, <1>3, <2>1
  <2>4. Simplifying(l, vs, k, b + 1, << >>, loc2, out2)
    BY <2>2, <2>3, MissedStep
  <2> QED BY <2>2, <2>4
<1> QED BY <1>4, <1>5

\* simplify keeps its invariant, and panics for no versions in order.
LEMMA SimplifyKeeps ==
    ASSUME RangesInvariant, op = "simplify", Next
    PROVE  RangesType' /\ SimplifyInvariant'
<1>1. /\ RangesType /\ left \in Ranges /\ Proper(left)
      /\ Len(left) \in Nat /\ DOMAIN left = 1 .. Len(left)
  BY ArgumentsAreProper
<1>2. /\ versions \in Seq(Versions) /\ Len(versions) \in Nat /\ DOMAIN versions = 1 .. Len(versions)
      /\ i \in 1 .. Len(left) + 1 /\ i \in Int /\ j \in 1 .. Len(versions) + 1 /\ j \in Int
      /\ located \in Seq(BOOLEAN) /\ output \in Ranges
      /\ accumulator \in Pairs /\ PairOrNone(left, accumulator)
  <2>1. versions \in Seq(Versions) /\ Len(versions) \in Nat /\ DOMAIN versions = 1 .. Len(versions)
    BY <1>1 DEF RangesType
  <2>2. i \in 1 .. Len(left) + 1 /\ j \in 1 .. Len(versions) + 1
    BY <1>1 DEF RangesType
  <2>3. located \in Seq(BOOLEAN) /\ output \in Ranges /\ accumulator \in Pairs
    BY <1>1 DEF RangesType
  <2>4. PICK P : P = {<< >>} \cup ((0 .. Len(left)) \X (1 .. Len(left)))
    OBVIOUS
  <2>5. accumulator \in P
    BY <2>3, <2>4 DEF Pairs
  <2>6. PairOrNone(left, accumulator)
    BY <1>1, <2>4, <2>5, PairForms
  <2> QED BY <2>1, <2>2, <2>3, <2>6
<1>3. SimplifySingleton \/ SimplifyPanics \/ SimplifyStep \/ SimplifyEnd \/ UNCHANGED vars
  BY StepsOfOperation
<1>4. SimplifyInvariant
  BY DEF RangesInvariant
<1>5. SortedVersions => SortedList(versions)
  BY <1>2, SortedPairs DEF SortedVersions
\* A step that returns.
<1>6. ASSUME NEW value \in Ranges, Return(value),
             SortedVersions => Simplified(left, versions, value)
      PROVE  RangesType' /\ SimplifyInvariant'
  <2>1. RangesType' /\ running' = FALSE /\ output' = value
    BY <1>1, <1>6, ReturnKeepsType
  <2>2. UNCHANGED <<left, versions, j, located, last, panicked>>
    BY <1>6 DEF Return, arguments, check
  <2>3. SortedVersions' = SortedVersions /\ LastIsListed' = LastIsListed
    BY <2>2 DEF SortedVersions, LastIsListed
  <2> QED BY <1>4, <1>6, <2>1, <2>2, <2>3 DEF SimplifyInvariant
<1>7. CASE SimplifySingleton
  <2>1. IsSingleton(left) /\ Return(left)
    BY <1>7 DEF SimplifySingleton
  <2>2. Simplified(left, versions, left)
    BY <1>1, <2>1, SimplifiedSingleton
  <2> QED BY <1>1, <1>6, <2>1, <2>2
<1>8. CASE SimplifyPanics
  <2>1. /\ UNCHANGED <<op, left, right, versions, i, j, accumulator, located, answer, output>>
        /\ running' = FALSE /\ panicked' = TRUE /\ IncorrectlySorted
    BY <1>8 DEF SimplifyPanics, arguments
  <2>2. ASSUME SortedVersions PROVE FALSE
    <3>1. last # << >> /\ last[1] > versions[j] /\ j \in DOMAIN versions
      BY <1>2, <2>1 DEF IncorrectlySorted, VersionsHaveNext
    <3>2. PICK q \in 1 .. j - 1 : last = <<versions[q]>>
      BY <1>4, <2>2, <3>1 DEF SimplifyInvariant, LastIsListed
    <3>3. q \in DOMAIN versions /\ q <= j
      BY <1>2, <3>1, <3>2
    <3>4. versions[q] <= versions[j] /\ versions[q] \in Int /\ versions[j] \in Int
      <4>1. versions[q] \in Versions /\ versions[j] \in Versions
        BY <1>2, <3>1, <3>3
      <4> QED BY <1>5, <2>2, <3>1, <3>3, <4>1, VersionsAssumption DEF SortedList
    <3>5. last[1] = versions[q]
      BY <3>2
    <3> QED BY <3>1, <3>4, <3>5
  <2>3. RangesType'
    BY <1>1, <2>1 DEF RangesType, Pairs
  <2>4. SortedVersions' = SortedVersions
    BY <2>1 DEF SortedVersions
  <2> QED BY <2>2, <2>3, <2>4 DEF SimplifyInvariant
<1>9. CASE SimplifyStep
  <2>1. /\ running /\ running' = running /\ panicked' = panicked /\ ~IsSingleton(left)
        /\ UNCHANGED <<op, left, right, versions, answer>>
        /\ VersionsHaveNext /\ j' = j + 1
    BY <1>9 DEF SimplifyStep, Running, arguments
  <2>2. j \in 1 .. Len(versions) /\ versions[j] \in Versions
    <3>1. j \in 1 .. Len(versions)
      BY <1>2, <2>1 DEF VersionsHaveNext
    <3> QED BY <1>2, <3>1
  <2>3. PICK k : k = ScanFrom(left, i, versions[j])
    OBVIOUS
  <2>4. k = SegmentFor(versions[j])
    BY <2>3 DEF ScanFrom, SegmentFor
  <2>5. k \in i .. Len(left) + 1 /\ k \in 1 .. Len(left) + 1 /\ k # 0
    <3>1. k \in i .. Len(left) + 1
      BY <1>1, <1>2, <2>3, ScanMeaning
    <3> QED BY <1>1, <1>2, <3>1
  <2>6. PICK found \in BOOLEAN :
           found <=> k <= Len(left) /\ WithinBounds(versions[j], left[k]) = Equal
    OBVIOUS
  <2>7. LocationIn(versions[j], k) = IF found THEN k ELSE 0
    BY <2>6 DEF LocationIn
  <2>8. PICK pair2 : pair2 = accumulator'
    OBVIOUS
  <2>9. PICK loc2 : loc2 = located'
    OBVIOUS
  <2>10. PICK out2 : out2 = output'
    OBVIOUS
  <2>11. i' = k /\ loc2 = Append(located, found)
         /\ last' = IF k > Len(left) THEN <<versions[j]>> ELSE last
    <3>1. LocationIn(versions[j], k) # 0 <=> found
      BY <2>5, <2>7
    <3>2. /\ i' = k /\ loc2 = Append(located, LocationIn(versions[j], k) # 0)
          /\ last' = IF k > Len(left) THEN <<versions[j]>> ELSE last
      BY <1>9, <2>4, <2>9 DEF SimplifyStep
    <3>3. (LocationIn(versions[j], k) # 0) = found
      BY <2>6, <3>1
    <3> QED BY <3>2, <3>3
  <2>12. ASSUME found
         PROVE  /\ out2 = output /\ pair2 # << >> /\ pair2[2] = k /\ pair2 \in Pairs
                /\ pair2[1] = IF j = 1 THEN 0 ELSE IF accumulator = << >> THEN k ELSE accumulator[1]
    <3>1. LocationIn(versions[j], k) = k /\ k \in 1 .. Len(left)
      BY <1>1, <2>5, <2>6, <2>7, <2>12
    <3>2. pair2 = Grouped(accumulator, k, j = 1) /\ out2 = output
      BY <1>9, <2>4, <2>5, <2>8, <2>10, <3>1 DEF SimplifyStep
    <3>3. PICK x : x = IF j = 1 THEN 0 ELSE IF accumulator = << >> THEN k ELSE accumulator[1]
      OBVIOUS
    <3>4. x \in 0 .. Len(left)
      BY <1>1, <1>2, <3>1, <3>3 DEF PairOrNone
    <3>5. pair2 = <<x, k>>
      BY <3>2, <3>3 DEF Grouped
    <3> QED BY <1>1, <3>1, <3>2, <3>3, <3>4, <3>5, PairForms DEF Pairs
  <2>13. ASSUME ~found
         PROVE  /\ pair2 = << >>
                /\ out2 = IF accumulator = << >> THEN output
                          ELSE Append(output, KeptOf(left, accumulator[1], accumulator[2]))
    <3>1. LocationIn(versions[j], k) = 0
      BY <2>7, <2>13
    <3>2. /\ pair2 = << >>
          /\ out2 = IF accumulator = << >> THEN output
                    ELSE Append(output, KeptSegment(accumulator[1], accumulator[2]))
      BY <1>9, <2>4, <2>8, <2>10, <3>1 DEF SimplifyStep
    <3>3. KeptSegment(accumulator[1], accumulator[2])
             = KeptOf(left, accumulator[1], accumulator[2])
      BY DEF KeptSegment, KeptOf
    <3> QED BY <3>2, <3>3
  <2>14. RangesType'
    <3>1. pair2 \in Pairs /\ out2 \in Ranges
      <4>1. CASE found
        BY <1>2, <2>12, <4>1
      <4>2. CASE ~found
        <5>1. accumulator # << >> =>
                 KeptOf(left, accumulator[1], accumulator[2]) \in Segment
          <6>1. accumulator # << >> =>
                   accumulator[1] \in 0 .. Len(left) /\ accumulator[2] \in 0 .. Len(left)
            BY <1>1, <1>2 DEF PairOrNone
          <6> QED BY <1>1, <6>1, KeptForm
        <5>2. << >> \in Pairs
          BY DEF Pairs
        <5>3. CASE accumulator = << >>
          BY <1>2, <2>13, <4>2, <5>2, <5>3
        <5>4. CASE accumulator # << >>
          <6>1. PICK g \in Segment : g = KeptOf(left, accumulator[1], accumulator[2])
            BY <5>1, <5>4
          <6>2. pair2 = << >> /\ out2 = Append(output, g)
            BY <2>13, <4>2, <5>4, <6>1
          <6>3. Append(output, g) \in Ranges
            BY <1>2 DEF Ranges
          <6> QED BY <5>2, <6>2, <6>3
        <5> QED BY <5>3, <5>4
      <4> QED BY <4>1, <4>2
    <3>2. Pairs' = Pairs
      BY <2>1 DEF Pairs
    <3>3. located' \in Seq(BOOLEAN) /\ j' \in 1 .. Len(versions) + 1
      BY <1>2, <2>1, <2>2, <2>9, <2>11
    <3> QED BY <1>1, <2>1, <2>5, <2>8, <2>10, <2>11, <3>1, <3>2, <3>3 DEF RangesType
  <2>15. SortedVersions' = SortedVersions
    BY <2>1 DEF SortedVersions
  <2>16. ASSUME SortedVersions PROVE SimplifyInvariant'
    <3>1. /\ ~panicked /\ LastIsListed /\ SortedList(versions)
          /\ Simplifying(left, versions, i, j, accumulator, located, output)
      BY <1>4, <1>5, <2>1, <2>16 DEF SimplifyInvariant
    <3>2. VersionTaken(left, versions, i, j, accumulator, located, output,
                       k, found, pair2, loc2, out2)
      BY <2>3, <2>6, <2>11, <2>12, <2>13 DEF VersionTaken
    <3>3. Simplifying(left, versions, k, j + 1, pair2, loc2, out2)
      BY <1>1, <1>2, <2>2, <3>1, <3>2, VersionKeeps
    <3>4. LastIsListed'
      <4>1. last' # << >> => \E q \in 1 .. j : last' = <<versions[q]>>
        <5>1. CASE k > Len(left)
          BY <1>2, <2>2, <2>11, <5>1
        <5>2. CASE ~(k > Len(left))
          <6>1. last' = last /\ \A q \in 1 .. j - 1 : q \in 1 .. j
            BY <1>2, <2>11, <5>2
          <6> QED BY <3>1, <6>1 DEF LastIsListed
        <5> QED BY <5>1, <5>2
      <4>2. (j + 1) - 1 = j
        BY <1>2
      <4> QED BY <2>1, <4>1, <4>2 DEF LastIsListed
    <3>5. ASSUME NEW q \in DOMAIN loc2 PROVE loc2[q] <=> versions[q] \in Members(left)
      <4>1. Scanned(left, versions, k, j + 1, loc2) /\ loc2 \in Seq(BOOLEAN)
        BY <1>2, <2>11, <3>3 DEF Simplifying
      <4>2. q \in 1 .. (j + 1) - 1
        BY <1>2, <4>1 DEF Scanned
      <4> QED BY <4>1, <4>2 DEF Scanned
    <3> QED BY <2>1, <2>8, <2>9, <2>10, <2>11, <3>1, <3>3, <3>4, <3>5 DEF SimplifyInvariant
  <2>17. ~SortedVersions => SimplifyInvariant'
    BY <2>15 DEF SimplifyInvariant
  <2> QED BY <2>14, <2>16, <2>17
<1>10. CASE SimplifyEnd
  <2>1. running /\ ~IsSingleton(left) /\ ~VersionsHaveNext
    BY <1>10 DEF SimplifyEnd, Running
  <2>2. PICK kept : kept = IF accumulator = << >> THEN output
                           ELSE Append(output, KeptOf(left, accumulator[1], 0))
    OBVIOUS
  <2>3. PICK value : value = IF kept = Empty THEN left ELSE kept
    OBVIOUS
  <2>4. Return(value)
    <3>1. KeptSegment(accumulator[1], 0) = KeptOf(left, accumulator[1], 0)
      BY DEF KeptSegment, KeptOf
    <3>2. kept = IF accumulator = << >> THEN output
                 ELSE Append(output, KeptSegment(accumulator[1], 0))
      BY <2>2, <3>1
    <3> QED BY <1>10, <2>3, <3>2 DEF SimplifyEnd
  <2>5. value \in Ranges
    <3>1. accumulator # << >> => KeptOf(left, accumulator[1], 0) \in Segment
      <4>1. accumulator # << >> => accumulator[1] \in 0 .. Len(left) /\ 0 \in 0 .. Len(left)
        BY <1>1, <1>2 DEF PairOrNone
      <4> QED BY <1>1, <4>1, KeptForm
    <3>2. kept \in Ranges
      BY <1>2, <2>2, <3>1 DEF Ranges
    <3> QED BY <1>1, <2>3, <3>2
  <2>6. j = Len(versions) + 1
    BY <1>2, <2>1 DEF VersionsHaveNext
  <2>7. ASSUME SortedVersions PROVE Simplified(left, versions, value)
    <3>1. Simplifying(left, versions, i, Len(versions) + 1, accumulator, located, output)
      BY <1>4, <2>1, <2>6, <2>7 DEF SimplifyInvariant
    <3> QED BY <1>1, <1>2, <2>1, <2>2, <2>3, <3>1, SimplifiedEnd
  <2> QED BY <1>6, <2>4, <2>5, <2>7
<1>11. CASE UNCHANGED vars
  <2>1. RangesType' = RangesType /\ SimplifyInvariant' = SimplifyInvariant
    BY <1>11 DEF vars, arguments, check, RangesType, Pairs, SimplifyInvariant, SortedVersions,
                 LastIsListed
  <2> QED BY <1>1, <1>4, <2>1
<1> QED BY <1>3, <1>7, <1>8, <1>9, <1>10, <1>11

\* The invariant holds when an operation is called.
LEMMA RangesInvariantInit == Init /\ WellFormedArguments => RangesInvariant
<1> SUFFICES ASSUME Init, WellFormedArguments PROVE RangesInvariant
  OBVIOUS
<1>1. PICK family \in Calls : /\ op \in family.ops /\ left \in family.lefts
                              /\ right \in family.rights /\ versions \in family.versions
  BY DEF Init
<1>2. /\ op \in Operations /\ left \in Ranges /\ right \in Ranges /\ versions \in Seq(Versions)
  BY <1>1, CallsAssumption
<1>3. /\ running = TRUE /\ i = 1 /\ j = 1 /\ accumulator = << >> /\ located = << >>
      /\ last = << >> /\ panicked = FALSE /\ output = << >> /\ answer = FALSE
  BY DEF Init, Empty
<1>4. Len(left) \in Nat /\ Len(right) \in Nat /\ Len(versions) \in Nat
  BY <1>2 DEF Ranges
<1>5. << >> \in Ranges /\ << >> \in Seq(BOOLEAN) /\ << >> \in Pairs
  BY EmptySeq DEF Ranges, Pairs
<1>6. RangesType
  <2>1. /\ i \in 1 .. Len(left) + 1
        /\ j \in 1 .. Len(right) + 1 /\ j \in 1 .. Len(versions) + 1
    BY <1>3, <1>4
  <2>2. running \in BOOLEAN /\ answer \in BOOLEAN /\ panicked \in BOOLEAN
    BY <1>3
  <2>3. /\ j \in 1 .. (IF op = "simplify" THEN Len(versions) ELSE Len(right)) + 1
        /\ accumulator \in IF op = "simplify" THEN Pairs ELSE Ranges
    BY <1>3, <1>5, <2>1
  <2> QED BY <1>2, <1>3, <1>5, <2>1, <2>2, <2>3 DEF RangesType
<1>7. Proper(<< >>) /\ Members(<< >>) = {} /\ Len(<< >>) = 0 /\ << >> \o << >> = << >>
      /\ DOMAIN << >> = {}
  BY ProperSmall
<1>8. MembersBefore(left, 1) = {} /\ MembersBefore(right, 1) = {}
  BY <1>2, MembersBeforeEnds
<1>9. United(left, right, 1, 1, << >>, << >>)
  <2>1. StartsBefore(<< >>, left, 1) /\ StartsBefore(<< >>, right, 1)
    BY <1>7 DEF StartsBefore
  <2> QED BY <1>5, <1>7, <1>8, <2>1 DEF United
<1>10. \A v \in Versions : ~InPassedPair(left, right, 1, 1, v)
  BY <1>2, NothingPassed
<1>11. Intersected(left, right, 1, 1, << >>)
  BY <1>7, <1>10 DEF Intersected
<1>12. ContainedSoFar(left, right, 1, 1)
  <2>1. \A k \in DOMAIN left : ~(k < 1)
    BY <1>2, RangeElements
  <2>2. \A m \in DOMAIN right : ~(m < 1)
    BY <1>2, RangeElements
  <2> QED BY <2>1, <2>2 DEF ContainedSoFar
<1>13. Simplifying(left, versions, 1, 1, << >>, << >>, << >>)
  <2>1. 1 - 1 = 0 /\ 1 .. 0 = {} /\ ~(1 < 1)
    OBVIOUS
  <2>2. Scanned(left, versions, 1, 1, << >>)
    BY <1>7, <2>1 DEF Scanned
  <2>3. PairInProgress(left, versions, 1, 1, << >>) /\ KeptBehind(left, 1, << >>, << >>)
    BY <1>7 DEF PairInProgress, KeptBehind
  <2>4. AgreesBefore(left, versions, 1, << >>, << >>, << >>) /\ FromTheFirst(1, << >>, << >>, << >>)
    BY <2>1 DEF AgreesBefore, FromTheFirst
  <2> QED BY <1>7, <2>2, <2>3, <2>4 DEF Simplifying
<1>14. UnionInvariant /\ IntersectionInvariant /\ DisjointInvariant /\ SubsetInvariant
       /\ ComplementInvariant
  BY <1>3, <1>9, <1>10, <1>11, <1>12
     DEF UnionInvariant, IntersectionInvariant, DisjointInvariant, SubsetInvariant,
         ComplementInvariant, Empty
<1>15. FromIterInvariant
  BY <1>3, <1>7, <1>8 DEF FromIterInvariant
<1>16. SimplifyInvariant
  BY <1>3, <1>7, <1>13 DEF SimplifyInvariant, LastIsListed
<1> QED BY <1>6, <1>14, <1>15, <1>16 DEF RangesInvariant

\* No step changes the arguments.
LEMMA ArgumentsAreKept == Next => UNCHANGED arguments
<1>1. ASSUME NEW value, Return(value) \/ Answer(value) PROVE UNCHANGED arguments
  BY <1>1 DEF Return, Answer
<1>2. UnionStep \/ UnionEnd => UNCHANGED arguments
  BY <1>1 DEF UnionStep, UnionEnd
<1>3. IntersectionStep \/ IntersectionEnd => UNCHANGED arguments
  BY <1>1 DEF IntersectionStep, IntersectionEnd
<1>4. DisjointStep \/ DisjointOverlap \/ DisjointEnd => UNCHANGED arguments
  BY <1>1 DEF DisjointStep, DisjointOverlap, DisjointEnd
<1>5. SubsetOfEmpty \/ SubsetSkip \/ SubsetStep \/ SubsetFails \/ SubsetEnd => UNCHANGED arguments
  BY <1>1 DEF SubsetOfEmpty, SubsetSkip, SubsetStep, SubsetFails, SubsetEnd
<1>6. ComplementCall \/ FromIterStep \/ FromIterEnd => UNCHANGED arguments
  BY <1>1 DEF ComplementCall, FromIterStep, FromIterEnd
<1>7. SimplifySingleton \/ SimplifyPanics \/ SimplifyStep \/ SimplifyEnd => UNCHANGED arguments
  BY <1>1 DEF SimplifySingleton, SimplifyPanics, SimplifyStep, SimplifyEnd
<1>8. Terminated => UNCHANGED arguments
  BY DEF Terminated, vars, arguments
<1> QED BY <1>2, <1>3, <1>4, <1>5, <1>6, <1>7, <1>8 DEF Next

\* Every step keeps the invariant.
LEMMA RangesInvariantStep == RangesInvariant /\ [Next]_vars => RangesInvariant'
<1> SUFFICES ASSUME RangesInvariant, [Next]_vars PROVE RangesInvariant'
  OBVIOUS
<1>1. CASE Next
  <2>1. op' = op /\ left' = left /\ right' = right
    BY <1>1, ArgumentsAreKept DEF arguments
  <2>2. WellFormedArguments'
    BY <2>1 DEF RangesInvariant, WellFormedArguments
  <2>3. op \in Operations
    BY DEF RangesInvariant, RangesType
  <2>4. CASE op = "union"
    BY <1>1, <2>1, <2>2, <2>4, UnionKeeps DEF RangesInvariant
  <2>5. CASE op = "intersection"
    BY <1>1, <2>1, <2>2, <2>5, IntersectionKeeps DEF RangesInvariant
  <2>6. CASE op = "is_disjoint"
    BY <1>1, <2>1, <2>2, <2>6, DisjointKeeps DEF RangesInvariant
  <2>7. CASE op = "subset_of"
    BY <1>1, <2>1, <2>2, <2>7, SubsetKeeps DEF RangesInvariant
  <2>8. CASE op = "complement"
    BY <1>1, <2>1, <2>2, <2>8, ComplementKeeps DEF RangesInvariant
  <2>9. CASE op = "from_iter"
    BY <1>1, <2>1, <2>2, <2>9, FromIterKeeps DEF RangesInvariant
  <2>10. CASE op = "simplify"
    BY <1>1, <2>1, <2>2, <2>10, SimplifyKeeps DEF RangesInvariant
  <2> QED BY <2>3, <2>4, <2>5, <2>6, <2>7, <2>8, <2>9, <2>10 DEF Operations
<1>2. CASE UNCHANGED vars
  <2>1. UNCHANGED <<op, left, right, versions, running, i, j, accumulator, located, last, panicked,
                    output, answer>>
    BY <1>2 DEF vars, arguments, check
  <2>2. RangesType' /\ WellFormedArguments'
    BY <2>1 DEF RangesInvariant, RangesType, Pairs, WellFormedArguments
  <2>3. /\ UnionInvariant' = UnionInvariant /\ IntersectionInvariant' = IntersectionInvariant
        /\ DisjointInvariant' = DisjointInvariant /\ SubsetInvariant' = SubsetInvariant
        /\ ComplementInvariant' = ComplementInvariant /\ FromIterInvariant' = FromIterInvariant
    BY <2>1 DEF UnionInvariant, IntersectionInvariant, DisjointInvariant, SubsetInvariant,
                ComplementInvariant, FromIterInvariant
  <2>4. SimplifyInvariant' = SimplifyInvariant
    BY <2>1 DEF SimplifyInvariant, SortedVersions, LastIsListed
  <2> QED BY <2>1, <2>2, <2>3, <2>4 DEF RangesInvariant
<1> QED BY <1>1, <1>2

\* The loops keep their invariant, on every call with well-formed arguments.
THEOREM RangesInvariantHolds == Spec /\ WellFormedArguments => []RangesInvariant
BY RangesInvariantInit, RangesInvariantStep, PTL DEF Spec

-----------------------------------------------------------------------------
(* What the loops return *)

\* union, intersection, complement and from_iter return the versions they are
\* named for.
THEOREM ResultsAreExact == Spec /\ WellFormedArguments => []ResultExact
<1>1. RangesInvariant => ResultExact
  <2> SUFFICES ASSUME RangesInvariant, ~running, SetOperation
               PROVE  Members(output) = ExpectedMembers
    BY DEF ResultExact
  <2>1. CASE op = "union"
    BY <2>1 DEF RangesInvariant, UnionInvariant, ExpectedMembers
  <2>2. CASE op = "intersection"
    BY <2>2 DEF RangesInvariant, IntersectionInvariant, ExpectedMembers
  <2>3. CASE op = "complement"
    BY <2>3 DEF RangesInvariant, ComplementInvariant, ExpectedMembers
  <2>4. CASE op = "from_iter"
    <3>1. Members(output) = MembersBefore(left, i) /\ i = Len(left) + 1 /\ left \in Ranges
      BY <2>4 DEF RangesInvariant, RangesType, FromIterInvariant
    <3>2. Len(left) \in Nat /\ i \in Int /\ Len(left) < i
      <4>1. Len(left) \in Nat
        BY <3>1, RangeElements
      <4> QED BY <3>1, <4>1
    <3>3. MembersBefore(left, i) = Members(left)
      BY <3>1, <3>2, MembersBeforeEnds
    <3> QED BY <2>4, <3>1, <3>3 DEF ExpectedMembers
  <2> QED BY <2>1, <2>2, <2>3, <2>4 DEF SetOperation
<1> QED BY <1>1, RangesInvariantHolds, PTL

\* Whatever was computed is in order, when simplify got its versions in order.
LEMMA ResultIsProper ==
    ASSUME RangesInvariant, ~running, InOrder
    PROVE  Proper(output)
<1>1. op \in Operations
  BY DEF RangesInvariant, RangesType
<1>2. CASE op \in {"union", "intersection", "complement", "from_iter"}
  BY <1>2 DEF RangesInvariant, UnionInvariant, IntersectionInvariant, ComplementInvariant,
              FromIterInvariant
<1>3. CASE op \in {"is_disjoint", "subset_of"}
  <2>1. output = << >>
    BY <1>3 DEF RangesInvariant, DisjointInvariant, SubsetInvariant, Empty
  <2> QED BY <2>1, ProperSmall
<1>4. CASE op = "simplify"
  BY <1>4 DEF InOrder, RangesInvariant, SimplifyInvariant, Simplified
<1> QED BY <1>1, <1>2, <1>3, <1>4 DEF Operations

\* Every result has the three invariants of `Ranges'.
THEOREM ResultsAreWellFormed == Spec /\ WellFormedArguments => []ResultWellFormed
<1>1. RangesInvariant => ResultWellFormed
  BY ResultIsProper, ProperIsWellFormed DEF ResultWellFormed
<1> QED BY <1>1, RangesInvariantHolds, PTL

\* is_disjoint and subset_of decide as the sets of versions do.
THEOREM PredicatesAreExact == Spec /\ WellFormedArguments => []PredicatesExact
<1>1. RangesInvariant => PredicatesExact
  BY DEF RangesInvariant, DisjointInvariant, SubsetInvariant, PredicatesExact
<1> QED BY <1>1, RangesInvariantHolds, PTL

\* The versions before the iterator are those of the prefix.
LEMMA MembersOfPrefix ==
    ASSUME NEW s \in Ranges, NEW a \in 1 .. Len(s) + 1
    PROVE  Members(SubSeq(s, 1, a - 1)) = MembersBefore(s, a)
<1>1. Len(s) \in Nat /\ DOMAIN s = 1 .. Len(s) /\ a \in Int
  BY RangeElements
<1>2. PICK p : p = SubSeq(s, 1, a - 1)
  OBVIOUS
<1>3. DOMAIN p = 1 .. a - 1 /\ \A k \in 1 .. a - 1 : p[k] = s[k]
  <2>1. Len(p) = a - 1 /\ p \in Seq(Segment)
    BY <1>1, <1>2 DEF Ranges
  <2> QED BY <1>1, <1>2, <2>1 DEF Ranges
<1>4. \A k : k \in DOMAIN p <=> k \in DOMAIN s /\ k < a
  BY <1>1, <1>3
<1>5. \A v : v \in Members(p) <=> v \in MembersBefore(s, a)
  BY <1>3, <1>4, InMembers, InMembersBefore
<1> QED BY <1>2, <1>5

\* What from_iter has built is in order at every moment, with the versions of
\* the segments it has met.
THEOREM FromIterKeepsOrder == Spec /\ WellFormedArguments => []FromIterSoFar
<1>1. RangesInvariant => FromIterSoFar
  <2> SUFFICES ASSUME RangesInvariant, op = "from_iter"
               PROVE  WellFormed(output) /\ Members(output) = Members(SubSeq(left, 1, i - 1))
    BY DEF FromIterSoFar
  <2>1. Proper(output) /\ Members(output) = MembersBefore(left, i)
    BY DEF RangesInvariant, FromIterInvariant
  <2>2. left \in Ranges /\ i \in 1 .. Len(left) + 1
    BY DEF RangesInvariant, RangesType
  <2> QED BY <2>1, <2>2, ProperIsWellFormed, MembersOfPrefix
<1> QED BY <1>1, RangesInvariantHolds, PTL

\* For versions in order, simplify agrees with its range on each of them.
THEOREM SimplifyAgreesOnVersions == Spec /\ WellFormedArguments => []SimplifyAgrees
<1>1. RangesInvariant => SimplifyAgrees
  <2> SUFFICES ASSUME RangesInvariant, op = "simplify", SortedVersions
               PROVE  /\ ~panicked
                      /\ \A k \in DOMAIN located : located[k] <=> versions[k] \in Members(left)
                      /\ ~running =>
                            /\ WellFormed(output)
                            /\ Members(output) \cap Listed = Members(left) \cap Listed
                            /\ left # Empty => output # Empty
                            /\ Listed # {} /\ Listed \subseteq Members(left)
                                  /\ ~IsSingleton(left) => output = Full
    BY DEF SimplifyAgrees
  <2>1. /\ ~panicked
        /\ \A k \in DOMAIN located : located[k] <=> versions[k] \in Members(left)
        /\ ~running => Simplified(left, versions, output)
    BY DEF RangesInvariant, SimplifyInvariant
  <2>2. ASSUME ~running
        PROVE  /\ WellFormed(output)
               /\ Members(output) \cap Listed = Members(left) \cap Listed
               /\ left # Empty => output # Empty
               /\ Listed # {} /\ Listed \subseteq Members(left) /\ ~IsSingleton(left) =>
                     output = Full
    <3>1. Simplified(left, versions, output)
      BY <2>1, <2>2
    <3>2. WellFormed(output)
      BY <3>1, ProperIsWellFormed DEF Simplified
    <3>3. \A v : v \in Listed <=> \E q \in DOMAIN versions : versions[q] = v
      BY DEF Listed
    <3>4. Members(output) \cap Listed = Members(left) \cap Listed
      BY <3>1, <3>3 DEF Simplified
    <3>5. Listed # {} /\ Listed \subseteq Members(left) =>
             versions # << >> /\ \A q \in DOMAIN versions : versions[q] \in Members(left)
      BY <3>3
    <3> QED BY <3>1, <3>2, <3>4, <3>5 DEF Simplified
  <2> QED BY <2>1, <2>2
<1> QED BY <1>1, RangesInvariantHolds, PTL

\* A version is above the segments before its own, below those after.
LEMMA SearchMeaning ==
    ASSUME NEW s, Proper(s)
    PROVE  /\ \A v \in Versions :
                 /\ Contains(s, v) <=> v \in Members(s)
                 /\ \A k, m \in DOMAIN s : k < m =>
                       WithinBounds(v, s[k]) = Greater \/ WithinBounds(v, s[m]) = Less
           /\ s # Empty => Members(s) \subseteq SegmentMembers(BoundingRange(s))
<1>1. /\ s \in Ranges /\ Len(s) \in Nat /\ DOMAIN s = 1 .. Len(s)
      /\ \A k \in DOMAIN s : s[k] \in Segment /\ s[k].start \in Bound /\ s[k].end \in Bound
  BY RangeElements DEF Proper
<1>2. ASSUME NEW v \in Versions PROVE Contains(s, v) <=> v \in Members(s)
  <2>1. \A k \in DOMAIN s : WithinBounds(v, s[k]) = Equal <=> v \in SegmentMembers(s[k])
    BY <1>1, WithinBoundsMeaning
  <2> QED BY <2>1, InMembers DEF Contains
<1>3. ASSUME NEW v \in Versions, NEW k \in DOMAIN s, NEW m \in DOMAIN s, k < m
      PROVE  WithinBounds(v, s[k]) = Greater \/ WithinBounds(v, s[m]) = Less
  <2> SUFFICES ASSUME WithinBounds(v, s[m]) # Less PROVE WithinBounds(v, s[k]) = Greater
    OBVIOUS
  <2>1. AfterStart(v, s[m].start)
    BY <1>1, WithinBoundsMeaning
  <2>2. ~BeforeEnd(v, s[k].end)
    BY <1>3, <2>1, EarlierMembers
  <2>3. AfterStart(v, s[k].start)
    <3>1. k <= m
      BY <1>1, <1>3
    <3> QED BY <2>1, <3>1, SegmentsOrdered
  <2> QED BY <1>1, <2>2, <2>3, WithinBoundsGreater
<1>4. ASSUME s # Empty PROVE Members(s) \subseteq SegmentMembers(BoundingRange(s))
  <2>1. 1 \in DOMAIN s /\ Len(s) \in DOMAIN s
    <3>1. Len(s) # 0
      BY <1>1, <1>4, EmptySeq DEF Empty, Ranges
    <3> QED BY <1>1, <3>1
  <2>2. BoundingRange(s).start = s[1].start /\ BoundingRange(s).end = s[Len(s)].end
    BY <1>1, <2>1, SegForm DEF BoundingRange
  <2> SUFFICES ASSUME NEW v \in Members(s) PROVE v \in SegmentMembers(BoundingRange(s))
    OBVIOUS
  <2>3. PICK k \in DOMAIN s : v \in SegmentMembers(s[k])
    BY InMembers
  <2>4. v \in Versions /\ AfterStart(v, s[k].start) /\ BeforeEnd(v, s[k].end)
    BY <2>3, InSegment
  <2>5. 1 <= k /\ k <= Len(s)
    BY <1>1
  <2>6. AfterStart(v, s[1].start)
    BY <2>1, <2>4, <2>5, SegmentsOrdered
  <2>7. BeforeEnd(v, s[Len(s)].end)
    BY <2>1, <2>4, <2>5, SegmentsOrdered
  <2> QED BY <2>2, <2>4, <2>6, <2>7, InSegment
<1> QED BY <1>2, <1>3, <1>4

\* contains and contains_many find a version exactly when it is in the range.
THEOREM SearchesAreExact == Spec /\ WellFormedArguments => []SearchExact
<1>1. RangesInvariant => SearchExact
  BY ResultIsProper, SearchMeaning DEF SearchExact
<1> QED BY <1>1, RangesInvariantHolds, PTL

-----------------------------------------------------------------------------
(* Ranges with the same versions are the same *)

\* Bounds that are each the smaller are equal.
LEMMA BoundsAgree ==
    ASSUME NEW b \in Bound, NEW c \in Bound
    PROVE  /\ LeftStartIsSmaller(b, c) /\ LeftStartIsSmaller(c, b) => b = c
           /\ LeftEndIsSmaller(b, c) /\ LeftEndIsSmaller(c, b) => b = c
BY BoundCases, BoundsEqual DEF LeftStartIsSmaller, LeftEndIsSmaller

\* s and t have the same versions, and the same segments before k.
SameBefore(s, t, k) ==
    /\ Proper(s) /\ Proper(t) /\ Members(s) = Members(t)
    /\ k \in Nat \ {0} /\ \A m \in 1 .. k - 1 : m \in DOMAIN s /\ m \in DOMAIN t /\ s[m] = t[m]

\* What is in segment k of one is not before segment k of the other.
LEMMA FoundFrom ==
    ASSUME NEW s, NEW t, NEW k, SameBefore(s, t, k), k \in DOMAIN s,
           NEW v, v \in SegmentMembers(s[k])
    PROVE  \E m \in DOMAIN t : k <= m /\ v \in SegmentMembers(t[m])
<1>1. PICK m \in DOMAIN t : v \in SegmentMembers(t[m])
  <2>1. v \in Members(s)
    BY InMembers
  <2> QED BY <2>1, InMembers DEF SameBefore
<1>2. /\ s \in Ranges /\ DOMAIN s = 1 .. Len(s) /\ Len(s) \in Nat
      /\ t \in Ranges /\ DOMAIN t = 1 .. Len(t) /\ Len(t) \in Nat
  BY RangeElements DEF SameBefore, Proper
<1>3. ASSUME m < k PROVE FALSE
  <2>1. m \in 1 .. k - 1 /\ m \in DOMAIN s
    BY <1>2, <1>3 DEF SameBefore
  <2>2. s[m] = t[m]
    BY <2>1 DEF SameBefore
  <2>3. BeforeEnd(v, s[m].end) /\ AfterStart(v, s[k].start) /\ v \in Versions
    BY <1>1, <2>2, InSegment
  <2> QED BY <1>3, <2>1, <2>3, EarlierMembers DEF SameBefore
<1> QED BY <1>1, <1>2, <1>3

\* Where one range has a segment the other has one, no later.
LEMMA SameStart ==
    ASSUME NEW s, NEW t, NEW k, SameBefore(s, t, k), k \in DOMAIN s
    PROVE  k \in DOMAIN t /\ LeftStartIsSmaller(t[k].start, s[k].start)
<1>1. /\ s \in Ranges /\ DOMAIN s = 1 .. Len(s) /\ Len(s) \in Nat
      /\ t \in Ranges /\ DOMAIN t = 1 .. Len(t) /\ Len(t) \in Nat /\ k \in Nat /\ k # 0
      /\ Proper(s) /\ Proper(t)
  BY RangeElements DEF SameBefore, Proper
<1>2. s[k] \in Segment /\ s[k].start \in Bound /\ s[k].end \in Bound
      /\ ValidSegment(s[k].start, s[k].end)
  BY <1>1, RangeElements DEF Proper
<1>3. PICK u \in Versions : u \in SegmentMembers(s[k])
  BY <1>2, ValidHasMember
<1>4. k \in DOMAIN t
  <2>1. PICK m \in DOMAIN t : k <= m
    BY <1>3, FoundFrom
  <2> QED BY <1>1, <2>1
<1>5. t[k].start \in Bound
  BY <1>1, <1>4, RangeElements
<1>6. ASSUME NEW v \in Versions, v \in SegmentMembers(s[k]) PROVE AfterStart(v, t[k].start)
  <2>1. PICK m \in DOMAIN t : k <= m /\ v \in SegmentMembers(t[m])
    BY <1>6, FoundFrom
  <2> QED BY <1>1, <1>4, <2>1, InSegment, SegmentsOrdered
<1>7. ASSUME NEW v \in Versions, AfterStart(v, s[k].start) PROVE AfterStart(v, t[k].start)
  <2>1. CASE BeforeEnd(v, s[k].end)
    <3>1. v \in SegmentMembers(s[k])
      BY <1>7, <2>1, InSegment
    <3> QED BY <1>6, <3>1
  <2>2. CASE ~BeforeEnd(v, s[k].end)
    <3>1. BeforeEnd(u, s[k].end) /\ u \in Int /\ v \in Int
      BY <1>3, InSegment, VersionsAssumption
    <3>2. ~(v <= u)
      BY <1>2, <2>2, <3>1, Monotone
    <3>3. u <= v
      BY <3>1, <3>2
    <3>4. AfterStart(u, t[k].start)
      BY <1>3, <1>6
    <3> QED BY <1>5, <3>3, <3>4, Monotone
  <2> QED BY <2>1, <2>2
<1> QED BY <1>2, <1>4, <1>5, <1>7, StartOrderMeaning

\* With the same start, a segment ends no later than the other one.
LEMMA SameEnd ==
    ASSUME NEW s, NEW t, NEW k, SameBefore(s, t, k), k \in DOMAIN s, k \in DOMAIN t,
           s[k].start = t[k].start
    PROVE  LeftEndIsSmaller(s[k].end, t[k].end)
<1>1. /\ s \in Ranges /\ DOMAIN s = 1 .. Len(s) /\ Len(s) \in Nat
      /\ t \in Ranges /\ DOMAIN t = 1 .. Len(t) /\ Len(t) \in Nat /\ k \in Nat /\ k # 0
      /\ Proper(s) /\ Proper(t)
  BY RangeElements DEF SameBefore, Proper
<1>2. /\ s[k].start \in Bound /\ s[k].end \in Bound
      /\ t[k] \in Segment /\ t[k].start \in Bound /\ t[k].end \in Bound
      /\ ValidSegment(t[k].start, t[k].end)
  BY <1>1, RangeElements DEF Proper
<1>3. PICK u \in Versions : u \in SegmentMembers(t[k])
  BY <1>2, ValidHasMember
<1>4. AfterStart(u, s[k].start) /\ BeforeEnd(u, t[k].end)
  BY <1>3, InSegment
<1> SUFFICES ASSUME NEW v \in Versions, BeforeEnd(v, s[k].end), ~BeforeEnd(v, t[k].end)
             PROVE  FALSE
  BY <1>2, EndOrderMeaning
<1>5. \A x \in Versions : ~BeforeEnd(x, t[k].end) => AfterStart(x, s[k].start)
  <2> SUFFICES ASSUME NEW x \in Versions, ~BeforeEnd(x, t[k].end) PROVE AfterStart(x, s[k].start)
    OBVIOUS
  <2>1. u \in Int /\ x \in Int
    BY VersionsAssumption
  <2>2. ~(x <= u)
    BY <1>2, <1>4, Monotone
  <2>3. u <= x
    BY <2>1, <2>2
  <2> QED BY <1>2, <1>4, <2>3, Monotone
\* Beyond t[k], what is in s[k] is in a later segment of t.
<1>6. \A x \in Versions : BeforeEnd(x, s[k].end) /\ ~BeforeEnd(x, t[k].end) =>
         k + 1 \in DOMAIN t /\ AfterStart(x, t[k + 1].start)
  <2> SUFFICES ASSUME NEW x \in Versions, BeforeEnd(x, s[k].end), ~BeforeEnd(x, t[k].end)
               PROVE  k + 1 \in DOMAIN t /\ AfterStart(x, t[k + 1].start)
    OBVIOUS
  <2>1. x \in SegmentMembers(s[k])
    BY <1>5, InSegment
  <2>2. PICK m \in DOMAIN t : k <= m /\ x \in SegmentMembers(t[m])
    BY <2>1, FoundFrom
  <2>3. AfterStart(x, t[m].start) /\ BeforeEnd(x, t[m].end)
    BY <2>2, InSegment
  <2>4. m # k
    BY <2>3
  <2>5. k + 1 \in DOMAIN t /\ k + 1 <= m
    BY <1>1, <2>2, <2>4
  <2> QED BY <1>1, <2>3, <2>5, SegmentsOrdered
<1>7. k + 1 \in DOMAIN t /\ AfterStart(v, t[k + 1].start) /\ k < k + 1
  BY <1>1, <1>6
<1>8. t[k + 1].start \in Bound /\ EndBeforeStartWithGap(t[k].end, t[k + 1].start)
  BY <1>1, <1>7, RangeElements DEF Proper, Apart
<1>9. PICK w \in Versions : ~BeforeEnd(w, t[k].end) /\ ~AfterStart(w, t[k + 1].start)
  BY <1>2, <1>8, GapMeaning
<1>10. w <= v
  <2>1. w \in Int /\ v \in Int
    BY VersionsAssumption
  <2>2. ~(v <= w)
    BY <1>7, <1>8, <1>9, Monotone
  <2> QED BY <2>1, <2>2
<1>11. BeforeEnd(w, s[k].end)
  BY <1>2, <1>10, Monotone
<1> QED BY <1>6, <1>9, <1>11

\* The first segments that differ differ in a version.
LEMMA SameMembersSameRange ==
    ASSUME NEW s, NEW t, Proper(s), Proper(t), Members(s) = Members(t)
    PROVE  s = t
<1>1. /\ s \in Ranges /\ DOMAIN s = 1 .. Len(s) /\ Len(s) \in Nat
      /\ t \in Ranges /\ DOMAIN t = 1 .. Len(t) /\ Len(t) \in Nat
  BY RangeElements DEF Proper
<1>2. PICK T : T = {k \in Nat \ {0} : /\ k \in DOMAIN s \/ k \in DOMAIN t
                                      /\ ~(k \in DOMAIN s /\ k \in DOMAIN t /\ s[k] = t[k])}
  OBVIOUS
<1>3. ASSUME T # {} PROVE FALSE
  <2>1. PICK k \in T : \A y \in T : k <= y
    <3>1. T \in SUBSET Nat
      BY <1>2
    <3> QED BY <1>3, <3>1, SmallestOf
  <2>2. /\ k \in Nat \ {0} /\ (k \in DOMAIN s \/ k \in DOMAIN t)
        /\ ~(k \in DOMAIN s /\ k \in DOMAIN t /\ s[k] = t[k])
    BY <1>2, <2>1
  <2>3. ASSUME NEW m \in 1 .. k - 1 PROVE m \in DOMAIN s /\ m \in DOMAIN t /\ s[m] = t[m]
    <3>1. m \in Nat \ {0} /\ ~(k <= m) /\ (m \in DOMAIN s \/ m \in DOMAIN t)
      BY <1>1, <2>2
    <3>2. m \notin T
      BY <2>1, <3>1
    <3> QED BY <1>2, <3>1, <3>2
  <2>4. SameBefore(s, t, k)
    BY <2>2, <2>3 DEF SameBefore
  <2>5. SameBefore(t, s, k)
    BY <2>2, <2>3 DEF SameBefore
  <2>6. k \in DOMAIN s /\ k \in DOMAIN t
    BY <2>2, <2>4, <2>5, SameStart
  <2>7. /\ s[k] \in Segment /\ s[k].start \in Bound /\ s[k].end \in Bound
        /\ t[k] \in Segment /\ t[k].start \in Bound /\ t[k].end \in Bound
    BY <1>1, <2>6, RangeElements
  <2>8. s[k].start = t[k].start
    <3>1. LeftStartIsSmaller(t[k].start, s[k].start)
      BY <2>4, <2>6, SameStart
    <3>2. LeftStartIsSmaller(s[k].start, t[k].start)
      BY <2>5, <2>6, SameStart
    <3> QED BY <2>7, <3>1, <3>2, BoundsAgree
  <2>9. s[k].end = t[k].end
    <3>1. LeftEndIsSmaller(s[k].end, t[k].end)
      BY <2>4, <2>6, <2>8, SameEnd
    <3>2. LeftEndIsSmaller(t[k].end, s[k].end)
      BY <2>5, <2>6, <2>8, SameEnd
    <3> QED BY <2>7, <3>1, <3>2, BoundsAgree
  <2>10. s[k] = t[k]
    <3>1. s[k] = Seg(s[k].start, s[k].end) /\ t[k] = Seg(t[k].start, t[k].end)
      BY <2>7, SegmentBounds
    <3> QED BY <2>8, <2>9, <3>1
  <2> QED BY <2>2, <2>6, <2>10
<1>4. \A k \in Nat \ {0} : k \in DOMAIN s \/ k \in DOMAIN t =>
         k \in DOMAIN s /\ k \in DOMAIN t /\ s[k] = t[k]
  BY <1>2, <1>3
<1>5. Len(s) = Len(t)
  <2>1. Len(s) # 0 => Len(s) <= Len(t)
    BY <1>1, <1>4
  <2>2. Len(t) # 0 => Len(t) <= Len(s)
    BY <1>1, <1>4
  <2>3. Len(s) \in Nat /\ Len(t) \in Nat
    BY <1>1
  <2> QED BY <2>1, <2>2, <2>3
<1>6. \A k \in 1 .. Len(s) : s[k] = t[k]
  BY <1>1, <1>4
<1> QED BY <1>1, <1>5, <1>6, SeqEqual DEF Ranges

\* Equality of ranges is equality of the sets of versions.
THEOREM ResultsAreCanonical == Spec /\ WellFormedArguments => []Canonical
<1>1. RangesInvariant => Canonical
  <2> SUFFICES ASSUME RangesInvariant, ~running, SetOperation, NEW r \in {left, right},
                      WellFormed(r), Members(r) = Members(output)
               PROVE  r = output
    BY DEF Canonical
  <2>1. InOrder
    BY DEF SetOperation, InOrder
  <2> QED BY <2>1, ResultIsProper, ProperIsWellFormed, SameMembersSameRange
<1> QED BY <1>1, RangesInvariantHolds, PTL

-----------------------------------------------------------------------------
(* The order of ranges *)

\* The order of bounds, when an unbounded one and an included one count alike.
LEMMA BoundsOrdered ==
    ASSUME NEW c \in {Less, Greater}
    PROVE  /\ \A x, y \in Bound :
                 /\ CmpBounds(x, y, c, c) \in {Less, Equal, Greater}
                 /\ CmpBounds(x, y, c, c) = Equal <=> x = y
                 /\ CmpBounds(x, y, c, c) = -CmpBounds(y, x, c, c)
           /\ \A x, y, z \in Bound :
                 CmpBounds(x, y, c, c) = Less /\ CmpBounds(y, z, c, c) = Less =>
                    CmpBounds(x, z, c, c) = Less
<1>1. ASSUME NEW x \in Bound, NEW y \in Bound
      PROVE  /\ CmpBounds(x, y, c, c) \in {Less, Equal, Greater}
             /\ CmpBounds(x, y, c, c) = Equal <=> x = y
             /\ CmpBounds(x, y, c, c) = -CmpBounds(y, x, c, c)
  BY BoundCases, BoundsEqual DEF CmpBounds, CmpVersions, Less, Equal, Greater
<1>2. ASSUME NEW x \in Bound, NEW y \in Bound, NEW z \in Bound,
             CmpBounds(x, y, c, c) = Less, CmpBounds(y, z, c, c) = Less
      PROVE  CmpBounds(x, z, c, c) = Less
  BY <1>2, BoundCases, BoundsEqual DEF CmpBounds, CmpVersions, Less, Equal, Greater
<1> QED BY <1>1, <1>2

\* The order of two segments, and of two ranges at the first that differ.
CompareSegments(x, y) ==
    IF CmpBoundsStart(x.start, y.start) # Equal THEN CmpBoundsStart(x.start, y.start)
    ELSE CmpBoundsEnd(x.end, y.end)

Differ(l, r) == {k \in DOMAIN l : k \in DOMAIN r /\ l[k] # r[k]}

\* The order of segments is one.
LEMMA SegmentsCompared ==
    /\ \A x, y \in Segment :
          /\ CompareSegments(x, y) \in {Less, Equal, Greater}
          /\ CompareSegments(x, y) = Equal <=> x = y
          /\ CompareSegments(x, y) = -CompareSegments(y, x)
    /\ \A x, y, z \in Segment :
          CompareSegments(x, y) = Less /\ CompareSegments(y, z) = Less =>
             CompareSegments(x, z) = Less
<1>1. /\ \A x, y \in Bound :
            /\ CmpBoundsStart(x, y) \in {Less, Equal, Greater}
            /\ CmpBoundsStart(x, y) = Equal <=> x = y
            /\ CmpBoundsStart(x, y) = -CmpBoundsStart(y, x)
      /\ \A x, y, z \in Bound :
            CmpBoundsStart(x, y) = Less /\ CmpBoundsStart(y, z) = Less =>
               CmpBoundsStart(x, z) = Less
  <2>1. PICK c \in {Less, Greater} : c = Less
    OBVIOUS
  <2>2. \A x, y : CmpBoundsStart(x, y) = CmpBounds(x, y, c, c)
    BY <2>1 DEF CmpBoundsStart
  <2> QED BY <2>2, BoundsOrdered
<1>2. /\ \A x, y \in Bound :
            /\ CmpBoundsEnd(x, y) \in {Less, Equal, Greater}
            /\ CmpBoundsEnd(x, y) = Equal <=> x = y
            /\ CmpBoundsEnd(x, y) = -CmpBoundsEnd(y, x)
      /\ \A x, y, z \in Bound :
            CmpBoundsEnd(x, y) = Less /\ CmpBoundsEnd(y, z) = Less =>
               CmpBoundsEnd(x, z) = Less
  <2>1. PICK c \in {Less, Greater} : c = Greater
    OBVIOUS
  <2>2. \A x, y : CmpBoundsEnd(x, y) = CmpBounds(x, y, c, c)
    BY <2>1 DEF CmpBoundsEnd
  <2> QED BY <2>2, BoundsOrdered
<1>3. ASSUME NEW x \in Segment, NEW y \in Segment
      PROVE  /\ CompareSegments(x, y) \in {Less, Equal, Greater}
             /\ CompareSegments(x, y) = Equal <=> x = y
             /\ CompareSegments(x, y) = -CompareSegments(y, x)
  <2>1. /\ x.start \in Bound /\ x.end \in Bound /\ y.start \in Bound /\ y.end \in Bound
        /\ x = Seg(x.start, x.end) /\ y = Seg(y.start, y.end)
    BY SegmentBounds
  <2>2. x = y <=> x.start = y.start /\ x.end = y.end
    BY <2>1
  <2>3. CASE x.start = y.start
    <3>1. CmpBoundsStart(x.start, y.start) = Equal /\ CmpBoundsStart(y.start, x.start) = Equal
      BY <1>1, <2>1, <2>3
    <3>2. /\ CompareSegments(x, y) = CmpBoundsEnd(x.end, y.end)
          /\ CompareSegments(y, x) = CmpBoundsEnd(y.end, x.end)
      BY <3>1 DEF CompareSegments
    <3> QED BY <1>2, <2>1, <2>2, <2>3, <3>2
  <2>4. CASE x.start # y.start
    <3>1. CmpBoundsStart(x.start, y.start) # Equal /\ CmpBoundsStart(y.start, x.start) # Equal
      BY <1>1, <2>1, <2>4
    <3>2. /\ CompareSegments(x, y) = CmpBoundsStart(x.start, y.start)
          /\ CompareSegments(y, x) = CmpBoundsStart(y.start, x.start)
      BY <3>1 DEF CompareSegments
    <3> QED BY <1>1, <2>1, <2>2, <2>4, <3>2
  <2> QED BY <2>3, <2>4
<1>4. ASSUME NEW x \in Segment, NEW y \in Segment, NEW z \in Segment,
             CompareSegments(x, y) = Less, CompareSegments(y, z) = Less
      PROVE  CompareSegments(x, z) = Less
  <2>1. /\ x.start \in Bound /\ x.end \in Bound /\ y.start \in Bound /\ y.end \in Bound
        /\ z.start \in Bound /\ z.end \in Bound
    BY SegmentBounds
  <2>2. \A p, q \in Segment : p.start \in Bound /\ q.start \in Bound =>
           (CompareSegments(p, q) = Less
              <=> \/ CmpBoundsStart(p.start, q.start) = Less
                  \/ p.start = q.start /\ CmpBoundsEnd(p.end, q.end) = Less)
    BY <1>1 DEF CompareSegments, Less, Equal
  <2>3. \/ CmpBoundsStart(x.start, z.start) = Less
        \/ x.start = z.start /\ CmpBoundsEnd(x.end, z.end) = Less
    BY <1>1, <1>2, <1>4, <2>1, <2>2
  <2> QED BY <2>1, <2>2, <2>3
<1> QED BY <1>3, <1>4

\* Compare stops at the first segments that differ, or compares the lengths.
ComparedAt(l, r, f) ==
    /\ f \in Differ(l, r) /\ \A m \in Differ(l, r) : f <= m
    /\ Compare(l, r) = CompareSegments(l[f], r[f])

\* The two ways in which Compare decides.
LEMMA CompareCases ==
    ASSUME NEW l \in Ranges, NEW r \in Ranges
    PROVE  /\ Differ(l, r) = {} => Compare(l, r) = CmpVersions(Len(l), Len(r))
           /\ Differ(l, r) # {} => \E f : ComparedAt(l, r, f)
<1>1. ASSUME Differ(l, r) = {} PROVE Compare(l, r) = CmpVersions(Len(l), Len(r))
  BY <1>1 DEF Compare, Differ
<1>2. ASSUME Differ(l, r) # {} PROVE \E f : ComparedAt(l, r, f)
  <2>1. PICK f : f = CHOOSE k \in Differ(l, r) : \A m \in Differ(l, r) : k <= m
    OBVIOUS
  <2>2. f \in Differ(l, r) /\ \A m \in Differ(l, r) : f <= m
    <3>1. Differ(l, r) \in SUBSET Nat
      BY RangeElements DEF Differ
    <3>2. \E k \in Differ(l, r) : \A m \in Differ(l, r) : k <= m
      BY <1>2, <3>1, SmallestOf
    <3> QED BY <2>1, <3>2, Zenon
  <2>3. Compare(l, r) = CompareSegments(l[f], r[f])
    BY <1>2, <2>1 DEF Compare, Differ, CompareSegments
  <2> QED BY <2>2, <2>3 DEF ComparedAt
<1> QED BY <1>1, <1>2

\* Where l is smaller: at the first segment that differs, or that it lacks.
Precedes(l, r, f) ==
    /\ f \in 1 .. Len(r)
    /\ \A m \in 1 .. f - 1 : m <= Len(l) /\ l[m] = r[m]
    /\ f # Len(l) + 1 => f <= Len(l) /\ CompareSegments(l[f], r[f]) = Less

\* Smaller means to precede somewhere.
LEMMA CompareLess ==
    ASSUME NEW l \in Ranges, NEW r \in Ranges
    PROVE  Compare(l, r) = Less <=> \E f : Precedes(l, r, f)
<1>1. /\ Len(l) \in Nat /\ DOMAIN l = 1 .. Len(l) /\ Len(r) \in Nat /\ DOMAIN r = 1 .. Len(r)
      /\ \A k \in 1 .. Len(l) : l[k] \in Segment
      /\ \A k \in 1 .. Len(r) : r[k] \in Segment
  BY RangeElements
<1>2. \A k : k \in 1 .. Len(l) /\ k \in 1 .. Len(r) /\ k \notin Differ(l, r) => l[k] = r[k]
  BY <1>1 DEF Differ
<1>3. ASSUME Compare(l, r) = Less PROVE \E f : Precedes(l, r, f)
  <2>1. CASE Differ(l, r) = {}
    <3>1. Len(l) < Len(r)
      BY <1>1, <1>3, <2>1, CompareCases DEF CmpVersions, Less, Equal, Greater
    <3>2. PICK f : f = Len(l) + 1
      OBVIOUS
    <3>3. /\ f \in 1 .. Len(r)
          /\ \A m \in 1 .. f - 1 : m \in 1 .. Len(l) /\ m \in 1 .. Len(r) /\ m <= Len(l)
      BY <1>1, <3>1, <3>2
    <3>4. Precedes(l, r, f)
      BY <1>2, <2>1, <3>2, <3>3 DEF Precedes
    <3> QED BY <3>4
  <2>2. CASE Differ(l, r) # {}
    <3>1. PICK f : ComparedAt(l, r, f)
      BY <2>2, CompareCases
    <3>2. /\ f \in Differ(l, r) /\ (\A m \in Differ(l, r) : f <= m)
          /\ CompareSegments(l[f], r[f]) = Less
      BY <1>3, <3>1 DEF ComparedAt
    <3>3. f \in 1 .. Len(l) /\ f \in 1 .. Len(r)
      BY <1>1, <3>2 DEF Differ
    <3>4. \A m \in 1 .. f - 1 : m \in 1 .. Len(l) /\ m \in 1 .. Len(r) /\ ~(f <= m) /\ m <= Len(l)
      BY <1>1, <3>3
    <3>5. \A m \in 1 .. f - 1 : m <= Len(l) /\ l[m] = r[m]
      BY <1>2, <3>2, <3>4
    <3>6. f <= Len(l)
      BY <1>1, <3>3
    <3>7. Precedes(l, r, f)
      BY <3>2, <3>3, <3>5, <3>6 DEF Precedes
    <3> QED BY <3>7
  <2> QED BY <2>1, <2>2
<1>4. ASSUME NEW f, Precedes(l, r, f) PROVE Compare(l, r) = Less
  <2>1. /\ f \in 1 .. Len(r) /\ (\A m \in 1 .. f - 1 : m <= Len(l) /\ l[m] = r[m])
        /\ (f # Len(l) + 1 => f <= Len(l) /\ CompareSegments(l[f], r[f]) = Less)
    BY <1>4 DEF Precedes
  <2>2. \A m \in Differ(l, r) : m \in 1 .. Len(l) /\ m \in 1 .. Len(r) /\ l[m] # r[m]
    BY <1>1 DEF Differ
  <2>3. \A m \in Differ(l, r) : ~(m \in 1 .. f - 1)
    BY <2>1, <2>2
  <2>4. \A m \in Differ(l, r) : f <= m
    BY <1>1, <2>1, <2>2, <2>3
  <2>5. CASE f = Len(l) + 1
    <3>1. Differ(l, r) = {}
      BY <1>1, <2>2, <2>4, <2>5
    <3>2. Len(l) < Len(r)
      BY <1>1, <2>1, <2>5
    <3> QED BY <3>1, <3>2, CompareCases DEF CmpVersions
  <2>6. CASE f # Len(l) + 1
    <3>1. f <= Len(l) /\ CompareSegments(l[f], r[f]) = Less /\ f \in 1 .. Len(l)
      BY <1>1, <2>1, <2>6
    <3>2. l[f] # r[f]
      BY <1>1, <2>1, <3>1, SegmentsCompared DEF Less, Equal
    <3>3. f \in Differ(l, r)
      BY <1>1, <2>1, <3>1, <3>2 DEF Differ
    <3>4. PICK g : ComparedAt(l, r, g)
      BY <3>3, CompareCases
    <3>5. g = f
      <4>1. g \in 1 .. Len(l) /\ g <= f /\ f <= g
        BY <2>2, <2>4, <3>3, <3>4 DEF ComparedAt
      <4> QED BY <1>1, <2>1, <4>1
    <3> QED BY <3>1, <3>4, <3>5 DEF ComparedAt
  <2> QED BY <2>5, <2>6
<1> QED BY <1>3, <1>4

\* What precedes what precedes a range precedes it.
LEMMA PrecedesTransitive ==
    ASSUME NEW l \in Ranges, NEW r \in Ranges, NEW o \in Ranges,
           NEW f, Precedes(l, r, f), NEW g, Precedes(r, o, g)
    PROVE  \E h : Precedes(l, o, h)
<1>1. /\ Len(l) \in Nat /\ Len(r) \in Nat /\ Len(o) \in Nat
      /\ \A k \in 1 .. Len(l) : l[k] \in Segment
      /\ \A k \in 1 .. Len(r) : r[k] \in Segment
      /\ \A k \in 1 .. Len(o) : o[k] \in Segment
  BY RangeElements
<1>2. /\ f \in 1 .. Len(r) /\ (\A m \in 1 .. f - 1 : m <= Len(l) /\ l[m] = r[m])
      /\ (f # Len(l) + 1 => f <= Len(l) /\ CompareSegments(l[f], r[f]) = Less)
  BY DEF Precedes
<1>3. /\ g \in 1 .. Len(o) /\ (\A m \in 1 .. g - 1 : m <= Len(r) /\ r[m] = o[m])
      /\ (g # Len(r) + 1 => g <= Len(r) /\ CompareSegments(r[g], o[g]) = Less)
  BY DEF Precedes
<1>4. CASE f < g
  <2>1. f \in 1 .. g - 1 /\ f \in 1 .. Len(o) /\ \A m \in 1 .. f - 1 : m \in 1 .. g - 1
    BY <1>1, <1>2, <1>3, <1>4
  <2>2. r[f] = o[f]
    BY <1>3, <2>1
  <2>3. \A m \in 1 .. f - 1 : m <= Len(l) /\ l[m] = o[m]
    BY <1>2, <1>3, <2>1
  <2>4. Precedes(l, o, f)
    BY <1>2, <2>1, <2>2, <2>3 DEF Precedes
  <2> QED BY <2>4
<1>5. CASE g < f
  <2>1. /\ g \in 1 .. f - 1 /\ g # Len(r) + 1 /\ g \in 1 .. Len(o)
        /\ \A m \in 1 .. g - 1 : m \in 1 .. f - 1
    BY <1>1, <1>2, <1>3, <1>5
  <2>2. l[g] = r[g] /\ g <= Len(l) /\ CompareSegments(r[g], o[g]) = Less
    BY <1>2, <1>3, <2>1
  <2>3. \A m \in 1 .. g - 1 : m <= Len(l) /\ l[m] = o[m]
    BY <1>2, <1>3, <2>1
  <2>4. Precedes(l, o, g)
    BY <2>1, <2>2, <2>3 DEF Precedes
  <2> QED BY <2>4
<1>6. CASE f = g
  <2>1. f # Len(r) + 1 /\ f \in 1 .. Len(o)
    BY <1>1, <1>2, <1>3, <1>6
  <2>2. CompareSegments(r[f], o[f]) = Less
    BY <1>3, <1>6, <2>1
  <2>3. \A m \in 1 .. f - 1 : m <= Len(l) /\ l[m] = o[m]
    BY <1>2, <1>3, <1>6
  <2>4. ASSUME f # Len(l) + 1 PROVE f <= Len(l) /\ CompareSegments(l[f], o[f]) = Less
    <3>1. f <= Len(l) /\ CompareSegments(l[f], r[f]) = Less
      BY <1>2, <2>4
    <3>2. f \in 1 .. Len(l)
      BY <1>1, <1>2, <3>1
    <3>3. l[f] \in Segment /\ r[f] \in Segment /\ o[f] \in Segment
      BY <1>1, <1>2, <2>1, <3>2
    <3> QED BY <2>2, <3>1, <3>3, SegmentsCompared
  <2>5. Precedes(l, o, f)
    BY <2>1, <2>3, <2>4 DEF Precedes
  <2> QED BY <2>5
<1>7. f \in Int /\ g \in Int
  BY <1>1, <1>2, <1>3
<1> QED BY <1>4, <1>5, <1>6, <1>7

\* Compare tells ranges apart, in opposite ways from both sides.
LEMMA CompareOrders ==
    ASSUME NEW l \in Ranges, NEW r \in Ranges
    PROVE  /\ Compare(l, r) = Equal <=> l = r
           /\ Compare(l, r) = -Compare(r, l)
<1>1. /\ Len(l) \in Nat /\ DOMAIN l = 1 .. Len(l) /\ Len(r) \in Nat /\ DOMAIN r = 1 .. Len(r)
      /\ \A k \in 1 .. Len(l) : l[k] \in Segment
      /\ \A k \in 1 .. Len(r) : r[k] \in Segment
  BY RangeElements
<1>2. Differ(l, r) = Differ(r, l)
  BY DEF Differ
<1>3. CASE Differ(l, r) = {}
  <2>1. /\ Compare(l, r) = CmpVersions(Len(l), Len(r))
        /\ Compare(r, l) = CmpVersions(Len(r), Len(l))
    BY <1>2, <1>3, CompareCases
  <2>2. /\ CmpVersions(Len(l), Len(r)) = Equal <=> Len(l) = Len(r)
        /\ CmpVersions(Len(l), Len(r)) = -CmpVersions(Len(r), Len(l))
    <3>1. \A n, m \in Nat : /\ CmpVersions(n, m) = Equal <=> n = m
                            /\ CmpVersions(n, m) = -CmpVersions(m, n)
      BY DEF CmpVersions, Less, Equal, Greater
    <3> QED BY <1>1, <3>1
  <2>3. ASSUME Len(l) = Len(r) PROVE l = r
    <3>1. \A k \in 1 .. Len(l) : l[k] = r[k]
      BY <1>1, <1>3, <2>3 DEF Differ
    <3> QED BY <2>3, <3>1, SeqEqual DEF Ranges
  <2> QED BY <2>1, <2>2, <2>3
<1>4. CASE Differ(l, r) # {}
  <2>1. PICK f : ComparedAt(l, r, f)
    BY <1>4, CompareCases
  <2>2. PICK g : ComparedAt(r, l, g)
    BY <1>2, <1>4, CompareCases
  <2>3. f \in 1 .. Len(l) /\ f \in 1 .. Len(r) /\ g \in 1 .. Len(l) /\ l[f] # r[f]
    BY <1>1, <2>1, <2>2 DEF ComparedAt, Differ
  <2>4. f <= g /\ g <= f
    BY <1>2, <2>1, <2>2 DEF ComparedAt
  <2>5. f = g
    BY <1>1, <2>3, <2>4
  <2>6. l[f] \in Segment /\ r[f] \in Segment
    BY <1>1, <2>3
  <2>7. Compare(l, r) = CompareSegments(l[f], r[f]) /\ Compare(r, l) = CompareSegments(r[f], l[f])
    BY <2>1, <2>2, <2>5 DEF ComparedAt
  <2>8. l # r
    BY <2>3
  <2> QED BY <2>3, <2>6, <2>7, <2>8, SegmentsCompared
<1> QED BY <1>3, <1>4

\* The order of ranges is one, for any three of them.
THEOREM OrderIsConsistent == Spec /\ WellFormedArguments => []OrderConsistent
<1>1. RangesInvariant => OrderConsistent
  <2> SUFFICES ASSUME RangesInvariant
               PROVE  /\ Compare(left, right) = Equal <=> left = right
                      /\ Compare(left, right) = -Compare(right, left)
                      /\ Compare(left, right) = Less /\ Compare(right, output) = Less =>
                            Compare(left, output) = Less
    BY DEF OrderConsistent
  <2>1. left \in Ranges /\ right \in Ranges /\ output \in Ranges
    BY DEF RangesInvariant, RangesType
  <2>2. ASSUME Compare(left, right) = Less, Compare(right, output) = Less
        PROVE  Compare(left, output) = Less
    <3>1. PICK f : Precedes(left, right, f)
      BY <2>1, <2>2, CompareLess
    <3>2. PICK g : Precedes(right, output, g)
      BY <2>1, <2>2, CompareLess
    <3>3. PICK h : Precedes(left, output, h)
      BY <2>1, <3>1, <3>2, PrecedesTransitive
    <3> QED BY <2>1, <3>3, CompareLess
  <2> QED BY <2>1, <2>2, CompareOrders
<1> QED BY <1>1, RangesInvariantHolds, PTL
=============================================================================
