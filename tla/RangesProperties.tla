--------------------------- MODULE RangesProperties ---------------------------
(***************************************************************************)
(* What the operations on segments must compute: the operations on the     *)
(* sets of versions that the solver takes them for.                        *)
(***************************************************************************)
EXTENDS RangesAlgorithms

\* There are versions between any two bounds, and on both sides of them, as in
\* the orders Ranges are meant for.
ASSUME DenseVersions ==
    /\ Versions # {}
    /\ \A u, v \in BoundVersions : u < v => \E x \in Versions : u < x /\ x < v
    /\ \A u \in BoundVersions : \E x, y \in Versions : x < u /\ u < y

AfterStart(v, b) == IsUnbounded(b) \/ v > b.at \/ (v = b.at /\ IsIncluded(b))
BeforeEnd(v, b)  == IsUnbounded(b) \/ v < b.at \/ (v = b.at /\ IsIncluded(b))

\* What a segment stands for, and a sequence of them.
SegmentMembers(s) == {v \in Versions : AfterStart(v, s.start) /\ BeforeEnd(v, s.end)}
Members(segments) == UNION {SegmentMembers(segments[k]) : k \in DOMAIN segments}

ExpectedMembers ==
    CASE op = "union"        -> Members(left) \cup Members(right)
      [] op = "intersection" -> Members(left) \cap Members(right)
      [] op = "complement"   -> Versions \ Members(left)
      [] op = "from_iter"    -> Members(left)

SetOperation == op \in {"union", "intersection", "complement", "from_iter"}

\* union, intersection, complement and from_iter return the set of versions
\* they are named for, whatever bounds of their segments touch.
ResultExact == ~running /\ SetOperation => Members(output) = ExpectedMembers

Listed == {versions[k] : k \in DOMAIN versions}
SortedVersions == \A k \in 1 .. Len(versions) - 1 : versions[k] <= versions[k + 1]
InOrder == op = "simplify" => SortedVersions

\* Every result has the three invariants of `Ranges', which check_invariants
\* asserts: sorted, no segment without a version, a gap between any two.
\* simplify owes them only to versions in order.
ResultWellFormed == ~running /\ InOrder => WellFormed(output)

\* is_disjoint and subset_of, which stop at the first segments that decide,
\* decide as the sets of versions do.
PredicatesExact ==
    ~running =>
        /\ op = "is_disjoint" => (answer <=> Members(left) \cap Members(right) = {})
        /\ op = "subset_of"   => (answer <=> Members(left) \subseteq Members(right))

\* While from_iter goes on, whatever the order of its segments, what it has
\* built is sorted and apart, so that partition_point may bisect it, and has
\* the versions of the segments met so far.
FromIterSoFar ==
    running /\ op = "from_iter" =>
        WellFormed(output) /\ Members(output) = Members(SubSeq(left, 1, i - 1))

\* lib.rs:67: "equivalent instances have an identical representation, which is
\* important for Eq and Hash".  The solver compares with Term::any() and
\* VersionSet::empty() by ==.
Canonical ==
    ~running /\ SetOperation =>
        \A r \in {left, right} : WellFormed(r) /\ Members(r) = Members(output) => r = output

\* contains bisects the segments and contains_many goes through them once:
\* both find a version exactly when it is in the range, because it is above
\* all segments before its own and below all segments after it.  The bounding
\* range leaves no version out.
SearchExact ==
    ~running /\ InOrder =>
        /\ \A v \in Versions :
              /\ Contains(output, v) <=> v \in Members(output)
              /\ \A k, m \in DOMAIN output : k < m =>
                    WithinBounds(v, output[k]) = Greater \/ WithinBounds(v, output[m]) = Less
        /\ output # Empty => Members(output) \subseteq SegmentMembers(BoundingRange(output))

\* For sorted versions, simplify returns a range that agrees on every version
\* listed; it has found where each of them is, gives all versions when it may,
\* and never the empty range for one that is not.
SimplifyAgrees ==
    op = "simplify" /\ SortedVersions =>
        /\ ~panicked
        /\ \A k \in DOMAIN located : located[k] <=> versions[k] \in Members(left)
        /\ ~running =>
              /\ WellFormed(output)
              /\ Members(output) \cap Listed = Members(left) \cap Listed
              /\ left # Empty => output # Empty
              /\ Listed # {} /\ Listed \subseteq Members(left) /\ ~IsSingleton(left) =>
                    output = Full

\* lib.rs:807-810, which contains_many repeats: `assert!(l.borrow() <=
\* v.borrow(), "`simplify` `versions` argument incorrectly sorted")'.  The
\* assertion lets no list pass that is not sorted.
UnsortedNoticed ==
    op = "simplify" /\ ~running /\ ~IsSingleton(left) => (panicked <=> ~SortedVersions)

\* The order of ranges is one: it tells different ranges apart, in opposite
\* ways from both sides, and is transitive (here with the result between).
OrderConsistent ==
    ~running =>
        /\ Compare(left, right) = Equal <=> left = right
        /\ Compare(left, right) = -Compare(right, left)
        /\ Compare(left, right) = Less /\ Compare(right, output) = Less =>
              Compare(left, output) = Less
=============================================================================
