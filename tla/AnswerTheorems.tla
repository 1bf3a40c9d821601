--------------------------- MODULE AnswerTheorems ---------------------------
(***************************************************************************)
(* Ok(selected): whatever the provider answers and in whatever order, what *)
(* `resolve' returns is a solution.  The argument follows each dependency  *)
(* of a decided version from get_dependencies through merging, the scans   *)
(* of unit propagation and backtracking.                                   *)
(***************************************************************************)
EXTENDS SolverTheorems

-----------------------------------------------------------------------------
(* What unit propagation finds *)

\* A satisfied entry is neither inconclusive nor contradicted, and the term is
\* not disjoint with what is known.
LEMMA SatisfiedEntry ==
    ASSUME Invariant, NEW y, y[2] \in TermType, EntrySatisfied(y, Known)
    PROVE  /\ ~EntryInconclusive(y, Known)
           /\ ~EntryContradicted(y, Known)
           /\ y[1] \in DOMAIN assignments
           /\ ~IsDisjoint(y[2], assignments[y[1]].term)
<1>1. y[1] \in DOMAIN assignments /\ SubsetOf(assignments[y[1]].term, y[2])
  BY DEF EntrySatisfied, TermSatisfied, Known
<1>2. Known[y[1]] = assignments[y[1]].term /\ y[1] \in DOMAIN Known
  BY <1>1 DEF Known
<1>3. ~EntryInconclusive(y, Known) /\ ~EntryContradicted(y, Known)
  BY <1>1, <1>2 DEF EntryInconclusive, EntryContradicted, TermInconclusive, TermContradicted
<1>4. assignments[y[1]].term \in TermType /\ assignments[y[1]].term # EmptyTerm
  BY <1>1, AssignmentParts DEF HistoryWellFormed
<1> QED BY <1>1, <1>3, <1>4, SatisfiedNotDisjoint

\* What is ruled out at a level is ruled out at a later one, and now.
LEMMA RuledOutLater ==
    ASSUME Invariant, NEW x, NEW l1 \in Nat, NEW l2 \in Nat, l1 <= l2, RuledOut(x, l1)
    PROVE  RuledOut(x, l2)
<1>1. x[1] \in DOMAIN assignments /\ RuledOutBy(assignments[x[1]], x[2], l1)
  BY DEF RuledOut
<1>2. assignments[x[1]] \in PackageAssignmentsType
  BY <1>1, AssignmentParts
<1>3. /\ assignments[x[1]].highest \in Nat
      /\ \A i \in DOMAIN assignments[x[1]].dated : assignments[x[1]].dated[i].level \in Nat
  <2>1. \A i \in DOMAIN assignments[x[1]].dated :
           assignments[x[1]].dated[i] \in DatedDerivationType
    BY <1>2 DEF PackageAssignmentsType
  <2> QED BY <1>2, <2>1 DEF PackageAssignmentsType, DatedDerivationType
<1>4. RuledOutBy(assignments[x[1]], x[2], l2)
  BY <1>1, <1>3 DEF RuledOutBy
<1> QED BY <1>1, <1>4 DEF RuledOut

LEMMA RuledOutIsDisjoint ==
    ASSUME Invariant, HistoriesNarrow, NEW x, x[2] \in TermType, NEW level, RuledOut(x, level)
    PROVE  x[1] \in DOMAIN assignments /\ IsDisjoint(x[2], assignments[x[1]].term)
<1>1. x[1] \in DOMAIN assignments /\ RuledOutBy(assignments[x[1]], x[2], level)
  BY DEF RuledOut
<1>2. HistoryNarrow(x[1])
  BY <1>1, HistoriesNarrowEach
<1>3. assignments[x[1]] \in PackageAssignmentsType /\ assignments[x[1]].dated # << >>
  BY <1>1, AssignmentParts
<1> QED BY <1>1, <1>2, <1>3, RuledOutNow DEF HistoryNarrow

\* An incompatibility that is marked has a term that is ruled out now.
LEMMA MarkedDisjoint ==
    ASSUME Invariant, HistoriesNarrow, MarksRuledOut, NEW id \in DOMAIN contradicted
    PROVE  \E x \in store[id].terms :
              /\ x[1] \in DOMAIN assignments /\ x[2] \in TermType
              /\ IsDisjoint(x[2], assignments[x[1]].term)
              /\ RuledOut(x, currentDecisionLevel)
<1>1. PICK x \in store[id].terms : RuledOut(x, contradicted[id])
  BY DEF MarksRuledOut
<1>2. CoreTypeOK /\ PSTypeOK
  BY InvariantParts
<1>3. id \in Ids /\ contradicted[id] \in Nat /\ currentDecisionLevel \in Nat
      /\ contradicted[id] <= currentDecisionLevel
  BY <1>2 DEF CoreTypeOK, PSTypeOK, MarksRuledOut
<1>4. x[2] \in TermType
  <2>1. store[id].terms \in TermsType
    BY <1>3, StoreEntry
  <2> QED BY <2>1 DEF TermsType
<1>5. RuledOut(x, currentDecisionLevel)
  BY <1>1, <1>3, RuledOutLater
<1> QED BY <1>1, <1>4, <1>5, RuledOutIsDisjoint

-----------------------------------------------------------------------------
(* The steps of each loop *)

LEMMA StepsAt ==
    ASSUME Next
    PROVE  /\ pc = "loop"      => Cancel \/ StartPropagation
           /\ pc = "propagate" => PopPackage \/ EndPropagation
           /\ pc = "scan"      => \/ SkipContradicted \/ ScanConflict \/ ScanAlmostSatisfied
                                 \/ ScanContradicted \/ ScanInconclusive \/ EndScan
           /\ pc = "conflict"  => FailTerminal \/ ResolveConflict \/ BacktrackFromConflict
           /\ pc = "learn"     => Learn
           /\ pc = "pick"      => ReturnSolution \/ Pick
           /\ pc = "choose"    => \/ ProviderError \/ ChooseNone \/ ChooseUnavailable
                                 \/ ChooseNew \/ ChooseKnown
           /\ pc = "merge"     => MergeDependency \/ EndMerge
           /\ pc = "decide"    => Accept \/ Reject
           /\ pc \in Done      => Terminated
<1>1. /\ Cancel \/ StartPropagation => pc = "loop"
      /\ PopPackage \/ EndPropagation => pc = "propagate"
  BY DEF Cancel, StartPropagation, PopPackage, EndPropagation
<1>2. /\ SkipContradicted \/ ScanConflict \/ ScanAlmostSatisfied => pc = "scan"
      /\ ScanContradicted \/ ScanInconclusive \/ EndScan => pc = "scan"
  BY DEF SkipContradicted, ScanConflict, ScanAlmostSatisfied, ScanContradicted,
         ScanInconclusive, EndScan, Scanning
<1>3. /\ FailTerminal \/ ResolveConflict \/ BacktrackFromConflict => pc = "conflict"
      /\ Learn => pc = "learn"
      /\ ReturnSolution \/ Pick => pc = "pick"
  BY DEF FailTerminal, ResolveConflict, BacktrackFromConflict, Resolving, Learn,
         ReturnSolution, Pick
<1>4. /\ ProviderError \/ ChooseNone \/ ChooseUnavailable => pc = "choose"
      /\ ChooseNew \/ ChooseKnown => pc = "choose"
  BY DEF ProviderError, ChooseNone, ChooseUnavailable, ChooseNew, ChooseKnown
<1>5. /\ MergeDependency \/ EndMerge => pc = "merge"
      /\ Accept \/ Reject => pc = "decide"
      /\ Terminated => pc \in Done
  BY DEF MergeDependency, EndMerge, Accept, Reject, Terminated
<1>6. /\ "loop" \notin Done /\ "propagate" \notin Done /\ "scan" \notin Done
      /\ "conflict" \notin Done /\ "learn" \notin Done /\ "pick" \notin Done
      /\ "choose" \notin Done /\ "merge" \notin Done /\ "decide" \notin Done
  BY DEF Done
<1>7. CASE pc = "loop"
  BY <1>1, <1>2, <1>3, <1>4, <1>5, <1>6, <1>7 DEF Next
<1>8. CASE pc = "propagate"
  BY <1>1, <1>2, <1>3, <1>4, <1>5, <1>6, <1>8 DEF Next
<1>9. CASE pc = "scan"
  BY <1>1, <1>2, <1>3, <1>4, <1>5, <1>6, <1>9 DEF Next
<1>10. CASE pc = "conflict"
  BY <1>1, <1>2, <1>3, <1>4, <1>5, <1>6, <1>10 DEF Next
<1>11. CASE pc = "learn"
  BY <1>1, <1>2, <1>3, <1>4, <1>5, <1>6, <1>11 DEF Next
<1>12. CASE pc = "pick"
  BY <1>1, <1>2, <1>3, <1>4, <1>5, <1>6, <1>12 DEF Next
<1>13. CASE pc = "choose"
  BY <1>1, <1>2, <1>3, <1>4, <1>5, <1>6, <1>13 DEF Next
<1>14. CASE pc = "merge"
  BY <1>1, <1>2, <1>3, <1>4, <1>5, <1>6, <1>14 DEF Next
<1>15. CASE pc = "decide"
  BY <1>1, <1>2, <1>3, <1>4, <1>5, <1>6, <1>15 DEF Next
<1>16. CASE pc \in Done
  BY <1>1, <1>2, <1>3, <1>4, <1>5, <1>6, <1>16 DEF Next
<1> QED BY <1>7, <1>8, <1>9, <1>10, <1>11, <1>12, <1>13, <1>14, <1>15, <1>16

-----------------------------------------------------------------------------
(* The root *)

LEMMA NothingYetStep ==
    ASSUME Invariant, HistoriesNarrow, NothingYet, [Next]_vars
    PROVE  RootSettled'
<1> DEFINE x == <<RootPackage, Negative({RootVersion})>>
<1>1. /\ DOMAIN assignments = {} /\ DOMAIN contradicted = {} /\ currentDecisionLevel = 0
      /\ Len(store) = 1 /\ store[1] = NotRoot /\ incompatibilities[RootPackage] = <<1>>
      /\ \/ pc = "loop" /\ next = RootPackage
         \/ pc = "propagate" /\ buffer = <<RootPackage>>
         \/ pc = "scan" /\ scan = <<1>>
         \/ pc = "cancelled"
  BY DEF NothingYet
<1>2. DOMAIN Known = {} /\ store[1].terms = {x}
  BY <1>1 DEF Known, NotRoot, External
<1>3. CASE UNCHANGED vars
  <2>1. NothingYet'
    BY <1>3 DEF NothingYet, vars, psVars, coreVars, solverVars
  <2> QED BY <2>1 DEF RootSettled
<1>4. CASE pc = "cancelled" /\ Next
  <2>1. UNCHANGED vars
    BY <1>4, StepsAt DEF Done, Terminated
  <2> QED BY <1>3, <2>1
<1>5. CASE pc = "loop" /\ Next
  <2>1. Cancel \/ StartPropagation
    BY <1>5, StepsAt
  <2>2. NothingYet'
    BY <1>1, <1>5, <2>1 DEF NothingYet, Cancel, StartPropagation, psVars, coreVars
  <2> QED BY <2>2 DEF RootSettled
<1>6. CASE pc = "propagate" /\ Next
  <2>1. PopPackage
    <3>1. buffer # << >>
      BY <1>1, <1>6
    <3> QED BY <1>6, <3>1, StepsAt DEF EndPropagation
  <2>2. Last(buffer) = RootPackage
    BY <1>1, <1>6 DEF Last
  <2>3. NothingYet'
    BY <1>1, <2>1, <2>2 DEF NothingYet, PopPackage, psVars
  <2> QED BY <2>3 DEF RootSettled
<1>7. CASE pc = "scan" /\ Next
  <2>1. scan = <<1>> /\ Last(scan) = 1 /\ scan # << >>
    <3>1. scan = <<1>>
      BY <1>1, <1>7
    <3>2. Last(<<1>>) = 1
      BY DEF Last
    <3> QED BY <3>1, <3>2
  <2>2. ScanConflict \/ ScanAlmostSatisfied \/ ScanContradicted \/ ScanInconclusive
    BY <1>1, <1>7, <2>1, StepsAt DEF SkipContradicted, EndScan
  <2>3. ~ScanConflict /\ ~ScanContradicted /\ ~ScanInconclusive
    <3> HIDE DEF x
    <3>1. ~Satisfied({x}, Known) /\ ~HasContradicted({x}, Known)
          /\ ~HasTwoInconclusive({x}, Known)
      BY <1>2 DEF Satisfied, EntrySatisfied, HasContradicted, EntryContradicted,
                  HasTwoInconclusive
    <3> QED BY <1>2, <2>1, <3>1 DEF ScanConflict, ScanContradicted, ScanInconclusive,
                                    FindContradicted, FindInconclusive
  <2>4. PICK y \in store[Last(scan)].terms : Derives(y[1], Last(scan))
    BY <2>2, <2>3, ScanDerives
  <2>5. y = x /\ x[1] = RootPackage
    BY <1>2, <2>1, <2>4
  <2>6. Get(store[1].terms, RootPackage) = Negative({RootVersion})
    <3>1. OneTermPerPackage(store[1].terms) /\ store[1].terms \in TermsType
      <4>1. 1 \in Ids
        BY <1>1 DEF Ids
      <4> QED BY <1>2, <4>1, StoreEntry DEF OneTermPerPackage
    <3> QED BY <1>2, <3>1, GetOnly
  <2>7. PICK z : z = x
    OBVIOUS
  <2>8. z = <<RootPackage, Get(store[1].terms, RootPackage)>> /\ Derives(RootPackage, 1)
    BY <2>1, <2>4, <2>5, <2>6, <2>7
  <2>9. RuledOut(z, 0)'
    BY <1>1, <2>8, DerivationRulesOut
  <2>10. RuledOut(x, 0)'
    BY <2>7, <2>9 DEF RuledOut
  <2> QED BY <2>10 DEF RootSettled
<1> QED BY <1>1, <1>3, <1>4, <1>5, <1>6, <1>7

LEMMA RootSettledStep ==
    ASSUME Invariant, HistoriesNarrow, RootSettled, [Next]_vars
    PROVE  RootSettled'
<1>1. CASE NothingYet
  BY <1>1, NothingYetStep
<1>2. CASE RuledOut(<<RootPackage, Negative({RootVersion})>>, 0)
  <2>1. PICK x : x = <<RootPackage, Negative({RootVersion})>>
    OBVIOUS
  <2>2. 0 <= currentDecisionLevel'
    <3>1. Invariant'
      BY NextInvariant
    <3> QED BY <3>1 DEF Invariant, TypeOK, PSTypeOK
  <2>3. RuledOut(x, 0)'
    BY <1>2, <2>1, <2>2, RuledOutStays
  <2> QED BY <2>1, <2>3 DEF RootSettled, RuledOut
<1> QED BY <1>1, <1>2 DEF RootSettled

-----------------------------------------------------------------------------
(* Lists of incompatibilities *)

\* Taking an id out of a list leaves the others in.
LEMMA WithoutKeeps ==
    ASSUME NEW S, NEW ids \in Seq(S), NEW id, NEW i \in DOMAIN ids, ids[i] # id
    PROVE  \E j \in DOMAIN Without(ids, id) : Without(ids, id)[j] = ids[i]
<1>1. CASE ~\E k \in DOMAIN ids : ids[k] = id
  BY <1>1 DEF Without
<1>2. CASE \E k \in DOMAIN ids : ids[k] = id
  <2> DEFINE k == CHOOSE m \in DOMAIN ids : ids[m] = id
             before == SubSeq(ids, 1, k - 1)
             after == SubSeq(ids, k + 1, Len(ids))
  <2>1. k \in DOMAIN ids /\ ids[k] = id
    BY <1>2
  <2>2. Without(ids, id) = before \o after
    BY <1>2 DEF Without, RemoveAt
  <2> HIDE DEF k
  <2>3. /\ Len(ids) \in Nat /\ k \in 1 .. Len(ids) /\ i \in 1 .. Len(ids) /\ i # k
        /\ \A m \in 1 .. Len(ids) : ids[m] \in S
    BY <2>1
  <2>4. /\ before \in Seq(S) /\ Len(before) = k - 1
        /\ \A m \in 1 .. k - 1 : before[m] = ids[m]
    BY <2>3, SubSeqProperties
  <2>5. /\ after \in Seq(S) /\ Len(after) = Len(ids) - k
        /\ \A m \in 1 .. Len(ids) - k : after[m] = ids[k + m]
    BY <2>3, SubSeqProperties
  <2> HIDE DEF before, after
  <2>6. CASE i < k
    <3>1. i \in 1 .. k - 1
      BY <2>3, <2>6
    <3>2. i \in DOMAIN (before \o after) /\ (before \o after)[i] = before[i]
      BY <2>3, <2>4, <2>5, <3>1
    <3> QED BY <2>2, <2>4, <3>1, <3>2
  <2>7. CASE i > k
    <3>1. i - k \in 1 .. Len(ids) - k /\ i - 1 = (k - 1) + (i - k)
      BY <2>3, <2>7
    <3>2. i - 1 \in DOMAIN (before \o after) /\ (before \o after)[i - 1] = after[i - k]
      <4>1. /\ DOMAIN (before \o after) = 1 .. Len(before) + Len(after)
            /\ i - 1 \in 1 .. Len(before) + Len(after)
            /\ i - 1 > Len(before) /\ (i - 1) - Len(before) = i - k
        <5>1. /\ before \o after \in Seq(S)
              /\ Len(before \o after) = Len(before) + Len(after)
          BY <2>4, <2>5, ConcatProperties
        <5> QED BY <2>3, <2>4, <2>5, <2>7, <5>1
      <4>2. PICK m \in 1 .. Len(before) + Len(after) : m = i - 1
        BY <4>1
      <4>3. (before \o after)[m] = IF m <= Len(before) THEN before[m]
                                                      ELSE after[m - Len(before)]
        BY <2>4, <2>5, ConcatProperties
      <4>4. Len(before) \in Nat /\ ~(m <= Len(before)) /\ m - Len(before) = i - k
        BY <2>3, <2>4, <4>1, <4>2
      <4> QED BY <4>1, <4>2, <4>3, <4>4
    <3>3. after[i - k] = ids[i]
      <4>1. after[i - k] = ids[k + (i - k)] /\ k + (i - k) = i
        BY <2>3, <2>5, <3>1
      <4> QED BY <4>1
    <3> QED BY <2>2, <3>2, <3>3
  <2> QED BY <2>3, <2>6, <2>7
<1> QED BY <1>1, <1>2

\* A package of a term has a term, and not infinitely many.
LEMMA CountTerms ==
    ASSUME NEW terms, IsFiniteSet(terms), NEW p
    PROVE  /\ Cardinality(TermsOf(terms, p)) \in Nat
           /\ p \in IncompatPackages(terms) => Cardinality(TermsOf(terms, p)) >= 1
<1> DEFINE mine == EntriesOf(terms, p)
           f == [y \in mine |-> y[2]]
<1>1. IsFiniteSet(mine)
  BY FS_Subset DEF EntriesOf
<1>2. f \in Surjection(mine, TermsOf(terms, p))
  BY DEF Surjection, TermsOf
<1>3. IsFiniteSet(TermsOf(terms, p))
  BY <1>1, <1>2, FS_Surjection
<1>4. Cardinality(TermsOf(terms, p)) \in Nat
  BY <1>3, FS_CardinalityType
<1>5. ASSUME p \in IncompatPackages(terms)
      PROVE  TermsOf(terms, p) # {}
  BY <1>5 DEF IncompatPackages, TermsOf, EntriesOf
<1>6. Cardinality(TermsOf(terms, p)) = 0 <=> TermsOf(terms, p) = {}
  BY <1>3, FS_EmptySet
<1> QED BY <1>4, <1>5, <1>6

\* Registering an id leaves what is listed, and lists the id for each package.
LEMMA RegisterLists ==
    ASSUME NEW S, NEW lists \in [Packages -> Seq(S)], NEW terms, IsFiniteSet(terms),
           NEW id, NEW p \in Packages
    PROVE  /\ \A x : IsListed(lists, p, x) => IsListed(Register(lists, terms, id), p, x)
           /\ p \in IncompatPackages(terms) => IsListed(Register(lists, terms, id), p, id)
<1> DEFINE n == Cardinality(TermsOf(terms, p))
           added == [i \in 1 .. n |-> id]
           old == lists[p]
<1>1. n \in Nat /\ (p \in IncompatPackages(terms) => n >= 1)
  BY CountTerms
<1>2. Register(lists, terms, id)[p] = old \o added
  BY DEF Register
<1>3. old \in Seq(S)
  OBVIOUS
<1> HIDE DEF n, old
<1>4. added \in Seq({id}) /\ Len(added) = n
  BY <1>1
<1>5. /\ \A i \in DOMAIN old : i \in DOMAIN (old \o added) /\ (old \o added)[i] = old[i]
      /\ n >= 1 => /\ Len(old) + 1 \in DOMAIN (old \o added)
                   /\ (old \o added)[Len(old) + 1] = id
  <2>1. \A i \in 1 .. n : added[i] = id
    OBVIOUS
  <2> HIDE DEF added
  <2>2. ASSUME NEW i \in DOMAIN old
        PROVE  i \in DOMAIN (old \o added) /\ (old \o added)[i] = old[i]
    BY <1>1, <1>3, <1>4, <2>2
  <2>3. ASSUME n >= 1
        PROVE  Len(old) + 1 \in DOMAIN (old \o added) /\ (old \o added)[Len(old) + 1] = added[1]
    BY <1>1, <1>3, <1>4, <2>3
  <2> QED BY <1>1, <2>1, <2>2, <2>3
<1> HIDE DEF added
<1> QED BY <1>1, <1>2, <1>5 DEF IsListed, old

\* Taking an id out of some lists leaves the others in.
LEMMA UnregisterLists ==
    ASSUME NEW S, NEW lists \in [Packages -> Seq(S)], NEW terms, NEW id,
           NEW p \in Packages, NEW x, x # id, IsListed(lists, p, x)
    PROVE  IsListed(Unregister(lists, terms, id), p, x)
<1>1. PICK i \in DOMAIN lists[p] : lists[p][i] = x
  BY DEF IsListed
<1>2. \E j \in DOMAIN Without(lists[p], id) : Without(lists[p], id)[j] = x
  <2>1. lists[p] \in Seq(S) /\ lists[p][i] # id
    BY <1>1
  <2>2. PICK ids : ids = lists[p]
    OBVIOUS
  <2>3. ids \in Seq(S) /\ i \in DOMAIN ids /\ ids[i] # id /\ ids[i] = x
    BY <1>1, <2>1, <2>2
  <2>4. \E j \in DOMAIN Without(ids, id) : Without(ids, id)[j] = ids[i]
    BY <2>3, WithoutKeeps
  <2> QED BY <2>2, <2>3, <2>4
<1>3. \/ Unregister(lists, terms, id)[p] = Without(lists[p], id)
      \/ Unregister(lists, terms, id)[p] = lists[p]
  BY DEF Unregister
<1>4. PICK new : new = Unregister(lists, terms, id)
  OBVIOUS
<1>5. \E j \in DOMAIN new[p] : new[p][j] = x
  BY <1>1, <1>2, <1>3, <1>4
<1> QED BY <1>4, <1>5 DEF IsListed

-----------------------------------------------------------------------------
(* merge_incompatibility: where the dependencies go *)

\* A dependency says which packages it is about.
LEMMA DependencyOf ==
    ASSUME NEW p, NEW versions, NEW q, NEW set
    PROVE  /\ FromDependency(p, versions, q, set).kind = "dependency"
           /\ FromDependency(p, versions, q, set).dependency = <<p, q>>
           /\ p \in IncompatPackages(FromDependency(p, versions, q, set).terms)
           /\ set # {} => q \in IncompatPackages(FromDependency(p, versions, q, set).terms)
<1> DEFINE i == FromDependency(p, versions, q, set)
<1>1. i.terms = {<<p, Positive(versions)>>} \cup DependencyTerm(q, set)
  BY DEF FromDependency, DependencyTerm
<1>2. i.kind = "dependency" /\ i.dependency = <<p, q>>
  BY DEF FromDependency
<1>3. <<p, Positive(versions)>> \in i.terms
  BY <1>1
<1>4. set # {} => <<q, Negative(set)>> \in i.terms
  BY <1>1 DEF DependencyTerm
<1> HIDE DEF i
<1>5. \A x \in i.terms : x[1] \in IncompatPackages(i.terms)
  BY DEF IncompatPackages
<1>6. p \in IncompatPackages(i.terms)
  BY <1>3, <1>5
<1>7. set # {} => q \in IncompatPackages(i.terms)
  BY <1>4, <1>5
<1> QED BY <1>2, <1>6, <1>7 DEF i

\* Two different packages: it also says which versions and which range.
LEMMA DependencyInjective ==
    ASSUME NEW p \in Packages, NEW q \in Packages, p # q,
           NEW v1 \in Ranges, NEW set1 \in Ranges, NEW v2 \in Ranges, NEW set2 \in Ranges,
           FromDependency(p, v1, q, set1) = FromDependency(p, v2, q, set2)
    PROVE  v1 = v2 /\ set1 = set2
<1>1. Positive(v1) = Positive(v2)
  BY DependencyGet
<1>2. NegativeTerms(set1) = NegativeTerms(set2)
  BY DependencyTermsOf
<1>3. v1 = v2
  BY <1>1 DEF Positive
<1>4. set1 = set2
  <2>1. CASE set1 = {}
    BY <1>2, <2>1 DEF NegativeTerms
  <2>2. CASE set1 # {} /\ set2 # {}
    <3>1. Negative(set1) = Negative(set2)
      BY <1>2, <2>2 DEF NegativeTerms
    <3> QED BY <3>1 DEF Negative
  <2>3. CASE set1 # {} /\ set2 = {}
    BY <1>2, <2>3 DEF NegativeTerms
  <2> QED BY <2>1, <2>2, <2>3
<1> QED BY <1>3, <1>4

\* What either of two dependencies says, the merged one says.
LEMMA MergedStates ==
    ASSUME NEW i, NEW j, IsDependency(i), IsDependency(j), CanMerge(i, j),
           NEW p \in Packages, NEW v, NEW q \in Packages, NEW set \in Ranges,
           States(i, p, v, q, set) \/ States(j, p, v, q, set)
    PROVE  States(Merged(i, j), p, v, q, set)
<1>1. i.dependency = <<p, q>>
  BY DependencyOf DEF States, CanMerge
<1>2. p # q
  BY <1>1, MergedIsDependency
<1>3. PICK v1 \in Ranges, v2 \in Ranges, set1 \in Ranges : MergesTo(i, j, p, q, v1, v2, set1)
  BY <1>1, MergedIsDependency
<1>4. /\ i = FromDependency(p, v1, q, set1) /\ j = FromDependency(p, v2, q, set1)
      /\ Merged(i, j) = FromDependency(p, v1 \cup v2, q, set1)
  BY <1>3 DEF MergesTo
<1>5. PICK versions \in Ranges :
          /\ v \in versions
          /\ i = FromDependency(p, versions, q, set) \/ j = FromDependency(p, versions, q, set)
  BY DEF States
<1>6. set = set1 /\ (versions = v1 \/ versions = v2)
  BY <1>2, <1>4, <1>5, DependencyInjective
<1>7. v1 \cup v2 \in Ranges /\ v \in v1 \cup v2
  BY <1>5, <1>6 DEF Ranges
<1> QED BY <1>4, <1>6, <1>7 DEF States

\* Nothing that is listed is taken out, but for what is merged into the new
\* incompatibility.
Kept(s, id) ==
    /\ store' = s
    /\ \A p \in Packages : \A x : IsListed(incompatibilities, p, x)
                                => IsListed(incompatibilities', p, x)
    /\ \A p \in Packages : p \in IncompatPackages(s[id].terms)
                                => IsListed(incompatibilities', p, id)

Replaced(s, id, past) ==
    /\ CanMerge(s[id], s[past]) /\ IsDependency(s[id]) /\ IsDependency(s[past])
    /\ store' = Append(s, Merged(s[id], s[past]))
    /\ \A p \in Packages : \A x : x # past /\ IsListed(incompatibilities, p, x)
                                => IsListed(incompatibilities', p, x)
    /\ \A p \in Packages : p \in IncompatPackages(Merged(s[id], s[past]).terms)
                                => IsListed(incompatibilities', p, Len(s) + 1)

LEMMA MergeLists ==
    ASSUME NEW s, GoodStore(s), NEW id \in 1 .. Len(s),
           ListsIn(incompatibilities, s), MergedIn(mergedDependencies, s),
           MergeIncompatibility(s, id)
    PROVE  Kept(s, id) \/ \E past \in 1 .. Len(s) : Replaced(s, id, past)
<1>1. /\ s \in Seq(IncompatibilityType) /\ Len(s) \in Nat
      /\ s[id] \in IncompatibilityType /\ WellFormed(s[id])
  BY DEF GoodStore
<1>2. CASE Keep(s, id)
  <2>1. /\ store' = s
        /\ incompatibilities' = Register(incompatibilities, s[id].terms, id)
    BY <1>2 DEF Keep
  <2>2. IsFiniteSet(s[id].terms)
    BY <1>1 DEF WellFormed
  <2>3. ASSUME NEW p \in Packages
        PROVE  /\ \A x : IsListed(incompatibilities, p, x) => IsListed(incompatibilities', p, x)
               /\ p \in IncompatPackages(s[id].terms) => IsListed(incompatibilities', p, id)
    BY <2>1, <2>2, RegisterLists DEF ListsIn
  <2> QED BY <2>1, <2>3 DEF Kept
<1>3. ASSUME NEW k \in DOMAIN PastDependencies(s, id),
             MergesWith(s, id, PastDependencies(s, id), k), ReplacePast(s, id, k)
      PROVE  \E past \in 1 .. Len(s) : Replaced(s, id, past)
  <2>1. s[id].kind = "dependency" /\ CanMerge(s[id], s[PastDependencies(s, id)[k]])
    BY <1>3 DEF MergesWith, CanMerge
  <2>2. IsDependency(s[id]) /\ s[id].dependency \in Packages \X Packages
    BY <1>1, <2>1 DEF WellFormed, IsDependency
  <2>3. PICK pair \in Packages \X Packages : pair = s[id].dependency
    BY <2>2
  <2>4. PastDependencies(s, id) = mergedDependencies[pair] /\ mergedDependencies[pair] \in Seq(1 .. Len(s))
    BY <2>1, <2>3 DEF PastDependencies, MergedIn
  <2>5. PICK past \in 1 .. Len(s) : past = mergedDependencies[pair][k]
    BY <1>3, <2>4
  <2>6. CanMerge(s[id], s[past])
    BY <2>1, <2>4, <2>5
  <2>7. IsDependency(s[past])
    <3>1. WellFormed(s[past])
      BY DEF GoodStore
    <3> QED BY <2>6, <3>1 DEF WellFormed, CanMerge
  <2>8. PICK merged : merged = Merged(s[id], s[past])
    OBVIOUS
  <2>9. /\ store' = Append(s, merged)
        /\ incompatibilities' =
              Register(Unregister(incompatibilities, merged.terms, past), merged.terms, Len(s) + 1)
    BY <1>3, <2>3, <2>5, <2>8 DEF ReplacePast
  <2>10. IsFiniteSet(merged.terms)
    <3>1. WellFormed(merged)
      BY <2>2, <2>6, <2>7, <2>8, MergedWellFormed
    <3> QED BY <3>1 DEF WellFormed
  <2>11. PICK rest : rest = Unregister(incompatibilities, merged.terms, past)
    OBVIOUS
  <2>12. /\ rest \in [Packages -> Seq(1 .. Len(s))]
         /\ \A p \in Packages : \A x : x # past /\ IsListed(incompatibilities, p, x)
                => IsListed(rest, p, x)
    <3>1. incompatibilities \in [Packages -> Seq(1 .. Len(s))]
      BY DEF ListsIn
    <3> QED BY <2>11, <3>1, UnregisterType, UnregisterLists
  <2>13. incompatibilities' = Register(rest, merged.terms, Len(s) + 1)
    BY <2>9, <2>11
  <2>14. ASSUME NEW p \in Packages
         PROVE  /\ \A x : IsListed(rest, p, x) => IsListed(incompatibilities', p, x)
                /\ p \in IncompatPackages(merged.terms)
                      => IsListed(incompatibilities', p, Len(s) + 1)
    BY <2>10, <2>12, <2>13, RegisterLists
  <2>15. Replaced(s, id, past)
    BY <2>2, <2>6, <2>7, <2>8, <2>9, <2>12, <2>14 DEF Replaced
  <2> QED BY <2>15
<1> QED BY <1>2, <1>3 DEF MergeIncompatibility

\* The store that a merge leaves, entry by entry.
LEMMA ReplacedStore ==
    ASSUME NEW s, GoodStore(s), NEW id, NEW past, Replaced(s, id, past)
    PROVE  /\ Len(s) + 1 \in 1 .. Len(store') /\ store'[Len(s) + 1] = Merged(s[id], s[past])
           /\ \A i \in 1 .. Len(s) : i \in 1 .. Len(store') /\ store'[i] = s[i]
<1>1. s \in Seq(IncompatibilityType) /\ Len(s) \in Nat
  BY DEF GoodStore
<1>2. PICK merged : merged = Merged(s[id], s[past])
  OBVIOUS
<1>3. store' = Append(s, merged)
  BY <1>2 DEF Replaced
<1>4. /\ Len(s) + 1 \in 1 .. Len(store') /\ store'[Len(s) + 1] = merged
      /\ \A i \in 1 .. Len(s) : i \in 1 .. Len(store') /\ store'[i] = s[i]
  BY <1>1, <1>3
<1> QED BY <1>2, <1>4

\* Merging loses no dependency that is stated, and states the one merged.
LEMMA MergeStates ==
    ASSUME NEW s, GoodStore(s), NEW id \in 1 .. Len(s),
           ListsIn(incompatibilities, s), MergedIn(mergedDependencies, s),
           MergeIncompatibility(s, id),
           NEW p \in Packages, NEW v, NEW q \in Packages, NEW set \in Ranges,
           Stated(s, incompatibilities, p, v, q, set) \/ States(s[id], p, v, q, set)
    PROVE  Stated(store', incompatibilities', p, v, q, set)
<1>1. CASE Kept(s, id)
  <2>1. CASE States(s[id], p, v, q, set)
    <3>1. p \in IncompatPackages(s[id].terms)
          /\ (set # {} => q \in IncompatPackages(s[id].terms))
      BY <2>1, DependencyOf DEF States
    <3>2. store' = s /\ IsListed(incompatibilities', p, id)
          /\ (set # {} => IsListed(incompatibilities', q, id))
      BY <1>1, <3>1 DEF Kept
    <3> QED BY <2>1, <3>2 DEF Stated
  <2>2. CASE Stated(s, incompatibilities, p, v, q, set)
    <3>1. PICK x \in 1 .. Len(s) : /\ States(s[x], p, v, q, set)
                                   /\ IsListed(incompatibilities, p, x)
                                   /\ set # {} => IsListed(incompatibilities, q, x)
      BY <2>2 DEF Stated
    <3>2. store' = s /\ IsListed(incompatibilities', p, x)
          /\ (set # {} => IsListed(incompatibilities', q, x))
      BY <1>1, <3>1 DEF Kept
    <3> QED BY <3>1, <3>2 DEF Stated
  <2> QED BY <2>1, <2>2
<1>2. ASSUME NEW past \in 1 .. Len(s), Replaced(s, id, past)
      PROVE  Stated(store', incompatibilities', p, v, q, set)
  <2>1. /\ Len(s) + 1 \in 1 .. Len(store') /\ store'[Len(s) + 1] = Merged(s[id], s[past])
        /\ \A i \in 1 .. Len(s) : i \in 1 .. Len(store') /\ store'[i] = s[i]
    BY <1>2, ReplacedStore
  <2>2. CASE States(s[id], p, v, q, set) \/ States(s[past], p, v, q, set)
    <3>1. States(Merged(s[id], s[past]), p, v, q, set)
      BY <1>2, <2>2, MergedStates DEF Replaced
    <3>2. p \in IncompatPackages(Merged(s[id], s[past]).terms)
          /\ (set # {} => q \in IncompatPackages(Merged(s[id], s[past]).terms))
      BY <3>1, DependencyOf DEF States
    <3>3. IsListed(incompatibilities', p, Len(s) + 1)
          /\ (set # {} => IsListed(incompatibilities', q, Len(s) + 1))
      BY <1>2, <3>2 DEF Replaced
    <3> QED BY <2>1, <3>1, <3>3 DEF Stated
  <2>3. ASSUME NEW x \in 1 .. Len(s), x # past, States(s[x], p, v, q, set),
               IsListed(incompatibilities, p, x),
               set # {} => IsListed(incompatibilities, q, x)
        PROVE  Stated(store', incompatibilities', p, v, q, set)
    <3>1. IsListed(incompatibilities', p, x) /\ (set # {} => IsListed(incompatibilities', q, x))
      BY <1>2, <2>3 DEF Replaced
    <3> QED BY <2>1, <2>3, <3>1 DEF Stated
  <2> QED BY <2>2, <2>3 DEF Stated
<1> QED BY <1>1, <1>2, MergeLists

\* The same of a version that is excluded.
LEMMA MergeExcludes ==
    ASSUME NEW s, GoodStore(s), NEW id \in 1 .. Len(s),
           ListsIn(incompatibilities, s), MergedIn(mergedDependencies, s),
           MergeIncompatibility(s, id), NEW p \in Packages, NEW v,
           Excluded(s, incompatibilities, p, v) \/ s[id] = CustomVersion(p, v)
    PROVE  Excluded(store', incompatibilities', p, v)
<1>1. /\ CustomVersion(p, v).kind = "custom"
      /\ p \in IncompatPackages(CustomVersion(p, v).terms)
  BY DEF CustomVersion, External, IncompatPackages
<1>2. CASE Kept(s, id)
  <2>1. CASE s[id] = CustomVersion(p, v)
    <3>1. IsListed(incompatibilities', p, id) /\ store' = s
      BY <1>1, <1>2, <2>1 DEF Kept
    <3> QED BY <2>1, <3>1 DEF Excluded
  <2>2. CASE Excluded(s, incompatibilities, p, v)
    BY <1>2, <2>2 DEF Kept, Excluded
  <2> QED BY <2>1, <2>2
<1>3. ASSUME NEW past \in 1 .. Len(s), Replaced(s, id, past)
      PROVE  Excluded(store', incompatibilities', p, v)
  <2>1. s[id].kind = "dependency" /\ s[past].kind = "dependency"
    BY <1>3 DEF Replaced, CanMerge
  <2>2. PICK x \in 1 .. Len(s) : s[x] = CustomVersion(p, v) /\ IsListed(incompatibilities, p, x)
    BY <1>1, <2>1 DEF Excluded
  <2>3. x # past
    BY <1>1, <2>1, <2>2
  <2>4. IsListed(incompatibilities', p, x)
    BY <1>3, <2>2, <2>3 DEF Replaced
  <2>5. x \in 1 .. Len(store') /\ store'[x] = s[x]
    BY <1>3, ReplacedStore
  <2> QED BY <2>2, <2>4, <2>5 DEF Excluded
<1> QED BY <1>2, <1>3, MergeLists

\* What is stated stays so when the store grows.
LEMMA StatedInExtension ==
    ASSUME NEW s, NEW t, Len(s) \in Nat, Len(t) \in Nat, StoreExtends(s, t), NEW lists,
           NEW p, NEW v
    PROVE  /\ \A q, set : Stated(s, lists, p, v, q, set) => Stated(t, lists, p, v, q, set)
           /\ Excluded(s, lists, p, v) => Excluded(t, lists, p, v)
<1>1. \A id \in 1 .. Len(s) : id \in 1 .. Len(t) /\ t[id] = s[id]
  BY DEF StoreExtends
<1> QED BY <1>1 DEF Stated, Excluded

-----------------------------------------------------------------------------
(* What get_dependencies answered is in the store *)

\* The dependencies of a version, as the provider lists them.
LEMMA DependencyParts ==
    ASSUME Invariant, NEW p \in Packages, NEW v \in Versions,
           NEW i \in DOMAIN registry[p][v].dependencies
    PROVE  /\ registry[p][v].dependencies[i][1] \in Packages
           /\ registry[p][v].dependencies[i][2] \in Ranges
           /\ registry[p][v].status = "available"
<1>1. registry \in RegistryType
  BY InvariantParts, RegistriesAssumption DEF SolverTypeOK
<1>2. registry[p][v] \in RegistryEntry
  BY <1>1 DEF RegistryType
<1>3. registry[p][v].dependencies \in Seq(Packages \X SUBSET Versions)
  BY <1>2 DEF RegistryEntry
<1>4. registry[p][v].dependencies[i] \in Packages \X SUBSET Versions
  BY <1>3
<1>5. registry[p][v].status = "available"
  BY <1>2 DEF RegistryEntry
<1> QED BY <1>4, <1>5 DEF Ranges

\* A step that states what was pending and forgets nothing.
LEMMA AddedCarry ==
    ASSUME Invariant, registry' = registry,
           \A p \in Packages, v \in Versions, q \in Packages, set \in Ranges :
               Stated(store, incompatibilities, p, v, q, set) \/ MergePending(p, v, q, set)
                   => \/ Stated(store', incompatibilities', p, v, q, set)
                      \/ MergePending(p, v, q, set)',
           \A p \in Packages, v \in Versions :
               Excluded(store, incompatibilities, p, v)
                   => Excluded(store', incompatibilities', p, v),
           NEW p \in Packages, NEW v \in Versions, AddedAt(p, v)
    PROVE  AddedAt(p, v)'
<1>1. CASE registry[p][v].status = "available"
  <2>1. ASSUME NEW i \in DOMAIN registry[p][v].dependencies,
               NEW q, q = registry[p][v].dependencies[i][1],
               NEW set, set = registry[p][v].dependencies[i][2]
        PROVE  \/ Stated(store', incompatibilities', p, v, q, set)
               \/ MergePending(p, v, q, set)'
    <3>1. q \in Packages /\ set \in Ranges
      BY <2>1, DependencyParts
    <3>2. Stated(store, incompatibilities, p, v, q, set) \/ MergePending(p, v, q, set)
      BY <1>1, <2>1 DEF AddedAt
    <3> QED BY <3>1, <3>2
  <2>2. \A i \in DOMAIN registry'[p][v].dependencies :
           \/ Stated(store', incompatibilities', p, v, registry'[p][v].dependencies[i][1],
                     registry'[p][v].dependencies[i][2])
           \/ MergePending(p, v, registry[p][v].dependencies[i][1],
                           registry[p][v].dependencies[i][2])'
    BY <2>1
  <2> QED BY <1>1, <2>2 DEF AddedAt
<1>2. CASE registry[p][v].status # "available"
  BY <1>2 DEF AddedAt
<1> QED BY <1>1, <1>2

\* The parts of AddedStated a step is asked for.
LEMMA AddedEach ==
    ASSUME Invariant, AddedStated, NEW pv \in addedDependencies
    PROVE  pv[1] \in Packages /\ pv[2] \in Versions /\ AddedAt(pv[1], pv[2])
BY InvariantParts DEF AddedStated, SolverTypeOK

\* A step that leaves the lists and the versions that were asked for.
LEMMA AddedQuiet ==
    ASSUME Invariant, AddedStated, [Next]_vars,
           UNCHANGED <<incompatibilities, registry, addedDependencies>>,
           pc = "merge" => UNCHANGED <<next, chosen, pending>> /\ (pc' = "merge" \/ pending = << >>)
    PROVE  AddedStated'
<1>1. StoreExtends(store, store') /\ Len(store) \in Nat /\ Len(store') \in Nat
  BY StepExtends DEF GoodStore
<1>2. ASSUME NEW p \in Packages, NEW v \in Versions, NEW q \in Packages, NEW set \in Ranges,
             Stated(store, incompatibilities, p, v, q, set)
      PROVE  Stated(store', incompatibilities', p, v, q, set)
  BY <1>1, <1>2, StatedInExtension
<1>3. ASSUME NEW p \in Packages, NEW v \in Versions, NEW q \in Packages, NEW set \in Ranges,
             MergePending(p, v, q, set)
      PROVE  MergePending(p, v, q, set)'
  <2>1. /\ pc = "merge" /\ p = next /\ v = chosen
        /\ \E i \in DOMAIN pending : store[pending[i]] = FromDependency(p, {v}, q, set)
    BY <1>3 DEF MergePending
  <2>2. pending # << >> /\ pending \in Seq(Ids)
    BY <2>1, InvariantParts DEF SolverTypeOK
  <2>3. \A i \in DOMAIN pending : store'[pending[i]] = store[pending[i]]
    BY <1>1, <2>2 DEF StoreExtends, Ids
  <2> QED BY <2>1, <2>2, <2>3 DEF MergePending
<1>4. \A p \in Packages, v \in Versions :
          Excluded(store, incompatibilities, p, v) => Excluded(store', incompatibilities', p, v)
  BY <1>1, StatedInExtension
<1>5. ASSUME NEW pv \in addedDependencies
      PROVE  AddedAt(pv[1], pv[2])'
  BY <1>2, <1>3, <1>4, <1>5, AddedEach, AddedCarry
<1> QED BY <1>5 DEF AddedStated

\* The lists hold ids of every longer store.
LEMMA ListsExtend ==
    ASSUME Invariant, NEW s, GoodStore(s), StoreExtends(store, s)
    PROVE  /\ Len(store) \in Nat /\ Len(s) \in Nat
           /\ ListsIn(incompatibilities, s) /\ MergedIn(mergedDependencies, s)
<1>1. /\ GoodStore(store) /\ Len(store) \in Nat /\ Len(s) \in Nat
      /\ ListsIn(incompatibilities, store) /\ MergedIn(mergedDependencies, store)
  BY InvariantParts DEF GoodStore
<1>2. 1 .. Len(store) \subseteq 1 .. Len(s)
  BY <1>1 DEF StoreExtends
<1>3. \A ids \in Seq(1 .. Len(store)) : ids \in Seq(1 .. Len(s))
  BY <1>2, SeqMonotonic
<1>4. ListsIn(incompatibilities, s)
  BY <1>1, <1>3 DEF ListsIn
<1>5. MergedIn(mergedDependencies, s)
  BY <1>1, <1>3 DEF MergedIn
<1> QED BY <1>1, <1>4, <1>5

\* A step that merges an incompatibility into the store s.
LEMMA AddedMerge ==
    ASSUME Invariant, AddedStated, registry' = registry,
           NEW s, GoodStore(s), StoreExtends(store, s), NEW id \in 1 .. Len(s),
           MergeIncompatibility(s, id),
           \A p \in Packages, v \in Versions, q \in Packages, set \in Ranges :
               MergePending(p, v, q, set) => \/ Stated(store', incompatibilities', p, v, q, set)
                                             \/ MergePending(p, v, q, set)'
    PROVE  \A pv \in addedDependencies : AddedAt(pv[1], pv[2])'
<1>1. /\ GoodStore(store) /\ Len(store) \in Nat /\ Len(s) \in Nat
      /\ ListsIn(incompatibilities, s) /\ MergedIn(mergedDependencies, s)
  BY InvariantParts, ListsExtend
<1>2. ASSUME NEW p \in Packages, NEW v \in Versions, NEW q \in Packages, NEW set \in Ranges,
             Stated(store, incompatibilities, p, v, q, set)
      PROVE  Stated(store', incompatibilities', p, v, q, set)
  <2>1. Stated(s, incompatibilities, p, v, q, set)
    BY <1>1, <1>2, StatedInExtension
  <2> QED BY <1>1, <2>1, MergeStates
<1>3. ASSUME NEW p \in Packages, NEW v \in Versions, Excluded(store, incompatibilities, p, v)
      PROVE  Excluded(store', incompatibilities', p, v)
  <2>1. Excluded(s, incompatibilities, p, v)
    BY <1>1, <1>3, StatedInExtension
  <2> QED BY <1>1, <2>1, MergeExcludes
<1>4. ASSUME NEW pv \in addedDependencies
      PROVE  AddedAt(pv[1], pv[2])'
  BY <1>2, <1>3, <1>4, AddedEach, AddedCarry
<1> QED BY <1>4

\* What a refused version or range is stored as.
LEMMA RefusedWellFormed ==
    ASSUME Invariant, pc = "choose"
    PROVE  /\ NoVersions(next, Positive(CurrentRange)) \in IncompatibilityType
           /\ WellFormed(NoVersions(next, Positive(CurrentRange)))
           /\ \A v \in VersionChoices : /\ CustomVersion(next, v) \in IncompatibilityType
                                        /\ WellFormed(CustomVersion(next, v))
<1>1. next \in Packages /\ CurrentRange \in SUBSET Versions /\ VersionChoices \subseteq Versions
  BY ChoiceMade
<1>2. "no_versions" \in Kinds \ {"dependency"} /\ "custom" \in Kinds \ {"dependency"}
  BY DEF Kinds
<1>3. /\ Positive(CurrentRange) \in TermType /\ Positive(CurrentRange) # AnyTerm
      /\ \A v \in VersionChoices : Exact(v) \in TermType /\ Exact(v) # AnyTerm
  BY <1>1 DEF Positive, TermType, AnyTerm, Negative, Exact
<1> QED BY <1>1, <1>2, <1>3, ExternalWellFormed DEF NoVersions, CustomVersion

\* Allocating an incompatibility.
LEMMA AppendGood ==
    ASSUME Invariant, NEW new \in IncompatibilityType, WellFormed(new)
    PROVE  /\ GoodStore(Append(store, new)) /\ StoreExtends(store, Append(store, new))
           /\ Len(store) + 1 \in 1 .. Len(Append(store, new))
           /\ Append(store, new)[Len(store) + 1] = new
<1>1. store \in Seq(IncompatibilityType) /\ \A id \in 1 .. Len(store) : WellFormed(store[id])
  BY InvariantParts DEF GoodStore
<1>2. PICK s : s = Append(store, new)
  OBVIOUS
<1>3. /\ s \in Seq(IncompatibilityType) /\ Len(s) = Len(store) + 1 /\ Len(store) \in Nat
      /\ s[Len(store) + 1] = new /\ \A id \in 1 .. Len(store) : s[id] = store[id]
  BY <1>1, <1>2
<1>4. \A id \in 1 .. Len(s) : id \in 1 .. Len(store) \/ id = Len(store) + 1
  BY <1>3
<1>5. GoodStore(s)
  BY <1>1, <1>3, <1>4 DEF GoodStore
<1>6. StoreExtends(store, s)
  BY <1>3 DEF StoreExtends
<1> QED BY <1>2, <1>3, <1>5, <1>6

\* choose_version finds nothing: a new incompatibility is merged.
LEMMA AddedChooseNone ==
    ASSUME Invariant, AddedStated, ChooseNone
    PROVE  AddedStated'
<1>1. PICK new : new = NoVersions(next, Positive(CurrentRange))
  OBVIOUS
<1>2. new \in IncompatibilityType /\ WellFormed(new)
  BY <1>1, RefusedWellFormed DEF ChooseNone
<1>3. PICK s : s = Append(store, new)
  OBVIOUS
<1>4. GoodStore(s) /\ StoreExtends(store, s) /\ Len(store) + 1 \in 1 .. Len(s)
  BY <1>2, <1>3, AppendGood
<1>5. MergeIncompatibility(s, Len(store) + 1)
  BY <1>1, <1>3 DEF ChooseNone, AddIncompatibility
<1>6. registry' = registry /\ addedDependencies' = addedDependencies /\ pc # "merge"
  BY DEF ChooseNone
<1>7. \A p \in Packages, v \in Versions, q \in Packages, set \in Ranges :
          ~MergePending(p, v, q, set)
  BY <1>6 DEF MergePending
<1> QED BY <1>4, <1>5, <1>6, <1>7, AddedMerge DEF AddedStated

\* get_dependencies answers Unavailable: the version is excluded.
LEMMA AddedChooseUnavailable ==
    ASSUME Invariant, AddedStated, ChooseUnavailable
    PROVE  AddedStated'
<1>1. PICK v \in VersionChoices :
          /\ registry[next][v].status = "unavailable"
          /\ AddIncompatibility(CustomVersion(next, v))
          /\ addedDependencies' = addedDependencies \cup {<<next, v>>}
  BY DEF ChooseUnavailable
<1>2. PICK new : new = CustomVersion(next, v)
  OBVIOUS
<1>3. new \in IncompatibilityType /\ WellFormed(new) /\ next \in Packages /\ v \in Versions
  BY <1>2, RefusedWellFormed, ChoiceMade DEF ChooseUnavailable
<1>4. PICK s : s = Append(store, new)
  OBVIOUS
<1>5. /\ GoodStore(s) /\ StoreExtends(store, s) /\ Len(store) + 1 \in 1 .. Len(s)
      /\ s[Len(store) + 1] = new
  BY <1>3, <1>4, AppendGood
<1>6. MergeIncompatibility(s, Len(store) + 1)
  BY <1>1, <1>2, <1>4 DEF AddIncompatibility
<1>7. registry' = registry /\ pc # "merge"
  BY DEF ChooseUnavailable
<1>8. \A p \in Packages, u \in Versions, q \in Packages, set \in Ranges :
          ~MergePending(p, u, q, set)
  BY <1>7 DEF MergePending
<1>9. \A pv \in addedDependencies : AddedAt(pv[1], pv[2])'
  BY <1>5, <1>6, <1>7, <1>8, AddedMerge
<1>10. ListsIn(incompatibilities, s) /\ MergedIn(mergedDependencies, s)
  BY <1>5, ListsExtend
<1>11. Excluded(store', incompatibilities', next, v)
  BY <1>2, <1>3, <1>5, <1>6, <1>10, MergeExcludes
<1>12. PICK p : p = next
  OBVIOUS
<1>13. AddedAt(p, v)'
  BY <1>1, <1>7, <1>11, <1>12 DEF AddedAt
<1>14. \A pv \in addedDependencies' : pv \in addedDependencies \/ pv = <<p, v>>
  BY <1>1, <1>12
<1> QED BY <1>9, <1>13, <1>14 DEF AddedStated

\* get_dependencies answers Available: the dependencies are allocated.
LEMMA AddedChooseNew ==
    ASSUME Invariant, AddedStated, [Next]_vars, ChooseNew
    PROVE  AddedStated' /\ FreshOfChosen'
<1>1. PICK v \in VersionChoices :
          /\ registry[next][v].status = "available"
          /\ store' = store \o DependencyIncompats(next, v, registry[next][v].dependencies)
          /\ addedDependencies' = addedDependencies \cup {<<next, v>>}
          /\ chosen' = v
          /\ fresh' = AllocatedIds(DependencyIncompats(next, v, registry[next][v].dependencies))
          /\ pending' = fresh'
  BY DEF ChooseNew
<1>2. v \in Versions /\ next \in Packages /\ registry \in RegistryType
      /\ next \in DOMAIN assignments
  BY ChoiceMade DEF ChooseNew
<1>3. PICK new : new = DependencyIncompats(next, v, registry[next][v].dependencies)
  OBVIOUS
<1>4. /\ new \in Seq(IncompatibilityType) /\ DOMAIN new = DOMAIN registry[next][v].dependencies
      /\ \A i \in DOMAIN new :
            new[i] = FromDependency(next, {v}, registry[next][v].dependencies[i][1],
                                    registry[next][v].dependencies[i][2])
  BY <1>2, <1>3, DependencyIncompatsKeep DEF DependencyIncompats
<1>5. store \in Seq(IncompatibilityType) /\ Len(store) \in Nat /\ store' = store \o new
  BY <1>1, <1>3, InvariantParts DEF GoodStore
<1>6. /\ DOMAIN fresh' = DOMAIN new /\ pending' = fresh'
      /\ \A i \in DOMAIN new : fresh'[i] = Len(store) + i
  BY <1>1, <1>3 DEF AllocatedIds
<1>7. \A i \in DOMAIN new : store'[Len(store) + i] = new[i]
  BY <1>4, <1>5
<1>8. /\ UNCHANGED <<next, registry, incompatibilities, assignments>>
      /\ pc = "choose" /\ pc' = "merge"
  BY DEF ChooseNew, psVars
<1>9. FreshOfChosen'
  <2>1. \A i \in DOMAIN fresh' : i \in DOMAIN registry'[next'][chosen'].dependencies /\
            store'[fresh'[i]] = FromDependency(next', {chosen'},
                                   registry'[next'][chosen'].dependencies[i][1],
                                   registry'[next'][chosen'].dependencies[i][2])
    BY <1>1, <1>4, <1>6, <1>7, <1>8
  <2>2. v \in CurrentRange /\ CurrentRange' = CurrentRange
    BY <1>1, <1>8 DEF VersionChoices, Candidates, CurrentRange
  <2> QED BY <1>1, <1>2, <1>8, <2>1, <2>2 DEF FreshOfChosen
<1>10. ASSUME NEW pv \in addedDependencies
       PROVE  AddedAt(pv[1], pv[2])'
  <2>1. StoreExtends(store, store') /\ Len(store) \in Nat /\ Len(store') \in Nat
    BY StepExtends DEF GoodStore
  <2>2. \A p \in Packages, u \in Versions :
            /\ \A q \in Packages, set \in Ranges : Stated(store, incompatibilities, p, u, q, set)
                  => Stated(store', incompatibilities', p, u, q, set)
            /\ Excluded(store, incompatibilities, p, u)
                  => Excluded(store', incompatibilities', p, u)
    BY <1>8, <2>1, StatedInExtension
  <2>3. \A p \in Packages, u \in Versions, q \in Packages, set \in Ranges :
            ~MergePending(p, u, q, set)
    BY <1>8 DEF MergePending
  <2> QED BY <1>8, <2>2, <2>3, AddedEach, AddedCarry
<1>11. PICK p : p = next
  OBVIOUS
<1>12. AddedAt(p, v)'
  <2>1. ASSUME NEW i \in DOMAIN registry[p][v].dependencies
        PROVE  MergePending(p, v, registry[p][v].dependencies[i][1],
                            registry[p][v].dependencies[i][2])'
    <3>1. store'[pending'[i]] = FromDependency(p, {v}, registry[p][v].dependencies[i][1],
                                               registry[p][v].dependencies[i][2])
      BY <1>4, <1>6, <1>7, <1>11
    <3> QED BY <1>1, <1>4, <1>6, <1>8, <1>11, <3>1 DEF MergePending
  <2> QED BY <1>1, <1>8, <1>11, <2>1 DEF AddedAt
<1>13. \A pv \in addedDependencies' : pv \in addedDependencies \/ pv = <<p, v>>
  BY <1>1, <1>11
<1> QED BY <1>9, <1>10, <1>12, <1>13 DEF AddedStated

\* A dependency is merged: what was pending is stated or still pending.
LEMMA AddedMergeDependency ==
    ASSUME Invariant, AddedStated, MergeDependency
    PROVE  AddedStated'
<1>1. /\ pc = "merge" /\ pc' = "merge" /\ pending # << >> /\ pending' = Tail(pending)
      /\ MergeIncompatibility(store, Head(pending))
      /\ UNCHANGED <<next, chosen, registry, addedDependencies>>
  BY DEF MergeDependency
<1>2. pending \in Seq(Ids) /\ GoodStore(store)
  BY InvariantParts DEF SolverTypeOK
<1>3. Head(pending) \in 1 .. Len(store) /\ StoreExtends(store, store)
  BY <1>1, <1>2 DEF Ids, StoreExtends, GoodStore
<1>4. /\ ListsIn(incompatibilities, store) /\ MergedIn(mergedDependencies, store)
      /\ StoreExtends(store, store')
  <2>1. ListsIn(incompatibilities, store) /\ MergedIn(mergedDependencies, store)
    BY InvariantParts
  <2> QED BY <1>1, <1>2, <1>3, <2>1, MergeWellFormed
<1>5. ASSUME NEW p \in Packages, NEW v \in Versions, NEW q \in Packages, NEW set \in Ranges,
             MergePending(p, v, q, set)
      PROVE  Stated(store', incompatibilities', p, v, q, set) \/ MergePending(p, v, q, set)'
  <2>1. p = next /\ v = chosen
    BY <1>5 DEF MergePending
  <2>2. PICK i \in DOMAIN pending : store[pending[i]] = FromDependency(p, {v}, q, set)
    BY <1>5 DEF MergePending
  <2>3. CASE i = 1
    <3>1. store[Head(pending)] = FromDependency(p, {v}, q, set)
      BY <1>1, <1>2, <2>2, <2>3
    <3>2. {v} \in Ranges /\ v \in {v}
      BY DEF Ranges
    <3>3. States(store[Head(pending)], p, v, q, set)
      BY <3>1, <3>2 DEF States
    <3> QED BY <1>1, <1>2, <1>3, <1>4, <3>3, MergeStates
  <2>4. CASE i # 1
    <3>1. i - 1 \in DOMAIN pending' /\ pending'[i - 1] = pending[i] /\ pending[i] \in Ids
      <4>1. /\ DOMAIN pending = 1 .. Len(pending) /\ Len(pending) \in Nat
            /\ i - 1 \in 1 .. Len(pending) - 1 /\ pending[i] \in Ids
        BY <1>2, <2>2, <2>4
      <4>2. /\ Len(Tail(pending)) = Len(pending) - 1
            /\ DOMAIN Tail(pending) = 1 .. Len(pending) - 1
            /\ Tail(pending)[i - 1] = pending[(i - 1) + 1]
        BY <1>1, <1>2, <4>1
      <4> QED BY <1>1, <4>1, <4>2
    <3>2. store'[pending'[i - 1]] = FromDependency(p, {v}, q, set)
      BY <1>4, <2>2, <3>1 DEF StoreExtends, Ids
    <3> QED BY <1>1, <2>1, <3>1, <3>2 DEF MergePending
  <2> QED BY <2>3, <2>4
<1> QED BY <1>1, <1>2, <1>3, <1>5, AddedMerge DEF AddedStated

\* The root cause is merged when the solver goes back.
LEMMA AddedBacktrack ==
    ASSUME Invariant, AddedStated, [Next]_vars, BacktrackFromConflict
    PROVE  AddedStated'
<1>1. /\ pc = "conflict" /\ UNCHANGED <<registry, addedDependencies>>
      /\ \/ MergeIncompatibility(store, conflict)
         \/ UNCHANGED <<store, incompatibilities, mergedDependencies>>
  BY DEF BacktrackFromConflict, BacktrackFrom, Resolving
<1>2. \A p \in Packages, v \in Versions, q \in Packages, set \in Ranges :
          ~MergePending(p, v, q, set)
  BY <1>1 DEF MergePending
<1>3. CASE MergeIncompatibility(store, conflict)
  <2>1. GoodStore(store) /\ StoreExtends(store, store) /\ conflict \in 1 .. Len(store)
    BY InvariantParts DEF SolverTypeOK, Ids, StoreExtends, GoodStore
  <2> QED BY <1>1, <1>2, <1>3, <2>1, AddedMerge DEF AddedStated
<1>4. CASE UNCHANGED <<store, incompatibilities, mergedDependencies>>
  BY <1>1, <1>4, AddedQuiet
<1> QED BY <1>1, <1>3, <1>4

\* Whatever step is taken.
LEMMA AddedStatedStep ==
    ASSUME Invariant, AddedStated, [Next]_vars
    PROVE  AddedStated'
<1>1. CASE ChooseNone
  BY <1>1, AddedChooseNone
<1>2. CASE ChooseUnavailable
  BY <1>2, AddedChooseUnavailable
<1>3. CASE ChooseNew
  BY <1>3, AddedChooseNew
<1>4. CASE MergeDependency
  BY <1>4, AddedMergeDependency
<1>5. CASE BacktrackFromConflict
  BY <1>5, AddedBacktrack
<1>6. CASE ResolveConflict
  <2>1. pc = "conflict" /\ UNCHANGED <<incompatibilities, registry, addedDependencies>>
    BY <1>6 DEF ResolveConflict, ResolveWithCause, Resolving
  <2> QED BY <2>1, AddedQuiet
<1>7. CASE EndMerge
  BY <1>7, AddedQuiet DEF EndMerge, coreVars
<1>8. CASE Learn \/ ScanAlmostSatisfied \/ ScanContradicted \/ ScanInconclusive
  BY <1>8, AddedQuiet DEF Learn, LearnRootCause, ScanAlmostSatisfied, ScanContradicted,
        ScanInconclusive, PropagateAlmostSatisfied, FindContradicted, FindInconclusive,
        Scanning, coreVars
<1>9. CASE \/ Cancel \/ StartPropagation \/ PopPackage \/ EndPropagation
           \/ SkipContradicted \/ ScanConflict \/ EndScan \/ FailTerminal
  BY <1>9, AddedQuiet DEF Cancel, StartPropagation, PopPackage, EndPropagation,
        SkipContradicted, ScanConflict, EndScan, FailTerminal, Scanning, coreVars
<1>10. CASE ReturnSolution \/ Pick \/ ProviderError \/ ChooseKnown \/ Accept \/ Reject
  BY <1>10, AddedQuiet DEF ReturnSolution, Pick, ProviderError, ChooseKnown, Accept, Reject,
        coreVars
<1>11. CASE Terminated \/ UNCHANGED vars
  BY <1>11, AddedQuiet DEF Terminated, vars, coreVars, solverVars
<1> QED BY <1>1, <1>2, <1>3, <1>4, <1>5, <1>6, <1>7, <1>8, <1>9, <1>10, <1>11 DEF Next

\* The version being decided is the one whose dependencies were added.
LEMMA FreshOfChosenStep ==
    ASSUME Invariant, AddedStated, FreshOfChosen, [Next]_vars
    PROVE  FreshOfChosen'
<1>1. CASE ChooseNew
  BY <1>1, AddedChooseNew
<1>2. CASE MergeDependency \/ EndMerge \/ UNCHANGED vars
  <2>1. /\ UNCHANGED <<next, chosen, fresh, registry, addedDependencies, assignments>>
        /\ pc' \in {"merge", "decide"} => pc \in {"merge", "decide"}
    BY <1>2 DEF MergeDependency, EndMerge, vars, psVars, solverVars
  <2>2. StoreExtends(store, store') /\ fresh \in Seq(Ids)
    BY StepExtends, InvariantParts DEF SolverTypeOK
  <2>3. \A i \in DOMAIN fresh : store'[fresh[i]] = store[fresh[i]]
    BY <2>2 DEF StoreExtends, Ids
  <2> QED BY <2>1, <2>3 DEF FreshOfChosen, CurrentRange
<1>3. CASE pc' \notin {"merge", "decide"}
  BY <1>3 DEF FreshOfChosen
<1>4. \/ ChooseNew \/ MergeDependency \/ EndMerge \/ UNCHANGED vars
      \/ pc' \notin {"merge", "decide"}
  <2>1. Cancel \/ StartPropagation \/ PopPackage \/ EndPropagation => pc' \notin {"merge", "decide"}
    BY DEF Cancel, StartPropagation, PopPackage, EndPropagation
  <2>2. \/ SkipContradicted \/ ScanConflict \/ ScanAlmostSatisfied
        \/ ScanContradicted \/ ScanInconclusive \/ EndScan
        => pc' \notin {"merge", "decide"}
    BY DEF SkipContradicted, ScanConflict, ScanAlmostSatisfied,
           ScanContradicted, ScanInconclusive, EndScan, Scanning
  <2>3. FailTerminal \/ ResolveConflict \/ BacktrackFromConflict \/ Learn
        => pc' \notin {"merge", "decide"}
    BY DEF FailTerminal, ResolveConflict, BacktrackFromConflict, Resolving, Learn
  <2>4. \/ ReturnSolution \/ Pick \/ ProviderError \/ ChooseNone \/ ChooseUnavailable
        \/ ChooseKnown \/ Accept \/ Reject
        => pc' \notin {"merge", "decide"}
    BY DEF ReturnSolution, Pick, ProviderError, ChooseNone, ChooseUnavailable,
           ChooseKnown, Accept, Reject
  <2> QED BY <2>1, <2>2, <2>3, <2>4 DEF Next, Terminated
<1> QED BY <1>1, <1>2, <1>3, <1>4

\* What states a dependency, get finds the version in.
LEMMA StatedRecorded ==
    ASSUME Invariant, NEW p \in Packages, NEW v \in Versions, NEW q \in Packages,
           NEW set \in Ranges, Stated(store, incompatibilities, p, v, q, set)
    PROVE  DependencyRecorded(p, v, q, set)
<1>1. PICK id \in Ids : /\ States(store[id], p, v, q, set)
                        /\ IsListed(incompatibilities, p, id)
                        /\ set # {} => IsListed(incompatibilities, q, id)
  BY DEF Stated, Ids
<1>2. PICK versions \in Ranges : v \in versions /\ store[id] = FromDependency(p, versions, q, set)
  BY <1>1 DEF States
<1>3. /\ store[id].kind = "dependency" /\ store[id].dependency = <<p, q>>
      /\ store[id].terms = {<<p, Positive(versions)>>} \cup DependencyTerm(q, set)
  BY <1>2, DependencyOf DEF FromDependency, DependencyTerm
<1>4. IsDependency(store[id]) /\ store[id].terms \in TermsType
  BY <1>3, StoreEntry DEF WellFormed
<1>5. CASE set = {}
  <2>1. store[id].terms = {<<p, Positive(versions)>>}
    BY <1>3, <1>5 DEF DependencyTerm
  <2>2. PICK x : x = <<p, Positive(versions)>>
    OBVIOUS
  <2>3. Get(store[id].terms, p) = Positive(versions)
    BY <1>4, <2>1, <2>2, GetOnly DEF OneTermPerPackage
  <2>4. v \in Get(store[id].terms, p).set
    BY <1>2, <2>3 DEF Positive
  <2>5. IncompatPackages(store[id].terms) = {p}
    BY <2>1 DEF IncompatPackages
  <2> QED BY <1>1, <1>3, <1>5, <2>4, <2>5 DEF DependencyRecorded, ListedWith, IsListed
<1>6. CASE set # {}
  <2>1. <<q, Negative(set)>> \in store[id].terms
    BY <1>3, <1>6 DEF DependencyTerm
  <2>2. CASE p # q
    <3>1. Get(store[id].terms, p) = Positive(versions)
      BY <1>2, <2>2, DependencyGet
    <3>2. v \in Get(store[id].terms, p).set
      BY <1>2, <3>1 DEF Positive
    <3> QED BY <1>1, <1>3, <1>6, <2>1, <3>2 DEF DependencyRecorded, ListedWith, IsListed
  <2>3. CASE p = q
    <3>1. PICK others \in Ranges, set2 \in Ranges, u \in Versions :
              store[id] = FromDependency(p, others, p, set2) /\ others = {u}
      BY <1>3, <1>4, <2>3 DEF IsDependency
    <3>2. <<p, Positive(others)>> \in store[id].terms
      BY <3>1 DEF FromDependency
    <3>3. <<p, Positive(others)>> = <<p, Positive(versions)>>
      <4>1. Positive(others) # Negative(set)
        BY DEF Positive, Negative
      <4> QED BY <1>3, <3>2, <4>1 DEF DependencyTerm
    <3>4. others = versions
      BY <3>3 DEF Positive
    <3>5. versions = {v}
      BY <1>2, <3>1, <3>4
    <3>6. store[id].terms = SelfTerms(p, v, set)
      BY <1>3, <1>6, <2>3, <3>5 DEF SelfTerms, DependencyTerm
    <3>7. Get(store[id].terms, p) = Positive({v})
      BY <3>6, GetSelf DEF Ranges
    <3>8. v \in Get(store[id].terms, p).set
      BY <3>7 DEF Positive
    <3> QED BY <1>1, <1>3, <1>6, <2>1, <3>8 DEF DependencyRecorded, ListedWith, IsListed
  <2> QED BY <2>2, <2>3
<1> QED BY <1>5, <1>6

LEMMA AddedRecorded ==
    ASSUME Invariant, AddedStated
    PROVE  DependenciesRecorded
<1> SUFFICES ASSUME pc # "merge", NEW pv \in addedDependencies,
                    NEW i \in DOMAIN registry[pv[1]][pv[2]].dependencies
             PROVE  DependencyRecorded(pv[1], pv[2], registry[pv[1]][pv[2]].dependencies[i][1],
                                       registry[pv[1]][pv[2]].dependencies[i][2])
  BY DEF DependenciesRecorded
<1>1. PICK p \in Packages, v \in Versions : p = pv[1] /\ v = pv[2] /\ AddedAt(p, v)
  BY AddedEach
<1>2. PICK q \in Packages, set \in Ranges :
          /\ q = registry[p][v].dependencies[i][1] /\ set = registry[p][v].dependencies[i][2]
          /\ registry[p][v].status = "available"
  BY <1>1, DependencyParts
<1>3. Stated(store, incompatibilities, p, v, q, set)
  BY <1>1, <1>2 DEF AddedAt, MergePending
<1> QED BY <1>1, <1>2, <1>3, StatedRecorded

-----------------------------------------------------------------------------
(* The dependencies of a decided version are looked at *)

\* One term of p is satisfied, and there is only one other.
OwnSatisfied(terms, p, q, set) ==
    \E own \in terms :
        /\ own[1] = p /\ EntrySatisfied(own, Known)
        /\ \A x \in terms : x[2] \in TermType /\ (x = own \/ x = <<q, Negative(set)>>)

\* So it is in what states a dependency of a decided version.
LEMMA AskedTerms ==
    ASSUME Invariant, HistoriesNarrow, NEW p \in DOMAIN assignments,
           IsDecision(assignments[p]), NEW v, v = assignments[p].version,
           NEW id \in Ids, NEW q, NEW set, AskTerms(store[id].terms, p, v, q, set)
    PROVE  OwnSatisfied(store[id].terms, p, q, set)
<1>1. PICK versions \in Ranges :
          v \in versions /\ store[id].terms = FromDependency(p, versions, q, set).terms
  BY DEF AskTerms
<1>2. store[id].terms = {<<p, Positive(versions)>>} \cup DependencyTerm(q, set)
  BY <1>1 DEF FromDependency, DependencyTerm
<1>3. PICK own : own = <<p, Positive(versions)>>
  OBVIOUS
<1>4. own \in store[id].terms /\ own[1] = p /\ own[2] = Positive(versions)
  BY <1>2, <1>3
<1>5. EntrySatisfied(own, Known)
  <2>1. HistoryNarrow(p)
    BY HistoriesNarrowEach
  <2>2. assignments[p].term = Exact(v)
    BY <2>1 DEF HistoryNarrow, Narrow, HistoryEnds
  <2>3. p \in DOMAIN Known /\ Known[p] = Exact(v)
    BY <2>2 DEF Known
  <2>4. SubsetOf(Exact(v), Positive(versions))
    BY <1>1 DEF SubsetOf, Exact, Positive
  <2> QED BY <1>4, <2>3, <2>4 DEF EntrySatisfied, TermSatisfied
<1>6. \A x \in store[id].terms : x = own \/ x = <<q, Negative(set)>>
  BY <1>2, <1>3 DEF DependencyTerm
<1>7. \A x \in store[id].terms : x[2] \in TermType
  <2>1. store[id].terms \in TermsType
    BY StoreEntry
  <2> QED BY <2>1 DEF TermsType
<1> QED BY <1>4, <1>5, <1>6, <1>7 DEF OwnSatisfied

\* Looking at it settles the dependency, or it is a conflict.
LEMMA AskLookedAt ==
    ASSUME Invariant, HistoriesNarrow, MarksRuledOut, NEW p \in DOMAIN assignments,
           IsDecision(assignments[p]), NEW v, v = assignments[p].version,
           scan # << >>, NEW q, NEW set, AskTerms(store[Last(scan)].terms, p, v, q, set),
           NEW x, x = <<q, Negative(set)>>, NEW level, level = currentDecisionLevel,
           [Next]_vars,
           SkipContradicted \/ ScanAlmostSatisfied \/ ScanContradicted \/ ScanInconclusive
    PROVE  RuledOut(x, level)'
<1>1. PICK id \in Ids : id = Last(scan)
  <2>1. scan \in Seq(Ids)
    BY InvariantParts DEF SolverTypeOK
  <2>2. scan[Len(scan)] \in Ids
    BY <2>1
  <2> QED BY <2>2 DEF Last
<1>2. PICK own \in store[id].terms :
          /\ own[1] = p /\ EntrySatisfied(own, Known)
          /\ \A y \in store[id].terms : y[2] \in TermType /\ (y = own \/ y = x)
  <2>1. AskTerms(store[id].terms, p, v, q, set)
    BY <1>1
  <2>2. OwnSatisfied(store[id].terms, p, q, set)
    BY <2>1, AskedTerms
  <2> QED BY <2>2 DEF OwnSatisfied
<1>3. /\ ~EntryInconclusive(own, Known) /\ ~EntryContradicted(own, Known)
      /\ ~IsDisjoint(own[2], assignments[p].term)
  BY <1>2, SatisfiedEntry
<1>4. level \in Nat
  BY InvariantParts DEF PSTypeOK
<1>5. CASE SkipContradicted
  <2>1. id \in DOMAIN contradicted /\ currentDecisionLevel' = currentDecisionLevel
    BY <1>1, <1>5 DEF SkipContradicted, psVars
  <2>2. PICK y \in store[id].terms : /\ IsDisjoint(y[2], assignments[y[1]].term)
                                     /\ RuledOut(y, currentDecisionLevel)
    BY <2>1, MarkedDisjoint
  <2>3. y = x /\ RuledOut(x, level)
    BY <1>2, <1>3, <2>2
  <2> QED BY <1>4, <2>1, <2>3, RuledOutStays
<1>6. CASE ScanAlmostSatisfied
  <2>1. PICK y \in store[id].terms : AlmostSatisfiedBy(store[id].terms, Known, y) /\ Derives(y[1], id)
    BY <1>1, <1>6, ScanDerives
  <2>2. y = x
    BY <1>2, <1>3, <2>1 DEF AlmostSatisfiedBy
  <2>3. Get(store[id].terms, y[1]) = y[2]
    BY <2>1, StoreEntry, InvariantParts, AlmostSatisfiedReady
  <2>4. x[1] = q /\ x = <<q, Get(store[id].terms, q)>> /\ Derives(q, id)
    BY <2>1, <2>2, <2>3
  <2> QED BY <2>4, DerivationRulesOut
<1>7. CASE ScanContradicted
  <2>1. HasContradicted(store[id].terms, Known) /\ currentDecisionLevel' = currentDecisionLevel
    BY <1>1, <1>7 DEF ScanContradicted, FindContradicted, psVars
  <2>2. PICK y \in store[id].terms : EntryContradicted(y, Known)
    BY <2>1 DEF HasContradicted
  <2>3. y = x /\ RuledOut(x, level)
    BY <1>2, <1>3, <2>2, ContradictedRuledOut
  <2> QED BY <1>4, <2>1, <2>3, RuledOutStays
<1>8. CASE ScanInconclusive
  <2>1. HasTwoInconclusive(store[id].terms, Known)
    BY <1>1, <1>8 DEF ScanInconclusive, FindInconclusive
  <2> QED BY <1>2, <1>3, <2>1 DEF HasTwoInconclusive
<1> QED BY <1>5, <1>6, <1>7, <1>8

\* The incompatibilities of the package state what its version asks for.
LEMMA AskListed ==
    ASSUME Invariant, AddedStated, pc # "merge", NEW p \in Packages, NEW v \in Versions,
           <<p, v>> \in addedDependencies,
           NEW q \in Packages, NEW set \in Ranges, Asks(p, v, q, set)
    PROVE  \E i \in DOMAIN incompatibilities[p] :
              AskTerms(store[incompatibilities[p][i]].terms, p, v, q, set)
<1>1. AddedAt(p, v)
  <2>1. PICK pv \in addedDependencies : pv = <<p, v>>
    OBVIOUS
  <2>2. AddedAt(pv[1], pv[2])
    BY AddedEach
  <2> QED BY <2>1, <2>2
<1>2. CASE registry[p][v].status = "available"
  <2>1. PICK i \in DOMAIN registry[p][v].dependencies :
            registry[p][v].dependencies[i][1] = q /\ registry[p][v].dependencies[i][2] = set
    BY <1>2 DEF Asks
  <2>2. Stated(store, incompatibilities, p, v, q, set)
    BY <1>1, <1>2, <2>1 DEF AddedAt, MergePending
  <2>3. PICK id : States(store[id], p, v, q, set) /\ IsListed(incompatibilities, p, id)
    BY <2>2 DEF Stated
  <2> QED BY <2>3 DEF IsListed, States, AskTerms
<1>3. CASE registry[p][v].status # "available"
  <2>1. q = p /\ set = {} /\ Excluded(store, incompatibilities, p, v)
    BY <1>1, <1>3 DEF Asks, AddedAt
  <2>2. PICK id : store[id] = CustomVersion(p, v) /\ IsListed(incompatibilities, p, id)
    BY <2>1 DEF Excluded
  <2>3. CustomVersion(p, v).terms = FromDependency(p, {v}, q, set).terms
    BY <2>1 DEF CustomVersion, External, FromDependency, Exact
  <2>4. {v} \in Ranges /\ v \in {v}
    BY DEF Ranges
  <2> QED BY <2>2, <2>3, <2>4 DEF IsListed, AskTerms
<1> QED BY <1>2, <1>3

\* What is not the last of a sequence is still there without the last.
LEMMA FrontKeeps ==
    ASSUME NEW S, NEW seq \in Seq(S), NEW i \in DOMAIN seq, i # Len(seq)
    PROVE  i \in DOMAIN Front(seq) /\ Front(seq)[i] = seq[i]
<1>1. Len(seq) \in Nat /\ i \in 1 .. Len(seq) - 1 /\ \A k \in 1 .. Len(seq) : seq[k] \in S
  OBVIOUS
<1>2. /\ SubSeq(seq, 1, Len(seq) - 1) \in Seq(S)
      /\ Len(SubSeq(seq, 1, Len(seq) - 1)) = Len(seq) - 1
      /\ SubSeq(seq, 1, Len(seq) - 1)[i] = seq[i]
  BY <1>1, SubSeqProperties
<1> QED BY <1>1, <1>2 DEF Front

\* A scan that meets no conflict goes on with the next, and takes no package
\* out of the buffer.
LEMMA ScanMovesOn ==
    ASSUME Invariant,
           SkipContradicted \/ ScanAlmostSatisfied \/ ScanContradicted \/ ScanInconclusive
    PROVE  /\ pc = "scan" /\ pc' = "scan" /\ scan # << >> /\ scan' = Front(scan)
           /\ UNCHANGED <<store, incompatibilities, mergedDependencies, registry,
                          addedDependencies, next>>
           /\ \A i \in DOMAIN buffer : i \in DOMAIN buffer' /\ buffer'[i] = buffer[i]
<1>1. CASE SkipContradicted \/ ScanContradicted \/ ScanInconclusive
  BY <1>1 DEF SkipContradicted, ScanContradicted, ScanInconclusive, Scanning,
              FindContradicted, FindInconclusive, coreVars
<1>2. CASE ScanAlmostSatisfied
  <2>0. Last(scan) \in Ids
    BY <1>2, ScanTop DEF ScanAlmostSatisfied
  <2>1. PICK x \in store[Last(scan)].terms :
            /\ buffer' = PushIfAbsent(buffer, x[1])
            /\ UNCHANGED <<store, incompatibilities, mergedDependencies>>
    BY <1>2 DEF ScanAlmostSatisfied, PropagateAlmostSatisfied
  <2>2. buffer \in Seq(Packages)
    BY InvariantParts DEF CoreTypeOK
  <2>3. PICK p \in Packages : p = x[1]
    <3>1. store[Last(scan)].terms \in TermsType
      BY <2>0, StoreEntry
    <3> QED BY <3>1 DEF TermsType
  <2>4. buffer' = buffer \/ buffer' = Append(buffer, p)
    BY <2>1, <2>3 DEF PushIfAbsent
  <2>5. \A i \in DOMAIN buffer : i \in DOMAIN buffer' /\ buffer'[i] = buffer[i]
    BY <2>2, <2>4
  <2> QED BY <1>2, <2>1, <2>5 DEF ScanAlmostSatisfied, Scanning
<1> QED BY <1>1, <1>2

\* A dependency that is still to be looked at: so it is after the step, or it
\* is settled.
LEMMA AskPendingStep ==
    ASSUME Invariant, HistoriesNarrow, MarksRuledOut, AddedStated, [Next]_vars,
           currentDecisionLevel' = currentDecisionLevel,
           NEW p \in DOMAIN assignments, IsDecision(assignments[p]),
           NEW v, v = assignments[p].version, <<p, v>> \in addedDependencies,
           NEW q \in Packages, NEW set \in Ranges, Asks(p, v, q, set),
           AskPending(p, v, q, set),
           NEW x, x = <<q, Negative(set)>>, NEW level, level = currentDecisionLevel
    PROVE  RuledOut(x, level)' \/ AskPending(p, v, q, set)'
<1>1. p \in Packages /\ v \in Versions
  <2>1. <<p, v>> \in Packages \X Versions
    BY InvariantParts DEF SolverTypeOK
  <2> QED BY <2>1
<1>2. buffer \in Seq(Packages) /\ scan \in Seq(Ids)
  BY InvariantParts DEF CoreTypeOK, SolverTypeOK
<1>3. CASE UNCHANGED vars
  <2>1. AskPending(p, v, q, set)'
    BY <1>3 DEF AskPending, AskTerms, InBuffer, vars, coreVars, solverVars
  <2> QED BY <2>1
<1>4. CASE pc = "loop" /\ Next
  <2>1. next = p /\ (Cancel \/ StartPropagation)
    <3>1. next = p
      BY <1>4 DEF AskPending
    <3> QED BY <1>4, <3>1, StepsAt
  <2>2. \/ pc' = "cancelled"
        \/ pc' = "propagate" /\ buffer' = <<p>>
    <3>1. CASE Cancel
      BY <3>1 DEF Cancel
    <3>2. CASE StartPropagation
      BY <2>1, <3>2 DEF StartPropagation
    <3> QED BY <2>1, <3>1, <3>2
  <2>3. ASSUME buffer' = <<p>> PROVE InBuffer(p)'
    <3>1. PICK b : b = <<p>>
      OBVIOUS
    <3>2. 1 \in DOMAIN b /\ b[1] = p
      BY <3>1
    <3> QED BY <2>3, <3>1, <3>2 DEF InBuffer
  <2> QED BY <2>2, <2>3 DEF AskPending
<1>5. CASE pc = "propagate" /\ Next
  <2>1. PICK i \in DOMAIN buffer : buffer[i] = p
    BY <1>5 DEF AskPending, InBuffer
  <2>2. buffer # << >> /\ PopPackage
    <3>1. buffer # << >>
      BY <2>1
    <3> QED BY <1>5, <3>1, StepsAt DEF EndPropagation
  <2>3. /\ pc' = "scan" /\ buffer' = Front(buffer) /\ scan' = incompatibilities[Last(buffer)]
        /\ store' = store
    BY <2>2 DEF PopPackage
  <2>4. CASE i = Len(buffer)
    <3>1. scan' = incompatibilities[p]
      BY <2>1, <2>3, <2>4 DEF Last
    <3>2. PICK k \in DOMAIN incompatibilities[p] :
              AskTerms(store[incompatibilities[p][k]].terms, p, v, q, set)
      BY <1>1, <1>5, AskListed
    <3> QED BY <2>3, <3>1, <3>2 DEF AskPending, AskTerms
  <2>5. CASE i # Len(buffer)
    <3>1. i \in DOMAIN Front(buffer) /\ Front(buffer)[i] = p
      BY <1>2, <2>1, <2>2, <2>5, FrontKeeps
    <3> QED BY <2>3, <3>1 DEF AskPending, InBuffer
  <2> QED BY <2>4, <2>5
<1>6. CASE pc = "scan" /\ Next
  <2>1. CASE ScanConflict
    BY <2>1 DEF ScanConflict, AskPending
  <2>2. CASE EndScan
    <3>1. scan = << >> /\ pc' = "propagate" /\ buffer' = buffer
      BY <2>2 DEF EndScan, coreVars
    <3>2. InBuffer(p)
      BY <1>6, <3>1 DEF AskPending
    <3> QED BY <3>1, <3>2 DEF AskPending, InBuffer
  <2>3. CASE SkipContradicted \/ ScanAlmostSatisfied \/ ScanContradicted \/ ScanInconclusive
    <3>1. /\ scan # << >> /\ scan' = Front(scan) /\ pc' = "scan" /\ store' = store
          /\ \A i \in DOMAIN buffer : i \in DOMAIN buffer' /\ buffer'[i] = buffer[i]
      BY <2>3, ScanMovesOn
    <3>2. CASE InBuffer(p)
      BY <3>1, <3>2 DEF AskPending, InBuffer
    <3>3. CASE ~InBuffer(p)
      <4>1. PICK i \in DOMAIN scan : AskTerms(store[scan[i]].terms, p, v, q, set)
        BY <1>6, <3>3 DEF AskPending
      <4>2. CASE i = Len(scan)
        <5>1. AskTerms(store[Last(scan)].terms, p, v, q, set)
          BY <4>1, <4>2 DEF Last
        <5> QED BY <2>3, <3>1, <5>1, AskLookedAt
      <4>3. CASE i # Len(scan)
        <5>1. i \in DOMAIN scan' /\ scan'[i] = scan[i]
          BY <1>2, <3>1, <4>1, <4>3, FrontKeeps
        <5> QED BY <3>1, <4>1, <5>1 DEF AskPending, AskTerms
      <4> QED BY <4>2, <4>3
    <3> QED BY <3>2, <3>3
  <2> QED BY <1>6, <2>1, <2>2, <2>3, StepsAt
<1>7. CASE pc = "conflict" /\ Next
  <2>1. CASE BacktrackFromConflict
    <3>1. PICK to : Backs(to)
      BY <2>1, BacktrackBacks
    <3>2. currentDecisionLevel' # currentDecisionLevel
      <4>1. currentDecisionLevel' = to /\ to < currentDecisionLevel /\ to \in Nat
        BY <3>1, BackedAssignments
      <4>2. currentDecisionLevel \in Nat
        BY InvariantParts DEF PSTypeOK
      <4> QED BY <4>1, <4>2
    <3> QED BY <3>2
  <2>2. CASE FailTerminal \/ ResolveConflict
    <3>1. pc' \in {"no_solution", "conflict"}
      BY <1>7, <2>2 DEF FailTerminal, ResolveConflict
    <3> QED BY <3>1 DEF AskPending
  <2> QED BY <1>7, <2>1, <2>2, StepsAt
<1>8. CASE pc \in {"no_solution", "cancelled"} /\ Next
  <2>1. UNCHANGED vars
    BY <1>8, StepsAt DEF Done, Terminated
  <2> QED BY <1>3, <2>1
<1> QED BY <1>3, <1>4, <1>5, <1>6, <1>7, <1>8 DEF AskPending

\* The provider answers the same, and what was asked for stays so.
LEMMA RegistryKept ==
    ASSUME [Next]_vars
    PROVE  registry' = registry /\ addedDependencies \subseteq addedDependencies'
<1>1. CASE \/ Cancel \/ StartPropagation \/ PopPackage \/ EndPropagation
           \/ SkipContradicted \/ ScanConflict \/ ScanAlmostSatisfied
           \/ ScanContradicted \/ ScanInconclusive \/ EndScan
           \/ FailTerminal \/ ResolveConflict \/ BacktrackFromConflict \/ Learn
  BY <1>1 DEF Cancel, StartPropagation, PopPackage, EndPropagation, SkipContradicted,
       ScanConflict, ScanAlmostSatisfied, ScanContradicted, ScanInconclusive, EndScan,
       FailTerminal, ResolveConflict, BacktrackFromConflict, Learn
<1>2. CASE \/ ReturnSolution \/ Pick \/ ProviderError \/ ChooseNone \/ ChooseUnavailable
           \/ ChooseNew \/ ChooseKnown \/ MergeDependency \/ EndMerge \/ Accept \/ Reject
           \/ Terminated \/ UNCHANGED vars
  BY <1>2 DEF ReturnSolution, Pick, ProviderError, ChooseNone, ChooseUnavailable, ChooseNew,
       ChooseKnown, MergeDependency, EndMerge, Accept, Reject, Terminated, vars, solverVars
<1> QED BY <1>1, <1>2 DEF Next

\* Only a decision and going back change the level.
LEMMA LevelKept ==
    ASSUME Invariant, [Next]_vars, ~ChooseKnown, ~Accept, ~BacktrackFromConflict
    PROVE  /\ currentDecisionLevel' = currentDecisionLevel
           /\ Quiet \/ \E p, id : Derives(p, id)
<1>1. currentDecisionLevel' = currentDecisionLevel
  <2>1. CASE \/ Cancel \/ StartPropagation \/ PopPackage \/ EndPropagation
             \/ SkipContradicted \/ ScanConflict \/ EndScan \/ FailTerminal \/ ProviderError
             \/ EndMerge \/ Reject \/ Terminated \/ UNCHANGED vars
    BY <2>1 DEF Cancel, StartPropagation, PopPackage, EndPropagation, SkipContradicted,
         ScanConflict, EndScan, FailTerminal, ProviderError, EndMerge, Reject, Terminated,
         vars, psVars
  <2>2. CASE \/ ScanContradicted \/ ScanInconclusive \/ ResolveConflict \/ ChooseNone
             \/ ChooseUnavailable \/ ChooseNew \/ MergeDependency
    BY <2>2 DEF ScanContradicted, ScanInconclusive, ResolveConflict, ChooseNone,
         ChooseUnavailable, ChooseNew, MergeDependency, FindContradicted, FindInconclusive,
         ResolveWithCause, psVars
  <2>3. CASE ReturnSolution \/ Pick
    BY <2>3 DEF ReturnSolution, Pick, PickNone, PickPackage
  <2>4. CASE ScanAlmostSatisfied \/ Learn
    BY <2>4 DEF ScanAlmostSatisfied, Learn, PropagateAlmostSatisfied, LearnRootCause,
         AddDerivation
  <2> QED BY <2>1, <2>2, <2>3, <2>4 DEF Next
<1>2. currentDecisionLevel \in Nat
  BY InvariantParts DEF PSTypeOK
<1>3. \A p, v : ~Decides(p, v)
  BY <1>1, <1>2, DecidedAssignments
<1>4. ASSUME NEW level, Backs(level) PROVE FALSE
  <2>1. level < currentDecisionLevel /\ currentDecisionLevel' = level /\ level \in Nat
    BY <1>4, BackedAssignments
  <2> QED BY <1>1, <1>2, <2>1
<1>5. TrailStep
  BY StepKinds
<1> QED BY <1>1, <1>3, <1>4, <1>5 DEF TrailStep

\* A decision keeps its version and its level; what was decided at the new
\* level was decided by this step.
LEMMA DecidedBefore ==
    ASSUME Invariant, [Next]_vars, NEW p \in DOMAIN assignments',
           IsDecision(assignments'[p]), ~ChooseKnown, ~Accept
    PROVE  /\ p \in DOMAIN assignments /\ assignments'[p] = assignments[p]
           /\ assignments[p].highest <= currentDecisionLevel'
           /\ assignments[p].highest <= currentDecisionLevel
<1>1. ASSUME p \in DOMAIN assignments
      PROVE  /\ assignments[p].highest <= currentDecisionLevel
             /\ assignments[p].highest \in Nat /\ currentDecisionLevel \in Nat
  BY <1>1, AssignmentParts DEF HistoryWellFormed, PackageAssignmentsType
<1>2. CASE BacktrackFromConflict
  <2>1. PICK level : Backs(level)
    BY <1>2, BacktrackBacks
  <2>2. /\ p \in DOMAIN assignments /\ currentDecisionLevel' = level
        /\ assignments'[p] = BacktrackedAssignment(assignments[p], level)
    BY <2>1, BackedAssignments
  <2>3. assignments[p].highest <= level
    <3>1. ~(assignments[p].highest <= level) => assignments'[p] = Truncate(assignments[p], level)
      BY <2>2 DEF BacktrackedAssignment
    <3>2. Truncate(assignments[p], level).version = NoVersion
      <4>1. assignments[p] \in PackageAssignmentsType
        BY <2>2, AssignmentParts
      <4> QED BY <4>1 DEF Truncate, PackageAssignmentsType
    <3> QED BY <3>1, <3>2 DEF IsDecision
  <2>4. assignments'[p] = assignments[p]
    BY <2>2, <2>3 DEF BacktrackedAssignment
  <2> QED BY <1>1, <2>2, <2>3, <2>4
<1>3. CASE ~BacktrackFromConflict
  <2>1. currentDecisionLevel' = currentDecisionLevel /\ (Quiet \/ \E q, id : Derives(q, id))
    BY <1>3, LevelKept
  <2>2. CASE Quiet
    BY <1>1, <2>1, <2>2 DEF Quiet
  <2>3. ASSUME NEW q, NEW id, Derives(q, id)
        PROVE  p \in DOMAIN assignments /\ assignments'[p] = assignments[p]
    <3>1. PICK t \in TermType : t = Negate(Get(store[id].terms, q))
      BY <2>3, DerivedAssignments
    <3>2. /\ DOMAIN assignments' = DOMAIN assignments \cup {q}
          /\ q \notin DOMAIN assignments \/ ~IsDecision(assignments[q])
          /\ assignments'[q] = IF q \in DOMAIN assignments
                               THEN NextDerivation(assignments[q], id, t)
                               ELSE FirstDerivation(id, t)
          /\ \A r \in DOMAIN assignments : r # q => assignments'[r] = assignments[r]
      BY <2>3, <3>1, DerivedAssignments
    <3>3. p # q
      <4>1. CASE q \notin DOMAIN assignments
        BY <3>2, <4>1 DEF FirstDerivation, IsDecision
      <4>2. CASE q \in DOMAIN assignments
        <5>1. assignments[q] \in PackageAssignmentsType /\ ~IsDecision(assignments[q])
          BY <3>2, <4>2, AssignmentParts
        <5>2. NextDerivation(assignments[q], id, t).version = assignments[q].version
          BY <5>1 DEF NextDerivation, PackageAssignmentsType
        <5> QED BY <3>2, <4>2, <5>1, <5>2 DEF IsDecision
      <4> QED BY <4>1, <4>2
    <3> QED BY <3>2, <3>3
  <2> QED BY <1>1, <2>1, <2>2, <2>3
<1> QED BY <1>2, <1>3

\* The dependencies of the versions decided.
LEMMA DecisionsAskStep ==
    ASSUME Invariant, HistoriesNarrow, MarksRuledOut, AddedStated, FreshOfChosen,
           DecisionsAsk, [Next]_vars
    PROVE  DecisionsAsk'
<1> SUFFICES ASSUME NEW p \in DOMAIN assignments', IsDecision(assignments'[p]),
                    NEW a, a = assignments'[p],
                    NEW v, v = a.version, NEW level, level = a.highest
             PROVE  /\ <<p, v>> \in addedDependencies'
                    /\ \A q \in Packages, set \in Ranges : Asks(p, v, q, set)' =>
                          \/ RuledOut(<<q, Negative(set)>>, level)'
                          \/ level = currentDecisionLevel' /\ AskPending(p, v, q, set)'
  BY DEF DecisionsAsk
<1>1. registry' = registry /\ addedDependencies \subseteq addedDependencies'
  BY RegistryKept
<1>2. \A q \in Packages, set \in Ranges : Asks(p, v, q, set)' => Asks(p, v, q, set)
  BY <1>1 DEF Asks
<1>3. ASSUME p \in DOMAIN assignments, IsDecision(assignments[p]), a = assignments[p],
             level <= currentDecisionLevel',
             level = currentDecisionLevel /\ pc \in {"loop", "propagate", "scan", "conflict",
                   "no_solution", "cancelled"} => currentDecisionLevel' = currentDecisionLevel
      PROVE  /\ <<p, v>> \in addedDependencies'
             /\ \A q \in Packages, set \in Ranges : Asks(p, v, q, set)' =>
                   \/ RuledOut(<<q, Negative(set)>>, level)'
                   \/ level = currentDecisionLevel' /\ AskPending(p, v, q, set)'
  <2>1. /\ <<p, v>> \in addedDependencies
        /\ \A q \in Packages, set \in Ranges : Asks(p, v, q, set) =>
                 \/ RuledOut(<<q, Negative(set)>>, level)
                 \/ level = currentDecisionLevel /\ AskPending(p, v, q, set)
    BY <1>3 DEF DecisionsAsk
  <2>2. level \in Nat
    BY <1>3, AssignmentParts DEF PackageAssignmentsType
  <2>3. SUFFICES ASSUME NEW q \in Packages, NEW set \in Ranges, Asks(p, v, q, set),
                        NEW x, x = <<q, Negative(set)>>
                 PROVE  \/ RuledOut(x, level)'
                        \/ level = currentDecisionLevel' /\ AskPending(p, v, q, set)'
    BY <1>1, <1>2, <2>1
  <2>4. CASE RuledOut(x, level)
    BY <1>3, <2>2, <2>4, RuledOutStays
  <2>5. CASE level = currentDecisionLevel /\ AskPending(p, v, q, set)
    <3>1. currentDecisionLevel' = currentDecisionLevel
      BY <1>3, <2>5 DEF AskPending
    <3>2. RuledOut(x, level)' \/ AskPending(p, v, q, set)'
      BY <1>3, <2>1, <2>3, <2>5, <3>1, AskPendingStep
    <3> QED BY <2>5, <3>1, <3>2
  <2> QED BY <2>1, <2>3, <2>4, <2>5
<1>4. CASE ChooseKnown \/ Accept
  <2>1. PICK u \in Versions : /\ Decides(next, u)
                              /\ ChooseKnown => ~IsNewDependency(u)
                              /\ Accept => u = chosen
    BY <1>4, DecideDecides
  <2>2. /\ next \in DOMAIN assignments /\ DOMAIN assignments' = DOMAIN assignments
        /\ assignments'[next] = Decision(assignments[next], u)
        /\ \A q \in DOMAIN assignments : q # next => assignments'[q] = assignments[q]
        /\ currentDecisionLevel' = currentDecisionLevel + 1
    BY <2>1, DecidedAssignments
  <2>3. /\ pc \in {"choose", "decide"} /\ pc' = "loop" /\ next' = next
        /\ <<next, u>> \in addedDependencies /\ currentDecisionLevel \in Nat
    <3>1. CASE ChooseKnown
      BY <2>1, <3>1, InvariantParts DEF ChooseKnown, IsNewDependency, PSTypeOK
    <3>2. CASE Accept
      BY <2>1, <3>2, InvariantParts DEF Accept, FreshOfChosen, PSTypeOK
    <3> QED BY <1>4, <3>1, <3>2
  <2>4. CASE p = next
    <3>1. assignments[next] \in PackageAssignmentsType
      BY <2>2, AssignmentParts
    <3>2. v = u /\ level = currentDecisionLevel'
      BY <2>2, <2>4, <3>1 DEF Decision, PackageAssignmentsType
    <3>3. \A q, set : AskPending(p, v, q, set)'
      BY <2>3, <2>4 DEF AskPending
    <3> QED BY <1>1, <2>3, <2>4, <3>2, <3>3
  <2>5. CASE p # next
    <3>1. p \in DOMAIN assignments /\ a = assignments[p]
      BY <2>2, <2>5
    <3>2. level <= currentDecisionLevel /\ level \in Nat
      BY <3>1, AssignmentParts DEF HistoryWellFormed, PackageAssignmentsType
    <3> QED BY <1>3, <2>2, <2>3, <3>1, <3>2
  <2> QED BY <2>4, <2>5
<1>5. CASE ~ChooseKnown /\ ~Accept
  <2>1. /\ p \in DOMAIN assignments /\ a = assignments[p]
        /\ level <= currentDecisionLevel' /\ level <= currentDecisionLevel
    BY <1>5, DecidedBefore
  <2>2. ASSUME level = currentDecisionLevel
        PROVE  currentDecisionLevel' = currentDecisionLevel
    <3>1. CASE BacktrackFromConflict
      <4>1. PICK to : Backs(to)
        BY <3>1, BacktrackBacks
      <4>2. currentDecisionLevel' = to /\ to < currentDecisionLevel /\ to \in Nat
            /\ currentDecisionLevel \in Nat
        BY <4>1, BackedAssignments, InvariantParts DEF PSTypeOK
      <4> QED BY <2>1, <2>2, <4>2
    <3>2. CASE ~BacktrackFromConflict
      BY <1>5, <3>2, LevelKept
    <3> QED BY <3>1, <3>2
  <2> QED BY <1>3, <2>1, <2>2
<1> QED BY <1>4, <1>5

-----------------------------------------------------------------------------
(* The packages that wait for a decision *)

Queued(p) == p \in DOMAIN prioritized \/ p \in outdated

\* The steps that touch the assignments or the queue.
LEMMA QueueSteps ==
    ASSUME Invariant, [Next]_vars
    PROVE  \/ ReturnSolution \/ Pick
           \/ UNCHANGED <<assignments, prioritized, outdated>>
           \/ \E q, id : Derives(q, id)
           \/ \E v : Decides(next, v)
           \/ BacktrackFromConflict /\ \E level : Backs(level)
<1>1. CASE \/ Cancel \/ StartPropagation \/ PopPackage \/ EndPropagation
           \/ SkipContradicted \/ ScanConflict \/ EndScan \/ FailTerminal
           \/ ProviderError \/ EndMerge \/ Reject \/ Terminated \/ UNCHANGED vars
  BY <1>1 DEF Cancel, StartPropagation, PopPackage, EndPropagation, SkipContradicted,
       ScanConflict, EndScan, FailTerminal, ProviderError, EndMerge, Reject, Terminated,
       psVars, vars
<1>2. CASE \/ ScanContradicted \/ ScanInconclusive \/ ResolveConflict
           \/ ChooseNone \/ ChooseUnavailable \/ ChooseNew \/ MergeDependency
  BY <1>2 DEF ScanContradicted, ScanInconclusive, FindContradicted, FindInconclusive,
       ResolveConflict, ResolveWithCause, ChooseNone, ChooseUnavailable, ChooseNew,
       MergeDependency, psVars
<1>3. CASE ScanAlmostSatisfied \/ Learn
  BY <1>3, ScanDerives, LearnDerives
<1>4. CASE ChooseKnown \/ Accept
  BY <1>4, DecideDecides
<1>5. CASE BacktrackFromConflict
  BY <1>5, BacktrackBacks
<1> QED BY <1>1, <1>2, <1>3, <1>4, <1>5 DEF Next

\* Unless it goes back, the solver knows more and more.
LEMMA KnownNarrows ==
    ASSUME Invariant, [Next]_vars, ~BacktrackFromConflict, NEW r \in DOMAIN assignments
    PROVE  /\ r \in DOMAIN assignments'
           /\ assignments'[r].term \in TermType
           /\ SubsetOf(assignments'[r].term, assignments[r].term)
<1>1. assignments[r].term \in TermType /\ assignments[r] \in PackageAssignmentsType
  BY AssignmentParts
<1>2. CASE UNCHANGED assignments
  BY <1>1, <1>2, SubsetOfIntersection
<1>3. ASSUME NEW q, NEW id, Derives(q, id)
      PROVE  r \in DOMAIN assignments' /\ assignments'[r].term \in TermType
             /\ SubsetOf(assignments'[r].term, assignments[r].term)
  <2>1. PICK t \in TermType : t = Negate(Get(store[id].terms, q))
    BY <1>3, DerivedAssignments
  <2>2. /\ DOMAIN assignments' = DOMAIN assignments \cup {q}
        /\ q \in DOMAIN assignments => assignments'[q] = NextDerivation(assignments[q], id, t)
        /\ r # q => assignments'[r] = assignments[r]
    BY <1>3, <2>1, DerivedAssignments
  <2>3. CASE r # q
    BY <1>1, <2>2, <2>3, SubsetOfIntersection
  <2>4. CASE r = q
    <3>1. assignments'[r].term = Intersection(assignments[r].term, t)
      BY <1>1, <2>2, <2>4 DEF NextDerivation, PackageAssignmentsType
    <3> QED BY <1>1, <2>2, <2>4, <3>1, SubsetOfIntersection, TermsClosed
  <2> QED BY <2>3, <2>4
<1>4. ASSUME NEW v, Decides(next, v)
      PROVE  r \in DOMAIN assignments' /\ assignments'[r].term \in TermType
             /\ SubsetOf(assignments'[r].term, assignments[r].term)
  <2>1. /\ v \in Versions /\ TermContains(assignments[next].term, v)
        /\ DOMAIN assignments' = DOMAIN assignments
        /\ assignments'[next] = Decision(assignments[next], v)
        /\ r # next => assignments'[r] = assignments[r]
    BY <1>4, DecidedAssignments
  <2>2. CASE r # next
    BY <1>1, <2>1, <2>2, SubsetOfIntersection
  <2>3. CASE r = next
    <3>1. assignments'[r].term = Exact(v)
      BY <1>1, <2>1, <2>3 DEF Decision, PackageAssignmentsType
    <3>2. Exact(v) \in TermType
      BY <2>1 DEF Exact, Positive, TermType
    <3>3. SubsetOf(Exact(v), assignments[r].term)
      BY <1>1, <2>1, <2>3 DEF SubsetOf, Exact, Positive, TermContains, TermType
    <3> QED BY <2>1, <2>3, <3>1, <3>2, <3>3
  <2> QED BY <2>2, <2>3
<1>5. CASE ReturnSolution \/ Pick
  <2>1. UNCHANGED assignments
    BY <1>5 DEF ReturnSolution, Pick, PickNone, PickPackage
  <2> QED BY <1>2, <2>1
<1> QED BY <1>2, <1>3, <1>4, <1>5, QueueSteps

\* What triggers a derivation or a conflict goes on doing so.
LEMMA TriggersKept ==
    ASSUME Invariant, [Next]_vars, ~BacktrackFromConflict,
           NEW terms \in TermsType, NEW p \in DOMAIN assignments,
           assignments'[p] = assignments[p], Triggers(terms, p)
    PROVE  Triggers(terms, p)'
<1>1. PICK x \in terms : /\ x[1] = p /\ ~IsDisjoint(x[2], assignments[p].term)
                         /\ \A y \in terms : y # x => EntrySatisfied(y, Known)
  BY DEF Triggers
<1>2. ASSUME NEW y \in terms, EntrySatisfied(y, Known)
      PROVE  EntrySatisfied(y, Known')
  <2>1. PICK r : r = y[1]
    OBVIOUS
  <2>2. r \in DOMAIN assignments /\ SubsetOf(assignments[r].term, y[2])
    BY <1>2, <2>1 DEF EntrySatisfied, TermSatisfied, Known
  <2>3. y[2] \in TermType /\ assignments[r].term \in TermType
    BY <2>2, AssignmentParts DEF TermsType
  <2>4. /\ r \in DOMAIN assignments' /\ assignments'[r].term \in TermType
        /\ SubsetOf(assignments'[r].term, assignments[r].term)
    BY <2>2, KnownNarrows
  <2>5. SubsetOf(assignments'[r].term, y[2])
    BY <2>2, <2>3, <2>4, SubsetOfTransitive
  <2> QED BY <2>1, <2>4, <2>5 DEF EntrySatisfied, TermSatisfied, Known
<1> QED BY <1>1, <1>2 DEF Triggers

\* What waits for a decision after a step, and is not in the queue, did before
\* and was not in the queue then.
LEMMA PotentialBefore ==
    ASSUME Invariant, [Next]_vars, ~ReturnSolution, ~Pick,
           NEW p \in DOMAIN assignments', Potential(p)', ~Queued(p)'
    PROVE  /\ p \in DOMAIN assignments /\ Potential(p) /\ assignments'[p] = assignments[p]
           /\ ~Queued(p) /\ ~BacktrackFromConflict
<1>1. IsPotential(assignments'[p]) /\ p \notin DOMAIN prioritized' /\ p \notin outdated'
  BY DEF Potential, Queued
<1>2. CASE UNCHANGED <<assignments, prioritized, outdated>> /\ ~BacktrackFromConflict
  BY <1>1, <1>2 DEF Potential, Queued
<1>3. ASSUME NEW q, NEW id, Derives(q, id), ~BacktrackFromConflict
      PROVE  /\ p \in DOMAIN assignments /\ Potential(p) /\ assignments'[p] = assignments[p]
             /\ ~Queued(p)
  <2>1. prioritized' = prioritized /\ outdated' = OutdatedBy(q, assignments'[q].term)
    BY <1>3 DEF Derives, AddDerivation
  <2>2. p # q
    BY <1>1, <2>1 DEF OutdatedBy, IsPotential
  <2>3. p \in DOMAIN assignments /\ assignments'[p] = assignments[p]
    <3>1. /\ DOMAIN assignments' = DOMAIN assignments \cup {q}
          /\ \A r \in DOMAIN assignments : r # q => assignments'[r] = assignments[r]
      BY <1>3, DerivedAssignments
    <3> QED BY <2>2, <3>1
  <2> QED BY <1>1, <2>1, <2>3 DEF OutdatedBy, Potential, Queued
<1>4. ASSUME NEW v, Decides(next, v), ~BacktrackFromConflict
      PROVE  /\ p \in DOMAIN assignments /\ Potential(p) /\ assignments'[p] = assignments[p]
             /\ ~Queued(p)
  <2>1. UNCHANGED <<prioritized, outdated>>
    BY <1>4 DEF Decides, AddDecision
  <2>2. /\ next \in DOMAIN assignments /\ assignments'[next] = Decision(assignments[next], v)
        /\ DOMAIN assignments' = DOMAIN assignments /\ v \in Versions
        /\ \A r \in DOMAIN assignments : r # next => assignments'[r] = assignments[r]
    BY <1>4, DecidedAssignments
  <2>3. IsDecision(assignments'[next])
    <3>1. assignments[next] \in PackageAssignmentsType
      BY <2>2, AssignmentParts
    <3> QED BY <2>2, <3>1, NoVersionAssumption DEF IsDecision, Decision, PackageAssignmentsType
  <2>4. p # next
    BY <1>1, <2>3 DEF IsPotential
  <2> QED BY <1>1, <2>1, <2>2, <2>4 DEF Potential, Queued
<1>5. ASSUME NEW level, Backs(level)
      PROVE  FALSE
  <2> DEFINE kept      == {q \in DOMAIN assignments : assignments[q].smallest <= level}
             truncated == {q \in kept : assignments[q].highest > level}
             new       == [q \in kept |-> BacktrackedAssignment(assignments[q], level)]
  <2>1. /\ assignments' = new
        /\ prioritized' = [q \in DOMAIN prioritized \ truncated |-> prioritized[q]]
        /\ outdated' = outdated \cup Requeued(kept, truncated, new)
    BY <1>5 DEF Backs, Backtrack
  <2>2. p \in kept /\ IsPotential(new[p])
    BY <1>1, <2>1
  <2>3. p \notin Requeued(kept, truncated, new)
    BY <1>1, <2>1
  <2>4. p \notin truncated
    BY <2>2, <2>3 DEF Requeued, IsPotential
  <2>5. p \in DOMAIN prioritized
    BY <2>2, <2>3, <2>4 DEF Requeued
  <2> QED BY <1>1, <2>1, <2>4, <2>5
<1>6. ~BacktrackFromConflict
  BY <1>5, BacktrackBacks
<1> QED BY <1>2, <1>3, <1>4, <1>6, QueueSteps

\* To look at the incompatibility is a conflict or derives something of p.
LEMMA TriggerLookedAt ==
    ASSUME Invariant, HistoriesNarrow, MarksRuledOut, NEW p \in DOMAIN assignments,
           assignments'[p] = assignments[p], ~Queued(p)', Potential(p),
           scan # << >>, Triggers(store[Last(scan)].terms, p),
           SkipContradicted \/ ScanAlmostSatisfied \/ ScanContradicted \/ ScanInconclusive
    PROVE  FALSE
<1>1. PICK id \in Ids : id = Last(scan)
  <2>1. scan \in Seq(Ids)
    BY InvariantParts DEF SolverTypeOK
  <2>2. scan[Len(scan)] \in Ids
    BY <2>1
  <2> QED BY <2>2 DEF Last
<1>2. store[id].terms \in TermsType
  BY StoreEntry
<1>3. PICK x \in store[id].terms :
          /\ x[1] = p /\ ~IsDisjoint(x[2], assignments[p].term)
          /\ \A y \in store[id].terms : y # x => EntrySatisfied(y, Known)
  BY <1>1 DEF Triggers
<1>4. \A y \in store[id].terms : y[2] \in TermType
  BY <1>2 DEF TermsType
<1>5. ASSUME NEW y \in store[id].terms, y[1] \in DOMAIN assignments,
             IsDisjoint(y[2], assignments[y[1]].term)
      PROVE  FALSE
  BY <1>3, <1>4, <1>5, SatisfiedEntry
<1>6. CASE SkipContradicted
  <2>1. id \in DOMAIN contradicted
    BY <1>1, <1>6 DEF SkipContradicted
  <2> QED BY <1>5, <2>1, MarkedDisjoint
<1>7. CASE ScanContradicted
  <2>1. PICK y \in store[id].terms : EntryContradicted(y, Known)
    BY <1>1, <1>7 DEF ScanContradicted, FindContradicted, HasContradicted
  <2>2. y[1] \in DOMAIN assignments /\ IsDisjoint(y[2], assignments[y[1]].term)
    BY <2>1 DEF EntryContradicted, TermContradicted, Known
  <2> QED BY <1>5, <2>2
<1>8. CASE ScanInconclusive
  <2>1. PICK y, z \in store[id].terms :
            y # z /\ EntryInconclusive(y, Known) /\ EntryInconclusive(z, Known)
    BY <1>1, <1>8 DEF ScanInconclusive, FindInconclusive, HasTwoInconclusive
  <2> QED BY <1>3, <1>4, <2>1, SatisfiedEntry
<1>9. CASE ScanAlmostSatisfied
  <2>1. PICK y \in store[id].terms :
            AlmostSatisfiedBy(store[id].terms, Known, y) /\ Derives(y[1], id)
    BY <1>1, <1>9, ScanDerives
  <2>2. y = x
    BY <1>3, <1>4, <2>1, SatisfiedEntry DEF AlmostSatisfiedBy
  <2>3. outdated' = OutdatedBy(p, assignments'[p].term)
    BY <1>3, <2>1, <2>2 DEF Derives, AddDerivation
  <2>4. p \in outdated'
    BY <2>3 DEF OutdatedBy, Potential, IsPotential
  <2> QED BY <2>4 DEF Queued
<1> QED BY <1>6, <1>7, <1>8, <1>9

\* What is added is listed, unless it is merged.
LEMMA AddedListed ==
    ASSUME Invariant, NEW new \in IncompatibilityType, WellFormed(new),
           new.kind # "dependency", AddIncompatibility(new),
           NEW p \in Packages, p \in IncompatPackages(new.terms)
    PROVE  \E i \in DOMAIN incompatibilities'[p] : store'[incompatibilities'[p][i]] = new
<1>1. PICK s : s = Append(store, new)
  OBVIOUS
<1>2. PICK id \in 1 .. Len(s) : id = Len(store) + 1 /\ s[id] = new
  BY <1>1, AppendGood
<1>3. GoodStore(s) /\ StoreExtends(store, s)
  BY <1>1, AppendGood
<1>4. MergeIncompatibility(s, id)
  BY <1>1, <1>2 DEF AddIncompatibility
<1>5. Kept(s, id)
  <2>1. Kept(s, id) \/ \E past \in 1 .. Len(s) : Replaced(s, id, past)
    BY <1>3, <1>4, ListsExtend, MergeLists
  <2> QED BY <1>2, <2>1 DEF Replaced, CanMerge
<1>6. store' = s /\ IsListed(incompatibilities', p, id)
  BY <1>2, <1>5 DEF Kept
<1> QED BY <1>2, <1>6 DEF IsListed

\* There is no version to choose, or the chosen one cannot be used: this says
\* something of the package.
LEMMA RefusedTriggers ==
    ASSUME Invariant, ChooseNone \/ ChooseUnavailable, Potential(next)
    PROVE  ListTriggers(next)'
<1>1. PICK p \in Packages : p = next
  BY InvariantParts DEF SolverTypeOK
<1>2. /\ p \in DOMAIN assignments /\ assignments[p].term \in TermType
      /\ assignments[p].term.positive /\ assignments[p].term # EmptyTerm
  BY <1>1, AssignmentParts DEF Potential, IsPotential, HistoryWellFormed
<1>3. assignments' = assignments /\ next' = next /\ pc = "choose"
  BY DEF ChooseNone, ChooseUnavailable, psVars
<1>4. PICK t \in TermType, new \in IncompatibilityType :
          /\ WellFormed(new) /\ new.kind # "dependency" /\ AddIncompatibility(new)
          /\ new.terms = {<<p, t>>} /\ ~IsDisjoint(t, assignments[p].term)
  <2>1. CASE ChooseNone
    <3>1. PICK t : t = Positive(CurrentRange)
      OBVIOUS
    <3>2. PICK new : new = NoVersions(next, t)
      OBVIOUS
    <3>3. /\ new \in IncompatibilityType /\ WellFormed(new) /\ AddIncompatibility(new)
      BY <1>3, <2>1, <3>1, <3>2, RefusedWellFormed DEF ChooseNone
    <3>4. new.kind # "dependency" /\ new.terms = {<<p, t>>}
      BY <1>1, <3>2 DEF NoVersions, External
    <3>5. t \in TermType /\ ~IsDisjoint(t, assignments[p].term)
      BY <1>1, <1>2, <3>1 DEF CurrentRange, Positive, TermType, IsDisjoint, EmptyTerm
    <3> QED BY <3>3, <3>4, <3>5
  <2>2. CASE ChooseUnavailable
    <3>1. PICK v \in VersionChoices : AddIncompatibility(CustomVersion(next, v))
      BY <2>2 DEF ChooseUnavailable
    <3>2. PICK t : t = Exact(v)
      OBVIOUS
    <3>3. PICK new : new = CustomVersion(next, v)
      OBVIOUS
    <3>4. /\ new \in IncompatibilityType /\ WellFormed(new) /\ AddIncompatibility(new)
      BY <1>3, <3>1, <3>3, RefusedWellFormed
    <3>5. new.kind # "dependency" /\ new.terms = {<<p, t>>}
      BY <1>1, <3>2, <3>3 DEF CustomVersion, External
    <3>6. t \in TermType /\ ~IsDisjoint(t, assignments[p].term)
      <4>1. v \in assignments[p].term.set /\ assignments[p].term.set \subseteq Versions
        BY <1>1, <1>2, <3>1 DEF VersionChoices, Candidates, CurrentRange, TermType
      <4> QED BY <1>2, <3>2, <4>1 DEF Exact, Positive, TermType, IsDisjoint
    <3> QED BY <3>4, <3>5, <3>6
  <2> QED BY <2>1, <2>2
<1>5. PICK i \in DOMAIN incompatibilities'[p] : store'[incompatibilities'[p][i]] = new
  <2>1. p \in IncompatPackages(new.terms)
    BY <1>4 DEF IncompatPackages
  <2> QED BY <1>4, <2>1, AddedListed
<1>6. Triggers(new.terms, p)'
  <2>1. PICK x : x = <<p, t>>
    OBVIOUS
  <2>2. x[1] = p /\ x[2] = t /\ new.terms = {x}
    BY <1>4, <2>1
  <2> QED BY <1>3, <1>4, <2>2 DEF Triggers
<1>7. Triggers(store[incompatibilities[p][i]].terms, p)'
  BY <1>5, <1>6
<1> QED BY <1>1, <1>3, <1>5, <1>7 DEF ListTriggers

\* The decision is not made for a dependency that is not met: this says
\* something of the package.
LEMMA RejectTriggers ==
    ASSUME Invariant, AddedStated, FreshOfChosen, SelfSound, Reject, Potential(next)
    PROVE  ListTriggers(next)'
<1>1. PICK p \in Packages, v \in Versions : p = next /\ v = chosen
  <2>1. next \in Packages
    BY InvariantParts DEF SolverTypeOK
  <2>2. chosen \in Versions
    BY DEF Invariant, ChoiceReady, Reject
  <2> QED BY <2>1, <2>2
<1>2. pc = "decide" /\ UNCHANGED <<assignments, store, incompatibilities, next>> /\ FreshSatisfied
  BY DEF Reject, Accepted, psVars, coreVars
<1>3. /\ <<p, v>> \in addedDependencies /\ registry[p][v].status = "available"
      /\ p \in DOMAIN assignments /\ v \in assignments[p].term.set
  BY <1>1, <1>2 DEF FreshOfChosen, CurrentRange
<1>4. PICK k \in DOMAIN fresh : Satisfied(store[fresh[k]].terms, KnownIfChosen)
  BY <1>2 DEF FreshSatisfied
<1>5. PICK i \in DOMAIN registry[p][v].dependencies :
          store[fresh[k]] = FromDependency(p, {v}, registry[p][v].dependencies[i][1],
                                                   registry[p][v].dependencies[i][2])
  BY <1>1, <1>2, <1>4 DEF FreshOfChosen
<1>6. PICK q \in Packages, set \in Ranges :
          q = registry[p][v].dependencies[i][1] /\ set = registry[p][v].dependencies[i][2]
  BY DependencyParts
<1>7. Stated(store, incompatibilities, p, v, q, set)
  <2>1. AddedAt(p, v)
    <3>1. PICK pv \in addedDependencies : pv = <<p, v>>
      BY <1>3
    <3> QED BY <3>1, AddedEach
  <2> QED BY <1>2, <1>3, <1>6, <2>1 DEF AddedAt, MergePending
<1>8. ASSUME set # {} PROVE q # p /\ EntrySatisfied(<<q, Negative(set)>>, Known)
  <2>1. PICK y : y = <<q, Negative(set)>>
    OBVIOUS
  <2>2. y \in store[fresh[k]].terms
    BY <1>5, <1>6, <1>8, <2>1 DEF FromDependency
  <2>3. EntrySatisfied(y, KnownIfChosen) /\ y[1] = q /\ y[2] = Negative(set)
    BY <1>4, <2>1, <2>2 DEF Satisfied
  <2>4. /\ DOMAIN KnownIfChosen = DOMAIN assignments
        /\ KnownIfChosen[p] = Exact(v)
        /\ \A r \in DOMAIN assignments : r # p => KnownIfChosen[r] = Known[r]
    BY <1>1, <1>3 DEF KnownIfChosen, Known
  <2>5. q # p
    <3>1. ASSUME q = p PROVE FALSE
      <4>1. SubsetOf(Exact(v), Negative(set))
        BY <2>3, <2>4, <3>1 DEF EntrySatisfied, TermSatisfied
      <4>2. v \notin set
        BY <4>1 DEF SubsetOf, Exact, Positive, Negative
      <4> QED BY <1>6, <3>1, <4>2 DEF SelfSound, NoBrokenSelfDependency
    <3> QED BY <3>1
  <2>6. EntrySatisfied(y, Known)
    BY <2>3, <2>4, <2>5 DEF EntrySatisfied, Known
  <2> QED BY <2>1, <2>5, <2>6
<1>9. PICK id : States(store[id], p, v, q, set) /\ IsListed(incompatibilities, p, id)
  BY <1>7 DEF Stated
<1>10. PICK versions \in Ranges :
           v \in versions /\ store[id] = FromDependency(p, versions, q, set)
  BY <1>9 DEF States
<1>11. Triggers(store[id].terms, p)
  <2>1. PICK x : x = <<p, Positive(versions)>>
    OBVIOUS
  <2>2. PICK y : y = <<q, Negative(set)>>
    OBVIOUS
  <2>3. x \in store[id].terms /\ \A z \in store[id].terms : z = x \/ (z = y /\ set # {})
    BY <1>10, <2>1, <2>2 DEF FromDependency
  <2>4. x[1] = p /\ ~IsDisjoint(x[2], assignments[p].term)
    <3>1. assignments[p].term.positive
      BY <1>1 DEF Potential, IsPotential
    <3> QED BY <1>3, <1>10, <2>1, <3>1 DEF IsDisjoint, Positive
  <2>5. \A z \in store[id].terms : z # x => EntrySatisfied(z, Known)
    BY <1>8, <2>2, <2>3
  <2> QED BY <2>3, <2>4, <2>5 DEF Triggers
<1>12. ListTriggers(p)
  BY <1>9, <1>11 DEF IsListed, ListTriggers
<1> QED BY <1>1, <1>2, <1>12 DEF ListTriggers, Triggers, EntrySatisfied, Known

\* A package that waits for its trigger: so it does after the step, or the
\* step has looked at it.
LEMMA TriggeredStep ==
    ASSUME Invariant, HistoriesNarrow, MarksRuledOut, [Next]_vars, ~BacktrackFromConflict,
           NEW p \in DOMAIN assignments, assignments'[p] = assignments[p],
           ~Queued(p)', Potential(p), Triggered(p)
    PROVE  Triggered(p)' \/ pc' \in {"conflict", "cancelled"}
<1>1. p \in Packages /\ buffer \in Seq(Packages) /\ scan \in Seq(Ids)
  BY InvariantParts, AssignmentParts DEF CoreTypeOK, SolverTypeOK
<1>2. ASSUME UNCHANGED <<store, incompatibilities>>, ListTriggers(p)
      PROVE  ListTriggers(p)'
  <2>1. PICK k \in DOMAIN incompatibilities[p] :
            Triggers(store[incompatibilities[p][k]].terms, p)
    BY <1>2 DEF ListTriggers
  <2>2. PICK id \in Ids : id = incompatibilities[p][k]
    <3>1. incompatibilities[p] \in Seq(Ids)
      BY <1>1, InvariantParts DEF CoreTypeOK
    <3> QED BY <3>1
  <2>3. PICK terms \in TermsType : terms = store[id].terms
    BY StoreEntry
  <2>4. Triggers(terms, p)'
    BY <2>1, <2>2, <2>3, TriggersKept
  <2>5. terms = store'[incompatibilities'[p][k]].terms /\ k \in DOMAIN incompatibilities'[p]
    BY <1>2, <2>2, <2>3
  <2> QED BY <2>4, <2>5 DEF ListTriggers
<1>3. CASE UNCHANGED vars
  <2>1. UNCHANGED <<pc, next, buffer, scan, store, incompatibilities, assignments>>
    BY <1>3 DEF vars, psVars, coreVars, solverVars
  <2>2. ListTriggers(p) => ListTriggers(p)'
    BY <1>2, <2>1
  <2>3. ASSUME NEW i \in DOMAIN scan, Triggers(store[scan[i]].terms, p)
        PROVE  \E k \in DOMAIN scan' : Triggers(store[scan[k]].terms, p)'
    <3>1. PICK terms \in TermsType : terms = store[scan[i]].terms
      <4>1. scan[i] \in Ids
        BY <1>1
      <4> QED BY <4>1, StoreEntry
    <3>2. Triggers(terms, p)'
      BY <2>3, <3>1, TriggersKept
    <3> QED BY <2>1, <2>3, <3>1, <3>2
  <2> QED BY <2>1, <2>2, <2>3 DEF Triggered, InBuffer
<1>4. CASE pc = "loop" /\ Next
  <2>1. next = p /\ ListTriggers(p) /\ (Cancel \/ StartPropagation)
    <3>1. next = p /\ ListTriggers(p)
      BY <1>4 DEF Triggered
    <3> QED BY <1>4, <3>1, StepsAt
  <2>2. CASE Cancel
    BY <2>2 DEF Cancel
  <2>3. CASE StartPropagation
    <3>1. PICK b : b = <<p>>
      OBVIOUS
    <3>2. 1 \in DOMAIN b /\ b[1] = p
      BY <3>1
    <3>3. buffer' = b /\ pc' = "propagate" /\ UNCHANGED <<store, incompatibilities>>
      BY <2>1, <2>3, <3>1 DEF StartPropagation
    <3>4. InBuffer(p)'
      BY <3>2, <3>3 DEF InBuffer
    <3>5. ListTriggers(p)'
      BY <1>2, <2>1, <3>3
    <3> QED BY <3>3, <3>4, <3>5 DEF Triggered
  <2> QED BY <2>1, <2>2, <2>3
<1>5. CASE pc = "propagate" /\ Next
  <2>1. InBuffer(p) /\ ListTriggers(p)
    BY <1>5 DEF Triggered
  <2>2. PICK i \in DOMAIN buffer : buffer[i] = p
    BY <2>1 DEF InBuffer
  <2>3. buffer # << >> /\ PopPackage
    <3>1. buffer # << >>
      BY <2>2
    <3> QED BY <1>5, <3>1, StepsAt DEF EndPropagation
  <2>4. /\ pc' = "scan" /\ buffer' = Front(buffer) /\ scan' = incompatibilities[Last(buffer)]
        /\ UNCHANGED <<store, incompatibilities>>
    BY <2>3 DEF PopPackage
  <2>5. ListTriggers(p)'
    BY <1>2, <2>1, <2>4
  <2>6. CASE i = Len(buffer)
    <3>1. scan' = incompatibilities'[p]
      BY <2>2, <2>4, <2>6 DEF Last
    <3> QED BY <2>4, <2>5, <3>1 DEF Triggered, ListTriggers
  <2>7. CASE i # Len(buffer)
    <3>1. i \in DOMAIN Front(buffer) /\ Front(buffer)[i] = p
      BY <1>1, <2>2, <2>3, <2>7, FrontKeeps
    <3> QED BY <2>4, <2>5, <3>1 DEF Triggered, InBuffer
  <2> QED BY <2>6, <2>7
<1>6. CASE pc = "scan" /\ Next
  <2>1. CASE ScanConflict
    BY <2>1 DEF ScanConflict
  <2>2. CASE EndScan
    <3>1. scan = << >> /\ pc' = "propagate" /\ UNCHANGED <<buffer, store, incompatibilities>>
      BY <2>2 DEF EndScan, coreVars
    <3>2. InBuffer(p) /\ ListTriggers(p)
      BY <1>6, <3>1 DEF Triggered
    <3>3. ListTriggers(p)'
      BY <1>2, <3>1, <3>2
    <3> QED BY <3>1, <3>2, <3>3 DEF Triggered, InBuffer
  <2>3. CASE SkipContradicted \/ ScanAlmostSatisfied \/ ScanContradicted \/ ScanInconclusive
    <3>1. /\ scan # << >> /\ scan' = Front(scan) /\ pc' = "scan"
          /\ UNCHANGED <<store, incompatibilities>>
          /\ \A i \in DOMAIN buffer : i \in DOMAIN buffer' /\ buffer'[i] = buffer[i]
      BY <2>3, ScanMovesOn
    <3>2. CASE InBuffer(p) /\ ListTriggers(p)
      <4>1. ListTriggers(p)'
        BY <1>2, <3>1, <3>2
      <4> QED BY <3>1, <3>2, <4>1 DEF Triggered, InBuffer
    <3>3. CASE ~(InBuffer(p) /\ ListTriggers(p))
      <4>1. PICK i \in DOMAIN scan : Triggers(store[scan[i]].terms, p)
        BY <1>6, <3>3 DEF Triggered
      <4>2. i # Len(scan)
        <5>1. CASE i = Len(scan)
          <6>1. Triggers(store[Last(scan)].terms, p)
            BY <4>1, <5>1 DEF Last
          <6> QED BY <2>3, <3>1, <6>1, TriggerLookedAt
        <5> QED BY <5>1
      <4>3. i \in DOMAIN scan' /\ scan'[i] = scan[i]
        BY <1>1, <3>1, <4>1, <4>2, FrontKeeps
      <4>4. PICK terms \in TermsType : terms = store[scan[i]].terms
        <5>1. scan[i] \in Ids
          BY <1>1
        <5> QED BY <5>1, StoreEntry
      <4>5. Triggers(terms, p)'
        BY <4>1, <4>4, TriggersKept
      <4>6. terms = store'[scan'[i]].terms
        BY <3>1, <4>3, <4>4
      <4> QED BY <3>1, <4>3, <4>5, <4>6 DEF Triggered
    <3> QED BY <3>2, <3>3
  <2> QED BY <1>6, <2>1, <2>2, <2>3, StepsAt
<1> QED BY <1>3, <1>4, <1>5, <1>6 DEF Triggered

\* The packages that wait for a decision.
LEMMA PotentialWaitingStep ==
    ASSUME Invariant, HistoriesNarrow, MarksRuledOut, AddedStated, FreshOfChosen,
           SelfSound, PotentialWaiting, [Next]_vars
    PROVE  PotentialWaiting'
<1> SUFFICES ASSUME NEW p \in DOMAIN assignments', Potential(p)', ~Queued(p)'
             PROVE  Waiting(p)'
  BY DEF PotentialWaiting, Waiting, Queued
<1>1. CASE ReturnSolution
  BY <1>1 DEF ReturnSolution, Waiting, Done
<1>2. CASE Pick
  <2>1. PICK q \in Packages : PickPackage(q) /\ next' = q /\ pc' = "choose" /\ pc = "pick"
    BY <1>2 DEF Pick
  <2>2. p \in DOMAIN assignments /\ Potential(p)
    BY <2>1 DEF PickPackage, Potential
  <2>3. Queued(p)
    BY <2>1, <2>2 DEF PotentialWaiting, Waiting, Triggered, Queued, Done
  <2>4. p \in DOMAIN RefreshedQueue
    BY <2>2, <2>3 DEF RefreshedQueue, Queued
  <2>5. CASE p = q
    BY <2>1, <2>5 DEF Waiting
  <2>6. CASE p # q
    <3>1. PICK dropped \in SUBSET {r \in DOMAIN RefreshedQueue : ~Potential(r)} :
              prioritized' = [r \in DOMAIN RefreshedQueue \ (dropped \cup {q}) |->
                                 RefreshedQueue[r]]
      BY <2>1 DEF PickPackage
    <3>2. p \in DOMAIN prioritized'
      BY <2>2, <2>4, <2>6, <3>1
    <3> QED BY <3>2 DEF Queued
  <2> QED BY <2>5, <2>6
<1>3. CASE ~ReturnSolution /\ ~Pick
  <2>1. /\ p \in DOMAIN assignments /\ Potential(p) /\ assignments'[p] = assignments[p]
        /\ ~Queued(p) /\ ~BacktrackFromConflict
    BY <1>3, PotentialBefore
  <2>2. Waiting(p)
    BY <2>1 DEF PotentialWaiting
  <2>3. CASE Triggered(p)
    <3>1. Triggered(p)' \/ pc' \in {"conflict", "cancelled"}
      BY <2>1, <2>3, TriggeredStep
    <3> QED BY <3>1 DEF Waiting, Done
  <2>4. CASE pc \in Done \cup {"conflict"}
    <3>1. CASE UNCHANGED vars
      BY <2>4, <3>1 DEF Waiting, vars, solverVars
    <3>2. CASE pc \in Done /\ Next
      BY <3>2, StepsAt DEF Waiting, Terminated, vars, solverVars
    <3>3. CASE pc = "conflict" /\ Next
      <4>1. FailTerminal \/ ResolveConflict
        BY <2>1, <3>3, StepsAt
      <4> QED BY <3>3, <4>1 DEF Waiting, Done, FailTerminal, ResolveConflict
    <3> QED BY <2>4, <3>1, <3>2, <3>3
  <2>5. CASE pc \in {"choose", "merge", "decide"} /\ p = next
    <3>1. CASE UNCHANGED vars
      BY <2>5, <3>1 DEF Waiting, vars, solverVars
    <3>2. ~ChooseKnown /\ ~Accept
      <4>1. ASSUME NEW v, Decides(next, v) PROVE FALSE
        <5>1. assignments'[p] = Decision(assignments[p], v) /\ v \in Versions
          BY <2>5, <4>1, DecidedAssignments
        <5>2. IsDecision(assignments'[p])
          <6>1. assignments[p] \in PackageAssignmentsType
            BY <2>1, AssignmentParts
          <6> QED BY <5>1, <6>1, NoVersionAssumption
                  DEF IsDecision, Decision, PackageAssignmentsType
        <5> QED BY <2>1, <5>2 DEF Potential, IsPotential
      <4> QED BY <4>1, DecideDecides
    <3>3. CASE ProviderError \/ ChooseNew \/ MergeDependency \/ EndMerge
      BY <2>5, <3>3 DEF ProviderError, ChooseNew, MergeDependency, EndMerge, Waiting, Done
    <3>4. CASE ChooseNone \/ ChooseUnavailable
      <4>1. ListTriggers(p)' /\ pc' = "loop" /\ next' = p
        BY <2>1, <2>5, <3>4, RefusedTriggers DEF ChooseNone, ChooseUnavailable
      <4> QED BY <4>1 DEF Waiting, Triggered
    <3>5. CASE Reject
      <4>1. ListTriggers(p)' /\ pc' = "loop" /\ next' = p
        BY <2>1, <2>5, <3>5, RejectTriggers DEF Reject
      <4> QED BY <4>1 DEF Waiting, Triggered
    <3> QED BY <2>5, <3>1, <3>2, <3>3, <3>4, <3>5, StepsAt
  <2> QED BY <2>1, <2>2, <2>3, <2>4, <2>5 DEF Waiting, Queued
<1> QED BY <1>1, <1>2, <1>3

-----------------------------------------------------------------------------
(* Ok(selected) *)

\* A package that waits for a decision is in the queue when one is picked.
LEMMA WaitingQueued ==
    ASSUME Invariant, PotentialWaiting
    PROVE  NoLostPackage
<1> SUFFICES ASSUME pc = "pick", NEW p \in DOMAIN assignments, Potential(p)
             PROVE  p \in DOMAIN RefreshedQueue
  BY DEF NoLostPackage
<1>1. p \in DOMAIN prioritized \/ p \in outdated
  BY DEF PotentialWaiting, Waiting, Triggered, Done
<1> QED BY <1>1 DEF RefreshedQueue

\* What rules a negative term out is a positive term within its set.
LEMMA DisjointWithNegative ==
    ASSUME NEW set \in Ranges, NEW t \in TermType, IsDisjoint(Negative(set), t)
    PROVE  t.positive /\ t.set \subseteq set
BY DEF IsDisjoint, Negative, TermType

\* When propagation has ended, a decided version is available, and what it
\* depends on is known to be selected in the range it asks for.
LEMMA DecisionSettled ==
    ASSUME Invariant, HistoriesNarrow, DecisionsAsk, pc = "pick",
           NEW p \in DOMAIN assignments, IsDecision(assignments[p]),
           NEW v, v = assignments[p].version
    PROVE  /\ v \in Versions /\ assignments[p].term = Exact(v)
           /\ registry[p][v].status = "available"
           /\ \A i \in DOMAIN registry[p][v].dependencies :
                 LET q   == registry[p][v].dependencies[i][1]
                     set == registry[p][v].dependencies[i][2]
                 IN  q # p => /\ q \in DOMAIN assignments
                              /\ assignments[q].term.positive
                              /\ assignments[q].term.set \subseteq set
<1>1. /\ p \in Packages /\ assignments[p] \in PackageAssignmentsType
      /\ assignments[p].term \in TermType /\ assignments[p].term # EmptyTerm
  BY AssignmentParts DEF HistoryWellFormed
<1>2. v \in Versions
  BY <1>1 DEF IsDecision, PackageAssignmentsType, Selections
<1>3. assignments[p].term = Exact(v)
  <2>1. HistoryEnds(assignments[p])
    BY DEF HistoriesNarrow
  <2> QED BY <2>1 DEF HistoryEnds
<1>4. ASSUME NEW q \in Packages, NEW set \in Ranges, Asks(p, v, q, set)
      PROVE  /\ q \in DOMAIN assignments
             /\ assignments[q].term.positive
             /\ assignments[q].term.set \subseteq set
  <2>1. RuledOut(<<q, Negative(set)>>, assignments[p].highest)
    BY <1>4 DEF DecisionsAsk, AskPending
  <2>2. PICK x : x = <<q, Negative(set)>>
    OBVIOUS
  <2>3. x[1] = q /\ x[2] = Negative(set) /\ x[2] \in TermType
    BY <2>2 DEF Negative, TermType, Ranges
  <2>4. x[1] \in DOMAIN assignments /\ IsDisjoint(x[2], assignments[x[1]].term)
    BY <2>1, <2>2, <2>3, RuledOutIsDisjoint
  <2>5. assignments[q].term \in TermType
    BY <2>3, <2>4, AssignmentParts
  <2> QED BY <2>3, <2>4, <2>5, DisjointWithNegative
<1>5. registry[p][v].status = "available"
  <2>1. ASSUME registry[p][v].status # "available" PROVE FALSE
    <3>1. PICK set \in Ranges : set = {}
      BY DEF Ranges
    <3>2. Asks(p, v, p, set)
      BY <2>1, <3>1 DEF Asks
    <3>3. assignments[p].term.positive /\ assignments[p].term.set = {}
      BY <1>1, <1>4, <3>1, <3>2
    <3> QED BY <1>3, <3>3 DEF Exact, Positive
  <2> QED BY <2>1
<1>6. ASSUME NEW i \in DOMAIN registry[p][v].dependencies,
             registry[p][v].dependencies[i][1] # p
      PROVE  LET q   == registry[p][v].dependencies[i][1]
                 set == registry[p][v].dependencies[i][2]
             IN  /\ q \in DOMAIN assignments
                 /\ assignments[q].term.positive
                 /\ assignments[q].term.set \subseteq set
  <2>1. PICK q \in Packages, set \in Ranges :
            q = registry[p][v].dependencies[i][1] /\ set = registry[p][v].dependencies[i][2]
    BY <1>1, <1>2, DependencyParts
  <2>2. registry[p][v].dependencies[i] = <<q, set>>
    <3>1. registry \in RegistryType
      BY InvariantParts, RegistriesAssumption DEF SolverTypeOK
    <3>2. registry[p][v].dependencies \in Seq(Packages \X SUBSET Versions)
      BY <1>1, <1>2, <3>1 DEF RegistryType, RegistryEntry
    <3>3. registry[p][v].dependencies[i] \in Packages \X SUBSET Versions
      BY <3>2
    <3> QED BY <2>1, <3>3
  <2>3. Asks(p, v, q, set)
    BY <1>5, <1>6, <2>1, <2>2 DEF Asks
  <2> QED BY <1>4, <2>1, <2>3
<1> QED BY <1>2, <1>3, <1>5, <1>6

LEMMA Settled ==
    ASSUME Invariant, HistoriesNarrow, DecisionsAsk, SelfSound
    PROVE  DependenciesSettled
<1> SUFFICES ASSUME pc = "pick", NEW p \in DOMAIN assignments, Decided(p),
                    NEW v, v = assignments[p].version,
                    NEW i \in DOMAIN registry[p][v].dependencies
             PROVE  LET q   == registry[p][v].dependencies[i][1]
                        set == registry[p][v].dependencies[i][2]
                    IN  /\ q \in DOMAIN assignments
                        /\ assignments[q].term.positive
                        /\ assignments[q].term.set \subseteq set
  BY DEF DependenciesSettled
<1>1. IsDecision(assignments[p]) /\ p \in Packages
  BY AssignmentParts DEF Decided
<1>2. v \in Versions /\ assignments[p].term = Exact(v)
  BY <1>1, DecisionSettled
<1>3. CASE registry[p][v].dependencies[i][1] # p
  BY <1>1, <1>3, DecisionSettled
<1>4. CASE registry[p][v].dependencies[i][1] = p
  <2>1. v \in registry[p][v].dependencies[i][2]
    BY <1>1, <1>2, <1>4 DEF SelfSound, NoBrokenSelfDependency
  <2> QED BY <1>2, <1>4, <2>1 DEF Exact, Positive
<1> QED BY <1>3, <1>4

\* What is returned is a solution.
LEMMA ReturnedSolution ==
    ASSUME Invariant, HistoriesNarrow, PositionsExact, RootSettled, DecisionsAsk,
           SelfSound, PotentialWaiting, ReturnSolution
    PROVE  IsSolution(registry, ExtractSolution)
<1>1. pc = "pick" /\ PickNone
  BY DEF ReturnSolution
<1>2. \A p \in DOMAIN assignments : assignments[p].term.positive => IsDecision(assignments[p])
  BY <1>1, WaitingQueued DEF NoLostPackage, PickNone, Potential, IsPotential
<1>3. \A p \in Packages :
         ExtractSolution[p] = IF p \in DOMAIN assignments /\ IsDecision(assignments[p])
                              THEN assignments[p].version ELSE NoVersion
  BY DEF PositionsExact, DecisionsFirst, Decided, ExtractSolution
<1>4. ASSUME NEW p \in DOMAIN assignments, NEW set \in Ranges,
             assignments[p].term.positive, assignments[p].term.set \subseteq set
      PROVE  ExtractSolution[p] \in set
  <2>1. p \in Packages /\ IsDecision(assignments[p])
    BY <1>2, <1>4, AssignmentParts
  <2>2. assignments[p].term = Exact(assignments[p].version)
    BY <1>1, <2>1, DecisionSettled
  <2> QED BY <1>3, <1>4, <2>1, <2>2 DEF Exact, Positive
<1>5. ExtractSolution[RootPackage] = RootVersion
  <2>1. PICK x : x = <<RootPackage, Negative({RootVersion})>>
    OBVIOUS
  <2>2. RuledOut(x, 0)
    BY <1>1, <2>1 DEF RootSettled, NothingYet
  <2>3. PICK set \in Ranges : set = {RootVersion}
    BY RootAssumption DEF Ranges
  <2>4. x[1] = RootPackage /\ x[2] = Negative(set) /\ x[2] \in TermType
    BY <2>1, <2>3 DEF Negative, TermType, Ranges
  <2>5. RootPackage \in DOMAIN assignments /\ IsDisjoint(Negative(set), assignments[RootPackage].term)
    BY <2>2, <2>4, RuledOutIsDisjoint
  <2>6. assignments[RootPackage].term \in TermType
    BY <2>5, AssignmentParts
  <2>7. ExtractSolution[RootPackage] \in set
    BY <1>4, <2>5, <2>6, DisjointWithNegative
  <2> QED BY <2>3, <2>7
<1>6. ASSUME NEW p \in Packages, ExtractSolution[p] # NoVersion
      PROVE  DependenciesMet(registry, ExtractSolution, p)
  <2>1. PICK v : v = ExtractSolution[p]
    OBVIOUS
  <2>2. p \in DOMAIN assignments /\ IsDecision(assignments[p]) /\ v = assignments[p].version
    BY <1>3, <1>6, <2>1
  <2>3. v \in Versions /\ registry[p][v].status = "available"
    BY <1>1, <2>2, DecisionSettled
  <2>4. ASSUME NEW i \in DOMAIN registry[p][v].dependencies
        PROVE  ExtractSolution[registry[p][v].dependencies[i][1]]
                  \in registry[p][v].dependencies[i][2]
    <3>1. PICK q \in Packages, set \in Ranges :
              q = registry[p][v].dependencies[i][1] /\ set = registry[p][v].dependencies[i][2]
      BY <2>3, DependencyParts
    <3>2. q \in DOMAIN assignments /\ assignments[q].term.positive
          /\ assignments[q].term.set \subseteq set
      <4>1. DependenciesSettled
        BY Settled
      <4> QED BY <1>1, <2>2, <3>1, <4>1 DEF DependenciesSettled, Decided
    <3> QED BY <1>4, <3>1, <3>2
  <2> QED BY <2>1, <2>3, <2>4 DEF DependenciesMet
<1> QED BY <1>5, <1>6 DEF IsSolution

LEMMA SolutionSoundStep ==
    ASSUME Invariant, HistoriesNarrow, PositionsExact, RootSettled, DecisionsAsk,
           SelfSound, PotentialWaiting, SolutionSound, [Next]_vars
    PROVE  SolutionSound'
<1> SUFFICES ASSUME pc' = "solution"
             PROVE  IsSolution(registry', solution')
  BY DEF SolutionSound
<1>1. registry' = registry
  BY RegistryKept
<1>2. CASE ReturnSolution
  <2>1. solution' = ExtractSolution /\ IsSolution(registry, ExtractSolution)
    BY <1>2, ReturnedSolution DEF ReturnSolution
  <2> QED BY <1>1, <2>1
<1>3. CASE UNCHANGED vars
  BY <1>1, <1>3 DEF SolutionSound, vars, solverVars
<1>4. CASE Next /\ ~ReturnSolution
  <2>1. pc = "solution" /\ UNCHANGED vars
    <3>1. CASE \/ Cancel \/ StartPropagation \/ PopPackage \/ EndPropagation
               \/ SkipContradicted \/ ScanConflict \/ ScanAlmostSatisfied
               \/ ScanContradicted \/ ScanInconclusive \/ EndScan
               \/ FailTerminal \/ ResolveConflict \/ BacktrackFromConflict \/ Learn
      BY <3>1 DEF Cancel, StartPropagation, PopPackage, EndPropagation, SkipContradicted,
           ScanConflict, ScanAlmostSatisfied, ScanContradicted, ScanInconclusive, EndScan,
           Scanning, FailTerminal, ResolveConflict, Resolving, BacktrackFromConflict, Learn
    <3>2. CASE \/ Pick \/ ProviderError \/ ChooseNone \/ ChooseUnavailable \/ ChooseNew
               \/ ChooseKnown \/ MergeDependency \/ EndMerge \/ Accept \/ Reject
      BY <3>2 DEF Pick, ProviderError, ChooseNone, ChooseUnavailable, ChooseNew, ChooseKnown,
           MergeDependency, EndMerge, Accept, Reject
    <3>3. CASE Terminated
      BY <3>3 DEF Terminated, vars, solverVars
    <3> QED BY <1>4, <3>1, <3>2, <3>3 DEF Next
  <2> QED BY <1>3, <2>1
<1> QED BY <1>2, <1>3, <1>4

-----------------------------------------------------------------------------
(* The inductive invariant, and what follows from it *)

LEMMA InitAnswer == Init => AnswerInvariant
<1> SUFFICES ASSUME Init
             PROVE  AnswerInvariant
  OBVIOUS
<1>1. Invariant
  BY InitInvariant
<1>2. HistoriesNarrow /\ PositionsExact /\ MarksRuledOut
  BY InitTrail DEF TrailInvariant
<1>3. /\ pc = "loop" /\ next = RootPackage /\ addedDependencies = {}
      /\ DOMAIN assignments = {} /\ DOMAIN contradicted = {} /\ currentDecisionLevel = 0
  BY DEF Init, PSInit, CoreInit
<1>4. RootSettled
  <2>1. incompatibilities[RootPackage] = <<1>>
    BY RootAssumption DEF Init, CoreInit
  <2>2. Len(store) = 1 /\ store[1] = NotRoot
    <3>1. store = <<NotRoot>>
      BY DEF Init, CoreInit
    <3>2. PICK first : first = NotRoot
      OBVIOUS
    <3>3. store = <<first>>
      BY <3>1, <3>2
    <3> QED BY <3>2, <3>3
  <2> QED BY <1>3, <2>1, <2>2 DEF RootSettled, NothingYet
<1>5. AddedStated /\ FreshOfChosen /\ DecisionsAsk
  BY <1>3 DEF AddedStated, FreshOfChosen, DecisionsAsk
<1>6. PotentialWaiting /\ SolutionSound
  BY <1>3 DEF PotentialWaiting, SolutionSound
<1> QED BY <1>1, <1>2, <1>4, <1>5, <1>6 DEF AnswerInvariant

LEMMA NextAnswer == AnswerInvariant /\ [Next]_vars => AnswerInvariant'
<1> SUFFICES ASSUME AnswerInvariant, [Next]_vars
             PROVE  AnswerInvariant'
  OBVIOUS
<1>1. /\ Invariant /\ HistoriesNarrow /\ PositionsExact /\ MarksRuledOut
      /\ RootSettled /\ AddedStated /\ FreshOfChosen /\ DecisionsAsk
      /\ SelfSound => PotentialWaiting /\ SolutionSound
  BY DEF AnswerInvariant
<1>2. /\ Invariant' /\ HistoriesNarrow' /\ PositionsExact' /\ MarksRuledOut'
  BY <1>1, NextInvariant, HistoriesNarrowStep, PositionsStep, MarksRuledOutStep
<1>3. RootSettled'
  BY <1>1, RootSettledStep
<1>4. AddedStated' /\ FreshOfChosen' /\ DecisionsAsk'
  BY <1>1, AddedStatedStep, FreshOfChosenStep, DecisionsAskStep
<1>5. SelfSound' => PotentialWaiting' /\ SolutionSound'
  <2>1. SelfSound' => SelfSound
    BY RegistryKept DEF SelfSound, NoBrokenSelfDependency
  <2> QED BY <1>1, <2>1, PotentialWaitingStep, SolutionSoundStep
<1> QED BY <1>2, <1>3, <1>4, <1>5 DEF AnswerInvariant

\* The inductive invariant holds: what the history of each package says, what
\* the cache and the queue may leave out, and which dependencies of the
\* versions decided are still to be looked at (`resolve', src/src/solver.rs).
THEOREM AlwaysAnswer == Spec => []AnswerInvariant
BY InitAnswer, NextAnswer, PTL DEF Spec

\* Merging loses nothing: each dependency that get_dependencies answered is
\* stated, in all of its range, by an incompatibility that both packages are
\* listed with (`merge_incompatibility', src/src/internal/core.rs).
THEOREM DependenciesAlwaysRecorded == Spec => []DependenciesRecorded
<1>1. AnswerInvariant => DependenciesRecorded
  BY AddedRecorded DEF AnswerInvariant
<1> QED BY <1>1, AlwaysAnswer, PTL

\* Unless a version excludes itself, no package that waits for a decision is
\* lost: it is in the queue when the next one is picked, whatever was dropped,
\* rejected or backtracked (`pick_highest_priority_pkg' and `backtrack',
\* src/src/internal/partial_solution.rs).
THEOREM NoPackageLost == Spec => [](NoBrokenSelfDependency(registry) => NoLostPackage)
<1>1. AnswerInvariant => (NoBrokenSelfDependency(registry) => NoLostPackage)
  BY WaitingQueued DEF AnswerInvariant, SelfSound
<1> QED BY <1>1, AlwaysAnswer, PTL

\* When unit propagation ends, what the decided versions depend on is known to
\* be selected in the ranges they ask for, unless a version excludes itself:
\* neither the cache of contradicted incompatibilities nor the scans that a
\* conflict cuts short leave one out (`unit_propagation', src/src/internal/core.rs).
THEOREM DependenciesAlwaysSettled ==
    Spec => [](NoBrokenSelfDependency(registry) => DependenciesSettled)
<1>1. AnswerInvariant => (NoBrokenSelfDependency(registry) => DependenciesSettled)
  BY Settled DEF AnswerInvariant, SelfSound
<1> QED BY <1>1, AlwaysAnswer, PTL

\* What `resolve' returns is a solution, whatever the provider chooses and in
\* whatever order the packages are decided: the root has its version, and each
\* selected version is available and has its dependencies selected in the
\* ranges it asks for.  The one thing asked of the provider is that no version
\* excludes itself (`resolve', src/src/solver.rs).
THEOREM SolutionAlwaysSound ==
    Spec => [](NoBrokenSelfDependency(registry) => SolutionSound)
<1>1. AnswerInvariant => (NoBrokenSelfDependency(registry) => SolutionSound)
  BY DEF AnswerInvariant, SelfSound
<1> QED BY <1>1, AlwaysAnswer, PTL
=============================================================================
