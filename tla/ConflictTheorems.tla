-------------------------- MODULE ConflictTheorems --------------------------
(***************************************************************************)
(* Conflict resolution: the incompatibility at hand is satisfied at each   *)
(* step, the search for satisfiers finds what it needs, backtracking goes  *)
(* to where the root cause derives something new, and nothing panics.      *)
(***************************************************************************)
EXTENDS AnswerTheorems, ConflictInvariant

-----------------------------------------------------------------------------
(* The moments of the assignments *)

LEMMA MomentsMeaning ==
    ASSUME NEW a, NEW m
    PROVE  m \in Moments(a) <=>
               \/ \E i \in DOMAIN a.dated : m = Moment(a.dated[i].index, a.dated[i].level)
               \/ IsDecision(a) /\ m = DecisionMoment(a)
BY DEF Moments

\* They lie before the next index, at the current level or before.
LEMMA MomentsTyped ==
    ASSUME Invariant, HistoriesNarrow, NEW p \in DOMAIN assignments,
           NEW m \in Moments(assignments[p])
    PROVE  /\ m.index \in Nat /\ m.level \in Nat
           /\ m.index < nextGlobalIndex /\ m.level <= currentDecisionLevel
           /\ nextGlobalIndex \in Nat /\ currentDecisionLevel \in Nat
<1> DEFINE a == assignments[p]
<1>1. /\ a \in PackageAssignmentsType /\ HistoryWellFormed(a, currentDecisionLevel)
      /\ nextGlobalIndex \in Nat /\ currentDecisionLevel \in Nat
  BY AssignmentParts
<1>2. IndicesBelow(a, nextGlobalIndex)
  BY DEF HistoriesNarrow
<1> HIDE DEF a
<1>3. a.highest \in Nat /\ a.highest <= currentDecisionLevel /\ a.index \in Nat
  BY <1>1 DEF HistoryWellFormed, PackageAssignmentsType
<1>4. ASSUME NEW i \in DOMAIN a.dated
      PROVE  /\ a.dated[i].index \in Nat /\ a.dated[i].level \in Nat
             /\ a.dated[i].index < nextGlobalIndex /\ a.dated[i].level <= currentDecisionLevel
  <2>1. a.dated[i] \in DatedDerivationType
    BY <1>1 DEF PackageAssignmentsType
  <2>2. a.dated[i].index \in Nat /\ a.dated[i].level \in Nat
    BY <2>1 DEF DatedDerivationType
  <2>3. a.dated[i].level <= a.highest
    BY <1>1 DEF HistoryWellFormed
  <2> QED BY <1>1, <1>2, <1>3, <2>2, <2>3 DEF IndicesBelow
<1>5. CASE \E i \in DOMAIN a.dated : m = Moment(a.dated[i].index, a.dated[i].level)
  <2>1. PICK i \in DOMAIN a.dated : m = Moment(a.dated[i].index, a.dated[i].level)
    BY <1>5
  <2>2. m.index = a.dated[i].index /\ m.level = a.dated[i].level
    BY <2>1 DEF Moment
  <2> QED BY <1>1, <1>4, <2>2
<1>6. CASE IsDecision(a) /\ m = DecisionMoment(a)
  <2>1. m.index = a.index /\ m.level = a.highest
    BY <1>6 DEF DecisionMoment, Moment
  <2> QED BY <1>1, <1>2, <1>3, <1>6, <2>1 DEF IndicesBelow
<1> QED BY <1>5, <1>6, MomentsMeaning DEF a

\* What a derivation, a decision or a cut does to the moments of a package.
LEMMA DerivationMoments ==
    ASSUME NEW a \in PackageAssignmentsType, ~IsDecision(a), NEW cause, NEW t,
           NEW m \in Moments(NextDerivation(a, cause, t))
    PROVE  /\ m \in Moments(a) \/ m = Moment(nextGlobalIndex, currentDecisionLevel)
           /\ ~IsDecision(NextDerivation(a, cause, t))
<1> DEFINE d == DatedDerivation(cause, Intersection(a.term, t))
           b == NextDerivation(a, cause, t)
<1>1. /\ b.dated = Append(a.dated, d) /\ a.dated \in Seq(DatedDerivationType)
      /\ b.version = a.version
  BY DEF NextDerivation, PackageAssignmentsType
<1>2. d.index = nextGlobalIndex /\ d.level = currentDecisionLevel
  BY DEF DatedDerivation
<1>3. m \in Moments(b)
  OBVIOUS
<1> HIDE DEF b, d
<1>4. ~IsDecision(b)
  BY <1>1 DEF IsDecision
<1>5. PICK i \in DOMAIN b.dated : m = Moment(b.dated[i].index, b.dated[i].level)
  BY <1>3, <1>4, MomentsMeaning
<1>6. CASE i = Len(a.dated) + 1
  <2>1. b.dated[i] = d
    BY <1>1, <1>6
  <2> QED BY <1>2, <1>4, <1>5, <2>1 DEF b
<1>7. CASE i # Len(a.dated) + 1
  <2>1. i \in DOMAIN a.dated /\ b.dated[i] = a.dated[i]
    BY <1>1, <1>5, <1>7
  <2> QED BY <1>4, <1>5, <2>1, MomentsMeaning DEF b
<1> QED BY <1>6, <1>7

LEMMA FirstDerivationMoments ==
    ASSUME NEW cause, NEW t, NEW m \in Moments(FirstDerivation(cause, t))
    PROVE  /\ m = Moment(nextGlobalIndex, currentDecisionLevel)
           /\ ~IsDecision(FirstDerivation(cause, t))
<1> DEFINE d == DatedDerivation(cause, t)
           b == FirstDerivation(cause, t)
<1>1. b.dated = <<d>> /\ b.version = NoVersion
  BY DEF FirstDerivation
<1>2. d.index = nextGlobalIndex /\ d.level = currentDecisionLevel
  BY DEF DatedDerivation
<1>3. m \in Moments(b)
  OBVIOUS
<1> HIDE DEF b, d
<1>4. ~IsDecision(b)
  BY <1>1 DEF IsDecision
<1>5. PICK i \in DOMAIN b.dated : m = Moment(b.dated[i].index, b.dated[i].level)
  BY <1>3, <1>4, MomentsMeaning
<1>6. b.dated[i] = d
  BY <1>1
<1> QED BY <1>2, <1>4, <1>5, <1>6 DEF b

LEMMA DecisionMoments ==
    ASSUME NEW a \in PackageAssignmentsType, NEW v \in Versions,
           NEW m \in Moments(Decision(a, v))
    PROVE  /\ DecisionMoment(Decision(a, v)) = Moment(nextGlobalIndex, currentDecisionLevel + 1)
           /\ m \in Moments(a) \/ m = Moment(nextGlobalIndex, currentDecisionLevel + 1)
<1> DEFINE b == Decision(a, v)
<1>1. b.dated = a.dated /\ b.index = nextGlobalIndex /\ b.highest = currentDecisionLevel + 1
  BY DEF Decision, PackageAssignmentsType
<1>2. m \in Moments(b)
  OBVIOUS
<1> HIDE DEF b
<1>3. DecisionMoment(b) = Moment(nextGlobalIndex, currentDecisionLevel + 1)
  BY <1>1 DEF DecisionMoment
<1>4. \/ \E i \in DOMAIN b.dated : m = Moment(b.dated[i].index, b.dated[i].level)
      \/ m = DecisionMoment(b)
  BY <1>2, MomentsMeaning
<1> QED BY <1>1, <1>3, <1>4, MomentsMeaning DEF b

LEMMA CutMoments ==
    ASSUME NEW a \in PackageAssignmentsType, NEW now \in Nat, HistoryWellFormed(a, now),
           NEW level \in Nat, a.smallest <= level
    PROVE  /\ Moments(BacktrackedAssignment(a, level)) \subseteq Moments(a)
           /\ IsDecision(BacktrackedAssignment(a, level)) => BacktrackedAssignment(a, level) = a
<1>1. CASE a.highest <= level
  BY <1>1 DEF BacktrackedAssignment
<1>2. CASE ~(a.highest <= level)
  <2> DEFINE b == Truncate(a, level)
             n == KeptDerivations(a.dated, level)
  <2>1. /\ DOMAIN b.dated = 1 .. n
        /\ \A i \in 1 .. n : i \in DOMAIN a.dated /\ b.dated[i] = a.dated[i]
    BY TruncateWellFormed
  <2>2. b.version = NoVersion
    BY DEF Truncate, PackageAssignmentsType
  <2> HIDE DEF b, n
  <2>3. ~IsDecision(b)
    BY <2>2 DEF IsDecision
  <2>4. ASSUME NEW m \in Moments(b) PROVE m \in Moments(a)
    <3>1. PICK i \in DOMAIN b.dated : m = Moment(b.dated[i].index, b.dated[i].level)
      BY <2>3, MomentsMeaning
    <3>2. i \in DOMAIN a.dated /\ b.dated[i] = a.dated[i]
      BY <2>1, <3>1
    <3> QED BY <3>1, <3>2, MomentsMeaning
  <2> QED BY <1>2, <2>3, <2>4 DEF BacktrackedAssignment, b
<1> QED BY <1>1, <1>2
-----------------------------------------------------------------------------
(* Assignments are made in order *)

OldMoment(p, m) == p \in DOMAIN assignments /\ m \in Moments(assignments[p])

\* The order stays when nothing is added but the moment of p that comes last.
LEMMA StaysOrdered ==
    ASSUME Invariant, HistoriesNarrow, AssignmentsOrdered, NEW p, NEW new,
           new.index = nextGlobalIndex,
           new.level \in Nat, new.level >= currentDecisionLevel,
           \A q \in DOMAIN assignments' : \A m \in Moments(assignments'[q]) :
               \/ OldMoment(q, m)
               \/ q = p /\ m = new,
           \A q \in DOMAIN assignments' : IsDecision(assignments'[q]) =>
               \/ /\ q \in DOMAIN assignments /\ IsDecision(assignments[q])
                  /\ DecisionMoment(assignments'[q]) = DecisionMoment(assignments[q])
               \/ /\ DecisionMoment(assignments'[q]) = new
                  /\ new.level > currentDecisionLevel
    PROVE  AssignmentsOrdered'
<1>1. nextGlobalIndex \in Nat /\ currentDecisionLevel \in Nat
  BY DEF Invariant, TypeOK, PSTypeOK
<1>2. ASSUME NEW q, NEW m, OldMoment(q, m)
      PROVE  /\ m.index \in Nat /\ m.level \in Nat
             /\ m.index < new.index /\ m.level <= currentDecisionLevel
  BY <1>2, MomentsTyped DEF OldMoment
<1>3. ASSUME NEW q \in DOMAIN assignments', NEW r \in DOMAIN assignments',
             NEW m \in Moments(assignments'[q]), NEW n \in Moments(assignments'[r])
      PROVE  /\ m.index <= n.index => m.level <= n.level
             /\ m.index = n.index => q = r
             /\ IsDecision(assignments'[r]) /\ n = DecisionMoment(assignments'[r])
                   /\ m.index < n.index => m.level < n.level
  <2>1. CASE OldMoment(q, m) /\ OldMoment(r, n)
    <3>1. InOrder(q, r, assignments[q], assignments[r])
      BY <2>1 DEF OldMoment, AssignmentsOrdered
    <3>2. ~(n = new)
      BY <1>1, <1>2, <2>1
    <3>3. IsDecision(assignments'[r]) /\ n = DecisionMoment(assignments'[r]) =>
             IsDecision(assignments[r]) /\ n = DecisionMoment(assignments[r])
      BY <3>2
    <3> QED BY <2>1, <3>1, <3>3 DEF OldMoment, InOrder
  <2>2. CASE OldMoment(q, m) /\ ~OldMoment(r, n)
    <3>1. n = new
      BY <2>2
    <3>2. m.index \in Nat /\ m.level \in Nat /\ m.index < new.index
          /\ m.level <= currentDecisionLevel
      BY <1>2, <2>2
    <3>3. ASSUME IsDecision(assignments'[r]), n = DecisionMoment(assignments'[r])
          PROVE  new.level > currentDecisionLevel
      <4>1. CASE /\ r \in DOMAIN assignments /\ IsDecision(assignments[r])
                 /\ DecisionMoment(assignments'[r]) = DecisionMoment(assignments[r])
        <5>1. OldMoment(r, n)
          BY <3>3, <4>1, MomentsMeaning DEF OldMoment
        <5> QED BY <2>2, <5>1
      <4> QED BY <3>3, <4>1
    <3> QED BY <1>1, <3>1, <3>2, <3>3
  <2>3. CASE ~OldMoment(q, m) /\ OldMoment(r, n)
    <3>1. m = new
      BY <2>3
    <3>2. n.index \in Nat /\ n.index < new.index
      BY <1>2, <2>3
    <3> QED BY <1>1, <3>1, <3>2
  <2>4. CASE ~OldMoment(q, m) /\ ~OldMoment(r, n)
    <3>1. q = p /\ m = new /\ r = p /\ n = new
      BY <2>4
    <3> QED BY <1>1, <3>1
  <2> QED BY <2>1, <2>2, <2>3, <2>4
<1> QED BY <1>3 DEF AssignmentsOrdered, InOrder

LEMMA OrderedStep ==
    ASSUME Invariant, HistoriesNarrow, AssignmentsOrdered, [Next]_vars
    PROVE  AssignmentsOrdered'
<1>1. CASE Quiet
  BY <1>1 DEF Quiet, AssignmentsOrdered
<1>2. CASE \E p, id : Derives(p, id)
  <2>1. PICK p, id : Derives(p, id)
    BY <1>2
  <2> DEFINE t == Negate(Get(store[id].terms, p))
             new == Moment(nextGlobalIndex, currentDecisionLevel)
  <2>2. /\ p \notin DOMAIN assignments \/ ~IsDecision(assignments[p])
        /\ DOMAIN assignments' = DOMAIN assignments \cup {p}
        /\ assignments'[p] = IF p \in DOMAIN assignments
                             THEN NextDerivation(assignments[p], id, t)
                             ELSE FirstDerivation(id, t)
        /\ \A q \in DOMAIN assignments : q # p => assignments'[q] = assignments[q]
    BY <2>1, DerivedAssignments
  <2>3. new.index = nextGlobalIndex /\ new.level = currentDecisionLevel
    BY DEF Moment
  <2>4. currentDecisionLevel \in Nat
    BY DEF Invariant, TypeOK, PSTypeOK
  <2> HIDE DEF t
  <2>5. /\ \A m \in Moments(assignments'[p]) : OldMoment(p, m) \/ m = new
        /\ ~IsDecision(assignments'[p])
    <3>1. CASE p \in DOMAIN assignments
      <4>1. assignments[p] \in PackageAssignmentsType
        BY <3>1, AssignmentParts
      <4> DEFINE b == NextDerivation(assignments[p], id, t)
      <4>2. assignments'[p] = b
        BY <2>2, <3>1
      <4>3. \A m \in Moments(b) : m \in Moments(assignments[p]) \/ m = new
        BY <2>2, <3>1, <4>1, DerivationMoments
      <4>4. ~IsDecision(b)
        BY <2>2, <3>1, <4>1 DEF NextDerivation, PackageAssignmentsType, IsDecision
      <4> HIDE DEF b, new
      <4> QED BY <3>1, <4>2, <4>3, <4>4 DEF OldMoment
    <3>2. CASE p \notin DOMAIN assignments
      <4> DEFINE b == FirstDerivation(id, t)
      <4>2. assignments'[p] = b
        BY <2>2, <3>2
      <4>3. \A m \in Moments(b) : m = new
        BY FirstDerivationMoments
      <4>4. ~IsDecision(b)
        BY DEF FirstDerivation, IsDecision
      <4> HIDE DEF b, new
      <4> QED BY <4>2, <4>3, <4>4
    <3> QED BY <3>1, <3>2
  <2> HIDE DEF new
  <2>6. \A q \in DOMAIN assignments' : \A m \in Moments(assignments'[q]) :
           \/ OldMoment(q, m)
           \/ q = p /\ m = new
    BY <2>2, <2>5 DEF OldMoment
  <2>7. \A q \in DOMAIN assignments' : IsDecision(assignments'[q]) =>
           q \in DOMAIN assignments /\ assignments'[q] = assignments[q]
    BY <2>2, <2>5
  <2> QED BY <2>3, <2>4, <2>6, <2>7, StaysOrdered
<1>3. CASE \E p, v : Decides(p, v)
  <2>1. PICK p, v : Decides(p, v)
    BY <1>3
  <2> DEFINE new == Moment(nextGlobalIndex, currentDecisionLevel + 1)
             b   == Decision(assignments[p], v)
  <2>2. /\ p \in DOMAIN assignments /\ v \in Versions
        /\ DOMAIN assignments' = DOMAIN assignments
        /\ assignments'[p] = b
        /\ \A q \in DOMAIN assignments : q # p => assignments'[q] = assignments[q]
    BY <2>1, DecidedAssignments
  <2>3. new.index = nextGlobalIndex /\ new.level = currentDecisionLevel + 1
    BY DEF Moment
  <2>4. currentDecisionLevel \in Nat /\ assignments[p] \in PackageAssignmentsType
    BY <2>2, AssignmentParts
  <2>5. IsDecision(b)
    BY <2>2, <2>4, NoVersionAssumption DEF Decision, PackageAssignmentsType, IsDecision
  <2>6. DecisionMoment(b) \in Moments(b)
    BY <2>5, MomentsMeaning
  <2>7. \A m \in Moments(b) : m \in Moments(assignments[p]) \/ m = new
    BY <2>2, <2>4, DecisionMoments
  <2>8. DecisionMoment(b) = new
    BY <2>2, <2>4, <2>6, DecisionMoments
  <2> HIDE DEF new, b
  <2>9. \A q \in DOMAIN assignments' : \A m \in Moments(assignments'[q]) :
           \/ OldMoment(q, m)
           \/ q = p /\ m = new
    BY <2>2, <2>7 DEF OldMoment
  <2>10. \A q \in DOMAIN assignments' : IsDecision(assignments'[q]) =>
            \/ q \in DOMAIN assignments /\ assignments'[q] = assignments[q]
            \/ DecisionMoment(assignments'[q]) = new
    BY <2>2, <2>8
  <2>11. new.level \in Nat /\ new.level >= currentDecisionLevel /\ new.level > currentDecisionLevel
    BY <2>3, <2>4
  <2>12. \A q \in DOMAIN assignments' : IsDecision(assignments'[q]) =>
               \/ /\ q \in DOMAIN assignments /\ IsDecision(assignments[q])
                  /\ DecisionMoment(assignments'[q]) = DecisionMoment(assignments[q])
               \/ /\ DecisionMoment(assignments'[q]) = new
                  /\ new.level > currentDecisionLevel
    BY <2>10, <2>11
  <2> QED BY <2>3, <2>9, <2>11, <2>12, StaysOrdered
<1>4. CASE \E level : Backs(level)
  <2>1. PICK level : Backs(level)
    BY <1>4
  <2>2. /\ level \in Nat
        /\ \A q \in DOMAIN assignments' : /\ q \in DOMAIN assignments
                                          /\ assignments[q].smallest <= level
                                          /\ assignments'[q] = BacktrackedAssignment(assignments[q], level)
    BY <2>1, BackedAssignments
  <2>3. \A q \in DOMAIN assignments' :
           /\ Moments(assignments'[q]) \subseteq Moments(assignments[q])
           /\ IsDecision(assignments'[q]) => assignments'[q] = assignments[q]
    <3> TAKE q \in DOMAIN assignments'
    <3>1. /\ q \in DOMAIN assignments /\ assignments[q].smallest <= level
          /\ assignments'[q] = BacktrackedAssignment(assignments[q], level)
      BY <2>2
    <3>2. /\ assignments[q] \in PackageAssignmentsType /\ currentDecisionLevel \in Nat
          /\ HistoryWellFormed(assignments[q], currentDecisionLevel)
      BY <3>1, AssignmentParts
    <3> QED BY <2>2, <3>1, <3>2, CutMoments
  <2> DEFINE new == Moment(nextGlobalIndex, currentDecisionLevel)
  <2>4. new.index = nextGlobalIndex /\ new.level = currentDecisionLevel
    BY DEF Moment
  <2>5. currentDecisionLevel \in Nat
    BY DEF Invariant, TypeOK, PSTypeOK
  <2> HIDE DEF new
  <2>6. \A q \in DOMAIN assignments' : \A m \in Moments(assignments'[q]) : OldMoment(q, m)
    BY <2>2, <2>3 DEF OldMoment
  <2>7. \A q \in DOMAIN assignments' : IsDecision(assignments'[q]) =>
           q \in DOMAIN assignments /\ assignments'[q] = assignments[q]
    BY <2>2, <2>3
  <2> QED BY <2>4, <2>5, <2>6, <2>7, StaysOrdered
<1> QED BY <1>1, <1>2, <1>3, <1>4, StepKinds DEF TrailStep
-----------------------------------------------------------------------------
(* How the store grows *)

LEMMA StoreSteps ==
    ASSUME [Next]_vars
    PROVE  \/ UNCHANGED store
           \/ ResolveConflict \/ BacktrackFromConflict
           \/ ChooseNone \/ ChooseUnavailable \/ ChooseNew \/ MergeDependency
BY DEF Next, vars, coreVars, solverVars, psVars, Cancel, StartPropagation, PopPackage,
       EndPropagation, SkipContradicted, ScanConflict, ScanAlmostSatisfied,
       PropagateAlmostSatisfied, ScanContradicted, FindContradicted, ScanInconclusive,
       FindInconclusive, EndScan, FailTerminal, Learn, LearnRootCause, ReturnSolution, Pick,
       ProviderError, ChooseKnown, EndMerge, Accept, Reject, Terminated

LEMMA PriorCausePackages ==
    ASSUME NEW terms1, NEW terms2, NEW p
    PROVE  IncompatPackages(PriorCauseTerms(terms1, terms2, p))
               \subseteq IncompatPackages(terms1) \cup IncompatPackages(terms2) \cup {p}
<1> DEFINE A    == terms1 \ {<<p, Get(terms1, p)>>}
           B    == {x \in terms2 : x[1] # p}
           rest == MergeTerms(A, B)
<1>1. A \subseteq terms1 /\ B \subseteq terms2
  OBVIOUS
<1> HIDE DEF A, B
<1>2. \A x \in rest : x[1] \in IncompatPackages(terms1) \cup IncompatPackages(terms2)
  BY <1>1 DEF MergeTerms, IncompatPackages
<1>3. \A x \in PriorCauseTerms(terms1, terms2, p) : x \in rest \/ x[1] = p
  BY DEF PriorCauseTerms, A, B
<1> HIDE DEF rest
<1> QED BY <1>2, <1>3 DEF IncompatPackages

\* What one step of conflict resolution does: the satisfier that comes last is
\* resolved with its cause, ...
Searched(s, previous) ==
    /\ HasSatisfiers(store[conflict].terms)
    /\ s \in SatisfiedMap(store[conflict].terms)
    /\ previous \in PreviousMap(store, store[conflict].terms, s)
    /\ SatisfierSearch(store, store[conflict].terms, s, previous)

LEMMA ResolvedConflict ==
    ASSUME Invariant, ResolveConflict
    PROVE  \E s, previous :
              /\ Searched(s, previous) /\ SameDecisionLevels(s, previous)
              /\ s.cause \in Ids /\ s.package \in IncompatPackages(store[conflict].terms)
              /\ s.package \in IncompatPackages(store[s.cause].terms)
              /\ Resolvable(store[s.cause].terms)
              /\ store' = Append(store, PriorCause(store, conflict, s.cause, s.package))
              /\ conflict' = Len(store) + 1
<1>1. PICK s \in SatisfiedMap(store[conflict].terms) :
         \E previous \in PreviousMap(store, store[conflict].terms, s) :
            /\ SatisfierSearch(store, store[conflict].terms, s, previous)
            /\ SameDecisionLevels(s, previous)
            /\ s.cause # NoCause
            /\ store' = Append(store, PriorCause(store, conflict, s.cause, s.package))
  BY DEF ResolveConflict, ResolveWithCause
<1>2. HasSatisfiers(store[conflict].terms) /\ conflict' = Len(store) + 1
  BY DEF ResolveConflict, ResolveWithCause
<1>3. PSTypeOK /\ CausesIn(store)
  BY InvariantParts
<1>4. s.cause \in Ids /\ s.package \in IncompatPackages(store[s.cause].terms)
      /\ Resolvable(store[s.cause].terms)
  BY <1>1, <1>2, <1>3, SatisfierCause
<1>5. s.package \in IncompatPackages(store[conflict].terms)
  BY <1>1, <1>2, <1>3, SatisfiedMapMeaning
<1> QED BY <1>1, <1>2, <1>4, <1>5 DEF Searched

\* ... or it is the root cause.
LEMMA BacktrackedConflict ==
    ASSUME Invariant, BacktrackFromConflict
    PROVE  \E s, previous :
              /\ Searched(s, previous) /\ ~SameDecisionLevels(s, previous)
              /\ s.package \in IncompatPackages(store[conflict].terms)
              /\ Backs(PreviousLevel(previous))
              /\ buffer' = <<s.package>> /\ conflict' = conflict
              /\ MergeIncompatibility(store, conflict)
                   \/ UNCHANGED <<store, incompatibilities, mergedDependencies>>
<1>1. PICK s \in SatisfiedMap(store[conflict].terms) :
         \E previous \in PreviousMap(store, store[conflict].terms, s) :
            /\ SatisfierSearch(store, store[conflict].terms, s, previous)
            /\ ~SameDecisionLevels(s, previous)
            /\ Backtrack(PreviousLevel(previous))
            /\ contradicted' = [i \in ContradictedAt(PreviousLevel(previous)) |-> contradicted[i]]
            /\ buffer' = <<s.package>>
  BY DEF BacktrackFromConflict, BacktrackFrom
<1>2. PICK previous \in PreviousMap(store, store[conflict].terms, s) :
            /\ SatisfierSearch(store, store[conflict].terms, s, previous)
            /\ ~SameDecisionLevels(s, previous)
            /\ Backtrack(PreviousLevel(previous))
            /\ contradicted' = [i \in ContradictedAt(PreviousLevel(previous)) |-> contradicted[i]]
            /\ buffer' = <<s.package>>
  BY <1>1
<1>3. /\ HasSatisfiers(store[conflict].terms) /\ conflict' = conflict
      /\ \/ MergeIncompatibility(store, conflict)
         \/ UNCHANGED <<store, incompatibilities, mergedDependencies>>
  BY DEF BacktrackFromConflict, BacktrackFrom
<1>4. PSTypeOK /\ HistoriesWellFormed
  BY InvariantParts DEF Invariant
<1>5. s.package \in IncompatPackages(store[conflict].terms) /\ s \in SatisfierType
      /\ s.package \in DOMAIN assignments
  BY <1>1, <1>3, <1>4, SatisfiedMapMeaning
<1>6. PreviousLevel(previous) \in Nat \ {0}
  BY <1>2, <1>3, <1>4, PreviousLevelType
<1>7. s.level <= currentDecisionLevel /\ s.level \in Nat /\ currentDecisionLevel \in Nat
  <2>1. \/ \E i \in DOMAIN assignments[s.package].dated :
              s.level = assignments[s.package].dated[i].level
        \/ s.level = assignments[s.package].highest
    <3>1. s = Satisfier(s.package, Negate(GetLast(store[conflict].terms, s.package)))
      BY <1>1, <1>3, <1>4, SatisfiedMapMeaning
    <3>2. PICK p, start : p \in DOMAIN assignments /\ s = Satisfier(p, start) /\ p = s.package
      BY <1>5, <3>1
    <3> QED BY <1>4, <3>2, SatisfierMeaning DEF SatisfiedByDerivation, SatisfiedByDecision
  <2>2. /\ assignments[s.package] \in PackageAssignmentsType
        /\ HistoryWellFormed(assignments[s.package], currentDecisionLevel)
        /\ currentDecisionLevel \in Nat
    BY <1>5, AssignmentParts
  <2>3. s.level <= assignments[s.package].highest
    BY <2>1, <2>2 DEF HistoryWellFormed, PackageAssignmentsType
  <2> QED BY <1>5, <2>2, <2>3 DEF HistoryWellFormed, SatisfierType, PackageAssignmentsType
<1>8. PreviousLevel(previous) < currentDecisionLevel
  BY <1>2, <1>6, <1>7 DEF SameDecisionLevels
<1>9. Backs(PreviousLevel(previous))
  BY <1>2, <1>6, <1>8 DEF Backs
<1> QED BY <1>1, <1>2, <1>3, <1>5, <1>9 DEF Searched
-----------------------------------------------------------------------------
(* What one step does to the store *)

\* Without Merged(..): an incompatibility that is no dependency is only kept.
LEMMA KeptUnmerged ==
    ASSUME Invariant, NEW new, new.kind # "dependency", AddIncompatibility(new)
    PROVE  /\ store' = Append(store, new)
           /\ incompatibilities' = Register(incompatibilities, new.terms, Len(store) + 1)
<1> DEFINE s == Append(store, new)
           id == Len(store) + 1
<1>1. store \in Seq(IncompatibilityType)
  BY InvariantParts DEF GoodStore
<1>2. s[id] = new
  BY <1>1
<1>3. MergeIncompatibility(s, id)
  BY DEF AddIncompatibility
<1> HIDE DEF s, id
<1>4. PastDependencies(s, id) = << >>
  BY <1>2 DEF PastDependencies
<1>5. Keep(s, id)
  BY <1>3, <1>4 DEF MergeIncompatibility
<1> QED BY <1>2, <1>5 DEF Keep, s, id

\* An incompatibility of packages among some that are added to such a store.
OnlyOf(s, packages) ==
    \A id \in 1 .. Len(s) : IncompatPackages(s[id].terms) \subseteq packages

LEMMA AppendOnlyOf ==
    ASSUME NEW S, NEW s \in Seq(S), NEW new, NEW packages,
           OnlyOf(s, packages), IncompatPackages(new.terms) \subseteq packages
    PROVE  OnlyOf(Append(s, new), packages)
<1>1. /\ Len(Append(s, new)) = Len(s) + 1 /\ Len(s) \in Nat
      /\ \A id \in 1 .. Len(s) : Append(s, new)[id] = s[id]
      /\ Append(s, new)[Len(s) + 1] = new
  OBVIOUS
<1>2. ASSUME NEW id \in 1 .. Len(Append(s, new))
      PROVE  IncompatPackages(Append(s, new)[id].terms) \subseteq packages
  <2>1. CASE id = Len(s) + 1
    BY <1>1, <2>1
  <2>2. CASE id # Len(s) + 1
    <3>1. id \in 1 .. Len(s)
      BY <1>1, <2>2
    <3> QED BY <1>1, <3>1 DEF OnlyOf
  <2> QED BY <2>1, <2>2
<1> QED BY <1>2 DEF OnlyOf

LEMMA AssigningSteps ==
    ASSUME [Next]_vars
    PROVE  \/ UNCHANGED assignments
           \/ ScanAlmostSatisfied \/ Learn \/ ChooseKnown \/ Accept \/ BacktrackFromConflict
BY DEF Next, vars, coreVars, solverVars, psVars, Cancel, StartPropagation, PopPackage,
       EndPropagation, SkipContradicted, ScanConflict, ScanContradicted, FindContradicted,
       ScanInconclusive, FindInconclusive, EndScan, FailTerminal, ResolveConflict,
       ResolveWithCause, ReturnSolution, PickNone, Pick, PickPackage, ProviderError,
       ChooseNone, ChooseUnavailable, ChooseNew, MergeDependency, EndMerge, Reject, Terminated

-----------------------------------------------------------------------------
(* The root is decided first *)

LEMMA BeforeFirstDecision ==
    ASSUME Invariant, RootFirst, [Next]_vars, currentDecisionLevel' = 0
    PROVE  /\ currentDecisionLevel = 0 /\ ~ChooseKnown /\ ~Accept /\ ~BacktrackFromConflict
           /\ Quiet \/ \E p, id : Derives(p, id)
<1>1. currentDecisionLevel \in Nat
  BY DEF Invariant, TypeOK, PSTypeOK
<1>2. ASSUME NEW level, Backs(level)
      PROVE  FALSE
  <2>1. level \in Nat /\ level >= 1 /\ currentDecisionLevel' = level
    BY <1>2, BackedAssignments
  <2> QED BY <2>1
<1>3. ~\E p, v : Decides(p, v)
  BY <1>1, DecidedAssignments
<1>4. ~ChooseKnown /\ ~Accept
  BY <1>3, DecideDecides
<1>5. ~BacktrackFromConflict
  BY <1>2, BacktrackBacks
<1>6. currentDecisionLevel' = currentDecisionLevel
  BY <1>4, <1>5, LevelKept
<1> QED BY <1>4, <1>5, <1>6, LevelKept

LEMMA RootFirstAtZero ==
    ASSUME Invariant, AddedStated, FreshOfChosen, RootFirst, [Next]_vars,
           currentDecisionLevel' = 0
    PROVE  /\ ~hasEverBacktracked'
           /\ DOMAIN assignments' \subseteq {RootPackage}
           /\ pc' \notin {"merge", "decide"} => OnlyOf(store', {RootPackage})
<1>1. /\ currentDecisionLevel = 0 /\ ~ChooseKnown /\ ~Accept /\ ~BacktrackFromConflict
      /\ Quiet \/ \E p, id : Derives(p, id)
  BY BeforeFirstDecision
<1>2. /\ ~hasEverBacktracked /\ DOMAIN assignments \subseteq {RootPackage}
      /\ pc \notin {"merge", "decide"} => OnlyOf(store, {RootPackage})
  BY <1>1 DEF RootFirst, OnlyOf, Ids
<1>3. ~hasEverBacktracked'
  BY <1>1, <1>2 DEF Next, vars, coreVars, solverVars, psVars, Cancel, StartPropagation,
       PopPackage, EndPropagation, SkipContradicted, ScanConflict, ScanAlmostSatisfied,
       PropagateAlmostSatisfied, AddDerivation, ScanContradicted, FindContradicted,
       ScanInconclusive, FindInconclusive, EndScan, FailTerminal, ResolveConflict,
       ResolveWithCause, Learn, LearnRootCause, ReturnSolution, PickNone, Pick, PickPackage,
       ProviderError, ChooseNone, ChooseUnavailable, ChooseNew, MergeDependency, EndMerge,
       Reject, Terminated
<1>4. ASSUME ScanAlmostSatisfied \/ Learn
      PROVE  DOMAIN assignments' \subseteq {RootPackage}
  <2>1. PICK p, id : Derives(p, id)
    BY <1>4, ScanDerives, LearnDerives
  <2>2. p \in IncompatPackages(store[id].terms) /\ id \in 1 .. Len(store)
    BY <2>1 DEF Derives, Ids
  <2>3. pc \notin {"merge", "decide"}
    BY <1>4 DEF ScanAlmostSatisfied, Scanning, Learn
  <2>4. p = RootPackage
    BY <1>2, <2>2, <2>3 DEF OnlyOf
  <2> QED BY <1>2, <2>1, <2>4, DerivedAssignments
<1>5. DOMAIN assignments' \subseteq {RootPackage}
  BY <1>1, <1>2, <1>4, AssigningSteps
<1>6. ASSUME ResolveConflict
      PROVE  OnlyOf(store', {RootPackage})
  <2>1. PICK s, previous :
              /\ s.cause \in Ids /\ s.package \in IncompatPackages(store[conflict].terms)
              /\ store' = Append(store, PriorCause(store, conflict, s.cause, s.package))
    BY <1>6, ResolvedConflict
  <2>2. pc \notin {"merge", "decide"} /\ conflict \in Ids /\ store \in Seq(IncompatibilityType)
    BY <1>6, InvariantParts DEF ResolveConflict, Resolving, SolverTypeOK, GoodStore
  <2> DEFINE new == PriorCause(store, conflict, s.cause, s.package)
  <2>3. IncompatPackages(new.terms) \subseteq {RootPackage}
    <3>1. /\ IncompatPackages(store[conflict].terms) \subseteq {RootPackage}
          /\ IncompatPackages(store[s.cause].terms) \subseteq {RootPackage}
      BY <1>2, <2>1, <2>2 DEF OnlyOf, Ids
    <3>2. new.terms = PriorCauseTerms(store[conflict].terms, store[s.cause].terms, s.package)
      BY DEF PriorCause
    <3> QED BY <2>1, <3>1, <3>2, PriorCausePackages
  <2>4. OnlyOf(store, {RootPackage})
    BY <1>2, <2>2
  <2> HIDE DEF new
  <2>5. OnlyOf(Append(store, new), {RootPackage})
    BY <2>2, <2>3, <2>4, AppendOnlyOf
  <2> QED BY <2>1, <2>5 DEF new
<1>7. ASSUME ChooseNone \/ ChooseUnavailable
      PROVE  OnlyOf(store', {RootPackage})
  <2>1. pc = "choose" /\ store \in Seq(IncompatibilityType)
    BY <1>7, InvariantParts DEF ChooseNone, ChooseUnavailable, GoodStore
  <2>2. next = RootPackage
    BY <1>2, <2>1 DEF Invariant, ChoiceReady
  <2>3. \E new : /\ new.kind # "dependency" /\ AddIncompatibility(new)
                 /\ IncompatPackages(new.terms) \subseteq {next}
    <3>1. CASE ChooseNone
      <4> DEFINE new == NoVersions(next, Positive(CurrentRange))
      <4>1. new.kind # "dependency" /\ IncompatPackages(new.terms) \subseteq {next}
        BY DEF NoVersions, External, IncompatPackages
      <4>2. AddIncompatibility(new)
        BY <3>1 DEF ChooseNone
      <4> QED BY <4>1, <4>2
    <3>2. CASE ChooseUnavailable
      <4>1. PICK v : AddIncompatibility(CustomVersion(next, v))
        BY <3>2 DEF ChooseUnavailable
      <4> DEFINE new == CustomVersion(next, v)
      <4>2. new.kind # "dependency" /\ IncompatPackages(new.terms) \subseteq {next}
        BY DEF CustomVersion, External, IncompatPackages
      <4> QED BY <4>1, <4>2
    <3> QED BY <1>7, <3>1, <3>2
  <2>4. PICK new : /\ new.kind # "dependency" /\ AddIncompatibility(new)
                   /\ IncompatPackages(new.terms) \subseteq {next}
    BY <2>3
  <2>5. store' = Append(store, new)
    BY <2>4, KeptUnmerged
  <2>6. OnlyOf(store, {RootPackage})
    BY <1>2, <2>1
  <2> QED BY <2>1, <2>2, <2>4, <2>5, <2>6, AppendOnlyOf
<1>8. ASSUME pc' \notin {"merge", "decide"}
      PROVE  OnlyOf(store', {RootPackage})
  <2>1. ~Reject
    BY <1>2 DEF Reject, Accepted
  <2>2. pc \notin {"merge", "decide"}
    BY <1>1, <1>8, <2>1, StepsAt DEF MergeDependency, EndMerge, vars, solverVars
  <2>3. ~ChooseNew /\ ~MergeDependency
    BY <1>8, <2>2 DEF ChooseNew, MergeDependency
  <2>4. CASE UNCHANGED store
    BY <1>2, <2>2, <2>4
  <2> QED BY <1>1, <1>6, <1>7, <2>3, <2>4, StoreSteps
<1> QED BY <1>3, <1>5, <1>8

LEMMA RootFirstStep ==
    ASSUME Invariant, AddedStated, FreshOfChosen, RootFirst, [Next]_vars
    PROVE  RootFirst'
<1>1. currentDecisionLevel' = 0 =>
          /\ ~hasEverBacktracked'
          /\ DOMAIN assignments' \subseteq {RootPackage}
          /\ pc' \notin {"merge", "decide"} =>
                \A id \in 1 .. Len(store') : IncompatPackages(store'[id].terms) \subseteq {RootPackage}
  BY RootFirstAtZero DEF OnlyOf
<1>2. ASSUME NEW q \in DOMAIN assignments',
             IsDecision(assignments'[q]), assignments'[q].highest = 1
      PROVE  q = RootPackage
  <2>1. CASE q \in DOMAIN assignments /\ assignments'[q] = assignments[q]
    BY <1>2, <2>1 DEF RootFirst
  <2>2. CASE ~(q \in DOMAIN assignments /\ assignments'[q] = assignments[q])
    <3>1. ChooseKnown \/ Accept
      BY <1>2, <2>2, DecidedBefore
    <3>2. PICK v \in Versions : Decides(next, v)
      BY <3>1, DecideDecides
    <3>3. /\ next \in DOMAIN assignments /\ v \in Versions
          /\ DOMAIN assignments' = DOMAIN assignments
          /\ assignments'[next] = Decision(assignments[next], v)
          /\ \A r \in DOMAIN assignments : r # next => assignments'[r] = assignments[r]
      BY <3>2, DecidedAssignments
    <3>4. q = next
      BY <1>2, <2>2, <3>3
    <3>5. assignments[next] \in PackageAssignmentsType /\ currentDecisionLevel \in Nat
      BY <3>3, AssignmentParts
    <3>6. assignments'[q].highest = currentDecisionLevel + 1
      BY <3>3, <3>4, <3>5 DEF Decision, PackageAssignmentsType
    <3>7. currentDecisionLevel = 0
      BY <1>2, <3>5, <3>6
    <3> QED BY <3>3, <3>4, <3>7 DEF RootFirst
  <2> QED BY <2>1, <2>2
<1> QED BY <1>1, <1>2 DEF RootFirst, Ids
-----------------------------------------------------------------------------
(* What stays assigned *)

\* Cutting a history at a level keeps what was assigned up to that level.
LEMMA CutKeeps ==
    ASSUME NEW a \in PackageAssignmentsType, NEW now \in Nat, HistoryWellFormed(a, now),
           NEW level \in Nat
    PROVE  /\ \A i \in DOMAIN a.dated : a.dated[i].level <= level =>
                 /\ a.smallest <= level
                 /\ i \in DOMAIN BacktrackedAssignment(a, level).dated
                 /\ BacktrackedAssignment(a, level).dated[i] = a.dated[i]
           /\ a.highest <= level =>
                 a.smallest <= level /\ BacktrackedAssignment(a, level) = a
<1> DEFINE n == KeptDerivations(a.dated, level)
<1>1. /\ a.dated \in Seq(DatedDerivationType) /\ a.smallest \in Nat /\ a.highest \in Nat
  BY DEF PackageAssignmentsType
<1>2. \A i \in DOMAIN a.dated : a.dated[i].level \in Nat
  <2> TAKE i \in DOMAIN a.dated
  <2>1. a.dated[i] \in DatedDerivationType
    BY <1>1
  <2> QED BY <2>1 DEF DatedDerivationType
<1>3. 1 \in DOMAIN a.dated /\ \A i \in DOMAIN a.dated : 1 <= i
  BY <1>1 DEF HistoryWellFormed
<1>4. a.smallest = a.dated[1].level
  BY DEF HistoryWellFormed
<1>5. \A i \in DOMAIN a.dated : a.smallest <= a.dated[i].level /\ a.dated[i].level <= a.highest
  BY <1>3, <1>4 DEF HistoryWellFormed
<1>6. CASE a.highest <= level
  <2>1. a.smallest <= level
    BY <1>1, <1>2, <1>3, <1>5, <1>6
  <2> QED BY <1>6, <2>1 DEF BacktrackedAssignment
<1>7. ASSUME ~(a.highest <= level), NEW i \in DOMAIN a.dated, a.dated[i].level <= level
      PROVE  /\ a.smallest <= level
             /\ i \in DOMAIN BacktrackedAssignment(a, level).dated
             /\ BacktrackedAssignment(a, level).dated[i] = a.dated[i]
  <2>1. a.smallest <= level
    BY <1>1, <1>2, <1>5, <1>7
  <2> DEFINE b == Truncate(a, level)
  <2>2. /\ DOMAIN b.dated = 1 .. n /\ n \in DOMAIN a.dated
        /\ \A j \in 1 .. n : b.dated[j] = a.dated[j]
    BY <2>1, TruncateWellFormed
  <2>3. \A j \in n + 1 .. Len(a.dated) : a.dated[j].level > level
    <3>1. a.dated # << >> /\ a.dated[1].level <= level
      BY <1>4, <2>1 DEF HistoryWellFormed
    <3> QED BY <3>1, KeptDerivationsFound
  <2> HIDE DEF n, b
  <2>4. i \in 1 .. n
    <3>1. i \in n + 1 .. Len(a.dated) => FALSE
      BY <1>2, <1>7, <2>3
    <3> QED BY <1>1, <1>7, <2>2, <3>1
  <2>5. i \in DOMAIN b.dated /\ b.dated[i] = a.dated[i]
    BY <2>2, <2>4
  <2> QED BY <1>7, <2>1, <2>5 DEF BacktrackedAssignment, b
<1> QED BY <1>6, <1>7

\* A step keeps what was assigned up to the level after it.
StaysAssigned(p) ==
    /\ \A i \in DOMAIN assignments[p].dated :
          assignments[p].dated[i].level <= currentDecisionLevel' =>
             /\ p \in DOMAIN assignments' /\ i \in DOMAIN assignments'[p].dated
             /\ assignments'[p].dated[i] = assignments[p].dated[i]
    /\ IsDecision(assignments[p]) /\ assignments[p].highest <= currentDecisionLevel' =>
          p \in DOMAIN assignments' /\ assignments'[p] = assignments[p]

LEMMA StaysAssignedStep ==
    ASSUME Invariant, [Next]_vars, NEW p \in DOMAIN assignments
    PROVE  StaysAssigned(p)
<1>1. /\ assignments[p] \in PackageAssignmentsType /\ currentDecisionLevel \in Nat
      /\ HistoryWellFormed(assignments[p], currentDecisionLevel)
  BY AssignmentParts
<1>2. CASE Quiet
  BY <1>2 DEF Quiet, StaysAssigned
<1>3. ASSUME NEW q, NEW id, Derives(q, id)
      PROVE  StaysAssigned(p)
  <2> DEFINE t == Negate(Get(store[id].terms, q))
             b == NextDerivation(assignments[p], id, t)
             d == DatedDerivation(id, Intersection(assignments[p].term, t))
  <2>1. /\ q \notin DOMAIN assignments \/ ~IsDecision(assignments[q])
        /\ DOMAIN assignments' = DOMAIN assignments \cup {q}
        /\ q \in DOMAIN assignments => assignments'[q] = NextDerivation(assignments[q], id, t)
        /\ \A r \in DOMAIN assignments : r # q => assignments'[r] = assignments[r]
    BY <1>3, DerivedAssignments
  <2>2. CASE p # q
    BY <2>1, <2>2 DEF StaysAssigned
  <2>3. CASE p = q
    <3>1. b.dated = Append(assignments[p].dated, d) /\ assignments'[p] = b
          /\ assignments[p].dated \in Seq(DatedDerivationType)
      BY <1>1, <2>1, <2>3 DEF NextDerivation, PackageAssignmentsType
    <3> HIDE DEF b, d, t
    <3>2. \A i \in DOMAIN assignments[p].dated :
             i \in DOMAIN b.dated /\ b.dated[i] = assignments[p].dated[i]
      BY <3>1
    <3> QED BY <2>1, <2>3, <3>1, <3>2 DEF StaysAssigned
  <2> QED BY <2>2, <2>3
<1>4. ASSUME NEW q, NEW v, Decides(q, v)
      PROVE  StaysAssigned(p)
  <2>1. /\ q \in DOMAIN assignments /\ ~IsDecision(assignments[q])
        /\ DOMAIN assignments' = DOMAIN assignments
        /\ assignments'[q] = Decision(assignments[q], v)
        /\ \A r \in DOMAIN assignments : r # q => assignments'[r] = assignments[r]
    BY <1>4, DecidedAssignments
  <2>2. CASE p # q
    BY <2>1, <2>2 DEF StaysAssigned
  <2>3. CASE p = q
    <3>1. assignments'[p].dated = assignments[p].dated
      BY <1>1, <2>1, <2>3 DEF Decision, PackageAssignmentsType
    <3> QED BY <2>1, <2>3, <3>1 DEF StaysAssigned
  <2> QED BY <2>2, <2>3
<1>5. ASSUME NEW level, Backs(level)
      PROVE  StaysAssigned(p)
  <2>1. /\ level \in Nat /\ currentDecisionLevel' = level
        /\ DOMAIN assignments' = {q \in DOMAIN assignments : assignments[q].smallest <= level}
        /\ \A q \in DOMAIN assignments' :
              assignments'[q] = BacktrackedAssignment(assignments[q], level)
    BY <1>5, BackedAssignments
  <2>2. /\ \A i \in DOMAIN assignments[p].dated : assignments[p].dated[i].level <= level =>
                 /\ assignments[p].smallest <= level
                 /\ i \in DOMAIN BacktrackedAssignment(assignments[p], level).dated
                 /\ BacktrackedAssignment(assignments[p], level).dated[i] = assignments[p].dated[i]
        /\ assignments[p].highest <= level =>
                 /\ assignments[p].smallest <= level
                 /\ BacktrackedAssignment(assignments[p], level) = assignments[p]
    BY <1>1, <2>1, CutKeeps
  <2>3. assignments[p].smallest <= level =>
           p \in DOMAIN assignments' /\ assignments'[p] = BacktrackedAssignment(assignments[p], level)
    BY <2>1
  <2> DEFINE b == BacktrackedAssignment(assignments[p], level)
  <2> HIDE DEF b
  <2>4. /\ \A i \in DOMAIN assignments[p].dated : assignments[p].dated[i].level <= level =>
              /\ assignments[p].smallest <= level
              /\ i \in DOMAIN b.dated /\ b.dated[i] = assignments[p].dated[i]
        /\ assignments[p].highest <= level => assignments[p].smallest <= level /\ b = assignments[p]
        /\ assignments[p].smallest <= level => p \in DOMAIN assignments' /\ assignments'[p] = b
    BY <2>2, <2>3 DEF b
  <2> QED BY <2>1, <2>4 DEF StaysAssigned
<1> QED BY <1>2, <1>3, <1>4, <1>5, StepKinds DEF TrailStep

\* The derivations after a step are those before, up to the level after it, or
\* the one just made.
Derived(q, i, d) ==
    /\ q \in DOMAIN assignments /\ i \in DOMAIN assignments[q].dated
    /\ d = assignments[q].dated[i]

\* A package is derived from an incompatibility whose other terms are satisfied.
DerivesJustly(p, id) ==
    /\ Derives(p, id)
    /\ RootCauseDerives => \A x \in store[id].terms : x[1] # p => EntrySatisfied(x, Known)

LEMMA DerivingStep ==
    ASSUME Invariant, ScanAlmostSatisfied \/ Learn
    PROVE  \E p, id : DerivesJustly(p, id)
<1>1. CASE ScanAlmostSatisfied
  <2>1. PICK x \in store[Last(scan)].terms :
               /\ AlmostSatisfiedBy(store[Last(scan)].terms, Known, x)
               /\ Derives(x[1], Last(scan))
    BY <1>1, ScanDerives
  <2>2. \A y \in store[Last(scan)].terms : y[1] # x[1] => EntrySatisfied(y, Known)
    BY <2>1 DEF AlmostSatisfiedBy
  <2> QED BY <2>1, <2>2 DEF DerivesJustly
<1>2. CASE Learn
  <2>1. Derives(buffer[1], conflict) /\ pc = "learn"
    BY <1>2, LearnDerives DEF Learn
  <2> QED BY <2>1 DEF DerivesJustly, RootCauseDerives
<1> QED BY <1>1, <1>2

DerivedTerm(q, id) ==
    LET t == Negate(Get(store[id].terms, q))
    IN  IF q \in DOMAIN assignments THEN Intersection(assignments[q].term, t) ELSE t

NewlyDerived(q, d) ==
    /\ d.index = nextGlobalIndex /\ d.level = currentDecisionLevel
    /\ d.term = DerivedTerm(q, d.cause)
    /\ DerivesJustly(q, d.cause)

LEMMA DerivationsAfter ==
    ASSUME Invariant, [Next]_vars, NEW q \in DOMAIN assignments',
           NEW i \in DOMAIN assignments'[q].dated, NEW d, d = assignments'[q].dated[i]
    PROVE  /\ d.index \in Nat /\ d.level \in Nat /\ d.level <= currentDecisionLevel'
           /\ Derived(q, i, d) \/ NewlyDerived(q, d)
<1>1. Invariant'
  BY NextInvariant
<1>2. /\ assignments'[q] \in PackageAssignmentsType
      /\ HistoryWellFormed(assignments'[q], currentDecisionLevel')
      /\ currentDecisionLevel' \in Nat
  BY <1>1 DEF Invariant, TypeOK, PSTypeOK, HistoriesWellFormed
<1>3. d \in DatedDerivationType
  BY <1>2 DEF PackageAssignmentsType
<1>4. d.index \in Nat /\ d.level \in Nat /\ d.level <= currentDecisionLevel'
  <2>1. d.level <= assignments'[q].highest /\ assignments'[q].highest <= currentDecisionLevel'
    BY <1>2 DEF HistoryWellFormed
  <2>2. d.index \in Nat /\ d.level \in Nat /\ assignments'[q].highest \in Nat
    BY <1>2, <1>3 DEF DatedDerivationType, PackageAssignmentsType
  <2> QED BY <1>2, <2>1, <2>2
<1>5. CASE UNCHANGED assignments
  BY <1>4, <1>5 DEF Derived
<1>6. ASSUME NEW p, NEW id, DerivesJustly(p, id)
      PROVE  Derived(q, i, d) \/ NewlyDerived(q, d)
  <2> DEFINE t == Negate(Get(store[id].terms, p))
  <2>1. /\ DOMAIN assignments' = DOMAIN assignments \cup {p}
        /\ assignments'[p] = IF p \in DOMAIN assignments
                             THEN NextDerivation(assignments[p], id, t)
                             ELSE FirstDerivation(id, t)
        /\ \A r \in DOMAIN assignments : r # p => assignments'[r] = assignments[r]
    BY <1>6, DerivedAssignments DEF DerivesJustly
  <2> HIDE DEF t
  <2>2. CASE q # p
    BY <2>1, <2>2 DEF Derived
  <2>3. CASE q = p /\ p \in DOMAIN assignments
    <3> DEFINE new == DatedDerivation(id, Intersection(assignments[p].term, t))
               b   == NextDerivation(assignments[p], id, t)
    <3>1. assignments[p] \in PackageAssignmentsType
      BY <2>3, AssignmentParts
    <3>2. b.dated = Append(assignments[p].dated, new) /\ assignments'[p] = b
          /\ assignments[p].dated \in Seq(DatedDerivationType)
      BY <2>1, <2>3, <3>1 DEF NextDerivation, PackageAssignmentsType
    <3>3. /\ new.index = nextGlobalIndex /\ new.level = currentDecisionLevel /\ new.cause = id
          /\ new.term = DerivedTerm(p, id)
      BY <2>3 DEF DatedDerivation, DerivedTerm, t
    <3> HIDE DEF new, b
    <3>4. CASE i = Len(assignments[p].dated) + 1
      <4>1. d = new
        BY <2>3, <3>2, <3>4
      <4> QED BY <1>6, <2>3, <3>3, <4>1 DEF NewlyDerived
    <3>5. CASE i # Len(assignments[p].dated) + 1
      <4>1. i \in DOMAIN assignments[p].dated /\ d = assignments[p].dated[i]
        BY <2>3, <3>2, <3>5
      <4> QED BY <2>3, <4>1 DEF Derived
    <3> QED BY <3>4, <3>5
  <2>4. CASE q = p /\ p \notin DOMAIN assignments
    <3> DEFINE new == DatedDerivation(id, t)
               b   == FirstDerivation(id, t)
    <3>1. b.dated = <<new>> /\ assignments'[p] = b
      BY <2>1, <2>4 DEF FirstDerivation
    <3>2. /\ new.index = nextGlobalIndex /\ new.level = currentDecisionLevel /\ new.cause = id
          /\ new.term = DerivedTerm(p, id)
      BY <2>4 DEF DatedDerivation, DerivedTerm, t
    <3> HIDE DEF new, b
    <3>3. d = new
      BY <2>4, <3>1
    <3> QED BY <1>6, <2>4, <3>2, <3>3 DEF NewlyDerived
  <2> QED BY <2>2, <2>3, <2>4
<1>7. ASSUME NEW p, NEW v, Decides(p, v)
      PROVE  Derived(q, i, d)
  <2>1. /\ p \in DOMAIN assignments
        /\ DOMAIN assignments' = DOMAIN assignments
        /\ assignments'[p] = Decision(assignments[p], v)
        /\ \A r \in DOMAIN assignments : r # p => assignments'[r] = assignments[r]
    BY <1>7, DecidedAssignments
  <2>2. assignments[p] \in PackageAssignmentsType
    BY <2>1, AssignmentParts
  <2>3. assignments'[p].dated = assignments[p].dated
    BY <2>1, <2>2 DEF Decision, PackageAssignmentsType
  <2> QED BY <2>1, <2>3 DEF Derived
<1>8. ASSUME NEW level, Backs(level)
      PROVE  Derived(q, i, d)
  <2>1. /\ level \in Nat
        /\ q \in DOMAIN assignments /\ assignments[q].smallest <= level
        /\ assignments'[q] = BacktrackedAssignment(assignments[q], level)
    BY <1>8, BackedAssignments
  <2>2. /\ assignments[q] \in PackageAssignmentsType /\ currentDecisionLevel \in Nat
        /\ HistoryWellFormed(assignments[q], currentDecisionLevel)
    BY <2>1, AssignmentParts
  <2>3. CASE assignments[q].highest <= level
    BY <2>1, <2>3 DEF Derived, BacktrackedAssignment
  <2>4. CASE ~(assignments[q].highest <= level)
    <3> DEFINE n == KeptDerivations(assignments[q].dated, level)
               b == Truncate(assignments[q], level)
    <3>1. /\ DOMAIN b.dated = 1 .. n
          /\ \A j \in 1 .. n : j \in DOMAIN assignments[q].dated
                               /\ b.dated[j] = assignments[q].dated[j]
      BY <2>1, <2>2, TruncateWellFormed
    <3>2. assignments'[q] = b
      BY <2>1, <2>4 DEF BacktrackedAssignment
    <3> HIDE DEF n, b
    <3> QED BY <2>1, <3>1, <3>2 DEF Derived
  <2> QED BY <2>3, <2>4
<1> QED BY <1>4, <1>5, <1>6, <1>7, <1>8, AssigningSteps, DerivingStep, DecideDecides,
           BacktrackBacks
-----------------------------------------------------------------------------
(* Derivations follow from assignments made before them *)

\* An assignment of the package made before that index says no less than u.
BeforeBy(a, u, index) ==
    \/ \E i \in DOMAIN a.dated : a.dated[i].index < index /\ SubsetOf(a.dated[i].term, u)
    \/ IsDecision(a) /\ a.index < index /\ SubsetOf(a.term, u)

LEMMA SatisfiedBeforeMeaning ==
    ASSUME NEW x, NEW index
    PROVE  SatisfiedBefore(x, index) <=>
               x[1] \in DOMAIN assignments /\ BeforeBy(assignments[x[1]], x[2], index)
<1>1. \A t : t \in TermsBefore(x[1], index) <=>
          \/ \E i \in DOMAIN assignments[x[1]].dated :
                assignments[x[1]].dated[i].index < index /\ t = assignments[x[1]].dated[i].term
          \/ /\ IsDecision(assignments[x[1]]) /\ assignments[x[1]].index < index
             /\ t = assignments[x[1]].term
  BY DEF TermsBefore
<1> QED BY <1>1 DEF SatisfiedBefore, TermSatisfied, BeforeBy

SatisfiedBeforeNext(x, index) ==
    x[1] \in DOMAIN assignments' /\ BeforeBy(assignments'[x[1]], x[2], index)

LEMMA SatisfiedBeforeAfter ==
    ASSUME NEW x, NEW n, SatisfiedBeforeNext(x, n.index)
    PROVE  SatisfiedBefore(x, n.index)'
<1>1. /\ IsDecision(assignments[x[1]])' <=> IsDecision(assignments'[x[1]])
      /\ (IF IsDecision(assignments[x[1]]) /\ assignments[x[1]].index < n.index
          THEN {assignments[x[1]].term} ELSE {})'
         = IF IsDecision(assignments'[x[1]]) /\ assignments'[x[1]].index < n.index
           THEN {assignments'[x[1]].term} ELSE {}
  BY DEF IsDecision
<1>2. \A t : \/ \E i \in DOMAIN assignments'[x[1]].dated :
                   /\ assignments'[x[1]].dated[i].index < n.index
                   /\ t = assignments'[x[1]].dated[i].term
             \/ /\ IsDecision(assignments'[x[1]]) /\ assignments'[x[1]].index < n.index
                /\ t = assignments'[x[1]].term
             => t \in TermsBefore(x[1], n.index)'
  BY <1>1 DEF TermsBefore
<1> QED BY <1>2 DEF SatisfiedBefore, TermSatisfied, BeforeBy, SatisfiedBeforeNext

\* What is satisfied now was satisfied by some assignment; ...
LEMMA KnownBefore ==
    ASSUME Invariant, HistoriesNarrow, NEW x, EntrySatisfied(x, Known)
    PROVE  SatisfiedBefore(x, nextGlobalIndex)
<1> DEFINE a == assignments[x[1]]
<1>1. x[1] \in DOMAIN assignments /\ SubsetOf(a.term, x[2])
  BY DEF EntrySatisfied, Known, TermSatisfied
<1>2. a \in PackageAssignmentsType /\ a.dated # << >>
  BY <1>1, AssignmentParts
<1>3. HistoryEnds(a) /\ IndicesBelow(a, nextGlobalIndex)
  BY <1>1 DEF HistoriesNarrow
<1> HIDE DEF a
<1>4. Len(a.dated) \in DOMAIN a.dated
  BY <1>2 DEF PackageAssignmentsType
<1>5. BeforeBy(a, x[2], nextGlobalIndex)
  BY <1>1, <1>3, <1>4 DEF HistoryEnds, IndicesBelow, BeforeBy
<1> QED BY <1>1, <1>5, SatisfiedBeforeMeaning DEF a

\* ... and what was satisfied at some time is satisfied now.
LEMMA BeforeKnown ==
    ASSUME Invariant, HistoriesNarrow, NEW x, x[2] \in TermType, NEW index,
           SatisfiedBefore(x, index)
    PROVE  EntrySatisfied(x, Known)
<1> DEFINE p == x[1]
           a == assignments[p]
<1>1. p \in DOMAIN assignments /\ BeforeBy(a, x[2], index)
  BY SatisfiedBeforeMeaning
<1>2. a \in PackageAssignmentsType /\ a.dated # << >> /\ a.term \in TermType
  BY <1>1, AssignmentParts
<1>3. Narrow(p, a, store, nextGlobalIndex)
  BY <1>1, HistoriesNarrowEach DEF HistoryNarrow
<1>4. Known[p] = a.term /\ p \in DOMAIN Known
  BY <1>1 DEF Known
<1> HIDE DEF a, p
<1>5. SubsetOf(a.term, x[2])
  <2>1. ASSUME NEW i \in DOMAIN a.dated, SubsetOf(a.dated[i].term, x[2])
        PROVE  SubsetOf(a.term, x[2])
    <3>1. SubsetOf(a.term, a.dated[i].term)
      BY <1>2, <1>3, <2>1, TermNarrowest
    <3>2. a.dated[i].term \in TermType
      <4>1. a.dated[i] \in DatedDerivationType
        BY <1>2 DEF PackageAssignmentsType
      <4> QED BY <4>1 DEF DatedDerivationType
    <3> QED BY <1>2, <2>1, <3>1, <3>2, SubsetOfTransitive
  <2> QED BY <1>1, <2>1 DEF BeforeBy
<1> QED BY <1>4, <1>5 DEF EntrySatisfied, TermSatisfied, p

\* Backtracking to the level of an assignment keeps what was made before it.
LEMMA BeforeStays ==
    ASSUME Invariant, HistoriesNarrow, AssignmentsOrdered, [Next]_vars,
           NEW q \in DOMAIN assignments, NEW n \in Moments(assignments[q]),
           n.level <= currentDecisionLevel',
           NEW x, SatisfiedBefore(x, n.index)
    PROVE  SatisfiedBefore(x, n.index)'
<1> DEFINE p == x[1]
           a == assignments[p]
<1>1. p \in DOMAIN assignments /\ BeforeBy(a, x[2], n.index)
  BY SatisfiedBeforeMeaning
<1>2. InOrder(p, q, a, assignments[q]) /\ StaysAssigned(p)
  BY <1>1, StaysAssignedStep DEF AssignmentsOrdered
<1>3. n.index \in Nat /\ n.level \in Nat
  BY MomentsTyped
<1>4. Invariant'
  BY NextInvariant
<1>5. currentDecisionLevel' \in Nat
  BY <1>4 DEF Invariant, TypeOK, PSTypeOK
<1>6. ASSUME NEW m \in Moments(a), m.index < n.index
      PROVE  m.level <= currentDecisionLevel'
  <2>1. m.index \in Nat /\ m.level \in Nat
    BY <1>1, <1>6, MomentsTyped
  <2>2. m.level <= n.level
    BY <1>2, <1>3, <1>6, <2>1 DEF InOrder
  <2> QED BY <1>3, <1>5, <2>1, <2>2
<1>7. p \in DOMAIN assignments' /\ BeforeBy(assignments'[p], x[2], n.index)
  <2>1. ASSUME NEW i \in DOMAIN a.dated, a.dated[i].index < n.index,
               SubsetOf(a.dated[i].term, x[2])
        PROVE  p \in DOMAIN assignments' /\ BeforeBy(assignments'[p], x[2], n.index)
    <3> DEFINE m == Moment(a.dated[i].index, a.dated[i].level)
    <3>1. m.index = a.dated[i].index /\ m.level = a.dated[i].level
      BY DEF Moment
    <3>2. m \in Moments(a)
      BY MomentsMeaning
    <3> HIDE DEF m
    <3>3. a.dated[i].level <= currentDecisionLevel'
      BY <1>6, <2>1, <3>1, <3>2
    <3>4. /\ p \in DOMAIN assignments' /\ i \in DOMAIN assignments'[p].dated
          /\ assignments'[p].dated[i] = a.dated[i]
      BY <1>2, <3>3 DEF StaysAssigned
    <3> QED BY <2>1, <3>4 DEF BeforeBy
  <2>2. ASSUME IsDecision(a), a.index < n.index, SubsetOf(a.term, x[2])
        PROVE  p \in DOMAIN assignments' /\ BeforeBy(assignments'[p], x[2], n.index)
    <3> DEFINE m == DecisionMoment(a)
    <3>1. m.index = a.index /\ m.level = a.highest
      BY DEF DecisionMoment, Moment
    <3>2. m \in Moments(a)
      BY <2>2, MomentsMeaning
    <3> HIDE DEF m
    <3>3. a.highest <= currentDecisionLevel'
      BY <1>6, <2>2, <3>1, <3>2
    <3>4. p \in DOMAIN assignments' /\ assignments'[p] = a
      BY <1>2, <2>2, <3>3 DEF StaysAssigned
    <3> QED BY <2>2, <3>4 DEF BeforeBy
  <2> QED BY <1>1, <2>1, <2>2 DEF BeforeBy
<1> HIDE DEF p, a
<1>8. SatisfiedBeforeNext(x, n.index)
  BY <1>7 DEF p, SatisfiedBeforeNext
<1> QED BY <1>8, SatisfiedBeforeAfter
LEMMA JustifiedStep ==
    ASSUME Invariant, HistoriesNarrow, AssignmentsOrdered, RootCauseDerives,
           DerivationsJustified, [Next]_vars
    PROVE  DerivationsJustified'
<1> SUFFICES ASSUME NEW q \in DOMAIN assignments', NEW i \in DOMAIN assignments'[q].dated,
                    NEW d, d = assignments'[q].dated[i],
                    NEW x \in store'[d.cause].terms, x[1] # q
             PROVE  SatisfiedBefore(x, d.index)'
  BY DEF DerivationsJustified
<1>1. /\ d.index \in Nat /\ d.level \in Nat /\ d.level <= currentDecisionLevel'
      /\ Derived(q, i, d) \/ NewlyDerived(q, d)
  BY DerivationsAfter
<1>2. StoreExtends(store, store')
  BY StepExtends
<1>3. CASE Derived(q, i, d)
  <2>1. q \in DOMAIN assignments /\ i \in DOMAIN assignments[q].dated
        /\ d = assignments[q].dated[i]
    BY <1>3 DEF Derived
  <2>2. d.cause \in 1 .. Len(store)
    BY <2>1, AssignmentParts DEF CausesResolvable
  <2>3. x \in store[d.cause].terms
    BY <1>2, <2>2 DEF StoreExtends
  <2> DEFINE n == Moment(d.index, d.level)
  <2>4. n.index = d.index /\ n.level = d.level
    BY DEF Moment
  <2>5. n \in Moments(assignments[q])
    BY <2>1, MomentsMeaning
  <2> HIDE DEF n
  <2>6. SatisfiedBefore(x, n.index)
    BY <2>1, <2>3, <2>4 DEF DerivationsJustified
  <2>7. n.level <= currentDecisionLevel'
    BY <1>1, <2>4
  <2>8. SatisfiedBefore(x, n.index)'
    BY <2>1, <2>5, <2>6, <2>7, BeforeStays
  <2>9. PICK index : index = n.index /\ index = d.index
    BY <2>4
  <2> QED BY <2>8, <2>9
<1>4. CASE NewlyDerived(q, d)
  <2>1. Derives(q, d.cause) /\ d.index = nextGlobalIndex
        /\ \A y \in store[d.cause].terms : y[1] # q => EntrySatisfied(y, Known)
    BY <1>4 DEF NewlyDerived, DerivesJustly
  <2>2. UNCHANGED store
    BY <2>1 DEF Derives
  <2>3. EntrySatisfied(x, Known)
    BY <2>1, <2>2
  <2>4. SatisfiedBefore(x, nextGlobalIndex)
    BY <2>3, KnownBefore
  <2>5. x[1] \in DOMAIN assignments /\ BeforeBy(assignments[x[1]], x[2], d.index)
    BY <2>1, <2>4, SatisfiedBeforeMeaning
  <2>6. x[1] \in DOMAIN assignments' /\ assignments'[x[1]] = assignments[x[1]]
    BY <2>1, <2>5, DerivedAssignments
  <2>7. SatisfiedBeforeNext(x, d.index)
    BY <2>5, <2>6 DEF SatisfiedBeforeNext
  <2> QED BY <2>7, SatisfiedBeforeAfter
<1> QED BY <1>1, <1>3, <1>4
-----------------------------------------------------------------------------
(* The conflict at hand is satisfied *)

LEMMA SubsetOfCombined ==
    ASSUME NEW t \in TermType, NEW u \in TermType, NEW w \in TermType, SubsetOf(t, u)
    PROVE  /\ SubsetOf(t, Union(u, w))
           /\ SubsetOf(t, w) => SubsetOf(t, Intersection(u, w))
BY SubsetOfMeaning, UnionMeaning, IntersectionMeaning, TermsClosed

\* The satisfier with a cause is a derivation, so the rest of its cause is
\* satisfied.
LEMMA CauseSatisfied ==
    ASSUME Invariant, HistoriesNarrow, DerivationsJustified,
           NEW terms, HasSatisfiers(terms), NEW s \in SatisfiedMap(terms), s.cause \in Ids,
           NEW x \in store[s.cause].terms, x[1] # s.package
    PROVE  EntrySatisfied(x, Known)
<1>1. PSTypeOK
  BY InvariantParts
<1>2. s.package \in DOMAIN assignments
      /\ s = Satisfier(s.package, Negate(GetLast(terms, s.package)))
  BY <1>1, SatisfiedMapMeaning
<1>3. PICK p, start : p \in DOMAIN assignments /\ s = Satisfier(p, start) /\ p = s.package
  BY <1>2
<1>4. s.cause # NoCause
  BY DEF Ids, NoCause
<1>5. PICK i \in DOMAIN assignments[p].dated : s.cause = assignments[p].dated[i].cause
  BY <1>1, <1>3, <1>4, SatisfierMeaning DEF SatisfiedByDerivation, SatisfiedByDecision
<1>6. SatisfiedBefore(x, assignments[p].dated[i].index)
  BY <1>3, <1>5 DEF DerivationsJustified
<1>7. x[2] \in TermType
  <2>1. store[s.cause].terms \in TermsType
    BY StoreEntry
  <2> QED BY <2>1 DEF TermsType
<1>8. PICK index : index = assignments[p].dated[i].index
  OBVIOUS
<1>9. SatisfiedBefore(x, index)
  BY <1>6, <1>8
<1> QED BY <1>7, <1>9, BeforeKnown

LEMMA PriorCauseSatisfied ==
    ASSUME Invariant, NEW terms1 \in TermsType, NEW terms2 \in TermsType,
           NEW p \in IncompatPackages(terms1), p \in IncompatPackages(terms2),
           Satisfied(terms1, Known),
           \A x \in terms2 : x[1] # p => EntrySatisfied(x, Known)
    PROVE  Satisfied(PriorCauseTerms(terms1, terms2, p), Known)
<1> DEFINE A    == terms1 \ {<<p, Get(terms1, p)>>}
           B    == {x \in terms2 : x[1] # p}
           rest == MergeTerms(A, B)
           term == ResolventTerm(terms1, terms2, p)
<1>1. A \in TermsType /\ B \in TermsType /\ A \subseteq terms1 /\ B \subseteq terms2
  BY DEF TermsType
<1>2. /\ Get(terms1, p) \in TermType /\ <<p, Get(terms1, p)>> \in terms1
      /\ Get(terms2, p) \in TermType
  BY GetFinds
<1>3. ASSUME NEW q, NEW t \in TermType, NEW x, x = <<q, t>>, EntrySatisfied(x, Known)
      PROVE  q \in DOMAIN assignments /\ assignments[q].term \in TermType
             /\ SubsetOf(assignments[q].term, t)
  <2>1. x[1] = q /\ x[2] = t
    BY <1>3
  <2>2. q \in DOMAIN assignments /\ SubsetOf(assignments[q].term, t)
    BY <1>3, <2>1 DEF EntrySatisfied, Known, TermSatisfied
  <2> QED BY <2>2, AssignmentParts
<1>4. ASSUME NEW q \in DOMAIN assignments, NEW t, SubsetOf(assignments[q].term, t),
             NEW x, x[1] = q, x[2] = t
      PROVE  EntrySatisfied(x, Known)
  BY <1>4 DEF EntrySatisfied, Known, TermSatisfied
<1>5. \A x \in B : EntrySatisfied(x, Known)
  OBVIOUS
<1>6. \A x \in A : EntrySatisfied(x, Known)
  BY <1>1 DEF Satisfied
<1> HIDE DEF A, B
<1>7. ASSUME NEW y \in A, y[1] \in IncompatPackages(B),
             NEW x, x = <<y[1], Intersection(y[2], Get(B, y[1]))>>
      PROVE  EntrySatisfied(x, Known)
  <2> DEFINE q == y[1]
             t == y[2]
             u == Get(B, q)
  <2>1. u \in TermType /\ <<q, u>> \in B
    BY <1>1, <1>7, GetFinds
  <2>2. t \in TermType /\ y = <<q, t>>
    BY <1>1, <1>7 DEF TermsType
  <2>3. EntrySatisfied(y, Known) /\ EntrySatisfied(<<q, u>>, Known)
    BY <1>5, <1>6, <1>7, <2>1
  <2>4. x[1] = q /\ x[2] = Intersection(t, u)
    BY <1>7
  <2> HIDE DEF q, t, u
  <2>5. PICK z : z = <<q, u>>
    OBVIOUS
  <2>6. /\ q \in DOMAIN assignments /\ assignments[q].term \in TermType
        /\ SubsetOf(assignments[q].term, t) /\ SubsetOf(assignments[q].term, u)
    BY <1>3, <2>1, <2>2, <2>3, <2>5
  <2>7. SubsetOf(assignments[q].term, Intersection(t, u))
    BY <2>1, <2>2, <2>6, SubsetOfCombined
  <2> QED BY <1>4, <2>4, <2>6, <2>7
<1>8. \A x \in rest : EntrySatisfied(x, Known)
  BY <1>5, <1>6, <1>7 DEF MergeTerms
<1>9. EntrySatisfied(<<p, term>>, Known)
  <2>1. EntrySatisfied(<<p, Get(terms1, p)>>, Known)
    BY <1>2 DEF Satisfied
  <2>2. PICK t, u, x, z : /\ t = Get(terms1, p) /\ u = Get(terms2, p) /\ x = <<p, t>>
                          /\ z = <<p, Union(t, u)>>
    OBVIOUS
  <2>3. /\ p \in DOMAIN assignments /\ assignments[p].term \in TermType
        /\ SubsetOf(assignments[p].term, t)
    BY <1>2, <1>3, <2>1, <2>2
  <2>4. SubsetOf(assignments[p].term, Union(t, u))
    BY <1>2, <2>2, <2>3, SubsetOfCombined
  <2>5. z[1] = p /\ z[2] = Union(t, u)
    BY <2>2
  <2>6. EntrySatisfied(z, Known)
    BY <1>4, <2>3, <2>4, <2>5
  <2> QED BY <2>2, <2>6 DEF ResolventTerm
<1> HIDE DEF rest
<1>10. \A x \in PriorCauseTerms(terms1, terms2, p) : x \in rest \/ x = <<p, term>>
  BY DEF PriorCauseTerms, rest, A, B
<1> QED BY <1>8, <1>9, <1>10 DEF Satisfied

\* Where a conflict comes from.
LEMMA ConflictSteps ==
    ASSUME Invariant, [Next]_vars, pc' = "conflict"
    PROVE  UNCHANGED vars \/ ScanConflict \/ ResolveConflict
<1>1. ASSUME Next
      PROVE  ScanConflict \/ ResolveConflict
  <2>1. pc # "loop"
    BY <1>1, StepsAt DEF Cancel, StartPropagation
  <2>2. pc # "propagate"
    BY <1>1, StepsAt DEF PopPackage, EndPropagation
  <2>3. pc = "scan" => ScanConflict
    BY <1>1, StepsAt DEF SkipContradicted, ScanAlmostSatisfied, Scanning, ScanContradicted,
                         ScanInconclusive, EndScan
  <2>4. pc = "conflict" => ResolveConflict
    BY <1>1, StepsAt DEF FailTerminal, BacktrackFromConflict
  <2>5. pc \notin {"learn", "pick"}
    BY <1>1, StepsAt DEF Learn, ReturnSolution, Pick
  <2>6. pc # "choose"
    BY <1>1, StepsAt DEF ProviderError, ChooseNone, ChooseUnavailable, ChooseNew, ChooseKnown
  <2>7. pc \notin {"merge", "decide"}
    BY <1>1, StepsAt DEF MergeDependency, EndMerge, Accept, Reject
  <2>8. pc \notin Done
    BY <1>1, StepsAt DEF Done, Terminated, vars, solverVars
  <2>9. pc \in PC
    BY DEF Invariant, TypeOK, SolverTypeOK
  <2> QED BY <2>1, <2>2, <2>3, <2>4, <2>5, <2>6, <2>7, <2>8, <2>9 DEF PC
<1> QED BY <1>1

SatisfiedNext(x) ==
    x[1] \in DOMAIN assignments' /\ SubsetOf(assignments'[x[1]].term, x[2])

LEMMA ConflictSatisfiedStep ==
    ASSUME Invariant, HistoriesNarrow, DerivationsJustified, ConflictSatisfied, [Next]_vars
    PROVE  ConflictSatisfied'
<1> SUFFICES ASSUME pc' = "conflict"
             PROVE  \A x \in store'[conflict'].terms : SatisfiedNext(x)
  BY DEF SatisfiedNext, ConflictSatisfied, Satisfied, EntrySatisfied, Known, TermSatisfied
<1>0. \A x : EntrySatisfied(x, Known) =>
         x[1] \in DOMAIN assignments /\ SubsetOf(assignments[x[1]].term, x[2])
  BY DEF EntrySatisfied, Known, TermSatisfied
<1>1. CASE UNCHANGED vars
  <2>1. pc = "conflict" /\ UNCHANGED <<store, conflict, assignments>>
    BY <1>1 DEF vars, psVars, coreVars, solverVars
  <2> QED BY <1>0, <2>1 DEF ConflictSatisfied, Satisfied, SatisfiedNext
<1>2. CASE ScanConflict
  <2>1. /\ Satisfied(store[Last(scan)].terms, Known) /\ conflict' = Last(scan)
        /\ UNCHANGED <<store, assignments>>
    BY <1>2 DEF ScanConflict, psVars, coreVars
  <2> QED BY <1>0, <2>1 DEF Satisfied, SatisfiedNext
<1>3. CASE ResolveConflict
  <2>1. PICK s, previous :
              /\ Searched(s, previous)
              /\ s.cause \in Ids /\ s.package \in IncompatPackages(store[conflict].terms)
              /\ s.package \in IncompatPackages(store[s.cause].terms)
              /\ store' = Append(store, PriorCause(store, conflict, s.cause, s.package))
              /\ conflict' = Len(store) + 1
    BY <1>3, ResolvedConflict
  <2> DEFINE terms1 == store[conflict].terms
             terms2 == store[s.cause].terms
             new    == PriorCause(store, conflict, s.cause, s.package)
  <2>2. pc = "conflict" /\ conflict \in Ids /\ UNCHANGED assignments
    BY <1>3 DEF ResolveConflict, Resolving, ResolveWithCause, psVars, Invariant, TypeOK,
                SolverTypeOK
  <2>3. terms1 \in TermsType /\ terms2 \in TermsType
    BY <2>1, <2>2, StoreEntry
  <2>4. Satisfied(terms1, Known)
    BY <2>2 DEF ConflictSatisfied
  <2>5. \A x \in terms2 : x[1] # s.package => EntrySatisfied(x, Known)
    BY <2>1, CauseSatisfied DEF Searched
  <2> HIDE DEF terms1, terms2
  <2>6. Satisfied(PriorCauseTerms(terms1, terms2, s.package), Known)
    BY <2>1, <2>3, <2>4, <2>5, PriorCauseSatisfied DEF terms1, terms2
  <2>7. new.terms = PriorCauseTerms(terms1, terms2, s.package)
    BY DEF PriorCause, terms1, terms2
  <2>8. store'[conflict'] = new
    <3>1. store \in Seq(IncompatibilityType)
      BY InvariantParts DEF GoodStore
    <3> HIDE DEF new
    <3> QED BY <2>1, <3>1 DEF new
  <2> HIDE DEF new
  <2> QED BY <1>0, <2>2, <2>6, <2>7, <2>8 DEF Satisfied, SatisfiedNext
<1> QED BY <1>1, <1>2, <1>3, ConflictSteps
-----------------------------------------------------------------------------
(* The search for satisfiers *)

LEMMA SatisfiedDisjoint ==
    ASSUME NEW t \in TermType, NEW u \in TermType, NEW w \in TermType
    PROVE  /\ SubsetOf(t, u) <=> IsDisjoint(t, Negate(u))
           /\ SubsetOf(t, u) => IsDisjoint(t, Intersection(w, Negate(u)))
<1> DEFINE n == Negate(u)
           both == Intersection(w, Negate(u))
<1>1. n \in TermType /\ both \in TermType
  BY TermsClosed
<1>2. \A v \in Selections : /\ TermContains(n, v) <=> ~TermContains(u, v)
                            /\ TermContains(both, v) => TermContains(n, v)
  BY <1>1, NegateMeaning, IntersectionMeaning
<1> HIDE DEF n, both
<1>3. SubsetOf(t, u) <=> IsDisjoint(t, n)
  BY <1>1, <1>2, SubsetOfMeaning, IsDisjointMeaning
<1>4. IsDisjoint(t, n) => IsDisjoint(t, both)
  BY <1>1, <1>2, IsDisjointMeaning
<1> QED BY <1>3, <1>4 DEF n, both

\* A package whose term is ruled out has an assignment that does so.
LEMMA KnownHasSatisfier ==
    ASSUME Invariant, HistoriesNarrow, NEW p \in DOMAIN assignments, NEW start,
           IsDisjoint(assignments[p].term, start)
    PROVE  HasSatisfier(assignments[p], start)
<1> DEFINE a == assignments[p]
<1>1. a \in PackageAssignmentsType /\ a.dated # << >>
  BY AssignmentParts
<1>2. HistoryEnds(a)
  BY DEF HistoriesNarrow
<1>3. Len(a.dated) \in DOMAIN a.dated
  BY <1>1 DEF PackageAssignmentsType
<1> QED BY <1>2, <1>3 DEF HistoryEnds, HasSatisfier, SatisfyingDerivations

\* So every package of a conflict has a satisfier, ...
LEMMA SatisfiersFound ==
    ASSUME Invariant, HistoriesNarrow, NEW terms \in TermsType, Satisfied(terms, Known)
    PROVE  HasSatisfiers(terms)
<1> SUFFICES ASSUME NEW p \in IncompatPackages(terms)
             PROVE  /\ p \in DOMAIN assignments
                    /\ HasSatisfier(assignments[p], Negate(GetLast(terms, p)))
  BY DEF HasSatisfiers
<1>1. PICK t \in TermType : t = GetLast(terms, p)
  BY GetFinds
<1>2. <<p, t>> \in terms
  BY <1>1, GetFinds
<1>3. p \in DOMAIN assignments /\ SubsetOf(assignments[p].term, t)
  BY <1>2 DEF Satisfied, EntrySatisfied, Known, TermSatisfied
<1>4. assignments[p].term \in TermType
  BY <1>3, AssignmentParts
<1>5. IsDisjoint(assignments[p].term, Negate(t))
  BY <1>3, <1>4, SatisfiedDisjoint
<1> QED BY <1>1, <1>3, <1>5, KnownHasSatisfier

\* ... which is one of its assignments, ...
LEMMA SatisfierMoment ==
    ASSUME Invariant, NEW p \in DOMAIN assignments, NEW start,
           HasSatisfier(assignments[p], start), NEW s, s = Satisfier(p, start)
    PROVE  /\ s \in SatisfierType /\ s.package = p
           /\ Moment(s.index, s.level) \in Moments(assignments[p])
<1>1. PSTypeOK
  BY InvariantParts
<1>2. /\ s \in SatisfierType /\ s.package = p
      /\ \/ \E i \in DOMAIN assignments[p].dated :
                SatisfiedByDerivation(s, assignments[p], start, i)
         \/ SatisfiedByDecision(s, assignments[p], start)
  BY <1>1, SatisfierMeaning
<1>3. ASSUME NEW i \in DOMAIN assignments[p].dated,
             SatisfiedByDerivation(s, assignments[p], start, i)
      PROVE  Moment(s.index, s.level) \in Moments(assignments[p])
  <2>1. Moment(s.index, s.level)
            = Moment(assignments[p].dated[i].index, assignments[p].dated[i].level)
    BY <1>3 DEF SatisfiedByDerivation
  <2> QED BY <2>1, MomentsMeaning
<1>4. ASSUME SatisfiedByDecision(s, assignments[p], start)
      PROVE  Moment(s.index, s.level) \in Moments(assignments[p])
  <2>1. IsDecision(assignments[p])
    BY <1>4 DEF SatisfiedByDecision, HasSatisfier, SatisfyingDerivations
  <2>2. Moment(s.index, s.level) = DecisionMoment(assignments[p])
    BY <1>4 DEF SatisfiedByDecision, DecisionMoment
  <2> QED BY <2>1, <2>2, MomentsMeaning
<1> QED BY <1>2, <1>3, <1>4

\* ... and so has the satisfier's package when the satisfier gives way.
LEMMA PreviousFound ==
    ASSUME Invariant, HistoriesNarrow, NEW terms \in TermsType, Satisfied(terms, Known),
           NEW s \in SatisfiedMap(terms)
    PROVE  HasSatisfier(assignments[s.package], PreviousStart(store, terms, s))
<1>1. HasSatisfiers(terms) /\ PSTypeOK /\ CausesIn(store)
  BY SatisfiersFound, InvariantParts
<1>2. PICK p : p = s.package
  OBVIOUS
<1>3. p \in IncompatPackages(terms) /\ p \in DOMAIN assignments
  BY <1>1, <1>2, SatisfiedMapMeaning
<1>4. PICK t \in TermType : t = Get(terms, p)
  BY <1>3, GetFinds
<1>5. SubsetOf(assignments[p].term, t) /\ assignments[p].term \in TermType
  <2>1. <<p, t>> \in terms
    BY <1>3, <1>4, GetFinds
  <2> QED BY <1>3, <2>1, AssignmentParts DEF Satisfied, EntrySatisfied, Known, TermSatisfied
<1>6. PICK w : w = IF s.cause = NoCause THEN assignments[p].term
                                        ELSE Negate(Get(store[s.cause].terms, p))
  OBVIOUS
<1>7. w \in TermType
  <2>1. ASSUME s.cause # NoCause
        PROVE  Get(store[s.cause].terms, p) \in TermType
    <3>1. s.cause \in Ids /\ p \in IncompatPackages(store[s.cause].terms)
      BY <1>1, <1>2, <2>1, SatisfierCause
    <3>2. store[s.cause].terms \in TermsType
      BY <3>1, StoreEntry
    <3> QED BY <3>1, <3>2, GetFinds
  <2> QED BY <1>5, <1>6, <2>1, TermsClosed
<1>8. PreviousStart(store, terms, s) = Intersection(w, Negate(t))
  BY <1>2, <1>4, <1>6 DEF PreviousStart
<1>9. IsDisjoint(assignments[p].term, Intersection(w, Negate(t)))
  BY <1>5, <1>7, SatisfiedDisjoint
<1> QED BY <1>2, <1>3, <1>8, <1>9, KnownHasSatisfier

\* Every entry of the map is an assignment of its package.
Assigned(r) ==
    /\ r \in SatisfierType /\ r.package \in DOMAIN assignments
    /\ Moment(r.index, r.level) \in Moments(assignments[r.package])

LEMMA SatisfiersAssigned ==
    ASSUME Invariant, HistoriesNarrow, NEW terms \in TermsType, Satisfied(terms, Known)
    PROVE  /\ \A s \in SatisfiedMap(terms) : Assigned(s)
           /\ \A s \in SatisfiedMap(terms) :
                 LET r == Satisfier(s.package, PreviousStart(store, terms, s))
                 IN  Assigned(r) /\ r.package = s.package
           /\ \A s \in SatisfiedMap(terms) : \A r \in PreviousMap(store, terms, s) : Assigned(r)
<1>1. HasSatisfiers(terms) /\ PSTypeOK
  BY SatisfiersFound, InvariantParts
<1>2. ASSUME NEW s \in SatisfiedMap(terms)
      PROVE  Assigned(s)
  <2>1. /\ s.package \in IncompatPackages(terms) /\ s.package \in DOMAIN assignments
        /\ s = Satisfier(s.package, Negate(GetLast(terms, s.package)))
    BY <1>1, SatisfiedMapMeaning
  <2>2. PICK p, start : p = s.package /\ start = Negate(GetLast(terms, s.package))
    OBVIOUS
  <2>3. p \in DOMAIN assignments /\ HasSatisfier(assignments[p], start) /\ s = Satisfier(p, start)
    BY <1>1, <2>1, <2>2 DEF HasSatisfiers
  <2> QED BY <2>2, <2>3, SatisfierMoment DEF Assigned
<1>3. ASSUME NEW s \in SatisfiedMap(terms),
             NEW r, r = Satisfier(s.package, PreviousStart(store, terms, s))
      PROVE  Assigned(r) /\ r.package = s.package
  <2>1. HasSatisfier(assignments[s.package], PreviousStart(store, terms, s))
    BY PreviousFound
  <2>2. s.package \in DOMAIN assignments
    BY <1>1, SatisfiedMapMeaning
  <2>3. PICK p, start : p = s.package /\ start = PreviousStart(store, terms, s)
    OBVIOUS
  <2>4. r \in SatisfierType /\ r.package = p
        /\ Moment(r.index, r.level) \in Moments(assignments[p])
    BY <1>3, <2>1, <2>2, <2>3, SatisfierMoment
  <2> QED BY <2>2, <2>3, <2>4 DEF Assigned
<1> QED BY <1>2, <1>3 DEF PreviousMap

\* The history of a package begins at its smallest level.
LEMMA SmallestFirst ==
    ASSUME Invariant, HistoriesNarrow, NEW p \in DOMAIN assignments,
           NEW m \in Moments(assignments[p])
    PROVE  assignments[p].smallest <= m.level
<1> DEFINE a == assignments[p]
<1>1. a \in PackageAssignmentsType /\ a.dated # << >>
      /\ HistoryWellFormed(a, currentDecisionLevel)
  BY AssignmentParts
<1>2. HistoryEnds(a)
  BY DEF HistoriesNarrow
<1>3. /\ a.dated \in Seq(DatedDerivationType) /\ a.highest \in Nat
      /\ 1 \in DOMAIN a.dated /\ \A i \in DOMAIN a.dated : 1 <= i /\ a.dated[i].level \in Nat
  <2>1. a.dated \in Seq(DatedDerivationType) /\ a.highest \in Nat
    BY <1>1 DEF PackageAssignmentsType
  <2>2. \A i \in DOMAIN a.dated : 1 <= i /\ a.dated[i] \in DatedDerivationType
    BY <2>1
  <2> QED BY <1>1, <2>1, <2>2 DEF DatedDerivationType
<1>4. a.smallest = a.dated[1].level
  BY <1>1 DEF HistoryWellFormed
<1>5. ASSUME NEW i \in DOMAIN a.dated
      PROVE  a.smallest <= a.dated[i].level
  BY <1>1, <1>3, <1>4 DEF HistoryWellFormed
<1>6. a.smallest <= a.highest
  BY <1>1, <1>3, <1>4 DEF HistoryWellFormed
<1>7. CASE \E i \in DOMAIN a.dated : m = Moment(a.dated[i].index, a.dated[i].level)
  BY <1>5, <1>7 DEF Moment
<1>8. CASE m = DecisionMoment(a)
  BY <1>6, <1>8 DEF DecisionMoment, Moment
<1> QED BY <1>7, <1>8, MomentsMeaning

\* All entries of the map were made at the level of the previous satisfier or
\* before.
LEMMA PreviousIsLast ==
    ASSUME Invariant, HistoriesNarrow, AssignmentsOrdered,
           NEW terms \in TermsType, Satisfied(terms, Known),
           NEW s \in SatisfiedMap(terms), NEW previous,
           SatisfierSearch(store, terms, s, previous),
           NEW r \in PreviousMap(store, terms, s)
    PROVE  /\ r.level \in Nat /\ previous.level \in Nat
           /\ r.level <= previous.level /\ previous.level <= PreviousLevel(previous)
           /\ PreviousLevel(previous) \in Nat
<1>1. previous \in PreviousMap(store, terms, s) /\ r.index <= previous.index
  BY DEF SatisfierSearch, IsLatest
<1>2. Assigned(r) /\ Assigned(previous)
  BY <1>1, SatisfiersAssigned
<1>3. r.level \in Nat /\ previous.level \in Nat
  BY <1>2 DEF Assigned, SatisfierType
<1>4. PICK m : m = Moment(r.index, r.level)
  OBVIOUS
<1>5. PICK n : n = Moment(previous.index, previous.level)
  OBVIOUS
<1>6. InOrder(r.package, previous.package, assignments[r.package], assignments[previous.package])
  BY <1>2 DEF Assigned, AssignmentsOrdered
<1>7. m.index <= n.index
  BY <1>1, <1>4, <1>5 DEF Moment
<1>8. m.level <= n.level
  BY <1>2, <1>4, <1>5, <1>6, <1>7 DEF InOrder, Assigned
<1>9. r.level <= previous.level
  BY <1>4, <1>5, <1>8 DEF Moment
<1> QED BY <1>3, <1>9 DEF PreviousLevel
\* The root is never satisfied by its decision: the root incompatibility said
\* as much before.
LEMMA RootByDerivation ==
    ASSUME Invariant, HistoriesNarrow, RootSettled, NEW terms \in TermsType,
           Satisfied(terms, Known), NEW s \in SatisfiedMap(terms), s.cause = NoCause
    PROVE  s.package # RootPackage
<1> SUFFICES ASSUME s.package = RootPackage PROVE FALSE
  OBVIOUS
<1> DEFINE a == assignments[RootPackage]
<1>1. HasSatisfiers(terms) /\ PSTypeOK /\ CausesIn(store)
  BY SatisfiersFound, InvariantParts
<1>2. PICK t \in TermType : t = GetLast(terms, RootPackage)
  BY <1>1, SatisfiedMapMeaning, GetFinds
<1>3. /\ RootPackage \in DOMAIN assignments /\ RootPackage \in IncompatPackages(terms)
      /\ s = Satisfier(RootPackage, Negate(t))
  BY <1>1, <1>2, SatisfiedMapMeaning
<1>4. PICK start : start = Negate(t)
  OBVIOUS
<1>5. SatisfiedByDecision(s, a, start)
  <2>1. \/ \E i \in DOMAIN a.dated : SatisfiedByDerivation(s, a, start, i)
        \/ SatisfiedByDecision(s, a, start)
    BY <1>1, <1>3, <1>4, SatisfierMeaning
  <2>2. \A i \in DOMAIN a.dated : a.dated[i].cause # NoCause
    <3>1. CausesResolvable(RootPackage, a, store)
      BY <1>1, <1>3 DEF CausesIn
    <3> QED BY <3>1 DEF CausesResolvable, NoCause
  <2> QED BY <2>1, <2>2 DEF SatisfiedByDerivation
<1>6. /\ a \in PackageAssignmentsType /\ a.term \in TermType /\ a.dated # << >>
      /\ HistoryWellFormed(a, currentDecisionLevel)
      /\ a.dated \in Seq(DatedDerivationType)
  BY <1>3, AssignmentParts DEF PackageAssignmentsType
<1>7. IsDecision(a) /\ a.term = Exact(a.version) /\ a.highest > 0
  <2>1. HasSatisfier(a, start)
    BY <1>1, <1>2, <1>3, <1>4 DEF HasSatisfiers
  <2>2. IsDecision(a)
    BY <1>5, <2>1 DEF SatisfiedByDecision, HasSatisfier, SatisfyingDerivations
  <2>3. HistoryEnds(a)
    BY <1>3 DEF HistoriesNarrow
  <2>4. Len(a.dated) \in DOMAIN a.dated
    BY <1>6
  <2>5. a.dated[Len(a.dated)] \in DatedDerivationType
    BY <1>6, <2>4
  <2>6. a.dated[Len(a.dated)].level \in Nat /\ a.highest \in Nat
    BY <1>6, <2>5 DEF DatedDerivationType, PackageAssignmentsType
  <2> QED BY <2>2, <2>3, <2>6 DEF HistoryEnds
<1>8. PICK i \in DOMAIN a.dated : IsDisjoint(Negative({RootVersion}), a.dated[i].term)
  <2>1. ~NothingYet
    BY <1>3 DEF NothingYet
  <2>2. RuledOut(<<RootPackage, Negative({RootVersion})>>, 0)
    BY <2>1 DEF RootSettled
  <2>3. a.highest \in Nat
    BY <1>6 DEF PackageAssignmentsType
  <2>4. ~(a.highest <= 0)
    BY <1>7, <2>3
  <2> QED BY <2>2, <2>4 DEF RuledOut, RuledOutBy
<1>9. PICK u \in TermType : u = a.dated[i].term
  <2>1. a.dated[i] \in DatedDerivationType
    BY <1>6
  <2> QED BY <2>1 DEF DatedDerivationType
<1>10. u # EmptyTerm
  BY <1>6, <1>9 DEF HistoryWellFormed
<1>11. u = Positive({RootVersion})
  BY <1>8, <1>9, <1>10 DEF IsDisjoint, TermType, EmptyTerm, Positive, Negative
<1>12. SubsetOf(a.term, u)
  <2>1. HistoryNarrow(RootPackage)
    BY <1>3, HistoriesNarrowEach
  <2> QED BY <1>6, <1>9, <2>1, TermNarrowest DEF HistoryNarrow
<1>13. a.term = u
  <2>1. PICK v : v = a.version
    OBVIOUS
  <2>2. a.term = Positive({v})
    BY <1>7, <2>1 DEF Exact
  <2> QED BY <1>11, <1>12, <2>2 DEF SubsetOf, Positive
<1>14. SubsetOf(a.term, t)
  <2>1. <<RootPackage, t>> \in terms
    BY <1>2, <1>3, GetFinds
  <2> QED BY <1>3, <2>1 DEF Satisfied, EntrySatisfied, Known, TermSatisfied
<1>15. IsDisjoint(u, start)
  BY <1>4, <1>13, <1>14, SatisfiedDisjoint
<1> QED BY <1>5, <1>9, <1>15 DEF SatisfiedByDecision

\* A satisfier that is a decision was made at a level of its own, not the
\* first: everything else was there before.
LEMMA DecisionSatisfier ==
    ASSUME Invariant, HistoriesNarrow, RootSettled, AssignmentsOrdered, RootFirst,
           NEW terms \in TermsType, Satisfied(terms, Known),
           NEW s \in SatisfiedMap(terms), s.cause = NoCause, NEW previous,
           SatisfierSearch(store, terms, s, previous)
    PROVE  ~SameDecisionLevels(s, previous)
<1>1. HasSatisfiers(terms) /\ PSTypeOK /\ CausesIn(store)
  BY SatisfiersFound, InvariantParts
<1>2. PICK p : p = s.package
  OBVIOUS
<1> DEFINE a == assignments[p]
<1>3. p \in DOMAIN assignments /\ p \in IncompatPackages(terms) /\ p # RootPackage
  BY <1>1, <1>2, SatisfiedMapMeaning, RootByDerivation
<1>4. PICK t \in TermType : t = Get(terms, p)
  BY <1>3, GetFinds
<1>5. /\ a \in PackageAssignmentsType /\ a.term \in TermType /\ a.dated # << >>
      /\ HistoryWellFormed(a, currentDecisionLevel)
      /\ a.dated \in Seq(DatedDerivationType)
  BY <1>3, AssignmentParts DEF PackageAssignmentsType
<1>6. PICK start : start = Negate(GetLast(terms, p))
  OBVIOUS
<1>7. SatisfiedByDecision(s, a, start) /\ HasSatisfier(a, start)
  <2>1. s = Satisfier(p, start)
    BY <1>1, <1>2, <1>6, SatisfiedMapMeaning
  <2>2. \/ \E i \in DOMAIN a.dated : SatisfiedByDerivation(s, a, start, i)
        \/ SatisfiedByDecision(s, a, start)
    BY <1>1, <1>3, <2>1, SatisfierMeaning
  <2>3. \A i \in DOMAIN a.dated : a.dated[i].cause # NoCause
    <3>1. CausesResolvable(p, a, store)
      BY <1>1, <1>3 DEF CausesIn
    <3> QED BY <3>1 DEF CausesResolvable, NoCause
  <2>4. HasSatisfier(a, start)
    BY <1>1, <1>3, <1>6 DEF HasSatisfiers
  <2> QED BY <2>2, <2>3, <2>4 DEF SatisfiedByDerivation
<1>8. IsDecision(a) /\ s.level = a.highest /\ s.index = a.index
  BY <1>7 DEF SatisfiedByDecision, HasSatisfier, SatisfyingDerivations
<1>9. PICK n : n = DecisionMoment(a)
  OBVIOUS
<1>10. /\ n = Moment(s.index, s.level) /\ n.index = s.index /\ n.level = s.level
       /\ n \in Moments(a)
  BY <1>8, <1>9, MomentsMeaning DEF DecisionMoment, Moment
<1>11. a.highest \in Nat /\ \A i \in DOMAIN a.dated : a.dated[i].level \in Nat
  <2>1. \A i \in DOMAIN a.dated : a.dated[i] \in DatedDerivationType
    BY <1>5
  <2> QED BY <1>5, <2>1 DEF PackageAssignmentsType, DatedDerivationType
<1>12. 1 \in DOMAIN a.dated /\ a.dated[1].level < a.highest
  <2>1. HistoryEnds(a)
    BY <1>3 DEF HistoriesNarrow
  <2>2. 1 \in DOMAIN a.dated /\ Len(a.dated) \in DOMAIN a.dated /\ 1 <= Len(a.dated)
    BY <1>5
  <2>3. a.dated[1].level <= a.dated[Len(a.dated)].level
    BY <1>5, <2>2 DEF HistoryWellFormed
  <2> QED BY <1>8, <1>11, <2>1, <2>2, <2>3 DEF HistoryEnds
<1>13. a.highest > 1
  BY <1>3, <1>8, <1>11, <1>12 DEF RootFirst
<1>14. ASSUME NEW r \in SatisfiedMap(terms), r # s
       PROVE  r.level < s.level
  <2>1. Assigned(r) /\ Assigned(s) /\ r.package # p
    <3>1. r = Satisfier(r.package, Negate(GetLast(terms, r.package)))
      BY <1>1, SatisfiedMapMeaning
    <3>2. s = Satisfier(s.package, Negate(GetLast(terms, s.package)))
      BY <1>1, SatisfiedMapMeaning
    <3>3. r.package # s.package
      BY <1>14, <3>1, <3>2
    <3> QED BY <1>2, <3>3, SatisfiersAssigned
  <2>2. r.index <= s.index
    BY DEF SatisfierSearch, IsLatest
  <2>3. PICK m : m = Moment(r.index, r.level)
    OBVIOUS
  <2>4. m.index = r.index /\ m.level = r.level /\ m \in Moments(assignments[r.package])
    BY <2>1, <2>3 DEF Moment, Assigned
  <2>5. InOrder(r.package, p, assignments[r.package], a)
    BY <1>3, <2>1 DEF AssignmentsOrdered, Assigned
  <2>6. m.index # n.index
    BY <1>10, <2>1, <2>4, <2>5 DEF InOrder
  <2>7. m.index \in Nat /\ n.index \in Nat
    BY <1>10, <2>1, <2>4 DEF Assigned, SatisfierType
  <2>8. m.index < n.index
    BY <1>10, <2>2, <2>4, <2>6, <2>7
  <2> QED BY <1>8, <1>9, <1>10, <2>4, <2>5, <2>8 DEF InOrder
<1>15. ASSUME NEW r, r = Satisfier(p, PreviousStart(store, terms, s))
       PROVE  r.level < s.level
  <2>1. PICK ps : ps = Intersection(a.term, Negate(t))
    OBVIOUS
  <2>2. PreviousStart(store, terms, s) = ps
    BY <1>2, <1>4, <2>1 DEF PreviousStart
  <2>3. SubsetOf(a.term, t)
    <3>1. <<p, t>> \in terms
      BY <1>3, <1>4, GetFinds
    <3> QED BY <1>3, <3>1 DEF Satisfied, EntrySatisfied, Known, TermSatisfied
  <2>4. ps \in TermType /\ \A v \in Selections : ~TermContains(ps, v)
    <3>1. Negate(t) \in TermType
      BY TermsClosed
    <3> QED BY <1>5, <2>1, <2>3, <3>1, TermsClosed, SubsetOfMeaning, NegateMeaning,
               IntersectionMeaning
  <2>5. IsDisjoint(a.dated[1].term, ps)
    <3>1. a.dated[1] \in DatedDerivationType
      BY <1>5, <1>12
    <3>2. a.dated[1].term \in TermType
      BY <3>1 DEF DatedDerivationType
    <3> QED BY <2>4, <3>2, IsDisjointMeaning
  <2>6. PICK i \in DOMAIN a.dated : SatisfiedByDerivation(r, a, ps, i)
    <3>1. \/ \E i \in DOMAIN a.dated : SatisfiedByDerivation(r, a, ps, i)
          \/ SatisfiedByDecision(r, a, ps)
      BY <1>1, <1>3, <1>15, <2>2, SatisfierMeaning
    <3> QED BY <1>12, <2>5, <3>1 DEF SatisfiedByDecision
  <2>7. i = 1
    <3>1. ~(1 < i)
      BY <1>12, <2>5, <2>6 DEF SatisfiedByDerivation
    <3>2. i \in Nat /\ i >= 1
      BY <1>5
    <3> QED BY <3>1, <3>2
  <2> QED BY <1>8, <1>12, <2>6, <2>7 DEF SatisfiedByDerivation
<1>16. previous.level < s.level
  <2>1. previous \in PreviousMap(store, terms, s)
    BY DEF SatisfierSearch, IsLatest
  <2> QED BY <1>2, <1>14, <1>15, <2>1 DEF PreviousMap
<1>17. PreviousLevel(previous) < s.level
  BY <1>8, <1>11, <1>13, <1>16 DEF PreviousLevel
<1>18. PreviousLevel(previous) \in Nat /\ s.level \in Nat
  <2>1. previous \in PreviousMap(store, terms, s)
    BY DEF SatisfierSearch, IsLatest
  <2> QED BY <1>8, <1>11, <2>1, PreviousIsLast
<1> QED BY <1>17, <1>18 DEF SameDecisionLevels
-----------------------------------------------------------------------------
(* What backtracking leaves of the conflict *)

\* What was derived up to the level after a step is still known after it.
LEMMA StillKnown ==
    ASSUME Invariant, HistoriesNarrow, [Next]_vars, NEW q \in DOMAIN assignments,
           NEW i \in DOMAIN assignments[q].dated,
           assignments[q].dated[i].level <= currentDecisionLevel'
    PROVE  /\ q \in DOMAIN assignments' /\ assignments'[q].term \in TermType
           /\ SubsetOf(assignments'[q].term, assignments[q].dated[i].term)
<1>1. /\ q \in DOMAIN assignments' /\ i \in DOMAIN assignments'[q].dated
      /\ assignments'[q].dated[i] = assignments[q].dated[i]
  BY StaysAssignedStep DEF StaysAssigned
<1>2. Invariant' /\ HistoriesNarrow'
  BY NextInvariant, HistoriesNarrowStep
<1>3. PICK b, s, now : b = assignments'[q] /\ s = store' /\ now = nextGlobalIndex'
  OBVIOUS
<1>4. b \in PackageAssignmentsType
  BY <1>1, <1>2, <1>3 DEF Invariant, TypeOK, PSTypeOK
<1>5. b.dated # << >>
  BY <1>1, <1>2, <1>3 DEF Invariant, HistoriesWellFormed, HistoryWellFormed
<1>6. Narrow(q, b, s, now)
  BY <1>1, <1>2, <1>3 DEF HistoriesNarrow, Narrow
<1>7. SubsetOf(b.term, b.dated[i].term)
  BY <1>1, <1>3, <1>4, <1>5, <1>6, TermNarrowest
<1> QED BY <1>1, <1>3, <1>4, <1>7 DEF PackageAssignmentsType

\* Packages are looked up in one entry, unless there is only one package.
LEMMA OneEntry ==
    ASSUME NEW terms \in TermsType, Resolvable(terms), NEW p \in IncompatPackages(terms),
           NEW x \in terms, x[1] # p
    PROVE  x[2] = GetLast(terms, x[1])
<1>1. CASE OneTermPerPackage(terms)
  BY <1>1, GetOnly
<1>2. ASSUME NEW q \in Packages, NEW v \in Versions, NEW set \in SUBSET Versions,
             terms = SelfTerms(q, v, set)
      PROVE  FALSE
  BY <1>2 DEF SelfTerms, IncompatPackages
<1> QED BY <1>1, <1>2 DEF Resolvable

LEMMA ConflictBacks ==
    ASSUME Invariant, BacktrackFromConflict
    PROVE  [Next]_vars /\ pc = "conflict" /\ conflict \in Ids
<1>1. Next
  BY DEF Next
<1>2. pc = "conflict"
  BY DEF BacktrackFromConflict, Resolving
<1>3. conflict \in Ids
  BY DEF Invariant, TypeOK, SolverTypeOK
<1> QED BY <1>1, <1>2, <1>3

\* The terms of the other packages stay satisfied, ...
LEMMA OthersStaySatisfied ==
    ASSUME Invariant, HistoriesNarrow, AssignmentsOrdered, ConflictSatisfied,
           BacktrackFromConflict, NEW s, NEW previous, Searched(s, previous),
           currentDecisionLevel' = PreviousLevel(previous),
           NEW x \in store[conflict].terms, x[1] # s.package
    PROVE  SatisfiedNext(x)
<1>1. PICK terms : terms = store[conflict].terms
  OBVIOUS
<1>2. [Next]_vars /\ pc = "conflict" /\ conflict \in Ids
  BY ConflictBacks
<1>3. terms \in TermsType /\ Satisfied(terms, Known) /\ Resolvable(terms)
  BY <1>1, <1>2, StoreEntry DEF ConflictSatisfied, Invariant, ConflictResolvable
<1>4. HasSatisfiers(terms) /\ PSTypeOK
  BY <1>3, SatisfiersFound, InvariantParts
<1>5. s \in SatisfiedMap(terms) /\ SatisfierSearch(store, terms, s, previous)
  BY <1>1 DEF Searched
<1>6. PICK q, t : q = x[1] /\ t = x[2]
  OBVIOUS
<1>7. q # s.package /\ q \in IncompatPackages(terms) /\ t = GetLast(terms, q)
  <2>1. s.package \in IncompatPackages(terms)
    BY <1>4, <1>5, SatisfiedMapMeaning
  <2> QED BY <1>1, <1>3, <1>6, <2>1, OneEntry DEF IncompatPackages
<1>8. t \in TermType
  BY <1>3, <1>7, GetFinds
<1>9. q \in DOMAIN assignments /\ SubsetOf(assignments[q].term, t)
  BY <1>1, <1>3, <1>6 DEF Satisfied, EntrySatisfied, Known, TermSatisfied
<1>10. PICK start : start = Negate(t)
  OBVIOUS
<1>11. PICK r : r = Satisfier(q, start)
  OBVIOUS
<1>12. r \in SatisfiedMap(terms) /\ r.package = q
  BY <1>4, <1>7, <1>9, <1>10, <1>11, SatisfierMeaning DEF SatisfiedMap
<1>13. r \in PreviousMap(store, terms, s)
  BY <1>7, <1>12 DEF PreviousMap
<1>14. r.level <= currentDecisionLevel'
  BY <1>3, <1>5, <1>13, PreviousIsLast
<1>15. StaysAssigned(q)
  BY <1>2, <1>9, StaysAssignedStep
<1>16. ASSUME NEW i \in DOMAIN assignments[q].dated,
              SatisfiedByDerivation(r, assignments[q], start, i)
       PROVE  SatisfiedNext(x)
  <2>1. assignments[q].dated[i].level <= currentDecisionLevel'
    BY <1>14, <1>16 DEF SatisfiedByDerivation
  <2>2. PICK u : u = assignments[q].dated[i].term
    OBVIOUS
  <2>3. u \in TermType
    <3>1. assignments[q] \in PackageAssignmentsType
      BY <1>9, AssignmentParts
    <3>2. assignments[q].dated[i] \in DatedDerivationType
      BY <3>1 DEF PackageAssignmentsType
    <3> QED BY <2>2, <3>2 DEF DatedDerivationType
  <2>4. SubsetOf(u, t)
    BY <1>8, <1>10, <1>16, <2>2, <2>3, SatisfiedDisjoint DEF SatisfiedByDerivation
  <2>5. /\ q \in DOMAIN assignments' /\ assignments'[q].term \in TermType
        /\ SubsetOf(assignments'[q].term, u)
    BY <1>2, <1>9, <2>1, <2>2, StillKnown
  <2>6. SubsetOf(assignments'[q].term, t)
    BY <1>8, <2>3, <2>4, <2>5, SubsetOfTransitive
  <2> QED BY <1>6, <2>5, <2>6 DEF SatisfiedNext
<1>17. ASSUME SatisfiedByDecision(r, assignments[q], start)
       PROVE  SatisfiedNext(x)
  <2>1. HasSatisfier(assignments[q], start)
    BY <1>4, <1>7, <1>10 DEF HasSatisfiers
  <2>2. IsDecision(assignments[q]) /\ assignments[q].highest <= currentDecisionLevel'
    BY <1>14, <1>17, <2>1 DEF SatisfiedByDecision, HasSatisfier, SatisfyingDerivations
  <2>3. q \in DOMAIN assignments' /\ assignments'[q] = assignments[q]
    BY <1>15, <2>2 DEF StaysAssigned
  <2> QED BY <1>6, <1>9, <2>3 DEF SatisfiedNext
<1> QED BY <1>4, <1>9, <1>11, <1>16, <1>17, SatisfierMeaning

\* ... and that of the satisfier's package is open again.
LEMMA SatisfierOpenAgain ==
    ASSUME Invariant, HistoriesNarrow, AssignmentsOrdered, ConflictSatisfied,
           BacktrackFromConflict, NEW s, NEW previous, Searched(s, previous),
           ~SameDecisionLevels(s, previous), Backs(PreviousLevel(previous))
    PROVE  /\ s.package \in DOMAIN assignments' /\ ~IsDecision(assignments'[s.package])
           /\ \E x \in store[conflict].terms :
                 x[1] = s.package /\ TermInconclusive(x[2], assignments'[s.package].term)
<1>1. PICK terms : terms = store[conflict].terms
  OBVIOUS
<1>2. [Next]_vars /\ pc = "conflict" /\ conflict \in Ids
  BY ConflictBacks
<1>3. terms \in TermsType /\ Satisfied(terms, Known) /\ Resolvable(terms)
  BY <1>1, <1>2, StoreEntry DEF ConflictSatisfied, Invariant, ConflictResolvable
<1>4. HasSatisfiers(terms) /\ PSTypeOK /\ PSWellFormed
  BY <1>3, SatisfiersFound, InvariantParts
<1>5. s \in SatisfiedMap(terms) /\ SatisfierSearch(store, terms, s, previous)
  BY <1>1 DEF Searched
<1>6. PICK p : p = s.package
  OBVIOUS
<1>7. p \in IncompatPackages(terms) /\ p \in DOMAIN assignments
  BY <1>4, <1>5, <1>6, SatisfiedMapMeaning
<1>8. PICK t \in TermType : t = GetLast(terms, p)
  BY <1>3, <1>7, GetFinds
<1>9. <<p, t>> \in terms
  BY <1>3, <1>7, <1>8, GetFinds
<1>10. PICK level \in Nat : level = PreviousLevel(previous)
  BY BackedAssignments
<1>11. PICK a : a = assignments[p]
  OBVIOUS
<1>12. /\ a \in PackageAssignmentsType /\ a.term \in TermType /\ a.term # EmptyTerm
       /\ HistoryWellFormed(a, currentDecisionLevel) /\ currentDecisionLevel \in Nat
  BY <1>7, <1>11, AssignmentParts DEF HistoryWellFormed
<1>13. PICK r : r = Satisfier(p, PreviousStart(store, terms, s))
  OBVIOUS
<1>14. Assigned(r) /\ r.package = p /\ Assigned(s)
  BY <1>3, <1>5, <1>6, <1>13, SatisfiersAssigned
<1>15. r.level <= level
  <2>1. r \in PreviousMap(store, terms, s)
    BY <1>6, <1>13 DEF PreviousMap
  <2> QED BY <1>3, <1>5, <1>10, <2>1, PreviousIsLast
<1>16. a.smallest <= level
  <2>1. PICK m : m = Moment(r.index, r.level)
    OBVIOUS
  <2>2. m \in Moments(assignments[p]) /\ m.level = r.level
    BY <1>14, <2>1 DEF Assigned, Moment
  <2>3. a.smallest <= r.level
    BY <1>7, <1>11, <2>2, SmallestFirst
  <2>4. a.smallest \in Nat /\ r.level \in Nat
    BY <1>12, <1>14 DEF PackageAssignmentsType, Assigned, SatisfierType
  <2> QED BY <1>15, <2>3, <2>4
<1>17. s.level \in Nat /\ level < s.level
  BY <1>10, <1>14 DEF Assigned, SatisfierType, SameDecisionLevels
<1>18. PICK b : b = BacktrackedAssignment(a, level)
  OBVIOUS
<1>19. p \in DOMAIN assignments' /\ assignments'[p] = b
  BY <1>7, <1>10, <1>11, <1>16, <1>18, BackedAssignments
<1>20. b.term \in TermType /\ ~IsDisjoint(b.term, Negate(t))
  BY <1>4, <1>5, <1>6, <1>8, <1>11, <1>16, <1>17, <1>18, CutBeforeSatisfier
<1>21. ~SubsetOf(b.term, t)
  BY <1>20, SatisfiedDisjoint
<1>22. SubsetOf(a.term, t)
  BY <1>3, <1>7, <1>9, <1>11 DEF Satisfied, EntrySatisfied, Known, TermSatisfied
<1>23. ~(a.highest <= level)
  BY <1>18, <1>21, <1>22 DEF BacktrackedAssignment
<1>24. b = Truncate(a, level)
  BY <1>18, <1>23 DEF BacktrackedAssignment
<1>25. ~IsDecision(b)
  BY <1>12, <1>24 DEF Truncate, PackageAssignmentsType, IsDecision
<1>26. SubsetOf(a.term, b.term)
  <2>1. PICK n : n = KeptDerivations(a.dated, level)
    OBVIOUS
  <2>2. n \in DOMAIN a.dated /\ b.term = a.dated[n].term
    BY <1>12, <1>16, <1>24, <2>1, TruncateWellFormed
  <2>3. HistoryNarrow(p) /\ a.dated # << >>
    BY <1>7, <1>12, HistoriesNarrowEach DEF HistoryWellFormed
  <2> QED BY <1>11, <1>12, <2>2, <2>3, TermNarrowest DEF HistoryNarrow
<1>27. ~IsDisjoint(t, b.term)
  BY <1>12, <1>20, <1>22, <1>26, SubsetOfMeaning, IsDisjointMeaning, EmptyTermMeaning
<1>28. TermInconclusive(t, b.term)
  BY <1>21, <1>27 DEF TermInconclusive
<1>29. \E x \in terms : x[1] = p /\ TermInconclusive(x[2], b.term)
  <2>1. PICK x : x = <<p, t>>
    OBVIOUS
  <2> QED BY <1>9, <1>28, <2>1
<1> QED BY <1>1, <1>6, <1>19, <1>25, <1>29
LEMMA RootCauseLeft ==
    ASSUME Invariant, HistoriesNarrow, AssignmentsOrdered, ConflictSatisfied,
           BacktrackFromConflict
    PROVE  /\ currentDecisionLevel' < currentDecisionLevel /\ currentDecisionLevel' >= 1
           /\ conflict' = conflict /\ store'[conflict].terms = store[conflict].terms
           /\ buffer'[1] \in DOMAIN assignments' /\ ~IsDecision(assignments'[buffer'[1]])
           /\ \E x \in store[conflict].terms :
                 /\ x[1] = buffer'[1]
                 /\ TermInconclusive(x[2], assignments'[buffer'[1]].term)
           /\ \A x \in store[conflict].terms : x[1] # buffer'[1] => SatisfiedNext(x)
<1>1. PICK s, previous :
         /\ Searched(s, previous) /\ ~SameDecisionLevels(s, previous)
         /\ Backs(PreviousLevel(previous))
         /\ buffer' = <<s.package>> /\ conflict' = conflict
  BY BacktrackedConflict
<1>2. [Next]_vars /\ conflict \in Ids
  BY ConflictBacks
<1>3. PICK level : level = PreviousLevel(previous)
  OBVIOUS
<1>4. level >= 1 /\ level < currentDecisionLevel /\ currentDecisionLevel' = level
  BY <1>1, <1>3, BackedAssignments
<1>5. store'[conflict] = store[conflict]
  BY <1>2, StepExtends DEF StoreExtends, Ids
<1>6. buffer'[1] = s.package
  BY <1>1
<1>7. /\ s.package \in DOMAIN assignments' /\ ~IsDecision(assignments'[s.package])
      /\ \E x \in store[conflict].terms :
            x[1] = s.package /\ TermInconclusive(x[2], assignments'[s.package].term)
  BY <1>1, SatisfierOpenAgain
<1>8. \A x \in store[conflict].terms : x[1] # s.package => SatisfiedNext(x)
  BY <1>1, <1>3, <1>4, OthersStaySatisfied
<1> QED BY <1>1, <1>4, <1>5, <1>6, <1>7, <1>8

LEMMA LearnSteps ==
    ASSUME Invariant, [Next]_vars, pc' = "learn"
    PROVE  UNCHANGED vars \/ BacktrackFromConflict
<1>1. ASSUME Next
      PROVE  BacktrackFromConflict
  <2>1. pc # "loop"
    BY <1>1, StepsAt DEF Cancel, StartPropagation
  <2>2. pc # "propagate"
    BY <1>1, StepsAt DEF PopPackage, EndPropagation
  <2>3. pc # "scan"
    BY <1>1, StepsAt DEF SkipContradicted, ScanConflict, ScanAlmostSatisfied, Scanning,
                         ScanContradicted, ScanInconclusive, EndScan
  <2>4. pc = "conflict" => BacktrackFromConflict
    BY <1>1, StepsAt DEF FailTerminal, ResolveConflict, Resolving
  <2>5. pc \notin {"learn", "pick"}
    BY <1>1, StepsAt DEF Learn, ReturnSolution, Pick
  <2>6. pc # "choose"
    BY <1>1, StepsAt DEF ProviderError, ChooseNone, ChooseUnavailable, ChooseNew, ChooseKnown
  <2>7. pc \notin {"merge", "decide"}
    BY <1>1, StepsAt DEF MergeDependency, EndMerge, Accept, Reject
  <2>8. pc \notin Done
    BY <1>1, StepsAt DEF Done, Terminated, vars, solverVars
  <2>9. pc \in PC
    BY DEF Invariant, TypeOK, SolverTypeOK
  <2> QED BY <2>1, <2>2, <2>3, <2>4, <2>5, <2>6, <2>7, <2>8, <2>9 DEF PC
<1> QED BY <1>1

LEMMA RootCauseDerivesStep ==
    ASSUME Invariant, HistoriesNarrow, AssignmentsOrdered, ConflictSatisfied,
           RootCauseDerives, [Next]_vars
    PROVE  RootCauseDerives'
<1> SUFFICES ASSUME pc' = "learn"
             PROVE  /\ buffer'[1] \in DOMAIN assignments'
                    /\ ~IsDecision(assignments'[buffer'[1]])
                    /\ \A x \in store'[conflict'].terms : x[1] # buffer'[1] => SatisfiedNext(x)
  BY DEF SatisfiedNext, RootCauseDerives, EntrySatisfied, Known, TermSatisfied, Decided,
         IsDecision
<1>0. \A x : EntrySatisfied(x, Known) =>
         x[1] \in DOMAIN assignments /\ SubsetOf(assignments[x[1]].term, x[2])
  BY DEF EntrySatisfied, Known, TermSatisfied
<1>1. CASE UNCHANGED vars
  <2>1. pc = "learn" /\ UNCHANGED <<store, conflict, assignments, buffer>>
    BY <1>1 DEF vars, psVars, coreVars, solverVars
  <2> QED BY <1>0, <2>1 DEF RootCauseDerives, SatisfiedNext, Decided
<1>2. CASE BacktrackFromConflict
  BY <1>2, RootCauseLeft
<1> QED BY <1>1, <1>2, LearnSteps

\* The step that backtracks, as the property has it.
LEMMA BacktrackLeaves ==
    ASSUME Invariant, HistoriesNarrow, AssignmentsOrdered, ConflictSatisfied, [Next]_vars,
           pc = "conflict", pc' = "learn"
    PROVE  /\ currentDecisionLevel' < currentDecisionLevel
           /\ currentDecisionLevel' >= 1
           /\ \E x \in store'[conflict].terms :
                 x[1] = buffer'[1] /\ EntryInconclusive(x, Known')
           /\ \A x \in store'[conflict].terms :
                 x[1] # buffer'[1] => EntrySatisfied(x, Known')
<1>1. ~UNCHANGED vars
  BY DEF vars, solverVars
<1>2. BacktrackFromConflict
  BY <1>1, LearnSteps
<1>3. \A x : SatisfiedNext(x) => EntrySatisfied(x, Known')
  BY DEF SatisfiedNext, EntrySatisfied, Known, TermSatisfied
<1>4. ASSUME NEW x, x[1] = buffer'[1], buffer'[1] \in DOMAIN assignments',
             TermInconclusive(x[2], assignments'[buffer'[1]].term)
      PROVE  EntryInconclusive(x, Known')
  <2>1. PICK q : q = x[1]
    OBVIOUS
  <2>2. q \in DOMAIN assignments' /\ TermInconclusive(x[2], assignments'[q].term)
    BY <1>4, <2>1
  <2>3. Known'[q] = assignments'[q].term
    BY <2>2 DEF Known
  <2> QED BY <2>1, <2>2, <2>3 DEF EntryInconclusive
<1> QED BY <1>2, <1>3, <1>4, RootCauseLeft
-----------------------------------------------------------------------------
(* The packages that have incompatibilities *)

LEMMA ListedSome ==
    ASSUME NEW S, NEW lists \in [Packages -> Seq(S)], NEW p \in Packages
    PROVE  (\E x : IsListed(lists, p, x)) <=> lists[p] # << >>
<1>1. PICK ids : ids = lists[p]
  OBVIOUS
<1>2. ids \in Seq(S)
  BY <1>1
<1>3. ids # << >> => 1 \in DOMAIN ids
  BY <1>2
<1>4. ids = << >> => DOMAIN ids = {}
  OBVIOUS
<1> QED BY <1>1, <1>3, <1>4 DEF IsListed

DependencyEnds(p, q, set) == IF set = {} THEN {p} ELSE {p, q}

LEMMA DependencyPackages ==
    ASSUME NEW p, NEW versions, NEW q, NEW set
    PROVE  IncompatPackages(FromDependency(p, versions, q, set).terms) = DependencyEnds(p, q, set)
<1>1. PICK terms : terms = FromDependency(p, versions, q, set).terms
  OBVIOUS
<1>2. PICK x : x = <<p, Positive(versions)>>
  OBVIOUS
<1>3. PICK y : y = <<q, Negative(set)>>
  OBVIOUS
<1>4. terms = IF set = {} THEN {x} ELSE {x, y}
  <2>1. terms = {x} \cup (IF set = {} THEN {} ELSE {y})
    BY <1>1, <1>2, <1>3 DEF FromDependency
  <2> QED BY <2>1
<1>5. x[1] = p /\ y[1] = q
  BY <1>2, <1>3
<1> QED BY <1>1, <1>4, <1>5 DEF IncompatPackages, DependencyEnds

LEMMA MergedPackages ==
    ASSUME NEW i, NEW j, IsDependency(i), IsDependency(j), CanMerge(i, j)
    PROVE  IncompatPackages(Merged(i, j).terms) = IncompatPackages(i.terms)
<1>1. PICK p \in Packages, q \in Packages : i.dependency = <<p, q>>
  BY DEF IsDependency
<1>2. PICK v1, v2, set \in Ranges : MergesTo(i, j, p, q, v1, v2, set)
  BY <1>1, MergedIsDependency
<1>3. i = FromDependency(p, v1, q, set) /\ Merged(i, j) = FromDependency(p, v1 \cup v2, q, set)
  BY <1>2 DEF MergesTo
<1>4. IncompatPackages(i.terms) = DependencyEnds(p, q, set)
  BY <1>3, DependencyPackages
<1>5. IncompatPackages(Merged(i, j).terms) = DependencyEnds(p, q, set)
  BY <1>3, DependencyPackages
<1> QED BY <1>4, <1>5

\* Once a package has incompatibilities it keeps some, ...
HasList(p) == incompatibilities[p] # << >>

ListsKept == \A p \in Packages : HasList(p) => incompatibilities'[p] # << >>

LEMMA MergeKeepsLists ==
    ASSUME NEW s, GoodStore(s), NEW id \in 1 .. Len(s),
           ListsIn(incompatibilities, s), MergedIn(mergedDependencies, s),
           MergeIncompatibility(s, id), ListsIn(incompatibilities', store')
    PROVE  ListsKept
<1>1. \/ Keep(s, id)
      \/ \E k : /\ MergesWith(s, id, PastDependencies(s, id), k) /\ ReplacePast(s, id, k)
                /\ k \in DOMAIN PastDependencies(s, id)
  BY DEF MergeIncompatibility
<1>2. s \in Seq(IncompatibilityType) /\ Len(s) \in Nat
  BY DEF GoodStore
<1>3. ASSUME NEW p \in Packages, HasList(p), NEW lists \in [Packages -> Seq(1 .. Len(s))],
             lists[p] = incompatibilities[p], NEW terms, IsFiniteSet(terms), NEW new,
             incompatibilities' = Register(lists, terms, new)
      PROVE  incompatibilities'[p] # << >>
  <2>1. PICK x : IsListed(lists, p, x)
    BY <1>3, ListedSome DEF HasList
  <2>2. IsListed(Register(lists, terms, new), p, x)
    BY <1>3, <2>1, RegisterLists
  <2> QED BY <1>3, <2>2, ListedSome DEF ListsIn
<1>4. CASE Keep(s, id)
  <2>1. incompatibilities' = Register(incompatibilities, s[id].terms, id)
    BY <1>4 DEF Keep
  <2>2. IsFiniteSet(s[id].terms)
    BY DEF GoodStore, WellFormed
  <2> QED BY <1>3, <2>1, <2>2 DEF ListsKept, ListsIn
<1>5. ASSUME NEW k, MergesWith(s, id, PastDependencies(s, id), k), ReplacePast(s, id, k),
             k \in DOMAIN PastDependencies(s, id)
      PROVE  ListsKept
  <2>1. PICK merged, past :
           /\ store' = Append(s, merged)
           /\ incompatibilities' =
                 Register(Unregister(incompatibilities, merged.terms, past), merged.terms, Len(s) + 1)
    BY <1>5 DEF ReplacePast
  <2>2. PICK past2 \in 1 .. Len(s) : Replaced(s, id, past2)
    <3>1. ~Kept(s, id)
      BY <1>2, <2>1 DEF Kept
    <3> QED BY <3>1, MergeLists
  <2>3. merged = Merged(s[id], s[past2])
    <3>1. PICK merged2 : merged2 = Merged(s[id], s[past2])
      OBVIOUS
    <3>2. Append(s, merged) = Append(s, merged2)
      BY <2>1, <2>2, <3>1 DEF Replaced
    <3>3. Append(s, merged)[Len(s) + 1] = merged /\ Append(s, merged2)[Len(s) + 1] = merged2
      BY <1>2
    <3> QED BY <3>1, <3>2, <3>3
  <2>4. IsFiniteSet(merged.terms)
    <3>1. WellFormed(merged)
      BY <2>2, <2>3, MergedWellFormed DEF Replaced
    <3> QED BY <3>1 DEF WellFormed
  <2>5. PICK rest : rest = Unregister(incompatibilities, merged.terms, past)
    OBVIOUS
  <2>6. /\ rest \in [Packages -> Seq(1 .. Len(s))]
        /\ \A p \in Packages : p \notin IncompatPackages(merged.terms)
                                  => rest[p] = incompatibilities[p]
    <3>1. incompatibilities \in [Packages -> Seq(1 .. Len(s))]
      BY DEF ListsIn
    <3>2. rest \in [Packages -> Seq(1 .. Len(s))]
      BY <2>5, <3>1, UnregisterType
    <3> QED BY <2>5, <3>2 DEF Unregister
  <2>7. ASSUME NEW p \in Packages, HasList(p)
        PROVE  incompatibilities'[p] # << >>
    <3>1. CASE p \in IncompatPackages(merged.terms)
      <4>1. IsListed(incompatibilities', p, Len(s) + 1)
        BY <2>2, <2>3, <3>1 DEF Replaced
      <4> QED BY <4>1, ListedSome DEF ListsIn
    <3>2. CASE p \notin IncompatPackages(merged.terms)
      BY <1>3, <2>1, <2>4, <2>5, <2>6, <2>7, <3>2
    <3> QED BY <3>1, <3>2
  <2> QED BY <2>7 DEF ListsKept
<1> QED BY <1>1, <1>4, <1>5

\* ... and what is merged is listed with its packages.
ListedNext(id) == \A p \in IncompatPackages(store'[id].terms) : incompatibilities'[p] # << >>

LEMMA MergeListed ==
    ASSUME NEW s, GoodStore(s), NEW id \in 1 .. Len(s),
           ListsIn(incompatibilities, s), MergedIn(mergedDependencies, s),
           MergeIncompatibility(s, id), ListsIn(incompatibilities', store'), GoodStore(store')
    PROVE  ListedNext(id) /\ \A k \in 1 .. Len(store') : k \in 1 .. Len(s) \/ ListedNext(k)
<1>1. \A k \in 1 .. Len(store') : IncompatPackages(store'[k].terms) \subseteq Packages
  <2>1. ASSUME NEW k \in 1 .. Len(store')
        PROVE  IncompatPackages(store'[k].terms) \subseteq Packages
    <3>1. store'[k] \in IncompatibilityType
      BY DEF GoodStore
    <3> QED BY <3>1 DEF IncompatibilityType, IncompatPackages
  <2> QED BY <2>1
<1>2. \A p \in Packages : (\E x : IsListed(incompatibilities', p, x)) => incompatibilities'[p] # << >>
  BY ListedSome DEF ListsIn
<1>3. CASE Kept(s, id)
  <2>1. store' = s
    BY <1>3 DEF Kept
  <2>2. ListedNext(id)
    BY <1>1, <1>2, <1>3, <2>1 DEF Kept, ListedNext
  <2> QED BY <2>1, <2>2
<1>4. ASSUME NEW past, Replaced(s, id, past)
      PROVE  ListedNext(id) /\ \A k \in 1 .. Len(store') : k \in 1 .. Len(s) \/ ListedNext(k)
  <2>1. /\ Len(s) + 1 \in 1 .. Len(store') /\ store'[Len(s) + 1] = Merged(s[id], s[past])
        /\ id \in 1 .. Len(store') /\ store'[id] = s[id]
    BY <1>4, ReplacedStore
  <2>2. IncompatPackages(store'[Len(s) + 1].terms) = IncompatPackages(s[id].terms)
    BY <1>4, <2>1, MergedPackages DEF Replaced
  <2>3. ListedNext(Len(s) + 1)
    BY <1>1, <1>2, <1>4, <2>1 DEF Replaced, ListedNext
  <2>4. ListedNext(id)
    BY <2>1, <2>2, <2>3 DEF ListedNext
  <2>5. Len(store') = Len(s) + 1 /\ Len(s) \in Nat
    <3>1. s \in Seq(IncompatibilityType)
      BY DEF GoodStore
    <3>2. PICK merged : merged = Merged(s[id], s[past])
      OBVIOUS
    <3>3. store' = Append(s, merged)
      BY <1>4, <3>2 DEF Replaced
    <3> QED BY <3>1, <3>3
  <2> QED BY <2>3, <2>4, <2>5
<1> QED BY <1>3, <1>4, MergeLists
\* The steps that change the lists.
LEMMA ListSteps ==
    ASSUME [Next]_vars
    PROVE  \/ /\ UNCHANGED <<incompatibilities, pending>>
              /\ UNCHANGED store \/ ResolveConflict
           \/ BacktrackFromConflict \/ ChooseNone \/ ChooseUnavailable
           \/ ChooseNew \/ MergeDependency
BY DEF Next, vars, coreVars, solverVars, psVars, Cancel, StartPropagation, PopPackage,
       EndPropagation, SkipContradicted, ScanConflict, ScanAlmostSatisfied,
       PropagateAlmostSatisfied, ScanContradicted, FindContradicted, ScanInconclusive,
       FindInconclusive, EndScan, FailTerminal, Learn, LearnRootCause, ReturnSolution, Pick,
       ProviderError, ChooseKnown, EndMerge, Accept, Reject, Terminated, ResolveConflict,
       ResolveWithCause

\* A merge into a store that has at most one entry more.
Merges(s, id) ==
    /\ GoodStore(s) /\ StoreExtends(store, s) /\ id \in 1 .. Len(s)
    /\ MergeIncompatibility(s, id)
    /\ \A k \in 1 .. Len(s) : k \in Ids \/ k = id

LEMMA MergesKeep ==
    ASSUME Invariant, [Next]_vars, NEW s, NEW id, Merges(s, id)
    PROVE  ListsKept /\ ListedNext(id) /\ \A k \in Ids' : k \in Ids \/ ListedNext(k)
<1>1. /\ GoodStore(s) /\ StoreExtends(store, s) /\ id \in 1 .. Len(s)
      /\ MergeIncompatibility(s, id) /\ \A k \in 1 .. Len(s) : k \in Ids \/ k = id
  BY DEF Merges
<1>2. ListsIn(incompatibilities, s) /\ MergedIn(mergedDependencies, s)
  BY <1>1, ListsExtend
<1>3. ListsIn(incompatibilities', store') /\ GoodStore(store')
  BY <1>1, <1>2, MergeWellFormed
<1>4. ListsKept
  BY <1>1, <1>2, <1>3, MergeKeepsLists
<1>5. ListedNext(id) /\ \A k \in 1 .. Len(store') : k \in 1 .. Len(s) \/ ListedNext(k)
  BY <1>1, <1>2, <1>3, MergeListed
<1> QED BY <1>1, <1>4, <1>5 DEF Ids

LEMMA AddMerges ==
    ASSUME Invariant, NEW new \in IncompatibilityType, WellFormed(new), AddIncompatibility(new)
    PROVE  \E s, id : Merges(s, id)
<1>1. PICK s : s = Append(store, new)
  OBVIOUS
<1>2. /\ GoodStore(s) /\ StoreExtends(store, s) /\ Len(store) + 1 \in 1 .. Len(s)
      /\ MergeIncompatibility(s, Len(store) + 1)
  BY <1>1, AppendGood DEF AddIncompatibility
<1>3. \A k \in 1 .. Len(s) : k \in Ids \/ k = Len(store) + 1
  <2>1. store \in Seq(IncompatibilityType)
    BY InvariantParts DEF GoodStore
  <2>2. Len(s) = Len(store) + 1 /\ Len(store) \in Nat
    BY <1>1, <2>1
  <2> QED BY <2>2 DEF Ids
<1> QED BY <1>2, <1>3 DEF Merges

LEMMA ListMerges ==
    ASSUME Invariant,
           BacktrackFromConflict \/ ChooseNone \/ ChooseUnavailable \/ MergeDependency
    PROVE  \/ /\ BacktrackFromConflict
              /\ UNCHANGED <<store, incompatibilities, mergedDependencies>>
           \/ \E s, id : Merges(s, id) /\ (MergeDependency => id = Head(pending))
<1>1. ASSUME NEW id \in Ids, MergeIncompatibility(store, id)
      PROVE  Merges(store, id)
  <2>1. GoodStore(store) /\ StoreExtends(store, store)
    BY InvariantParts DEF StoreExtends, GoodStore
  <2> QED BY <1>1, <2>1 DEF Merges, Ids
<1>2. CASE BacktrackFromConflict
  <2>1. conflict \in Ids /\ pc = "conflict"
    BY <1>2, InvariantParts DEF BacktrackFromConflict, Resolving, SolverTypeOK
  <2>2. \/ MergeIncompatibility(store, conflict)
        \/ UNCHANGED <<store, incompatibilities, mergedDependencies>>
    BY <1>2, BacktrackedConflict
  <2>3. ~MergeDependency
    BY <2>1 DEF MergeDependency
  <2> QED BY <1>1, <1>2, <2>1, <2>2, <2>3
<1>3. CASE ChooseNone
  <2>1. pc = "choose" /\ AddIncompatibility(NoVersions(next, Positive(CurrentRange)))
    BY <1>3 DEF ChooseNone
  <2>2. \E s, id : Merges(s, id)
    BY <2>1, RefusedWellFormed, AddMerges
  <2>3. ~MergeDependency
    BY <2>1 DEF MergeDependency
  <2> QED BY <2>2, <2>3
<1>4. CASE ChooseUnavailable
  <2>1. pc = "choose" /\ \E v \in VersionChoices : AddIncompatibility(CustomVersion(next, v))
    BY <1>4 DEF ChooseUnavailable
  <2>2. \E s, id : Merges(s, id)
    BY <2>1, RefusedWellFormed, AddMerges
  <2>3. ~MergeDependency
    BY <2>1 DEF MergeDependency
  <2> QED BY <2>2, <2>3
<1>5. CASE MergeDependency
  <2>1. pending # << >> /\ MergeIncompatibility(store, Head(pending))
    BY <1>5 DEF MergeDependency
  <2>2. pending \in Seq(Ids)
    BY InvariantParts DEF SolverTypeOK
  <2> QED BY <1>1, <2>1, <2>2
<1> QED BY <1>2, <1>3, <1>4, <1>5

LEMMA ListsKeptStep ==
    ASSUME Invariant, [Next]_vars
    PROVE  ListsKept
<1>1. CASE UNCHANGED incompatibilities
  BY <1>1 DEF ListsKept, HasList
<1>2. CASE BacktrackFromConflict \/ ChooseNone \/ ChooseUnavailable \/ MergeDependency
  BY <1>1, <1>2, ListMerges, MergesKeep
<1>3. CASE ChooseNew
  BY <1>1, <1>3 DEF ChooseNew
<1> QED BY <1>1, <1>2, <1>3, ListSteps
\* The ids that are listed, or were allocated and are to be merged.
IdListed(id) == \A p \in IncompatPackages(store[id].terms) : incompatibilities[p] # << >>

IsPendingNext(id) == \E i \in DOMAIN pending' : pending'[i] = id

LEMMA EntryPackages ==
    ASSUME Invariant, NEW id \in Ids
    PROVE  IncompatPackages(store[id].terms) \subseteq Packages
BY StoreEntry DEF IncompatibilityType, IncompatPackages

\* What was listed is.
LEMMA ListedStays ==
    ASSUME Invariant, [Next]_vars, NEW id \in Ids, IdListed(id)
    PROVE  ListedNext(id)
<1>1. store'[id] = store[id]
  BY StepExtends DEF StoreExtends, Ids
<1>2. \A p \in IncompatPackages(store[id].terms) : p \in Packages /\ HasList(p)
  BY EntryPackages DEF IdListed, HasList
<1>3. ListsKept
  BY ListsKeptStep
<1> QED BY <1>1, <1>2, <1>3 DEF ListedNext, ListsKept

\* The packages of a prior cause are those of the two it comes from.
LEMMA ResolvedListed ==
    ASSUME Invariant, [Next]_vars, PackagesListed, ResolveConflict, NEW id \in Ids'
    PROVE  id \in Ids \/ ListedNext(id)
<1>1. PICK s, previous :
         /\ s.cause \in Ids /\ s.package \in IncompatPackages(store[conflict].terms)
         /\ store' = Append(store, PriorCause(store, conflict, s.cause, s.package))
  BY ResolvedConflict
<1>2. PICK new : new = PriorCause(store, conflict, s.cause, s.package)
  OBVIOUS
<1>3. /\ IncompatPackages(new.terms) \subseteq
            IncompatPackages(store[conflict].terms) \cup IncompatPackages(store[s.cause].terms)
      /\ conflict \in Ids /\ pc = "conflict" /\ UNCHANGED incompatibilities
  <2>1. new.terms = PriorCauseTerms(store[conflict].terms, store[s.cause].terms, s.package)
    BY <1>2 DEF PriorCause
  <2>2. IncompatPackages(new.terms) \subseteq IncompatPackages(store[conflict].terms)
            \cup IncompatPackages(store[s.cause].terms) \cup {s.package}
    BY <2>1, PriorCausePackages
  <2>3. conflict \in Ids /\ pc = "conflict" /\ UNCHANGED incompatibilities
    BY InvariantParts DEF ResolveConflict, ResolveWithCause, Resolving, SolverTypeOK
  <2> QED BY <1>1, <2>2, <2>3
<1>4. IdListed(conflict) /\ IdListed(s.cause)
  <2>1. \A k : ~IsPending(k)
    BY <1>3 DEF PackagesListed, IsPending
  <2> QED BY <1>1, <1>3, <2>1 DEF PackagesListed, IdListed
<1>5. id \in Ids \/ store'[id] = new
  <2>1. store \in Seq(IncompatibilityType) /\ Len(store) \in Nat
    BY InvariantParts DEF GoodStore
  <2> QED BY <1>1, <1>2, <2>1 DEF Ids
<1> QED BY <1>3, <1>4, <1>5 DEF ListedNext, IdListed

\* The dependencies that are allocated are pending.
LEMMA NewPending ==
    ASSUME Invariant, ChooseNew, NEW id \in Ids'
    PROVE  id \in Ids \/ IsPendingNext(id)
<1>1. PICK v \in VersionChoices :
          /\ store' = store \o DependencyIncompats(next, v, registry[next][v].dependencies)
          /\ pending' = AllocatedIds(DependencyIncompats(next, v, registry[next][v].dependencies))
  BY DEF ChooseNew
<1>2. v \in Versions /\ next \in Packages /\ registry \in RegistryType
  BY ChoiceMade DEF ChooseNew
<1>3. PICK new : new = DependencyIncompats(next, v, registry[next][v].dependencies)
  OBVIOUS
<1>4. new \in Seq(IncompatibilityType)
  BY <1>2, <1>3, DependencyIncompatsKeep
<1>5. store \in Seq(IncompatibilityType) /\ Len(store) \in Nat
  BY InvariantParts DEF GoodStore
<1>6. store' = store \o new /\ pending' = [i \in DOMAIN new |-> Len(store) + i]
  BY <1>1, <1>3 DEF AllocatedIds
<1>7. CASE id > Len(store)
  <2>1. Len(store') = Len(store) + Len(new) /\ Len(new) \in Nat /\ DOMAIN new = 1 .. Len(new)
    BY <1>4, <1>5, <1>6
  <2>2. id - Len(store) \in DOMAIN new
    BY <1>5, <1>7, <2>1 DEF Ids
  <2>3. pending'[id - Len(store)] = id
    BY <1>5, <1>6, <2>1, <2>2 DEF Ids
  <2> QED BY <1>6, <2>2, <2>3 DEF IsPendingNext
<1>8. CASE ~(id > Len(store))
  BY <1>5, <1>8 DEF Ids
<1> QED BY <1>7, <1>8

\* So every id is listed, or is pending.
LEMMA IdsListedStep ==
    ASSUME Invariant, [Next]_vars, PackagesListed, NEW id \in Ids', ~IsPendingNext(id)
    PROVE  ListedNext(id)
<1>1. id \in Ids /\ ~IsPending(id) => ListedNext(id)
  BY ListedStays DEF PackagesListed, IdListed
<1>2. CASE UNCHANGED pending /\ (UNCHANGED store \/ ResolveConflict)
  <2>1. ~IsPending(id)
    BY <1>2 DEF IsPending, IsPendingNext
  <2> QED BY <1>1, <1>2, <2>1, ResolvedListed DEF Ids
<1>3. CASE BacktrackFromConflict \/ ChooseNone \/ ChooseUnavailable
  <2>1. ~IsPending(id)
    <3>1. pending' = pending
      BY <1>3 DEF BacktrackFromConflict, ChooseNone, ChooseUnavailable
    <3> QED BY <3>1 DEF IsPending, IsPendingNext
  <2>2. CASE UNCHANGED store
    BY <1>1, <2>1, <2>2 DEF Ids
  <2>3. ASSUME NEW s, NEW k, Merges(s, k)
        PROVE  ListedNext(id)
    BY <1>1, <2>1, <2>3, MergesKeep
  <2> QED BY <1>3, <2>2, <2>3, ListMerges
<1>4. CASE ChooseNew
  <2>1. pending = << >>
    BY <1>4 DEF ChooseNew, PackagesListed
  <2>2. ~IsPending(id)
    BY <2>1 DEF IsPending
  <2>3. id \in Ids
    BY <1>4, NewPending
  <2> QED BY <1>1, <2>2, <2>3
<1>5. CASE MergeDependency
  <2>1. pending # << >> /\ pending' = Tail(pending) /\ pending \in Seq(Ids) /\ pc = "merge"
    BY <1>5, InvariantParts DEF MergeDependency, SolverTypeOK
  <2>2. PICK s, k : Merges(s, k) /\ k = Head(pending)
    <3>1. ~BacktrackFromConflict
      BY <2>1 DEF BacktrackFromConflict, Resolving
    <3> QED BY <1>5, <3>1, ListMerges
  <2>3. IsPending(id) => id = Head(pending)
    <3>1. ASSUME NEW i \in DOMAIN pending, pending[i] = id, i # 1
          PROVE  FALSE
      <4>1. Len(pending) \in Nat /\ i \in 2 .. Len(pending)
        BY <2>1, <3>1
      <4>2. i - 1 \in DOMAIN Tail(pending) /\ Tail(pending)[i - 1] = pending[(i - 1) + 1]
        BY <2>1, <4>1
      <4> QED BY <2>1, <3>1, <4>1, <4>2 DEF IsPendingNext
    <3> QED BY <2>1, <3>1 DEF IsPending
  <2> QED BY <1>1, <2>2, <2>3, MergesKeep
<1> QED BY <1>2, <1>3, <1>4, <1>5, ListSteps
\* The packages that have assignments, ...
LEMMA AssignedListed ==
    ASSUME Invariant, [Next]_vars, PackagesListed, NEW p \in DOMAIN assignments'
    PROVE  incompatibilities'[p] # << >>
<1>1. CASE p \in DOMAIN assignments
  <2>1. p \in Packages /\ HasList(p)
    BY <1>1, AssignmentParts DEF PackagesListed, HasList
  <2> QED BY <2>1, ListsKeptStep DEF ListsKept
<1>2. CASE p \notin DOMAIN assignments
  <2>1. ScanAlmostSatisfied \/ Learn
    <3>1. ASSUME ChooseKnown \/ Accept
          PROVE  p \in DOMAIN assignments
      <4>1. PICK v : Decides(next, v)
        BY <3>1, DecideDecides
      <4> QED BY <4>1, DecidedAssignments
    <3>2. ASSUME BacktrackFromConflict
          PROVE  p \in DOMAIN assignments
      <4>1. PICK level : Backs(level)
        BY <3>2, BacktrackBacks
      <4> QED BY <4>1, BackedAssignments
    <3> QED BY <1>2, <3>1, <3>2, AssigningSteps
  <2>2. PICK q, id : Derives(q, id)
    <3>1. CASE ScanAlmostSatisfied
      BY <3>1, ScanDerives
    <3>2. CASE Learn
      BY <3>2, LearnDerives
    <3> QED BY <2>1, <3>1, <3>2
  <2>3. p = q
    BY <1>2, <2>2, DerivedAssignments
  <2>4. pc # "merge" /\ id \in Ids /\ p \in IncompatPackages(store[id].terms)
    BY <2>1, <2>2, <2>3 DEF Derives, ScanAlmostSatisfied, Scanning, Learn
  <2>5. ~IsPending(id)
    BY <2>4 DEF PackagesListed, IsPending
  <2>6. p \in Packages /\ HasList(p)
    BY <2>4, <2>5, EntryPackages DEF PackagesListed, HasList
  <2> QED BY <2>6, ListsKeptStep DEF ListsKept
<1> QED BY <1>1, <1>2

\* ... those that propagation is to come to, ...
LEMMA BufferSteps ==
    ASSUME [Next]_vars
    PROVE  \/ UNCHANGED buffer
           \/ StartPropagation \/ PopPackage \/ ScanAlmostSatisfied \/ BacktrackFromConflict
BY DEF Next, vars, coreVars, solverVars, psVars, Cancel, EndPropagation, SkipContradicted,
       ScanConflict, ScanContradicted, FindContradicted, ScanInconclusive, FindInconclusive,
       EndScan, FailTerminal, ResolveConflict, ResolveWithCause, Learn, LearnRootCause,
       ReturnSolution, Pick, ProviderError, ChooseNone, ChooseUnavailable, ChooseNew,
       ChooseKnown, MergeDependency, EndMerge, Accept, Reject, Terminated

LEMMA BufferFrom ==
    ASSUME Invariant, [Next]_vars, NEW i \in DOMAIN buffer', NEW p, p = buffer'[i]
    PROVE  \/ \E j \in DOMAIN buffer : buffer[j] = p
           \/ pc = "loop" /\ p = next
           \/ pc # "merge" /\ \E id \in Ids : p \in IncompatPackages(store[id].terms)
<1>1. buffer \in Seq(Packages)
  BY InvariantParts DEF CoreTypeOK
<1>2. CASE UNCHANGED buffer
  BY <1>2
<1>3. CASE StartPropagation
  BY <1>3 DEF StartPropagation
<1>4. CASE PopPackage
  <2>1. buffer' = Front(buffer) /\ buffer # << >>
    BY <1>4 DEF PopPackage
  <2>2. i \in DOMAIN buffer /\ buffer'[i] = buffer[i]
    BY <1>1, <2>1 DEF Front
  <2> QED BY <2>2
<1>5. CASE ScanAlmostSatisfied
  <2>1. PICK x \in store[Last(scan)].terms :
           Derives(x[1], Last(scan)) /\ buffer' = PushIfAbsent(buffer, x[1])
    BY <1>5, ScanDerives
  <2>2. pc # "merge" /\ Last(scan) \in Ids /\ x[1] \in IncompatPackages(store[Last(scan)].terms)
    BY <1>5, <2>1 DEF Derives, ScanAlmostSatisfied, Scanning
  <2>3. PICK q : q = x[1]
    OBVIOUS
  <2>4. \/ \E j \in DOMAIN buffer : buffer[j] = p
        \/ p = q
    BY <1>1, <2>1, <2>3 DEF PushIfAbsent
  <2> QED BY <2>2, <2>3, <2>4
<1>6. CASE BacktrackFromConflict
  <2>1. PICK s, previous :
           s.package \in IncompatPackages(store[conflict].terms) /\ buffer' = <<s.package>>
    BY <1>6, BacktrackedConflict
  <2>2. pc = "conflict" /\ conflict \in Ids
    BY <1>6, ConflictBacks
  <2>3. PICK q : q = s.package
    OBVIOUS
  <2>4. p = q
    BY <2>1, <2>3
  <2> QED BY <2>1, <2>2, <2>3, <2>4
<1> QED BY <1>2, <1>3, <1>4, <1>5, <1>6, BufferSteps

LEMMA BufferListed ==
    ASSUME Invariant, [Next]_vars, PackagesListed, NEW i \in DOMAIN buffer'
    PROVE  incompatibilities'[buffer'[i]] # << >>
<1>1. PICK p : p = buffer'[i]
  OBVIOUS
<1>2. /\ next \in Packages /\ buffer \in Seq(Packages)
      /\ \A id \in Ids : IncompatPackages(store[id].terms) \subseteq Packages
  BY InvariantParts, EntryPackages DEF SolverTypeOK, CoreTypeOK
<1>3. pc # "merge" => \A id : ~IsPending(id)
  BY DEF PackagesListed, IsPending
<1>4. p \in Packages /\ HasList(p)
  <2>1. CASE \E j \in DOMAIN buffer : buffer[j] = p
    BY <1>2, <2>1 DEF PackagesListed, HasList
  <2>2. CASE pc = "loop" /\ p = next
    BY <1>2, <2>2 DEF PackagesListed, HasList
  <2>3. CASE pc # "merge" /\ \E id \in Ids : p \in IncompatPackages(store[id].terms)
    BY <1>2, <1>3, <2>3 DEF PackagesListed, HasList
  <2> QED BY <1>1, <2>1, <2>2, <2>3, BufferFrom
<1> QED BY <1>1, <1>4, ListsKeptStep DEF ListsKept

\* ... and the one that the main loop is at.
LEMMA LoopSteps ==
    ASSUME [Next]_vars, pc' = "loop"
    PROVE  \/ UNCHANGED vars
           \/ ChooseNone \/ ChooseUnavailable \/ ChooseKnown \/ Accept \/ Reject
BY DEF Next, Cancel, StartPropagation, PopPackage, EndPropagation, SkipContradicted,
       ScanConflict, ScanAlmostSatisfied, ScanContradicted, ScanInconclusive, Scanning,
       EndScan, FailTerminal, ResolveConflict, Resolving, BacktrackFromConflict, Learn,
       ReturnSolution, Pick, ProviderError, ChooseNew, MergeDependency, EndMerge, Terminated

LEMMA LoopListed ==
    ASSUME Invariant, FreshOfChosen, [Next]_vars, PackagesListed, pc' = "loop"
    PROVE  incompatibilities'[next'] # << >>
<1>1. CASE UNCHANGED vars
  BY <1>1 DEF vars, coreVars, solverVars, PackagesListed
<1>2. CASE \/ ChooseNone \/ ChooseUnavailable \/ ChooseKnown \/ Accept \/ Reject
  <2>1. next' = next /\ next \in Packages
    BY <1>2, InvariantParts DEF ChooseNone, ChooseUnavailable, ChooseKnown, Accept, Reject,
          SolverTypeOK
  <2>2. pc \in {"choose", "decide"}
    BY <1>2 DEF ChooseNone, ChooseUnavailable, ChooseKnown, Accept, Reject
  <2>3. next \in DOMAIN assignments
    BY <2>2, ChoiceMade DEF FreshOfChosen
  <2>4. HasList(next)
    BY <2>3 DEF PackagesListed, HasList
  <2> QED BY <2>1, <2>4, ListsKeptStep DEF ListsKept
<1> QED BY <1>1, <1>2, LoopSteps

LEMMA PendingMerged ==
    ASSUME [Next]_vars, PackagesListed, pc' # "merge"
    PROVE  pending' = << >>
<1>1. ~MergeDependency /\ ~ChooseNew
  BY DEF MergeDependency, ChooseNew
<1>2. UNCHANGED pending
  <2>1. BacktrackFromConflict \/ ChooseNone \/ ChooseUnavailable => UNCHANGED pending
    BY DEF BacktrackFromConflict, ChooseNone, ChooseUnavailable
  <2> QED BY <1>1, <2>1, ListSteps
<1>3. pc = "merge" => pending = << >>
  BY DEF Next, vars, solverVars, Cancel, StartPropagation, PopPackage, EndPropagation,
         SkipContradicted, ScanConflict, ScanAlmostSatisfied, ScanContradicted,
         ScanInconclusive, Scanning, EndScan, FailTerminal, ResolveConflict, Resolving,
         BacktrackFromConflict, Learn, ReturnSolution, Pick, ProviderError, ChooseNone,
         ChooseUnavailable, ChooseNew, ChooseKnown, MergeDependency, EndMerge, Accept, Reject,
         Terminated, Done
<1> QED BY <1>2, <1>3 DEF PackagesListed

LEMMA PackagesListedStep ==
    ASSUME Invariant, FreshOfChosen, PackagesListed, [Next]_vars
    PROVE  PackagesListed'
<1>1. pc' # "merge" => pending' = << >>
  BY PendingMerged
<1>2. pc' = "loop" => incompatibilities'[next'] # << >>
  BY LoopListed
<1>3. \A p \in DOMAIN assignments' : incompatibilities'[p] # << >>
  BY AssignedListed
<1>4. \A i \in DOMAIN buffer' : incompatibilities'[buffer'[i]] # << >>
  BY BufferListed
<1>5. \A id \in Ids' : ~IsPendingNext(id) =>
          \A p \in IncompatPackages(store'[id].terms) : incompatibilities'[p] # << >>
  BY IdsListedStep DEF ListedNext
<1>6. \A id : IsPending(id)' <=> IsPendingNext(id)
  BY DEF IsPending, IsPendingNext
<1> QED BY <1>1, <1>2, <1>3, <1>4, <1>5, <1>6 DEF PackagesListed

\* The package that is chosen still waits for a decision.
LEMMA ChoicePotentialStep ==
    ASSUME ChoicePotential, [Next]_vars
    PROVE  ChoicePotential'
<1>1. CASE Pick
  <2>1. Potential(next') /\ UNCHANGED assignments
    BY <1>1 DEF Pick, PickPackage
  <2> QED BY <2>1 DEF ChoicePotential, Potential
<1>2. CASE pc' \in {"choose", "merge", "decide"} /\ ~Pick
  <2>1. pc \in {"choose", "merge", "decide"} /\ UNCHANGED <<next, assignments>>
    BY <1>2 DEF Next, vars, psVars, solverVars, Cancel, StartPropagation, PopPackage,
           EndPropagation, SkipContradicted, ScanConflict, ScanAlmostSatisfied,
           ScanContradicted, ScanInconclusive, Scanning, EndScan, FailTerminal,
           ResolveConflict, Resolving, BacktrackFromConflict, Learn, ReturnSolution,
           ProviderError, ChooseNone, ChooseUnavailable, ChooseNew, ChooseKnown,
           MergeDependency, EndMerge, Accept, Reject, Terminated, Done
  <2> QED BY <2>1 DEF ChoicePotential, Potential
<1> QED BY <1>1, <1>2 DEF ChoicePotential
-----------------------------------------------------------------------------
(* Nothing panics *)

\* Only a package without a decision may be neither satisfied nor ruled out.
LEMMA DecidedNotInconclusive ==
    ASSUME Invariant, HistoriesNarrow, NEW x, x[2] \in TermType, EntryInconclusive(x, Known)
    PROVE  ~Decided(x[1])
<1> SUFFICES ASSUME Decided(x[1]) PROVE FALSE
  OBVIOUS
<1>1. PICK p : p = x[1]
  OBVIOUS
<1>2. p \in DOMAIN assignments /\ IsDecision(assignments[p])
  BY <1>1 DEF Decided
<1>3. assignments[p].term = Exact(assignments[p].version)
  BY <1>2 DEF HistoriesNarrow, HistoryEnds
<1>4. TermInconclusive(x[2], assignments[p].term)
  BY <1>1, <1>2 DEF EntryInconclusive, Known
<1>5. \A v, t : t \in TermType => ~TermInconclusive(t, Exact(v))
  BY DEF TermType, TermInconclusive, SubsetOf, IsDisjoint, Exact, Positive
<1> QED BY <1>3, <1>4, <1>5

LEMMA ScanDoesNotPanic ==
    ASSUME Invariant, HistoriesNarrow, Scanning, NEW x \in store[Last(scan)].terms,
           AlmostSatisfiedBy(store[Last(scan)].terms, Known, x)
    PROVE  ~Decided(x[1])
<1>1. store[Last(scan)].terms \in TermsType
  BY ScanTop, StoreEntry
<1>2. x[2] \in TermType
  BY <1>1 DEF TermsType
<1> QED BY <1>2, DecidedNotInconclusive DEF AlmostSatisfiedBy

LEMMA ConflictDoesNotPanic ==
    ASSUME Invariant, HistoriesNarrow, RootSettled, AssignmentsOrdered, RootFirst,
           ConflictSatisfied, pc = "conflict", NEW terms, terms = store[conflict].terms
    PROVE  /\ HasSatisfiers(terms)
           /\ \A s \in SatisfiedMap(terms) :
                 /\ s.cause # NoCause => s.package \in IncompatPackages(store[s.cause].terms)
                 /\ HasSatisfier(assignments[s.package], PreviousStart(store, terms, s))
                 /\ \A previous : SatisfierSearch(store, terms, s, previous) =>
                       (SameDecisionLevels(s, previous) => s.cause # NoCause)
<1>1. terms \in TermsType /\ Satisfied(terms, Known)
  <2>1. conflict \in Ids
    BY InvariantParts DEF SolverTypeOK
  <2> QED BY <2>1, StoreEntry DEF ConflictSatisfied
<1>2. HasSatisfiers(terms) /\ PSTypeOK /\ CausesIn(store)
  BY <1>1, SatisfiersFound, InvariantParts
<1>3. \A s \in SatisfiedMap(terms) :
          s.cause # NoCause => s.package \in IncompatPackages(store[s.cause].terms)
  BY <1>2, SatisfierCause
<1>4. \A s \in SatisfiedMap(terms) :
          HasSatisfier(assignments[s.package], PreviousStart(store, terms, s))
  BY <1>1, PreviousFound
<1>5. \A s \in SatisfiedMap(terms) : \A previous : SatisfierSearch(store, terms, s, previous) =>
          (SameDecisionLevels(s, previous) => s.cause # NoCause)
  BY <1>1, DecisionSatisfier
<1> QED BY <1>2, <1>3, <1>4, <1>5

\* add_decision is given one of the versions that are left.
LEMMA DecideDoesNotPanic ==
    ASSUME Invariant, FreshOfChosen, ChoicePotential, pc = "decide"
    PROVE  CanDecide(next, chosen)
<1>1. next \in DOMAIN assignments /\ chosen \in assignments[next].term.set
  BY DEF FreshOfChosen, CurrentRange
<1>2. ~IsDecision(assignments[next]) /\ assignments[next].term.positive
  BY DEF ChoicePotential, Potential, IsPotential
<1> QED BY <1>1, <1>2 DEF CanDecide, Decided, TermContains

LEMMA DoesNotPanic ==
    ASSUME AnswerInvariant, ConflictInvariant
    PROVE  NoPanic
<1> USE DEF AnswerInvariant, ConflictInvariant
<1>1. pc = "propagate" /\ buffer # << >> => incompatibilities[Last(buffer)] # << >>
  <2>1. buffer \in Seq(Packages)
    BY InvariantParts DEF CoreTypeOK
  <2> QED BY <2>1 DEF PackagesListed, Last
<1>2. Scanning => \A x \in store[Last(scan)].terms :
          AlmostSatisfiedBy(store[Last(scan)].terms, Known, x) => ~Decided(x[1])
  BY ScanDoesNotPanic
<1>3. ASSUME Resolving, NEW terms, terms = store[conflict].terms
      PROVE  /\ HasSatisfiers(terms)
             /\ \A s \in SatisfiedMap(terms) : IsLatest(s, SatisfiedMap(terms)) =>
                   /\ s.cause # NoCause =>
                          s.package \in IncompatPackages(store[s.cause].terms)
                   /\ HasSatisfier(assignments[s.package], PreviousStart(store, terms, s))
                   /\ \A previous \in PreviousMap(store, terms, s) :
                         SatisfierSearch(store, terms, s, previous) =>
                             (SameDecisionLevels(s, previous) => s.cause # NoCause)
  BY <1>3, ConflictDoesNotPanic DEF Resolving
<1>4. pc = "learn" => ~Decided(buffer[1]) /\ \A x \in store[conflict].terms : x[2] # AnyTerm
  <2>1. WellFormed(store[conflict])
    BY InvariantParts, StoreEntry DEF SolverTypeOK
  <2> QED BY <2>1 DEF RootCauseDerives, WellFormed
<1>5. pc = "choose" => Potential(next)
  BY DEF ChoicePotential
<1>6. pc = "decide" /\ Accepted => CanDecide(next, chosen)
  BY DecideDoesNotPanic
<1> QED BY <1>1, <1>2, <1>3, <1>4, <1>5, <1>6 DEF NoPanic

-----------------------------------------------------------------------------
(* What the decisions force *)

\* A selection that keeps all assignments satisfies what is known.
LEMMA KeepsKnown ==
    ASSUME Invariant, HistoriesNarrow, NEW w \in SelectionType,
           Keeps(w, currentDecisionLevel), NEW p \in DOMAIN assignments
    PROVE  TermContains(assignments[p].term, w[p])
<1> DEFINE a == assignments[p]
           last == a.dated[Len(a.dated)]
<1>1. /\ a \in PackageAssignmentsType /\ a.dated # << >>
      /\ HistoryWellFormed(a, currentDecisionLevel) /\ currentDecisionLevel \in Nat
  BY AssignmentParts
<1>2. HistoryEnds(a)
  BY DEF HistoriesNarrow
<1>3. /\ \A i \in DOMAIN a.dated :
            a.dated[i].level <= currentDecisionLevel => TermContains(a.dated[i].term, w[p])
      /\ IsDecision(a) /\ a.highest <= currentDecisionLevel => w[p] = a.version
  BY DEF Keeps
<1> HIDE DEF a
<1>4. a.highest <= currentDecisionLevel
  BY <1>1 DEF HistoryWellFormed
<1>5. CASE IsDecision(a)
  <2>1. a.term = Exact(a.version) /\ w[p] = a.version
    BY <1>2, <1>3, <1>4, <1>5 DEF HistoryEnds
  <2> QED BY <2>1 DEF Exact, Positive, TermContains, a
<1>6. CASE ~IsDecision(a)
  <2>1. a.term = last.term /\ a.highest = last.level
    BY <1>2, <1>6 DEF HistoryEnds
  <2>2. Len(a.dated) \in DOMAIN a.dated
    BY <1>1 DEF PackageAssignmentsType
  <2> QED BY <1>3, <1>4, <2>1, <2>2 DEF a
<1> QED BY <1>5, <1>6

\* What is derived holds of a solution that keeps what it is derived from.
LEMMA DerivedTermForced ==
    ASSUME Invariant, HistoriesNarrow, RootCauseDerives,
           NEW w \in SelectionType, IsSolution(registry, w), Keeps(w, currentDecisionLevel),
           NEW q, NEW id, DerivesJustly(q, id), Resolvable(store[id].terms)
    PROVE  TermContains(DerivedTerm(q, id), w[q])
<1>1. PICK terms : terms = store[id].terms
  OBVIOUS
<1>2. PICK g : g = Get(terms, q)
  OBVIOUS
<1>3. /\ q \in Packages /\ terms \in TermsType /\ <<q, g>> \in terms /\ g \in TermType
      /\ q \in IncompatPackages(terms) /\ id \in Ids
  <2>1. Derives(q, id)
    BY DEF DerivesJustly
  <2> QED BY <1>1, <1>2, <2>1, DerivedAssignments DEF Derives
<1>4. Resolvable(terms)
  BY <1>1
<1>5. \A x \in terms : x[1] # q => TermContains(x[2], w[x[1]])
  <2> SUFFICES ASSUME NEW x \in terms, x[1] # q
               PROVE  TermContains(x[2], w[x[1]])
    OBVIOUS
  <2>1. EntrySatisfied(x, Known)
    BY <1>1 DEF DerivesJustly
  <2>2. x[1] \in DOMAIN assignments /\ SubsetOf(assignments[x[1]].term, x[2])
    BY <2>1 DEF EntrySatisfied, Known, TermSatisfied
  <2>3. PICK t \in TermType : t = assignments[x[1]].term
    BY <2>2, AssignmentParts
  <2>4. x[1] \in Packages /\ x[2] \in TermType
    BY <1>3 DEF TermsType
  <2>5. TermContains(t, w[x[1]]) /\ SubsetOf(t, x[2])
    BY <2>2, <2>3, KeepsKnown
  <2>6. w[x[1]] \in Selections
    BY <2>4 DEF SelectionType
  <2> QED BY <2>4, <2>5, <2>6, SubsetOfMeaning
<1>6. ~SelectionSatisfies(terms, w)
  BY <1>1, <1>3 DEF Invariant, StoreValid
<1>7. ~TermContains(g, w[q])
  BY <1>2, <1>3, <1>4, <1>5, <1>6, ResolvableSplit
<1>8. PICK t \in TermType : t = Negate(g) /\ TermContains(t, w[q])
  <2>1. w[q] \in Selections
    BY <1>3 DEF SelectionType
  <2> QED BY <1>3, <1>7, <2>1, TermsClosed, NegateMeaning
<1>9. CASE q \in DOMAIN assignments
  <2>1. PICK old \in TermType : old = assignments[q].term
    BY <1>9, AssignmentParts
  <2>2. TermContains(old, w[q])
    BY <1>9, <2>1, KeepsKnown
  <2>3. w[q] \in Selections
    BY <1>3 DEF SelectionType
  <2>4. TermContains(Intersection(old, t), w[q])
    BY <1>8, <2>1, <2>2, <2>3, IntersectionMeaning
  <2>5. DerivedTerm(q, id) = Intersection(old, t)
    BY <1>1, <1>2, <1>8, <1>9, <2>1 DEF DerivedTerm
  <2> QED BY <2>4, <2>5
<1>10. CASE q \notin DOMAIN assignments
  BY <1>1, <1>2, <1>8, <1>10 DEF DerivedTerm
<1> QED BY <1>9, <1>10
\* A decision after a step was there before it, or was just made.
LEMMA DecisionsAfter ==
    ASSUME Invariant, [Next]_vars, NEW p \in DOMAIN assignments', IsDecision(assignments'[p])
    PROVE  /\ p \in DOMAIN assignments
           /\ \/ assignments'[p] = assignments[p]
              \/ \E v : Decides(p, v) /\ assignments'[p] = Decision(assignments[p], v)
<1>1. CASE Quiet
  BY <1>1 DEF Quiet
<1>2. ASSUME NEW q, NEW id, Derives(q, id)
      PROVE  p \in DOMAIN assignments /\ assignments'[p] = assignments[p]
  <2> DEFINE t == Negate(Get(store[id].terms, q))
  <2>1. /\ q \notin DOMAIN assignments \/ ~IsDecision(assignments[q])
        /\ DOMAIN assignments' = DOMAIN assignments \cup {q}
        /\ assignments'[q] = IF q \in DOMAIN assignments
                             THEN NextDerivation(assignments[q], id, t)
                             ELSE FirstDerivation(id, t)
        /\ \A r \in DOMAIN assignments : r # q => assignments'[r] = assignments[r]
    BY <1>2, DerivedAssignments
  <2> HIDE DEF t
  <2>2. ~IsDecision(FirstDerivation(id, t))
    BY DEF FirstDerivation, IsDecision
  <2>3. ASSUME q \in DOMAIN assignments
        PROVE  NextDerivation(assignments[q], id, t).version = assignments[q].version
    <3>1. assignments[q] \in PackageAssignmentsType
      BY <2>3, AssignmentParts
    <3> QED BY <3>1 DEF NextDerivation, PackageAssignmentsType
  <2>4. ~IsDecision(assignments'[q])
    BY <2>1, <2>2, <2>3 DEF IsDecision
  <2> QED BY <2>1, <2>4
<1>3. ASSUME NEW q, NEW v, Decides(q, v)
      PROVE  /\ p \in DOMAIN assignments
             /\ \/ assignments'[p] = assignments[p]
                \/ q = p /\ assignments'[p] = Decision(assignments[p], v)
  BY <1>3, DecidedAssignments
<1>4. ASSUME NEW level, Backs(level)
      PROVE  p \in DOMAIN assignments /\ assignments'[p] = assignments[p]
  <2>1. /\ p \in DOMAIN assignments
        /\ assignments'[p] = BacktrackedAssignment(assignments[p], level)
    BY <1>4, BackedAssignments
  <2>2. Truncate(assignments[p], level).version = NoVersion
    <3>1. assignments[p] \in PackageAssignmentsType
      BY <2>1, AssignmentParts
    <3> QED BY <3>1 DEF Truncate, PackageAssignmentsType
  <2> QED BY <2>1, <2>2 DEF BacktrackedAssignment, IsDecision
<1> QED BY <1>1, <1>2, <1>3, <1>4, StepKinds DEF TrailStep

\* What was decided up to the level after a step is followed by what follows
\* the decisions after it.
LEMMA FollowsBefore ==
    ASSUME Invariant, [Next]_vars, NEW w, NEW level \in Nat,
           NEW level2 \in Nat, level <= level2, level <= currentDecisionLevel',
           \A p \in DOMAIN assignments' :
               IsDecision(assignments'[p]) /\ assignments'[p].highest <= level2
                   => w[p] \in {NoVersion, assignments'[p].version}
    PROVE  Follows(w, level)
<1> SUFFICES ASSUME NEW p \in DOMAIN assignments,
                    IsDecision(assignments[p]), assignments[p].highest <= level
             PROVE  w[p] \in {NoVersion, assignments[p].version}
  BY DEF Follows
<1>1. currentDecisionLevel' \in Nat
  <2>1. Invariant'
    BY NextInvariant
  <2> QED BY <2>1 DEF Invariant, TypeOK, PSTypeOK
<1>2. assignments[p].highest \in Nat
  BY AssignmentParts DEF PackageAssignmentsType
<1>3. assignments[p].highest <= currentDecisionLevel' /\ assignments[p].highest <= level2
  BY <1>1, <1>2
<1>4. p \in DOMAIN assignments' /\ assignments'[p] = assignments[p]
  BY <1>3, StaysAssignedStep DEF StaysAssigned
<1> QED BY <1>3, <1>4

\* What the picked package can be decided on is a version.
LEMMA DecisionForced ==
    ASSUME Invariant, HistoriesNarrow, ChoicePotential, [Next]_vars,
           NEW w \in SelectionType, Keeps(w, currentDecisionLevel),
           NEW p, NEW v, Decides(p, v), w[p] \in {NoVersion, v}
    PROVE  w[p] = v
<1>1. p = next /\ pc \in {"choose", "decide"}
  <2>1. currentDecisionLevel \in Nat /\ currentDecisionLevel' = currentDecisionLevel + 1
    BY DecidedAssignments, InvariantParts DEF PSTypeOK
  <2>2. ~BacktrackFromConflict
    <3>1. ASSUME NEW level, Backs(level) PROVE FALSE
      <4>1. level \in Nat /\ level < currentDecisionLevel /\ currentDecisionLevel' = level
        BY <3>1, BackedAssignments
      <4> QED BY <2>1, <4>1
    <3> QED BY <3>1, BacktrackBacks
  <2>3. ChooseKnown \/ Accept
    BY <2>1, <2>2, LevelKept
  <2>4. PICK v2 : Decides(next, v2)
    BY <2>3, DecideDecides
  <2>5. ~IsDecision(assignments[p]) /\ p \in DOMAIN assignments
        /\ assignments'[p] = Decision(assignments[p], v) /\ v \in Versions
    BY DecidedAssignments
  <2>6. Decision(assignments[p], v).version = v
    BY <2>5, AssignmentParts DEF Decision, PackageAssignmentsType
  <2>7. IsDecision(assignments'[p])
    BY <2>5, <2>6, NoVersionAssumption DEF IsDecision
  <2>8. p # next => assignments'[p] = assignments[p]
    BY <2>4, <2>5, DecidedAssignments
  <2>9. p = next
    BY <2>5, <2>7, <2>8
  <2> QED BY <2>3, <2>9 DEF ChooseKnown, Accept
<1>2. PICK t \in TermType : t = assignments[p].term
  BY AssignmentParts, DecidedAssignments
<1>3. t.positive
  BY <1>1, <1>2 DEF ChoicePotential, Potential, IsPotential
<1>4. TermContains(t, w[p])
  BY <1>2, DecidedAssignments, KeepsKnown
<1>5. w[p] # NoVersion
  BY <1>3, <1>4, NoVersionAssumption DEF TermType, TermContains
<1> QED BY <1>5

LEMMA DecisionsForceStep ==
    ASSUME Invariant, HistoriesNarrow, RootCauseDerives, ChoicePotential, DecisionsForce,
           [Next]_vars
    PROVE  DecisionsForce'
<1>1. currentDecisionLevel \in Nat /\ currentDecisionLevel' \in Nat
  <2>1. Invariant'
    BY NextInvariant
  <2> QED BY <2>1, InvariantParts DEF Invariant, TypeOK, PSTypeOK
<1> SUFFICES ASSUME NEW level \in 0 .. currentDecisionLevel',
                    NEW w \in SelectionType, IsSolution(registry, w),
                    \A p \in DOMAIN assignments' :
                        IsDecision(assignments'[p]) /\ assignments'[p].highest <= level
                            => w[p] \in {NoVersion, assignments'[p].version}
             PROVE  Keeps(w, level)'
  BY RegistryKept DEF DecisionsForce, Follows, IsDecision
<1>2. PICK before \in 0 .. currentDecisionLevel :
             IF level <= currentDecisionLevel THEN before = level
                                              ELSE before = currentDecisionLevel
  BY <1>1
<1>3. Keeps(w, before)
  <2>1. before \in Nat /\ level \in Nat /\ before <= level /\ before <= currentDecisionLevel'
    BY <1>1, <1>2
  <2>2. Follows(w, before)
    BY <2>1, FollowsBefore
  <2> QED BY <2>2 DEF DecisionsForce
<1>4. ASSUME NEW q \in DOMAIN assignments', NEW i \in DOMAIN assignments'[q].dated,
             NEW d, d = assignments'[q].dated[i], d.level <= level
      PROVE  TermContains(d.term, w[q])
  <2>1. d.level \in Nat /\ (Derived(q, i, d) \/ NewlyDerived(q, d))
    BY <1>4, DerivationsAfter
  <2>2. CASE Derived(q, i, d)
    <3>1. q \in DOMAIN assignments /\ i \in DOMAIN assignments[q].dated
          /\ d = assignments[q].dated[i]
      BY <2>2 DEF Derived
    <3>2. d.level <= currentDecisionLevel
      <4>1. d.level <= assignments[q].highest /\ assignments[q].highest <= currentDecisionLevel
            /\ assignments[q].highest \in Nat
        BY <3>1, AssignmentParts DEF HistoryWellFormed, PackageAssignmentsType
      <4> QED BY <1>1, <2>1, <4>1
    <3>3. d.level <= before
      BY <1>2, <1>4, <3>2
    <3> QED BY <1>3, <3>1, <3>3 DEF Keeps
  <2>3. CASE NewlyDerived(q, d)
    <3>1. /\ DerivesJustly(q, d.cause) /\ d.level = currentDecisionLevel
          /\ d.term = DerivedTerm(q, d.cause)
      BY <2>3 DEF NewlyDerived
    <3>2. UNCHANGED <<store, currentDecisionLevel>>
      BY <3>1, DerivedAssignments DEF DerivesJustly
    <3>3. before = currentDecisionLevel
      BY <1>1, <1>2, <1>4, <3>1
    <3>4. Resolvable(store[d.cause].terms)
      <4>1. Invariant'
        BY NextInvariant
      <4>2. Resolvable(store'[d.cause].terms)
        BY <1>4, <4>1 DEF Invariant, HistoriesWellFormed, CausesResolvable
      <4> QED BY <3>2, <4>2
    <3> QED BY <1>3, <3>1, <3>3, <3>4, DerivedTermForced
  <2> QED BY <2>1, <2>2, <2>3
<1>5. ASSUME NEW q \in DOMAIN assignments', IsDecision(assignments'[q]),
             assignments'[q].highest <= level
      PROVE  w[q] = assignments'[q].version
  <2>1. q \in DOMAIN assignments /\ w[q] \in {NoVersion, assignments'[q].version}
    BY <1>5, DecisionsAfter
  <2>2. CASE assignments'[q] = assignments[q]
    <3>1. assignments[q].highest <= currentDecisionLevel /\ assignments[q].highest \in Nat
      BY <2>1, AssignmentParts DEF HistoryWellFormed, PackageAssignmentsType
    <3>2. assignments[q].highest <= before
      BY <1>2, <1>5, <2>2, <3>1
    <3> QED BY <1>3, <1>5, <2>1, <2>2, <3>2 DEF Keeps
  <2>3. ASSUME NEW v, Decides(q, v), assignments'[q] = Decision(assignments[q], v)
        PROVE  w[q] = assignments'[q].version
    <3>1. /\ Decision(assignments[q], v).version = v
          /\ Decision(assignments[q], v).highest = currentDecisionLevel + 1
      BY <2>1, AssignmentParts DEF Decision, PackageAssignmentsType
    <3>2. before = currentDecisionLevel
      BY <1>1, <1>2, <1>5, <2>3, <3>1
    <3> QED BY <1>3, <2>1, <2>3, <3>1, <3>2, DecisionForced
  <2> QED BY <1>5, <2>2, <2>3, DecisionsAfter
<1> QED BY <1>4, <1>5 DEF Keeps, IsDecision

-----------------------------------------------------------------------------
(* Why each incompatibility is in the store *)

ExplainedIn(s) == \A id \in 1 .. Len(s) : Explained(s, id)

\* Explanations stay: entries do not change.
LEMMA ExplainedKept ==
    ASSUME NEW s, NEW t, Len(s) \in Nat, Len(t) \in Nat, StoreExtends(s, t), ExplainedIn(s),
           \A id \in 1 .. Len(t) : id > Len(s) => Explained(t, id)
    PROVE  ExplainedIn(t)
<1> SUFFICES ASSUME NEW id \in 1 .. Len(t), id \in 1 .. Len(s) PROVE Explained(t, id)
  BY DEF ExplainedIn
<1>1. Explained(s, id) /\ t[id] = s[id] /\ \A i \in 1 .. id - 1 : t[i] = s[i]
  BY DEF ExplainedIn, StoreExtends
<1>2. CASE s[id].kind # "derived"
  BY <1>1, <1>2 DEF Explained
<1>3. CASE s[id].kind = "derived"
  <2>1. PICK p \in Packages, c1, c2 \in 1 .. id - 1 : ResolventOf(s, id, p, c1, c2)
    BY <1>1, <1>3 DEF Explained
  <2>2. t[c1] = s[c1] /\ t[c2] = s[c2]
    BY <1>1
  <2>3. PriorCause(t, c1, c2, p) = PriorCause(s, c1, c2, p)
    BY <2>2 DEF PriorCause
  <2>4. ResolventOf(t, id, p, c1, c2)
    BY <1>1, <2>1, <2>2, <2>3 DEF ResolventOf
  <2> QED BY <1>1, <1>3, <2>4 DEF Explained
<1> QED BY <1>2, <1>3

\* The versions of merged dependencies depend on the same.
LEMMA MergedFact ==
    ASSUME NEW i, NEW j, IsDependency(i), IsDependency(j), CanMerge(i, j), Fact(i), Fact(j)
    PROVE  Fact(Merged(i, j)) /\ Merged(i, j).kind = "dependency"
<1>1. i.kind = "dependency" /\ j.kind = "dependency" /\ DependencyFact(i) /\ DependencyFact(j)
  BY DEF CanMerge, Fact
<1>2. PICK p, q \in Packages, v1, set1 \in Ranges :
          i = FromDependency(p, v1, q, set1) /\ \A v \in v1 : DependsAt(p, v, q, set1)
  BY <1>1 DEF DependencyFact
<1>3. PICK p2, q2 \in Packages, v2, set2 \in Ranges :
          j = FromDependency(p2, v2, q2, set2) /\ \A v \in v2 : DependsAt(p2, v, q2, set2)
  BY <1>1 DEF DependencyFact
<1>4. i.dependency = <<p, q>> /\ j.dependency = <<p2, q2>>
  BY <1>2, <1>3, DependencyOf
<1>5. p2 = p /\ q2 = q /\ p # q
  <2>1. i.dependency = j.dependency /\ i.dependency[1] # i.dependency[2]
    BY DEF CanMerge
  <2>2. <<p, q>> = <<p2, q2>> /\ <<p, q>>[1] # <<p, q>>[2]
    BY <1>4, <2>1
  <2> QED BY <2>2
<1>6. set2 = set1
  <2>1. CanMerge(FromDependency(p, v1, q, set1), FromDependency(p, v2, q, set2))
    BY <1>2, <1>3, <1>5
  <2> QED BY <1>5, <2>1, MergedRange
<1>7. Merged(i, j) = FromDependency(p, v1 \cup v2, q, set1)
  <2>1. Merged(FromDependency(p, v1, q, set1), FromDependency(p, v2, q, set1))
            = FromDependency(p, v1 \cup v2, q, set1)
    BY <1>5, MergedDependency
  <2> QED BY <1>2, <1>3, <1>5, <1>6, <2>1
<1>8. v1 \cup v2 \in Ranges
  BY DEF Ranges
<1>9. \A v \in v1 \cup v2 : DependsAt(p, v, q, set1)
  BY <1>2, <1>3, <1>5, <1>6
<1>10. DependencyFact(Merged(i, j))
  BY <1>7, <1>8, <1>9 DEF DependencyFact
<1>11. Merged(i, j).kind = "dependency"
  BY <1>7, DependencyOf
<1> QED BY <1>10, <1>11 DEF Fact

LEMMA AppendExplains ==
    ASSUME NEW s, GoodStore(s), ExplainedIn(s), NEW i, i.kind # "derived", Fact(i)
    PROVE  ExplainedIn(Append(s, i))
<1>1. s \in Seq(IncompatibilityType) /\ Len(s) \in Nat
  BY DEF GoodStore
<1>2. PICK t : t = Append(s, i)
  OBVIOUS
<1>3. Len(t) = Len(s) + 1 /\ t[Len(s) + 1] = i /\ \A k \in 1 .. Len(s) : t[k] = s[k]
  BY <1>1, <1>2
<1>4. StoreExtends(s, t)
  BY <1>1, <1>3 DEF StoreExtends
<1>5. \A id \in 1 .. Len(t) : id > Len(s) => Explained(t, id)
  BY <1>1, <1>3 DEF Explained
<1>6. Len(t) \in Nat
  BY <1>1, <1>3
<1>7. ExplainedIn(t)
  BY <1>1, <1>4, <1>5, <1>6, ExplainedKept
<1> QED BY <1>2, <1>7

LEMMA MergeExplains ==
    ASSUME Invariant, NEW s, GoodStore(s), StoreExtends(store, s), NEW id \in 1 .. Len(s),
           MergeIncompatibility(s, id), ExplainedIn(s)
    PROVE  ExplainedIn(store')
<1>1. ListsIn(incompatibilities, s) /\ MergedIn(mergedDependencies, s)
  BY ListsExtend
<1>2. CASE Kept(s, id)
  BY <1>2 DEF Kept
<1>3. ASSUME NEW past \in 1 .. Len(s), Replaced(s, id, past)
      PROVE  ExplainedIn(store')
  <2>1. /\ CanMerge(s[id], s[past]) /\ IsDependency(s[id]) /\ IsDependency(s[past])
        /\ store' = Append(s, Merged(s[id], s[past]))
    BY <1>3 DEF Replaced
  <2>2. Explained(s, id) /\ Explained(s, past)
    BY DEF ExplainedIn
  <2>3. Fact(s[id]) /\ Fact(s[past])
    BY <2>1, <2>2 DEF Explained, CanMerge
  <2>4. Fact(Merged(s[id], s[past])) /\ Merged(s[id], s[past]).kind = "dependency"
    BY <2>1, <2>3, MergedFact
  <2> QED BY <2>1, <2>4, AppendExplains
<1> QED BY <1>1, <1>2, <1>3, MergeLists
\* The root keeps its version.
LEMMA RootTerm ==
    ASSUME Invariant, HistoriesNarrow, RootSettled, ~NothingYet
    PROVE  /\ RootPackage \in DOMAIN assignments
           /\ assignments[RootPackage].term = Positive({RootVersion})
<1>1. PICK x : x = <<RootPackage, Negative({RootVersion})>>
  OBVIOUS
<1>2. x[1] = RootPackage /\ x[2] = Negative({RootVersion}) /\ x[2] \in TermType
  BY <1>1, RootAssumption DEF Negative, TermType
<1>3. RuledOut(x, 0)
  BY <1>1 DEF RootSettled
<1>4. RootPackage \in DOMAIN assignments
      /\ IsDisjoint(Negative({RootVersion}), assignments[RootPackage].term)
  BY <1>2, <1>3, RuledOutIsDisjoint
<1>5. assignments[RootPackage].term \in TermType /\ assignments[RootPackage].term # EmptyTerm
  BY <1>4, InvariantParts DEF PSTypeOK, PSWellFormed, HistoryWellFormed, PackageAssignmentsType
<1>6. \A t \in TermType : t # EmptyTerm /\ IsDisjoint(Negative({RootVersion}), t)
          => t = Positive({RootVersion})
  BY DEF TermType, IsDisjoint, Negative, Positive, EmptyTerm
<1> QED BY <1>4, <1>5, <1>6

LEMMA RootRange ==
    ASSUME Invariant, HistoriesNarrow, RootSettled, pc = "choose", next = RootPackage
    PROVE  CurrentRange = {RootVersion}
<1>1. ~NothingYet
  BY DEF NothingYet
<1>2. assignments[RootPackage].term = Positive({RootVersion})
  BY <1>1, RootTerm
<1> QED BY <1>2 DEF CurrentRange, Positive

\* That the root is needed is never a conflict.
LEMMA NotRootHolds ==
    ASSUME Invariant, HistoriesNarrow, RootSettled, pc = "conflict"
    PROVE  ~Satisfied(NotRoot.terms, Known)
<1>1. ~NothingYet
  BY DEF NothingYet
<1>2. /\ RootPackage \in DOMAIN assignments
      /\ assignments[RootPackage].term = Positive({RootVersion})
  BY <1>1, RootTerm
<1>3. PICK x : x = <<RootPackage, Negative({RootVersion})>>
  OBVIOUS
<1>4. x \in NotRoot.terms /\ x[1] = RootPackage /\ x[2] = Negative({RootVersion})
  BY <1>3 DEF NotRoot, External
<1>5. RootPackage \in DOMAIN Known => Known[RootPackage] = Positive({RootVersion})
  BY <1>2 DEF Known
<1>6. ~SubsetOf(Positive({RootVersion}), Negative({RootVersion}))
  BY DEF SubsetOf, Positive, Negative
<1> QED BY <1>4, <1>5, <1>6 DEF Satisfied, EntrySatisfied, TermSatisfied
LEMMA RefusedFacts ==
    ASSUME Invariant, HistoriesNarrow, RootSettled, pc = "choose"
    PROVE  /\ VersionChoices = {} =>
                 /\ Fact(NoVersions(next, Positive(CurrentRange)))
                 /\ NoVersions(next, Positive(CurrentRange)).kind # "derived"
           /\ \A v \in VersionChoices : registry[next][v].status = "unavailable" =>
                 Fact(CustomVersion(next, v)) /\ CustomVersion(next, v).kind # "derived"
<1>1. next \in Packages /\ CurrentRange \in Ranges /\ VersionChoices \subseteq Versions
  BY ChoiceMade DEF Ranges
<1>2. ASSUME VersionChoices = {}
      PROVE  /\ Fact(NoVersions(next, Positive(CurrentRange)))
             /\ NoVersions(next, Positive(CurrentRange)).kind # "derived"
  <2>1. next = RootPackage => CurrentRange = {RootVersion}
    BY RootRange
  <2>2. NoVersionsFact(NoVersions(next, Positive(CurrentRange)))
    BY <1>1, <1>2, <2>1 DEF NoVersionsFact, VersionChoices
  <2>3. NoVersions(next, Positive(CurrentRange)).kind = "no_versions"
    BY DEF NoVersions, External
  <2> QED BY <2>2, <2>3 DEF Fact
<1>3. ASSUME NEW v \in VersionChoices, registry[next][v].status = "unavailable"
      PROVE  Fact(CustomVersion(next, v)) /\ CustomVersion(next, v).kind # "derived"
  <2>1. CustomFact(CustomVersion(next, v))
    BY <1>1, <1>3 DEF CustomFact
  <2>2. CustomVersion(next, v).kind = "custom"
    BY DEF CustomVersion, External
  <2> QED BY <2>1, <2>2 DEF Fact
<1> QED BY <1>2, <1>3

LEMMA RefusedExplains ==
    ASSUME Invariant, HistoriesNarrow, RootSettled, ExplainedIn(store),
           ChooseNone \/ ChooseUnavailable
    PROVE  ExplainedIn(store')
<1>1. pc = "choose" /\ GoodStore(store)
  BY InvariantParts DEF ChooseNone, ChooseUnavailable
<1>2. ASSUME NEW i \in IncompatibilityType, WellFormed(i), Fact(i), i.kind # "derived",
             AddIncompatibility(i)
      PROVE  ExplainedIn(store')
  <2>1. PICK s : s = Append(store, i)
    OBVIOUS
  <2>2. /\ GoodStore(s) /\ StoreExtends(store, s) /\ Len(store) + 1 \in 1 .. Len(s)
        /\ MergeIncompatibility(s, Len(store) + 1)
    BY <1>2, <2>1, AppendGood DEF AddIncompatibility
  <2>3. ExplainedIn(s)
    BY <1>1, <1>2, <2>1, AppendExplains
  <2> QED BY <2>2, <2>3, MergeExplains
<1>3. CASE ChooseNone
  <2>1. VersionChoices = {} /\ AddIncompatibility(NoVersions(next, Positive(CurrentRange)))
    BY <1>3 DEF ChooseNone
  <2>2. /\ Fact(NoVersions(next, Positive(CurrentRange)))
        /\ NoVersions(next, Positive(CurrentRange)).kind # "derived"
    BY <1>1, <2>1, RefusedFacts
  <2> QED BY <1>1, <1>2, <2>1, <2>2, RefusedWellFormed
<1>4. CASE ChooseUnavailable
  <2>1. PICK v \in VersionChoices : /\ registry[next][v].status = "unavailable"
                                    /\ AddIncompatibility(CustomVersion(next, v))
    BY <1>4 DEF ChooseUnavailable
  <2>2. Fact(CustomVersion(next, v)) /\ CustomVersion(next, v).kind # "derived"
    BY <1>1, <2>1, RefusedFacts
  <2> QED BY <1>1, <1>2, <2>1, <2>2, RefusedWellFormed
<1> QED BY <1>3, <1>4

LEMMA ChooseNewExplains ==
    ASSUME Invariant, ExplainedIn(store), [Next]_vars, ChooseNew
    PROVE  ExplainedIn(store')
<1>1. PICK v \in VersionChoices :
          /\ registry[next][v].status = "available"
          /\ store' = store \o DependencyIncompats(next, v, registry[next][v].dependencies)
  BY DEF ChooseNew
<1>2. v \in Versions /\ next \in Packages /\ registry \in RegistryType
  BY <1>1, ChoiceMade DEF ChooseNew
<1>3. PICK new : new = DependencyIncompats(next, v, registry[next][v].dependencies)
  OBVIOUS
<1>4. /\ new \in Seq(IncompatibilityType) /\ DOMAIN new = DOMAIN registry[next][v].dependencies
      /\ \A i \in DOMAIN new :
            new[i] = FromDependency(next, {v}, registry[next][v].dependencies[i][1],
                                    registry[next][v].dependencies[i][2])
  BY <1>2, <1>3, DependencyIncompatsKeep DEF DependencyIncompats
<1>5. store \in Seq(IncompatibilityType) /\ Len(store) \in Nat /\ store' = store \o new
  BY <1>1, <1>3, InvariantParts DEF GoodStore
<1>6. \A i \in DOMAIN new : store'[Len(store) + i] = new[i]
  BY <1>4, <1>5
<1>7. StoreExtends(store, store') /\ Len(store') \in Nat
  BY StepExtends DEF GoodStore
<1>8. ASSUME NEW i \in DOMAIN new
      PROVE  Fact(new[i]) /\ new[i].kind # "derived"
  <2>1. PICK q, set : /\ q = registry[next][v].dependencies[i][1]
                      /\ set = registry[next][v].dependencies[i][2]
    OBVIOUS
  <2>2. q \in Packages /\ set \in Ranges
    BY <1>2, <1>4, <2>1, DependencyParts
  <2>3. registry[next][v].dependencies[i] = <<q, set>>
    <3>1. registry[next][v].dependencies \in Seq(Packages \X SUBSET Versions)
      BY <1>2 DEF RegistryType, RegistryEntry
    <3>2. registry[next][v].dependencies[i] \in Packages \X SUBSET Versions
      BY <1>4, <3>1
    <3> QED BY <2>1, <3>2
  <2>4. new[i] = FromDependency(next, {v}, q, set)
    BY <1>4, <2>1
  <2>5. DependsAt(next, v, q, set)
    BY <1>4, <2>3 DEF DependsAt
  <2>6. {v} \in Ranges
    BY <1>2 DEF Ranges
  <2>7. DependencyFact(new[i])
    BY <1>2, <2>2, <2>4, <2>5, <2>6 DEF DependencyFact
  <2>8. new[i].kind = "dependency"
    BY <2>4, DependencyOf
  <2> QED BY <2>7, <2>8 DEF Fact
<1>9. ASSUME NEW id \in 1 .. Len(store'), id > Len(store)
      PROVE  Explained(store', id)
  <2>1. id - Len(store) \in DOMAIN new
    <3>1. Len(new) \in Nat /\ DOMAIN new = 1 .. Len(new)
      BY <1>4
    <3>2. Len(store') = Len(store) + Len(new)
      BY <1>4, <1>5
    <3> QED BY <1>5, <1>9, <3>1, <3>2
  <2>2. store'[id] = new[id - Len(store)]
    BY <1>5, <1>6, <1>9, <2>1
  <2> QED BY <1>8, <2>1, <2>2 DEF Explained
<1> QED BY <1>5, <1>7, <1>9, ExplainedKept

LEMMA ResolveExplains ==
    ASSUME Invariant, HistoriesNarrow, RootSettled, ConflictSatisfied, ExplainedIn(store),
           [Next]_vars, ResolveConflict
    PROVE  ExplainedIn(store')
<1>1. PICK s :
          /\ s.cause \in Ids /\ s.package \in IncompatPackages(store[conflict].terms)
          /\ s.package \in IncompatPackages(store[s.cause].terms)
          /\ Resolvable(store[s.cause].terms)
          /\ store' = Append(store, PriorCause(store, conflict, s.cause, s.package))
  BY ResolvedConflict
<1>2. PICK p, cause : p = s.package /\ cause = s.cause
  OBVIOUS
<1>3. PICK new : new = PriorCause(store, conflict, cause, p)
  OBVIOUS
<1>4. /\ pc = "conflict" /\ ~IsTerminal(store[conflict].terms)
      /\ conflict \in Ids /\ Resolvable(store[conflict].terms)
      /\ Satisfied(store[conflict].terms, Known)
  BY InvariantParts DEF ResolveConflict, Resolving, SolverTypeOK, Invariant,
                        ConflictResolvable, ConflictSatisfied
<1>5. store \in Seq(IncompatibilityType) /\ Len(store) \in Nat /\ store' = Append(store, new)
  BY <1>1, <1>2, <1>3, InvariantParts DEF GoodStore
<1>6. /\ Len(store') = Len(store) + 1 /\ store'[Len(store) + 1] = new
      /\ \A id \in 1 .. Len(store) : store'[id] = store[id]
  BY <1>5
<1>7. StoreExtends(store, store')
  BY <1>5, <1>6 DEF StoreExtends
<1>8. conflict \in 1 .. Len(store) /\ cause \in 1 .. Len(store)
  BY <1>1, <1>2, <1>4 DEF Ids
<1>9. /\ p \in IncompatPackages(store[conflict].terms)
      /\ p \in IncompatPackages(store[cause].terms) /\ p \in Packages
      /\ Resolvable(store[cause].terms)
  <2>1. store[conflict].terms \in TermsType
    BY <1>4, StoreEntry
  <2> QED BY <1>1, <1>2, <2>1, GetFinds
<1>10. Explained(store, conflict) /\ Explained(store, cause)
  BY <1>8 DEF ExplainedIn
<1>11. store[conflict].kind # "not_root"
  <2>1. store[conflict].kind = "not_root" => store[conflict] = NotRoot
    BY <1>10 DEF Explained, Fact
  <2> QED BY <1>4, <2>1, NotRootHolds
<1>12. ~(store[conflict].kind = "no_versions" /\ store[cause].kind = "not_root")
  <2> SUFFICES ASSUME store[conflict].kind = "no_versions", store[cause].kind = "not_root"
               PROVE  FALSE
    OBVIOUS
  <2>1. store[cause] = NotRoot /\ NoVersionsFact(store[conflict])
    BY <1>10 DEF Explained, Fact
  <2>2. p = RootPackage
    BY <1>9, <2>1 DEF NotRoot, External, IncompatPackages
  <2>3. PICK q \in Packages, range \in Ranges :
            /\ store[conflict] = NoVersions(q, Positive(range))
            /\ q = RootPackage => range = {RootVersion}
    BY <2>1 DEF NoVersionsFact
  <2>4. PICK x : x = <<q, Positive(range)>>
    OBVIOUS
  <2>5. store[conflict].terms = {x} /\ x[1] = q /\ x[2] = Positive(range)
    BY <2>3, <2>4 DEF NoVersions, External
  <2>6. q = RootPackage
    BY <1>9, <2>2, <2>5 DEF IncompatPackages
  <2>7. TermContains(x[2], RootVersion)
    BY <2>3, <2>5, <2>6 DEF TermContains, Positive
  <2> QED BY <1>4, <2>5, <2>6, <2>7 DEF IsTerminal
<1>13. ResolventOf(store', Len(store) + 1, p, conflict, cause)
  <2>1. store'[conflict] = store[conflict] /\ store'[cause] = store[cause]
    BY <1>6, <1>8
  <2>2. PriorCause(store', conflict, cause, p) = PriorCause(store, conflict, cause, p)
    BY <2>1 DEF PriorCause
  <2>3. {store[conflict].kind, store[cause].kind} # {"no_versions", "not_root"}
    BY <1>11, <1>12
  <2> QED BY <1>3, <1>4, <1>6, <1>9, <2>1, <2>2, <2>3 DEF ResolventOf
<1>14. Explained(store', Len(store) + 1)
  <2>1. new.kind = "derived"
    BY <1>3 DEF PriorCause
  <2>2. conflict \in 1 .. (Len(store) + 1) - 1 /\ cause \in 1 .. (Len(store) + 1) - 1
    BY <1>5, <1>8
  <2> QED BY <1>6, <1>9, <1>13, <2>1, <2>2 DEF Explained
<1>15. \A id \in 1 .. Len(store') : id > Len(store) => Explained(store', id)
  BY <1>5, <1>6, <1>14
<1>16. Len(store') \in Nat
  BY <1>5, <1>6
<1> QED BY <1>5, <1>7, <1>15, <1>16, ExplainedKept

LEMMA ExplainedStep ==
    ASSUME Invariant, HistoriesNarrow, RootSettled, ConflictSatisfied, EntriesExplained,
           [Next]_vars
    PROVE  EntriesExplained'
<1>1. ExplainedIn(store) /\ registry' = registry
  BY RegistryKept DEF EntriesExplained, ExplainedIn, Ids
<1>2. ASSUME NEW id \in Ids, MergeIncompatibility(store, id)
      PROVE  ExplainedIn(store')
  <2>1. GoodStore(store) /\ StoreExtends(store, store)
    BY InvariantParts DEF StoreExtends, GoodStore
  <2> QED BY <1>1, <1>2, <2>1, MergeExplains DEF Ids
<1>3. ASSUME BacktrackFromConflict
      PROVE  ExplainedIn(store')
  <2>1. conflict \in Ids /\ pc = "conflict"
    BY <1>3, InvariantParts DEF BacktrackFromConflict, Resolving, SolverTypeOK
  <2>2. MergeIncompatibility(store, conflict) \/ store' = store
    BY <1>3, BacktrackedConflict
  <2>3. CASE store' = store
    BY <1>1, <2>3
  <2> QED BY <1>2, <2>1, <2>2, <2>3
<1>4. ASSUME MergeDependency
      PROVE  ExplainedIn(store')
  <2>1. pending # << >> /\ MergeIncompatibility(store, Head(pending))
    BY <1>4 DEF MergeDependency
  <2>2. pending \in Seq(Ids)
    BY InvariantParts DEF SolverTypeOK
  <2>3. Head(pending) \in Ids
    BY <2>1, <2>2
  <2> QED BY <1>2, <2>1, <2>3
<1>5. ExplainedIn(store')
  <2>1. CASE UNCHANGED store
    BY <1>1, <2>1
  <2> QED BY <1>1, <1>3, <1>4, <2>1, StoreSteps, ResolveExplains, RefusedExplains,
             ChooseNewExplains
<1>6. ASSUME NEW i, Fact(i)
      PROVE  (Fact(i))'
  <2>1. NoVersionsFact(i) => NoVersionsFact(i)'
    BY <1>1 DEF NoVersionsFact
  <2>2. CustomFact(i) => CustomFact(i)'
    BY <1>1 DEF CustomFact
  <2>3. \A p, v, q, set : DependsAt(p, v, q, set) => DependsAt(p, v, q, set)'
    BY <1>1 DEF DependsAt
  <2>4. DependencyFact(i) => DependencyFact(i)'
    BY <2>3 DEF DependencyFact
  <2> QED BY <1>6, <2>1, <2>2, <2>4 DEF Fact
<1>7. ASSUME NEW id \in 1 .. Len(store')
      PROVE  (Explained(store, id))'
  <2>1. Explained(store', id)
    BY <1>5 DEF ExplainedIn
  <2>2. CASE store'[id].kind = "derived"
    BY <2>1, <2>2 DEF Explained
  <2>3. CASE store'[id].kind # "derived"
    BY <1>6, <2>1, <2>3 DEF Explained
  <2> QED BY <2>2, <2>3
<1> QED BY <1>7 DEF EntriesExplained, Ids

-----------------------------------------------------------------------------
(* The theorems *)

LEMMA InitConflict == Init => ConflictInvariant
<1> SUFFICES ASSUME Init PROVE ConflictInvariant
  OBVIOUS
<1>1. /\ DOMAIN assignments = {} /\ currentDecisionLevel = 0 /\ hasEverBacktracked = FALSE
      /\ pc = "loop" /\ next = RootPackage /\ pending = << >> /\ buffer = << >>
      /\ store = <<NotRoot>>
      /\ incompatibilities = [p \in Packages |-> IF p = RootPackage THEN <<1>> ELSE << >>]
  BY DEF Init, PSInit, CoreInit
<1>2. RootPackage \in Packages /\ incompatibilities[RootPackage] # << >>
  BY <1>1, RootAssumption
<1>3. Ids = {1} /\ store[1] = NotRoot
  BY <1>1 DEF Ids
<1>4. IncompatPackages(NotRoot.terms) = {RootPackage}
  <2>1. PICK x : x = <<RootPackage, Negative({RootVersion})>>
    OBVIOUS
  <2>2. NotRoot.terms = {x} /\ x[1] = RootPackage
    BY <2>1 DEF NotRoot, External
  <2> QED BY <2>2 DEF IncompatPackages
<1>5. AssignmentsOrdered /\ DerivationsJustified
  BY <1>1 DEF AssignmentsOrdered, DerivationsJustified
<1>9. DecisionsForce
  BY <1>1 DEF DecisionsForce, Keeps
<1>6. RootFirst
  BY <1>1, <1>3, <1>4 DEF RootFirst
<1>7. ConflictSatisfied /\ RootCauseDerives /\ ChoicePotential
  BY <1>1 DEF ConflictSatisfied, RootCauseDerives, ChoicePotential
<1>8. PackagesListed
  <2>1. DOMAIN buffer = {}
    BY <1>1
  <2> QED BY <1>1, <1>2, <1>3, <1>4, <2>1 DEF PackagesListed
<1>10. EntriesExplained
  <2>1. NotRoot.kind = "not_root"
    BY DEF NotRoot, External
  <2> QED BY <1>3, <2>1 DEF EntriesExplained, Explained, Fact
<1> QED BY <1>5, <1>6, <1>7, <1>8, <1>9, <1>10 DEF ConflictInvariant

LEMMA NextConflict ==
    AnswerInvariant /\ ConflictInvariant /\ [Next]_vars => ConflictInvariant'
<1> SUFFICES ASSUME AnswerInvariant, ConflictInvariant, [Next]_vars PROVE ConflictInvariant'
  OBVIOUS
<1>1. /\ Invariant /\ HistoriesNarrow /\ RootSettled /\ AddedStated /\ FreshOfChosen
      /\ AssignmentsOrdered /\ RootFirst /\ DerivationsJustified /\ ConflictSatisfied
      /\ RootCauseDerives /\ PackagesListed /\ ChoicePotential /\ DecisionsForce
      /\ EntriesExplained
  BY DEF AnswerInvariant, ConflictInvariant
<1>2. AssignmentsOrdered' /\ RootFirst' /\ DerivationsJustified'
  BY <1>1, OrderedStep, RootFirstStep, JustifiedStep
<1>3. ConflictSatisfied' /\ RootCauseDerives'
  BY <1>1, ConflictSatisfiedStep, RootCauseDerivesStep
<1>4. PackagesListed' /\ ChoicePotential' /\ DecisionsForce'
  BY <1>1, PackagesListedStep, ChoicePotentialStep, DecisionsForceStep
<1>5. EntriesExplained'
  BY <1>1, ExplainedStep
<1> QED BY <1>2, <1>3, <1>4, <1>5 DEF ConflictInvariant

\* The inductive invariant of all of the solver holds in every reachable state.
THEOREM AlwaysConflict == Spec => []ProofInvariant
<1>1. Init => ProofInvariant
  BY InitAnswer, InitConflict DEF ProofInvariant
<1>2. ProofInvariant /\ [Next]_vars => ProofInvariant'
  BY NextAnswer, NextConflict DEF ProofInvariant
<1> QED BY <1>1, <1>2, PTL DEF Spec

\* Each derivation follows from assignments made before it, which satisfied
\* every other term of its cause (`unit_propagation'): the graph that conflict
\* resolution walks has no cycle.
THEOREM DerivationsAlwaysJustified == Spec => []DerivationsJustified
<1>1. ProofInvariant => DerivationsJustified
  BY DEF ProofInvariant, ConflictInvariant
<1> QED BY <1>1, AlwaysConflict, PTL

\* Each round of `conflict_resolution' has an incompatibility that the partial
\* solution satisfies.
THEOREM ConflictAlwaysSatisfied == Spec => []ConflictSatisfied
<1>1. ProofInvariant => ConflictSatisfied
  BY DEF ProofInvariant, ConflictInvariant
<1> QED BY <1>1, AlwaysConflict, PTL

\* No `panic!', `unwrap', `expect', `unreachable!' or indexing of the solver
\* fails: a satisfier and a previous satisfier are always found, a decision is
\* never resolved with a cause, nothing is derived of a decided package, and
\* a decision is one of the versions that are left.
THEOREM NeverPanics == Spec => []NoPanic
<1>1. ProofInvariant => NoPanic
  BY DoesNotPanic DEF ProofInvariant
<1> QED BY <1>1, AlwaysConflict, PTL

\* `backtrack' gives up at least one decision and keeps the first, and leaves
\* the root cause with one package whose term is open: what is learnt next is
\* new.
THEOREM BacktrackAlwaysLeaves == Spec => BacktrackLeavesRootCauseAlmostSatisfied
<1> DEFINE Leaves ==
      pc = "conflict" /\ pc' = "learn" =>
          /\ currentDecisionLevel' < currentDecisionLevel
          /\ currentDecisionLevel' >= 1
          /\ \E x \in store'[conflict].terms :
                x[1] = buffer'[1] /\ EntryInconclusive(x, Known')
          /\ \A x \in store'[conflict].terms :
                x[1] # buffer'[1] => EntrySatisfied(x, Known')
<1>1. ProofInvariant /\ [Next]_vars => [Leaves]_vars
  BY BacktrackLeaves DEF ProofInvariant, AnswerInvariant, ConflictInvariant
<1>2. [][Leaves]_vars => BacktrackLeavesRootCauseAlmostSatisfied
  BY DEF BacktrackLeavesRootCauseAlmostSatisfied
<1> HIDE DEF Leaves
<1> QED BY <1>1, <1>2, AlwaysConflict, PTL DEF Spec
-----------------------------------------------------------------------------
(* Dependencies that could be merged are *)

LEMMA CanMergeSymmetric ==
    ASSUME NEW i, NEW j
    PROVE  CanMerge(i, j) <=> CanMerge(j, i)
BY DEF CanMerge

\* What is merged can be merged with the same dependencies as before.
LEMMA MergedAlike ==
    ASSUME NEW i, NEW j, IsDependency(i), IsDependency(j), CanMerge(i, j), NEW k
    PROVE  CanMerge(Merged(i, j), k) => CanMerge(j, k)
<1>1. PICK p \in Packages, q \in Packages : i.dependency = <<p, q>>
  BY DEF IsDependency
<1>2. PICK v1, v2, set \in Ranges : MergesTo(i, j, p, q, v1, v2, set)
  BY <1>1, MergedIsDependency
<1>3. p # q /\ v1 \cup v2 \in Ranges
  BY <1>1, MergedIsDependency DEF Ranges
<1>4. PICK new : new = Merged(i, j)
  OBVIOUS
<1>5. /\ new.kind = "dependency" /\ new.dependency = <<p, q>>
      /\ j.kind = "dependency" /\ j.dependency = <<p, q>>
  BY <1>2, <1>4, DependencyOf DEF MergesTo
<1>6. TermsOf(new.terms, q) = NegativeTerms(set) /\ TermsOf(j.terms, q) = NegativeTerms(set)
  BY <1>2, <1>3, <1>4, DependencyTermsOf DEF MergesTo
<1>7. CanMerge(new, k) => CanMerge(j, k)
  BY <1>5, <1>6 DEF CanMerge
<1> QED BY <1>4, <1>7

Apart(merged, s) ==
    \A pair \in Packages \X Packages : \A i, j \in DOMAIN merged[pair] :
        i # j => ~CanMerge(s[merged[pair][i]], s[merged[pair][j]])

LEMMA ApartInExtension ==
    ASSUME NEW merged, NEW s, NEW t, MergedIn(merged, s), StoreExtends(s, t), Apart(merged, s)
    PROVE  Apart(merged, t)
<1>1. ASSUME NEW pair \in Packages \X Packages, NEW i \in DOMAIN merged[pair]
      PROVE  t[merged[pair][i]] = s[merged[pair][i]]
  <2>1. merged[pair] \in Seq(1 .. Len(s))
    BY DEF MergedIn
  <2>2. PICK id : id = merged[pair][i] /\ id \in 1 .. Len(s)
    BY <2>1
  <2> QED BY <2>2 DEF StoreExtends
<1> QED BY <1>1 DEF Apart

LEMMA AppendEntries ==
    ASSUME NEW S, NEW seq \in Seq(S), NEW e \in S, NEW k \in DOMAIN Append(seq, e)
    PROVE  \/ k \in DOMAIN seq /\ Append(seq, e)[k] = seq[k]
           \/ k = Len(seq) + 1 /\ Append(seq, e)[k] = e
<1>1. Len(Append(seq, e)) = Len(seq) + 1 /\ Len(seq) \in Nat
  OBVIOUS
<1>2. k \in 1 .. Len(seq) + 1
  BY <1>1
<1>3. Append(seq, e)[Len(seq) + 1] = e
  OBVIOUS
<1>4. \A i \in 1 .. Len(seq) : Append(seq, e)[i] = seq[i]
  OBVIOUS
<1> QED BY <1>1, <1>2, <1>3, <1>4

LEMMA MergeKeepsApart ==
    ASSUME NEW s, GoodStore(s), NEW id \in 1 .. Len(s), MergedIn(mergedDependencies, s),
           MergeIncompatibility(s, id), Apart(mergedDependencies, s)
    PROVE  Apart(mergedDependencies', store')
<1>1. s \in Seq(IncompatibilityType) /\ Len(s) \in Nat /\ WellFormed(s[id])
  BY DEF GoodStore
<1>2. \A pair \in Packages \X Packages : mergedDependencies[pair] \in Seq(1 .. Len(s))
  BY DEF MergedIn
<1>3. PICK pair : pair = s[id].dependency
  OBVIOUS
<1>4. s[id].kind = "dependency" =>
          /\ pair \in Packages \X Packages
          /\ PastDependencies(s, id) = mergedDependencies[pair]
  BY <1>1, <1>3 DEF WellFormed, IsDependency, PastDependencies
<1>5. CASE Keep(s, id) /\ s[id].kind # "dependency"
  <2>1. store' = s /\ mergedDependencies' = mergedDependencies
    BY <1>5 DEF Keep
  <2> QED BY <2>1
<1>6. CASE /\ Keep(s, id) /\ s[id].kind = "dependency"
           /\ \A k \in DOMAIN PastDependencies(s, id) :
                 ~CanMerge(s[id], s[PastDependencies(s, id)[k]])
  <2>1. PICK ids : ids = mergedDependencies[pair] /\ ids \in Seq(1 .. Len(s))
    BY <1>2, <1>4, <1>6
  <2>2. /\ store' = s
        /\ mergedDependencies' = [mergedDependencies EXCEPT ![pair] = Append(ids, id)]
    BY <1>3, <1>6, <2>1 DEF Keep
  <2>3. /\ mergedDependencies'[pair] = Append(ids, id)
        /\ \A other \in Packages \X Packages :
              other # pair => mergedDependencies'[other] = mergedDependencies[other]
    BY <1>4, <1>6, <2>2 DEF MergedIn
  <2>4. \A k \in DOMAIN ids : ~CanMerge(s[id], s[ids[k]]) /\ ~CanMerge(s[ids[k]], s[id])
    BY <1>4, <1>6, <2>1, CanMergeSymmetric
  <2>5. ASSUME NEW i \in DOMAIN Append(ids, id), NEW j \in DOMAIN Append(ids, id), i # j
        PROVE  ~CanMerge(s[Append(ids, id)[i]], s[Append(ids, id)[j]])
    <3>1. \A k \in DOMAIN Append(ids, id) :
              \/ k \in DOMAIN ids /\ Append(ids, id)[k] = ids[k]
              \/ k = Len(ids) + 1 /\ Append(ids, id)[k] = id
      BY <2>1, AppendEntries
    <3>2. \A k, l \in DOMAIN ids : k # l => ~CanMerge(s[ids[k]], s[ids[l]])
      BY <1>4, <1>6, <2>1 DEF Apart
    <3> QED BY <2>4, <2>5, <3>1, <3>2
  <2>6. \A other \in Packages \X Packages : other # pair =>
            \A i, j \in DOMAIN mergedDependencies[other] : i # j =>
                ~CanMerge(s[mergedDependencies[other][i]], s[mergedDependencies[other][j]])
    BY DEF Apart
  <2>7. ASSUME NEW other \in Packages \X Packages, NEW i \in DOMAIN mergedDependencies'[other],
               NEW j \in DOMAIN mergedDependencies'[other], i # j
        PROVE  ~CanMerge(s[mergedDependencies'[other][i]], s[mergedDependencies'[other][j]])
    <3>1. CASE other = pair
      BY <2>3, <2>5, <2>7, <3>1
    <3>2. CASE other # pair
      BY <2>3, <2>6, <2>7, <3>2
    <3> QED BY <3>1, <3>2
  <2> QED BY <2>2, <2>7 DEF Apart
<1>7. ASSUME NEW k \in DOMAIN PastDependencies(s, id),
             MergesWith(s, id, PastDependencies(s, id), k), ReplacePast(s, id, k)
      PROVE  Apart(mergedDependencies', store')
  <2>1. s[id].kind = "dependency"
    BY <1>7 DEF MergesWith, CanMerge
  <2>2. PICK ids : ids = mergedDependencies[pair] /\ ids \in Seq(1 .. Len(s))
    BY <1>2, <1>4, <2>1
  <2>3. PICK past : past = ids[k] /\ past \in 1 .. Len(s) /\ k \in DOMAIN ids
    <3>1. k \in DOMAIN ids
      BY <1>4, <1>7, <2>1, <2>2
    <3>2. ids[k] \in 1 .. Len(s)
      BY <2>2, <3>1
    <3> QED BY <3>1, <3>2
  <2>4. CanMerge(s[id], s[past]) /\ IsDependency(s[id]) /\ IsDependency(s[past])
    <3>1. CanMerge(s[id], s[past])
      BY <1>4, <1>7, <2>1, <2>2, <2>3 DEF MergesWith
    <3>2. WellFormed(s[past]) /\ s[past].kind = "dependency"
      BY <2>3, <3>1 DEF GoodStore, CanMerge
    <3> QED BY <1>1, <2>1, <3>1, <3>2 DEF WellFormed
  <2>5. PICK new : new = Merged(s[id], s[past])
    OBVIOUS
  <2>6. PICK last : last = Len(s) + 1
    OBVIOUS
  <2>7. store' = Append(s, new) /\ mergedDependencies' = [mergedDependencies EXCEPT ![pair][k] = last]
    BY <1>3, <1>7, <2>2, <2>3, <2>5, <2>6 DEF ReplacePast
  <2>8. /\ DOMAIN mergedDependencies'[pair] = DOMAIN ids
        /\ mergedDependencies'[pair][k] = last
        /\ \A i \in DOMAIN ids : i # k => mergedDependencies'[pair][i] = ids[i]
        /\ \A other \in Packages \X Packages :
              other # pair => mergedDependencies'[other] = mergedDependencies[other]
    BY <1>4, <2>1, <2>2, <2>3, <2>7 DEF MergedIn
  <2>9. StoreExtends(s, store') /\ store'[last] = new
    BY <1>1, <2>6, <2>7 DEF StoreExtends
  <2>10. Apart(mergedDependencies, store')
    BY <2>9, ApartInExtension
  <2>11. \A i \in DOMAIN ids : store'[ids[i]] = s[ids[i]]
    <3>1. \A i \in DOMAIN ids : ids[i] \in 1 .. Len(s)
      BY <2>2
    <3> QED BY <2>9, <3>1 DEF StoreExtends
  <2>12. \A i, j \in DOMAIN ids : i # j => ~CanMerge(s[ids[i]], s[ids[j]])
    BY <1>4, <2>1, <2>2 DEF Apart
  <2>13. \A i \in DOMAIN ids : i # k => ~CanMerge(new, s[ids[i]]) /\ ~CanMerge(s[ids[i]], new)
    BY <2>3, <2>4, <2>5, <2>12, MergedAlike, CanMergeSymmetric
  <2>14. ASSUME NEW i \in DOMAIN ids, NEW j \in DOMAIN ids, i # j
         PROVE  ~CanMerge(store'[mergedDependencies'[pair][i]], store'[mergedDependencies'[pair][j]])
    BY <2>8, <2>9, <2>11, <2>12, <2>13, <2>14
  <2> QED BY <2>8, <2>10, <2>14 DEF Apart
<1>8. \/ Keep(s, id) /\ \A k \in DOMAIN PastDependencies(s, id) :
             ~CanMerge(s[id], s[PastDependencies(s, id)[k]])
      \/ \E k \in DOMAIN PastDependencies(s, id) :
            MergesWith(s, id, PastDependencies(s, id), k) /\ ReplacePast(s, id, k)
  BY DEF MergeIncompatibility
<1> QED BY <1>5, <1>6, <1>7, <1>8

LEMMA MergedSteps ==
    ASSUME [Next]_vars
    PROVE  \/ UNCHANGED mergedDependencies
           \/ BacktrackFromConflict \/ ChooseNone \/ ChooseUnavailable \/ MergeDependency
BY DEF Next, vars, coreVars, solverVars, psVars, Cancel, StartPropagation, PopPackage,
       EndPropagation, SkipContradicted, ScanConflict, ScanAlmostSatisfied,
       PropagateAlmostSatisfied, ScanContradicted, FindContradicted, ScanInconclusive,
       FindInconclusive, EndScan, FailTerminal, Learn, LearnRootCause, ReturnSolution, Pick,
       ProviderError, ChooseNew, ChooseKnown, EndMerge, Accept, Reject, Terminated,
       ResolveConflict, ResolveWithCause

LEMMA ApartStep ==
    ASSUME Invariant, [Next]_vars, Apart(mergedDependencies, store)
    PROVE  Apart(mergedDependencies', store')
<1>1. MergedIn(mergedDependencies, store) /\ StoreExtends(store, store')
  BY InvariantParts, StepExtends
<1>2. CASE UNCHANGED mergedDependencies
  BY <1>1, <1>2, ApartInExtension
<1>3. ASSUME NEW s, NEW id, Merges(s, id)
      PROVE  Apart(mergedDependencies', store')
  <2>1. MergedIn(mergedDependencies, s)
    BY <1>3, ListsExtend DEF Merges
  <2>2. Apart(mergedDependencies, s)
    BY <1>1, <1>3, ApartInExtension DEF Merges
  <2> QED BY <1>3, <2>1, <2>2, MergeKeepsApart DEF Merges
<1> QED BY <1>2, <1>3, MergedSteps, ListMerges

\* `merge_incompatibility' keeps apart only dependencies that can not be merged:
\* after each step, no two of merged_dependencies for the same two packages
\* could still be merged.
THEOREM DependenciesAlwaysMerged == Spec => []DependenciesMerged
<1>1. DependenciesMerged <=> Apart(mergedDependencies, store)
  BY DEF DependenciesMerged, Apart
<1>2. Init => DependenciesMerged
  <2>1. ASSUME Init, NEW pair \in Packages \X Packages
        PROVE  DOMAIN mergedDependencies[pair] = {}
    <3>1. mergedDependencies[pair] = << >>
      BY <2>1 DEF Init, CoreInit
    <3> QED BY <3>1
  <2> QED BY <2>1 DEF DependenciesMerged
<1>3. Invariant /\ DependenciesMerged /\ [Next]_vars => DependenciesMerged'
  <2> SUFFICES ASSUME Invariant, DependenciesMerged, [Next]_vars
               PROVE  DependenciesMerged'
    OBVIOUS
  <2>1. Apart(mergedDependencies', store')
    BY <1>1, ApartStep
  <2> QED BY <2>1 DEF DependenciesMerged, Apart
<1> QED BY <1>2, <1>3, AlwaysInvariant, PTL DEF Spec
-----------------------------------------------------------------------------
(* The solver implements what `resolve' promises *)

\* A solution, cut to a set that is closed under its dependencies.
CutTo(w, set) == [p \in Packages |-> IF p \in set THEN w[p] ELSE NoVersion]

LEMMA CutSolution ==
    ASSUME registry \in RegistryType, NEW w \in SelectionType, IsSolution(registry, w),
           NEW set \in SUBSET Packages, ClosedUnderDependencies(registry, w, set)
    PROVE  CutTo(w, set) \in SelectionType /\ IsSolution(registry, CutTo(w, set))
<1> DEFINE u == CutTo(w, set)
<1>1. /\ u \in SelectionType
      /\ \A p \in Packages : u[p] = IF p \in set THEN w[p] ELSE NoVersion
  BY DEF CutTo, SelectionType, Selections
<1> HIDE DEF u
<1>2. u[RootPackage] = RootVersion
  BY <1>1, RootAssumption DEF ClosedUnderDependencies, IsSolution
<1>3. ASSUME NEW p \in Packages, u[p] # NoVersion
      PROVE  DependenciesMet(registry, u, p)
  <2>1. PICK v : v = w[p] /\ v = u[p] /\ p \in set /\ v # NoVersion
    BY <1>1, <1>3
  <2>2. v \in Versions
    BY <1>3, <2>1 DEF SelectionType, Selections
  <2>3. PICK deps : deps = registry[p][v].dependencies
    OBVIOUS
  <2>4. /\ registry[p][v].status = "available"
        /\ \A i \in DOMAIN deps : w[deps[i][1]] \in deps[i][2] /\ deps[i][1] \in set
    BY <1>3, <2>1, <2>3 DEF IsSolution, DependenciesMet, ClosedUnderDependencies
  <2>5. \A i \in DOMAIN deps : u[deps[i][1]] \in deps[i][2]
    BY <1>1, <2>4
  <2> QED BY <2>1, <2>3, <2>4, <2>5 DEF DependenciesMet
<1> QED BY <1>1, <1>2, <1>3 DEF IsSolution, u

\* What a solution selects is closed under its dependencies.
LEMMA SelectedClosed ==
    ASSUME registry \in RegistryType, NEW w \in SelectionType, IsSolution(registry, w)
    PROVE  ClosedUnderDependencies(registry, w, Abstract!Selected(w))
<1>1. \A p \in Packages : p \in Abstract!Selected(w) <=> w[p] # NoVersion
  BY DEF Abstract!Selected
<1>2. RootPackage \in Abstract!Selected(w)
  BY <1>1, RootAssumption, NoVersionAssumption DEF IsSolution
<1>3. ASSUME NEW p \in Abstract!Selected(w),
             NEW i \in DOMAIN registry[p][w[p]].dependencies
      PROVE  registry[p][w[p]].dependencies[i][1] \in Abstract!Selected(w)
  <2>1. p \in Packages /\ w[p] # NoVersion
    BY DEF Abstract!Selected
  <2>2. PICK v \in Versions : v = w[p]
    BY <2>1 DEF SelectionType, Selections
  <2>3. /\ registry[p][v].status = "available"
        /\ w[registry[p][v].dependencies[i][1]] \in registry[p][v].dependencies[i][2]
    BY <1>3, <2>1, <2>2 DEF IsSolution, DependenciesMet
  <2>4. PICK dep \in Packages \X SUBSET Versions : dep = registry[p][v].dependencies[i]
    <3>1. registry[p][v] \in RegistryEntry
      BY <2>1 DEF RegistryType
    <3>2. registry[p][v].dependencies \in Seq(Packages \X SUBSET Versions)
      BY <3>1 DEF RegistryEntry
    <3> QED BY <1>3, <2>2, <3>2
  <2>5. dep[1] \in Packages /\ w[dep[1]] \in Versions
    BY <2>3, <2>4
  <2> QED BY <1>1, <2>2, <2>4, <2>5, NoVersionAssumption
<1> QED BY <1>2, <1>3 DEF ClosedUnderDependencies

\* What is returned has no package that nothing depends on.
LEMMA ReturnedNeeded ==
    ASSUME ProofInvariant, SelfSound, ReturnSolution
    PROVE  /\ ExtractSolution \in SelectionType
           /\ IsSolution(registry, ExtractSolution)
           /\ Abstract!Selected(ExtractSolution) = NeededPackages(registry, ExtractSolution)
<1>1. /\ Invariant /\ HistoriesNarrow /\ PositionsExact /\ RootSettled /\ DecisionsAsk
      /\ PotentialWaiting /\ DecisionsForce
  BY DEF ProofInvariant, AnswerInvariant, ConflictInvariant
<1>2. PICK w : w = ExtractSolution
  OBVIOUS
<1>3. registry \in RegistryType /\ currentDecisionLevel \in Nat
  BY <1>1, InvariantParts, RegistriesAssumption DEF SolverTypeOK, PSTypeOK
<1>4. \A p \in Packages :
         w[p] = IF Decided(p) THEN assignments[p].version ELSE NoVersion
  BY <1>1, <1>2 DEF PositionsExact, DecisionsFirst, Decided, ExtractSolution
<1>5. w \in SelectionType
  <2>1. \A p \in Packages : Decided(p) => assignments[p].version \in Selections
    BY <1>1, AssignmentParts DEF Decided, PackageAssignmentsType
  <2>2. w = [p \in Packages |-> w[p]]
    BY <1>2 DEF ExtractSolution
  <2> QED BY <1>4, <2>1, <2>2 DEF SelectionType, Selections
<1>6. IsSolution(registry, w)
  BY <1>1, <1>2, ReturnedSolution
<1>7. ASSUME NEW p \in Packages, w[p] # NoVersion, NEW set \in SUBSET Packages,
             ClosedUnderDependencies(registry, w, set)
      PROVE  p \in set
  <2>1. PICK u \in SelectionType : u = CutTo(w, set) /\ IsSolution(registry, u)
    BY <1>3, <1>5, <1>6, <1>7, CutSolution
  <2>2. \A q \in Packages : u[q] = IF q \in set THEN w[q] ELSE NoVersion
    BY <2>1 DEF CutTo
  <2>3. Follows(u, currentDecisionLevel)
    <3>1. \A q \in DOMAIN assignments : q \in Packages
      BY <1>1, AssignmentParts
    <3> QED BY <1>4, <2>2, <3>1 DEF Follows, Decided
  <2>4. Keeps(u, currentDecisionLevel)
    BY <1>1, <1>3, <2>1, <2>3 DEF DecisionsForce
  <2>5. p \in DOMAIN assignments /\ IsDecision(assignments[p])
    BY <1>4, <1>7 DEF Decided
  <2>6. assignments[p].highest <= currentDecisionLevel
    BY <1>1, <2>5, AssignmentParts DEF HistoryWellFormed
  <2>7. u[p] = assignments[p].version /\ assignments[p].version # NoVersion
    BY <2>4, <2>5, <2>6 DEF Keeps, IsDecision
  <2> QED BY <1>7, <2>2, <2>7
<1>8. Abstract!Selected(w) = NeededPackages(registry, w)
  <2>1. \A p \in Packages : p \in Abstract!Selected(w) <=> w[p] # NoVersion
    BY DEF Abstract!Selected
  <2>2. Abstract!Selected(w) \in SUBSET Packages
    BY DEF Abstract!Selected
  <2>3. ClosedUnderDependencies(registry, w, Abstract!Selected(w))
    BY <1>3, <1>5, <1>6, SelectedClosed
  <2>4. \A p \in NeededPackages(registry, w) : p \in Abstract!Selected(w)
    BY <2>2, <2>3 DEF NeededPackages
  <2>5. \A p \in Abstract!Selected(w) : p \in NeededPackages(registry, w)
    BY <1>7, <2>1, <2>2 DEF NeededPackages
  <2> QED BY <2>4, <2>5
<1> QED BY <1>2, <1>5, <1>6, <1>8

\* The specification says the same of solutions.
LEMMA SameSolutions ==
    ASSUME NEW r, NEW w
    PROVE  /\ Abstract!SelectionType = SelectionType
           /\ Abstract!IsSolution(r, w) <=> IsSolution(r, w)
           /\ Abstract!NeededPackages(r, w) = NeededPackages(r, w)
<1>1. \A set : Abstract!ClosedUnderDependencies(r, w, set) <=> ClosedUnderDependencies(r, w, set)
  BY DEF Abstract!ClosedUnderDependencies, ClosedUnderDependencies
<1>2. \A p : Abstract!DependenciesMet(r, w, p) <=> DependenciesMet(r, w, p)
  BY DEF Abstract!DependenciesMet, DependenciesMet
<1>3. Abstract!IsSolution(r, w) <=> IsSolution(r, w)
  BY <1>2 DEF Abstract!IsSolution, IsSolution
<1>4. Abstract!NeededPackages(r, w) = NeededPackages(r, w)
  BY <1>1 DEF Abstract!NeededPackages, NeededPackages
<1> QED BY <1>3, <1>4 DEF Abstract!SelectionType, SelectionType, Abstract!Selections, Selections

\* Each step is one of the specification, or none of its business.
LEMMA AbstractStep ==
    ASSUME ProofInvariant, SelfSound, [Next]_vars
    PROVE  [Abstract!Next]_(Abstract!vars)
<1>1. Invariant
  BY DEF ProofInvariant, AnswerInvariant
<1>2. CASE ReturnSolution
  <2>1. PICK w : w = ExtractSolution
    OBVIOUS
  <2>2. /\ pc = "pick" /\ pc' = "solution" /\ solution' = w /\ registry' = registry
    BY <1>2, <2>1 DEF ReturnSolution
  <2>3. /\ w \in SelectionType /\ IsSolution(registry, w)
        /\ Abstract!Selected(w) = NeededPackages(registry, w)
    BY <1>2, <2>1, ReturnedNeeded
  <2>4. Outcome = "running" /\ Outcome' = "solution"
    BY <2>2 DEF Outcome, Done
  <2>5. Abstract!Solve
    BY <2>2, <2>3, <2>4, SameSolutions DEF Abstract!Solve
  <2> QED BY <2>5 DEF Abstract!Next
<1>3. CASE FailTerminal
  <2>1. /\ pc = "conflict" /\ pc' = "no_solution" /\ UNCHANGED <<registry, solution>>
        /\ IsTerminal(store[conflict].terms)
    BY <1>3 DEF FailTerminal
  <2>2. Outcome = "running" /\ Outcome' = "no_solution"
    BY <2>1 DEF Outcome, Done
  <2>3. \A w \in SelectionType : ~IsSolution(registry, w)
    BY <1>1, <2>1, TerminalExcludesAll
  <2>4. Abstract!Refute
    BY <2>1, <2>2, <2>3, SameSolutions DEF Abstract!Refute
  <2> QED BY <2>4 DEF Abstract!Next
<1>4. CASE Cancel \/ ProviderError
  <2>1. /\ pc \in {"loop", "choose"} /\ pc' \in {"error", "cancelled"}
        /\ UNCHANGED <<registry, solution>>
    BY <1>4 DEF Cancel, ProviderError
  <2>2. Outcome = "running" /\ Outcome' \in {"error", "cancelled"}
    BY <2>1 DEF Outcome, Done
  <2>3. Abstract!Interrupt
    BY <2>1, <2>2 DEF Abstract!Interrupt
  <2> QED BY <2>3 DEF Abstract!Next
<1>5. CASE Terminated \/ UNCHANGED vars
  <2>1. UNCHANGED <<pc, registry, solution>>
    BY <1>5 DEF Terminated, vars, solverVars
  <2> QED BY <2>1 DEF Abstract!vars, Outcome
<1>6. CASE \/ StartPropagation \/ PopPackage \/ EndPropagation \/ SkipContradicted
           \/ ScanConflict \/ ScanAlmostSatisfied \/ ScanContradicted \/ ScanInconclusive
           \/ EndScan \/ ResolveConflict \/ BacktrackFromConflict \/ Learn
  <2>1. pc \notin Done /\ pc' \notin Done /\ UNCHANGED <<registry, solution>>
    BY <1>6 DEF StartPropagation, PopPackage, EndPropagation, SkipContradicted,
         ScanConflict, ScanAlmostSatisfied, ScanContradicted, ScanInconclusive, EndScan,
         Scanning, ResolveConflict, Resolving, BacktrackFromConflict, Learn, Done
  <2> QED BY <2>1 DEF Abstract!vars, Outcome
<1>7. CASE \/ Pick \/ ChooseNone \/ ChooseUnavailable \/ ChooseNew \/ ChooseKnown
           \/ MergeDependency \/ EndMerge \/ Accept \/ Reject
  <2>1. pc \notin Done /\ pc' \notin Done /\ UNCHANGED <<registry, solution>>
    BY <1>7 DEF Pick, ChooseNone, ChooseUnavailable, ChooseNew, ChooseKnown,
         MergeDependency, EndMerge, Accept, Reject, Done
  <2> QED BY <2>1 DEF Abstract!vars, Outcome
<1> QED BY <1>2, <1>3, <1>4, <1>5, <1>6, <1>7 DEF Next

\* The solver does nothing that `resolve' does not promise (Resolution): it
\* answers at most once, Ok with a solution and no package that is not needed
\* for it, or NoSolution when there is none, or with an error of the provider; for
\* every registry without a version whose dependency on its own package rules
\* it out.
THEOREM AlwaysResolvesSafely == Spec /\ SelfSound => ResolvesSafely
<1>1. Init => Abstract!Init
  BY DEF Init, Abstract!Init, Abstract!Nothing, Outcome, Done
<1>2. SelfSound /\ [Next]_vars => SelfSound'
  BY RegistryKept DEF SelfSound, NoBrokenSelfDependency
<1>3. ProofInvariant /\ SelfSound /\ [Next]_vars => [Abstract!Next]_(Abstract!vars)
  BY AbstractStep
<1> QED BY <1>1, <1>2, <1>3, AlwaysConflict, PTL DEF Spec, ResolvesSafely
=============================================================================
