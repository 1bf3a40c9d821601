--------------------------- MODULE SolverTheorems ---------------------------
(***************************************************************************)
(* The inductive invariant of `resolve', and what follows from it: the     *)
(* variables keep their types, the store excludes no solution, and the     *)
(* answer NoSolution is right.  Then the partial solution through a whole  *)
(* run: the history of each package narrows, the decisions come first, and *)
(* what is marked as contradicted is ruled out until backtracking below    *)
(* its level.                                                              *)
(***************************************************************************)
EXTENDS CoreTheorems, AnswerInvariant

\* The store excludes no solution of the registry.
Sound(s, r) == \A w \in SelectionType : IsSolution(r, w) => Excludes(s, w)

-----------------------------------------------------------------------------
(* The parts of the invariant, in the form the lemmas on operations use *)

\* What the invariant says of the store and of the histories.
LEMMA InvariantParts ==
    ASSUME Invariant
    PROVE  /\ PSTypeOK /\ CoreTypeOK /\ SolverTypeOK
           /\ PSWellFormed /\ CausesIn(store)
           /\ GoodStore(store) /\ Sound(store, registry)
           /\ ListsIn(incompatibilities, store) /\ MergedIn(mergedDependencies, store)
<1>1. PSTypeOK /\ CoreTypeOK /\ SolverTypeOK
  BY DEF Invariant, TypeOK
<1>2. PSWellFormed /\ CausesIn(store)
  BY DEF Invariant, HistoriesWellFormed, PSWellFormed, CausesIn
<1>3. GoodStore(store)
  BY <1>1 DEF Invariant, StoreWellFormed, CoreTypeOK, GoodStore, Ids
<1>4. Sound(store, registry)
  BY DEF Invariant, StoreValid, Sound, Excludes, Ids
<1>5. ListsIn(incompatibilities, store) /\ MergedIn(mergedDependencies, store)
  BY <1>1 DEF CoreTypeOK, ListsIn, MergedIn, Ids
<1> QED BY <1>1, <1>2, <1>3, <1>4, <1>5

\* An incompatibility of the store.
LEMMA StoreEntry ==
    ASSUME Invariant, NEW id \in Ids
    PROVE  /\ store[id] \in IncompatibilityType /\ WellFormed(store[id])
           /\ store[id].terms \in TermsType /\ id \in Nat \ {NoCause}
<1>1. GoodStore(store)
  BY InvariantParts
<1>2. store[id] \in IncompatibilityType /\ WellFormed(store[id])
  BY <1>1 DEF GoodStore, Ids
<1>3. id \in Nat \ {NoCause}
  BY <1>1 DEF GoodStore, Ids, NoCause
<1> QED BY <1>2, <1>3, WellFormedShape

\* Causes stay where they are when the store grows.
LEMMA CausesExtend ==
    ASSUME NEW s, NEW t, GoodStore(s), GoodStore(t), StoreExtends(s, t),
           NEW p, NEW a, CausesResolvable(p, a, s)
    PROVE  CausesResolvable(p, a, t)
<1>1. Len(s) \in Nat /\ Len(t) \in Nat
  BY DEF GoodStore
<1>2. ASSUME NEW i \in DOMAIN a.dated
      PROVE  /\ a.dated[i].cause \in 1 .. Len(t)
             /\ p \in IncompatPackages(t[a.dated[i].cause].terms)
             /\ Resolvable(t[a.dated[i].cause].terms)
  <2>1. /\ a.dated[i].cause \in 1 .. Len(s)
        /\ p \in IncompatPackages(s[a.dated[i].cause].terms)
        /\ Resolvable(s[a.dated[i].cause].terms)
    BY DEF CausesResolvable
  <2>2. t[a.dated[i].cause] = s[a.dated[i].cause]
    BY <2>1 DEF StoreExtends
  <2> QED BY <1>1, <2>1, <2>2 DEF StoreExtends
<1> QED BY <1>2 DEF CausesResolvable

\* A step keeps the store and the histories as the invariant wants them.
LEMMA StoreAndHistories ==
    ASSUME GoodStore(store), GoodStore(store'), StoreExtends(store, store'),
           Sound(store', registry), registry' = registry,
           PSWellFormed',
           \A q \in DOMAIN assignments' : CausesResolvable(q, assignments'[q], store)
    PROVE  StoreWellFormed' /\ StoreValid' /\ HistoriesWellFormed'
<1>1. StoreWellFormed'
  BY DEF StoreWellFormed, GoodStore, Ids
<1>2. StoreValid'
  BY DEF StoreValid, Sound, Excludes, Ids
<1>3. \A q \in DOMAIN assignments' : CausesResolvable(q, assignments'[q], store')
  BY CausesExtend
<1>4. HistoriesWellFormed'
  BY <1>3 DEF HistoriesWellFormed, PSWellFormed
<1> QED BY <1>1, <1>2, <1>4

\* The same store is good, and a good extension of itself.
LEMMA StoreUnchanged ==
    ASSUME GoodStore(store), store' = store
    PROVE  GoodStore(store') /\ StoreExtends(store, store')
BY DEF GoodStore, StoreExtends

\* Ids stay ids when the store grows.
LEMMA IdsGrow ==
    ASSUME GoodStore(store), GoodStore(store'), StoreExtends(store, store')
    PROVE  /\ Ids \subseteq Ids'
           /\ \A seq \in Seq(Ids) : seq \in Seq(Ids')
<1>1. Len(store) \in Nat /\ Len(store') \in Nat /\ Len(store) <= Len(store')
  BY DEF GoodStore, StoreExtends
<1>2. Ids \subseteq Ids'
  BY <1>1 DEF Ids
<1> QED BY <1>2, SeqMonotonic

-----------------------------------------------------------------------------
(* Steps that leave the partial solution and the store alone *)

\* The part of the invariant that such a step keeps.
LEMMA QuietStep ==
    ASSUME Invariant, UNCHANGED <<psVars, store, registry>>
    PROVE  PSTypeOK' /\ StoreWellFormed' /\ StoreValid' /\ HistoriesWellFormed'
<1>1. PSTypeOK /\ PSWellFormed /\ CausesIn(store) /\ GoodStore(store) /\ Sound(store, registry)
  BY InvariantParts
<1>2. PSTypeOK' /\ PSWellFormed'
  BY <1>1 DEF PSTypeOK, PSWellFormed, psVars
<1>3. \A q \in DOMAIN assignments' : CausesResolvable(q, assignments'[q], store)
  BY <1>1 DEF CausesIn, psVars
<1>4. GoodStore(store') /\ StoreExtends(store, store')
  BY <1>1, StoreUnchanged
<1> QED BY <1>1, <1>2, <1>3, <1>4, StoreAndHistories

\* A step of the loops of `resolve' and unit_propagation that only moves on.
LEMMA MoveStep ==
    ASSUME Invariant,
           \/ Cancel \/ StartPropagation \/ PopPackage \/ EndPropagation
           \/ SkipContradicted \/ EndScan \/ FailTerminal \/ ProviderError
           \/ EndMerge \/ Reject
    PROVE  Invariant'
<1>1. PSTypeOK' /\ StoreWellFormed' /\ StoreValid' /\ HistoriesWellFormed'
  <2>1. UNCHANGED <<psVars, store, registry>>
    BY DEF Cancel, StartPropagation, PopPackage, EndPropagation, SkipContradicted,
           EndScan, FailTerminal, ProviderError, EndMerge, Reject, coreVars
  <2> QED BY <2>1, QuietStep
<1>2. CoreTypeOK /\ SolverTypeOK
  BY InvariantParts
<1>3. CoreTypeOK' /\ SolverTypeOK'
  <2>1. /\ UNCHANGED <<store, incompatibilities, contradicted, mergedDependencies>>
        /\ UNCHANGED <<registry, next, conflict, conflictChanged, chosen, pending, fresh,
                       addedDependencies, solution>>
        /\ pc' \in PC /\ Ids' = Ids
    BY <1>2 DEF SolverTypeOK, PC, Done, Ids, Cancel, StartPropagation, PopPackage,
                EndPropagation, SkipContradicted, EndScan, FailTerminal, ProviderError,
                EndMerge, Reject, coreVars
  <2>2. buffer' \in Seq(Packages)
    <3>1. ASSUME NEW seq \in Seq(Packages), seq # << >>
          PROVE  Front(seq) \in Seq(Packages)
      BY <3>1 DEF Front
    <3>2. buffer \in Seq(Packages) /\ next \in Packages
      BY <1>2 DEF CoreTypeOK, SolverTypeOK
    <3>3. CASE StartPropagation
      BY <3>2, <3>3 DEF StartPropagation
    <3>4. CASE PopPackage
      BY <3>1, <3>2, <3>4 DEF PopPackage
    <3>5. CASE ~StartPropagation /\ ~PopPackage
      <4>1. buffer' = buffer
        BY <3>5 DEF Cancel, EndPropagation, SkipContradicted, EndScan, FailTerminal,
                    ProviderError, EndMerge, Reject, coreVars
      <4> QED BY <3>2, <4>1
    <3> QED BY <3>3, <3>4, <3>5
  <2>3. scan' \in Seq(Ids)
    <3>1. ASSUME NEW seq \in Seq(Ids), seq # << >>
          PROVE  Front(seq) \in Seq(Ids)
      BY <3>1 DEF Front
    <3>2. ASSUME buffer # << >> PROVE incompatibilities[Last(buffer)] \in Seq(Ids)
      BY <1>2, <3>2 DEF CoreTypeOK, Last
    <3> QED BY <1>2, <3>1, <3>2
         DEF SolverTypeOK, Cancel, StartPropagation, PopPackage, EndPropagation,
             SkipContradicted, EndScan, FailTerminal, ProviderError, EndMerge, Reject
  <2> QED BY <1>2, <2>1, <2>2, <2>3 DEF CoreTypeOK, SolverTypeOK
<1>4. pc' \notin {"conflict", "learn", "choose", "merge"}
      /\ (pc' = "decide" => pc = "merge" /\ chosen' = chosen)
  BY DEF Cancel, StartPropagation, PopPackage, EndPropagation, SkipContradicted,
         EndScan, FailTerminal, ProviderError, EndMerge, Reject
<1>5. ConflictResolvable' /\ RootCauseReady' /\ ChoiceReady'
  BY <1>4 DEF Invariant, ConflictResolvable, RootCauseReady, ChoiceReady
<1> QED BY <1>1, <1>3, <1>5 DEF Invariant, TypeOK

-----------------------------------------------------------------------------
(* unit_propagation *)

\* The incompatibility looked at, and what is left to look at.
LEMMA ScanTop ==
    ASSUME Invariant, Scanning
    PROVE  Last(scan) \in Ids /\ Front(scan) \in Seq(Ids)
<1>1. scan \in Seq(Ids) /\ scan # << >>
  BY InvariantParts DEF SolverTypeOK, Scanning
<1> QED BY <1>1 DEF Last, Front

\* Marking an incompatibility as contradicted.
LEMMA MarkType ==
    ASSUME CoreTypeOK, PSTypeOK, NEW id \in Ids, MarkContradicted(id)
    PROVE  /\ DOMAIN contradicted' \subseteq Ids
           /\ contradicted' \in [DOMAIN contradicted' -> Nat]
BY DEF CoreTypeOK, PSTypeOK, MarkContradicted

\* A satisfied incompatibility starts conflict resolution.
LEMMA ScanConflictStep ==
    ASSUME Invariant, ScanConflict
    PROVE  Invariant'
<1>1. Last(scan) \in Ids
  BY ScanTop DEF ScanConflict
<1>2. /\ UNCHANGED psVars /\ UNCHANGED coreVars
      /\ UNCHANGED <<registry, next, chosen, pending, fresh, addedDependencies, solution>>
      /\ pc' = "conflict" /\ conflict' = Last(scan) /\ conflictChanged' = FALSE /\ scan' = << >>
      /\ Satisfied(store[Last(scan)].terms, Known)
  BY DEF ScanConflict
<1>3. UNCHANGED <<store, incompatibilities, contradicted, mergedDependencies, buffer>>
  BY <1>2 DEF coreVars
<1>4. PSTypeOK' /\ StoreWellFormed' /\ StoreValid' /\ HistoriesWellFormed'
  BY <1>2, <1>3, QuietStep
<1>5. CoreTypeOK' /\ SolverTypeOK'
  <2>1. CoreTypeOK /\ SolverTypeOK
    BY InvariantParts
  <2>2. CoreTypeOK'
    BY <1>3, <2>1 DEF CoreTypeOK, Ids
  <2>3. Ids' = Ids /\ pc' \in PC
    BY <1>2, <1>3 DEF PC, Ids
  <2>4. conflict' \in Ids /\ conflictChanged' \in BOOLEAN
    BY <1>1, <1>2
  <2>5. scan' \in Seq(Ids)
    <3>1. << >> \in Seq(Ids)
      OBVIOUS
    <3> QED BY <1>2, <3>1
  <2> QED BY <1>2, <2>1, <2>2, <2>3, <2>4, <2>5 DEF SolverTypeOK
<1>6. Resolvable(store[Last(scan)].terms)
  BY <1>1, <1>2, InvariantParts, StoreEntry, SatisfiedResolvable
<1>7. ConflictResolvable' /\ RootCauseReady' /\ ChoiceReady'
  BY <1>2, <1>3, <1>6 DEF ConflictResolvable, RootCauseReady, ChoiceReady
<1> QED BY <1>4, <1>5, <1>7 DEF Invariant, TypeOK

\* A contradicted incompatibility is remembered, an inconclusive one is not.
LEMMA ScanOtherStep ==
    ASSUME Invariant, ScanContradicted \/ ScanInconclusive
    PROVE  Invariant'
<1>1. Last(scan) \in Ids /\ Front(scan) \in Seq(Ids)
  BY ScanTop DEF ScanContradicted, ScanInconclusive
<1>2. /\ UNCHANGED psVars
      /\ UNCHANGED <<store, incompatibilities, mergedDependencies, buffer>>
      /\ UNCHANGED <<registry, pc, next, conflict, conflictChanged, chosen, pending, fresh,
                     addedDependencies, solution>>
      /\ pc = "scan" /\ scan' = Front(scan)
      /\ MarkContradicted(Last(scan)) \/ contradicted' = contradicted
  BY DEF ScanContradicted, ScanInconclusive, FindContradicted, FindInconclusive, Scanning,
         coreVars, psVars
<1>3. PSTypeOK' /\ StoreWellFormed' /\ StoreValid' /\ HistoriesWellFormed'
  BY <1>2, QuietStep
<1>4. CoreTypeOK' /\ SolverTypeOK'
  <2>1. PSTypeOK /\ CoreTypeOK /\ SolverTypeOK
    BY InvariantParts
  <2>2. DOMAIN contradicted' \subseteq Ids /\ contradicted' \in [DOMAIN contradicted' -> Nat]
    BY <1>1, <1>2, <2>1, MarkType DEF CoreTypeOK
  <2> QED BY <1>1, <1>2, <2>1, <2>2 DEF CoreTypeOK, SolverTypeOK, Ids
<1>5. ConflictResolvable' /\ RootCauseReady' /\ ChoiceReady'
  BY <1>2 DEF ConflictResolvable, RootCauseReady, ChoiceReady
<1> QED BY <1>3, <1>4, <1>5 DEF Invariant, TypeOK

\* Deriving the negation of a term of a registered incompatibility.
LEMMA DeriveWellFormed ==
    ASSUME Invariant, NEW id \in Ids, NEW p,
           p \in IncompatPackages(store[id].terms), Get(store[id].terms, p) # AnyTerm,
           Resolvable(store[id].terms),
           p \in DOMAIN assignments =>
               Intersection(assignments[p].term, Negate(Get(store[id].terms, p))) # EmptyTerm,
           AddDerivation(p, id, store[id].terms), UNCHANGED <<store, registry>>
    PROVE  PSTypeOK' /\ StoreWellFormed' /\ StoreValid' /\ HistoriesWellFormed'
<1>1. /\ PSTypeOK /\ PSWellFormed /\ CausesIn(store) /\ GoodStore(store)
      /\ Sound(store, registry)
  BY InvariantParts
<1>2. store[id].terms \in TermsType /\ id \in Nat \ {NoCause} /\ id \in 1 .. Len(store)
  BY StoreEntry DEF Ids
<1>3. /\ PSTypeOK' /\ PSWellFormed'
      /\ \A q \in DOMAIN assignments' : CausesResolvable(q, assignments'[q], store)
  <2> DEFINE terms == store[id].terms
  <2>1. /\ terms \in TermsType /\ p \in IncompatPackages(terms) /\ Get(terms, p) # AnyTerm
        /\ p \in DOMAIN assignments =>
               Intersection(assignments[p].term, Negate(Get(terms, p))) # EmptyTerm
        /\ AddDerivation(p, id, terms)
    BY <1>2
  <2> HIDE DEF terms
  <2>2. /\ PSTypeOK' /\ PSWellFormed'
        /\ \A s : /\ CausesIn(s)
                  /\ id \in 1 .. Len(s)
                  /\ p \in IncompatPackages(s[id].terms)
                  /\ Resolvable(s[id].terms)
                  => \A q \in DOMAIN assignments' : CausesResolvable(q, assignments'[q], s)
    BY <1>1, <1>2, <2>1, AddDerivationWellFormed
  <2> QED BY <1>1, <1>2, <2>2
<1>4. GoodStore(store') /\ StoreExtends(store, store') /\ Sound(store', registry)
  BY <1>1, StoreUnchanged
<1> QED BY <1>1, <1>3, <1>4, StoreAndHistories

\* The buffer takes a package once.
LEMMA PushType ==
    ASSUME NEW seq \in Seq(Packages), NEW p \in Packages
    PROVE  PushIfAbsent(seq, p) \in Seq(Packages)
BY DEF PushIfAbsent

\* An almost satisfied incompatibility gives a derivation.
LEMMA ScanAlmostSatisfiedStep ==
    ASSUME Invariant, ScanAlmostSatisfied
    PROVE  Invariant'
<1> DEFINE id == Last(scan)
<1>1. id \in Ids /\ Front(scan) \in Seq(Ids)
  BY ScanTop DEF ScanAlmostSatisfied
<1>2. PICK x \in store[id].terms : PropagateAlmostSatisfied(id, x)
  BY DEF ScanAlmostSatisfied
<1>3. /\ UNCHANGED <<registry, pc, next, conflict, conflictChanged, chosen, pending, fresh,
                     addedDependencies, solution>>
      /\ pc = "scan" /\ scan' = Front(scan)
  BY DEF ScanAlmostSatisfied, Scanning
<1> HIDE DEF id
<1>4. /\ AlmostSatisfiedBy(store[id].terms, Known, x)
      /\ buffer' = PushIfAbsent(buffer, x[1])
      /\ AddDerivation(x[1], id, store[id].terms)
      /\ MarkContradicted(id)
      /\ UNCHANGED <<store, incompatibilities, mergedDependencies>>
  BY <1>2 DEF PropagateAlmostSatisfied
<1>5. /\ PSTypeOK /\ CoreTypeOK /\ SolverTypeOK /\ PSWellFormed
      /\ store[id] \in IncompatibilityType /\ WellFormed(store[id])
  BY <1>1, InvariantParts, StoreEntry
<1>6. /\ Resolvable(store[id].terms)
      /\ x[1] \in IncompatPackages(store[id].terms) /\ x[1] \in Packages
      /\ Get(store[id].terms, x[1]) # AnyTerm
      /\ x[1] \in DOMAIN assignments =>
            Intersection(assignments[x[1]].term, Negate(Get(store[id].terms, x[1]))) # EmptyTerm
  BY <1>4, <1>5, AlmostSatisfiedReady
<1>7. PSTypeOK' /\ StoreWellFormed' /\ StoreValid' /\ HistoriesWellFormed'
  BY <1>1, <1>3, <1>4, <1>6, DeriveWellFormed
<1>8. CoreTypeOK' /\ SolverTypeOK'
  <2>1. DOMAIN contradicted' \subseteq Ids /\ contradicted' \in [DOMAIN contradicted' -> Nat]
    BY <1>1, <1>4, <1>5, MarkType
  <2>2. buffer' \in Seq(Packages)
    BY <1>4, <1>5, <1>6, PushType DEF CoreTypeOK
  <2> QED BY <1>1, <1>3, <1>4, <1>5, <2>1, <2>2 DEF CoreTypeOK, SolverTypeOK, Ids
<1>9. ConflictResolvable' /\ RootCauseReady' /\ ChoiceReady'
  BY <1>3 DEF ConflictResolvable, RootCauseReady, ChoiceReady
<1> QED BY <1>7, <1>8, <1>9 DEF Invariant, TypeOK

-----------------------------------------------------------------------------
(* conflict_resolution *)

\* The conflict gives way to its resolvent with the cause of its satisfier.
LEMMA ResolveConflictStep ==
    ASSUME Invariant, ResolveConflict
    PROVE  Invariant'
<1>1. /\ pc = "conflict" /\ ResolveWithCause(conflict)
      /\ conflict' = Len(store) + 1 /\ conflictChanged' = TRUE
      /\ UNCHANGED <<registry, pc, next, scan, chosen, pending, fresh,
                     addedDependencies, solution>>
  BY DEF ResolveConflict, Resolving
<1>2. /\ PSTypeOK /\ CoreTypeOK /\ SolverTypeOK /\ PSWellFormed /\ CausesIn(store)
      /\ GoodStore(store) /\ Sound(store, registry) /\ conflict \in Ids
  BY InvariantParts DEF SolverTypeOK
<1>3. PICK s \in SatisfiedMap(store[conflict].terms) :
          /\ s.cause # NoCause
          /\ store' = Append(store, PriorCause(store, conflict, s.cause, s.package))
  BY <1>1 DEF ResolveWithCause
<1>4. /\ HasSatisfiers(store[conflict].terms)
      /\ UNCHANGED <<incompatibilities, contradicted, mergedDependencies, buffer>>
      /\ UNCHANGED psVars
  BY <1>1 DEF ResolveWithCause
<1> DEFINE p == s.package
           cause == s.cause
           terms1 == store[conflict].terms
           terms2 == store[cause].terms
           new == PriorCause(store, conflict, cause, p)
<1>5. p \in IncompatPackages(terms1)
  BY <1>2, <1>3, <1>4, SatisfiedMapMeaning
<1>6. cause \in Ids /\ p \in IncompatPackages(terms2) /\ Resolvable(terms2)
  BY <1>2, <1>3, <1>4, SatisfierCause
<1>7. Resolvable(terms1)
  BY <1>1 DEF Invariant, ConflictResolvable
<1>8. /\ WellFormed(store[conflict]) /\ terms1 \in TermsType
      /\ WellFormed(store[cause]) /\ terms2 \in TermsType
      /\ conflict \in Nat /\ cause \in Nat
  BY <1>2, <1>6, StoreEntry
<1>9. /\ new.terms = PriorCauseTerms(terms1, terms2, p) /\ new.kind = "derived"
      /\ new.dependency = << >> /\ new.causes = <<conflict, cause>>
      /\ new = [terms |-> PriorCauseTerms(terms1, terms2, p), kind |-> "derived",
                dependency |-> << >>, causes |-> <<conflict, cause>>]
  BY DEF PriorCause
<1>10. IsFiniteSet(terms1) /\ IsFiniteSet(terms2)
       /\ (\A x \in terms1 : x[2] # AnyTerm) /\ (\A x \in terms2 : x[2] # AnyTerm)
  BY <1>8 DEF WellFormed
<1> HIDE DEF p, cause, terms1, terms2, new
<1>11. /\ new.terms \in TermsType /\ OneTermPerPackage(new.terms)
       /\ IsFiniteSet(new.terms) /\ \A x \in new.terms : x[2] # AnyTerm
  BY <1>5, <1>6, <1>7, <1>8, <1>9, <1>10, PriorCauseWellFormed
<1>12. new \in IncompatibilityType /\ WellFormed(new)
  <2>1. new \in IncompatibilityType
    BY <1>8, <1>9, <1>11 DEF IncompatibilityType, TermsType, Kinds
  <2>2. WellFormed(new)
    BY <1>9, <1>11 DEF WellFormed
  <2> QED BY <2>1, <2>2
<1>13. /\ store' = Append(store, new) /\ store \in Seq(IncompatibilityType)
       /\ Len(store) \in Nat /\ Len(store') = Len(store) + 1
       /\ store'[Len(store) + 1] = new
       /\ \A id \in 1 .. Len(store) : store'[id] = store[id]
  BY <1>2, <1>3, <1>12 DEF GoodStore, new, cause, p
<1>14. GoodStore(store') /\ StoreExtends(store, store')
  BY <1>2, <1>12, <1>13 DEF GoodStore, StoreExtends
<1>15. Sound(store', registry)
  <2>1. SUFFICES ASSUME NEW w \in SelectionType, IsSolution(registry, w), NEW id \in 1 .. Len(store')
                 PROVE  ~SelectionSatisfies(store'[id].terms, w)
    BY DEF Sound, Excludes
  <2>2. Excludes(store, w)
    BY <1>2, <2>1 DEF Sound
  <2>3. CASE id \in 1 .. Len(store)
    BY <1>13, <2>2, <2>3 DEF Excludes
  <2>4. CASE id = Len(store) + 1
    <3>1. ~SelectionSatisfies(terms1, w) /\ ~SelectionSatisfies(terms2, w)
      BY <1>2, <1>6, <2>2 DEF Excludes, Ids, terms1, terms2
    <3>2. ~SelectionSatisfies(PriorCauseTerms(terms1, terms2, p), w)
      BY <1>5, <1>6, <1>7, <1>8, <3>1, PriorCauseSound
    <3> QED BY <1>9, <1>13, <2>4, <3>2
  <2> QED BY <1>13, <2>1, <2>3, <2>4
<1>16. PSTypeOK' /\ PSWellFormed'
  BY <1>2, <1>4 DEF PSTypeOK, PSWellFormed, psVars
<1>17. \A q \in DOMAIN assignments' : CausesResolvable(q, assignments'[q], store)
  BY <1>2, <1>4 DEF CausesIn, psVars
<1>18. StoreWellFormed' /\ StoreValid' /\ HistoriesWellFormed'
  BY <1>1, <1>2, <1>14, <1>15, <1>16, <1>17, StoreAndHistories
<1>19. CoreTypeOK' /\ SolverTypeOK'
  <2>1. Ids \subseteq Ids' /\ \A seq \in Seq(Ids) : seq \in Seq(Ids')
    BY <1>2, <1>14, IdsGrow
  <2>2. CoreTypeOK'
    <3>1. store' \in Seq(IncompatibilityType)
      BY <1>14 DEF GoodStore
    <3>2. \A q \in Packages : incompatibilities[q] \in Seq(Ids')
      BY <1>2, <2>1 DEF CoreTypeOK
    <3>3. \A pair \in Packages \X Packages : mergedDependencies[pair] \in Seq(Ids')
      BY <1>2, <2>1 DEF CoreTypeOK
    <3> QED BY <1>2, <1>4, <2>1, <3>1, <3>2, <3>3 DEF CoreTypeOK
  <2>3. conflict' \in Ids' /\ scan' \in Seq(Ids') /\ pending' \in Seq(Ids') /\ fresh' \in Seq(Ids')
    BY <1>1, <1>2, <1>13, <2>1 DEF SolverTypeOK, Ids
  <2>4. SolverTypeOK'
    BY <1>1, <1>2, <2>3 DEF SolverTypeOK
  <2> QED BY <2>2, <2>4
<1>20. ConflictResolvable'
  <2>1. store'[conflict'] = new
    BY <1>1, <1>13
  <2> QED BY <1>11, <2>1 DEF ConflictResolvable, Resolvable
<1>21. RootCauseReady' /\ ChoiceReady'
  BY <1>1 DEF RootCauseReady, ChoiceReady
<1> QED BY <1>16, <1>18, <1>19, <1>20, <1>21 DEF Invariant, TypeOK

\* Merging an incompatibility in: what the step may assume and what it keeps.
LEMMA MergeKeeps ==
    ASSUME Invariant, NEW s, GoodStore(s), StoreExtends(store, s), Sound(s, registry),
           NEW id \in 1 .. Len(s), MergeIncompatibility(s, id)
    PROVE  /\ GoodStore(store') /\ StoreExtends(store, store') /\ Sound(store', registry)
           /\ incompatibilities' \in [Packages -> Seq(Ids')]
           /\ mergedDependencies' \in [Packages \X Packages -> Seq(Ids')]
<1>1. /\ ListsIn(incompatibilities, store) /\ MergedIn(mergedDependencies, store)
      /\ GoodStore(store)
  BY InvariantParts
<1>2. 1 .. Len(store) \subseteq 1 .. Len(s) /\ Len(store) \in Nat /\ Len(s) \in Nat
  BY <1>1 DEF GoodStore, StoreExtends
<1>3. \A seq \in Seq(1 .. Len(store)) : seq \in Seq(1 .. Len(s))
  BY <1>2, SeqMonotonic
<1>4. ListsIn(incompatibilities, s) /\ MergedIn(mergedDependencies, s)
  BY <1>1, <1>3 DEF ListsIn, MergedIn
<1>5. /\ GoodStore(store') /\ StoreExtends(s, store')
      /\ ListsIn(incompatibilities', store') /\ MergedIn(mergedDependencies', store')
      /\ \A w \in SelectionType : Excludes(s, w) => Excludes(store', w)
  BY <1>4, MergeWellFormed
<1>6. Len(store') \in Nat
  BY <1>5 DEF GoodStore
<1>7. StoreExtends(store, store')
  BY <1>2, <1>5, <1>6 DEF StoreExtends
<1>8. Sound(store', registry)
  BY <1>5 DEF Sound
<1> QED BY <1>5, <1>7, <1>8 DEF ListsIn, MergedIn, Ids

\* Backtracking keeps the partial solution as it should be, and leaves the
\* satisfier's package the choice that the root cause is about.
LEMMA BacktrackKeeps ==
    ASSUME Invariant, pc = "conflict",
           HasSatisfiers(store[conflict].terms),
           NEW s \in SatisfiedMap(store[conflict].terms),
           NEW previous \in PreviousMap(store, store[conflict].terms, s),
           ~SameDecisionLevels(s, previous), Backtrack(PreviousLevel(previous))
    PROVE  /\ PSTypeOK' /\ PSWellFormed'
           /\ \A q \in DOMAIN assignments' : CausesResolvable(q, assignments'[q], store)
           /\ s.package \in IncompatPackages(store[conflict].terms)
           /\ s.package \in DOMAIN assignments' =>
                 Intersection(assignments'[s.package].term,
                              Negate(Get(store[conflict].terms, s.package))) # EmptyTerm
<1> DEFINE terms == store[conflict].terms
           level == PreviousLevel(previous)
           p == s.package
<1>1. /\ PSTypeOK /\ PSWellFormed /\ CausesIn(store) /\ SolverTypeOK /\ conflict \in Ids
  BY InvariantParts DEF SolverTypeOK
<1>2. terms \in TermsType
  BY <1>1, StoreEntry
<1>3. Resolvable(terms)
  BY DEF Invariant, ConflictResolvable
<1>4. level \in Nat
  BY <1>1, PreviousLevelType
<1>5. s \in SatisfierType /\ p \in IncompatPackages(terms) /\ p \in DOMAIN assignments
  BY <1>1, SatisfiedMapMeaning
<1>6. level < s.level
  <2>1. ~(level >= s.level) /\ s.level \in Nat
    BY <1>5 DEF SameDecisionLevels, SatisfierType
  <2> QED BY <1>4, <2>1
<1> HIDE DEF terms, level, p
<1>7. /\ PSTypeOK' /\ PSWellFormed'
      /\ \A q \in DOMAIN assignments' : CausesResolvable(q, assignments'[q], store)
      /\ \A q \in DOMAIN assignments' :
            /\ q \in DOMAIN assignments
            /\ assignments[q].smallest <= level
            /\ assignments'[q] = BacktrackedAssignment(assignments[q], level)
  <2>1. Backtrack(level)
    BY DEF level
  <2>2. /\ PSTypeOK' /\ PSWellFormed'
        /\ \A t : CausesIn(t) =>
              \A q \in DOMAIN assignments' : CausesResolvable(q, assignments'[q], t)
        /\ \A q \in DOMAIN assignments' :
              /\ q \in DOMAIN assignments
              /\ assignments[q].smallest <= level
              /\ assignments'[q] = BacktrackedAssignment(assignments[q], level)
    BY <1>1, <1>4, <2>1, BacktrackWellFormed
  <2> QED BY <1>1, <2>2
<1>8. ASSUME p \in DOMAIN assignments'
      PROVE  Intersection(assignments'[p].term, Negate(Get(terms, p))) # EmptyTerm
  <2>1. /\ assignments[p].smallest <= level
        /\ assignments'[p] = BacktrackedAssignment(assignments[p], level)
    BY <1>7, <1>8
  <2>2. HasSatisfiers(terms) /\ s \in SatisfiedMap(terms)
    BY DEF terms
  <2>3. /\ assignments'[p].term \in TermType
        /\ ~IsDisjoint(assignments'[p].term, Negate(GetLast(terms, p)))
    BY <1>1, <1>4, <1>6, <2>1, <2>2, CutBeforeSatisfier DEF p
  <2> QED BY <1>2, <1>3, <1>5, <2>3, NotDisjointLeavesChoice
<1> QED BY <1>5, <1>7, <1>8 DEF terms, p

\* Conflict resolution ends: backtrack, and add the root cause.
LEMMA BacktrackFromConflictStep ==
    ASSUME Invariant, BacktrackFromConflict
    PROVE  Invariant'
<1>1. /\ pc = "conflict" /\ BacktrackFrom(conflict, conflictChanged) /\ pc' = "learn"
      /\ UNCHANGED <<registry, next, scan, conflict, conflictChanged,
                     chosen, pending, fresh, addedDependencies, solution>>
  BY DEF BacktrackFromConflict, Resolving
<1>2. /\ PSTypeOK /\ CoreTypeOK /\ SolverTypeOK /\ PSWellFormed /\ CausesIn(store)
      /\ GoodStore(store) /\ Sound(store, registry) /\ conflict \in Ids
      /\ ListsIn(incompatibilities, store) /\ MergedIn(mergedDependencies, store)
  BY InvariantParts DEF SolverTypeOK
<1>3. PICK s \in SatisfiedMap(store[conflict].terms) :
      \E previous \in PreviousMap(store, store[conflict].terms, s) :
          /\ ~SameDecisionLevels(s, previous)
          /\ Backtrack(PreviousLevel(previous))
          /\ contradicted' = [i \in ContradictedAt(PreviousLevel(previous)) |-> contradicted[i]]
          /\ buffer' = <<s.package>>
  BY <1>1 DEF BacktrackFrom
<1>4. PICK previous \in PreviousMap(store, store[conflict].terms, s) :
          /\ ~SameDecisionLevels(s, previous)
          /\ Backtrack(PreviousLevel(previous))
          /\ contradicted' = [i \in ContradictedAt(PreviousLevel(previous)) |-> contradicted[i]]
          /\ buffer' = <<s.package>>
  BY <1>3
<1>5. HasSatisfiers(store[conflict].terms)
  BY <1>1 DEF BacktrackFrom
<1>6. /\ PSTypeOK' /\ PSWellFormed'
      /\ \A q \in DOMAIN assignments' : CausesResolvable(q, assignments'[q], store)
      /\ s.package \in IncompatPackages(store[conflict].terms)
      /\ s.package \in DOMAIN assignments' =>
            Intersection(assignments'[s.package].term,
                         Negate(Get(store[conflict].terms, s.package))) # EmptyTerm
  BY <1>1, <1>4, <1>5, BacktrackKeeps
<1>7. s.package \in Packages
  BY <1>2, <1>5, SatisfiedMapMeaning DEF SatisfierType
<1>8. /\ GoodStore(store') /\ StoreExtends(store, store') /\ Sound(store', registry)
      /\ incompatibilities' \in [Packages -> Seq(Ids')]
      /\ mergedDependencies' \in [Packages \X Packages -> Seq(Ids')]
  <2>1. CASE conflictChanged
    <3>1. MergeIncompatibility(store, conflict)
      BY <1>1, <2>1 DEF BacktrackFrom
    <3>2. StoreExtends(store, store) /\ conflict \in 1 .. Len(store)
      BY <1>2 DEF StoreExtends, GoodStore, Ids
    <3> QED BY <1>2, <3>1, <3>2, MergeKeeps
  <2>2. CASE ~conflictChanged
    <3>1. UNCHANGED <<store, incompatibilities, mergedDependencies>>
      BY <1>1, <2>2 DEF BacktrackFrom
    <3> QED BY <1>2, <3>1, StoreUnchanged DEF ListsIn, MergedIn, Ids
  <2> QED BY <2>1, <2>2
<1>9. StoreWellFormed' /\ StoreValid' /\ HistoriesWellFormed'
  BY <1>1, <1>2, <1>6, <1>8, StoreAndHistories
<1>10. Ids \subseteq Ids' /\ \A seq \in Seq(Ids) : seq \in Seq(Ids')
  BY <1>2, <1>8, IdsGrow
<1>11. CoreTypeOK'
  <2>1. store' \in Seq(IncompatibilityType)
    BY <1>8 DEF GoodStore
  <2>2. DOMAIN contradicted' \subseteq Ids' /\ contradicted' \in [DOMAIN contradicted' -> Nat]
    BY <1>2, <1>4, <1>10 DEF CoreTypeOK, ContradictedAt
  <2>3. buffer' \in Seq(Packages)
    BY <1>4, <1>7
  <2> QED BY <1>8, <2>1, <2>2, <2>3 DEF CoreTypeOK
<1>12. SolverTypeOK'
  <2>1. conflict' \in Ids' /\ scan' \in Seq(Ids') /\ pending' \in Seq(Ids') /\ fresh' \in Seq(Ids')
    BY <1>1, <1>2, <1>10 DEF SolverTypeOK
  <2> QED BY <1>1, <1>2, <2>1 DEF SolverTypeOK, PC
<1>13. store'[conflict'] = store[conflict]
  BY <1>1, <1>2, <1>8 DEF StoreExtends, Ids
<1>14. ConflictResolvable'
  BY <1>1, <1>13 DEF Invariant, ConflictResolvable
<1>15. RootCauseReady'
  <2>1. buffer' # << >> /\ buffer'[1] = s.package
    BY <1>4
  <2> QED BY <1>6, <1>13, <2>1 DEF RootCauseReady, RootCauseLeavesChoice
<1>16. ChoiceReady'
  BY <1>1 DEF ChoiceReady
<1> QED BY <1>6, <1>9, <1>11, <1>12, <1>14, <1>15, <1>16 DEF Invariant, TypeOK

\* The root cause gives its derivation.
LEMMA LearnStep ==
    ASSUME Invariant, Learn
    PROVE  Invariant'
<1>1. /\ pc = "learn" /\ pc' = "propagate"
      /\ AddDerivation(buffer[1], conflict, store[conflict].terms)
      /\ MarkContradicted(conflict)
      /\ UNCHANGED <<store, incompatibilities, mergedDependencies, buffer>>
      /\ UNCHANGED <<registry, next, scan, conflict, conflictChanged,
                     chosen, pending, fresh, addedDependencies, solution>>
  BY DEF Learn, LearnRootCause
<1>2. PSTypeOK /\ CoreTypeOK /\ SolverTypeOK /\ conflict \in Ids
  BY InvariantParts DEF SolverTypeOK
<1> DEFINE p == buffer[1]
<1>3. /\ p \in IncompatPackages(store[conflict].terms)
      /\ p \in DOMAIN assignments =>
            Intersection(assignments[p].term, Negate(Get(store[conflict].terms, p))) # EmptyTerm
      /\ Resolvable(store[conflict].terms)
  BY <1>1 DEF Invariant, RootCauseReady, RootCauseLeavesChoice, ConflictResolvable
<1>4. Get(store[conflict].terms, p) # AnyTerm
  <2>1. store[conflict].terms \in TermsType /\ WellFormed(store[conflict])
    BY <1>2, StoreEntry
  <2>2. <<p, Get(store[conflict].terms, p)>> \in store[conflict].terms
    BY <1>3, <2>1, GetFinds
  <2> QED BY <2>1, <2>2 DEF WellFormed
<1> HIDE DEF p
<1>5. AddDerivation(p, conflict, store[conflict].terms)
  BY <1>1 DEF p
<1>6. PSTypeOK' /\ StoreWellFormed' /\ StoreValid' /\ HistoriesWellFormed'
  BY <1>1, <1>2, <1>3, <1>4, <1>5, DeriveWellFormed
<1>7. CoreTypeOK' /\ SolverTypeOK'
  <2>1. DOMAIN contradicted' \subseteq Ids /\ contradicted' \in [DOMAIN contradicted' -> Nat]
    BY <1>1, <1>2, MarkType
  <2> QED BY <1>1, <1>2, <2>1 DEF CoreTypeOK, SolverTypeOK, Ids, PC
<1>8. ConflictResolvable' /\ RootCauseReady' /\ ChoiceReady'
  BY <1>1 DEF ConflictResolvable, RootCauseReady, ChoiceReady
<1> QED BY <1>6, <1>7, <1>8 DEF Invariant, TypeOK

-----------------------------------------------------------------------------
(* What the provider's answers exclude *)

\* no_versions: there is no version to choose in the range.
LEMMA NoVersionsExcludes ==
    ASSUME NEW r, NEW p \in Packages, NEW range \in SUBSET Versions,
           Candidates(r, p, range) = {},
           NEW w \in SelectionType, IsSolution(r, w)
    PROVE  ~SelectionSatisfies({<<p, Positive(range)>>}, w)
<1>1. SUFFICES ASSUME SelectionSatisfies({<<p, Positive(range)>>}, w) PROVE FALSE
  OBVIOUS
<1>2. w[p] \in range
  <2>1. TermContains(Positive(range), w[p])
    BY <1>1 DEF SelectionSatisfies
  <2> QED BY <2>1 DEF TermContains, Positive
<1>3. w[p] # NoVersion
  BY <1>2, NoVersionAssumption
<1>4. r[p][w[p]].status = "available"
  BY <1>3 DEF IsSolution, DependenciesMet
<1>5. w[p] \in Candidates(r, p, range)
  BY <1>2, <1>4 DEF Candidates
<1> QED BY <1>5

\* custom_version: the version is unavailable.
LEMMA UnavailableExcludes ==
    ASSUME NEW r, NEW p \in Packages, NEW v \in Versions,
           r[p][v].status = "unavailable",
           NEW w \in SelectionType, IsSolution(r, w)
    PROVE  ~SelectionSatisfies({<<p, Exact(v)>>}, w)
<1>1. SUFFICES ASSUME SelectionSatisfies({<<p, Exact(v)>>}, w) PROVE FALSE
  OBVIOUS
<1>2. w[p] = v
  <2>1. TermContains(Exact(v), w[p])
    BY <1>1 DEF SelectionSatisfies
  <2> QED BY <2>1 DEF TermContains, Exact, Positive
<1>3. r[p][w[p]].status = "available"
  BY <1>2, NoVersionAssumption DEF IsSolution, DependenciesMet
<1> QED BY <1>2, <1>3

\* from_dependency: the dependency is met in every solution.
LEMMA DependencyExcludes ==
    ASSUME NEW r, NEW p \in Packages, NEW v \in Versions,
           NEW q \in Packages, NEW set \in Ranges,
           \E i \in DOMAIN r[p][v].dependencies :
               r[p][v].dependencies[i][1] = q /\ r[p][v].dependencies[i][2] = set,
           NEW w \in SelectionType, IsSolution(r, w)
    PROVE  ~SelectionSatisfies(FromDependency(p, {v}, q, set).terms, w)
<1>1. {v} \in Ranges
  BY DEF Ranges
<1>2. SelectionSatisfies(FromDependency(p, {v}, q, set).terms, w)
          <=> w[p] \in {v} /\ (set # {} => w[q] \notin set)
  <2> DEFINE i == FromDependency(p, {v}, q, set)
  <2> HIDE DEF i
  <2>1. i = FromDependency(p, {v}, q, set)
    BY DEF i
  <2>2. SelectionSatisfies(i.terms, w) <=> w[p] \in {v} /\ (set # {} => w[q] \notin set)
    BY <1>1, <2>1, DependencyMeaning
  <2> QED BY <2>2 DEF i
<1>3. ASSUME w[p] = v
      PROVE  w[q] \in set
  <2>1. DependenciesMet(r, w, p)
    BY <1>3, NoVersionAssumption DEF IsSolution
  <2> QED BY <1>3, <2>1 DEF DependenciesMet
<1> QED BY <1>2, <1>3

\* A store that grows by good incompatibilities, none of which excludes a
\* solution.
LEMMA ConcatKeeps ==
    ASSUME NEW s, NEW r, GoodStore(s), Sound(s, r),
           NEW new \in Seq(IncompatibilityType),
           \A i \in 1 .. Len(new) :
               /\ WellFormed(new[i])
               /\ \A w \in SelectionType : IsSolution(r, w) => ~SelectionSatisfies(new[i].terms, w)
    PROVE  /\ GoodStore(s \o new) /\ StoreExtends(s, s \o new) /\ Sound(s \o new, r)
           /\ Len(s \o new) = Len(s) + Len(new)
<1> DEFINE t == s \o new
<1>1. /\ s \in Seq(IncompatibilityType) /\ Len(s) \in Nat /\ Len(new) \in Nat
      /\ \A id \in 1 .. Len(s) : WellFormed(s[id])
  BY DEF GoodStore
<1>2. /\ t \in Seq(IncompatibilityType) /\ Len(t) = Len(s) + Len(new)
      /\ \A id \in 1 .. Len(s) : t[id] = s[id]
      /\ \A id \in 1 .. Len(t) : id \notin 1 .. Len(s) =>
            id - Len(s) \in 1 .. Len(new) /\ t[id] = new[id - Len(s)]
  <2>1. t \in Seq(IncompatibilityType) /\ Len(t) = Len(s) + Len(new)
    BY <1>1
  <2>2. \A id \in 1 .. Len(s) : t[id] = s[id]
    BY <1>1
  <2>3. ASSUME NEW id \in 1 .. Len(t), id \notin 1 .. Len(s)
        PROVE  id - Len(s) \in 1 .. Len(new) /\ t[id] = new[id - Len(s)]
    BY <1>1, <2>1, <2>3
  <2> QED BY <2>1, <2>2, <2>3
<1> HIDE DEF t
<1>3. GoodStore(t)
  <2>1. ASSUME NEW id \in 1 .. Len(t)
        PROVE  WellFormed(t[id])
    <3>1. CASE id \in 1 .. Len(s)
      BY <1>1, <1>2, <3>1
    <3>2. CASE id \notin 1 .. Len(s)
      BY <1>2, <3>2
    <3> QED BY <3>1, <3>2
  <2> QED BY <1>2, <2>1 DEF GoodStore
<1>4. StoreExtends(s, t)
  BY <1>1, <1>2 DEF StoreExtends
<1>5. Sound(t, r)
  <2>1. SUFFICES ASSUME NEW w \in SelectionType, IsSolution(r, w), NEW id \in 1 .. Len(t)
                 PROVE  ~SelectionSatisfies(t[id].terms, w)
    BY DEF Sound, Excludes
  <2>2. CASE id \in 1 .. Len(s)
    BY <1>2, <2>1, <2>2 DEF Sound, Excludes
  <2>3. CASE id \notin 1 .. Len(s)
    BY <1>2, <2>1, <2>3
  <2> QED BY <2>2, <2>3
<1> QED BY <1>2, <1>3, <1>4, <1>5 DEF t

\* The same, of one incompatibility.
LEMMA AppendKeeps ==
    ASSUME NEW s, NEW r, GoodStore(s), Sound(s, r),
           NEW new \in IncompatibilityType, WellFormed(new),
           \A w \in SelectionType : IsSolution(r, w) => ~SelectionSatisfies(new.terms, w)
    PROVE  /\ GoodStore(Append(s, new)) /\ StoreExtends(s, Append(s, new))
           /\ Sound(Append(s, new), r) /\ Len(s) + 1 \in 1 .. Len(Append(s, new))
<1>1. s \in Seq(IncompatibilityType) /\ Len(s) \in Nat
  BY DEF GoodStore
<1>2. /\ <<new>> \in Seq(IncompatibilityType) /\ Len(<<new>>) = 1
      /\ \A i \in 1 .. Len(<<new>>) : <<new>>[i] = new
  OBVIOUS
<1>3. \A i \in 1 .. Len(<<new>>) :
          /\ WellFormed(<<new>>[i])
          /\ \A w \in SelectionType : IsSolution(r, w) => ~SelectionSatisfies(<<new>>[i].terms, w)
  BY <1>2
<1>4. Append(s, new) = s \o <<new>>
  BY <1>1
<1> DEFINE one == <<new>>
<1> HIDE DEF one
<1>5. /\ GoodStore(s \o one) /\ StoreExtends(s, s \o one) /\ Sound(s \o one, r)
      /\ Len(s \o one) = Len(s) + Len(one)
  <2>1. /\ one \in Seq(IncompatibilityType)
        /\ \A i \in 1 .. Len(one) :
              /\ WellFormed(one[i])
              /\ \A w \in SelectionType : IsSolution(r, w) => ~SelectionSatisfies(one[i].terms, w)
    BY <1>2, <1>3 DEF one
  <2> QED BY <2>1, ConcatKeeps
<1>6. Append(s, new) = s \o one /\ Len(one) = 1
  BY <1>2, <1>4 DEF one
<1>7. Len(s) + 1 \in 1 .. Len(s \o one)
  BY <1>1, <1>5, <1>6
<1> QED BY <1>5, <1>6, <1>7

-----------------------------------------------------------------------------
(* Decision making *)

\* The package and the version chosen for it.
LEMMA ChoiceMade ==
    ASSUME Invariant, pc = "choose"
    PROVE  /\ next \in Packages /\ next \in DOMAIN assignments
           /\ CurrentRange \in SUBSET Versions
           /\ VersionChoices \subseteq Versions
           /\ registry \in RegistryType
<1>1. next \in DOMAIN assignments
  BY DEF Invariant, ChoiceReady
<1>2. PSTypeOK /\ SolverTypeOK
  BY InvariantParts
<1>3. assignments[next].term \in TermType
  BY <1>1, <1>2 DEF PSTypeOK, PackageAssignmentsType
<1>4. CurrentRange \in SUBSET Versions
  BY <1>3 DEF CurrentRange, TermType
<1> QED BY <1>1, <1>2, <1>4, RegistriesAssumption DEF VersionChoices, Candidates, SolverTypeOK

\* A step that adds to the store, and leaves the partial solution alone.
LEMMA GrowStep ==
    ASSUME Invariant, UNCHANGED psVars, registry' = registry,
           GoodStore(store'), StoreExtends(store, store'), Sound(store', registry),
           incompatibilities' \in [Packages -> Seq(Ids')],
           mergedDependencies' \in [Packages \X Packages -> Seq(Ids')],
           UNCHANGED <<contradicted, buffer>>
    PROVE  /\ PSTypeOK' /\ CoreTypeOK'
           /\ StoreWellFormed' /\ StoreValid' /\ HistoriesWellFormed'
<1>1. /\ PSTypeOK /\ CoreTypeOK /\ PSWellFormed /\ CausesIn(store) /\ GoodStore(store)
  BY InvariantParts
<1>2. PSTypeOK' /\ PSWellFormed'
  BY <1>1 DEF PSTypeOK, PSWellFormed, psVars
<1>3. \A q \in DOMAIN assignments' : CausesResolvable(q, assignments'[q], store)
  BY <1>1 DEF CausesIn, psVars
<1>4. StoreWellFormed' /\ StoreValid' /\ HistoriesWellFormed'
  BY <1>1, <1>2, <1>3, StoreAndHistories
<1>5. CoreTypeOK'
  <2>1. Ids \subseteq Ids'
    BY <1>1, IdsGrow
  <2> QED BY <1>1, <2>1 DEF CoreTypeOK, GoodStore
<1> QED BY <1>2, <1>4, <1>5

\* The ids that the solver holds stay ids.
LEMMA HeldIds ==
    ASSUME Invariant, GoodStore(store'), StoreExtends(store, store')
    PROVE  /\ scan \in Seq(Ids') /\ conflict \in Ids'
           /\ pending \in Seq(Ids') /\ fresh \in Seq(Ids')
<1>1. SolverTypeOK /\ GoodStore(store)
  BY InvariantParts
<1> QED BY <1>1, IdsGrow DEF SolverTypeOK

\* Adding an incompatibility of the provider's.
LEMMA AddIncompatibilityKeeps ==
    ASSUME Invariant, NEW incompat \in IncompatibilityType, WellFormed(incompat),
           \A w \in SelectionType :
               IsSolution(registry, w) => ~SelectionSatisfies(incompat.terms, w),
           AddIncompatibility(incompat)
    PROVE  /\ GoodStore(store') /\ StoreExtends(store, store') /\ Sound(store', registry)
           /\ incompatibilities' \in [Packages -> Seq(Ids')]
           /\ mergedDependencies' \in [Packages \X Packages -> Seq(Ids')]
<1> DEFINE s == Append(store, incompat)
           id == Len(store) + 1
<1>1. GoodStore(store) /\ Sound(store, registry)
  BY InvariantParts
<1>2. GoodStore(s) /\ StoreExtends(store, s) /\ Sound(s, registry) /\ id \in 1 .. Len(s)
  BY <1>1, AppendKeeps
<1>3. MergeIncompatibility(s, id)
  BY DEF AddIncompatibility
<1> HIDE DEF s, id
<1> QED BY <1>2, <1>3, MergeKeeps

\* choose_version found no version, or one that is unavailable.
LEMMA ChooseRefusedStep ==
    ASSUME Invariant, ChooseNone \/ ChooseUnavailable
    PROVE  Invariant'
<1>1. /\ pc = "choose" /\ pc' = "loop" /\ UNCHANGED psVars /\ UNCHANGED <<contradicted, buffer>>
      /\ UNCHANGED <<registry, next, scan, conflict, conflictChanged, chosen, pending, fresh,
                     solution>>
  BY DEF ChooseNone, ChooseUnavailable
<1>2. /\ next \in Packages /\ CurrentRange \in SUBSET Versions
      /\ VersionChoices \subseteq Versions /\ registry \in RegistryType
  BY <1>1, ChoiceMade
<1>3. /\ GoodStore(store') /\ StoreExtends(store, store') /\ Sound(store', registry)
      /\ incompatibilities' \in [Packages -> Seq(Ids')]
      /\ mergedDependencies' \in [Packages \X Packages -> Seq(Ids')]
      /\ addedDependencies' \subseteq Packages \X Versions
  <2>1. addedDependencies \subseteq Packages \X Versions
    BY InvariantParts DEF SolverTypeOK
  <2>2. CASE ChooseNone
    <3> DEFINE t == Positive(CurrentRange)
               incompat == NoVersions(next, t)
    <3>1. t \in TermType /\ t # AnyTerm
      BY <1>2 DEF TermType, Positive, AnyTerm, Negative
    <3>2. incompat.terms = {<<next, t>>} /\ incompat = External({<<next, t>>}, "no_versions")
      BY DEF NoVersions, External
    <3>3. \A w \in SelectionType :
              IsSolution(registry, w) => ~SelectionSatisfies({<<next, t>>}, w)
      BY <1>2, <2>2, NoVersionsExcludes DEF ChooseNone, VersionChoices
    <3>4. AddIncompatibility(incompat) /\ addedDependencies' = addedDependencies
      BY <2>2 DEF ChooseNone
    <3>5. "no_versions" \in Kinds \ {"dependency"}
      BY DEF Kinds
    <3> HIDE DEF t, incompat
    <3>6. incompat \in IncompatibilityType /\ WellFormed(incompat)
      BY <1>2, <3>1, <3>2, <3>5, ExternalWellFormed
    <3> QED BY <2>1, <3>2, <3>3, <3>4, <3>6, AddIncompatibilityKeeps
  <2>3. CASE ChooseUnavailable
    <3>1. PICK v \in VersionChoices :
              /\ registry[next][v].status = "unavailable"
              /\ AddIncompatibility(CustomVersion(next, v))
              /\ addedDependencies' = addedDependencies \cup {<<next, v>>}
      BY <2>3 DEF ChooseUnavailable
    <3> DEFINE t == Exact(v)
               incompat == CustomVersion(next, v)
    <3>2. t \in TermType /\ t # AnyTerm /\ v \in Versions
      BY <1>2 DEF TermType, Exact, Positive, AnyTerm, Negative
    <3>3. incompat.terms = {<<next, t>>} /\ incompat = External({<<next, t>>}, "custom")
      BY DEF CustomVersion, External
    <3>4. \A w \in SelectionType :
              IsSolution(registry, w) => ~SelectionSatisfies({<<next, t>>}, w)
      BY <1>2, <3>1, <3>2, UnavailableExcludes
    <3>5. "custom" \in Kinds \ {"dependency"}
      BY DEF Kinds
    <3>6. AddIncompatibility(incompat)
      BY <3>1
    <3> HIDE DEF t, incompat
    <3>7. incompat \in IncompatibilityType /\ WellFormed(incompat)
      BY <1>2, <3>2, <3>3, <3>5, ExternalWellFormed
    <3>8. addedDependencies' \subseteq Packages \X Versions
      BY <1>2, <2>1, <3>1, <3>2
    <3> QED BY <3>3, <3>4, <3>6, <3>7, <3>8, AddIncompatibilityKeeps
  <2> QED BY <2>2, <2>3, <1>1
<1>4. PSTypeOK' /\ CoreTypeOK' /\ StoreWellFormed' /\ StoreValid' /\ HistoriesWellFormed'
  BY <1>1, <1>3, GrowStep
<1>5. SolverTypeOK'
  <2>1. SolverTypeOK
    BY InvariantParts
  <2>2. /\ scan \in Seq(Ids') /\ conflict \in Ids'
        /\ pending \in Seq(Ids') /\ fresh \in Seq(Ids')
    BY <1>3, HeldIds
  <2> QED BY <1>1, <1>3, <2>1, <2>2 DEF SolverTypeOK, PC
<1>6. ConflictResolvable' /\ RootCauseReady' /\ ChoiceReady'
  BY <1>1 DEF ConflictResolvable, RootCauseReady, ChoiceReady
<1> QED BY <1>4, <1>5, <1>6 DEF Invariant, TypeOK

\* The dependencies of a version that is available.
LEMMA DependencyIncompatsKeep ==
    ASSUME NEW r \in RegistryType, NEW p \in Packages, NEW v \in Versions
    PROVE  LET deps == r[p][v].dependencies
               new  == DependencyIncompats(p, v, deps)
           IN  /\ new \in Seq(IncompatibilityType) /\ DOMAIN new = 1 .. Len(new)
               /\ Len(new) \in Nat
               /\ \A i \in 1 .. Len(new) :
                     /\ WellFormed(new[i])
                     /\ \A w \in SelectionType :
                           IsSolution(r, w) => ~SelectionSatisfies(new[i].terms, w)
<1> DEFINE deps == r[p][v].dependencies
           new == DependencyIncompats(p, v, deps)
<1>1. r[p][v] \in RegistryEntry
  BY DEF RegistryType
<1>2. deps \in Seq(Packages \X SUBSET Versions)
  BY <1>1 DEF RegistryEntry
<1>3. ASSUME NEW i \in DOMAIN deps
      PROVE  /\ new[i] \in IncompatibilityType /\ WellFormed(new[i])
             /\ \A w \in SelectionType : IsSolution(r, w) => ~SelectionSatisfies(new[i].terms, w)
  <2>1. /\ deps[i][1] \in Packages /\ deps[i][2] \in Ranges /\ {v} \in Ranges
        /\ new[i] = FromDependency(p, {v}, deps[i][1], deps[i][2])
    <3>1. deps[i] \in Packages \X SUBSET Versions
      BY <1>2
    <3> QED BY <3>1 DEF Ranges, DependencyIncompats
  <2>2. \E u \in Versions : {v} = {u}
    OBVIOUS
  <2> DEFINE q == deps[i][1]
             set == deps[i][2]
  <2>3. q \in Packages /\ set \in Ranges /\ new[i] = FromDependency(p, {v}, q, set)
    BY <2>1
  <2>4. \E j \in DOMAIN r[p][v].dependencies :
            r[p][v].dependencies[j][1] = q /\ r[p][v].dependencies[j][2] = set
    OBVIOUS
  <2> HIDE DEF q, set, new, deps
  <2>5. /\ FromDependency(p, {v}, q, set) \in IncompatibilityType
        /\ WellFormed(FromDependency(p, {v}, q, set))
    BY <2>1, <2>2, <2>3, FromDependencyWellFormed
  <2>6. \A w \in SelectionType :
            IsSolution(r, w) => ~SelectionSatisfies(FromDependency(p, {v}, q, set).terms, w)
    BY <2>3, <2>4, DependencyExcludes
  <2> QED BY <2>3, <2>5, <2>6
<1>4. new = [i \in DOMAIN deps |-> new[i]] /\ DOMAIN deps = 1 .. Len(deps) /\ Len(deps) \in Nat
  BY <1>2 DEF DependencyIncompats
<1> HIDE DEF new, deps
<1>5. new \in Seq(IncompatibilityType) /\ Len(new) = Len(deps)
  BY <1>3, <1>4
<1> QED BY <1>3, <1>4, <1>5 DEF new, deps

\* A version whose dependencies are asked for the first time.
LEMMA ChooseNewStep ==
    ASSUME Invariant, ChooseNew
    PROVE  Invariant'
<1>1. /\ pc = "choose" /\ pc' = "merge" /\ UNCHANGED psVars
      /\ UNCHANGED <<incompatibilities, contradicted, mergedDependencies, buffer>>
      /\ UNCHANGED <<registry, next, scan, conflict, conflictChanged, solution>>
  BY DEF ChooseNew
<1>2. next \in Packages /\ VersionChoices \subseteq Versions /\ registry \in RegistryType
  BY <1>1, ChoiceMade
<1>3. PICK v \in VersionChoices :
          LET new == DependencyIncompats(next, v, registry[next][v].dependencies)
              ids == AllocatedIds(new)
          IN  /\ store' = store \o new
              /\ addedDependencies' = addedDependencies \cup {<<next, v>>}
              /\ chosen' = v
              /\ fresh' = ids
              /\ pending' = ids
  BY DEF ChooseNew
<1> DEFINE new == DependencyIncompats(next, v, registry[next][v].dependencies)
<1>4. v \in Versions
  BY <1>2
<1>5. /\ store' = store \o new /\ addedDependencies' = addedDependencies \cup {<<next, v>>}
      /\ chosen' = v /\ fresh' = AllocatedIds(new) /\ pending' = AllocatedIds(new)
  BY <1>3
<1>6. /\ new \in Seq(IncompatibilityType) /\ DOMAIN new = 1 .. Len(new) /\ Len(new) \in Nat
      /\ \A i \in 1 .. Len(new) :
            /\ WellFormed(new[i])
            /\ \A w \in SelectionType :
                  IsSolution(registry, w) => ~SelectionSatisfies(new[i].terms, w)
  BY <1>2, <1>4, DependencyIncompatsKeep
<1> HIDE DEF new
<1>7. /\ SolverTypeOK /\ GoodStore(store) /\ Sound(store, registry)
      /\ ListsIn(incompatibilities, store) /\ MergedIn(mergedDependencies, store)
  BY InvariantParts
<1>8. /\ GoodStore(store') /\ StoreExtends(store, store') /\ Sound(store', registry)
      /\ Len(store') = Len(store) + Len(new)
  BY <1>5, <1>6, <1>7, ConcatKeeps
<1>9. /\ incompatibilities' \in [Packages -> Seq(Ids')]
      /\ mergedDependencies' \in [Packages \X Packages -> Seq(Ids')]
  <2>1. \A seq \in Seq(Ids) : seq \in Seq(Ids')
    BY <1>7, <1>8, IdsGrow
  <2> QED BY <1>1, <1>7, <2>1 DEF ListsIn, MergedIn, Ids
<1>10. PSTypeOK' /\ CoreTypeOK' /\ StoreWellFormed' /\ StoreValid' /\ HistoriesWellFormed'
  BY <1>1, <1>8, <1>9, GrowStep
<1>11. SolverTypeOK'
  <2>1. AllocatedIds(new) \in Seq(Ids')
    <3>1. Len(store) \in Nat
      BY <1>7 DEF GoodStore
    <3>2. \A i \in 1 .. Len(new) : Len(store) + i \in Ids'
      BY <1>6, <1>8, <3>1 DEF Ids
    <3> QED BY <1>6, <3>2 DEF AllocatedIds
  <2>2. scan \in Seq(Ids') /\ conflict \in Ids'
    BY <1>8, HeldIds
  <2>3. addedDependencies' \subseteq Packages \X Versions
    BY <1>2, <1>4, <1>5, <1>7 DEF SolverTypeOK
  <2> QED BY <1>1, <1>4, <1>5, <1>7, <2>1, <2>2, <2>3 DEF SolverTypeOK, PC, Selections
<1>12. ConflictResolvable' /\ RootCauseReady' /\ ChoiceReady'
  BY <1>1, <1>4, <1>5 DEF ConflictResolvable, RootCauseReady, ChoiceReady
<1> QED BY <1>10, <1>11, <1>12 DEF Invariant, TypeOK

\* Merging one of the dependencies of the chosen version.
LEMMA MergeDependencyStep ==
    ASSUME Invariant, MergeDependency
    PROVE  Invariant'
<1>1. /\ pc = "merge" /\ pending # << >> /\ MergeIncompatibility(store, Head(pending))
      /\ pending' = Tail(pending) /\ UNCHANGED psVars /\ UNCHANGED <<contradicted, buffer>>
      /\ UNCHANGED <<registry, pc, next, scan, conflict, conflictChanged, chosen, fresh,
                     addedDependencies, solution>>
  BY DEF MergeDependency
<1>2. SolverTypeOK /\ GoodStore(store) /\ Sound(store, registry)
  BY InvariantParts
<1>3. Head(pending) \in 1 .. Len(store)
  BY <1>1, <1>2 DEF SolverTypeOK, Ids
<1>4. StoreExtends(store, store)
  BY <1>2 DEF StoreExtends, GoodStore
<1>5. /\ GoodStore(store') /\ StoreExtends(store, store') /\ Sound(store', registry)
      /\ incompatibilities' \in [Packages -> Seq(Ids')]
      /\ mergedDependencies' \in [Packages \X Packages -> Seq(Ids')]
  BY <1>1, <1>2, <1>3, <1>4, MergeKeeps
<1>6. PSTypeOK' /\ CoreTypeOK' /\ StoreWellFormed' /\ StoreValid' /\ HistoriesWellFormed'
  BY <1>1, <1>5, GrowStep
<1>7. SolverTypeOK'
  <2>1. /\ scan \in Seq(Ids') /\ conflict \in Ids'
        /\ pending \in Seq(Ids') /\ fresh \in Seq(Ids')
    BY <1>5, HeldIds
  <2>2. Tail(pending) \in Seq(Ids')
    BY <1>1, <2>1
  <2> QED BY <1>1, <1>2, <2>1, <2>2 DEF SolverTypeOK
<1>8. ConflictResolvable' /\ RootCauseReady'
  BY <1>1 DEF ConflictResolvable, RootCauseReady
<1>9. ChoiceReady'
  BY <1>1 DEF Invariant, ChoiceReady
<1> QED BY <1>6, <1>7, <1>8, <1>9 DEF Invariant, TypeOK

\* Deciding on a version.
LEMMA DecideStep ==
    ASSUME Invariant, ChooseKnown \/ Accept
    PROVE  Invariant'
<1>1. /\ pc' = "loop" /\ UNCHANGED coreVars
      /\ UNCHANGED <<registry, next, scan, conflict, conflictChanged,
                     chosen, pending, fresh, addedDependencies, solution>>
  BY DEF ChooseKnown, Accept
<1>2. PICK v \in Versions : AddDecision(next, v)
  <2>1. CASE ChooseKnown
    <3>1. VersionChoices \subseteq Versions
      BY <2>1, ChoiceMade DEF ChooseKnown
    <3> QED BY <2>1, <3>1 DEF ChooseKnown
  <2>2. CASE Accept
    <3>1. chosen \in Versions
      BY <2>2 DEF Accept, Invariant, ChoiceReady
    <3> QED BY <2>2, <3>1 DEF Accept
  <2> QED BY <2>1, <2>2
<1>3. /\ PSTypeOK /\ CoreTypeOK /\ SolverTypeOK /\ PSWellFormed /\ CausesIn(store)
      /\ GoodStore(store) /\ Sound(store, registry)
  BY InvariantParts
<1>4. /\ PSTypeOK' /\ PSWellFormed'
      /\ \A s : CausesIn(s) =>
            \A q \in DOMAIN assignments' : CausesResolvable(q, assignments'[q], s)
  BY <1>2, <1>3, AddDecisionWellFormed
<1>5. UNCHANGED <<store, incompatibilities, contradicted, mergedDependencies, buffer>>
  BY <1>1 DEF coreVars
<1>6. GoodStore(store') /\ StoreExtends(store, store') /\ Sound(store', registry)
  BY <1>3, <1>5, StoreUnchanged
<1>7. StoreWellFormed' /\ StoreValid' /\ HistoriesWellFormed'
  <2>1. \A q \in DOMAIN assignments' : CausesResolvable(q, assignments'[q], store)
    BY <1>3, <1>4
  <2> QED BY <1>1, <1>3, <1>4, <1>6, <2>1, StoreAndHistories
<1>8. CoreTypeOK'
  BY <1>3, <1>5 DEF CoreTypeOK, Ids
<1>9. SolverTypeOK'
  <2>1. Ids' = Ids /\ pc' \in PC
    BY <1>1, <1>5 DEF Ids, PC
  <2> QED BY <1>1, <1>3, <2>1 DEF SolverTypeOK
<1>10. ConflictResolvable' /\ RootCauseReady' /\ ChoiceReady'
  BY <1>1 DEF ConflictResolvable, RootCauseReady, ChoiceReady
<1> QED BY <1>4, <1>7, <1>8, <1>9, <1>10 DEF Invariant, TypeOK

\* Picking a package, or finding that none is left.
LEMMA PickStep ==
    ASSUME Invariant, ReturnSolution \/ Pick
    PROVE  Invariant'
<1>1. /\ UNCHANGED coreVars
      /\ UNCHANGED <<registry, scan, conflict, conflictChanged,
                     chosen, pending, fresh, addedDependencies>>
  BY DEF ReturnSolution, Pick
<1>2. /\ PSTypeOK /\ CoreTypeOK /\ SolverTypeOK /\ PSWellFormed /\ CausesIn(store)
      /\ GoodStore(store) /\ Sound(store, registry)
  BY InvariantParts
<1>3. /\ PSTypeOK'
      /\ UNCHANGED <<nextGlobalIndex, currentDecisionLevel, assignments, position,
                     hasEverBacktracked>>
  <2>1. (\E p \in Packages : PickPackage(p)) \/ PickNone
    BY DEF ReturnSolution, Pick
  <2> QED BY <1>2, <2>1, PickWellFormed
<1>4. UNCHANGED <<store, incompatibilities, contradicted, mergedDependencies, buffer>>
  BY <1>1 DEF coreVars
<1>5. PSWellFormed'
  BY <1>2, <1>3 DEF PSWellFormed
<1>6. StoreWellFormed' /\ StoreValid' /\ HistoriesWellFormed'
  <2>1. \A q \in DOMAIN assignments' : CausesResolvable(q, assignments'[q], store)
    BY <1>2, <1>3 DEF CausesIn
  <2>2. GoodStore(store') /\ StoreExtends(store, store') /\ Sound(store', registry)
    BY <1>2, <1>4, StoreUnchanged
  <2> QED BY <1>1, <1>2, <1>5, <2>1, <2>2, StoreAndHistories
<1>7. CoreTypeOK'
  BY <1>2, <1>4 DEF CoreTypeOK, Ids
<1>8. Ids' = Ids
  BY <1>4 DEF Ids
<1>9. CASE ReturnSolution
  <2>1. pc' = "solution" /\ next' = next /\ solution' = ExtractSolution
    BY <1>9 DEF ReturnSolution
  <2>2. ExtractSolution \in SelectionType
    <3>1. ASSUME NEW p \in DOMAIN assignments
          PROVE  assignments[p].version \in Selections
      BY <1>2 DEF PSTypeOK, PackageAssignmentsType
    <3> QED BY <3>1 DEF ExtractSolution, SelectionType, Selections
  <2>3. SolverTypeOK'
    BY <1>1, <1>2, <1>8, <2>1, <2>2 DEF SolverTypeOK, PC, Done
  <2>4. ConflictResolvable' /\ RootCauseReady' /\ ChoiceReady'
    BY <2>1 DEF ConflictResolvable, RootCauseReady, ChoiceReady
  <2> QED BY <1>3, <1>6, <1>7, <2>3, <2>4 DEF Invariant, TypeOK
<1>10. CASE Pick
  <2>1. /\ pc' = "choose" /\ solution' = solution
        /\ next' \in Packages /\ next' \in DOMAIN assignments
    BY <1>10 DEF Pick, PickPackage, Potential
  <2>2. SolverTypeOK'
    BY <1>1, <1>2, <1>8, <2>1 DEF SolverTypeOK, PC
  <2>3. ConflictResolvable' /\ RootCauseReady' /\ ChoiceReady'
    BY <1>3, <2>1 DEF ConflictResolvable, RootCauseReady, ChoiceReady
  <2> QED BY <1>3, <1>6, <1>7, <2>2, <2>3 DEF Invariant, TypeOK
<1> QED BY <1>9, <1>10

\* Nothing happens.
LEMMA StutterStep ==
    ASSUME Invariant, UNCHANGED vars
    PROVE  Invariant'
<1>1. /\ UNCHANGED psVars /\ UNCHANGED coreVars /\ UNCHANGED solverVars
  BY DEF vars
<1>2. PSTypeOK' /\ StoreWellFormed' /\ StoreValid' /\ HistoriesWellFormed'
  BY <1>1, QuietStep DEF coreVars, solverVars
<1>3. CoreTypeOK' /\ SolverTypeOK'
  <2>1. CoreTypeOK /\ SolverTypeOK
    BY InvariantParts
  <2> QED BY <1>1, <2>1 DEF CoreTypeOK, SolverTypeOK, Ids, coreVars, solverVars
<1>4. ConflictResolvable'
  BY <1>1 DEF Invariant, ConflictResolvable, coreVars, solverVars
<1>5. RootCauseReady'
  BY <1>1 DEF Invariant, RootCauseReady, RootCauseLeavesChoice, psVars, coreVars, solverVars
<1>6. ChoiceReady'
  BY <1>1 DEF Invariant, ChoiceReady, psVars, solverVars
<1> QED BY <1>2, <1>3, <1>4, <1>5, <1>6 DEF Invariant, TypeOK

-----------------------------------------------------------------------------
(* The theorems *)

\* State::init and the start of `resolve': the store has the one
\* incompatibility that asks for the root.
LEMMA InitInvariant == Init => Invariant
<1> SUFFICES ASSUME Init PROVE Invariant
  OBVIOUS
<1> DEFINE t == Negative({RootVersion})
<1>1. /\ NotRoot.terms = {<<RootPackage, t>>}
      /\ NotRoot = External({<<RootPackage, t>>}, "not_root")
  BY DEF NotRoot, External
<1>2. t \in TermType /\ t # AnyTerm /\ "not_root" \in Kinds \ {"dependency"}
  BY RootAssumption DEF TermType, AnyTerm, Negative, Kinds
<1>3. NotRoot \in IncompatibilityType /\ WellFormed(NotRoot)
  BY <1>1, <1>2, RootAssumption, ExternalWellFormed
<1>4. /\ store = <<NotRoot>> /\ Len(store) = 1 /\ store[1] = NotRoot
      /\ Ids = {1}
  BY DEF Init, CoreInit, Ids
<1>5. PSTypeOK
  <2>1. /\ nextGlobalIndex = 0 /\ currentDecisionLevel = 0 /\ assignments = << >>
        /\ position = << >> /\ prioritized = << >> /\ outdated = {}
        /\ hasEverBacktracked = FALSE
    BY DEF Init, PSInit
  <2>2. DOMAIN << >> = {} /\ << >> = [x \in {} |-> x]
    OBVIOUS
  <2> QED BY <2>1, <2>2 DEF PSTypeOK
<1>6. CoreTypeOK
  <2>1. /\ incompatibilities = [p \in Packages |-> IF p = RootPackage THEN <<1>> ELSE << >>]
        /\ contradicted = << >>
        /\ mergedDependencies = [pair \in Packages \X Packages |-> << >>]
        /\ buffer = << >>
    BY DEF Init, CoreInit
  <2>2. store \in Seq(IncompatibilityType)
    BY <1>3, <1>4
  <2>3. << >> \in Seq(Ids) /\ <<1>> \in Seq(Ids) /\ << >> \in Seq(Packages)
    BY <1>4
  <2>4. DOMAIN contradicted = {} /\ contradicted \in [{} -> Nat]
    BY <2>1
  <2>5. incompatibilities \in [Packages -> Seq(Ids)]
    BY <2>1, <2>3
  <2>6. mergedDependencies \in [Packages \X Packages -> Seq(Ids)]
    BY <2>1, <2>3
  <2> QED BY <2>1, <2>2, <2>3, <2>4, <2>5, <2>6 DEF CoreTypeOK
<1>7. SolverTypeOK
  <2>1. /\ registry \in Registries /\ pc = "loop" /\ next = RootPackage
        /\ scan = << >> /\ conflict = 1 /\ conflictChanged = FALSE /\ chosen = NoVersion
        /\ pending = << >> /\ fresh = << >> /\ addedDependencies = {}
        /\ solution = [p \in Packages |-> NoVersion]
    BY DEF Init
  <2>2. << >> \in Seq(Ids) /\ conflict \in Ids
    BY <1>4, <2>1
  <2>3. solution \in SelectionType /\ chosen \in Selections
    BY <2>1 DEF SelectionType, Selections
  <2> QED BY <2>1, <2>2, <2>3, RootAssumption DEF SolverTypeOK, PC
<1>8. StoreWellFormed
  BY <1>3, <1>4 DEF StoreWellFormed
<1>9. StoreValid
  <2>1. ASSUME NEW w \in SelectionType, IsSolution(registry, w)
        PROVE  ~SelectionSatisfies(NotRoot.terms, w)
    <3>1. w[RootPackage] = RootVersion
      BY <2>1 DEF IsSolution
    <3>2. ~TermContains(t, w[RootPackage])
      BY <3>1 DEF TermContains, Negative
    <3> QED BY <1>1, <3>2 DEF SelectionSatisfies
  <2> QED BY <1>4, <2>1 DEF StoreValid
<1>10. HistoriesWellFormed
  <2>1. DOMAIN assignments = {}
    BY DEF Init, PSInit
  <2> QED BY <2>1 DEF HistoriesWellFormed
<1>11. ConflictResolvable /\ RootCauseReady /\ ChoiceReady
  BY DEF Init, ConflictResolvable, RootCauseReady, ChoiceReady
<1> QED BY <1>5, <1>6, <1>7, <1>8, <1>9, <1>10, <1>11 DEF Invariant, TypeOK

\* Every step keeps the invariant.
LEMMA NextInvariant == Invariant /\ [Next]_vars => Invariant'
<1> SUFFICES ASSUME Invariant, [Next]_vars PROVE Invariant'
  OBVIOUS
<1>1. CASE \/ Cancel \/ StartPropagation \/ PopPackage \/ EndPropagation
           \/ SkipContradicted \/ EndScan \/ FailTerminal \/ ProviderError
           \/ EndMerge \/ Reject
  BY <1>1, MoveStep
<1>2. CASE ScanConflict
  BY <1>2, ScanConflictStep
<1>3. CASE ScanAlmostSatisfied
  BY <1>3, ScanAlmostSatisfiedStep
<1>4. CASE ScanContradicted \/ ScanInconclusive
  BY <1>4, ScanOtherStep
<1>5. CASE ResolveConflict
  BY <1>5, ResolveConflictStep
<1>6. CASE BacktrackFromConflict
  BY <1>6, BacktrackFromConflictStep
<1>7. CASE Learn
  BY <1>7, LearnStep
<1>8. CASE ReturnSolution \/ Pick
  BY <1>8, PickStep
<1>9. CASE ChooseNone \/ ChooseUnavailable
  BY <1>9, ChooseRefusedStep
<1>10. CASE ChooseNew
  BY <1>10, ChooseNewStep
<1>11. CASE ChooseKnown \/ Accept
  BY <1>11, DecideStep
<1>12. CASE MergeDependency
  BY <1>12, MergeDependencyStep
<1>13. CASE Terminated \/ UNCHANGED vars
  BY <1>13, StutterStep DEF Terminated
<1> QED BY <1>1, <1>2, <1>3, <1>4, <1>5, <1>6, <1>7, <1>8, <1>9, <1>10, <1>11, <1>12, <1>13
        DEF Next

\* Whatever packages, versions, dependencies and answers of the provider, the
\* invariant always holds.
THEOREM AlwaysInvariant == Spec => []Invariant
<1>1. Init => Invariant
  BY InitInvariant
<1>2. Invariant /\ [Next]_vars => Invariant'
  BY NextInvariant
<1> QED BY <1>1, <1>2, PTL DEF Spec

\* Every variable keeps its type: ids are ids of the store, the histories hold
\* dated derivations of terms, and so on.
THEOREM TypeCorrect == Spec => []TypeOK
<1>1. Invariant => TypeOK
  BY DEF Invariant
<1> QED BY <1>1, AlwaysInvariant, PTL

\* No incompatibility in the store excludes a solution, be it the provider's,
\* merged, or the outcome of any number of resolution steps.
THEOREM StoreAlwaysValid == Spec => []StoreValid
<1>1. Invariant => StoreValid
  BY DEF Invariant
<1> QED BY <1>1, AlwaysInvariant, PTL

\* A terminal incompatibility (is_terminal) leaves no solution.
LEMMA TerminalExcludesAll ==
    ASSUME Invariant, IsTerminal(store[conflict].terms),
           NEW w \in SelectionType
    PROVE  ~IsSolution(registry, w)
<1>1. SUFFICES ASSUME IsSolution(registry, w) PROVE FALSE
  OBVIOUS
<1>2. ~SelectionSatisfies(store[conflict].terms, w)
  <2>1. conflict \in Ids
    BY InvariantParts DEF SolverTypeOK
  <2> QED BY <1>1, <2>1 DEF Invariant, StoreValid
<1>3. CASE store[conflict].terms = {}
  BY <1>2, <1>3 DEF SelectionSatisfies
<1>4. ASSUME NEW x \in store[conflict].terms, store[conflict].terms = {x},
             x[1] = RootPackage, TermContains(x[2], RootVersion)
      PROVE  FALSE
  <2>1. w[RootPackage] = RootVersion
    BY <1>1 DEF IsSolution
  <2> QED BY <1>2, <1>4, <2>1 DEF SelectionSatisfies
<1> QED BY <1>3, <1>4 DEF IsTerminal

\* When `resolve' answers NoSolution, there is none.
THEOREM NoSolutionAlwaysSound == Spec => []NoSolutionSound
<1>1. Init => NoSolutionSound
  BY DEF Init, NoSolutionSound
<1>2. Invariant /\ NoSolutionSound /\ [Next]_vars => NoSolutionSound'
  <2> SUFFICES ASSUME Invariant, NoSolutionSound, [Next]_vars, pc' = "no_solution"
               PROVE  \A w \in SelectionType : ~IsSolution(registry', w)
    BY DEF NoSolutionSound
  <2>1. \/ FailTerminal
        \/ Terminated
        \/ UNCHANGED vars
    BY DEF Next, Cancel, StartPropagation, PopPackage, EndPropagation, SkipContradicted,
           ScanConflict, ScanAlmostSatisfied, ScanContradicted, ScanInconclusive, EndScan,
           ResolveConflict, BacktrackFromConflict, Learn, ReturnSolution, Pick,
           ProviderError, ChooseNone, ChooseUnavailable, ChooseNew, ChooseKnown,
           MergeDependency, EndMerge, Accept, Reject, Scanning, Resolving
  <2>2. CASE FailTerminal
    <3>1. IsTerminal(store[conflict].terms) /\ registry' = registry
      BY <2>2 DEF FailTerminal
    <3> QED BY <3>1, TerminalExcludesAll
  <2>3. CASE Terminated \/ UNCHANGED vars
    <3>1. pc' = pc /\ registry' = registry
      BY <2>3 DEF Terminated, vars, solverVars
    <3> QED BY <3>1 DEF NoSolutionSound
  <2> QED BY <2>1, <2>2, <2>3
<1> QED BY <1>1, <1>2, AlwaysInvariant, PTL DEF Spec

-----------------------------------------------------------------------------
(* The derivations *)

\* DerivationsFollow, of any store.
FollowsIn(s, id) ==
    /\ s[id].causes \in (1 .. id - 1) \X (1 .. id - 1)
    /\ \A w \in SelectionType : SelectionSatisfies(s[id].terms, w) =>
          \E k \in {1, 2} : SelectionSatisfies(s[s[id].causes[k]].terms, w)

DerivationIn(s, id) ==
    IF s[id].kind = "derived" THEN FollowsIn(s, id) ELSE s[id].causes = << >>

DerivationsIn(s) == \A id \in 1 .. Len(s) : DerivationIn(s, id)

\* The two say the same of the store.
LEMMA DerivationsInStore == DerivationsFollow <=> DerivationsIn(store)
BY DEF DerivationsFollow, FollowsFromCauses, DerivationsIn, DerivationIn, FollowsIn, Ids

\* What was derived still follows when the store grows.
LEMMA DerivationsKept ==
    ASSUME NEW s, NEW t, Len(s) \in Nat, Len(t) \in Nat, StoreExtends(s, t),
           DerivationsIn(s),
           \A id \in 1 .. Len(t) : id > Len(s) => DerivationIn(t, id)
    PROVE  DerivationsIn(t)
<1>1. ASSUME NEW id \in 1 .. Len(s)
      PROVE  DerivationIn(t, id)
  <2>1. t[id] = s[id] /\ DerivationIn(s, id)
    BY DEF StoreExtends, DerivationsIn
  <2>2. CASE s[id].kind # "derived"
    BY <2>1, <2>2 DEF DerivationIn
  <2>3. CASE s[id].kind = "derived"
    <3> DEFINE c == s[id].causes
    <3>1. c \in (1 .. id - 1) \X (1 .. id - 1) /\ FollowsIn(s, id)
      BY <2>1, <2>3 DEF DerivationIn, FollowsIn
    <3>2. \A k \in {1, 2} : c[k] \in 1 .. Len(s)
      BY <3>1
    <3>3. \A k \in {1, 2} : t[c[k]] = s[c[k]]
      BY <3>2 DEF StoreExtends
    <3> QED BY <2>1, <2>3, <3>1, <3>3 DEF DerivationIn, FollowsIn
  <2> QED BY <2>2, <2>3
<1> QED BY <1>1 DEF DerivationsIn

\* Nothing is derived by merging dependencies.
LEMMA MergeDerivesNothing ==
    ASSUME NEW s, GoodStore(s), NEW id \in 1 .. Len(s), MergedIn(mergedDependencies, s),
           MergeIncompatibility(s, id), DerivationsIn(s)
    PROVE  DerivationsIn(store')
<1>1. s \in Seq(IncompatibilityType) /\ Len(s) \in Nat
  BY DEF GoodStore
<1>2. CASE Keep(s, id)
  BY <1>2 DEF Keep
<1>3. ASSUME NEW k \in DOMAIN PastDependencies(s, id),
             MergesWith(s, id, PastDependencies(s, id), k), ReplacePast(s, id, k)
      PROVE  DerivationsIn(store')
  <2> DEFINE past == mergedDependencies[s[id].dependency][k]
             merged == Merged(s[id], s[past])
  <2>1. CanMerge(s[id], s[PastDependencies(s, id)[k]])
    BY <1>3 DEF MergesWith
  <2>2. s[id].kind = "dependency" /\ s[id].causes = << >> /\ s[id] \in IncompatibilityType
    BY <1>1, <2>1 DEF CanMerge, DerivationsIn, DerivationIn
  <2>3. merged.kind = "dependency" /\ merged.causes = << >>
    BY <2>2 DEF Merged, IncompatibilityType
  <2>4. store' = Append(s, merged)
    BY <1>3 DEF ReplacePast
  <2> HIDE DEF merged
  <2>5. /\ Len(store') = Len(s) + 1 /\ store'[Len(s) + 1] = merged
        /\ StoreExtends(s, store')
    BY <1>1, <2>4 DEF StoreExtends
  <2>6. \A i \in 1 .. Len(store') : i > Len(s) => DerivationIn(store', i)
    BY <1>1, <2>3, <2>5 DEF DerivationIn
  <2> QED BY <1>1, <2>5, <2>6, DerivationsKept
<1> QED BY <1>2, <1>3 DEF MergeIncompatibility

\* Nor by adding what the provider says.
LEMMA AddDerivesNothing ==
    ASSUME Invariant, DerivationsIn(store),
           NEW incompat \in IncompatibilityType, WellFormed(incompat),
           incompat.kind # "derived", incompat.causes = << >>,
           AddIncompatibility(incompat)
    PROVE  DerivationsIn(store')
<1> DEFINE s == Append(store, incompat)
           id == Len(store) + 1
<1>1. GoodStore(store) /\ MergedIn(mergedDependencies, store)
  BY InvariantParts
<1>2. store \in Seq(IncompatibilityType) /\ Len(store) \in Nat
  BY <1>1 DEF GoodStore
<1>3. /\ Len(s) = Len(store) + 1 /\ s[Len(store) + 1] = incompat
      /\ \A i \in 1 .. Len(store) : s[i] = store[i]
      /\ s \in Seq(IncompatibilityType)
  BY <1>2
<1>4. MergeIncompatibility(s, id)
  BY DEF AddIncompatibility
<1> HIDE DEF s
<1>5. GoodStore(s) /\ StoreExtends(store, s) /\ id \in 1 .. Len(s)
  BY <1>1, <1>2, <1>3 DEF GoodStore, StoreExtends
<1>6. MergedIn(mergedDependencies, s)
  <2>1. 1 .. Len(store) \subseteq 1 .. Len(s)
    BY <1>2, <1>3
  <2> QED BY <1>1, <2>1, SeqMonotonic DEF MergedIn
<1>7. \A i \in 1 .. Len(s) : i > Len(store) => DerivationIn(s, i)
  BY <1>2, <1>3 DEF DerivationIn
<1>8. DerivationsIn(s)
  BY <1>2, <1>3, <1>5, <1>7, DerivationsKept
<1> QED BY <1>4, <1>5, <1>6, <1>8, MergeDerivesNothing

\* choose_version found no version, or one that is unavailable.
LEMMA ChooseRefusedDerivesNothing ==
    ASSUME Invariant, DerivationsIn(store), ChooseNone \/ ChooseUnavailable
    PROVE  DerivationsIn(store')
<1>1. /\ next \in Packages /\ CurrentRange \in SUBSET Versions
      /\ VersionChoices \subseteq Versions
  BY ChoiceMade DEF ChooseNone, ChooseUnavailable
<1>2. PICK t \in TermType \ {AnyTerm}, kind \in {"no_versions", "custom"} :
          AddIncompatibility(External({<<next, t>>}, kind))
  <2>1. CASE ChooseNone
    <3>1. Positive(CurrentRange) \in TermType \ {AnyTerm}
      BY <1>1 DEF TermType, Positive, AnyTerm, Negative
    <3> QED BY <2>1, <3>1 DEF ChooseNone, NoVersions
  <2>2. CASE ChooseUnavailable
    <3>1. PICK v \in VersionChoices : AddIncompatibility(CustomVersion(next, v))
      BY <2>2 DEF ChooseUnavailable
    <3>2. Exact(v) \in TermType \ {AnyTerm}
      BY <1>1 DEF TermType, Exact, Positive, AnyTerm, Negative
    <3> QED BY <3>1, <3>2 DEF CustomVersion
  <2> QED BY <2>1, <2>2
<1> DEFINE incompat == External({<<next, t>>}, kind)
<1>3. incompat.kind # "derived" /\ incompat.causes = << >>
  BY <1>2 DEF External
<1>4. kind \in Kinds \ {"dependency"}
  BY <1>2 DEF Kinds
<1>5. incompat \in IncompatibilityType /\ WellFormed(incompat)
  BY <1>1, <1>2, <1>4, ExternalWellFormed
<1> QED BY <1>2, <1>3, <1>5, AddDerivesNothing

\* A version whose dependencies are asked for the first time.
LEMMA ChooseNewDerivesNothing ==
    ASSUME Invariant, DerivationsIn(store), ChooseNew
    PROVE  DerivationsIn(store')
<1>1. PICK v \in VersionChoices :
          store' = store \o DependencyIncompats(next, v, registry[next][v].dependencies)
  BY DEF ChooseNew
<1> DEFINE new == DependencyIncompats(next, v, registry[next][v].dependencies)
<1>2. v \in Versions /\ next \in Packages /\ registry \in RegistryType
  BY ChoiceMade DEF ChooseNew
<1>3. GoodStore(store)
  BY InvariantParts
<1>4. new \in Seq(IncompatibilityType) /\ DOMAIN new = 1 .. Len(new) /\ Len(new) \in Nat
  BY <1>2, DependencyIncompatsKeep
<1>5. \A i \in DOMAIN new : new[i].kind = "dependency" /\ new[i].causes = << >>
  BY DEF DependencyIncompats, FromDependency
<1> HIDE DEF new
<1>6. store \in Seq(IncompatibilityType) /\ Len(store) \in Nat /\ store' = store \o new
  BY <1>1, <1>3 DEF GoodStore, new
<1>7. Len(store') = Len(store) + Len(new) /\ StoreExtends(store, store')
  BY <1>4, <1>6 DEF StoreExtends
<1>8. ASSUME NEW i \in 1 .. Len(store'), i > Len(store)
      PROVE  DerivationIn(store', i)
  <2>1. i \in Nat /\ i - Len(store) \in 1 .. Len(new) /\ i \in 1 .. Len(store) + Len(new)
    BY <1>4, <1>6, <1>7, <1>8
  <2>2. (store \o new)[i] = new[i - Len(store)]
    BY <1>4, <1>6, <1>8, <2>1, ConcatProperties
  <2>3. i - Len(store) \in DOMAIN new
    BY <1>4, <2>1
  <2>4. store'[i] = new[i - Len(store)]
    BY <1>6, <2>2
  <2>5. store'[i].kind = "dependency" /\ store'[i].causes = << >>
    BY <1>5, <2>3, <2>4
  <2> QED BY <2>5 DEF DerivationIn
<1>9. Len(store) \in Nat /\ Len(store') \in Nat /\ StoreExtends(store, store')
  BY <1>4, <1>6, <1>7
<1>10. \A i \in 1 .. Len(store') : i > Len(store) => DerivationIn(store', i)
  BY <1>8
<1> QED BY <1>9, <1>10, DerivationsKept

\* The resolvent follows from the two it is made from.
LEMMA ResolveDerives ==
    ASSUME Invariant, DerivationsIn(store), ResolveConflict
    PROVE  DerivationsIn(store')
<1>1. /\ PSTypeOK /\ CausesIn(store) /\ GoodStore(store) /\ conflict \in Ids
      /\ pc = "conflict" /\ ResolveWithCause(conflict)
  BY InvariantParts DEF SolverTypeOK, ResolveConflict, Resolving
<1>2. HasSatisfiers(store[conflict].terms)
  BY <1>1 DEF ResolveWithCause
<1>3. PICK s \in SatisfiedMap(store[conflict].terms) :
          /\ s.cause # NoCause
          /\ store' = Append(store, PriorCause(store, conflict, s.cause, s.package))
  BY <1>1 DEF ResolveWithCause
<1> DEFINE p == s.package
           cause == s.cause
           terms1 == store[conflict].terms
           terms2 == store[cause].terms
           new == PriorCause(store, conflict, cause, p)
<1>4. p \in IncompatPackages(terms1)
  BY <1>1, <1>2, <1>3, SatisfiedMapMeaning
<1>5. cause \in Ids /\ p \in IncompatPackages(terms2) /\ Resolvable(terms2)
  BY <1>1, <1>2, <1>3, SatisfierCause
<1>6. Resolvable(terms1)
  BY <1>1 DEF Invariant, ConflictResolvable
<1>7. terms1 \in TermsType /\ terms2 \in TermsType
  BY <1>1, <1>5, StoreEntry
<1>8. /\ new.terms = PriorCauseTerms(terms1, terms2, p) /\ new.kind = "derived"
      /\ new.causes = <<conflict, cause>>
  BY DEF PriorCause
<1>9. store' = Append(store, new)
  BY <1>3
<1> HIDE DEF p, cause, new
<1>10. store \in Seq(IncompatibilityType) /\ Len(store) \in Nat
  BY <1>1 DEF GoodStore
<1>11. /\ Len(store') = Len(store) + 1 /\ store'[Len(store) + 1] = new
       /\ \A id \in 1 .. Len(store) : store'[id] = store[id]
  BY <1>9, <1>10
<1>12. StoreExtends(store, store')
  BY <1>10, <1>11 DEF StoreExtends
<1>13. conflict \in 1 .. Len(store) /\ cause \in 1 .. Len(store)
  BY <1>1, <1>5 DEF Ids
<1>14. store'[conflict].terms = terms1 /\ store'[cause].terms = terms2
  BY <1>11, <1>13
<1> HIDE DEF terms1, terms2
<1>15. ASSUME NEW w \in SelectionType, SelectionSatisfies(new.terms, w)
       PROVE  SelectionSatisfies(terms1, w) \/ SelectionSatisfies(terms2, w)
  BY <1>4, <1>5, <1>6, <1>7, <1>8, <1>15, PriorCauseSound
<1>16. FollowsIn(store', Len(store) + 1)
  <2>1. new.causes \in (1 .. Len(store)) \X (1 .. Len(store))
        /\ new.causes[1] = conflict /\ new.causes[2] = cause
    BY <1>8, <1>13
  <2>2. new.causes \in (1 .. (Len(store) + 1) - 1) \X (1 .. (Len(store) + 1) - 1)
    BY <1>10, <2>1
  <2> QED BY <1>11, <1>14, <1>15, <2>1, <2>2 DEF FollowsIn
<1>17. \A id \in 1 .. Len(store') : id > Len(store) => DerivationIn(store', id)
  <2>1. DerivationIn(store', Len(store) + 1)
    BY <1>8, <1>11, <1>16 DEF DerivationIn
  <2> QED BY <1>10, <1>11, <2>1
<1> QED BY <1>10, <1>11, <1>12, <1>17, DerivationsKept

\* Every derived incompatibility in the store follows from its two causes, and
\* they are older: the store is a proof, whatever `resolve' was asked.
THEOREM DerivationsAlwaysFollow == Spec => []DerivationsFollow
<1>1. Init => DerivationsFollow
  BY DEF Init, CoreInit, DerivationsFollow, Ids, NotRoot, External
<1>2. Invariant /\ DerivationsFollow /\ [Next]_vars => DerivationsFollow'
  <2> SUFFICES ASSUME Invariant, DerivationsFollow, [Next]_vars
               PROVE  DerivationsFollow'
    OBVIOUS
  <2>1. DerivationsIn(store)
    BY DerivationsInStore
  <2>2. ASSUME store' = store
        PROVE  DerivationsFollow'
    BY <2>2 DEF DerivationsFollow, FollowsFromCauses, Ids
  <2>3. ASSUME DerivationsIn(store')
        PROVE  DerivationsFollow'
    BY <2>3 DEF DerivationsFollow, FollowsFromCauses, DerivationsIn, DerivationIn, FollowsIn, Ids
  <2>4. CASE ResolveConflict
    BY <2>1, <2>3, <2>4, ResolveDerives
  <2>5. CASE ChooseNone \/ ChooseUnavailable
    BY <2>1, <2>3, <2>5, ChooseRefusedDerivesNothing
  <2>6. CASE ChooseNew
    BY <2>1, <2>3, <2>6, ChooseNewDerivesNothing
  <2>7. CASE MergeDependency
    <3>1. /\ MergeIncompatibility(store, Head(pending)) /\ pending # << >>
          /\ pending \in Seq(Ids) /\ GoodStore(store)
          /\ MergedIn(mergedDependencies, store)
      BY <2>7, InvariantParts DEF MergeDependency, SolverTypeOK
    <3>2. Head(pending) \in 1 .. Len(store)
      BY <3>1 DEF Ids
    <3> QED BY <2>1, <2>3, <3>1, <3>2, MergeDerivesNothing
  <2>8. CASE BacktrackFromConflict
    <3>1. CASE ~conflictChanged
      BY <2>2, <2>8, <3>1 DEF BacktrackFromConflict, BacktrackFrom
    <3>2. CASE conflictChanged
      <4>1. MergeIncompatibility(store, conflict)
        BY <2>8, <3>2 DEF BacktrackFromConflict, BacktrackFrom
      <4>2. /\ conflict \in 1 .. Len(store) /\ GoodStore(store)
            /\ MergedIn(mergedDependencies, store)
        BY InvariantParts DEF SolverTypeOK, Ids
      <4> QED BY <2>1, <2>3, <4>1, <4>2, MergeDerivesNothing
    <3> QED BY <3>1, <3>2
  <2>9. CASE \/ Cancel \/ StartPropagation \/ PopPackage \/ EndPropagation
             \/ SkipContradicted \/ ScanConflict \/ ScanContradicted \/ ScanInconclusive
             \/ EndScan \/ FailTerminal \/ ReturnSolution \/ Pick \/ ProviderError
             \/ ChooseKnown \/ EndMerge \/ Accept \/ Reject \/ Terminated
             \/ UNCHANGED vars
    <3>1. store' = store
      BY <2>9 DEF Cancel, StartPropagation, PopPackage, EndPropagation, SkipContradicted,
             ScanConflict, ScanContradicted, FindContradicted, ScanInconclusive,
             FindInconclusive, EndScan, FailTerminal, ReturnSolution, Pick, ProviderError,
             ChooseKnown, EndMerge, Accept, Reject, Terminated, vars, coreVars
    <3> QED BY <2>2, <3>1
  <2>10. CASE ScanAlmostSatisfied
    BY <2>2, <2>10 DEF ScanAlmostSatisfied, PropagateAlmostSatisfied
  <2>11. CASE Learn
    BY <2>2, <2>11 DEF Learn, LearnRootCause
  <2> QED BY <2>4, <2>5, <2>6, <2>7, <2>8, <2>9, <2>10, <2>11 DEF Next
<1> QED BY <1>1, <1>2, AlwaysInvariant, PTL DEF Spec

-----------------------------------------------------------------------------
(* Terms *)

\* A term says no less than itself, and an intersection no less than its parts.
LEMMA SubsetOfIntersection ==
    ASSUME NEW t \in TermType, NEW u \in TermType
    PROVE  SubsetOf(t, t) /\ SubsetOf(Intersection(t, u), t)
BY SubsetOfMeaning, IntersectionMeaning, TermsClosed

\* What says more than something that says more says more.
LEMMA SubsetOfTransitive ==
    ASSUME NEW t \in TermType, NEW u \in TermType, NEW w \in TermType,
           SubsetOf(t, u), SubsetOf(u, w)
    PROVE  SubsetOf(t, w)
BY SubsetOfMeaning

\* What is disjoint with a term is disjoint with what says more.
LEMMA DisjointWithLess ==
    ASSUME NEW t \in TermType, NEW u \in TermType, NEW w \in TermType,
           IsDisjoint(w, u), SubsetOf(t, u)
    PROVE  IsDisjoint(w, t)
BY SubsetOfMeaning, IsDisjointMeaning

\* A term that leaves some choice is not disjoint with what it satisfies.
LEMMA SatisfiedNotDisjoint ==
    ASSUME NEW t \in TermType, NEW u \in TermType, t # EmptyTerm, SubsetOf(t, u)
    PROVE  ~IsDisjoint(u, t)
BY SubsetOfMeaning, IsDisjointMeaning, EmptyTermMeaning

\* Deriving the negation of a term rules the term out.
LEMMA NegationRulesOut ==
    ASSUME NEW t \in TermType, NEW u \in TermType
    PROVE  IsDisjoint(u, Negate(u)) /\ IsDisjoint(u, Intersection(t, Negate(u)))
BY IsDisjointMeaning, IntersectionMeaning, NegateMeaning, TermsClosed

-----------------------------------------------------------------------------
(* The history of one package *)

\* All that is known of one history.
Narrow(p, a, s, index) ==
    DerivationsNarrow(p, a, s) /\ HistoryEnds(a) /\ IndicesBelow(a, index)

\* A first derivation.
LEMMA FirstDerivationNarrow ==
    ASSUME currentDecisionLevel \in Nat, nextGlobalIndex \in Nat,
           NEW cause \in Nat \ {NoCause}, NEW t \in TermType, NEW p, NEW s
    PROVE  Narrow(p, FirstDerivation(cause, t), s, nextGlobalIndex + 1)
<1> DEFINE a == FirstDerivation(cause, t)
           d == DatedDerivation(cause, t)
<1>1. /\ a.highest = currentDecisionLevel /\ a.dated = <<d>> /\ a.version = NoVersion
      /\ a.term = t /\ d.level = currentDecisionLevel /\ d.term = t
      /\ d.index = nextGlobalIndex
  BY DEF FirstDerivation, DatedDerivation
<1> HIDE DEF a, d
<1>2. DOMAIN a.dated = {1} /\ a.dated[1] = d /\ Len(a.dated) = 1
  BY <1>1
<1>3. SubsetOf(t, t)
  BY SubsetOfIntersection
<1>4. DerivationsNarrow(p, a, s)
  BY <1>1, <1>2, <1>3 DEF DerivationsNarrow
<1>5. HistoryEnds(a) /\ IndicesBelow(a, nextGlobalIndex + 1)
  BY <1>1, <1>2 DEF HistoryEnds, IndicesBelow, IsDecision
<1> QED BY <1>4, <1>5 DEF Narrow, a

\* Another derivation: it says more than those before.
LEMMA NextDerivationNarrow ==
    ASSUME currentDecisionLevel \in Nat, nextGlobalIndex \in Nat,
           NEW s, NEW p, NEW a \in PackageAssignmentsType, a.dated # << >>,
           Narrow(p, a, s, nextGlobalIndex), ~IsDecision(a),
           NEW cause \in Nat \ {NoCause}, NEW t \in TermType,
           t = Negate(Get(s[cause].terms, p))
    PROVE  Narrow(p, NextDerivation(a, cause, t), s, nextGlobalIndex + 1)
<1> DEFINE u == Intersection(a.term, t)
           d == DatedDerivation(cause, u)
           b == NextDerivation(a, cause, t)
           n == Len(a.dated)
<1>1. /\ a.dated \in Seq(DatedDerivationType) /\ a.term \in TermType
  BY DEF PackageAssignmentsType
<1>2. u \in TermType /\ SubsetOf(u, u) /\ SubsetOf(u, a.term)
  BY <1>1, TermsClosed, SubsetOfIntersection
<1>3. /\ b.dated = Append(a.dated, d) /\ b.term = u /\ b.highest = currentDecisionLevel
      /\ b.version = a.version
      /\ d.level = currentDecisionLevel /\ d.term = u /\ d.index = nextGlobalIndex
      /\ d.cause = cause
  BY DEF NextDerivation, PackageAssignmentsType, DatedDerivation
<1>4. /\ n \in Nat /\ n > 0 /\ DOMAIN a.dated = 1 .. n /\ DOMAIN b.dated = 1 .. n + 1
      /\ Len(b.dated) = n + 1
      /\ \A i \in 1 .. n : b.dated[i] = a.dated[i] /\ a.dated[i] \in DatedDerivationType
      /\ b.dated[n + 1] = d
  <2> HIDE DEF d, b
  <2> QED BY <1>1, <1>3
<1>5. a.term = a.dated[n].term
  BY DEF Narrow, HistoryEnds
<1>6. \A i \in 1 .. n : /\ a.dated[i].index \in Nat /\ a.dated[i].index < nextGlobalIndex
                        /\ a.dated[i].term \in TermType
  BY <1>4 DEF Narrow, IndicesBelow, DatedDerivationType
<1>7. \A i \in 1 .. n : SubsetOf(a.term, a.dated[i].term)
  <2> TAKE i \in 1 .. n
  <2>1. i \in DOMAIN a.dated /\ n \in DOMAIN a.dated /\ i <= n
    BY <1>4
  <2> QED BY <1>5, <2>1 DEF Narrow, DerivationsNarrow
<1>8. u = Intersection(a.dated[n].term, Negate(Get(s[d.cause].terms, p)))
  BY <1>3, <1>5
<1> HIDE DEF u, d, b, n
<1>9. DerivationsNarrow(p, b, s)
  <2> SUFFICES ASSUME NEW i \in 1 .. n + 1, NEW j \in 1 .. n + 1
               PROVE  /\ i < j => b.dated[i].index < b.dated[j].index
                      /\ i <= j => SubsetOf(b.dated[j].term, b.dated[i].term)
                      /\ j = i + 1 => b.dated[j].term =
                             Intersection(b.dated[i].term,
                                          Negate(Get(s[b.dated[j].cause].terms, p)))
    BY <1>4 DEF DerivationsNarrow
  <2>1. CASE j = n + 1
    <3>1. CASE i = n + 1
      BY <1>2, <1>3, <1>4, <2>1, <3>1
    <3>2. CASE i # n + 1
      <4>1. i \in 1 .. n
        BY <1>4, <3>2
      <4>2. SubsetOf(u, a.dated[i].term)
        BY <1>1, <1>2, <1>6, <1>7, <4>1, SubsetOfTransitive
      <4>3. j = i + 1 => i = n
        BY <1>4, <2>1
      <4> QED BY <1>3, <1>4, <1>6, <1>8, <2>1, <4>1, <4>2, <4>3
    <3> QED BY <3>1, <3>2
  <2>2. CASE j # n + 1
    <3>1. j \in 1 .. n
      BY <1>4, <2>2
    <3>2. CASE i \in 1 .. n
      BY <1>4, <3>1, <3>2 DEF Narrow, DerivationsNarrow
    <3>3. CASE i \notin 1 .. n
      BY <1>4, <3>1, <3>3
    <3> QED BY <3>2, <3>3
  <2> QED BY <2>1, <2>2
<1>10. HistoryEnds(b)
  BY <1>3, <1>4 DEF HistoryEnds, IsDecision
<1>11. IndicesBelow(b, nextGlobalIndex + 1)
  BY <1>3, <1>4, <1>6 DEF IndicesBelow, IsDecision
<1> QED BY <1>9, <1>10, <1>11 DEF Narrow, b

\* A decision: one of the versions that the derivations leave.
LEMMA DecisionNarrow ==
    ASSUME currentDecisionLevel \in Nat, nextGlobalIndex \in Nat,
           NEW s, NEW p, NEW a \in PackageAssignmentsType, a.dated # << >>,
           HistoryWellFormed(a, currentDecisionLevel),
           Narrow(p, a, s, nextGlobalIndex), ~IsDecision(a),
           NEW v \in Versions, TermContains(a.term, v)
    PROVE  Narrow(p, Decision(a, v), s, nextGlobalIndex + 1)
<1> DEFINE b == Decision(a, v)
           n == Len(a.dated)
<1>1. a.dated \in Seq(DatedDerivationType)
  BY DEF PackageAssignmentsType
<1>2. /\ b.dated = a.dated /\ b.term = Exact(v) /\ b.highest = currentDecisionLevel + 1
      /\ b.version = v /\ b.index = nextGlobalIndex
  BY DEF Decision, PackageAssignmentsType
<1>3. /\ n \in Nat /\ n > 0 /\ DOMAIN a.dated = 1 .. n
      /\ \A i \in 1 .. n : a.dated[i] \in DatedDerivationType
  BY <1>1
<1>4. \A i \in 1 .. n : /\ a.dated[i].index \in Nat /\ a.dated[i].index < nextGlobalIndex
                        /\ a.dated[i].level \in Nat
  BY <1>3 DEF Narrow, IndicesBelow, DatedDerivationType
<1>5. a.dated[n].level <= currentDecisionLevel
  <2>1. n \in DOMAIN a.dated /\ a.highest \in Nat
    BY <1>3 DEF PackageAssignmentsType
  <2>2. a.dated[n].level <= a.highest /\ a.highest <= currentDecisionLevel
    BY <2>1 DEF HistoryWellFormed
  <2> QED BY <1>3, <1>4, <2>1, <2>2
<1>6. a.term = a.dated[n].term
  BY DEF Narrow, HistoryEnds
<1> HIDE DEF b, n
<1>7. DerivationsNarrow(p, b, s)
  BY <1>2 DEF Narrow, DerivationsNarrow
<1>8. HistoryEnds(b)
  <2>1. n \in 1 .. n
    BY <1>3
  <2>2. IsDecision(b)
    BY <1>2, NoVersionAssumption DEF IsDecision
  <2> QED BY <1>2, <1>4, <1>5, <1>6, <2>1, <2>2 DEF HistoryEnds, n
<1>9. IndicesBelow(b, nextGlobalIndex + 1)
  BY <1>2, <1>3, <1>4 DEF IndicesBelow
<1> QED BY <1>7, <1>8, <1>9 DEF Narrow, b

\* A history that is cut at a level.
LEMMA TruncateNarrow ==
    ASSUME NEW s, NEW p, NEW index, NEW a \in PackageAssignmentsType, NEW level \in Nat,
           NEW now \in Nat, HistoryWellFormed(a, now), a.smallest <= level,
           Narrow(p, a, s, index)
    PROVE  Narrow(p, Truncate(a, level), s, index)
<1> DEFINE b == Truncate(a, level)
           n == KeptDerivations(a.dated, level)
<1>1. /\ b \in PackageAssignmentsType
      /\ n \in DOMAIN a.dated /\ DOMAIN b.dated = 1 .. n
      /\ \A i \in 1 .. n : i \in DOMAIN a.dated /\ b.dated[i] = a.dated[i]
      /\ b.term = a.dated[n].term
  BY TruncateWellFormed
<1>2. b.version = NoVersion /\ b.highest = a.dated[n].level
  BY DEF Truncate, PackageAssignmentsType
<1>3. a.dated \in Seq(DatedDerivationType)
  BY DEF PackageAssignmentsType
<1>4. b.dated \in Seq(DatedDerivationType)
  BY <1>1 DEF PackageAssignmentsType
<1>5. n \in 1 .. n /\ Len(b.dated) = n
  <2> HIDE DEF n, b
  <2> QED BY <1>1, <1>3, <1>4
<1> HIDE DEF b, n
<1>6. DerivationsNarrow(p, b, s)
  BY <1>1 DEF Narrow, DerivationsNarrow
<1>7. HistoryEnds(b) /\ IndicesBelow(b, index)
  BY <1>1, <1>2, <1>5 DEF Narrow, HistoryEnds, IndicesBelow, IsDecision
<1> QED BY <1>6, <1>7 DEF Narrow, b

\* What was allocated stays, so what the causes said stays.
LEMMA NarrowInExtension ==
    ASSUME NEW s, NEW t, StoreExtends(s, t), NEW p, NEW index,
           NEW a, CausesResolvable(p, a, s), Narrow(p, a, s, index)
    PROVE  Narrow(p, a, t, index)
<1>1. \A j \in DOMAIN a.dated : t[a.dated[j].cause] = s[a.dated[j].cause]
  BY DEF CausesResolvable, StoreExtends
<1>2. DerivationsNarrow(p, a, t)
  BY <1>1 DEF Narrow, DerivationsNarrow
<1> QED BY <1>2 DEF Narrow

-----------------------------------------------------------------------------
(* What is ruled out *)

\* The term a package has now says no less than each of its derivations.
LEMMA TermNarrowest ==
    ASSUME NEW a \in PackageAssignmentsType, a.dated # << >>, NEW p, NEW s, NEW index,
           Narrow(p, a, s, index), NEW i \in DOMAIN a.dated
    PROVE  SubsetOf(a.term, a.dated[i].term)
<1> DEFINE n == Len(a.dated)
<1>1. a.dated \in Seq(DatedDerivationType) /\ a.term \in TermType /\ a.version \in Selections
  BY DEF PackageAssignmentsType
<1>2. /\ n \in DOMAIN a.dated /\ i <= n
      /\ a.dated[n] \in DatedDerivationType /\ a.dated[i] \in DatedDerivationType
  BY <1>1
<1>3. a.dated[n].term \in TermType /\ a.dated[i].term \in TermType
  BY <1>2 DEF DatedDerivationType
<1>4. SubsetOf(a.dated[n].term, a.dated[i].term)
  BY <1>2 DEF Narrow, DerivationsNarrow
<1>5. CASE ~IsDecision(a)
  BY <1>4, <1>5 DEF Narrow, HistoryEnds
<1>6. CASE IsDecision(a)
  <2>1. a.term = Exact(a.version) /\ TermContains(a.dated[n].term, a.version)
    BY <1>6 DEF Narrow, HistoryEnds
  <2>2. SubsetOf(a.term, a.dated[n].term)
    BY <2>1, <1>3 DEF SubsetOf, Exact, Positive, TermContains, TermType
  <2> QED BY <1>1, <1>3, <1>4, <2>2, SubsetOfTransitive
<1> QED BY <1>5, <1>6

\* What is ruled out since some level is ruled out now, and the other way round.
LEMMA RuledOutNow ==
    ASSUME NEW a \in PackageAssignmentsType, a.dated # << >>, NEW p, NEW s, NEW index,
           Narrow(p, a, s, index), NEW u \in TermType, NEW level, RuledOutBy(a, u, level)
    PROVE  IsDisjoint(u, a.term)
<1>1. CASE \E i \in DOMAIN a.dated : IsDisjoint(u, a.dated[i].term)
  <2>1. PICK i \in DOMAIN a.dated : IsDisjoint(u, a.dated[i].term)
    BY <1>1
  <2>2. a.dated[i] \in DatedDerivationType
    BY DEF PackageAssignmentsType
  <2>3. a.dated[i].term \in TermType /\ a.term \in TermType
    BY <2>2 DEF DatedDerivationType, PackageAssignmentsType
  <2>4. SubsetOf(a.term, a.dated[i].term)
    BY TermNarrowest
  <2> QED BY <2>1, <2>3, <2>4, DisjointWithLess
<1> QED BY <1>1 DEF RuledOutBy

LEMMA RuledOutSoFar ==
    ASSUME NEW a \in PackageAssignmentsType, NEW level \in Nat, HistoryWellFormed(a, level),
           NEW p, NEW s, NEW index, Narrow(p, a, s, index),
           NEW u, IsDisjoint(u, a.term)
    PROVE  RuledOutBy(a, u, level)
<1> DEFINE n == Len(a.dated)
<1>1. CASE IsDecision(a)
  BY <1>1 DEF RuledOutBy, HistoryWellFormed
<1>2. CASE ~IsDecision(a)
  <2>1. a.term = a.dated[n].term /\ a.highest = a.dated[n].level
    BY <1>2 DEF Narrow, HistoryEnds
  <2>2. n \in DOMAIN a.dated
    BY DEF HistoryWellFormed, PackageAssignmentsType
  <2>3. a.highest <= level
    BY DEF HistoryWellFormed
  <2> QED BY <2>1, <2>2, <2>3 DEF RuledOutBy
<1> QED BY <1>1, <1>2

\* It stays so when the package gets another derivation or a decision ...
LEMMA NextDerivationKeepsRuledOut ==
    ASSUME NEW a \in PackageAssignmentsType, ~IsDecision(a), NEW cause, NEW t,
           NEW u, NEW level, RuledOutBy(a, u, level)
    PROVE  RuledOutBy(NextDerivation(a, cause, t), u, level)
<1> DEFINE d == DatedDerivation(cause, Intersection(a.term, t))
           b == NextDerivation(a, cause, t)
<1>1. b.dated = Append(a.dated, d) /\ a.dated \in Seq(DatedDerivationType)
  BY DEF NextDerivation, PackageAssignmentsType
<1> HIDE DEF b, d
<1>2. \A i \in DOMAIN a.dated : i \in DOMAIN b.dated /\ b.dated[i] = a.dated[i]
  BY <1>1
<1> QED BY <1>2 DEF RuledOutBy, b

LEMMA DecisionKeepsRuledOut ==
    ASSUME NEW a \in PackageAssignmentsType, ~IsDecision(a), NEW v,
           NEW u, NEW level, RuledOutBy(a, u, level)
    PROVE  RuledOutBy(Decision(a, v), u, level)
<1>1. Decision(a, v).dated = a.dated
  BY DEF Decision, PackageAssignmentsType
<1> QED BY <1>1 DEF RuledOutBy

\* ... and when the history is cut at a level that is not earlier.
LEMMA BacktrackKeepsRuledOut ==
    ASSUME NEW a \in PackageAssignmentsType, NEW now \in Nat, HistoryWellFormed(a, now),
           NEW cut \in Nat, NEW level \in Nat, level <= cut,
           NEW u, RuledOutBy(a, u, level)
    PROVE  a.smallest <= cut /\ RuledOutBy(BacktrackedAssignment(a, cut), u, level)
<1> DEFINE n == KeptDerivations(a.dated, cut)
<1>1. /\ a.dated \in Seq(DatedDerivationType) /\ a.smallest \in Nat /\ a.highest \in Nat
  BY DEF PackageAssignmentsType
<1>2. \A i \in DOMAIN a.dated : a.dated[i].level \in Nat
  <2> TAKE i \in DOMAIN a.dated
  <2>1. a.dated[i] \in DatedDerivationType
    BY <1>1
  <2> QED BY <2>1 DEF DatedDerivationType
<1>3. 1 \in DOMAIN a.dated /\ \A i \in DOMAIN a.dated : 1 <= i
  BY <1>1 DEF HistoryWellFormed
<1>4. a.smallest = a.dated[1].level
  BY DEF HistoryWellFormed
<1>5. \A i \in DOMAIN a.dated : a.smallest <= a.dated[i].level /\ a.dated[i].level <= a.highest
  BY <1>3, <1>4 DEF HistoryWellFormed
<1>6. CASE IsDecision(a) /\ a.highest <= level /\ IsDisjoint(u, a.term)
  <2>1. a.smallest <= a.highest
    BY <1>1, <1>2, <1>3, <1>5
  <2>2. a.highest <= cut /\ a.smallest <= cut
    BY <1>1, <1>6, <2>1
  <2> QED BY <1>6, <2>2 DEF BacktrackedAssignment, RuledOutBy
<1>7. ASSUME NEW i \in DOMAIN a.dated, a.dated[i].level <= level, IsDisjoint(u, a.dated[i].term)
      PROVE  a.smallest <= cut /\ RuledOutBy(BacktrackedAssignment(a, cut), u, level)
  <2>1. a.dated[i].level <= cut /\ a.smallest <= cut
    BY <1>1, <1>2, <1>5, <1>7
  <2>2. CASE a.highest <= cut
    BY <1>7, <2>1, <2>2 DEF BacktrackedAssignment, RuledOutBy
  <2>3. CASE ~(a.highest <= cut)
    <3> DEFINE b == Truncate(a, cut)
    <3>1. /\ DOMAIN b.dated = 1 .. n /\ n \in DOMAIN a.dated
          /\ \A j \in 1 .. n : b.dated[j] = a.dated[j]
      BY <2>1, TruncateWellFormed
    <3>2. \A j \in n + 1 .. Len(a.dated) : a.dated[j].level > cut
      <4>1. a.dated # << >> /\ a.dated[1].level <= cut
        BY <1>4, <2>1 DEF HistoryWellFormed
      <4> QED BY <4>1, KeptDerivationsFound
    <3> HIDE DEF n, b
    <3>3. i \in 1 .. n
      <4>1. i \in n + 1 .. Len(a.dated) => FALSE
        BY <1>2, <2>1, <3>2
      <4> QED BY <1>1, <3>1, <4>1
    <3>4. i \in DOMAIN b.dated /\ b.dated[i] = a.dated[i]
      BY <3>1, <3>3
    <3>5. RuledOutBy(b, u, level)
      BY <1>7, <3>4 DEF RuledOutBy
    <3> QED BY <2>1, <2>3, <3>5 DEF BacktrackedAssignment, b
  <2> QED BY <2>2, <2>3
<1> QED BY <1>6, <1>7 DEF RuledOutBy

-----------------------------------------------------------------------------
(* The steps of the solver, as the partial solution sees them *)

\* It stays as it is; an incompatibility may turn out to be contradicted, or
\* the queue of packages gets new priorities.
Quiet ==
    /\ UNCHANGED <<nextGlobalIndex, currentDecisionLevel, assignments, position>>
    /\ UNCHANGED <<prioritized, outdated>> \/ PickNone \/ \E p \in Packages : PickPackage(p)
    /\ \/ UNCHANGED contradicted
       \/ \E id \in Ids : HasContradicted(store[id].terms, Known) /\ MarkContradicted(id)

\* It gets a derivation about p from the incompatibility id, ...
Derives(p, id) ==
    /\ id \in Ids /\ p \in IncompatPackages(store[id].terms)
    /\ AddDerivation(p, id, store[id].terms)
    /\ MarkContradicted(id)
    /\ UNCHANGED store

\* ... a decision, ...
Decides(p, v) ==
    /\ v \in Versions
    /\ AddDecision(p, v)
    /\ UNCHANGED <<store, contradicted>>

\* ... or goes back to a level below the current one.
Backs(level) ==
    /\ level \in Nat /\ 1 <= level /\ level < currentDecisionLevel
    /\ Backtrack(level)
    /\ contradicted' = [id \in ContradictedAt(level) |-> contradicted[id]]

TrailStep ==
    \/ Quiet
    \/ \E p, id : Derives(p, id)
    \/ \E p, v : Decides(p, v)
    \/ \E level : Backs(level)

\* Merging only adds to the store.
LEMMA MergeExtends ==
    ASSUME NEW S, NEW s \in Seq(S), NEW id, MergeIncompatibility(s, id)
    PROVE  StoreExtends(s, store')
<1>1. CASE \E k \in DOMAIN PastDependencies(s, id) : ReplacePast(s, id, k)
  <2>1. PICK k \in DOMAIN PastDependencies(s, id) : ReplacePast(s, id, k)
    BY <1>1
  <2>2. \E new : store' = Append(s, new)
    BY <2>1 DEF ReplacePast
  <2>3. PICK new : store' = Append(s, new)
    BY <2>2
  <2> QED BY <2>3 DEF StoreExtends
<1>2. CASE Keep(s, id)
  BY <1>2 DEF Keep, StoreExtends
<1> QED BY <1>1, <1>2 DEF MergeIncompatibility

\* The store only grows.
LEMMA StepExtends ==
    ASSUME Invariant, [Next]_vars
    PROVE  StoreExtends(store, store') /\ GoodStore(store) /\ GoodStore(store')
<1>1. store \in Seq(IncompatibilityType) /\ GoodStore(store)
  BY InvariantParts DEF CoreTypeOK
<1>2. GoodStore(store')
  <2>1. Invariant'
    BY NextInvariant
  <2>2. TypeOK' /\ StoreWellFormed'
    BY <2>1 DEF Invariant
  <2> QED BY <2>2 DEF TypeOK, CoreTypeOK, StoreWellFormed, GoodStore, Ids
<1>3. CASE store' = store
  BY <1>1, <1>3, StoreUnchanged
<1>4. CASE ChooseNone \/ ChooseUnavailable
  <2>1. \E new : AddIncompatibility(new)
    BY <1>4 DEF ChooseNone, ChooseUnavailable
  <2>2. PICK new : AddIncompatibility(new)
    BY <2>1
  <2> DEFINE s == Append(store, new)
  <2>3. s \in Seq(IncompatibilityType \cup {new}) /\ StoreExtends(store, s)
    BY <1>1 DEF StoreExtends
  <2>4. MergeIncompatibility(s, Len(store) + 1)
    BY <2>2 DEF AddIncompatibility
  <2> HIDE DEF s
  <2>5. StoreExtends(s, store')
    BY <2>3, <2>4, MergeExtends
  <2> QED BY <1>1, <1>2, <2>3, <2>5 DEF StoreExtends, GoodStore
<1>5. CASE ChooseNew
  <2>1. PICK v \in VersionChoices :
           store' = store \o DependencyIncompats(next, v, registry[next][v].dependencies)
    BY <1>5 DEF ChooseNew
  <2>2. v \in Versions /\ next \in Packages /\ registry \in RegistryType
    BY <1>5, ChoiceMade DEF ChooseNew
  <2> DEFINE new == DependencyIncompats(next, v, registry[next][v].dependencies)
  <2>3. new \in Seq(IncompatibilityType)
    BY <2>2, DependencyIncompatsKeep
  <2> HIDE DEF new
  <2>4. store' = store \o new
    BY <2>1 DEF new
  <2> QED BY <1>1, <1>2, <2>3, <2>4 DEF StoreExtends
<1>6. CASE ResolveConflict
  <2>1. \E new : store' = Append(store, new)
    BY <1>6 DEF ResolveConflict, ResolveWithCause
  <2>2. PICK new : store' = Append(store, new)
    BY <2>1
  <2> QED BY <1>1, <1>2, <2>2 DEF StoreExtends
<1>7. CASE MergeDependency
  <2>1. MergeIncompatibility(store, Head(pending))
    BY <1>7 DEF MergeDependency
  <2> QED BY <1>1, <1>2, <2>1, MergeExtends
<1>8. CASE BacktrackFromConflict
  <2>1. MergeIncompatibility(store, conflict) \/ store' = store
    BY <1>8 DEF BacktrackFromConflict, BacktrackFrom
  <2> QED BY <1>1, <1>2, <1>3, <2>1, MergeExtends
<1>9. \/ store' = store \/ ChooseNone \/ ChooseUnavailable \/ ChooseNew \/ ResolveConflict
      \/ MergeDependency \/ BacktrackFromConflict
  <2>1. CASE UNCHANGED vars
    BY <2>1 DEF vars, coreVars
  <2>2. CASE \/ Cancel \/ StartPropagation \/ PopPackage \/ EndPropagation
             \/ SkipContradicted \/ ScanConflict \/ EndScan \/ FailTerminal
    BY <2>2 DEF Cancel, StartPropagation, PopPackage, EndPropagation, SkipContradicted,
                ScanConflict, EndScan, FailTerminal, coreVars
  <2>3. CASE \/ ScanAlmostSatisfied \/ ScanContradicted \/ ScanInconclusive \/ Learn
    BY <2>3 DEF ScanAlmostSatisfied, ScanContradicted, ScanInconclusive, Learn,
                PropagateAlmostSatisfied, FindContradicted, FindInconclusive, LearnRootCause,
                coreVars
  <2>4. CASE \/ ReturnSolution \/ Pick \/ ProviderError \/ ChooseKnown \/ EndMerge
             \/ Accept \/ Reject \/ Terminated
    BY <2>4 DEF ReturnSolution, Pick, ProviderError, ChooseKnown, EndMerge, Accept, Reject,
                Terminated, vars, coreVars
  <2> QED BY <2>1, <2>2, <2>3, <2>4 DEF Next
<1> QED BY <1>3, <1>4, <1>5, <1>6, <1>7, <1>8, <1>9

\* A step that only moves on.
LEMMA QuietSteps ==
    ASSUME UNCHANGED <<nextGlobalIndex, currentDecisionLevel, assignments, position,
                       contradicted>>,
           UNCHANGED <<prioritized, outdated>> \/ PickNone \/ \E p \in Packages : PickPackage(p)
    PROVE  TrailStep
BY DEF TrailStep, Quiet

\* A derivation during unit propagation is of a package the incompatibility has.
LEMMA ScanDerives ==
    ASSUME Invariant, ScanAlmostSatisfied
    PROVE  \E x \in store[Last(scan)].terms :
               /\ AlmostSatisfiedBy(store[Last(scan)].terms, Known, x)
               /\ Derives(x[1], Last(scan))
               /\ buffer' = PushIfAbsent(buffer, x[1])
<1>1. PICK x \in store[Last(scan)].terms : PropagateAlmostSatisfied(Last(scan), x)
  BY DEF ScanAlmostSatisfied
<1>2. Last(scan) \in Ids
  BY ScanTop DEF ScanAlmostSatisfied
<1>3. x[1] \in IncompatPackages(store[Last(scan)].terms)
  BY DEF IncompatPackages
<1> QED BY <1>1, <1>2, <1>3 DEF PropagateAlmostSatisfied, Derives

LEMMA LearnDerives ==
    ASSUME Invariant, Learn
    PROVE  Derives(buffer[1], conflict)
<1>1. conflict \in Ids
  BY InvariantParts DEF SolverTypeOK
<1>2. buffer[1] \in IncompatPackages(store[conflict].terms)
  BY DEF Learn, Invariant, RootCauseReady
<1> QED BY <1>1, <1>2 DEF Learn, LearnRootCause, Derives

LEMMA DecideDecides ==
    ASSUME Invariant, ChooseKnown \/ Accept
    PROVE  \E v \in Versions :
               /\ Decides(next, v)
               /\ ChooseKnown => v \in VersionChoices /\ ~IsNewDependency(v)
               /\ Accept => v = chosen
<1>1. CASE ChooseKnown
  <2>1. PICK v \in VersionChoices : ~IsNewDependency(v) /\ AddDecision(next, v)
    BY <1>1 DEF ChooseKnown
  <2>2. v \in Versions
    BY <1>1, ChoiceMade DEF ChooseKnown
  <2>3. ~Accept
    BY <1>1 DEF ChooseKnown, Accept
  <2> QED BY <1>1, <2>1, <2>2, <2>3 DEF ChooseKnown, Decides, coreVars
<1>2. CASE Accept
  <2>1. chosen \in Versions
    BY <1>2 DEF Accept, Invariant, ChoiceReady
  <2>2. ~ChooseKnown
    BY <1>2 DEF ChooseKnown, Accept
  <2> QED BY <1>2, <2>1, <2>2 DEF Accept, Decides, coreVars
<1> QED BY <1>1, <1>2

\* Backtracking gives up at least the last decision and keeps the first.
LEMMA BacktrackBacks ==
    ASSUME Invariant, BacktrackFromConflict
    PROVE  \E level : Backs(level)
<1>1. pc = "conflict" /\ HasSatisfiers(store[conflict].terms)
  BY DEF BacktrackFromConflict, Resolving, BacktrackFrom
<1>2. PICK s \in SatisfiedMap(store[conflict].terms) :
      \E previous \in PreviousMap(store, store[conflict].terms, s) :
          /\ ~SameDecisionLevels(s, previous)
          /\ Backtrack(PreviousLevel(previous))
          /\ contradicted' = [i \in ContradictedAt(PreviousLevel(previous)) |-> contradicted[i]]
  BY DEF BacktrackFromConflict, BacktrackFrom
<1>3. PICK previous \in PreviousMap(store, store[conflict].terms, s) :
          /\ ~SameDecisionLevels(s, previous)
          /\ Backtrack(PreviousLevel(previous))
          /\ contradicted' = [i \in ContradictedAt(PreviousLevel(previous)) |-> contradicted[i]]
  BY <1>2
<1>4. PSTypeOK /\ PSWellFormed
  BY InvariantParts
<1> DEFINE level == PreviousLevel(previous)
<1>5. level \in Nat \ {0}
  BY <1>1, <1>4, PreviousLevelType
<1>6. s.level \in Nat /\ s.level <= currentDecisionLevel
  <2> DEFINE start == Negate(GetLast(store[conflict].terms, s.package))
             a == assignments[s.package]
  <2>1. /\ s \in SatisfierType /\ s.package \in DOMAIN assignments
        /\ s = Satisfier(s.package, start)
    BY <1>1, <1>4, SatisfiedMapMeaning
  <2>2. \/ \E i \in DOMAIN a.dated : SatisfiedByDerivation(s, a, start, i)
        \/ SatisfiedByDecision(s, a, start)
    BY <1>4, <2>1, SatisfierMeaning
  <2>3. /\ HistoryWellFormed(a, currentDecisionLevel) /\ a \in PackageAssignmentsType
    BY <1>4, <2>1 DEF PSWellFormed, PSTypeOK
  <2>4. a.highest \in Nat /\ a.highest <= currentDecisionLevel /\ currentDecisionLevel \in Nat
        /\ \A i \in DOMAIN a.dated : a.dated[i] \in DatedDerivationType
    BY <1>4, <2>3 DEF HistoryWellFormed, PackageAssignmentsType, PSTypeOK
  <2>5. \A i \in DOMAIN a.dated : a.dated[i].level \in Nat /\ a.dated[i].level <= a.highest
    BY <2>3, <2>4 DEF HistoryWellFormed, DatedDerivationType
  <2>6. s.level = a.highest \/ \E i \in DOMAIN a.dated : s.level = a.dated[i].level
    BY <2>2 DEF SatisfiedByDerivation, SatisfiedByDecision
  <2> HIDE DEF a
  <2> QED BY <2>4, <2>5, <2>6
<1>7. level < s.level
  BY <1>3, <1>5, <1>6 DEF SameDecisionLevels
<1>8. currentDecisionLevel \in Nat
  BY <1>4 DEF PSTypeOK
<1> HIDE DEF level
<1> QED BY <1>3, <1>5, <1>6, <1>7, <1>8 DEF Backs, level

\* Every step is one of these.
LEMMA StepKinds ==
    ASSUME Invariant, [Next]_vars
    PROVE  TrailStep
<1>1. CASE UNCHANGED vars
  BY <1>1, QuietSteps DEF vars, psVars, coreVars
<1>2. CASE \/ Cancel \/ StartPropagation \/ PopPackage \/ EndPropagation
           \/ SkipContradicted \/ ScanConflict \/ EndScan \/ FailTerminal
  BY <1>2, QuietSteps
     DEF Cancel, StartPropagation, PopPackage, EndPropagation, SkipContradicted,
         ScanConflict, EndScan, FailTerminal, coreVars, psVars
<1>3. CASE ScanInconclusive \/ ResolveConflict
  BY <1>3, QuietSteps
     DEF ScanInconclusive, FindInconclusive, ResolveConflict, ResolveWithCause, coreVars, psVars
<1>4. CASE ProviderError \/ EndMerge \/ Reject \/ Terminated
  BY <1>4, QuietSteps
     DEF ProviderError, EndMerge, Reject, Terminated, coreVars, psVars, vars
<1>5. CASE ChooseNone \/ ChooseUnavailable \/ ChooseNew \/ MergeDependency
  BY <1>5, QuietSteps
     DEF ChooseNone, ChooseUnavailable, ChooseNew, MergeDependency, psVars
<1>6. CASE ReturnSolution \/ Pick
  <2>1. PickNone \/ \E p \in Packages : PickPackage(p)
    BY <1>6 DEF ReturnSolution, Pick
  <2>2. UNCHANGED <<nextGlobalIndex, currentDecisionLevel, assignments, position, contradicted>>
    BY <1>6, <2>1 DEF ReturnSolution, Pick, PickNone, PickPackage, coreVars
  <2> QED BY <2>1, <2>2, QuietSteps
<1>7. CASE ScanContradicted
  <2>1. Last(scan) \in Ids
    BY <1>7, ScanTop DEF ScanContradicted
  <2> QED BY <1>7, <2>1 DEF ScanContradicted, FindContradicted, psVars, TrailStep, Quiet
<1>8. CASE ScanAlmostSatisfied
  BY <1>8, ScanDerives DEF TrailStep
<1>9. CASE Learn
  BY <1>9, LearnDerives DEF TrailStep
<1>10. CASE ChooseKnown \/ Accept
  BY <1>10, DecideDecides DEF TrailStep
<1>11. CASE BacktrackFromConflict
  BY <1>11, BacktrackBacks DEF TrailStep
<1> QED BY <1>1, <1>2, <1>3, <1>4, <1>5, <1>6, <1>7, <1>8, <1>9, <1>10, <1>11 DEF Next

\* What a derivation does to the assignments.
LEMMA DerivedAssignments ==
    ASSUME Invariant, NEW p, NEW id, Derives(p, id)
    PROVE  LET t == Negate(Get(store[id].terms, p))
           IN  /\ p \in Packages /\ id \in Nat \ {NoCause} /\ t \in TermType
               /\ store[id].terms \in TermsType
               /\ <<p, Get(store[id].terms, p)>> \in store[id].terms
               /\ Get(store[id].terms, p) \in TermType
               /\ p \notin DOMAIN assignments \/ ~IsDecision(assignments[p])
               /\ DOMAIN assignments' = DOMAIN assignments \cup {p}
               /\ assignments'[p] = IF p \in DOMAIN assignments
                                    THEN NextDerivation(assignments[p], id, t)
                                    ELSE FirstDerivation(id, t)
               /\ \A q \in DOMAIN assignments : q # p => assignments'[q] = assignments[q]
               /\ nextGlobalIndex' = nextGlobalIndex + 1
               /\ UNCHANGED <<currentDecisionLevel, store>>
<1> DEFINE t == Negate(Get(store[id].terms, p))
<1>1. store[id].terms \in TermsType /\ id \in Nat \ {NoCause}
  BY StoreEntry DEF Derives
<1>2. /\ p \in Packages /\ Get(store[id].terms, p) \in TermType
      /\ <<p, Get(store[id].terms, p)>> \in store[id].terms
  BY <1>1, GetFinds DEF Derives
<1>3. t \in TermType
  BY <1>2, TermsClosed
<1> DEFINE new == IF p \in DOMAIN assignments
                  THEN NextDerivation(assignments[p], id, t) ELSE FirstDerivation(id, t)
<1>4. /\ assignments' = [q \in DOMAIN assignments \cup {p} |->
                            IF q = p THEN new ELSE assignments[q]]
      /\ nextGlobalIndex' = nextGlobalIndex + 1 /\ UNCHANGED <<currentDecisionLevel, store>>
      /\ ~Decided(p)
  BY DEF Derives, AddDerivation
<1> HIDE DEF new
<1>5. /\ DOMAIN assignments' = DOMAIN assignments \cup {p}
      /\ assignments'[p] = new
      /\ \A q \in DOMAIN assignments : q # p => assignments'[q] = assignments[q]
  BY <1>4
<1> QED BY <1>1, <1>2, <1>3, <1>4, <1>5 DEF new, Decided

\* What a decision does.
LEMMA DecidedAssignments ==
    ASSUME NEW p, NEW v, Decides(p, v)
    PROVE  /\ p \in DOMAIN assignments /\ v \in Versions
           /\ ~IsDecision(assignments[p]) /\ TermContains(assignments[p].term, v)
           /\ DOMAIN assignments' = DOMAIN assignments
           /\ assignments'[p] = Decision(assignments[p], v)
           /\ \A q \in DOMAIN assignments : q # p => assignments'[q] = assignments[q]
           /\ currentDecisionLevel' = currentDecisionLevel + 1
           /\ nextGlobalIndex' = nextGlobalIndex + 1
           /\ UNCHANGED <<store, contradicted>>
BY DEF Decides, AddDecision, CanDecide, Decided

\* What backtracking does.
LEMMA BackedAssignments ==
    ASSUME Invariant, NEW level, Backs(level)
    PROVE  /\ level \in Nat /\ level >= 1 /\ level < currentDecisionLevel
           /\ currentDecisionLevel' = level
           /\ DOMAIN assignments' = {q \in DOMAIN assignments : assignments[q].smallest <= level}
           /\ \A q \in DOMAIN assignments' :
                 assignments'[q] = BacktrackedAssignment(assignments[q], level)
           /\ nextGlobalIndex' = nextGlobalIndex
           /\ DOMAIN contradicted' = ContradictedAt(level)
           /\ \A id \in DOMAIN contradicted' : contradicted'[id] = contradicted[id]
BY DEF Backs, Backtrack

\* The assignments of the packages, with what the invariant says of them.
LEMMA AssignmentParts ==
    ASSUME Invariant, NEW p \in DOMAIN assignments
    PROVE  /\ p \in Packages
           /\ assignments[p] \in PackageAssignmentsType
           /\ HistoryWellFormed(assignments[p], currentDecisionLevel)
           /\ CausesResolvable(p, assignments[p], store)
           /\ assignments[p].dated # << >>
           /\ assignments[p].term \in TermType
           /\ currentDecisionLevel \in Nat /\ nextGlobalIndex \in Nat
<1>1. PSTypeOK /\ HistoriesWellFormed
  BY InvariantParts DEF Invariant
<1> QED BY <1>1 DEF PSTypeOK, HistoriesWellFormed, HistoryWellFormed, PackageAssignmentsType

-----------------------------------------------------------------------------
(* The histories narrow *)

HistoryNarrow(p) == Narrow(p, assignments[p], store, nextGlobalIndex)

LEMMA HistoriesNarrowEach ==
    HistoriesNarrow <=> \A p \in DOMAIN assignments : HistoryNarrow(p)
BY DEF HistoriesNarrow, HistoryNarrow, Narrow

\* Later indices are higher.
LEMMA NarrowLater ==
    ASSUME NEW a \in PackageAssignmentsType, NEW p, NEW s, NEW index \in Nat,
           Narrow(p, a, s, index)
    PROVE  Narrow(p, a, s, index + 1)
<1>1. a.index \in Nat /\ \A i \in DOMAIN a.dated : a.dated[i] \in DatedDerivationType
  BY DEF PackageAssignmentsType
<1>2. \A i \in DOMAIN a.dated : a.dated[i].index \in Nat
  BY <1>1 DEF DatedDerivationType
<1>3. IndicesBelow(a, index + 1)
  BY <1>1, <1>2 DEF Narrow, IndicesBelow
<1> QED BY <1>3 DEF Narrow

LEMMA HistoriesNarrowStep ==
    ASSUME Invariant, HistoriesNarrow, [Next]_vars
    PROVE  HistoriesNarrow'
<1>1. StoreExtends(store, store')
  BY StepExtends
<1>2. ASSUME NEW p \in DOMAIN assignments
      PROVE  Narrow(p, assignments[p], store', nextGlobalIndex)
  BY <1>1, <1>2, HistoriesNarrowEach, AssignmentParts, NarrowInExtension DEF HistoryNarrow
<1>3. ASSUME NEW p \in DOMAIN assignments'
      PROVE  Narrow(p, assignments'[p], store', nextGlobalIndex')
  <2>1. CASE Quiet
    BY <1>2, <1>3, <2>1 DEF Quiet
  <2>2. ASSUME NEW q, NEW id, Derives(q, id)
        PROVE  Narrow(p, assignments'[p], store', nextGlobalIndex')
    <3> DEFINE t == Negate(Get(store[id].terms, q))
    <3>1. /\ id \in Nat \ {NoCause} /\ t \in TermType
          /\ q \notin DOMAIN assignments \/ ~IsDecision(assignments[q])
          /\ DOMAIN assignments' = DOMAIN assignments \cup {q}
          /\ assignments'[q] = IF q \in DOMAIN assignments
                               THEN NextDerivation(assignments[q], id, t)
                               ELSE FirstDerivation(id, t)
          /\ \A r \in DOMAIN assignments : r # q => assignments'[r] = assignments[r]
          /\ nextGlobalIndex' = nextGlobalIndex + 1 /\ store' = store
      BY <2>2, DerivedAssignments
    <3>2. t = Negate(Get(store'[id].terms, q))
      BY <3>1
    <3> HIDE DEF t
    <3>3. currentDecisionLevel \in Nat /\ nextGlobalIndex \in Nat
      BY InvariantParts DEF PSTypeOK
    <3>4. CASE p # q
      <4>1. p \in DOMAIN assignments /\ assignments'[p] = assignments[p]
        BY <1>3, <3>1, <3>4
      <4>2. assignments[p] \in PackageAssignmentsType
        BY <4>1, AssignmentParts
      <4>3. Narrow(p, assignments[p], store', nextGlobalIndex)
        BY <1>2, <4>1
      <4> QED BY <3>1, <3>3, <4>1, <4>2, <4>3, NarrowLater
    <3>5. CASE p = q /\ p \in DOMAIN assignments
      <4>1. assignments[p] \in PackageAssignmentsType /\ assignments[p].dated # << >>
        BY <3>5, AssignmentParts
      <4>2. Narrow(p, assignments[p], store', nextGlobalIndex)
        BY <1>2, <3>5
      <4>3. Narrow(p, NextDerivation(assignments[p], id, t), store', nextGlobalIndex + 1)
        BY <3>1, <3>2, <3>3, <3>5, <4>1, <4>2, NextDerivationNarrow
      <4> QED BY <3>1, <3>5, <4>3
    <3>6. CASE p = q /\ p \notin DOMAIN assignments
      <4>1. Narrow(p, FirstDerivation(id, t), store', nextGlobalIndex + 1)
        BY <3>1, <3>3, FirstDerivationNarrow
      <4> QED BY <3>1, <3>6, <4>1
    <3> QED BY <3>4, <3>5, <3>6
  <2>3. ASSUME NEW q, NEW v, Decides(q, v)
        PROVE  Narrow(p, assignments'[p], store', nextGlobalIndex')
    <3>1. /\ q \in DOMAIN assignments /\ v \in Versions
          /\ ~IsDecision(assignments[q]) /\ TermContains(assignments[q].term, v)
          /\ DOMAIN assignments' = DOMAIN assignments
          /\ assignments'[q] = Decision(assignments[q], v)
          /\ \A r \in DOMAIN assignments : r # q => assignments'[r] = assignments[r]
          /\ nextGlobalIndex' = nextGlobalIndex + 1
      BY <2>3, DecidedAssignments
    <3>2. /\ assignments[p] \in PackageAssignmentsType /\ assignments[p].dated # << >>
          /\ HistoryWellFormed(assignments[p], currentDecisionLevel)
          /\ currentDecisionLevel \in Nat /\ nextGlobalIndex \in Nat
          /\ p \in DOMAIN assignments
      BY <1>3, <3>1, AssignmentParts
    <3>3. Narrow(p, assignments[p], store', nextGlobalIndex)
      BY <1>2, <3>2
    <3>4. CASE p = q
      <4>1. Narrow(p, Decision(assignments[p], v), store', nextGlobalIndex + 1)
        BY <3>1, <3>2, <3>3, <3>4, DecisionNarrow
      <4> QED BY <3>1, <3>4, <4>1
    <3>5. CASE p # q
      BY <3>1, <3>2, <3>3, <3>5, NarrowLater
    <3> QED BY <3>4, <3>5
  <2>4. ASSUME NEW level, Backs(level)
        PROVE  Narrow(p, assignments'[p], store', nextGlobalIndex')
    <3>1. /\ level \in Nat /\ nextGlobalIndex' = nextGlobalIndex
          /\ p \in DOMAIN assignments /\ assignments[p].smallest <= level
          /\ assignments'[p] = BacktrackedAssignment(assignments[p], level)
      BY <1>3, <2>4, BackedAssignments
    <3>2. /\ assignments[p] \in PackageAssignmentsType
          /\ HistoryWellFormed(assignments[p], currentDecisionLevel)
          /\ currentDecisionLevel \in Nat
      BY <3>1, AssignmentParts
    <3>3. Narrow(p, assignments[p], store', nextGlobalIndex)
      BY <1>2, <3>1
    <3>4. Narrow(p, Truncate(assignments[p], level), store', nextGlobalIndex)
      BY <3>1, <3>2, <3>3, TruncateNarrow
    <3> QED BY <3>1, <3>3, <3>4 DEF BacktrackedAssignment
  <2> QED BY <2>1, <2>2, <2>3, <2>4, StepKinds DEF TrailStep
<1> QED BY <1>3 DEF HistoriesNarrow, Narrow

-----------------------------------------------------------------------------
(* The decisions come first *)

\* What the positions of a map of n packages with `level' decisions are.
Positions(positions, n, level) ==
    /\ n \in Nat /\ level \in Nat /\ level <= n
    /\ positions \in [DOMAIN positions -> 1 .. n]
    /\ \A l \in 1 .. level : \E p \in DOMAIN positions : positions[p] = l
    /\ \A p, q \in DOMAIN positions : p # q => positions[p] # positions[q]

\* The packages up to a position whose predecessors are all there.
LEMMA FirstPositions ==
    ASSUME NEW positions, NEW n, NEW level, Positions(positions, n, level),
           NEW k \in 0 .. level
    PROVE  LET set == {q \in DOMAIN positions : positions[q] <= k}
           IN  IsFiniteSet(set) /\ Cardinality(set) = k
<1> DEFINE set == {q \in DOMAIN positions : positions[q] <= k}
           f == [q \in set |-> positions[q]]
<1>1. k \in Nat /\ k <= level /\ level \in Nat
  BY DEF Positions
<1>2. f \in [set -> 1 .. k]
  BY <1>1 DEF Positions
<1>3. \A x, y \in set : f[x] = f[y] => x = y
  BY DEF Positions
<1>4. \A l \in 1 .. k : \E q \in set : f[q] = l
  <2> TAKE l \in 1 .. k
  <2>1. l \in 1 .. level
    BY <1>1
  <2>2. PICK q \in DOMAIN positions : positions[q] = l
    BY <2>1 DEF Positions
  <2> QED BY <1>1, <2>2
<1>5. IsFiniteSet(1 .. k) /\ Cardinality(1 .. k) = k
  BY <1>1, FS_Interval
<1> HIDE DEF set, f
<1>6. f \in Injection(set, 1 .. k) /\ f \in Surjection(set, 1 .. k)
  BY <1>2, <1>3, <1>4 DEF Injection, Surjection, IsInjective
<1> QED BY <1>5, <1>6, FS_Injection DEF set

LEMMA PositionsParts ==
    ASSUME Invariant, PositionsExact
    PROVE  /\ Positions(position, Cardinality(DOMAIN assignments), currentDecisionLevel)
           /\ DOMAIN position = DOMAIN assignments
           /\ \A p \in DOMAIN assignments :
                 /\ IsDecision(assignments[p]) <=> position[p] <= currentDecisionLevel
                 /\ IsDecision(assignments[p]) => assignments[p].highest = position[p]
                 /\ position[p] \in Nat
           /\ \A p, q \in DOMAIN assignments :
                 IsDecision(assignments[p]) /\ IsDecision(assignments[q]) =>
                    (position[p] < position[q] => assignments[p].index < assignments[q].index)
<1>1. PSTypeOK
  BY InvariantParts
<1>2. Cardinality(DOMAIN assignments) \in Nat
  BY <1>1, AssignmentsFinite
<1> QED BY <1>1, <1>2 DEF PSTypeOK, PositionsExact, DecisionsFirst, Positions, Decided

\* The other way round, for the next state.
LEMMA PositionsCompose ==
    ASSUME Invariant',
           Positions(position', Cardinality(DOMAIN assignments'), currentDecisionLevel'),
           \A p \in DOMAIN assignments' :
                 /\ IsDecision(assignments'[p]) <=> position'[p] <= currentDecisionLevel'
                 /\ IsDecision(assignments'[p]) => assignments'[p].highest = position'[p],
           \A p, q \in DOMAIN assignments' :
                 IsDecision(assignments'[p]) /\ IsDecision(assignments'[q]) =>
                    (position'[p] < position'[q] => assignments'[p].index < assignments'[q].index)
    PROVE  PositionsExact'
<1>1. DOMAIN position' = DOMAIN assignments'
  BY DEF Invariant, TypeOK, PSTypeOK
<1>2. \A p \in DOMAIN assignments' : Decided(p)' <=> IsDecision(assignments'[p])
  BY DEF Decided, IsDecision
<1>3. DecisionsFirst'
  BY <1>1, <1>2 DEF DecisionsFirst, Positions
<1> QED BY <1>1, <1>3 DEF PositionsExact, Positions

LEMMA PositionsDerive ==
    ASSUME Invariant, PositionsExact, Invariant', NEW p, NEW id, Derives(p, id)
    PROVE  PositionsExact'
<1> DEFINE n == Cardinality(DOMAIN assignments)
<1>1. /\ Positions(position, n, currentDecisionLevel)
      /\ DOMAIN position = DOMAIN assignments
      /\ \A q \in DOMAIN assignments :
            /\ IsDecision(assignments[q]) <=> position[q] <= currentDecisionLevel
            /\ IsDecision(assignments[q]) => assignments[q].highest = position[q]
      /\ \A q, r \in DOMAIN assignments :
            IsDecision(assignments[q]) /\ IsDecision(assignments[r]) =>
               (position[q] < position[r] => assignments[q].index < assignments[r].index)
  BY PositionsParts
<1>2. /\ DOMAIN assignments' = DOMAIN assignments \cup {p}
      /\ p \notin DOMAIN assignments \/ ~IsDecision(assignments[p])
      /\ \A q \in DOMAIN assignments : q # p => assignments'[q] = assignments[q]
      /\ UNCHANGED currentDecisionLevel
      /\ assignments'[p] = IF p \in DOMAIN assignments
                           THEN NextDerivation(assignments[p], id, Negate(Get(store[id].terms, p)))
                           ELSE FirstDerivation(id, Negate(Get(store[id].terms, p)))
  BY DerivedAssignments
<1>3. position' = [q \in DOMAIN assignments \cup {p} |->
                      IF q \in DOMAIN assignments THEN position[q] ELSE n + 1]
  BY DEF Derives, AddDerivation
<1>4. Cardinality(DOMAIN assignments') = IF p \in DOMAIN assignments THEN n ELSE n + 1
  <2>1. IsFiniteSet(DOMAIN assignments)
    BY InvariantParts, AssignmentsFinite
  <2> QED BY <1>2, <2>1, FS_AddElement
<1>5. ~IsDecision(assignments'[p])
  <2>1. CASE p \in DOMAIN assignments
    <3>1. assignments[p] \in PackageAssignmentsType
      BY <2>1, AssignmentParts
    <3> QED BY <1>2, <2>1, <3>1 DEF IsDecision, NextDerivation, PackageAssignmentsType
  <2>2. CASE p \notin DOMAIN assignments
    BY <1>2, <2>2 DEF IsDecision, FirstDerivation
  <2> QED BY <2>1, <2>2
<1> HIDE DEF n
<1>6. n \in Nat /\ currentDecisionLevel \in Nat /\ currentDecisionLevel <= n
  BY <1>1 DEF Positions
<1>7. Positions(position', Cardinality(DOMAIN assignments'), currentDecisionLevel')
  <2>1. CASE p \in DOMAIN assignments
    <3>1. DOMAIN assignments' = DOMAIN assignments /\ DOMAIN position' = DOMAIN position
      BY <1>1, <1>2, <1>3, <2>1
    <3>2. \A q \in DOMAIN position : position'[q] = position[q]
      BY <1>1, <1>3
    <3>3. position' \in [DOMAIN position' -> 1 .. n]
      BY <1>1, <1>3, <3>1, <3>2 DEF Positions
    <3> QED BY <1>1, <1>2, <1>4, <2>1, <3>1, <3>2, <3>3 DEF Positions
  <2>2. CASE p \notin DOMAIN assignments
    <3>1. /\ DOMAIN position' = DOMAIN position \cup {p} /\ position'[p] = n + 1
          /\ \A q \in DOMAIN position : position'[q] = position[q] /\ position[q] \in 1 .. n
      BY <1>1, <1>3, <2>2 DEF Positions
    <3>2. position' \in [DOMAIN position' -> 1 .. n + 1]
      BY <1>3, <1>6, <3>1
    <3>3. \A q, r \in DOMAIN position' : q # r => position'[q] # position'[r]
      BY <1>1, <1>6, <3>1 DEF Positions
    <3>4. \A l \in 1 .. currentDecisionLevel : \E q \in DOMAIN position' : position'[q] = l
      BY <1>1, <3>1 DEF Positions
    <3> QED BY <1>2, <1>4, <1>6, <2>2, <3>2, <3>3, <3>4 DEF Positions
  <2> QED BY <2>1, <2>2
<1>8. \A q \in DOMAIN assignments' :
         /\ IsDecision(assignments'[q]) <=> position'[q] <= currentDecisionLevel'
         /\ IsDecision(assignments'[q]) => assignments'[q].highest = position'[q]
  BY <1>1, <1>2, <1>3, <1>5, <1>6
<1>9. \A q, r \in DOMAIN assignments' :
         IsDecision(assignments'[q]) /\ IsDecision(assignments'[r]) =>
            (position'[q] < position'[r] => assignments'[q].index < assignments'[r].index)
  BY <1>1, <1>2, <1>3, <1>5
<1> QED BY <1>7, <1>8, <1>9, PositionsCompose

LEMMA PositionsDecide ==
    ASSUME Invariant, PositionsExact, HistoriesNarrow, Invariant', NEW p, NEW v, Decides(p, v)
    PROVE  PositionsExact'
<1> DEFINE n == Cardinality(DOMAIN assignments)
           new == currentDecisionLevel + 1
<1>1. /\ Positions(position, n, currentDecisionLevel)
      /\ DOMAIN position = DOMAIN assignments
      /\ \A q \in DOMAIN assignments :
            /\ IsDecision(assignments[q]) <=> position[q] <= currentDecisionLevel
            /\ IsDecision(assignments[q]) => assignments[q].highest = position[q]
      /\ \A q, r \in DOMAIN assignments :
            IsDecision(assignments[q]) /\ IsDecision(assignments[r]) =>
               (position[q] < position[r] => assignments[q].index < assignments[r].index)
  BY PositionsParts
<1>2. /\ p \in DOMAIN assignments /\ v \in Versions
      /\ ~IsDecision(assignments[p])
      /\ DOMAIN assignments' = DOMAIN assignments
      /\ assignments'[p] = Decision(assignments[p], v)
      /\ \A q \in DOMAIN assignments : q # p => assignments'[q] = assignments[q]
      /\ currentDecisionLevel' = new
  BY DecidedAssignments
<1>3. position' = [q \in DOMAIN position |-> IF q = p THEN new
                                             ELSE IF position[q] = new THEN position[p]
                                             ELSE position[q]]
  BY DEF Decides, AddDecision, MoveToDecisions
<1>4. /\ IsDecision(assignments'[p]) /\ assignments'[p].highest = new
      /\ assignments'[p].index = nextGlobalIndex
  <2>1. assignments[p] \in PackageAssignmentsType
    BY <1>2, AssignmentParts
  <2> QED BY <1>2, <2>1, NoVersionAssumption DEF IsDecision, Decision, PackageAssignmentsType
<1>5. \A q \in DOMAIN assignments : IsDecision(assignments[q]) =>
         assignments[q].index < nextGlobalIndex
  BY DEF HistoriesNarrow, IndicesBelow
<1> HIDE DEF n
<1>6. n \in Nat /\ currentDecisionLevel \in Nat /\ new \in Nat /\ new > currentDecisionLevel
      /\ \A l \in 1 .. new : l = new \/ l \in 1 .. currentDecisionLevel
  BY <1>1 DEF Positions
<1>7. position[p] \in 1 .. n /\ new <= n /\ position[p] >= new
  BY <1>1, <1>2, <1>6 DEF Positions
<1> HIDE DEF new
<1>8. \A q \in DOMAIN assignments : q # p =>
         /\ position[q] \in 1 .. n /\ position[q] # position[p]
         /\ position[q] = new => position'[q] = position[p] /\ position[p] > new
         /\ position[q] # new => position'[q] = position[q]
  BY <1>1, <1>2, <1>3, <1>6, <1>7 DEF Positions
<1>9. position'[p] = new /\ DOMAIN position' = DOMAIN assignments'
  BY <1>1, <1>2, <1>3
<1>10. Positions(position', n, new)
  <2>1. position' \in [DOMAIN position' -> 1 .. n]
    BY <1>1, <1>2, <1>3, <1>6, <1>7, <1>8, <1>9
  <2>2. \A l \in 1 .. new : \E q \in DOMAIN position' : position'[q] = l
    <3> TAKE l \in 1 .. new
    <3>1. CASE l = new
      BY <1>2, <1>9, <3>1
    <3>2. CASE l # new
      <4>1. l \in 1 .. currentDecisionLevel
        BY <1>6, <3>2
      <4>2. PICK q \in DOMAIN position : position[q] = l
        BY <1>1, <4>1 DEF Positions
      <4>3. q # p
        BY <1>6, <1>7, <4>1, <4>2
      <4> QED BY <1>1, <1>2, <1>8, <1>9, <3>2, <4>2, <4>3
    <3> QED BY <3>1, <3>2
  <2>3. \A q, r \in DOMAIN position' : q # r => position'[q] # position'[r]
    <3> SUFFICES ASSUME NEW q \in DOMAIN assignments, NEW r \in DOMAIN assignments, q # r
                 PROVE  position'[q] # position'[r]
      BY <1>2, <1>9
    <3>1. position[q] # position[r]
      BY <1>1 DEF Positions
    <3>2. CASE q = p
      BY <1>6, <1>8, <1>9, <3>2
    <3>3. CASE r = p
      BY <1>6, <1>8, <1>9, <3>3
    <3>4. CASE q # p /\ r # p
      BY <1>8, <3>1, <3>4
    <3> QED BY <3>2, <3>3, <3>4
  <2> QED BY <1>6, <1>7, <2>1, <2>2, <2>3 DEF Positions
<1>11. \A q \in DOMAIN assignments :
         /\ IsDecision(assignments'[q]) <=> position'[q] <= new
         /\ IsDecision(assignments'[q]) => assignments'[q].highest = position'[q]
  <2> TAKE q \in DOMAIN assignments
  <2>1. CASE q = p
    BY <1>4, <1>6, <1>9, <2>1
  <2>2. CASE q # p
    <3>1. assignments'[q] = assignments[q]
      BY <1>2, <2>2
    <3>2. /\ IsDecision(assignments[q]) <=> position[q] <= currentDecisionLevel
          /\ IsDecision(assignments[q]) => assignments[q].highest = position[q]
      BY <1>1
    <3>3. position[q] <= currentDecisionLevel <=> position'[q] <= new
      BY <1>6, <1>7, <1>8, <2>2 DEF new
    <3>4. position[q] <= currentDecisionLevel => position'[q] = position[q]
      BY <1>6, <1>7, <1>8, <2>2
    <3> QED BY <3>1, <3>2, <3>3, <3>4
  <2> QED BY <2>1, <2>2
<1>12. \A q, r \in DOMAIN assignments :
         IsDecision(assignments'[q]) /\ IsDecision(assignments'[r]) =>
            (position'[q] < position'[r] => assignments'[q].index < assignments'[r].index)
  <2> SUFFICES ASSUME NEW q \in DOMAIN assignments, NEW r \in DOMAIN assignments,
                      IsDecision(assignments'[q]), IsDecision(assignments'[r]),
                      position'[q] < position'[r]
               PROVE  assignments'[q].index < assignments'[r].index
    OBVIOUS
  <2>1. q # p
    <3>1. position'[r] <= new /\ position'[r] \in 1 .. n
      BY <1>2, <1>9, <1>10, <1>11 DEF Positions
    <3> QED BY <1>6, <1>7, <1>9, <3>1
  <2>2. assignments'[q] = assignments[q] /\ position[q] <= currentDecisionLevel
        /\ position'[q] = position[q]
    <3>1. assignments'[q] = assignments[q] /\ position[q] <= currentDecisionLevel
      BY <1>1, <1>2, <2>1
    <3>2. position[q] # new
      BY <1>6, <1>8, <2>1, <3>1
    <3> QED BY <1>8, <2>1, <3>1, <3>2
  <2>3. CASE r = p
    BY <1>4, <1>5, <2>2, <2>3
  <2>4. CASE r # p
    <3>1. assignments'[r] = assignments[r] /\ position[r] <= currentDecisionLevel
      BY <1>1, <1>2, <2>4
    <3>2. position'[r] = position[r]
      BY <1>6, <1>8, <2>4, <3>1
    <3> QED BY <1>1, <2>2, <3>1, <3>2
  <2> QED BY <2>3, <2>4
<1> QED BY <1>2, <1>10, <1>11, <1>12, PositionsCompose DEF n

\* How many of the kept packages have a position up to k.
Rank(positions, kept, k) == Cardinality({q \in kept : positions[q] <= k})

\* Ranks are positions again, and those up to a position all of whose
\* predecessors are kept stay.
LEMMA RanksArePositions ==
    ASSUME NEW positions, NEW n, NEW now, Positions(positions, n, now),
           NEW kept \in SUBSET DOMAIN positions, IsFiniteSet(kept),
           NEW level \in Nat, level <= now,
           \A p \in DOMAIN positions : positions[p] <= level => p \in kept,
           NEW ranks, ranks = [p \in kept |-> Rank(positions, kept, positions[p])]
    PROVE  /\ Positions(ranks, Cardinality(kept), level)
           /\ \A p \in kept : positions[p] <= level => ranks[p] = positions[p]
           /\ \A p \in kept : positions[p] <= level <=> ranks[p] <= level
<1> DEFINE upTo(k) == {q \in kept : positions[q] <= k}
           m == Cardinality(kept)
<1>1. m \in Nat /\ now \in Nat /\ n \in Nat
  BY FS_CardinalityType DEF Positions
<1>2. \A p \in DOMAIN positions : positions[p] \in Nat /\ positions[p] >= 1
  BY DEF Positions
<1>3. \A k \in Nat : IsFiniteSet(upTo(k)) /\ Cardinality(upTo(k)) \in Nat
                     /\ Cardinality(upTo(k)) <= m
  <2> TAKE k \in Nat
  <2>1. upTo(k) \in SUBSET kept
    OBVIOUS
  <2> HIDE DEF upTo
  <2> QED BY <2>1, FS_Subset, FS_CardinalityType
<1>4. \A k \in 0 .. level : Cardinality(upTo(k)) = k
  <2> TAKE k \in 0 .. level
  <2>1. k \in 0 .. now /\ k \in Nat /\ k <= level
    BY <1>1
  <2>2. upTo(k) = {q \in DOMAIN positions : positions[q] <= k}
    BY <1>2, <2>1
  <2> HIDE DEF upTo
  <2> QED BY <2>1, <2>2, FirstPositions
<1>5. \A p \in kept : ranks[p] = Cardinality(upTo(positions[p]))
  BY DEF Rank
<1>6. \A p \in kept, q \in kept : positions[p] < positions[q] => ranks[p] < ranks[q]
  <2> SUFFICES ASSUME NEW p \in kept, NEW q \in kept, positions[p] < positions[q]
               PROVE  ranks[p] < ranks[q]
    OBVIOUS
  <2>1. positions[p] \in Nat /\ positions[q] \in Nat
    BY <1>2
  <2>2. upTo(positions[p]) \in SUBSET upTo(positions[q])
    BY <1>2, <2>1
  <2>3. q \in upTo(positions[q]) /\ q \notin upTo(positions[p])
    BY <2>1
  <2> HIDE DEF upTo
  <2>4. /\ Cardinality(upTo(positions[p])) <= Cardinality(upTo(positions[q]))
        /\ Cardinality(upTo(positions[p])) # Cardinality(upTo(positions[q]))
    BY <1>3, <2>1, <2>2, <2>3, FS_Subset
  <2> QED BY <1>3, <1>5, <2>1, <2>4
<1>7. \A p \in kept : positions[p] <= level => ranks[p] = positions[p]
  <2> SUFFICES ASSUME NEW p \in kept, positions[p] <= level
               PROVE  ranks[p] = positions[p]
    OBVIOUS
  <2>1. positions[p] \in 0 .. level
    BY <1>2
  <2> HIDE DEF upTo
  <2> QED BY <1>4, <1>5, <2>1
<1>8. \A p \in kept : positions[p] > level => ranks[p] > level
  <2> SUFFICES ASSUME NEW p \in kept, positions[p] > level
               PROVE  ranks[p] > level
    OBVIOUS
  <2>1. positions[p] \in Nat
    BY <1>2
  <2>2. upTo(level) \in SUBSET upTo(positions[p])
    BY <1>2, <2>1
  <2>3. p \in upTo(positions[p]) /\ p \notin upTo(level)
    BY <1>2, <2>1
  <2> HIDE DEF upTo
  <2>4. /\ Cardinality(upTo(level)) <= Cardinality(upTo(positions[p]))
        /\ Cardinality(upTo(level)) # Cardinality(upTo(positions[p]))
    BY <1>3, <2>1, <2>2, <2>3, FS_Subset
  <2>5. Cardinality(upTo(level)) = level
    BY <1>4
  <2> QED BY <1>3, <1>5, <2>1, <2>4, <2>5
<1>9. \A p \in kept : ranks[p] \in 1 .. m
  <2> TAKE p \in kept
  <2>1. positions[p] \in Nat
    BY <1>2
  <2>2. p \in upTo(positions[p])
    BY <2>1
  <2> HIDE DEF upTo
  <2>3. Cardinality(upTo(positions[p])) # 0
    BY <1>3, <2>1, <2>2, FS_EmptySet
  <2> QED BY <1>1, <1>3, <1>5, <2>1, <2>3
<1>10. level <= m
  <2>1. Cardinality(upTo(level)) = level /\ Cardinality(upTo(level)) <= m
    BY <1>3, <1>4
  <2> QED BY <2>1
<1> HIDE DEF upTo, m
<1>11. DOMAIN ranks = kept /\ ranks \in [DOMAIN ranks -> 1 .. m]
  BY <1>9
<1>12. \A l \in 1 .. level : \E p \in DOMAIN ranks : ranks[p] = l
  <2> TAKE l \in 1 .. level
  <2>1. l \in 1 .. now
    BY <1>1
  <2>2. PICK p \in DOMAIN positions : positions[p] = l
    BY <2>1 DEF Positions
  <2>3. p \in kept
    BY <2>2
  <2> QED BY <1>7, <1>11, <2>2, <2>3
<1>13. \A p, q \in DOMAIN ranks : p # q => ranks[p] # ranks[q]
  <2> SUFFICES ASSUME NEW p \in kept, NEW q \in kept, p # q
               PROVE  ranks[p] # ranks[q]
    BY <1>11
  <2>1. positions[p] # positions[q] /\ positions[p] \in Nat /\ positions[q] \in Nat
    BY <1>2 DEF Positions
  <2>2. ranks[p] \in Nat /\ ranks[q] \in Nat
    BY <1>1, <1>9
  <2> QED BY <1>6, <2>1, <2>2
<1>14. Positions(ranks, m, level)
  BY <1>1, <1>10, <1>11, <1>12, <1>13 DEF Positions
<1>15. \A p \in kept : positions[p] <= level <=> ranks[p] <= level
  BY <1>1, <1>2, <1>7, <1>8, <1>9
<1> QED BY <1>7, <1>14, <1>15 DEF m

LEMMA PositionsBack ==
    ASSUME Invariant, PositionsExact, Invariant', NEW level, Backs(level)
    PROVE  PositionsExact'
<1> DEFINE n == Cardinality(DOMAIN assignments)
           kept == DOMAIN assignments'
<1>1. /\ Positions(position, n, currentDecisionLevel)
      /\ DOMAIN position = DOMAIN assignments
      /\ \A q \in DOMAIN assignments :
            /\ IsDecision(assignments[q]) <=> position[q] <= currentDecisionLevel
            /\ IsDecision(assignments[q]) => assignments[q].highest = position[q]
            /\ position[q] \in Nat
      /\ \A q, r \in DOMAIN assignments :
            IsDecision(assignments[q]) /\ IsDecision(assignments[r]) =>
               (position[q] < position[r] => assignments[q].index < assignments[r].index)
  BY PositionsParts
<1>2. /\ level \in Nat /\ level < currentDecisionLevel
      /\ currentDecisionLevel' = level
      /\ kept = {q \in DOMAIN assignments : assignments[q].smallest <= level}
      /\ \A q \in kept : assignments'[q] = BacktrackedAssignment(assignments[q], level)
  BY BackedAssignments
<1>3. position' = [p \in kept |-> Cardinality({q \in kept : position[q] <= position[p]})]
  BY <1>2 DEF Backs, Backtrack
<1>4. position' = [p \in kept |-> Rank(position, kept, position[p])]
  BY <1>3 DEF Rank
<1>5. kept \in SUBSET DOMAIN position /\ IsFiniteSet(kept)
  <2>1. kept \in SUBSET DOMAIN assignments
    BY <1>2
  <2> QED BY <1>1, <2>1, InvariantParts, AssignmentsFinite
<1>6. currentDecisionLevel \in Nat
  BY InvariantParts DEF PSTypeOK
<1>7. \A q \in DOMAIN assignments :
         /\ assignments[q].smallest \in Nat /\ assignments[q].highest \in Nat
         /\ assignments[q].smallest <= assignments[q].highest
  <2> TAKE q \in DOMAIN assignments
  <2>1. assignments[q] \in PackageAssignmentsType
        /\ HistoryWellFormed(assignments[q], currentDecisionLevel)
    BY AssignmentParts
  <2>2. 1 \in DOMAIN assignments[q].dated
    BY <2>1 DEF HistoryWellFormed, PackageAssignmentsType
  <2> QED BY <2>1, <2>2 DEF HistoryWellFormed, PackageAssignmentsType
<1>8. \A q \in DOMAIN assignments : position[q] <= level =>
         q \in kept /\ IsDecision(assignments[q]) /\ assignments[q].highest <= level
  <2> SUFFICES ASSUME NEW q \in DOMAIN assignments, position[q] <= level
               PROVE  q \in kept /\ IsDecision(assignments[q]) /\ assignments[q].highest <= level
    OBVIOUS
  <2> HIDE DEF kept
  <2>1. position[q] <= currentDecisionLevel
    BY <1>1, <1>2, <1>6
  <2> QED BY <1>1, <1>2, <1>7, <2>1
<1> HIDE DEF n, kept
<1>9. /\ Positions(position', Cardinality(kept), level)
      /\ \A p \in kept : position[p] <= level => position'[p] = position[p]
      /\ \A p \in kept : position[p] <= level <=> position'[p] <= level
  <2>1. level <= currentDecisionLevel
    BY <1>2, <1>6
  <2>2. \A p \in DOMAIN position : position[p] <= level => p \in kept
    BY <1>1, <1>8
  <2> QED BY <1>1, <1>2, <1>4, <1>5, <1>6, <2>1, <2>2, RanksArePositions
<1>10. \A q \in kept :
         /\ IsDecision(assignments'[q]) <=> position[q] <= level
         /\ IsDecision(assignments'[q]) => assignments'[q] = assignments[q]
  <2> TAKE q \in kept
  <2>1. q \in DOMAIN assignments
    BY <1>2
  <2>2. CASE assignments[q].highest <= level
    <3>1. assignments'[q] = assignments[q]
      BY <1>2, <2>2 DEF BacktrackedAssignment
    <3>2. IsDecision(assignments[q]) => position[q] <= level
      BY <1>1, <2>1, <2>2
    <3> QED BY <1>8, <2>1, <3>1, <3>2
  <2>3. CASE ~(assignments[q].highest <= level)
    <3>1. assignments'[q] = Truncate(assignments[q], level)
      BY <1>2, <2>3 DEF BacktrackedAssignment
    <3>2. ~IsDecision(assignments'[q])
      <4>1. assignments[q] \in PackageAssignmentsType
        BY <2>1, AssignmentParts
      <4> QED BY <3>1, <4>1 DEF IsDecision, Truncate, PackageAssignmentsType
    <3> QED BY <1>8, <2>1, <2>3, <3>2
  <2> QED BY <2>2, <2>3
<1>11. \A q \in kept :
         /\ IsDecision(assignments'[q]) <=> position'[q] <= level
         /\ IsDecision(assignments'[q]) => assignments'[q].highest = position'[q]
  <2> TAKE q \in kept
  <2>1. q \in DOMAIN assignments
    BY <1>2
  <2> QED BY <1>1, <1>9, <1>10, <2>1
<1>12. \A q, r \in kept :
         IsDecision(assignments'[q]) /\ IsDecision(assignments'[r]) =>
            (position'[q] < position'[r] => assignments'[q].index < assignments'[r].index)
  BY <1>1, <1>2, <1>9, <1>10
<1> QED BY <1>2, <1>9, <1>11, <1>12, PositionsCompose DEF kept

LEMMA PositionsStep ==
    ASSUME Invariant, HistoriesNarrow, PositionsExact, [Next]_vars
    PROVE  PositionsExact'
<1>1. Invariant'
  BY NextInvariant
<1>2. CASE Quiet
  <2>1. \A p : Decided(p)' <=> Decided(p)
    BY <1>2 DEF Quiet, Decided
  <2>2. DecisionsFirst'
    BY <1>2, <2>1 DEF Quiet, DecisionsFirst, PositionsExact
  <2> QED BY <1>2, <2>2 DEF Quiet, PositionsExact
<1> QED BY <1>1, <1>2, PositionsDerive, PositionsDecide, PositionsBack, StepKinds DEF TrailStep

-----------------------------------------------------------------------------
(* What is ruled out stays so until backtracking below its level *)

LEMMA RuledOutStays ==
    ASSUME Invariant, [Next]_vars, NEW x, NEW level \in Nat, RuledOut(x, level),
           level <= currentDecisionLevel'
    PROVE  RuledOut(x, level)'
<1> DEFINE p == x[1]
           u == x[2]
           a == assignments[p]
<1>1. p \in DOMAIN assignments /\ RuledOutBy(a, u, level)
  BY DEF RuledOut
<1>2. /\ a \in PackageAssignmentsType /\ HistoryWellFormed(a, currentDecisionLevel)
      /\ currentDecisionLevel \in Nat
  BY <1>1, AssignmentParts
<1> SUFFICES p \in DOMAIN assignments' /\ RuledOutBy(assignments'[p], u, level)
  BY DEF RuledOut
<1> HIDE DEF p, u
<1>3. CASE Quiet
  BY <1>1, <1>3 DEF Quiet
<1>4. ASSUME NEW q, NEW id, Derives(q, id)
      PROVE  p \in DOMAIN assignments' /\ RuledOutBy(assignments'[p], u, level)
  <2> DEFINE t == Negate(Get(store[id].terms, q))
  <2>1. /\ q \notin DOMAIN assignments \/ ~IsDecision(assignments[q])
        /\ DOMAIN assignments' = DOMAIN assignments \cup {q}
        /\ q \in DOMAIN assignments => assignments'[q] = NextDerivation(assignments[q], id, t)
        /\ \A r \in DOMAIN assignments : r # q => assignments'[r] = assignments[r]
    BY <1>4, DerivedAssignments
  <2> HIDE DEF t
  <2>2. CASE p = q
    BY <1>1, <1>2, <2>1, <2>2, NextDerivationKeepsRuledOut
  <2>3. CASE p # q
    BY <1>1, <2>1, <2>3
  <2> QED BY <2>2, <2>3
<1>5. ASSUME NEW q, NEW v, Decides(q, v)
      PROVE  p \in DOMAIN assignments' /\ RuledOutBy(assignments'[p], u, level)
  BY <1>1, <1>2, <1>5, DecidedAssignments, DecisionKeepsRuledOut
<1>6. ASSUME NEW cut, Backs(cut)
      PROVE  p \in DOMAIN assignments' /\ RuledOutBy(assignments'[p], u, level)
  <2>1. /\ cut \in Nat /\ currentDecisionLevel' = cut
        /\ DOMAIN assignments' = {q \in DOMAIN assignments : assignments[q].smallest <= cut}
        /\ \A q \in DOMAIN assignments' :
              assignments'[q] = BacktrackedAssignment(assignments[q], cut)
    BY <1>6, BackedAssignments
  <2>2. a.smallest <= cut /\ RuledOutBy(BacktrackedAssignment(a, cut), u, level)
    BY <1>1, <1>2, <2>1, BacktrackKeepsRuledOut
  <2> QED BY <1>1, <2>1, <2>2
<1> QED BY <1>3, <1>4, <1>5, <1>6, StepKinds DEF TrailStep

\* What a derivation rules out.
LEMMA DerivationRulesOut ==
    ASSUME Invariant, NEW p, NEW id, Derives(p, id),
           NEW x, x = <<p, Get(store[id].terms, p)>>,
           NEW level, level = currentDecisionLevel
    PROVE  RuledOut(x, level)'
<1> DEFINE u == Get(store[id].terms, p)
           b == assignments'[p]
<1>1. /\ u \in TermType /\ id \in Nat \ {NoCause} /\ p \in DOMAIN assignments'
      /\ p \notin DOMAIN assignments \/ ~IsDecision(assignments[p])
      /\ b = IF p \in DOMAIN assignments THEN NextDerivation(assignments[p], id, Negate(u))
                                         ELSE FirstDerivation(id, Negate(u))
      /\ UNCHANGED currentDecisionLevel
  BY DerivedAssignments
<1> DEFINE first == DatedDerivation(id, Negate(u))
           next1 == DatedDerivation(id, Intersection(assignments[p].term, Negate(u)))
<1>2. /\ first.level = currentDecisionLevel /\ first.term = Negate(u)
      /\ next1.level = currentDecisionLevel
      /\ next1.term = Intersection(assignments[p].term, Negate(u))
  BY DEF DatedDerivation
<1>3. CASE p \in DOMAIN assignments
  <2>1. assignments[p] \in PackageAssignmentsType /\ assignments[p].term \in TermType
    BY <1>3, AssignmentParts
  <2>2. b.dated = Append(assignments[p].dated, next1)
        /\ assignments[p].dated \in Seq(DatedDerivationType)
    BY <1>1, <1>3, <2>1 DEF NextDerivation, PackageAssignmentsType
  <2>3. IsDisjoint(u, Intersection(assignments[p].term, Negate(u)))
    BY <1>1, <2>1, NegationRulesOut
  <2> HIDE DEF u, b, first, next1
  <2> DEFINE i == Len(assignments[p].dated) + 1
  <2>4. i \in DOMAIN b.dated /\ b.dated[i] = next1
    BY <2>2
  <2>5. currentDecisionLevel \in Nat
    BY InvariantParts DEF PSTypeOK
  <2> HIDE DEF i
  <2>6. RuledOutBy(b, u, currentDecisionLevel)
    BY <1>2, <2>3, <2>4, <2>5 DEF RuledOutBy
  <2> QED BY <1>1, <2>6 DEF RuledOut, u, b
<1>4. CASE p \notin DOMAIN assignments
  <2>1. b.dated = <<first>>
    BY <1>1, <1>4 DEF FirstDerivation
  <2>2. IsDisjoint(u, Negate(u))
    BY <1>1, NegationRulesOut
  <2> HIDE DEF u, b, first, next1
  <2>3. 1 \in DOMAIN b.dated /\ b.dated[1] = first
    BY <2>1
  <2>4. currentDecisionLevel \in Nat
    BY InvariantParts DEF PSTypeOK
  <2>5. RuledOutBy(b, u, currentDecisionLevel)
    BY <1>2, <2>2, <2>3, <2>4 DEF RuledOutBy
  <2> QED BY <1>1, <2>5 DEF RuledOut, u, b
<1> QED BY <1>3, <1>4

\* What unit propagation finds contradicted is ruled out since some level.
LEMMA ContradictedRuledOut ==
    ASSUME Invariant, HistoriesNarrow, NEW x, EntryContradicted(x, Known)
    PROVE  RuledOut(x, currentDecisionLevel)
<1>1. x[1] \in DOMAIN assignments /\ IsDisjoint(x[2], assignments[x[1]].term)
  BY DEF EntryContradicted, TermContradicted, Known
<1>2. HistoryNarrow(x[1])
  BY <1>1, HistoriesNarrowEach
<1>3. RuledOutBy(assignments[x[1]], x[2], currentDecisionLevel)
  BY <1>1, <1>2, AssignmentParts, RuledOutSoFar DEF HistoryNarrow
<1> QED BY <1>1, <1>3 DEF RuledOut

\* The incompatibilities marked in the next state are those marked before, if
\* backtracking did not go below their level, or the one just found.
LEMMA Marked ==
    ASSUME Invariant, HistoriesNarrow, [Next]_vars, NEW id \in DOMAIN contradicted'
    PROVE  \/ /\ id \in DOMAIN contradicted /\ contradicted'[id] = contradicted[id]
              /\ contradicted[id] <= currentDecisionLevel => contradicted[id] <= currentDecisionLevel'
           \/ /\ id \in Ids /\ contradicted'[id] = currentDecisionLevel
              /\ currentDecisionLevel' = currentDecisionLevel
              /\ \E x \in store[id].terms : RuledOut(x, currentDecisionLevel)'
<1>0. PSTypeOK /\ CoreTypeOK
  BY InvariantParts
<1>1. /\ currentDecisionLevel \in Nat
      /\ \A i \in DOMAIN contradicted : contradicted[i] \in Nat
  BY <1>0 DEF PSTypeOK, CoreTypeOK
<1>2. ASSUME NEW i \in Ids, MarkContradicted(i), currentDecisionLevel' = currentDecisionLevel,
             \E x \in store[i].terms : RuledOut(x, currentDecisionLevel)'
      PROVE  \/ id \in DOMAIN contradicted /\ contradicted'[id] = contradicted[id]
             \/ /\ id \in Ids /\ contradicted'[id] = currentDecisionLevel
                /\ \E x \in store[id].terms : RuledOut(x, currentDecisionLevel)'
  <2>1. contradicted' = [j \in DOMAIN contradicted \cup {i} |->
                            IF j = i THEN currentDecisionLevel ELSE contradicted[j]]
    BY <1>2 DEF MarkContradicted
  <2>2. CASE id = i
    BY <1>2, <2>1, <2>2
  <2>3. CASE id # i
    BY <2>1, <2>3
  <2> QED BY <2>2, <2>3
<1>3. CASE Quiet
  <2>1. CASE UNCHANGED contradicted
    BY <1>3, <2>1 DEF Quiet
  <2>2. ASSUME NEW i \in Ids, HasContradicted(store[i].terms, Known), MarkContradicted(i)
        PROVE  \E x \in store[i].terms : RuledOut(x, currentDecisionLevel)'
    <3>1. PICK x \in store[i].terms : EntryContradicted(x, Known)
      BY <2>2 DEF HasContradicted
    <3>2. RuledOut(x, currentDecisionLevel)
      BY <3>1, ContradictedRuledOut
    <3>3. currentDecisionLevel' = currentDecisionLevel /\ assignments' = assignments
      BY <1>3 DEF Quiet
    <3>4. RuledOut(x, currentDecisionLevel)'
      BY <3>2, <3>3 DEF RuledOut
    <3> QED BY <3>4
  <2>3. ASSUME NEW i \in Ids, HasContradicted(store[i].terms, Known), MarkContradicted(i)
        PROVE  \/ id \in DOMAIN contradicted /\ contradicted'[id] = contradicted[id]
               \/ /\ id \in Ids /\ contradicted'[id] = currentDecisionLevel
                  /\ \E x \in store[id].terms : RuledOut(x, currentDecisionLevel)'
    BY <1>2, <1>3, <2>2, <2>3 DEF Quiet
  <2> QED BY <1>3, <2>1, <2>3 DEF Quiet
<1>4. ASSUME NEW p, NEW i, Derives(p, i)
      PROVE  /\ currentDecisionLevel' = currentDecisionLevel
             /\ \/ id \in DOMAIN contradicted /\ contradicted'[id] = contradicted[id]
                \/ /\ id \in Ids /\ contradicted'[id] = currentDecisionLevel
                   /\ \E x \in store[id].terms : RuledOut(x, currentDecisionLevel)'
  <2>1. /\ currentDecisionLevel' = currentDecisionLevel
        /\ <<p, Get(store[i].terms, p)>> \in store[i].terms
    BY <1>4, DerivedAssignments
  <2>2. PICK x \in store[i].terms : x = <<p, Get(store[i].terms, p)>>
    BY <2>1
  <2>3. PICK level : level = currentDecisionLevel
    OBVIOUS
  <2>4. RuledOut(x, level)'
    BY <1>4, <2>2, <2>3, DerivationRulesOut
  <2>5. RuledOut(x, currentDecisionLevel)'
    BY <2>1, <2>3, <2>4 DEF RuledOut
  <2>6. i \in Ids /\ MarkContradicted(i)
    BY <1>4 DEF Derives
  <2> QED BY <1>2, <2>1, <2>2, <2>5, <2>6
<1>5. ASSUME NEW p, NEW v, Decides(p, v)
      PROVE  /\ id \in DOMAIN contradicted /\ contradicted'[id] = contradicted[id]
             /\ contradicted[id] <= currentDecisionLevel => contradicted[id] <= currentDecisionLevel'
  BY <1>1, <1>5, DecidedAssignments
<1>6. ASSUME NEW level, Backs(level)
      PROVE  /\ id \in DOMAIN contradicted /\ contradicted'[id] = contradicted[id]
             /\ contradicted[id] <= currentDecisionLevel => contradicted[id] <= currentDecisionLevel'
  <2>1. id \in ContradictedAt(level) /\ contradicted'[id] = contradicted[id]
        /\ currentDecisionLevel' = level
    BY <1>6, BackedAssignments
  <2> QED BY <2>1 DEF ContradictedAt
<1> QED BY <1>3, <1>4, <1>5, <1>6, StepKinds DEF TrailStep

LEMMA MarksRuledOutStep ==
    ASSUME Invariant, HistoriesNarrow, MarksRuledOut, [Next]_vars
    PROVE  MarksRuledOut'
<1>1. StoreExtends(store, store') /\ CoreTypeOK /\ PSTypeOK
  BY StepExtends, InvariantParts
<1>2. currentDecisionLevel \in Nat /\ DOMAIN contradicted \subseteq Ids
      /\ \A i \in DOMAIN contradicted : contradicted[i] \in Nat
  BY <1>1 DEF PSTypeOK, CoreTypeOK
<1>3. \A i \in Ids : store'[i] = store[i]
  BY <1>1 DEF StoreExtends, Ids
<1>4. ASSUME NEW id \in DOMAIN contradicted'
      PROVE  /\ contradicted'[id] <= currentDecisionLevel'
             /\ \E x \in store'[id].terms : RuledOut(x, contradicted[id])'
  <2>1. CASE /\ id \in DOMAIN contradicted /\ contradicted'[id] = contradicted[id]
             /\ contradicted[id] <= currentDecisionLevel => contradicted[id] <= currentDecisionLevel'
    <3>1. PICK x \in store[id].terms : RuledOut(x, contradicted[id])
      BY <2>1 DEF MarksRuledOut
    <3> DEFINE level == contradicted[id]
    <3>2. level \in Nat /\ level <= currentDecisionLevel' /\ contradicted'[id] = level
      BY <1>2, <2>1 DEF MarksRuledOut
    <3>3. PICK l \in Nat : l = level
      BY <3>2
    <3>4. RuledOut(x, l)'
      <4>1. RuledOut(x, l) /\ l <= currentDecisionLevel'
        BY <3>1, <3>2, <3>3
      <4> QED BY <4>1, RuledOutStays
    <3>5. RuledOut(x, contradicted[id])'
      BY <3>2, <3>3, <3>4 DEF RuledOut
    <3>6. store'[id] = store[id]
      BY <1>2, <1>3, <2>1
    <3> QED BY <3>2, <3>5, <3>6
  <2>2. CASE /\ id \in Ids /\ contradicted'[id] = currentDecisionLevel
             /\ currentDecisionLevel' = currentDecisionLevel
             /\ \E x \in store[id].terms : RuledOut(x, currentDecisionLevel)'
    <3>1. PICK x \in store[id].terms : RuledOut(x, currentDecisionLevel)'
      BY <2>2
    <3>2. RuledOut(x, contradicted[id])'
      BY <2>2, <3>1 DEF RuledOut
    <3> QED BY <1>2, <1>3, <2>2, <3>2
  <2> QED BY <1>4, <2>1, <2>2, Marked
<1> QED BY <1>4 DEF MarksRuledOut

-----------------------------------------------------------------------------
(* The queue of packages *)

LEMMA PrioritiesFreshStep ==
    ASSUME Invariant, PrioritiesFresh, [Next]_vars
    PROVE  PrioritiesFresh'
<1> SUFFICES ASSUME NEW p \in DOMAIN prioritized', Potential(p)', p \notin outdated'
             PROVE  prioritized'[p] = assignments'[p].term.set
  BY DEF PrioritiesFresh
<1>1. p \in DOMAIN assignments' /\ IsPotential(assignments'[p])
  BY DEF Potential, IsPotential
<1>2. ASSUME p \in DOMAIN prioritized, p \notin outdated, p \in DOMAIN assignments,
             IsPotential(assignments[p])
      PROVE  prioritized[p] = assignments[p].term.set
  BY <1>2 DEF PrioritiesFresh, Potential
<1>3. CASE Quiet
  <2>1. p \in DOMAIN assignments /\ assignments' = assignments
    BY <1>1, <1>3 DEF Quiet
  <2>2. CASE UNCHANGED <<prioritized, outdated>>
    BY <1>1, <1>2, <2>1, <2>2
  <2>3. CASE PickNone \/ \E q \in Packages : PickPackage(q)
    <3>1. p \in DOMAIN RefreshedQueue /\ prioritized'[p] = RefreshedQueue[p]
      <4>1. ~PickNone
        <5>1. PickNone => prioritized' = << >>
          BY DEF PickNone
        <5> QED BY <5>1
      <4>2. \E removed : prioritized' =
               [q \in DOMAIN RefreshedQueue \ removed |-> RefreshedQueue[q]]
        BY <2>3, <4>1 DEF PickPackage
      <4> HIDE DEF RefreshedQueue
      <4> QED BY <4>2
    <3>2. Potential(p)
      BY <1>1, <2>1 DEF Potential
    <3>3. CASE p \in outdated
      BY <2>1, <3>1, <3>2, <3>3 DEF RefreshedQueue
    <3>4. CASE p \notin outdated
      <4>1. p \in DOMAIN prioritized /\ RefreshedQueue[p] = prioritized[p]
        BY <3>1, <3>4 DEF RefreshedQueue
      <4> QED BY <1>1, <1>2, <2>1, <3>1, <3>4, <4>1
    <3> QED BY <3>3, <3>4
  <2> QED BY <1>3, <2>2, <2>3 DEF Quiet
<1>4. ASSUME NEW q, NEW id, Derives(q, id)
      PROVE  prioritized'[p] = assignments'[p].term.set
  <2>1. prioritized' = prioritized /\ outdated' = OutdatedBy(q, assignments'[q].term)
    BY <1>4 DEF Derives, AddDerivation
  <2>2. p # q
    BY <1>1, <2>1 DEF OutdatedBy, IsPotential
  <2>3. p \in DOMAIN assignments /\ assignments'[p] = assignments[p]
    <3>1. /\ DOMAIN assignments' = DOMAIN assignments \cup {q}
          /\ \A r \in DOMAIN assignments : r # q => assignments'[r] = assignments[r]
      BY <1>4, DerivedAssignments
    <3> QED BY <1>1, <2>2, <3>1
  <2>4. p \notin outdated
    BY <2>1 DEF OutdatedBy
  <2> QED BY <1>1, <1>2, <2>1, <2>3, <2>4
<1>5. ASSUME NEW q, NEW v, Decides(q, v)
      PROVE  prioritized'[p] = assignments'[p].term.set
  <2>1. UNCHANGED <<prioritized, outdated>>
    BY <1>5 DEF Decides, AddDecision
  <2>2. /\ q \in DOMAIN assignments /\ assignments'[q] = Decision(assignments[q], v)
        /\ DOMAIN assignments' = DOMAIN assignments /\ v \in Versions
        /\ \A r \in DOMAIN assignments : r # q => assignments'[r] = assignments[r]
    BY <1>5, DecidedAssignments
  <2>3. IsDecision(assignments'[q])
    <3>1. assignments[q] \in PackageAssignmentsType
      BY <2>2, AssignmentParts
    <3> QED BY <2>2, <3>1, NoVersionAssumption DEF IsDecision, Decision, PackageAssignmentsType
  <2>4. p # q
    BY <1>1, <2>3 DEF IsPotential
  <2> QED BY <1>1, <1>2, <2>1, <2>2, <2>4
<1>6. ASSUME NEW level, Backs(level)
      PROVE  prioritized'[p] = assignments'[p].term.set
  <2> DEFINE kept      == {q \in DOMAIN assignments : assignments[q].smallest <= level}
             truncated == {q \in kept : assignments[q].highest > level}
             new       == [q \in kept |-> BacktrackedAssignment(assignments[q], level)]
  <2>1. /\ assignments' = new
        /\ prioritized' = [q \in DOMAIN prioritized \ truncated |-> prioritized[q]]
        /\ outdated' = outdated \cup Requeued(kept, truncated, new)
    BY <1>6 DEF Backs, Backtrack
  <2>2. p \in kept /\ p \in DOMAIN prioritized /\ p \notin truncated
        /\ prioritized'[p] = prioritized[p]
    BY <1>1, <2>1
  <2>3. assignments[p].highest \in Nat /\ level \in Nat
    BY <1>6, <2>2, AssignmentParts, BackedAssignments DEF PackageAssignmentsType
  <2>4. assignments'[p] = assignments[p]
    BY <2>1, <2>2, <2>3 DEF BacktrackedAssignment
  <2>5. p \notin outdated
    BY <2>1
  <2> QED BY <1>1, <1>2, <2>2, <2>4, <2>5
<1> QED BY <1>3, <1>4, <1>5, <1>6, StepKinds DEF TrailStep

-----------------------------------------------------------------------------
(* The inductive invariant, and what follows from it *)

TrailInvariant ==
    /\ Invariant
    /\ HistoriesNarrow
    /\ PositionsExact
    /\ MarksRuledOut
    /\ PrioritiesFresh

LEMMA InitTrail == Init => TrailInvariant
<1> SUFFICES ASSUME Init
             PROVE  TrailInvariant
  OBVIOUS
<1>1. Invariant
  BY InitInvariant
<1>2. /\ DOMAIN assignments = {} /\ DOMAIN contradicted = {} /\ DOMAIN prioritized = {}
      /\ currentDecisionLevel = 0
  BY DEF Init, PSInit, CoreInit
<1>3. Cardinality(DOMAIN assignments) = 0
  BY <1>2, FS_EmptySet
<1>4. PositionsExact
  BY <1>2, <1>3 DEF PositionsExact, DecisionsFirst
<1>5. HistoriesNarrow /\ MarksRuledOut /\ PrioritiesFresh
  BY <1>2 DEF HistoriesNarrow, MarksRuledOut, PrioritiesFresh
<1> QED BY <1>1, <1>4, <1>5 DEF TrailInvariant

LEMMA NextTrail == TrailInvariant /\ [Next]_vars => TrailInvariant'
BY NextInvariant, HistoriesNarrowStep, PositionsStep, MarksRuledOutStep, PrioritiesFreshStep
   DEF TrailInvariant

LEMMA AlwaysTrail == Spec => []TrailInvariant
BY InitTrail, NextTrail, PTL DEF Spec

\* The history of every package narrows down: each derivation is the
\* intersection of the one before it with the negation of its cause, indices
\* and levels grow, a decision comes last and is one of the versions left.
\* `satisfier' bisects this history and `backtrack' cuts it.
THEOREM HistoriesConsistent == Spec => []HistoryConsistent
<1>1. TrailInvariant => HistoryConsistent
  <2> SUFFICES ASSUME TrailInvariant, NEW p \in DOMAIN assignments
               PROVE  LET a    == assignments[p]
                          last == a.dated[Len(a.dated)]
                      IN  /\ a.smallest = a.dated[1].level
                          /\ \A i \in 2 .. Len(a.dated) :
                                /\ a.dated[i - 1].index < a.dated[i].index
                                /\ a.dated[i - 1].level <= a.dated[i].level
                                /\ a.dated[i].term = Intersection(a.dated[i - 1].term,
                                        Negate(Get(store[a.dated[i].cause].terms, p)))
                          /\ ~IsDecision(a) => a.term = last.term /\ a.highest = last.level
                          /\ IsDecision(a) => /\ TermContains(last.term, a.version)
                                              /\ last.index < a.index
                                              /\ last.level < a.highest
    BY DEF HistoryConsistent
  <2> DEFINE a == assignments[p]
  <2>1. Invariant /\ HistoryNarrow(p)
    BY HistoriesNarrowEach DEF TrailInvariant
  <2>2. a \in PackageAssignmentsType /\ HistoryWellFormed(a, currentDecisionLevel)
    BY <2>1, AssignmentParts
  <2>3. DerivationsNarrow(p, a, store) /\ HistoryEnds(a)
    BY <2>1 DEF HistoryNarrow, Narrow
  <2>4. a.dated \in Seq(DatedDerivationType)
    BY <2>2 DEF PackageAssignmentsType
  <2> HIDE DEF a
  <2>5. \A i \in 2 .. Len(a.dated) :
           /\ i - 1 \in DOMAIN a.dated /\ i \in DOMAIN a.dated
           /\ i - 1 < i /\ i - 1 <= i /\ i = (i - 1) + 1
    BY <2>4
  <2>6. \A i \in 2 .. Len(a.dated) :
            /\ a.dated[i - 1].index < a.dated[i].index
            /\ a.dated[i - 1].level <= a.dated[i].level
            /\ a.dated[i].term = Intersection(a.dated[i - 1].term,
                    Negate(Get(store[a.dated[i].cause].terms, p)))
    BY <2>2, <2>3, <2>5 DEF DerivationsNarrow, HistoryWellFormed
  <2> QED BY <2>2, <2>3, <2>6 DEF HistoryWellFormed, HistoryEnds, a
<1> QED BY <1>1, AlwaysTrail, PTL

\* The decisions are the first packages of the map, one per level, in the
\* order they were made, whatever was swapped and backtracked before:
\* `extract_solution' takes the front of the map for them.
THEOREM DecisionsComeFirst == Spec => []DecisionsFirst
<1>1. TrailInvariant => DecisionsFirst
  BY DEF TrailInvariant, PositionsExact
<1> QED BY <1>1, AlwaysTrail, PTL

\* An incompatibility marked as contradicted is contradicted, so that unit
\* propagation may skip it, however often it was backtracked since.
THEOREM ContradictedCacheIsSound == Spec => []ContradictedCacheSound
<1>1. TrailInvariant => ContradictedCacheSound
  <2> SUFFICES ASSUME TrailInvariant, NEW id \in DOMAIN contradicted
               PROVE  /\ contradicted[id] <= currentDecisionLevel
                      /\ \E x \in store[id].terms :
                            x[1] \in DOMAIN assignments /\ IsDisjoint(x[2], assignments[x[1]].term)
    BY DEF ContradictedCacheSound
  <2>1. PICK x \in store[id].terms : RuledOut(x, contradicted[id])
    BY DEF TrailInvariant, MarksRuledOut
  <2>2. Invariant /\ x[1] \in DOMAIN assignments
    BY <2>1 DEF TrailInvariant, RuledOut
  <2>3. x[2] \in TermType
    <3>1. store[id].terms \in TermsType
      BY <2>2, InvariantParts, StoreEntry DEF CoreTypeOK
    <3> QED BY <3>1 DEF TermsType
  <2>4. HistoryNarrow(x[1])
    BY <2>2, HistoriesNarrowEach DEF TrailInvariant
  <2>5. IsDisjoint(x[2], assignments[x[1]].term)
    <3>1. assignments[x[1]] \in PackageAssignmentsType /\ assignments[x[1]].dated # << >>
      BY <2>2, AssignmentParts
    <3> QED BY <2>1, <2>3, <2>4, <3>1, RuledOutNow DEF RuledOut, HistoryNarrow
  <2>6. contradicted[id] <= currentDecisionLevel
    BY DEF TrailInvariant, MarksRuledOut
  <2> QED BY <2>2, <2>5, <2>6
<1> QED BY <1>1, AlwaysTrail, PTL

\* A queued package that still waits for a decision has a priority that was
\* computed for the range it has now, or is marked for a new one.
THEOREM PrioritiesAreFresh == Spec => []PrioritiesFresh
<1>1. TrailInvariant => PrioritiesFresh
  BY DEF TrailInvariant
<1> QED BY <1>1, AlwaysTrail, PTL
=============================================================================
