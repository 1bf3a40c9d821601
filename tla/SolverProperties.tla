-------------------------- MODULE SolverProperties --------------------------
(***************************************************************************)
(* What `resolve' must keep true, and what its answers mean.               *)
(***************************************************************************)
EXTENDS Solver

-----------------------------------------------------------------------------
(* The answers *)

\* An incompatibility in the store, whether it comes from the provider, from
\* merging dependencies or from conflict resolution, excludes no solution.
StoreValid ==
    \A w \in SelectionType : IsSolution(registry, w) =>
        \A id \in Ids : ~SelectionSatisfies(store[id].terms, w)

\* Ok(selected): the root at its version, every selected version available,
\* and each of its dependencies selected within the range asked for.
SolutionSound == pc = "solution" => IsSolution(registry, solution)

\* Err(NoSolution): there is none.
NoSolutionSound ==
    pc = "no_solution" => \A w \in SelectionType : ~IsSolution(registry, w)

-----------------------------------------------------------------------------
(* The derivations *)

\* The derived incompatibility id follows from two that are older: a selection
\* that satisfies it satisfies one of them.
FollowsFromCauses(id) ==
    LET causes == store[id].causes
    IN  /\ causes \in (1 .. id - 1) \X (1 .. id - 1)
        /\ \A w \in SelectionType : SelectionSatisfies(store[id].terms, w) =>
               \E k \in {1, 2} : SelectionSatisfies(store[causes[k]].terms, w)

\* What `resolve' fails with is the end of a proof from what the provider
\* said; the order of the ids is the order that build_derivation_tree builds
\* the nodes in.
DerivationsFollow ==
    \A id \in Ids : IF store[id].kind = "derived" THEN FollowsFromCauses(id)
                                                ELSE store[id].causes = << >>

-----------------------------------------------------------------------------
(* The partial solution *)

\* No `panic!', `unwrap', `expect', `unreachable!' or indexing on the way of
\* the step about to be taken fails.
NoPanic ==
    /\ pc = "propagate" /\ buffer # << >> => incompatibilities[Last(buffer)] # << >>
    /\ Scanning => \A x \in store[Last(scan)].terms :
           AlmostSatisfiedBy(store[Last(scan)].terms, Known, x) => ~Decided(x[1])
    /\ Resolving =>
           LET terms == store[conflict].terms
           IN  /\ HasSatisfiers(terms)
               /\ \A s \in SatisfiedMap(terms) : IsLatest(s, SatisfiedMap(terms)) =>
                     /\ s.cause # NoCause =>
                            s.package \in IncompatPackages(store[s.cause].terms)
                     /\ HasSatisfier(assignments[s.package], PreviousStart(store, terms, s))
                     /\ \A previous \in PreviousMap(store, terms, s) :
                           SatisfierSearch(store, terms, s, previous) =>
                               (SameDecisionLevels(s, previous) => s.cause # NoCause)
    /\ pc = "learn" =>
          /\ ~Decided(buffer[1])
          /\ \A x \in store[conflict].terms : x[2] # AnyTerm
    /\ pc = "choose" => Potential(next)
    /\ pc = "decide" /\ Accepted => CanDecide(next, chosen)

\* The decisions are the first packages of the map, one per level, in the
\* order they were made; extract_solution and backtrack rely on it.
DecisionsFirst ==
    /\ \A p, q \in DOMAIN assignments : p # q => position[p] # position[q]
    /\ \A p \in DOMAIN assignments : Decided(p) <=> position[p] <= currentDecisionLevel
    /\ \A p \in DOMAIN assignments : Decided(p) => assignments[p].highest = position[p]
    /\ \A p, q \in DOMAIN assignments : Decided(p) /\ Decided(q) =>
          (position[p] < position[q] => assignments[p].index < assignments[q].index)

\* What package p was known to be before the assignment with that index.
TermsBefore(p, index) ==
    LET a == assignments[p]
    IN  {a.dated[i].term : i \in {j \in DOMAIN a.dated : a.dated[j].index < index}}
        \cup (IF IsDecision(a) /\ a.index < index THEN {a.term} ELSE {})

SatisfiedBefore(x, index) ==
    x[1] \in DOMAIN assignments /\ \E t \in TermsBefore(x[1], index) : TermSatisfied(x[2], t)

\* Each derivation follows from assignments made before it: they satisfied
\* every other term of its cause.  Conflict resolution walks this graph.
DerivationsJustified ==
    \A p \in DOMAIN assignments : \A i \in DOMAIN assignments[p].dated :
        LET dd == assignments[p].dated[i]
        IN  \A x \in store[dd.cause].terms : x[1] # p => SatisfiedBefore(x, dd.index)

\* The history of a package narrows down: satisfier looks for a satisfying
\* derivation by bisection, and backtracking cuts it at a level.
HistoryConsistent ==
    \A p \in DOMAIN assignments :
        LET a    == assignments[p]
            last == a.dated[Len(a.dated)]
        IN  /\ a.smallest = a.dated[1].level
            /\ \A i \in 2 .. Len(a.dated) :
                  /\ a.dated[i - 1].index < a.dated[i].index
                  /\ a.dated[i - 1].level <= a.dated[i].level
                  /\ a.dated[i].term = Intersection(a.dated[i - 1].term,
                          Negate(Get(store[a.dated[i].cause].terms, p)))
            /\ ~IsDecision(a) => a.term = last.term /\ a.highest = last.level
            /\ IsDecision(a) => /\ TermContains(last.term, a.version)
                                /\ last.index < a.index
                                /\ last.level < a.highest

\* What `contradicted_incompatibilities' says is still so.
ContradictedCacheSound ==
    \A id \in DOMAIN contradicted :
        /\ contradicted[id] <= currentDecisionLevel
        /\ \E x \in store[id].terms :
              x[1] \in DOMAIN assignments /\ IsDisjoint(x[2], assignments[x[1]].term)

\* A package that waits for a decision is queued, or is about to be, unless
\* it is the one being decided.
NoLostPackage ==
    pc = "pick" => \A p \in DOMAIN assignments :
        Potential(p) => p \in DOMAIN RefreshedQueue

\* The priority of a queued package was computed for the range it has now,
\* unless it is marked to be computed anew.
PrioritiesFresh ==
    \A p \in DOMAIN prioritized :
        Potential(p) /\ p \notin outdated => prioritized[p] = assignments[p].term.set

-----------------------------------------------------------------------------
(* Propagation and conflict resolution *)

\* When unit propagation ends, what each decided version depends on is known
\* to be selected in the range asked for.  (An incompatibility of a package that
\* still waits may be satisfied: what is derived anew after backtracking need not
\* be looked at before the package is picked.)
DependenciesSettled ==
    pc = "pick" => \A p \in DOMAIN assignments : Decided(p) =>
        LET deps == registry[p][assignments[p].version].dependencies
        IN  \A i \in DOMAIN deps :
              /\ deps[i][1] \in DOMAIN assignments
              /\ assignments[deps[i][1]].term.positive
              /\ assignments[deps[i][1]].term.set \subseteq deps[i][2]

\* Each step of conflict resolution has an incompatibility that the partial
\* solution satisfies.
ConflictSatisfied == pc = "conflict" => Satisfied(store[conflict].terms, Known)

\* Merging loses no dependency: each one the provider answered is stated by
\* an incompatibility that both packages are listed with.
ListedWith(p, id) == \E i \in DOMAIN incompatibilities[p] : incompatibilities[p][i] = id

DependencyRecorded(p, v, q, set) ==
    \E id \in Ids :
        /\ store[id].kind = "dependency" /\ store[id].dependency = <<p, q>>
        /\ ListedWith(p, id)
        /\ v \in Get(store[id].terms, p).set
        /\ IF set = {} THEN IncompatPackages(store[id].terms) = {p}
                       ELSE <<q, Negative(set)>> \in store[id].terms /\ ListedWith(q, id)

DependenciesRecorded ==
    pc # "merge" => \A pv \in addedDependencies :
        LET deps == registry[pv[1]][pv[2]].dependencies
        IN  \A i \in DOMAIN deps : DependencyRecorded(pv[1], pv[2], deps[i][1], deps[i][2])

\* The dependencies kept apart could not be merged.
DependenciesMerged ==
    \A pair \in Packages \X Packages :
        LET ids == mergedDependencies[pair]
        IN  \A i, j \in DOMAIN ids : i # j => ~CanMerge(store[ids[i]], store[ids[j]])

\* Backtracking from a conflict gives up at least one decision, keeps the
\* first, and leaves the root cause with one package whose term is neither
\* satisfied nor contradicted: the one that is derived next.
BacktrackLeavesRootCauseAlmostSatisfied ==
    [][pc = "conflict" /\ pc' = "learn" =>
          /\ currentDecisionLevel' < currentDecisionLevel
          /\ currentDecisionLevel' >= 1
          /\ \E x \in store'[conflict].terms :
                x[1] = buffer'[1] /\ EntryInconclusive(x, Known')
          /\ \A x \in store'[conflict].terms :
                x[1] # buffer'[1] => EntrySatisfied(x, Known')]_vars

Registered(id) == \E p \in Packages : \E i \in DOMAIN incompatibilities[p] :
                     incompatibilities[p][i] = id

\* A root cause says something no registered incompatibility did.
RootCauseIsNew ==
    [][pc = "conflict" /\ pc' = "learn" /\ conflictChanged =>
          \A id \in Ids : Registered(id) => store[id].terms # store[conflict].terms]_vars

-----------------------------------------------------------------------------
(* What comments in the code say and the code does not do *)

\* "dep_incompats are already in incompatibilities so we know there are not
\* satisfied terms and can add the decision directly" (src/src/solver.rs): no
\* incompatibility of the package is satisfied by deciding again on a version
\* whose dependencies were added before.
KnownDecisionNotSatisfied ==
    [][pc = "choose" /\ pc' = "loop" /\ currentDecisionLevel' > currentDecisionLevel =>
          \A id \in Ids : ListedWith(next, id) => ~Satisfied(store[id].terms, Known')]_vars

FreshConflict == ~conflictChanged /\ \E i \in DOMAIN fresh : fresh[i] = conflict

\* "The worst that can happen is we will have to do a full backtrack which
\* only removes this one decision" (src/src/internal/partial_solution.rs, the
\* fast path of add_package_version_incompatibilities): the first conflict,
\* when it is with a dependency of the version just decided, takes back that
\* decision and no other.
FastPathCostsOneDecision ==
    [][pc = "conflict" /\ pc' = "learn" /\ ~hasEverBacktracked /\ FreshConflict =>
          currentDecisionLevel' = currentDecisionLevel - 1]_vars

-----------------------------------------------------------------------------
(* Progress *)

\* `resolve' returns.
Termination == <>(pc \in Done)

\* All of it: the solver implements what `resolve' promises.
Outcome == IF pc \in Done THEN pc ELSE "running"

Abstract == INSTANCE Resolution WITH outcome <- Outcome, selection <- solution

Resolves == Abstract!Spec

\* The part of it that is not liveness: it never does what `resolve' does not
\* promise.
ResolvesSafely == Abstract!Init /\ [][Abstract!Next]_(Abstract!vars)
=============================================================================
