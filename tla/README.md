# PubGrub in TLA+

A formal model of this crate, an implementation of the PubGrub version solving
algorithm: TLA+ modules translated from the Rust source, TLC configurations that
model-check them on small package registries, and TLAPS proofs for registries of
any size and ranges of any length.

## The system

`resolve(provider, root, version)` looks for a set of packages and versions that
contains the root at its version and all dependencies of what it contains. It is
one sequential loop; its difficulty is not concurrency between threads but the
long-lived data that propagation, conflict resolution and backtracking share, and
the freedom of the provider, which decides the order packages are visited in and
the versions that are tried.

| component | source | state | operations |
|---|---|---|---|
| main loop | `src/src/solver.rs` | the next package, versions whose dependencies were asked for, conflict statistics | propagate, pick a package, choose a version, add its dependencies, decide |
| `State` | `src/src/internal/core.rs` | the store of incompatibilities, their index by package, the cache of contradicted ones, the merged dependencies, the stack of propagation | `unit_propagation`, `conflict_resolution`, `backtrack`, `merge_incompatibility`, `add_incompatibility...`, `build_derivation_tree` |
| `PartialSolution` | `src/src/internal/partial_solution.rs` | decisions and derivations by package with their history, decision level, queue of packages to decide | `add_decision`, `add_derivation`, `pick_highest_priority_pkg`, `backtrack`, `satisfier_search`, `extract_solution`, `add_package_version_incompatibilities` |
| `Incompatibility` | `src/src/internal/incompatibility.rs` | none (values) | constructors, `merge_dependents`, `prior_cause`, `is_terminal`, `relation` |
| `Term` | `src/src/term.rs` | none (values) | `negate`, `intersection`, `union`, `is_disjoint`, `subset_of`, `relation_with` |
| `VersionSet`, `Ranges` | `src/src/version_set.rs`, `src/version-ranges/src/lib.rs` | none (values) | set operations on sorted segments |
| `DependencyProvider` | `src/src/solver.rs`, `src/src/provider.rs` | the registry of packages | `prioritize`, `choose_version`, `get_dependencies`, `should_cancel` |
| containers | `src/src/internal/{arena,small_map,small_vec}.rs` | arenas, small maps and vectors | `alloc`, `get`, `insert`, `split_one`, `merge` |
| errors and report | `src/src/error.rs`, `src/src/report.rs` | derivation trees | `build_derivation_tree`, `collapse_no_versions`, the default reporter |
| versions | `src/src/version.rs`, `src/version-ranges/src/semver.rs` | none | parsing, printing, ordering |

How they interact: the main loop calls `unit_propagation` with the package it
decided last; that reads the partial solution through `relation` for each
incompatibility of the package, adds derivations to it, and calls
`conflict_resolution` when an incompatibility is satisfied. Conflict resolution
reads the histories of the partial solution (`satisfier_search`), allocates new
incompatibilities and backtracks both the partial solution and the cache. Between
two propagations the loop asks the provider for a priority, a version and its
dependencies, which become incompatibilities.

What is hard, and which property looks for it, is listed with its source lines in
`PROJECT.json` under `hazards`. In short: the two caches that must follow every
backtrack (contradicted incompatibilities, queue of packages), the order of the
decisions inside an index map, the history that bisection and truncation rely on,
the rule of resolution on packages that may have no version, a rejected version
that must not make its package disappear, and termination. After a failure: a tree
whose nodes are shared, to be built from its leaves in the order of ids, shortened
without a change of what it means, and told in lines that refer to each other by
numbers given while the tree is walked. Below all of it: a map that changes its
representation, and that a package depending on itself makes hold one key twice.

## Modules

| module | models |
|---|---|
| `Term` | `term.rs` over sets of versions |
| `DependencyProvider` | what a provider may answer (a registry), and what a solution is |
| `Incompatibility` | `incompatibility.rs` and the entries of `SmallMap` |
| `PartialSolution` | `partial_solution.rs`: seven variables, one operator per method |
| `Core` | `core.rs`: the store, the index, merging, one step of propagation and of conflict resolution |
| `Solver` | `resolve`: the composition, one action per iteration of each loop |
| `Resolution` | the abstract specification of `resolve`: run, then answer with what is needed, or that there is no solution, or that the provider failed |
| `SolverProperties` | the properties of the runs, and the refinement mapping |
| `SolverInvariant` | the inductive invariant behind what `NoSolution` means |
| `AnswerInvariant` | the one behind what `Ok` means, which extends it |
| `ConflictInvariant` | the one behind conflict resolution, the panics and the refinement, which extends that; `ProofInvariant` is all of them |
| `MCSolver` | the registries the runs use |
| `VersionRanges` | `Ranges` of `version-ranges/src/lib.rs`: comparisons of bounds, constructors, complement, order |
| `RangesAlgorithms` | its loops: `union`, `intersection`, `is_disjoint`, `subset_of`, `from_iter`, `simplify`, one iteration per step |
| `RangesProperties` | what they have to compute, stated over plain sets of versions |
| `RangesInvariant` | the inductive invariant of each of these loops |
| `MCRanges` | the calls the runs make |
| `DerivationTree` | the two loops of `build_derivation_tree` |
| `Report` | `report` and `DefaultStringReporter::build_recursive` on that tree, as a list of what is still to be done |
| `MCReport` | all derivations of a few steps |
| `CollapseNoVersions` | `collapse_no_versions` and `merge_no_versions`, as functions on the store |
| `ReportProperties` | what the explanation of a failure has to be, stated over `Solver` and `CollapseNoVersions` |
| `KeyValueMap` | the abstract specification of a map |
| `SmallMap` | the methods of `SmallMap` on its representations |
| `PriorCause` | a `SmallMap` under any sequence of calls, then `prior_cause` on it entry by entry; the refinement mapping to `KeyValueMap` |
| `MCSmallMap` | the terms used there |
| `CoreTheorems`, `SolverTheorems`, `AnswerTheorems`, `ConflictTheorems`, `ExplanationTheorems`, each on top of the one before; `RangesTheorems`; `ReportTheorems`; `SmallMapTheorems` | the proofs |

`Solver` EXTENDS `Core`, `PartialSolution`, `Incompatibility`,
`DependencyProvider` and `Term`, in this order. Its state is the state of the
three structs plus a `pc` for the loops of `resolve`, `unit_propagation` and
`conflict_resolution`; one action is one iteration. An action contains everything
the iteration does: `BacktrackFromConflict`, for one, is the satisfier search, the
truncation of all histories, the cleaning of the cache, and the merge of the root
cause.

| code | model |
|---|---|
| `package_assignments`, an `IndexMap` | `assignments`, its values, and `position`, the index of each entry from 1 |
| `AssignmentsIntersection` | the fields `version`, `index`, `term` of an assignment; `version = NoVersion` is `Derivations` |
| `prioritized_potential_packages` | `prioritized`: the range each queued package had when its priority was computed |
| `outdated_priorities` | `outdated` |
| an incompatibility id | its position in the sequence `store` |
| `package_terms`, a `SmallMap` | a set of pairs, because a package that depends on itself is twice in a `SmallMap::Two` |
| `contradicted_incompatibilities` | `contradicted`, id to level |
| a `VersionSet` | the set of its members |

Choices that belong to the environment are nondeterministic: the registry (Init),
which package has the highest priority, which of the versions in the range is
chosen, whether the provider fails or cancels. The order in which a `SmallMap`
enumerates its entries, on which `relation` depends when a term is contradicted and
two are inconclusive, is left open too.

The solver takes a version set for the set of its members; the modules on `Ranges`
are the justification. A behaviour of `RangesAlgorithms` is one call: `op` and its
arguments are chosen in Init from the constant `Calls`, `i` and `j` are the two
iterators of the code, `accumulator` is the segment (or, in `simplify`, the pair of
locations) under construction, and `output` the segments pushed so far. `from_iter`
inserts into `output`; the merging of one segment with those around it is one step.

The solver uses the terms of an incompatibility as a set of pairs; `SmallMap` and
`PriorCause` are the justification. `resolvent` there is the `package_terms` under
construction, `pending` the entries that `iter` has still to give, and `ResolventExact`
compares the result with `PriorCauseTerms`, the operator of the solver's model.

`Report` continues `DerivationTree`: a failure is the causes of every id of the store
and the terminal id (`Failures`), which is all that the shape of the report depends
on. `DerivationsFollow` says of the solver's store what `FailuresAssumption` assumes
of it, and that the causes are premises. The recursion of the reporter is the sequence
`todo`: what a call does after the call it makes is a task behind that one. A line is
the node it concludes, its premises, the references it names and the numbers it got.
`CollapseNoVersions` works on the contents instead, and is evaluated on the store that
the solver ends with: the code copies shared nodes before it changes them
(`Arc::make_mut`), so that a tree under an id is collapsed alike wherever it is.

## Runs

The solver's runs use `MCSolver`. Versions are `1..3`: at most two exist, the highest one exists
nowhere and stands for the versions a range admits and no registry has.

| run | configuration | instance | checks |
|---|---|---|---|
| `resolution` | `MCResolution` | two packages below the root: mutual dependencies; unavailable versions, empty ranges, dependencies stated twice and on the root, a missing root; self-dependencies that allow the version they are stated for | `StoreValid`, `SolutionSound`, `NoSolutionSound`; of what it fails with, `DerivationsFollow`, `FactsTrue`, `CollapseKeepsMeaning`, `CollapseMerges`; `Resolves`: the solver implements `Resolution`, liveness included |
| `solver_state` | `MCState` | two packages, five possible entries for each version: 625 registries; three packages that depend on each other, some so that a merged dependency is in conflict after backtracking | `TypeOK`, `NoPanic`, `DecisionsFirst`, `DerivationsJustified`, `HistoryConsistent`, `ContradictedCacheSound`, `NoLostPackage`, `PrioritiesFresh`, `DependenciesSettled`, `ConflictSatisfied`, `DependenciesRecorded`, `DependenciesMerged`, `BacktrackLeavesRootCauseAlmostSatisfied`, `RootCauseIsNew` |
| `self_dependencies` | `MCSelfDependencies` | self-dependencies of every kind | `Termination`; `ProofInvariant`, the conjunction that the proofs show inductive |
| `ranges` | `MCRanges` | all pairs of the 128 ranges over three bounds; one more segment, valid or not, to insert anywhere in one; every range with every list of up to seven sorted versions, and with two versions in any order | `ResultExact`, `ResultWellFormed`, `PredicatesExact`, `Canonical`, `SearchExact`, `OrderConsistent`, `SimplifyAgrees`, `FromIterSoFar` |
| `small_map` | `MCSmallMap` | maps of up to three packages and four terms, any calls in any order; `prior_cause` of any two of them, maps with one key twice included | `TypeOK`, `IsMap`: `SmallMap` implements `KeyValueMap`; `ResolventExact` |
| `report` | `MCReport` | every derivation of five steps: 14400 ways to share causes | `VisitExact`, `NoTreePanic`, `RefsRight`, `LinesFollow`, `ReportWritten` |
| `lost_self_dependency` | `MCLostSelfDependency` | one registry | refutes `SolutionSound` |
| `known_conflict` | `MCKnownConflict` | one registry | refutes `KnownDecisionNotSatisfied` |
| `fast_path` | `MCFastPath` | one registry | refutes `FastPathCostsOneDecision` |
| `range_between` | `MCRangeBetween` | intersections with `between` | refutes `ResultWellFormed` |
| `range_unsorted` | `MCRangeUnsorted` | `simplify` for two versions in any order | refutes `UnsortedNoticed` |
| `explained_twice` | `MCExplainedTwice` | derivations of three steps | refutes `ExplainedOnce` |

The bounds: nothing but the registry bounds the runs. No counter is capped and no
queue is cut, so every run explores all behaviours of its registries, and they all
end. Two packages and two versions are enough to meet a conflict, a merge of two
dependencies, a conflict after a backtrack, and the answer `NoSolution` after
several of them; three packages are needed for the partial solution, so that
backtracking keeps some decisions, some positions in the map and some entries of
the queue while it drops others.

The ranges run over integers of which only the even ones occur in bounds, so that
there is a version between any two bounds and on both sides of them
(`DenseVersions`), as in the orders that `Ranges` is meant for. Two bounds are
related in three ways and each is closed, open or unbounded: three bounds give
ranges of up to four segments, so that a merge meets several segments of the other
side, and nothing is compared with more than two bounds at a time. For versions that
are not dense, "equivalent instances have an identical representation" and the two
predicates hold of segments only, as the documentation says.

A derivation of five steps (`Steps`) has room for what makes a report hard: a node
shared three times, shared nodes below shared nodes, a chain of one-each causes, and
the case that explains a node again after its first cause got a number. Each step has
its own two external causes, so that a line that names the wrong one is seen. Three
packages are the fewest that make a `SmallMap` leave its inline representations; four
terms over two versions give disjoint terms, terms whose union is any version, and terms
whose intersection is a third one.

`DependenciesSettled` is what unit propagation has to achieve: when it ends, what a
decided version depends on is known to be selected in the range it asks for. The
stronger statement, that no incompatibility of the index is satisfied then, is not
true of the code. In the registry `MergedConflict` both versions of a package
have the same dependencies and these are merged; backtracking leaves the merged one
satisfied by derivations of level 1, and propagation starts again from the package of
the root cause, which it is not about. The conflict is found when the package waiting
is picked, and no answer is wrong for it.

Fairness: `WF_vars(Next)`, in `Solver` and in `Report`. `resolve` is called and runs on its caller's thread; a
step that can be taken is taken. The provider's calls return, as the code assumes.
No fairness is assumed of any single action, so nothing is assumed of the order the
provider chooses.

### What the runs refuted

* `MCLostSelfDependency`. After a first backtrack,
  `add_package_version_incompatibilities` rejects a version one of whose
  dependencies is already violated. When that is a dependency of the package on
  another version of itself, the incompatibility `{p@2, not p@1}` has both its terms
  about `p`; `relation` finds two inconclusive terms and nothing is derived. The
  package was popped from the queue and is queued again only by a derivation or a
  backtrack. When neither comes, `resolve` answers `Ok` without `p`, although the
  root depends on it. `MCResolution` shows the answers right for registries whose
  self-dependencies allow the version itself.
* `MCKnownConflict`. `solver.rs` decides a version met before "directly", because
  its dependencies "are already in `incompatibilities` so we know there are not
  satisfied terms". A backtrack can take back the derivation that excluded the
  version while propagation starts again from another package, so the incompatibility
  can be satisfied by the decision. The next propagation finds the conflict
  (`SolutionSound`, `Termination`).
* `MCFastPath`. "The worst that can happen is we will have to do a full backtrack
  which only removes this one decision": when the new dependency conflicts with an
  older decision, conflict resolution goes back further.
* `MCRangeBetween`. `between(v1, v2)` with `v1 >= v2` is a range with one segment that
  contains no version: not the empty range, and an operation on it can fail the
  assertions of `check_invariants`.
* `MCRangeUnsorted`. The assertion of `simplify` (and `contains_many`) that versions
  are sorted compares only with versions above the last segment, because `last` is
  not assigned on the two early returns. A list that slips through may make `simplify`
  disagree on a version listed, and from three versions on break its result: for the
  versions 2, 1, 2 the range `v >= 2` becomes all versions and `v >= 2` again, and
  `check_invariants` of `keep_segments` fails instead. The documentation promises nothing for such a list, so
  `ResultWellFormed` and `SearchExact` ask for versions in order (`InOrder`).
* `MCExplainedTwice`. The identifier of a shared node "can be used to only explain this
  incompatibility once, then refer to the explanation for the other times". When the
  first cause of a node is not shared and the second is, the second is explained
  without another look at its reference, which it may have got while the first was
  explained. The report is longer and stays right: `LinesFollow` and `RefsRight` hold
  of all derivations of five steps.

## Proofs

Checked by TLAPS for every finite set `Packages`, every set `Versions` and every set
of registries:

* `IntersectionMeaning`, `UnionMeaning` and their neighbours
  (`CoreTheorems`): the operations on terms mean what `contains` says, for
  positive and negative terms and for a package that is not selected.
* `PriorCauseSound` (`CoreTheorems`): the resolvent computed by
  `prior_cause` follows from its two parents. `MergedWellFormed` and its neighbours:
  so does a merged dependency from its parts.
* `AlwaysInvariant`, `TypeCorrect`, `StoreAlwaysValid`, `NoSolutionAlwaysSound`
  (`SolverTheorems`): `Spec => []Invariant` and its consequences.
* `HistoriesConsistent`, `DecisionsComeFirst`, `ContradictedCacheIsSound`,
  `PrioritiesAreFresh` (`SolverTheorems`): the partial solution and the cache through any
  number of decisions, derivations and backtracks.
* `SolutionAlwaysSound` (`AnswerTheorems`): when `resolve` answers `Ok`, what it selected
  is a solution. On the way: `AlwaysAnswer`, `Spec => []AnswerInvariant`;
  `DependenciesAlwaysRecorded`, merging loses no dependency; `NoPackageLost`, a package
  that waits for a decision is in the queue; `DependenciesAlwaysSettled`.
* `AlwaysConflict` (`ConflictTheorems`): `Spec => []ProofInvariant`, and from it
  `DerivationsAlwaysJustified`, each derivation follows from its cause and from older
  assignments; `ConflictAlwaysSatisfied`, conflict resolution always finds a satisfier;
  `NeverPanics`, no panic, `unwrap`, `expect` or indexing of the solver fails;
  `DependenciesAlwaysMerged`; and the action property `BacktrackAlwaysLeaves`, that
  backtracking gives up a decision, keeps the first, and leaves open only the package
  the root cause is about to derive. None of them has a hypothesis on the registry.
* `AlwaysResolvesSafely` (`ConflictTheorems`): the refinement of `Resolution`, liveness
  apart. Every step of the solver is a step of the abstract specification or stutters, so that
  `resolve` answers at most once, `Ok` with a solution and with exactly the packages
  this solution needs, and `NoSolution` only when there is none.
* `DerivationsAlwaysFollow` (`SolverTheorems`): every derived incompatibility of the
  store follows from its two causes, and these have smaller ids.
* `FactsAlwaysTrue` (`ExplanationTheorems`): every fact at the leaves of the tree that
  `resolve` fails with is true of the registry, those of merged dependencies included.
  `CollapseAlwaysKeepsMeaning`: `collapse_no_versions` replaces each node by one that
  excludes the same of the versions that exist. `CollapseAlwaysMerges`: its panic is not
  reached, and a range without versions is left only where nothing can take it.
* `TreeNeverPanics` (`ReportTheorems`): the `expect` and the two `unwrap` of
  `build_derivation_tree` do not fail, for every store whose causes have smaller ids.
* `VisitAlwaysExact` (`ReportTheorems`): its visit finds everything the failure rests on,
  and calls shared exactly the derived incompatibilities that two places of the
  tree use, in whatever order the causes are visited.
* `RefsAlwaysRight`, `LinesAlwaysFollow` (`ReportTheorems`): in the report of any such
  failure every line reference leads to the one earlier line it means, every line
  follows from its premises, and the last one concludes the failure.
* `AlwaysMap` (`SmallMapTheorems`): `SmallMap` implements `KeyValueMap`, through any
  calls and any changes of representation. `MapAlwaysProper`: no key is in it twice.
  `ResolventAlwaysExact`: what `prior_cause` does to these maps, in any order of the
  entries, is the rule of resolution on sets of entries.
* `RangesInvariantHolds` (`RangesTheorems`): `Spec => []RangesInvariant` for calls with
  well-formed arguments, that is: each loop over segments, from any two ranges of any
  length. From it `ResultsAreExact`, `ResultsAreWellFormed`, `PredicatesAreExact`,
  `FromIterKeepsOrder`, `SimplifyAgreesOnVersions`, `SearchesAreExact`: what the loops
  return is what sets of versions give, and `check_invariants` never fails.
  `ResultsAreCanonical`: ranges with the same versions have the same segments.
  `OrderIsConsistent`: `cmp` is an order.
* Below them: what the comparisons of bounds mean for the versions between them,
  `ValidSegmentMeaning`, `GapMeaning`, the orders of starts and ends,
  `WithinBoundsMeaning`, and `IntersectionOfSegments`, one step of `intersection`.

The argument. `StoreValid`, that no incompatibility excludes a solution, is what
makes `NoSolution` right, and the step that can break it is `ResolveConflict`. The
rule of resolution is sound when `get` returns all there is to say of a package. It
does not for `{p@2, not p@1}`, so the invariant has to tell that such an
incompatibility is never the cause of a derivation or the conflict to resolve unless
resolving it is harmless (`Resolvable`): a self-dependency becomes a cause only when
its two terms are disjoint. To know that, the history of each package must
be known (`HistoryWellFormed`: no derivation leaves the empty term, levels never
decrease and the first one is `smallest_decision_level`, so that backtracking never
empties a history), and to know that no derivation is empty, that a root cause
leaves a choice when it is learnt (`RootCauseReady`), which is the satisfier search:
`CutBeforeSatisfier` shows that the level backtracked to lies before the satisfier.
`StoreWellFormed` gives the shape of every incompatibility and `ChoiceReady`
what the decision steps need. `Invariant` is their conjunction.

`SolutionSound` needs more, as a solution is lost by what is not done: a dependency not
stated, an incompatibility not looked at, a package not queued. `AnswerInvariant`
follows each of them.

* What is stated: `AddedStated` says that each dependency `get_dependencies` answered is
  stated, in some merged form, by an incompatibility listed under both packages, or is
  still to be merged. `FreshOfChosen` ties the ids in hand to the version chosen.
* What stays ruled out: a term is `RuledOut` at a level when an assignment made not later
  is disjoint with it. Backtracking to that level or above keeps this, because
  histories narrow (`HistoriesNarrow`) and are cut by level. That is why the cache is
  sound (`MarksRuledOut`) and why the root keeps its version (`RootSettled`).
* What is looked at: `DecisionsAsk` says of every decision and everything its version asks
  for that the negation is ruled out at the level of the decision, or that the decision
  is the last one and the incompatibility is still to be looked at (`AskPending`: in the
  list being scanned, or of a package in the buffer). To be looked at either rules the
  negation out, or is a conflict, which takes the decision back, or finds the
  incompatibility marked, which is the first case again. So when the buffer is
  empty, nothing is pending (`DependenciesSettled`).
* Who waits: `PotentialWaiting` says that a package with a positive term and no decision
  is queued, or in hand, or that an incompatibility which is still to be looked at
  derives something of it (`Triggers`), and then it is queued again. A version that is
  rejected is in the last case, by the incompatibility that rejected it, unless that
  is a dependency on its own package: hence the hypothesis of the theorem.
* At the end: the queue is empty (`PickNone`), so every package with a positive term is
  decided, and the terms of the decisions and `DependenciesSettled` give a solution.

`ConflictInvariant` adds what holds of conflicts and of where the code would panic.

* When it was: every assignment has a `Moment`, its index and its level.
  `AssignmentsOrdered` says that assignments are made one at a time, that levels do not
  go down, and that a decision is the first of its level. So the assignments before the
  satisfier are those with smaller indices, and backtracking to a level cuts
  them all at one moment.
* Why it is: `DerivationsJustified` says that each derivation follows from its cause and
  from assignments before it. So resolving the conflict with the cause of its
  satisfier leaves an incompatibility that is satisfied still
  (`ConflictSatisfied`), self-dependencies included, and every round has a satisfier.
* Where it goes: `CutBeforeSatisfier` again, and the order of moments, give that
  after backtracking all terms of the root cause but one are satisfied
  (`RootCauseDerives`); the derivation made in `Learn` is then justified.
* What cannot panic: `RootFirst` says that nothing but the root is known before it is
  decided, and that level 1 is its; with it the level to backtrack to is never 0.
  `PackagesListed`, that every package propagation comes to has an entry in
  `incompatibilities`, and `ChoicePotential`, that the package in hand has a positive term,
  are the indexings and the `unwrap` of the loop.
* Why nothing is returned that is not needed: `DecisionsForce` says that a solution
  which leaves each decided package out, or has it at its version, has all that was
  decided and derived. Cut what `resolve` returns down to the packages that the root
  needs: this is a solution again, and of that kind. So nothing was cut.

* Why it is in the store: `EntriesExplained` says that each external incompatibility is a
  fact of the registry, and that each derived one is the resolvent, on a package of both,
  of two older ones that resolution may use. The two the reporter panics about, that the
  root is needed and that it has no version, are never resolved with each other: the only
  range of the root ever asked for is its version, so neither leaves anything to derive.

With it, what `CollapsedTrees` computes is shown by induction over the ids. Causes have
smaller ids, so the function that the recursive definition chooses exists
(`CollapsedExists`), and what is true of an id when it is of all smaller ones is true
of all (`IdInduction`, from the principle of the least number for sets, which the
library proves). `StandsFor` is what is carried along: a collapsed tree excludes the
same versions that exist, speaks of all packages of the incompatibility it replaces, so
that a range can still be merged into it, and is a fact of the same form if it is one.
Resolving with a range that has no version changes nothing for the versions that exist
(`NoVersionsResolved`), nor does adding such a range to a dependency (`MergedMeaning`).

`MCSelfDependencies` checks `ProofInvariant`, the conjunction of the three, with TLC.

The hypothesis on the registry of `SolutionAlwaysSound`, `NoPackageLost`,
`DependenciesAlwaysSettled` and `AlwaysResolvesSafely`, `NoBrokenSelfDependency`, is that no version depends on versions of its
own package without itself among them. Without it `SolutionSound` is false, which is the
first of the refuted properties above; the theorems on histories, the cache and
merging do not need it. `PositionsExact`, the last conjunct, is what `DecisionsFirst`
needs to be inductive: positions are 1, 2, ... without a gap.

`DerivationsFollow` is not inductive by itself: that the resolvent follows from its
causes needs `Resolvable` again. For the tree, `TreeInvariant` says that what is not
visited yet is on the stack: the terminal incompatibility, and each cause of what is
visited. When the stack is empty the visited ids are closed under causes; as causes
have smaller ids, the next id in order has its causes built, and the
terminal one, the largest visited, is nobody's cause. What is shared is a matter of
counting (`CountsRight`): each use of a derived incompatibility puts its id on the stack
once, and takes it off once; the first time the id is visited, and after that it is
shared. So with an empty stack an id was used once if it was visited and is not shared,
and at least twice if it is.

`RefsRight` and `LinesFollow` speak of the lines only, and what makes them inductive
is the list of tasks. `ReportInvariant` says of it (`TodoRight`) that each task leaves
the conclusion of its node as the last line and that the task after it needs just that
(`FitsAfter`): "number" the node it numbers, "resume" the first cause, "say" the
premise its line goes on from. The references of a line still to be said are on lines
already written (`KnownIn`), which stays so, as lines are only added and numbers are
new. A node asked for its reference has a last line without a number, since only
`build_recursive` of the same node may have numbered it, and then it has a reference
(`Said`). Each step either pushes a line that may follow (`PushStep`) or puts tasks
that fit in the place of the first (`CallStep`).

A `SmallMap` is one of four forms (`Proper`): empty, one entry, two with different keys,
or a hash map. Each method is shown to lead from a form to a form and to change what
`get` answers for one key only (`Answers`), which is what a step of `KeyValueMap` says.
For `prior_cause` the invariant (`MergeInvariant`, `SoFar`) tells the packages whose entry
still comes, which have the value of the first map, from the others, which have the
merged one; as no key comes twice, the order does not matter. A self-dependency has
its key twice, but `split_one` takes the first of the two away, which leaves a proper
map (`ArgumentSplit`).

For `Ranges` there is one invariant for each loop (`RangesInvariant`), which says what
the segments built so far have to do with those that the iterators have passed.
`WellFormed` compares neighbours only; the proofs use `Proper`, which compares
any two segments and is shown to be the same.

* `union`: what is pushed together with the accumulator is a range, and has the versions
  of what is passed (`United`). The next segment is the one that starts first, so the
  accumulator starts before all that is to come (`StartsBefore`), and a segment that
  leaves a gap after it leaves one after everything pushed.
* `intersection`, `is_disjoint`, `subset_of` pass the segment that ends first. A pair of
  segments of which one is passed has been looked at, or has no version in common
  because the passed one ends before the other starts: so the output has just the
  versions that are in such a pair (`Intersected`), there are none yet, or each segment of
  the left range that is passed is contained and those of the right range that are passed
  are of no use to the others (`ContainedSoFar`). That the output is in order needs that
  each of its ends is that of a segment passed.
* `from_iter`: the segments before the place that `partition_point` finds end before the
  new one, those that are merged with it are next to each other, and the rest start after
  it (`FromIterInvariant`).
* `simplify`: no version to come lies in the segments that the scan has passed
  (`Scanned`); the pair of locations under construction ends at the segment of
  the last version (`PairInProgress`); what is kept has the versions met that the range
  has, and no other version met (`AgreesBefore`).
* `Canonical`: take the first segment in which two ranges differ. If its starts differ,
  there is a version that is in one range and not in the other, as the ranges agree
  before it; if the starts are equal, so it is with the ends. This needs a version
  between two bounds. The order of ranges is the lexicographic one, and again the
  first segment that differs decides.

The hypothesis `WellFormedArguments` is what the type `Ranges` keeps: the two ranges of a
call are well formed, while the segments given to `from_iter` may be anything. Every call
of the run `ranges` satisfies it. The calls of `MCRangeBetween` do not, and
`ResultWellFormed` is false of them: `between` is the constructor that
breaks the hypothesis, and what the operations return never does.

The proofs rest on the assumptions stated in the modules: `NoVersion` is not a version,
`Packages` is finite, the root is a package and its version a version, and registries
are well typed; `FailuresAssumption`, which `DerivationsAlwaysFollow` justifies; for
`RangesTheorems`, `DenseVersions`: between any two versions that bounds may be at there is
one, and on both sides of them. `BoundVersions` and `Versions` may be any sets of
integers with that property.

Only model-checked, all of them of `resolve` or of the report: that a root cause is new
(`RootCauseIsNew`), that `resolve` ends (`Termination`, and the liveness of
`Resolves`), and that the report is written to its end (`ReportWritten`). The last three
are liveness under fairness, which the provers do not reach. A proof of the first would
start from the completeness of propagation: if every incompatibility listed were
satisfied by nothing and owed nothing when a level is done, a root cause, which leaves
something to derive at the level gone back to, could not be one of them. The code does
not keep this (`MergedConflict` above): in the registries of the run the root cause is
always new, and whether it is in every registry is open.

## Not modelled

* In the solver, a version set is the set of its members. `Term`'s comparison with
  `Term::any()` and `VersionSet::empty()` is therefore semantic, where the code
  compares segments: `Canonical` is why that is the same for dense versions.
* The binary searches of `contains` and `from_iter`, which are modelled by what they
  return on a sorted sequence; `Display` and serialization of ranges.
* The statistics behind priorities (`PackageResolutionStatistics`): the model allows
  every priority.
* `custom_term` and `add_proxy_package_incompatibility`, which the crate does not call.
* The words of the report, `DerivationTree::packages`, and the report of a collapsed
  tree, whose nodes are copies: `CollapseKeepsMeaning` is about its contents only. The
  depth of the recursions of the reporter and of `collapse_no_versions`, which grows
  with the derivation.
* The building of an `OfflineDependencyProvider` and its `prioritize`: it is one of the
  providers the model allows.
* A provider that breaks its contract: `choose_version` outside of the range (the
  code panics), or different answers to the same question.
* The 32-bit width of ids, indices and levels, the representation of the small
  vectors and of the hash arena, serialization, version parsing, and text.

## Plan

In order of importance:

1. done: the solver with its partial solution, its answers and their proofs.
2. done: `Ranges`, one iteration per step, against sets of versions, with the proofs of
   all its loops, of the representation and of the order.
3. done: the derivation tree, `collapse_no_versions`, the report, and the proofs of what
   is shared and of what the lines say.
4. done: `SmallMap` as a refinement of a map, and `prior_cause` on it, with their proofs.
5. done: proofs of the partial solution's order and histories, of the cache, of what
   `Ok` means, of conflict resolution, of the panics, of the safety part of the
   refinement, and of the explanation of a failure. Open: whether a root cause
   is new (`RootCauseIsNew`) in every registry, as propagation is not complete.
6. `Statistics` and the offline provider as a refinement of the provider's contract.
