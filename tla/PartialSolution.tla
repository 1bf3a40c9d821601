-------------------------- MODULE PartialSolution ---------------------------
(***************************************************************************)
(* The partial solution (src/src/internal/partial_solution.rs): the        *)
(* decisions and derivations made so far, their history, and the queue of  *)
(* packages waiting for a decision.                                        *)
(***************************************************************************)
EXTENDS Incompatibility

VARIABLES
    nextGlobalIndex,
    currentDecisionLevel,
    assignments,          \* package_assignments: the values of the IndexMap
    position,             \* and the index of each entry, from 1
    prioritized,          \* prioritized_potential_packages, with the range
                          \* each package had when it was last prioritized
    outdated,             \* outdated_priorities
    hasEverBacktracked

psVars == <<nextGlobalIndex, currentDecisionLevel, assignments, position,
            prioritized, outdated, hasEverBacktracked>>

NoCause == 0    \* Option::None where an incompatibility id is expected

(***************************************************************************)
(* PackageAssignments.  AssignmentsIntersection::Decision is a `version'   *)
(* other than NoVersion, made at `index'; both cases keep the intersection *)
(* of all terms of the package in `term'.                                  *)
(***************************************************************************)
DatedDerivationType ==
    [index : Nat, level : Nat, cause : Nat \ {NoCause}, term : TermType]

PackageAssignmentsType ==
    [smallest : Nat, highest : Nat, dated : Seq(DatedDerivationType),
     version : Selections, index : Nat, term : TermType]

PSTypeOK ==
    /\ nextGlobalIndex \in Nat
    /\ currentDecisionLevel \in Nat
    /\ DOMAIN assignments \subseteq Packages
    /\ assignments \in [DOMAIN assignments -> PackageAssignmentsType]
    /\ position \in [DOMAIN assignments -> Nat]
    /\ DOMAIN prioritized \subseteq Packages
    /\ prioritized \in [DOMAIN prioritized -> SUBSET Versions]
    /\ outdated \subseteq Packages
    /\ hasEverBacktracked \in BOOLEAN

PSInit ==
    /\ nextGlobalIndex = 0
    /\ currentDecisionLevel = 0
    /\ assignments = << >>
    /\ position = << >>
    /\ prioritized = << >>
    /\ outdated = {}
    /\ hasEverBacktracked = FALSE

\* term_intersection_for_package, for every package that has one.
Known == [p \in DOMAIN assignments |-> assignments[p].term]

IsDecision(a) == a.version # NoVersion
Decided(p)    == p \in DOMAIN assignments /\ IsDecision(assignments[p])

\* potential_package_filter
IsPotential(a) == ~IsDecision(a) /\ a.term.positive
Potential(p)   == p \in DOMAIN assignments /\ IsPotential(assignments[p])

-----------------------------------------------------------------------------
(* add_decision *)

CanDecide(p, v) ==
    /\ p \in DOMAIN assignments
    /\ ~Decided(p)
    /\ TermContains(assignments[p].term, v)

\* swap_indices: the new decision becomes the last one of the front section.
\* (Mutant: the package stays where it was.)
MoveToDecisionsNoSwap(p) == position

MoveToDecisions(p) ==
    LET new == currentDecisionLevel + 1
    IN  [q \in DOMAIN position |-> IF q = p THEN new
                                  ELSE IF position[q] = new THEN position[p]
                                  ELSE position[q]]

Decision(a, v) ==
    [a EXCEPT !.highest = currentDecisionLevel + 1,
              !.version = v,
              !.index   = nextGlobalIndex,
              !.term    = Exact(v)]

AddDecision(p, v) ==
    /\ CanDecide(p, v)
    /\ currentDecisionLevel' = currentDecisionLevel + 1
    /\ assignments' = [assignments EXCEPT ![p] = Decision(@, v)]
    /\ position' = MoveToDecisions(p)
    /\ nextGlobalIndex' = nextGlobalIndex + 1
    /\ UNCHANGED <<prioritized, outdated, hasEverBacktracked>>

-----------------------------------------------------------------------------
(* add_derivation: the negation of the term that `cause' has for p *)

DatedDerivation(cause, t) ==
    [index |-> nextGlobalIndex, level |-> currentDecisionLevel,
     cause |-> cause, term |-> t]

FirstDerivation(cause, t) ==
    [smallest |-> currentDecisionLevel,
     highest  |-> currentDecisionLevel,
     dated    |-> <<DatedDerivation(cause, t)>>,
     version  |-> NoVersion,
     index    |-> 0,
     term     |-> t]

\* Mutant: the new term is not intersected with the older ones.
NextDerivationNotAccumulated(a, cause, t) ==
    [a EXCEPT !.highest = currentDecisionLevel,
              !.dated   = Append(@, DatedDerivation(cause, t)),
              !.term    = Intersection(a.term, t)]

NextDerivation(a, cause, t) ==
    [a EXCEPT !.highest = currentDecisionLevel,
              !.dated   = Append(@, DatedDerivation(cause, Intersection(a.term, t))),
              !.term    = Intersection(a.term, t)]

\* A package with a positive term has its priority computed anew.
\* (Mutant: only the first time.)
OutdatedOnce(p, term) ==
    IF term.positive /\ p \notin DOMAIN assignments THEN outdated \cup {p} ELSE outdated

OutdatedBy(p, term) == IF term.positive THEN outdated \cup {p} ELSE outdated

AddDerivation(p, cause, causeTerms) ==
    LET t   == Negate(Get(causeTerms, p))
        new == IF p \in DOMAIN assignments
               THEN NextDerivation(assignments[p], cause, t)
               ELSE FirstDerivation(cause, t)
    IN  /\ ~Decided(p)
        /\ assignments' = [q \in DOMAIN assignments \cup {p} |->
                              IF q = p THEN new ELSE assignments[q]]
        /\ position' = [q \in DOMAIN assignments \cup {p} |->
                           IF q \in DOMAIN assignments THEN position[q]
                           ELSE Cardinality(DOMAIN assignments) + 1]
        /\ outdated' = OutdatedBy(p, new.term)
        /\ nextGlobalIndex' = nextGlobalIndex + 1
        /\ UNCHANGED <<currentDecisionLevel, prioritized, hasEverBacktracked>>

-----------------------------------------------------------------------------
(* pick_highest_priority_pkg *)

\* The outdated packages that still wait for a decision are prioritized.
RefreshedQueue ==
    LET refreshed == {p \in outdated : Potential(p)}
    IN  [p \in DOMAIN prioritized \cup refreshed |->
            IF p \in refreshed THEN assignments[p].term.set ELSE prioritized[p]]

\* Packages are popped in an order that is the provider's: any package may be
\* the first to qualify, after any of those that do not and are dropped.
PickPackage(p) ==
    /\ p \in DOMAIN RefreshedQueue
    /\ Potential(p)
    /\ \E dropped \in SUBSET {q \in DOMAIN RefreshedQueue : ~Potential(q)} :
          prioritized' = [q \in DOMAIN RefreshedQueue \ (dropped \cup {p}) |->
                             RefreshedQueue[q]]
    /\ outdated' = {}
    /\ UNCHANGED <<nextGlobalIndex, currentDecisionLevel, assignments, position,
                   hasEverBacktracked>>

PickNone ==
    /\ \A p \in DOMAIN RefreshedQueue : ~Potential(p)
    /\ prioritized' = << >>
    /\ outdated' = {}
    /\ UNCHANGED <<nextGlobalIndex, currentDecisionLevel, assignments, position,
                   hasEverBacktracked>>

\* extract_solution: the versions of the packages in the decision section.
ExtractSolution ==
    [p \in Packages |->
        IF p \in DOMAIN assignments /\ position[p] <= currentDecisionLevel
        THEN assignments[p].version
        ELSE NoVersion]

-----------------------------------------------------------------------------
(* backtrack *)

\* How many dated derivations are left once those made after the level are
\* popped from the end.
\* (Mutant: all of them.)
KeptDerivationsAll(dated, level) == Len(dated)

KeptDerivations(dated, level) ==
    CHOOSE n \in 0 .. Len(dated) :
        /\ \A i \in n + 1 .. Len(dated) : dated[i].level > level
        /\ n > 0 => dated[n].level <= level

\* (Mutant: the decision is not taken back.)
TruncateKeepsDecision(a, level) ==
    LET n == KeptDerivations(a.dated, level)
    IN  [a EXCEPT !.dated = SubSeq(@, 1, n), !.highest = a.dated[n].level]

Truncate(a, level) ==
    LET n    == KeptDerivations(a.dated, level)
        last == a.dated[n]
    IN  [a EXCEPT !.dated   = SubSeq(@, 1, n),
                  !.highest = last.level,
                  !.version = NoVersion,
                  !.index   = 0,
                  !.term    = last.term]

BacktrackedAssignment(a, level) ==
    IF a.highest <= level THEN a ELSE Truncate(a, level)

\* The packages that wait for a decision again: those whose history is cut,
\* and those that were taken out of the queue for a decision never made.
\* (Mutant: without the latter.)
RequeuedTruncated(kept, truncated, new) == {p \in truncated : new[p].term.positive}

Requeued(kept, truncated, new) ==
    {p \in truncated : new[p].term.positive}
    \cup {p \in kept \ truncated : IsPotential(new[p]) /\ p \notin DOMAIN prioritized}

Backtrack(level) ==
    LET kept      == {p \in DOMAIN assignments : assignments[p].smallest <= level}
        truncated == {p \in kept : assignments[p].highest > level}
        new       == [p \in kept |-> BacktrackedAssignment(assignments[p], level)]
    IN  /\ currentDecisionLevel' = level
        /\ assignments' = new
        /\ position' = [p \in kept |->
                           Cardinality({q \in kept : position[q] <= position[p]})]
        /\ prioritized' = [p \in DOMAIN prioritized \ truncated |-> prioritized[p]]
        /\ outdated' = outdated \cup Requeued(kept, truncated, new)
        /\ hasEverBacktracked' = TRUE
        /\ UNCHANGED nextGlobalIndex

-----------------------------------------------------------------------------
(***************************************************************************)
(* satisfier_search.  A satisfier of a package is the first assignment     *)
(* after which its terms are disjoint with `start': a dated derivation, or *)
(* else the decision.                                                      *)
(***************************************************************************)
SatisfyingDerivations(a, start) ==
    {i \in DOMAIN a.dated : IsDisjoint(a.dated[i].term, start)}

HasSatisfier(a, start) == SatisfyingDerivations(a, start) # {} \/ IsDecision(a)

SatisfierEntry(p, cause, index, level) ==
    [package |-> p, cause |-> cause, index |-> index, level |-> level]

SatisfierType == [package : Packages, cause : Nat, index : Nat, level : Nat]

Satisfier(p, start) ==
    LET a     == assignments[p]
        found == SatisfyingDerivations(a, start)
    IN  IF found # {}
        THEN LET first == a.dated[CHOOSE i \in found : \A j \in found : i <= j]
             IN  SatisfierEntry(p, first.cause, first.index, first.level)
        ELSE SatisfierEntry(p, NoCause, a.index, a.highest)

\* The entry of a package that is inserted last in the satisfied map.
GetLast(terms, p) ==
    LET ts == TermsOf(terms, p)
    IN  CHOOSE t \in ts : ~t.positive \/ \A t2 \in ts : t2.positive

\* find_satisfier: the satisfied map, as the set of its entries.  It panics on
\* a package that has no assignment, or none that satisfies its term.
HasSatisfiers(terms) ==
    \A p \in IncompatPackages(terms) :
        p \in DOMAIN assignments /\ HasSatisfier(assignments[p], Negate(GetLast(terms, p)))

SatisfiedMap(terms) ==
    {Satisfier(p, Negate(GetLast(terms, p))) : p \in IncompatPackages(terms)}

\* Mutant: takes the first one.
IsEarliest(s, map) == s \in map /\ \A s2 \in map : s.index <= s2.index

IsLatest(s, map) == s \in map /\ \A s2 \in map : s2.index <= s.index

\* find_previous_satisfier: the satisfier s gives way to the assignment of
\* its package that was enough together with it.
\* (Mutant: without what the satisfier itself contributes.)
PreviousStartWithoutSatisfier(store, terms, s) == Negate(Get(terms, s.package))

PreviousStart(store, terms, s) ==
    Intersection(IF s.cause = NoCause THEN assignments[s.package].term
                                      ELSE Negate(Get(store[s.cause].terms, s.package)),
                 Negate(Get(terms, s.package)))

PreviousMap(store, terms, s) ==
    (SatisfiedMap(terms) \ {s}) \cup {Satisfier(s.package, PreviousStart(store, terms, s))}

PreviousLevel(previous) == IF previous.level < 1 THEN 1 ELSE previous.level

\* satisfier_search: the satisfier and the previous satisfier.
SatisfierSearch(store, terms, s, previous) ==
    /\ IsLatest(s, SatisfiedMap(terms))
    /\ IsLatest(previous, PreviousMap(store, terms, s))

SameDecisionLevels(s, previous) == PreviousLevel(previous) >= s.level
=============================================================================
