-------------------------- MODULE ConflictInvariant --------------------------
(***************************************************************************)
(* The inductive invariant behind the theorems on conflict resolution: the *)
(* order in which assignments were made, what each of them follows from,   *)
(* and what the code relies on where it would panic.                       *)
(***************************************************************************)
EXTENDS AnswerInvariant

-----------------------------------------------------------------------------
(* The order of assignments *)

\* When an assignment was made: its index and its decision level.
Moment(index, level) == [index |-> index, level |-> level]

DecisionMoment(a) == Moment(a.index, a.highest)

Moments(a) ==
    {Moment(a.dated[i].index, a.dated[i].level) : i \in DOMAIN a.dated}
    \cup {m \in {DecisionMoment(a)} : IsDecision(a)}

\* Assignments are made one at a time and at levels that do not go down; a
\* decision is the first one of its level.
InOrder(p, q, a, b) ==
    \A m \in Moments(a), n \in Moments(b) :
        /\ m.index <= n.index => m.level <= n.level
        /\ m.index = n.index => p = q
        /\ IsDecision(b) /\ n = DecisionMoment(b) /\ m.index < n.index => m.level < n.level

AssignmentsOrdered ==
    \A p, q \in DOMAIN assignments : InOrder(p, q, assignments[p], assignments[q])

\* The first decision is on the root, and nothing is known of other packages
\* before it.
RootFirst ==
    /\ currentDecisionLevel = 0 =>
          /\ ~hasEverBacktracked
          /\ DOMAIN assignments \subseteq {RootPackage}
          /\ pc \notin {"merge", "decide"} =>
                \A id \in Ids : IncompatPackages(store[id].terms) \subseteq {RootPackage}
    /\ \A p \in DOMAIN assignments :
          IsDecision(assignments[p]) /\ assignments[p].highest = 1 => p = RootPackage

-----------------------------------------------------------------------------
(* What the next step relies on *)

\* Before the root cause derives something of a package, that package has no
\* decision, and the terms of all others are satisfied.
RootCauseDerives ==
    pc = "learn" =>
        /\ buffer[1] \in DOMAIN assignments /\ ~Decided(buffer[1])
        /\ \A x \in store[conflict].terms :
              x[1] # buffer[1] => EntrySatisfied(x, Known)

\* Every package that propagation may come to has incompatibilities; those of
\* the dependencies allocated last are listed when they are merged.
IsPending(id) == \E i \in DOMAIN pending : pending[i] = id

PackagesListed ==
    /\ pc # "merge" => pending = << >>
    /\ pc = "loop" => incompatibilities[next] # << >>
    /\ \A p \in DOMAIN assignments : incompatibilities[p] # << >>
    /\ \A i \in DOMAIN buffer : incompatibilities[buffer[i]] # << >>
    /\ \A id \in Ids : ~IsPending(id) =>
          \A p \in IncompatPackages(store[id].terms) : incompatibilities[p] # << >>

ChoicePotential == pc \in {"choose", "merge", "decide"} => Potential(next)

-----------------------------------------------------------------------------
(* What the decisions force *)

\* Selections that leave each decided package of these levels out, or have it
\* at its version.
Follows(w, level) ==
    \A p \in DOMAIN assignments :
        IsDecision(assignments[p]) /\ assignments[p].highest <= level
            => w[p] \in {NoVersion, assignments[p].version}

\* What was assigned at these levels is so in the selection.
Keeps(w, level) ==
    \A p \in DOMAIN assignments :
        LET a == assignments[p]
        IN  /\ \A i \in DOMAIN a.dated :
                  a.dated[i].level <= level => TermContains(a.dated[i].term, w[p])
            /\ IsDecision(a) /\ a.highest <= level => w[p] = a.version

\* Solutions that follow the decisions have all that was decided and derived: a
\* package is decided because the decisions before it need it.
DecisionsForce ==
    \A level \in 0 .. currentDecisionLevel : \A w \in SelectionType :
        IsSolution(registry, w) /\ Follows(w, level) => Keeps(w, level)

-----------------------------------------------------------------------------
(* Why each incompatibility is in the store *)

\* A version for which p depends on q in set.
DependsAt(p, v, q, set) ==
    \E k \in DOMAIN registry[p][v].dependencies :
        registry[p][v].dependencies[k] = <<q, set>>

\* There is no version in the range, and no range of the root without its version.
NoVersionsFact(i) ==
    \E p \in Packages, range \in Ranges :
        /\ i = NoVersions(p, Positive(range))
        /\ Candidates(registry, p, range) = {}
        /\ p = RootPackage => range = {RootVersion}

CustomFact(i) ==
    \E p \in Packages, v \in Versions :
        i = CustomVersion(p, v) /\ registry[p][v].status = "unavailable"

DependencyFact(i) ==
    \E p, q \in Packages, versions, set \in Ranges :
        /\ i = FromDependency(p, versions, q, set)
        /\ \A v \in versions : DependsAt(p, v, q, set)

\* What an external incompatibility says is so.
Fact(i) ==
    /\ i.kind = "not_root"    => i = NotRoot
    /\ i.kind = "no_versions" => NoVersionsFact(i)
    /\ i.kind = "custom"      => CustomFact(i)
    /\ i.kind = "dependency"  => DependencyFact(i)

\* A derived one is the resolvent of two older ones on a package of both; that
\* the root is needed and that it does not exist are not resolved.
ResolventOf(s, id, p, c1, c2) ==
    /\ p \in IncompatPackages(s[c1].terms) \cap IncompatPackages(s[c2].terms)
    /\ Resolvable(s[c1].terms) /\ Resolvable(s[c2].terms)
    /\ s[id] = PriorCause(s, c1, c2, p)
    /\ {s[c1].kind, s[c2].kind} # {"no_versions", "not_root"}

Explained(s, id) ==
    IF s[id].kind = "derived"
    THEN \E p \in Packages, c1, c2 \in 1 .. id - 1 : ResolventOf(s, id, p, c1, c2)
    ELSE Fact(s[id])

EntriesExplained == \A id \in Ids : Explained(store, id)

ConflictInvariant ==
    /\ AssignmentsOrdered
    /\ RootFirst
    /\ DerivationsJustified
    /\ ConflictSatisfied
    /\ RootCauseDerives
    /\ PackagesListed
    /\ ChoicePotential
    /\ DecisionsForce
    /\ EntriesExplained

-----------------------------------------------------------------------------
\* All that the proofs on the solver show inductive.
ProofInvariant == AnswerInvariant /\ ConflictInvariant
=============================================================================
