--------------------------- MODULE AnswerInvariant ---------------------------
(***************************************************************************)
(* The inductive invariant behind the theorems on the partial solution and *)
(* on Ok(selected): what the history of each package says, what the cache  *)
(* and the queue may leave out, and which dependencies of the versions     *)
(* decided are still to be looked at.                                      *)
(***************************************************************************)
EXTENDS SolverInvariant

-----------------------------------------------------------------------------
(* The history of a package *)

\* Later derivations are made later, say more, and come from their cause.
DerivationsNarrow(p, a, s) ==
    \A i, j \in DOMAIN a.dated :
        /\ i < j => a.dated[i].index < a.dated[j].index
        /\ i <= j => SubsetOf(a.dated[j].term, a.dated[i].term)
        /\ j = i + 1 => a.dated[j].term =
               Intersection(a.dated[i].term, Negate(Get(s[a.dated[j].cause].terms, p)))

\* Before a decision, the last derivation says all; a decision comes after it
\* and is one of the versions it leaves.
HistoryEnds(a) ==
    LET last == a.dated[Len(a.dated)]
    IN  IF IsDecision(a)
        THEN /\ a.term = Exact(a.version) /\ TermContains(last.term, a.version)
             /\ last.index < a.index /\ last.level < a.highest
        ELSE a.term = last.term /\ a.highest = last.level

\* Indices are given out in order.
IndicesBelow(a, index) ==
    /\ \A i \in DOMAIN a.dated : a.dated[i].index < index
    /\ IsDecision(a) => a.index < index

HistoriesNarrow ==
    \A p \in DOMAIN assignments :
        LET a == assignments[p]
        IN  DerivationsNarrow(p, a, store) /\ HistoryEnds(a) /\ IndicesBelow(a, nextGlobalIndex)

\* The packages have the positions 1, 2, ... and those up to the current level
\* are taken by the decisions.
PositionsExact ==
    LET n == Cardinality(DOMAIN assignments)
    IN  /\ currentDecisionLevel <= n
        /\ \A p \in DOMAIN assignments : position[p] \in 1 .. n
        /\ \A level \in 1 .. currentDecisionLevel :
              \E p \in DOMAIN assignments : position[p] = level
        /\ DecisionsFirst

-----------------------------------------------------------------------------
(* What is ruled out, and since which level *)

\* An assignment of the package, made not later than the level, is disjoint
\* with the term u.
RuledOutBy(a, u, level) ==
    \/ \E i \in DOMAIN a.dated : a.dated[i].level <= level /\ IsDisjoint(u, a.dated[i].term)
    \/ IsDecision(a) /\ a.highest <= level /\ IsDisjoint(u, a.term)

RuledOut(x, level) ==
    x[1] \in DOMAIN assignments /\ RuledOutBy(assignments[x[1]], x[2], level)

\* An incompatibility is marked with a level since which one of its terms is
\* ruled out: it is so until backtracking below that level.
MarksRuledOut ==
    \A id \in DOMAIN contradicted :
        /\ contradicted[id] <= currentDecisionLevel
        /\ \E x \in store[id].terms : RuledOut(x, contradicted[id])

\* Nothing has happened before the first incompatibility is looked at.
NothingYet ==
    /\ DOMAIN assignments = {} /\ DOMAIN contradicted = {} /\ currentDecisionLevel = 0
    /\ Len(store) = 1 /\ store[1] = NotRoot /\ incompatibilities[RootPackage] = <<1>>
    /\ \/ pc = "loop" /\ next = RootPackage
       \/ pc = "propagate" /\ buffer = <<RootPackage>>
       \/ pc = "scan" /\ scan = <<1>>
       \/ pc = "cancelled"

\* From then on and whatever is backtracked, the root has its version.
RootSettled == NothingYet \/ RuledOut(<<RootPackage, Negative({RootVersion})>>, 0)

-----------------------------------------------------------------------------
(* The dependencies of the versions asked for *)

IsListed(lists, p, id) == \E i \in DOMAIN lists[p] : lists[p][i] = id

\* The incompatibility i says that p at v depends on q in set.
States(i, p, v, q, set) ==
    \E versions \in Ranges : v \in versions /\ i = FromDependency(p, versions, q, set)

Stated(s, lists, p, v, q, set) ==
    \E id \in 1 .. Len(s) :
        /\ States(s[id], p, v, q, set)
        /\ IsListed(lists, p, id)
        /\ set # {} => IsListed(lists, q, id)

Excluded(s, lists, p, v) ==
    \E id \in 1 .. Len(s) : s[id] = CustomVersion(p, v) /\ IsListed(lists, p, id)

\* It is allocated and still to be merged.
MergePending(p, v, q, set) ==
    /\ pc = "merge" /\ p = next /\ v = chosen
    /\ \E i \in DOMAIN pending : store[pending[i]] = FromDependency(p, {v}, q, set)

\* What get_dependencies answered for p at v is in the store.
AddedAt(p, v) ==
    LET deps == registry[p][v].dependencies
    IN  IF registry[p][v].status = "available"
        THEN \A i \in DOMAIN deps :
                \/ Stated(store, incompatibilities, p, v, deps[i][1], deps[i][2])
                \/ MergePending(p, v, deps[i][1], deps[i][2])
        ELSE Excluded(store, incompatibilities, p, v)

AddedStated == \A pv \in addedDependencies : AddedAt(pv[1], pv[2])

\* The version whose dependencies are being added.
FreshOfChosen ==
    pc \in {"merge", "decide"} =>
        /\ <<next, chosen>> \in addedDependencies
        /\ registry[next][chosen].status = "available"
        /\ next \in DOMAIN assignments /\ chosen \in CurrentRange
        /\ \A i \in DOMAIN fresh : \E k \in DOMAIN registry[next][chosen].dependencies :
              LET dep == registry[next][chosen].dependencies[k]
              IN  store[fresh[i]] = FromDependency(next, {chosen}, dep[1], dep[2])

\* What a version asks for: q in set.  A version that is not available asks for
\* what nothing gives.
Asks(p, v, q, set) ==
    IF registry[p][v].status = "available"
    THEN p # q /\ \E i \in DOMAIN registry[p][v].dependencies :
             registry[p][v].dependencies[i] = <<q, set>>
    ELSE q = p /\ set = {}

\* The terms of an incompatibility that says so.
AskTerms(terms, p, v, q, set) ==
    \E versions \in Ranges :
        v \in versions /\ terms = FromDependency(p, versions, q, set).terms

InBuffer(p) == \E i \in DOMAIN buffer : buffer[i] = p

\* It is still to be looked at.
AskPending(p, v, q, set) ==
    \/ pc = "loop" /\ next = p
    \/ pc \in {"propagate", "scan"} /\ InBuffer(p)
    \/ pc = "scan" /\ \E i \in DOMAIN scan : AskTerms(store[scan[i]].terms, p, v, q, set)
    \/ pc \in {"conflict", "no_solution", "cancelled"}

DecisionsAsk ==
    \A p \in DOMAIN assignments :
        LET a == assignments[p]
        IN  IsDecision(a) =>
              /\ <<p, a.version>> \in addedDependencies
              /\ \A q \in Packages, set \in Ranges : Asks(p, a.version, q, set) =>
                    \/ RuledOut(<<q, Negative(set)>>, a.highest)
                    \/ a.highest = currentDecisionLevel /\ AskPending(p, a.version, q, set)

-----------------------------------------------------------------------------
(* The packages that wait for a decision *)

\* To look at this incompatibility of p is a conflict or derives something
\* of p.
Triggers(terms, p) ==
    \E x \in terms :
        /\ x[1] = p /\ ~IsDisjoint(x[2], assignments[p].term)
        /\ \A y \in terms : y # x => EntrySatisfied(y, Known)

ListTriggers(p) ==
    \E i \in DOMAIN incompatibilities[p] : Triggers(store[incompatibilities[p][i]].terms, p)

Triggered(p) ==
    \/ pc = "loop" /\ next = p /\ ListTriggers(p)
    \/ pc \in {"propagate", "scan"} /\ InBuffer(p) /\ ListTriggers(p)
    \/ pc = "scan" /\ \E i \in DOMAIN scan : Triggers(store[scan[i]].terms, p)

Waiting(p) ==
    \/ p \in DOMAIN prioritized \/ p \in outdated
    \/ pc \in {"choose", "merge", "decide"} /\ p = next
    \/ pc \in Done \cup {"conflict"}
    \/ Triggered(p)

PotentialWaiting == \A p \in DOMAIN assignments : Potential(p) => Waiting(p)

-----------------------------------------------------------------------------

\* Versions that exclude themselves get lost.
SelfSound == NoBrokenSelfDependency(registry)

AnswerInvariant ==
    /\ Invariant
    /\ HistoriesNarrow
    /\ PositionsExact
    /\ MarksRuledOut
    /\ RootSettled
    /\ AddedStated
    /\ FreshOfChosen
    /\ DecisionsAsk
    /\ SelfSound => PotentialWaiting /\ SolutionSound
=============================================================================
