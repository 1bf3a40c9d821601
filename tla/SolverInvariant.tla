-------------------------- MODULE SolverInvariant --------------------------
(***************************************************************************)
(* The inductive invariant behind the theorems on the answers of `resolve':*)
(* what the store and the history of each package look like, whatever      *)
(* conflicts were met.                                                     *)
(***************************************************************************)
EXTENDS SolverProperties

OneTermPerPackage(terms) == \A x, y \in terms : x[1] = y[1] => x = y

\* The entries of a version v of p that depends on p itself.
SelfTerms(p, v, set) == {<<p, Positive({v})>>, <<p, Negative(set)>>}

\* Incompatibilities resolution may use: the entry `get' finds says all there
\* is to say of a package.
Resolvable(terms) ==
    \/ OneTermPerPackage(terms)
    \/ \E p \in Packages, v \in Versions, set \in SUBSET Versions :
          terms = SelfTerms(p, v, set) /\ v \notin set

Ranges == SUBSET Versions

\* A dependency as from_dependency or merge_dependents makes it.
IsDependency(i) ==
    \E versions, set \in Ranges :
        /\ i.dependency \in Packages \X Packages
        /\ i = FromDependency(i.dependency[1], versions, i.dependency[2], set)
        /\ i.dependency[1] = i.dependency[2] => \E v \in Versions : versions = {v}

WellFormed(i) ==
    /\ IsFiniteSet(i.terms)
    /\ \A x \in i.terms : x[2] # AnyTerm
    /\ IF i.kind = "dependency" THEN IsDependency(i) ELSE OneTermPerPackage(i.terms)

StoreWellFormed == \A id \in Ids : WellFormed(store[id])

\* The history of a package: it has a beginning, levels never decrease, and
\* every derivation leaves some choice.
HistoryWellFormed(a, level) ==
    /\ a.dated # << >>
    /\ a.smallest = a.dated[1].level
    /\ a.highest <= level
    /\ a.term # EmptyTerm
    /\ \A i \in DOMAIN a.dated :
          /\ a.dated[i].level <= a.highest
          /\ a.dated[i].term # EmptyTerm
          /\ \A j \in DOMAIN a.dated : i <= j => a.dated[i].level <= a.dated[j].level

\* A derivation about p is caused by an incompatibility of p that resolution
\* may use; s is the store.
CausesResolvable(p, a, s) ==
    \A i \in DOMAIN a.dated :
        LET cause == a.dated[i].cause
        IN  /\ cause \in 1 .. Len(s)
            /\ p \in IncompatPackages(s[cause].terms)
            /\ Resolvable(s[cause].terms)

HistoriesWellFormed ==
    \A p \in DOMAIN assignments :
        /\ HistoryWellFormed(assignments[p], currentDecisionLevel)
        /\ CausesResolvable(p, assignments[p], store)

\* What the next step may rely on.
ConflictResolvable ==
    pc \in {"conflict", "learn"} => Resolvable(store[conflict].terms)

\* The term that the root cause derives for p leaves some choice.
RootCauseLeavesChoice(p) ==
    LET t == Negate(Get(store[conflict].terms, p))
    IN  p \in DOMAIN assignments => Intersection(assignments[p].term, t) # EmptyTerm

RootCauseReady ==
    pc = "learn" =>
        /\ buffer # << >>
        /\ buffer[1] \in IncompatPackages(store[conflict].terms)
        /\ RootCauseLeavesChoice(buffer[1])

ChoiceReady ==
    /\ pc = "choose" => next \in DOMAIN assignments
    /\ pc \in {"merge", "decide"} => chosen \in Versions

Invariant ==
    /\ TypeOK
    /\ StoreWellFormed
    /\ StoreValid
    /\ HistoriesWellFormed
    /\ ConflictResolvable
    /\ RootCauseReady
    /\ ChoiceReady
=============================================================================
