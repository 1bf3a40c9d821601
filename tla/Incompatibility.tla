-------------------------- MODULE Incompatibility ---------------------------
(***************************************************************************)
(* Incompatibilities (src/src/internal/incompatibility.rs): conjunctions   *)
(* of terms that no solution satisfies.                                    *)
(*                                                                         *)
(* package_terms is a SmallMap, modelled by the set of its entries         *)
(* <<package, term>>.  A set of pairs and not a function, because          *)
(* from_dependency builds SmallMap::Two without looking at its keys: a     *)
(* package that depends on itself is there twice, with a positive and a    *)
(* negative term.  SmallMap::get and split_one meet the positive one first.*)
(***************************************************************************)
EXTENDS DependencyProvider, Naturals

Kinds == {"not_root", "no_versions", "custom", "dependency", "derived"}

\* dependency: the two packages of a FromDependencyOf; causes: the ids in a
\* DerivedFrom.  The field a kind does not use is << >>.
IncompatibilityType ==
    [terms      : SUBSET (Packages \X TermType),
     kind       : Kinds,
     dependency : {<< >>} \cup (Packages \X Packages),
     causes     : {<< >>} \cup (Nat \X Nat)]

External(terms, kind) ==
    [terms |-> terms, kind |-> kind, dependency |-> << >>, causes |-> << >>]

NotRoot           == External({<<RootPackage, Negative({RootVersion})>>}, "not_root")
NoVersions(p, t)  == External({<<p, t>>}, "no_versions")
CustomVersion(p, v) == External({<<p, Exact(v)>>}, "custom")

\* p at one of `versions' depends on p2 being in set2.
FromDependency(p, versions, p2, set2) ==
    [terms      |-> {<<p, Positive(versions)>>}
                    \cup (IF set2 = {} THEN {} ELSE {<<p2, Negative(set2)>>}),
     kind       |-> "dependency",
     dependency |-> <<p, p2>>,
     causes     |-> << >>]

IncompatPackages(terms) == {x[1] : x \in terms}
EntriesOf(terms, p)     == {x \in terms : x[1] = p}
TermsOf(terms, p)       == {x[2] : x \in EntriesOf(terms, p)}

\* get: the first entry of the package.
Get(terms, p) ==
    LET ts == TermsOf(terms, p)
    IN  CHOOSE t \in ts : t.positive \/ \A t2 \in ts : ~t2.positive

(***************************************************************************)
(* merge_dependents: p1 at some versions and p1 at other versions depend   *)
(* on the same set of p2.                                                  *)
(***************************************************************************)
\* Mutant: ignores the range of the dependency.
CanMergeAnyRange(i, j) ==
    /\ i.kind = "dependency" /\ j.kind = "dependency"
    /\ i.dependency = j.dependency
    /\ i.dependency[1] # i.dependency[2]

CanMerge(i, j) ==
    /\ i.kind = "dependency" /\ j.kind = "dependency"
    /\ i.dependency = j.dependency
    /\ i.dependency[1] # i.dependency[2]
    /\ TermsOf(i.terms, i.dependency[2]) = TermsOf(j.terms, j.dependency[2])

\* Mutant: forgets the versions that were merged before.
MergedForgetsPast(i, j) == i

Merged(i, j) ==
    LET p1 == i.dependency[1]
        p2 == i.dependency[2]
    IN  [i EXCEPT !.terms =
            {<<p1, Positive(Get(i.terms, p1).set \cup Get(j.terms, p1).set)>>}
            \cup EntriesOf(i.terms, p2)]

(***************************************************************************)
(* prior_cause: the resolvent of the conflicting incompatibility and the   *)
(* cause of its satisfier, on the satisfier's package.                     *)
(***************************************************************************)
\* The terms of the other packages, intersected where both have one.
MergeTerms(terms, others) ==
    {x \in terms : x[1] \notin IncompatPackages(others)}
    \cup {x \in others : x[1] \notin IncompatPackages(terms)}
    \cup {<<x[1], Intersection(x[2], Get(others, x[1]))>> :
              x \in {y \in terms : y[1] \in IncompatPackages(others)}}

\* Mutant: intersects where resolution unites.
ResolventTermIntersected(terms1, terms2, p) ==
    Intersection(Get(terms1, p), Get(terms2, p))

ResolventTerm(terms1, terms2, p) == Union(Get(terms1, p), Get(terms2, p))

\* Mutant: the terms of the cause are left out.
PriorCauseDropsCause(terms1, terms2, p) ==
    LET rest == {x \in terms1 : x[1] # p}
        term == ResolventTerm(terms1, terms2, p)
    IN  IF term = AnyTerm THEN rest ELSE rest \cup {<<p, term>>}

PriorCauseTerms(terms1, terms2, p) ==
    LET rest   == MergeTerms(terms1 \ {<<p, Get(terms1, p)>>},
                             {x \in terms2 : x[1] # p})
        term   == ResolventTerm(terms1, terms2, p)
    IN  IF term = AnyTerm THEN rest
                      ELSE {x \in rest : x[1] # p} \cup {<<p, term>>}

PriorCause(store, incompat, cause, p) ==
    [terms      |-> PriorCauseTerms(store[incompat].terms, store[cause].terms, p),
     kind       |-> "derived",
     dependency |-> << >>,
     causes     |-> <<incompat, cause>>]

IsTerminal(terms) ==
    \/ terms = {}
    \/ \E x \in terms : /\ terms = {x}
                        /\ x[1] = RootPackage
                        /\ TermContains(x[2], RootVersion)

(***************************************************************************)
(* relation: how the known terms, a function on some packages, relate to   *)
(* an incompatibility.  The loop stops at the first contradicted or the    *)
(* second inconclusive term, so an incompatibility that has both may be    *)
(* reported either way, as the order of the map has it.                    *)
(***************************************************************************)
EntrySatisfied(x, known)    == x[1] \in DOMAIN known /\ TermSatisfied(x[2], known[x[1]])
EntryContradicted(x, known) == x[1] \in DOMAIN known /\ TermContradicted(x[2], known[x[1]])
EntryInconclusive(x, known) == x[1] \in DOMAIN known => TermInconclusive(x[2], known[x[1]])

Satisfied(terms, known) == \A x \in terms : EntrySatisfied(x, known)

AlmostSatisfiedBy(terms, known, x) ==
    /\ x \in terms
    /\ EntryInconclusive(x, known)
    /\ \A y \in terms \ {x} : EntrySatisfied(y, known)

HasContradicted(terms, known) == \E x \in terms : EntryContradicted(x, known)

HasTwoInconclusive(terms, known) ==
    \E x, y \in terms : x # y /\ EntryInconclusive(x, known) /\ EntryInconclusive(y, known)

\* What no solution does: select a version for every term.
SelectionSatisfies(terms, w) == \A x \in terms : TermContains(x[2], w[x[1]])
=============================================================================
