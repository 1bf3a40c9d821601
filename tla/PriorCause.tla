----------------------------- MODULE PriorCause -----------------------------
(***************************************************************************)
(* Incompatibility::prior_cause (src/src/internal/incompatibility.rs) on   *)
(* the maps of the code.  First the terms of an incompatibility are put    *)
(* together in any order, with the methods of SmallMap; then the rule of   *)
(* resolution is applied to them and to another incompatibility, one entry *)
(* at a time.                                                              *)
(***************************************************************************)
EXTENDS Incompatibility

CONSTANT Terms     \* the terms of the packages

ASSUME TermsAssumption == Terms \subseteq TermType \ {AnyTerm}

Map == INSTANCE SmallMap

VARIABLES
    map,         \* the map under construction
    returned,    \* what its last call answered
    pc,          \* "edit", "merge", "insert", "done"
    package,     \* the arguments of prior_cause: the package,
    incompat,    \* the terms of the incompatibility
    cause,       \* and those of the cause of its satisfier
    resolvent,   \* package_terms, the result
    pending      \* the entries of `cause' still to come

priorCauseVars == <<pc, package, incompat, cause, resolvent, pending>>
vars == <<map, returned, priorCauseVars>>

\* The terms of a version that depends on its own package.
SelfDependencyMaps ==
    {Map!Inline(<<<<p, t1>>, <<p, t2>>>>) :
        p \in Packages, t1 \in {t \in Terms : t.positive}, t2 \in {t \in Terms : ~t.positive}}

ProperMaps ==
    {Map!Inline(entries) : entries \in
        {<< >>} \cup [{1} -> Packages \X Terms]
        \cup {e \in [1 .. 2 -> Packages \X Terms] : e[1][1] # e[2][1]}}
    \cup {Map!Flexible(f) : f \in UNION {[set -> Terms] : set \in SUBSET Packages}}

TypeOK ==
    /\ map \in ProperMaps
    /\ returned \subseteq Terms
    /\ pc \in {"edit", "merge", "insert", "done"}
    /\ package \in Packages
    /\ pending \in Seq(Packages \X Terms)

Init ==
    /\ map = Map!Empty
    /\ returned = {}
    /\ pc = "edit"
    /\ package = RootPackage
    /\ incompat = Map!Empty
    /\ cause = Map!Empty
    /\ resolvent = Map!Empty
    /\ pending = << >>

-----------------------------------------------------------------------------
(* The methods of SmallMap *)

Editing == pc = "edit" /\ UNCHANGED priorCauseVars

Insert(p, t) ==
    /\ Editing
    /\ map' = Map!Insert(map, p, t)
    /\ returned' = {}

Update(p, t) ==
    /\ Editing
    /\ returned' = Map!Get(map, p)
    /\ map' = Map!Assign(map, p, t)

Remove(p) ==
    /\ Editing
    /\ returned' = Map!Get(map, p)
    /\ map' = Map!Without(map, p)

Lookup(p) ==
    /\ Editing
    /\ returned' = Map!Get(map, p)
    /\ UNCHANGED map

-----------------------------------------------------------------------------
(* prior_cause *)

\* The incompatibility is the one put together, or a self-dependency; the
\* cause may be any that has a term for the package.
\* split_one
Split ==
    /\ pc = "edit"
    /\ returned = {}
    /\ \E p \in Packages,
          terms1 \in {map} \cup (IF map = Map!Empty THEN SelfDependencyMaps ELSE {}),
          terms2 \in ProperMaps \cup SelfDependencyMaps :
          /\ Map!HasKey(terms1, p) /\ Map!HasKey(terms2, p)
          /\ package' = p
          /\ incompat' = terms1
          /\ cause' = terms2
          /\ resolvent' = Map!Without(terms1, p)
          /\ pending' \in Map!Orders(terms2)
    /\ pc' = "merge"
    /\ UNCHANGED <<map, returned>>

Merging == pc = "merge" /\ UNCHANGED <<map, returned, pc, package, incompat, cause>>

\* What the filter over iter leaves out: the package resolved on.
SkipPackage ==
    /\ Merging
    /\ pending # << >>
    /\ Head(pending)[1] = package
    /\ pending' = Tail(pending)
    /\ UNCHANGED resolvent

MergeCauseTerm ==
    /\ Merging
    /\ pending # << >>
    /\ Head(pending)[1] # package
    /\ LET x == Head(pending)
       IN  resolvent' = Map!MergeEntry(resolvent, x[1], x[2],
                            {Intersection(t, x[2]) : t \in Map!Get(resolvent, x[1])})
    /\ pending' = Tail(pending)

EndMerge ==
    /\ pc = "merge"
    /\ pending = << >>
    /\ pc' = "insert"
    /\ UNCHANGED <<map, returned, package, incompat, cause, resolvent, pending>>

Value(m, p) == CHOOSE t \in Map!Get(m, p) : TRUE

InsertUnion ==
    /\ pc = "insert"
    /\ LET term == Union(Value(incompat, package), Value(cause, package))
       IN  resolvent' = IF term = AnyTerm THEN resolvent
                                          ELSE Map!Insert(resolvent, package, term)
    /\ pc' = "done"
    /\ UNCHANGED <<map, returned, package, incompat, cause, pending>>

Done == pc = "done" /\ UNCHANGED vars

Next ==
    \/ \E p \in Packages : Remove(p) \/ Lookup(p) \/ \E t \in Terms : Insert(p, t) \/ Update(p, t)
    \/ Split \/ SkipPackage \/ MergeCauseTerm \/ EndMerge \/ InsertUnion \/ Done

Spec == Init /\ [][Next]_vars

-----------------------------------------------------------------------------
(* Properties *)

\* A SmallMap is a map, whatever was done to it before.
Content ==
    [p \in {q \in Packages : Map!HasKey(map, q)} |-> Value(map, p)]

AbstractMap == INSTANCE KeyValueMap WITH
                   Keys <- Packages, Values <- Terms, content <- Content

IsMap == AbstractMap!Spec

\* What the code computes step by step on its maps, in the order that iter
\* gives, is the rule of resolution that the solver's model uses on sets of
\* entries, the map that has a key twice included; and the result has one
\* entry for each package, what the split leaves is replaced by the union.
ResolventExact ==
    pc = "done" =>
        LET terms == Map!Entries(resolvent)
        IN  /\ terms = PriorCauseTerms(Map!Entries(incompat), Map!Entries(cause), package)
            /\ Map!Length(resolvent) = Cardinality(IncompatPackages(terms))
=============================================================================
