-------------------------------- MODULE Term --------------------------------
(***************************************************************************)
(* Terms of PubGrub (src/src/term.rs).  A term is a constraint on the      *)
(* version selected for one package: Positive(set) holds when a version of *)
(* `set' is selected, Negative(set) when none of them is, which includes   *)
(* the case where the package is not selected at all.                      *)
(*                                                                         *)
(* A version set is modelled by the set of its members, the meaning every  *)
(* VersionSet implementation has to keep (src/src/version_set.rs).         *)
(***************************************************************************)

CONSTANTS
    Versions,    \* every version a version set may contain
    NoVersion    \* what a package that is not selected has for a version

ASSUME NoVersionAssumption == NoVersion \notin Versions

Selections == Versions \cup {NoVersion}

TermType == [positive : BOOLEAN, set : SUBSET Versions]

Positive(set) == [positive |-> TRUE, set |-> set]
Negative(set) == [positive |-> FALSE, set |-> set]

AnyTerm   == Negative({})
EmptyTerm == Positive({})
Exact(v)  == Positive({v})

Negate(t) == IF t.positive THEN Negative(t.set) ELSE Positive(t.set)

\* Evaluates a term for a choice of version, NoVersion included.
TermContains(t, v) == (v \in t.set) <=> t.positive

Complement(set) == Versions \ set

Intersection(t1, t2) ==
    IF t1.positive
    THEN IF t2.positive THEN Positive(t1.set \cap t2.set)
                        ELSE Positive(Complement(t2.set) \cap t1.set)
    ELSE IF t2.positive THEN Positive(Complement(t1.set) \cap t2.set)
                        ELSE Negative(t1.set \cup t2.set)

Union(t1, t2) ==
    IF t1.positive
    THEN IF t2.positive THEN Positive(t1.set \cup t2.set)
                        ELSE Negative(Complement(t1.set) \cap t2.set)
    ELSE IF t2.positive THEN Negative(Complement(t2.set) \cap t1.set)
                        ELSE Negative(t1.set \cap t2.set)

IsDisjoint(t1, t2) ==
    \/ t1.positive /\ t2.positive /\ t1.set \cap t2.set = {}
    \/ t1.positive /\ ~t2.positive /\ t1.set \subseteq t2.set
    \/ ~t1.positive /\ t2.positive /\ t2.set \subseteq t1.set

SubsetOf(t1, t2) ==
    \/ t1.positive /\ t2.positive /\ t1.set \subseteq t2.set
    \/ t1.positive /\ ~t2.positive /\ t1.set \cap t2.set = {}
    \/ ~t1.positive /\ ~t2.positive /\ t2.set \subseteq t1.set

\* relation_with: what knowing `other' tells of the term t.
TermSatisfied(t, other)    == SubsetOf(other, t)
TermContradicted(t, other) == ~SubsetOf(other, t) /\ IsDisjoint(t, other)
TermInconclusive(t, other) == ~SubsetOf(other, t) /\ ~IsDisjoint(t, other)
=============================================================================
