------------------------ MODULE ExplanationTheorems ------------------------
(***************************************************************************)
(* The explanation of a failure: the facts at the leaves of the derivation *)
(* tree are true of the registry, and collapse_no_versions keeps what it   *)
(* says.  Each entry of the store has causes of smaller ids, so that what  *)
(* the recursive definitions of the trees compute can be shown by induction*)
(* over the ids.                                                           *)
(***************************************************************************)
EXTENDS ConflictTheorems, ReportProperties

-----------------------------------------------------------------------------
(* Induction over the ids of a store *)

\* A set of natural numbers has a least one.
LEMMA LeastNatural ==
    ASSUME NEW T \in SUBSET Nat, T # {}
    PROVE  \E x \in T : \A y \in T : x <= y
<1>1. \E x \in T : \A y \in T : ~(<<y, x>> \in OpToRel(<, Nat))
  BY NatLessThanWellFounded, WFMin
<1>2. \A x \in T, y \in T : y < x => <<y, x>> \in OpToRel(<, Nat)
  BY DEF OpToRel
<1>3. \E x \in T : \A y \in T : ~(y < x)
  BY <1>1, <1>2, Zenon
<1> QED BY <1>3

\* What is true of an id when it is of all smaller ones is true of all.
LEMMA IdInduction ==
    ASSUME NEW n \in Nat, NEW S,
           \A id \in 1 .. n : (\A i \in 1 .. id - 1 : i \in S) => id \in S
    PROVE  1 .. n \subseteq S
<1> SUFFICES ASSUME NEW id \in 1 .. n, id \notin S PROVE FALSE
  OBVIOUS
<1>1. PICK T \in SUBSET Nat : T = (1 .. n) \ S
  <2>1. (1 .. n) \ S \in SUBSET Nat
    OBVIOUS
  <2> QED BY <2>1
<1>2. PICK x \in T : \A y \in T : x <= y
  BY <1>1, LeastNatural
<1>3. \A i \in 1 .. x - 1 : i \in S
  BY <1>1, <1>2
<1> QED BY <1>1, <1>2, <1>3

-----------------------------------------------------------------------------
(* The tree under an id *)

\* Causes have smaller ids.
CausesBelow(s) ==
    /\ Len(s) \in Nat /\ DOMAIN s = 1 .. Len(s)
    /\ \A id \in DOMAIN s : \A k \in DOMAIN s[id].causes : s[id].causes[k] \in 1 .. id - 1

IsBelow(s, f, set) ==
    f = [i \in set |-> {i} \cup UNION {f[s[i].causes[k]] : k \in DOMAIN s[i].causes}]

\* The function that `Ancestors' chooses exists, ...
LEMMA BelowExists ==
    ASSUME NEW s, CausesBelow(s)
    PROVE  \E f : IsBelow(s, f, DOMAIN s)
<1> DEFINE S == {n \in Nat : n <= Len(s) + 1 => \E f : IsBelow(s, f, 1 .. n - 1)}
<1>1. Len(s) \in Nat /\ DOMAIN s = 1 .. Len(s)
  BY DEF CausesBelow
<1>2. ASSUME NEW n \in 1 .. Len(s) + 1, \A i \in 1 .. n - 1 : i \in S
      PROVE  n \in S
  <2>1. CASE n = 1
    <3>1. IsBelow(s, [i \in {} |-> {}], {})
      BY DEF IsBelow
    <3>2. 1 .. n - 1 = {}
      BY <2>1
    <3> QED BY <1>1, <3>1, <3>2
  <2>2. CASE n # 1
    <3>1. n - 1 \in 1 .. n - 1 /\ n - 1 \in 1 .. Len(s) /\ n \in Nat
      BY <1>1, <2>2
    <3>2. PICK f : IsBelow(s, f, 1 .. (n - 1) - 1)
      BY <1>1, <1>2, <3>1
    <3>3. PICK m \in 1 .. Len(s) : m = n - 1 /\ 1 .. n - 1 = (1 .. m - 1) \cup {m} /\ m \notin 1 .. m - 1
      BY <1>1, <3>1
    <3>4. PICK x : x = {m} \cup UNION {f[s[m].causes[k]] : k \in DOMAIN s[m].causes}
      OBVIOUS
    <3>5. PICK g : g = [i \in 1 .. n - 1 |-> IF i = m THEN x ELSE f[i]]
      OBVIOUS
    <3>6. \A i \in 1 .. m : \A k \in DOMAIN s[i].causes :
              /\ s[i].causes[k] \in 1 .. m - 1
              /\ g[s[i].causes[k]] = f[s[i].causes[k]]
      <4>1. \A i \in 1 .. m : \A k \in DOMAIN s[i].causes : s[i].causes[k] \in 1 .. i - 1
        BY <1>1, <3>3 DEF CausesBelow
      <4>2. \A i \in 1 .. m : \A j \in 1 .. i - 1 : j \in 1 .. m - 1
        BY <3>3
      <4>3. \A j \in 1 .. m - 1 : g[j] = f[j]
        BY <3>3, <3>5
      <4> QED BY <4>1, <4>2, <4>3
    <3>7. \A i \in 1 .. m - 1 : f[i] = {i} \cup UNION {f[s[i].causes[k]] : k \in DOMAIN s[i].causes}
      <4>1. m - 1 = (n - 1) - 1
        BY <3>3
      <4> QED BY <3>2, <3>3, <4>1 DEF IsBelow
    <3>8. \A i \in 1 .. m : {g[s[i].causes[k]] : k \in DOMAIN s[i].causes}
                               = {f[s[i].causes[k]] : k \in DOMAIN s[i].causes}
      BY <3>6
    <3>9. \A i \in 1 .. n - 1 : g[i] = {i} \cup UNION {g[s[i].causes[k]] : k \in DOMAIN s[i].causes}
      <4>1. g[m] = {m} \cup UNION {g[s[m].causes[k]] : k \in DOMAIN s[m].causes}
        <5>1. g[m] = x /\ m \in 1 .. m
          BY <3>3, <3>5
        <5>2. {g[s[m].causes[k]] : k \in DOMAIN s[m].causes}
                  = {f[s[m].causes[k]] : k \in DOMAIN s[m].causes}
          BY <3>8, <5>1
        <5> QED BY <3>4, <5>1, <5>2
      <4>2. ASSUME NEW i \in 1 .. m - 1
            PROVE  g[i] = {i} \cup UNION {g[s[i].causes[k]] : k \in DOMAIN s[i].causes}
        <5>1. g[i] = f[i] /\ i \in 1 .. m
          BY <3>3, <3>5
        <5> QED BY <3>7, <3>8, <5>1
      <4> QED BY <3>3, <4>1, <4>2
    <3>10. IsBelow(s, g, 1 .. n - 1)
      BY <3>5, <3>9 DEF IsBelow
    <3> QED BY <3>1, <3>10
  <2> QED BY <2>1, <2>2
<1>3. Len(s) + 1 \in S
  <2> HIDE DEF S
  <2>1. PICK N \in Nat : N = Len(s) + 1
    BY <1>1
  <2>2. \A n \in 1 .. N : (\A i \in 1 .. n - 1 : i \in S) => n \in S
    BY <1>2, <2>1
  <2>3. 1 .. N \subseteq S
    BY <2>2, IdInduction
  <2> QED BY <1>1, <2>1, <2>3
<1> QED BY <1>1, <1>3

\* ... so that `Ancestors' obeys its recursive definition.
LEMMA AncestorsExact ==
    ASSUME NEW s, CausesBelow(s)
    PROVE  \E f : IsBelow(s, f, DOMAIN s) /\ \A id : Ancestors(s, id) = f[id]
<1> DEFINE f == CHOOSE f : IsBelow(s, f, DOMAIN s)
<1>1. IsBelow(s, f, DOMAIN s)
  BY BelowExists, Zenon
<1>2. \A id : Ancestors(s, id) = f[id]
  BY DEF Ancestors, IsBelow
<1> QED BY <1>1, <1>2

\* The tree under an id of the store is in the store.
LEMMA AncestorsInStore ==
    ASSUME NEW s, CausesBelow(s), NEW id \in DOMAIN s
    PROVE  Ancestors(s, id) \subseteq DOMAIN s
<1>1. PICK f : IsBelow(s, f, DOMAIN s) /\ \A i : Ancestors(s, i) = f[i]
  BY AncestorsExact
<1> DEFINE S == {i \in DOMAIN s : f[i] \subseteq DOMAIN s}
<1>2. Len(s) \in Nat /\ DOMAIN s = 1 .. Len(s)
  BY DEF CausesBelow
<1>3. ASSUME NEW n \in 1 .. Len(s), \A i \in 1 .. n - 1 : i \in S
      PROVE  n \in S
  <2>1. f[n] = {n} \cup UNION {f[s[n].causes[k]] : k \in DOMAIN s[n].causes}
    BY <1>1, <1>2 DEF IsBelow
  <2>2. \A k \in DOMAIN s[n].causes : f[s[n].causes[k]] \subseteq DOMAIN s
    BY <1>2, <1>3 DEF CausesBelow
  <2> QED BY <1>2, <2>1, <2>2
<1>4. 1 .. Len(s) \subseteq S
  <2> HIDE DEF S
  <2>1. \A n \in 1 .. Len(s) : (\A i \in 1 .. n - 1 : i \in S) => n \in S
    BY <1>3
  <2>2. PICK N \in Nat : N = Len(s)
    BY <1>2
  <2> QED BY <2>1, <2>2, IdInduction
<1> QED BY <1>1, <1>2, <1>4

-----------------------------------------------------------------------------
(* What an external incompatibility says *)

\* A dependency is read back as it was made.
LEMMA RangesOfDependency ==
    ASSUME NEW p, NEW q, NEW versions, NEW set,
           NEW i, i = FromDependency(p, versions, q, set)
    PROVE  DependentRange(i) = versions /\ DependencyRange(i) = set
<1>1. PICK x, y : x = <<p, Positive(versions)>> /\ y = <<q, Negative(set)>>
  OBVIOUS
<1>2. /\ x[1] = p /\ x[2] = Positive(versions) /\ y[1] = q /\ y[2] = Negative(set)
      /\ Positive(versions).positive /\ ~Negative(set).positive
      /\ Positive(versions).set = versions /\ Negative(set).set = set
  BY <1>1 DEF Positive, Negative
<1>3. /\ i.dependency[1] = p /\ i.dependency[2] = q
      /\ x \in i.terms /\ (set # {} => y \in i.terms)
      /\ \A z \in i.terms : z = x \/ (z = y /\ set # {})
  <2>1. i.terms = {x} \cup (IF set = {} THEN {} ELSE {y}) /\ i.dependency = <<p, q>>
    BY <1>1 DEF FromDependency
  <2>2. CASE set = {}
    BY <2>1, <2>2
  <2>3. CASE set # {}
    BY <2>1, <2>3
  <2> QED BY <2>2, <2>3
<1>4. DependentRange(i) = versions
  <2>1. /\ Positive(versions) \in TermsOf(i.terms, p)
        /\ \A t \in TermsOf(i.terms, p) : t.positive => t = Positive(versions)
    BY <1>2, <1>3 DEF TermsOf, EntriesOf
  <2>2. Get(i.terms, p) \in TermsOf(i.terms, p)
        /\ (Get(i.terms, p).positive \/ \A t \in TermsOf(i.terms, p) : ~t.positive)
    BY <1>2, <2>1, Zenon DEF Get
  <2>3. Get(i.terms, p) = Positive(versions)
    BY <1>2, <2>1, <2>2
  <2> QED BY <1>2, <1>3, <2>3 DEF DependentRange
<1>5. DependencyRange(i) = set
  <2>1. \A t \in TermsOf(i.terms, q) : ~t.positive => t = Negative(set)
    BY <1>2, <1>3 DEF TermsOf, EntriesOf
  <2>2. set # {} => Negative(set) \in TermsOf(i.terms, q)
    BY <1>2, <1>3 DEF TermsOf, EntriesOf
  <2>3. set = {} => \A t \in TermsOf(i.terms, q) : t.positive
    BY <1>2, <1>3 DEF TermsOf, EntriesOf
  <2>4. PICK ts : ts = {t.set : t \in {u \in TermsOf(i.terms, q) : ~u.positive}}
    OBVIOUS
  <2>5. DependencyRange(i) = UNION ts
    BY <1>3, <2>4 DEF DependencyRange
  <2>6. CASE set = {}
    <3>1. ts = {}
      BY <2>3, <2>4, <2>6
    <3> QED BY <2>5, <2>6, <3>1
  <2>7. CASE set # {}
    <3>1. ts = {set}
      BY <1>2, <2>1, <2>2, <2>4, <2>7
    <3> QED BY <2>5, <3>1
  <2> QED BY <2>6, <2>7
<1> QED BY <1>4, <1>5

\* The two ways to say that an external incompatibility is a fact agree.
LEMMA FactIsTrue ==
    ASSUME NEW i, i.kind \in Kinds, i.kind # "derived", Fact(i)
    PROVE  ExternalTrue(i) /\ i.causes = << >>
<1>1. CASE i.kind = "not_root"
  BY <1>1 DEF ExternalTrue, Fact, NotRoot, External
<1>2. CASE i.kind = "no_versions"
  <2>1. PICK p \in Packages, range \in Ranges :
            i = NoVersions(p, Positive(range)) /\ Candidates(registry, p, range) = {}
    BY <1>2 DEF Fact, NoVersionsFact
  <2>2. PICK x : x = <<p, Positive(range)>>
    OBVIOUS
  <2>3. i.terms = {x} /\ x[1] = p /\ x[2].set = range /\ i.causes = << >>
    BY <2>1, <2>2 DEF NoVersions, External, Positive
  <2> QED BY <1>2, <2>1, <2>3 DEF ExternalTrue
<1>3. CASE i.kind = "custom"
  <2>1. PICK p \in Packages, v \in Versions :
            i = CustomVersion(p, v) /\ registry[p][v].status = "unavailable"
    BY <1>3 DEF Fact, CustomFact
  <2>2. PICK x : x = <<p, Exact(v)>>
    OBVIOUS
  <2>3. i.terms = {x} /\ x[1] = p /\ x[2].set = {v} /\ i.causes = << >>
    BY <2>1, <2>2 DEF CustomVersion, External, Exact, Positive
  <2> QED BY <1>3, <2>1, <2>3 DEF ExternalTrue
<1>4. CASE i.kind = "dependency"
  <2>1. PICK p, q \in Packages, versions, set \in Ranges :
            i = FromDependency(p, versions, q, set) /\ \A v \in versions : DependsAt(p, v, q, set)
    BY <1>4 DEF Fact, DependencyFact
  <2>2. DependentRange(i) = versions /\ DependencyRange(i) = set
    BY <2>1, RangesOfDependency
  <2>3. i.dependency[1] = p /\ i.dependency[2] = q /\ i.causes = << >>
    BY <2>1 DEF FromDependency
  <2>4. ExternalTrue(i)
    BY <1>4, <2>1, <2>2, <2>3 DEF ExternalTrue, DependsAt
  <2> QED BY <2>3, <2>4
<1> QED BY <1>1, <1>2, <1>3, <1>4 DEF Kinds

\* The store of the solver has causes of smaller ids.
LEMMA StoreCausesBelow ==
    ASSUME Invariant, EntriesExplained
    PROVE  CausesBelow(store)
<1>1. store \in Seq(IncompatibilityType)
  BY InvariantParts DEF GoodStore
<1>2. Len(store) \in Nat /\ DOMAIN store = 1 .. Len(store)
      /\ \A id \in DOMAIN store : store[id].kind \in Kinds
  <2>1. Len(store) \in Nat /\ DOMAIN store = 1 .. Len(store)
    BY <1>1
  <2>2. \A id \in DOMAIN store : store[id] \in IncompatibilityType
    BY <2>1, StoreEntry DEF Ids
  <2> QED BY <2>1, <2>2 DEF IncompatibilityType
<1>3. ASSUME NEW id \in DOMAIN store, NEW k \in DOMAIN store[id].causes
      PROVE  store[id].causes[k] \in 1 .. id - 1
  <2>1. Explained(store, id)
    BY <1>2 DEF EntriesExplained, Ids
  <2>2. CASE store[id].kind = "derived"
    <3>1. PICK p \in Packages, c1, c2 \in 1 .. id - 1 : ResolventOf(store, id, p, c1, c2)
      BY <2>1, <2>2 DEF Explained
    <3>2. store[id].causes = <<c1, c2>>
      BY <3>1 DEF ResolventOf, PriorCause
    <3> QED BY <1>3, <3>1, <3>2
  <2>3. CASE store[id].kind # "derived"
    <3>1. store[id].causes = << >>
      BY <1>2, <2>1, <2>3, FactIsTrue DEF Explained
    <3> QED BY <1>3, <3>1
  <2> QED BY <2>2, <2>3
<1> QED BY <1>2, <1>3 DEF CausesBelow

\* The tree of the failure is in the store.
LEMMA TreeIdsInStore ==
    ASSUME ProofInvariant
    PROVE  Invariant /\ EntriesExplained /\ TreeIds \subseteq Ids
<1>1. Invariant /\ EntriesExplained
  BY DEF ProofInvariant, AnswerInvariant, ConflictInvariant
<1>2. store \in Seq(IncompatibilityType) /\ conflict \in Ids
  BY <1>1, InvariantParts DEF GoodStore, SolverTypeOK
<1>3. DOMAIN store = Ids
  BY <1>2 DEF Ids
<1> QED BY <1>1, <1>2, <1>3, StoreCausesBelow, AncestorsInStore DEF TreeIds

\* Every fact at the leaves of the tree that `resolve' fails with is true of
\* the registry: what it tells of missing and unavailable versions and of
\* dependencies, merged ones included (`no_versions', `custom_version',
\* `from_dependency', `merge_dependents').
THEOREM FactsAlwaysTrue == Spec => []FactsTrue
<1>1. ProofInvariant => FactsTrue
  <2>1. ASSUME ProofInvariant, NEW id \in TreeIds, store[id].kind # "derived"
        PROVE  ExternalTrue(store[id])
    <3>1. Invariant /\ EntriesExplained /\ id \in Ids
      BY <2>1, TreeIdsInStore
    <3>2. store[id] \in IncompatibilityType
      BY <3>1, StoreEntry
    <3>3. Fact(store[id]) /\ store[id].kind \in Kinds
      BY <2>1, <3>1, <3>2 DEF EntriesExplained, Explained, IncompatibilityType
    <3> QED BY <2>1, <3>3, FactIsTrue
  <2> QED BY <2>1 DEF FactsTrue
<1> QED BY <1>1, AlwaysConflict, PTL

-----------------------------------------------------------------------------
(* The collapsed trees *)

\* A derived one has two causes, and they have smaller ids.
TwoCauses(s) ==
    /\ CausesBelow(s)
    /\ \A id \in DOMAIN s : s[id].kind = "derived" =>
          s[id].causes[1] \in 1 .. id - 1 /\ s[id].causes[2] \in 1 .. id - 1

CollapsedAt(s, f, id) ==
    IF s[id].kind = "derived"
    THEN CollapseNode([s[id] EXCEPT !.causes = <<f[s[id].causes[1]], f[s[id].causes[2]]>>])
    ELSE s[id]

IsCollapsed(s, f, set) == f = [id \in set |-> CollapsedAt(s, f, id)]

\* Only the trees of smaller ids matter to the tree of an id.
LEMMA CollapsedAtSame ==
    ASSUME NEW s, TwoCauses(s), NEW id \in DOMAIN s, NEW f, NEW g,
           \A i \in 1 .. id - 1 : f[i] = g[i]
    PROVE  CollapsedAt(s, f, id) = CollapsedAt(s, g, id)
<1>1. CASE s[id].kind = "derived"
  <2>1. PICK c1, c2 : c1 = s[id].causes[1] /\ c2 = s[id].causes[2]
    OBVIOUS
  <2>2. f[c1] = g[c1] /\ f[c2] = g[c2]
    BY <1>1, <2>1 DEF TwoCauses
  <2> QED BY <1>1, <2>1, <2>2 DEF CollapsedAt
<1>2. CASE s[id].kind # "derived"
  BY <1>2 DEF CollapsedAt
<1> QED BY <1>1, <1>2

\* The function that `CollapsedTrees' chooses exists, ...
LEMMA CollapsedExists ==
    ASSUME NEW s, TwoCauses(s)
    PROVE  \E f : IsCollapsed(s, f, DOMAIN s)
<1> DEFINE S == {n \in Nat : n <= Len(s) + 1 => \E f : IsCollapsed(s, f, 1 .. n - 1)}
<1>1. Len(s) \in Nat /\ DOMAIN s = 1 .. Len(s)
  BY DEF TwoCauses, CausesBelow
<1>2. ASSUME NEW n \in 1 .. Len(s) + 1, \A i \in 1 .. n - 1 : i \in S
      PROVE  n \in S
  <2>1. CASE n = 1
    <3>1. IsCollapsed(s, [i \in {} |-> {}], {})
      BY DEF IsCollapsed
    <3>2. 1 .. n - 1 = {}
      BY <2>1
    <3> QED BY <1>1, <3>1, <3>2
  <2>2. CASE n # 1
    <3>1. n - 1 \in 1 .. n - 1 /\ n - 1 \in 1 .. Len(s) /\ n \in Nat
      BY <1>1, <2>2
    <3>2. PICK f : IsCollapsed(s, f, 1 .. (n - 1) - 1)
      BY <1>1, <1>2, <3>1
    <3>3. PICK m \in 1 .. Len(s) : m = n - 1 /\ 1 .. n - 1 = (1 .. m - 1) \cup {m} /\ m \notin 1 .. m - 1
      BY <1>1, <3>1
    <3>4. PICK x : x = CollapsedAt(s, f, m)
      OBVIOUS
    <3>5. PICK g : g = [i \in 1 .. n - 1 |-> IF i = m THEN x ELSE f[i]]
      OBVIOUS
    <3>6. \A i \in 1 .. m : CollapsedAt(s, f, i) = CollapsedAt(s, g, i)
      <4>1. \A i \in 1 .. m : i \in DOMAIN s /\ \A j \in 1 .. i - 1 : j \in 1 .. m - 1
        BY <1>1, <3>3
      <4>2. \A j \in 1 .. m - 1 : f[j] = g[j]
        BY <3>3, <3>5
      <4> QED BY <4>1, <4>2, CollapsedAtSame
    <3>7. \A i \in 1 .. m - 1 : f[i] = CollapsedAt(s, f, i)
      <4>1. m - 1 = (n - 1) - 1
        BY <3>3
      <4> QED BY <3>2, <3>3, <4>1 DEF IsCollapsed
    <3>9. \A i \in 1 .. n - 1 : g[i] = CollapsedAt(s, g, i)
      <4>1. g[m] = CollapsedAt(s, g, m)
        <5>1. g[m] = x /\ m \in 1 .. m
          BY <3>3, <3>5
        <5> QED BY <3>4, <3>6, <5>1
      <4>2. ASSUME NEW i \in 1 .. m - 1
            PROVE  g[i] = CollapsedAt(s, g, i)
        <5>1. g[i] = f[i] /\ i \in 1 .. m
          BY <3>3, <3>5
        <5> QED BY <3>6, <3>7, <5>1
      <4> QED BY <3>3, <4>1, <4>2
    <3>10. IsCollapsed(s, g, 1 .. n - 1)
      BY <3>5, <3>9 DEF IsCollapsed
    <3> QED BY <3>1, <3>10
  <2> QED BY <2>1, <2>2
<1>3. Len(s) + 1 \in S
  <2> HIDE DEF S
  <2>1. PICK N \in Nat : N = Len(s) + 1
    BY <1>1
  <2>2. \A n \in 1 .. N : (\A i \in 1 .. n - 1 : i \in S) => n \in S
    BY <1>2, <2>1
  <2>3. 1 .. N \subseteq S
    BY <2>2, IdInduction
  <2> QED BY <1>1, <2>1, <2>3
<1> QED BY <1>1, <1>3

\* ... so that `CollapsedTrees' obeys its recursive definition.
LEMMA CollapsedExact ==
    ASSUME NEW s, TwoCauses(s)
    PROVE  IsCollapsed(s, CollapsedTrees(s), DOMAIN s)
<1> DEFINE f == CHOOSE f : IsCollapsed(s, f, DOMAIN s)
<1>1. IsCollapsed(s, f, DOMAIN s)
  BY CollapsedExists, Zenon
<1>2. CollapsedTrees(s) = f
  BY DEF CollapsedTrees, IsCollapsed, CollapsedAt
<1> QED BY <1>1, <1>2

\* Without terms on one side nothing is merged.
LEMMA EmptyMerge ==
    ASSUME NEW terms
    PROVE  MergeTerms({}, terms) = terms /\ MergeTerms(terms, {}) = terms
BY DEF MergeTerms, IncompatPackages

\* Resolving with a range that has no version changes nothing for a selection of
\* versions that exist.
LEMMA NoVersionsResolved ==
    ASSUME NEW p \in Packages, NEW range \in Ranges,
           NEW terms \in TermsType, Resolvable(terms), p \in IncompatPackages(terms),
           NEW w \in SelectionType, w[p] \notin range,
           NEW one, one = {<<p, Positive(range)>>}
    PROVE  /\ SelectionSatisfies(PriorCauseTerms(one, terms, p), w)
                  <=> SelectionSatisfies(terms, w)
           /\ SelectionSatisfies(PriorCauseTerms(terms, one, p), w)
                  <=> SelectionSatisfies(terms, w)
<1>1. PICK x : x = <<p, Positive(range)>>
  OBVIOUS
<1>2. /\ one = {x} /\ x[1] = p /\ x[2] = Positive(range) /\ Positive(range) \in TermType
      /\ one \in TermsType
  <2>1. one = {x} /\ x[1] = p /\ x[2] = Positive(range)
    BY <1>1
  <2>2. Positive(range) \in TermType
    BY DEF Positive, TermType, Ranges
  <2>3. x \in Packages \X TermType
    BY <1>1, <2>2
  <2> QED BY <2>1, <2>2, <2>3 DEF TermsType
<1>3. OneTermPerPackage(one) /\ Resolvable(one) /\ p \in IncompatPackages(one)
  BY <1>2 DEF OneTermPerPackage, Resolvable, IncompatPackages
<1>4. Get(one, p) = Positive(range) /\ Get(terms, p) \in TermType /\ <<p, Get(terms, p)>> \in terms
  BY <1>2, <1>3, GetOnly, GetFinds
<1>5. ~TermContains(Positive(range), w[p]) /\ w[p] \in Selections
  BY DEF TermContains, Positive, SelectionType
<1>6. ~SelectionSatisfies(one, w)
  BY <1>2, <1>5 DEF SelectionSatisfies
<1>7. /\ SelectionSatisfies(PriorCauseTerms(one, terms, p), w) => SelectionSatisfies(terms, w)
      /\ SelectionSatisfies(PriorCauseTerms(terms, one, p), w) => SelectionSatisfies(terms, w)
  BY <1>2, <1>3, <1>6, PriorCauseSound
<1>8. SelectionSatisfies(terms, w) =>
         /\ TermContains(Union(Positive(range), Get(terms, p)), w[p])
         /\ TermContains(Union(Get(terms, p), Positive(range)), w[p])
  <2>1. PICK y : y = <<p, Get(terms, p)>>
    OBVIOUS
  <2>2. y \in terms /\ y[1] = p /\ y[2] = Get(terms, p)
    BY <1>4, <2>1
  <2>3. SelectionSatisfies(terms, w) => TermContains(Get(terms, p), w[p])
    BY <2>2 DEF SelectionSatisfies
  <2> QED BY <1>2, <1>4, <1>5, <2>3, UnionMeaning
<1>9. \A y \in PriorCauseTerms(one, terms, p) :
          y \in terms \/ y = <<p, Union(Positive(range), Get(terms, p))>>
  <2>1. PICK A, B : A = one \ {<<p, Get(one, p)>>} /\ B = {z \in terms : z[1] # p}
    OBVIOUS
  <2>2. A = {} /\ B \subseteq terms
    BY <1>1, <1>2, <1>4, <2>1
  <2>3. MergeTerms(A, B) = B
    BY <2>2, EmptyMerge
  <2> QED BY <1>4, <2>1, <2>2, <2>3 DEF PriorCauseTerms, ResolventTerm
<1>10. \A y \in PriorCauseTerms(terms, one, p) :
          y \in terms \/ y = <<p, Union(Get(terms, p), Positive(range))>>
  <2>1. PICK A, B : A = terms \ {<<p, Get(terms, p)>>} /\ B = {z \in one : z[1] # p}
    OBVIOUS
  <2>2. B = {} /\ A \subseteq terms
    BY <1>2, <2>1
  <2>3. MergeTerms(A, B) = A
    BY <2>2, EmptyMerge
  <2> QED BY <1>4, <2>1, <2>2, <2>3 DEF PriorCauseTerms, ResolventTerm
<1>11. ASSUME NEW t, TermContains(t, w[p]), NEW y, y = <<p, t>>
       PROVE  TermContains(y[2], w[y[1]])
  BY <1>11
<1>12. SelectionSatisfies(terms, w) =>
          /\ SelectionSatisfies(PriorCauseTerms(one, terms, p), w)
          /\ SelectionSatisfies(PriorCauseTerms(terms, one, p), w)
  BY <1>8, <1>9, <1>10, <1>11 DEF SelectionSatisfies
<1> QED BY <1>7, <1>12

\* Nor does a dependency of p on q that such a range of a is merged into.
StillDepends(p, q, i, a, range, j) ==
    /\ \E versions, set \in Ranges : j = FromDependency(p, versions, q, set)
    /\ IncompatPackages(i.terms) \subseteq IncompatPackages(j.terms)
    /\ \A w \in SelectionType : w[a] \notin range =>
          (SelectionSatisfies(j.terms, w) <=> SelectionSatisfies(i.terms, w))

LEMMA MergedMeaning ==
    ASSUME NEW p \in Packages, NEW q \in Packages, NEW versions \in Ranges, NEW set \in Ranges,
           NEW i, i = FromDependency(p, versions, q, set),
           NEW a \in IncompatPackages(i.terms), NEW range \in Ranges, NEW j,
           j = MergeNoVersions(i, a, range)
    PROVE  StillDepends(p, q, i, a, range, j)
<1>1. DependentRange(i) = versions /\ DependencyRange(i) = set
  BY RangesOfDependency
<1>2. i.dependency[1] = p /\ i.dependency[2] = q
  BY DEF FromDependency
<1>3. \A v, s : /\ p \in IncompatPackages(FromDependency(p, v, q, s).terms)
                /\ s # {} => q \in IncompatPackages(FromDependency(p, v, q, s).terms)
  BY DependencyOf
<1>4. \A x \in IncompatPackages(i.terms) : x = p \/ (x = q /\ set # {})
  <2>1. PICK x, y : x = <<p, Positive(versions)>> /\ y = <<q, Negative(set)>>
    OBVIOUS
  <2>2. x[1] = p /\ y[1] = q /\ \A z \in i.terms : z = x \/ (z = y /\ set # {})
    BY <2>1 DEF FromDependency
  <2> QED BY <2>2 DEF IncompatPackages
<1>5. CASE a = p
  <2>1. PICK v2 \in Ranges : v2 = versions \cup range
    <3>1. versions \cup range \in Ranges
      BY DEF Ranges
    <3> QED BY <3>1
  <2>2. j = FromDependency(p, v2, q, set)
    BY <1>1, <1>2, <1>5, <2>1 DEF MergeNoVersions
  <2>3. IncompatPackages(i.terms) \subseteq IncompatPackages(j.terms)
    BY <1>3, <1>4, <2>2
  <2>4. \A w \in SelectionType : w[a] \notin range => (w[p] \in v2 <=> w[p] \in versions)
    BY <1>5, <2>1
  <2>5. \A w \in SelectionType : w[a] \notin range =>
            (SelectionSatisfies(j.terms, w) <=> SelectionSatisfies(i.terms, w))
    BY <2>2, <2>4, DependencyMeaning
  <2> QED BY <2>1, <2>2, <2>3, <2>5 DEF StillDepends
<1>6. CASE a # p
  <2>0. a = q
    BY <1>4, <1>6
  <2>1. PICK set2 \in Ranges : set2 = set \cup range
    <3>1. set \cup range \in Ranges
      BY DEF Ranges
    <3> QED BY <3>1
  <2>2. j = FromDependency(p, versions, q, set2)
    BY <1>1, <1>2, <1>6, <2>1 DEF MergeNoVersions
  <2>3. IncompatPackages(i.terms) \subseteq IncompatPackages(j.terms)
    BY <1>3, <1>4, <2>1, <2>2
  <2>4. \A w \in SelectionType : w[a] \notin range =>
            ((set2 # {} => w[q] \notin set2) <=> (set # {} => w[q] \notin set))
    BY <2>0, <2>1
  <2>5. \A w \in SelectionType : w[a] \notin range =>
            (SelectionSatisfies(j.terms, w) <=> SelectionSatisfies(i.terms, w))
    BY <2>2, <2>4, DependencyMeaning
  <2> QED BY <2>1, <2>2, <2>3, <2>5 DEF StillDepends
<1> QED BY <1>5, <1>6
-----------------------------------------------------------------------------
(* What collapsing preserves *)

CausesTold(t) ==
    /\ t.kind = "dependency" =>
          \E p, q \in Packages, versions, set \in Ranges : t = FromDependency(p, versions, q, set)
    /\ \A k \in DOMAIN t.causes : IsNoVersions(t.causes[k]) =>
          t.causes[3 - k].kind \in {"no_versions", "custom"}

\* The tree t may take the place of the incompatibility i: it excludes the same
\* versions that exist, and speaks of the packages of i, so that a range that
\* has no version of one of them can still be merged into it.
StandsFor(t, i) ==
    /\ t.kind \in Kinds
    /\ \A w \in ExistingSelections :
          SelectionSatisfies(t.terms, w) <=> SelectionSatisfies(i.terms, w)
    /\ IncompatPackages(i.terms) \subseteq IncompatPackages(t.terms)
    /\ t.kind \in {"no_versions", "not_root"} => t = i
    /\ CausesTold(t)

\* An external incompatibility stands for itself.
LEMMA StandsForFact ==
    ASSUME NEW i, i.kind \in Kinds, i.kind # "derived", Fact(i)
    PROVE  StandsFor(i, i)
<1>1. i.causes = << >>
  BY FactIsTrue
<1>2. i.kind = "dependency" =>
         \E p, q \in Packages, versions, set \in Ranges : i = FromDependency(p, versions, q, set)
  BY DEF Fact, DependencyFact
<1>3. DOMAIN i.causes = {}
  BY <1>1
<1> QED BY <1>2, <1>3 DEF StandsFor, CausesTold

\* The node stays, with its causes collapsed.
LEMMA StandsForNode ==
    ASSUME NEW i, i.kind = "derived", NEW node, node.terms = i.terms, node.kind = i.kind,
           NEW x, NEW y, node.causes = <<x, y>>,
           IsNoVersions(x) => y.kind \in {"no_versions", "custom"},
           IsNoVersions(y) => x.kind \in {"no_versions", "custom"}
    PROVE  StandsFor(node, i)
<1>1. CausesTold(node)
  <2>1. DOMAIN node.causes = {1, 2} /\ node.causes[1] = x /\ node.causes[2] = y
    OBVIOUS
  <2>2. /\ IsNoVersions(node.causes[1]) => node.causes[3 - 1].kind \in {"no_versions", "custom"}
        /\ IsNoVersions(node.causes[2]) => node.causes[3 - 2].kind \in {"no_versions", "custom"}
    BY <2>1
  <2> QED BY <2>1, <2>2 DEF CausesTold
<1> QED BY <1>1 DEF StandsFor, Kinds

\* A range without versions is in no selection of versions that exist.
LEMMA MissingExcluded ==
    ASSUME NEW p \in Packages, NEW range \in Ranges, Candidates(registry, p, range) = {},
           NEW w \in ExistingSelections
    PROVE  w \in SelectionType /\ w[p] \notin range
<1>1. w \in SelectionType /\ (w[p] # NoVersion => registry[p][w[p]].status # "missing")
  BY DEF ExistingSelections
<1>2. w[p] # NoVersion => w[p] \notin range
  BY <1>1 DEF Candidates
<1>3. NoVersion \notin range
  BY NoVersionAssumption DEF Ranges
<1> QED BY <1>1, <1>2, <1>3

\* What takes the place of a node with a NoVersions stands for it.
LEMMA StandsForReplacement ==
    ASSUME NEW i, i.kind = "derived", NEW one, NEW other, one.kind = "no_versions", Fact(one),
           other.kind # "not_root",
           NEW p \in Packages, p \in IncompatPackages(one.terms),
           p \in IncompatPackages(other.terms),
           other.terms \in TermsType, Resolvable(other.terms),
           \/ i.terms = PriorCauseTerms(one.terms, other.terms, p)
           \/ i.terms = PriorCauseTerms(other.terms, one.terms, p),
           NEW t, StandsFor(t, other),
           NEW node, node.terms = i.terms, node.kind = i.kind,
           node.causes = <<one, t>> \/ (node.causes = <<t, one>> /\ ~IsNoVersions(t))
    PROVE  StandsFor(Replacement(node, one, t), i)
<1>1. PICK q \in Packages, range \in Ranges :
          /\ one = NoVersions(q, Positive(range))
          /\ Candidates(registry, q, range) = {}
  BY DEF Fact, NoVersionsFact
<1>2. PICK x : x = <<q, Positive(range)>>
  OBVIOUS
<1>3. one.terms = {x} /\ x[1] = q /\ x[2] = Positive(range) /\ x[2].set = range
  BY <1>1, <1>2 DEF NoVersions, External, Positive
<1>4. q = p /\ one.terms = {<<p, Positive(range)>>}
  BY <1>2, <1>3 DEF IncompatPackages
<1>5. \A w \in ExistingSelections :
          SelectionSatisfies(i.terms, w) <=> SelectionSatisfies(other.terms, w)
  BY <1>1, <1>4, MissingExcluded, NoVersionsResolved
<1>6. IncompatPackages(i.terms) \subseteq IncompatPackages(t.terms)
  <2>1. IncompatPackages(one.terms) = {p}
    BY <1>3, <1>4 DEF IncompatPackages
  <2>2. IncompatPackages(other.terms) \subseteq IncompatPackages(t.terms)
    BY DEF StandsFor
  <2> QED BY <2>1, <2>2, PriorCausePackages
<1>7. CASE t.kind = "derived"
  <2>1. Replacement(node, one, t) = t
    BY <1>7 DEF Replacement
  <2> QED BY <1>5, <1>6, <1>7, <2>1 DEF StandsFor
<1>8. CASE t.kind = "dependency"
  <2>1. PICK j : j = MergeNoVersions(t, p, range)
    OBVIOUS
  <2>2. Replacement(node, one, t) = j
    <3>1. (CHOOSE y \in one.terms : TRUE) = x
      BY <1>3
    <3> QED BY <1>3, <1>4, <1>8, <2>1, <3>1 DEF Replacement
  <2>3. PICK d, e \in Packages, versions, set \in Ranges : t = FromDependency(d, versions, e, set)
    BY <1>8 DEF StandsFor, CausesTold
  <2>4. p \in IncompatPackages(t.terms)
    BY DEF StandsFor
  <2>5. /\ \E v2, set2 \in Ranges : j = FromDependency(d, v2, e, set2)
        /\ IncompatPackages(t.terms) \subseteq IncompatPackages(j.terms)
        /\ \A w \in SelectionType : w[p] \notin range =>
              (SelectionSatisfies(j.terms, w) <=> SelectionSatisfies(t.terms, w))
    <3>1. StillDepends(d, e, t, p, range, j)
      BY <2>1, <2>3, <2>4, MergedMeaning
    <3> QED BY <3>1 DEF StillDepends
  <2>6. j.kind = "dependency" /\ j.causes = << >>
    BY <2>5 DEF FromDependency
  <2>7. CausesTold(j)
    <3>1. DOMAIN j.causes = {}
      BY <2>6
    <3> QED BY <2>5, <3>1 DEF CausesTold
  <2>8. \A w \in ExistingSelections :
            SelectionSatisfies(j.terms, w) <=> SelectionSatisfies(t.terms, w)
    BY <1>1, <1>4, <2>5, MissingExcluded
  <2>9. \A w \in ExistingSelections :
            SelectionSatisfies(t.terms, w) <=> SelectionSatisfies(other.terms, w)
    BY DEF StandsFor
  <2>10. StandsFor(j, i)
    BY <1>5, <1>6, <2>5, <2>6, <2>7, <2>8, <2>9 DEF StandsFor, Kinds
  <2> QED BY <2>2, <2>10
<1>9. CASE t.kind \notin {"derived", "dependency"}
  <2>1. Replacement(node, one, t) = node
    BY <1>9 DEF Replacement
  <2>2. t.kind \in {"no_versions", "custom"}
    BY <1>9 DEF StandsFor, Kinds
  <2>3. StandsFor(node, i)
    <3>1. CASE node.causes = <<one, t>>
      <4>1. IsNoVersions(t) => one.kind \in {"no_versions", "custom"}
        OBVIOUS
      <4> QED BY <2>2, <3>1, <4>1, StandsForNode
    <3>2. CASE node.causes = <<t, one>> /\ ~IsNoVersions(t)
      BY <2>2, <3>2, StandsForNode
    <3> QED BY <3>1, <3>2
  <2> QED BY <2>1, <2>3
<1> QED BY <1>7, <1>8, <1>9

\* The derived incompatibilities of the solver's store have two causes.
LEMMA StoreTwoCauses ==
    ASSUME Invariant, EntriesExplained
    PROVE  TwoCauses(store)
<1>1. CausesBelow(store)
  BY StoreCausesBelow
<1>2. ASSUME NEW id \in DOMAIN store, store[id].kind = "derived"
      PROVE  store[id].causes[1] \in 1 .. id - 1 /\ store[id].causes[2] \in 1 .. id - 1
  <2>1. PICK p \in Packages, c1, c2 \in 1 .. id - 1 : ResolventOf(store, id, p, c1, c2)
    BY <1>1, <1>2 DEF EntriesExplained, Explained, Ids, CausesBelow
  <2>2. store[id].causes = <<c1, c2>>
    BY <2>1 DEF ResolventOf, PriorCause
  <2> QED BY <2>1, <2>2
<1> QED BY <1>1, <1>2 DEF TwoCauses

\* A node of which the causes are collapsed.
LEMMA CollapsedNode ==
    ASSUME Invariant, EntriesExplained, NEW id \in Ids, store[id].kind = "derived",
           NEW p \in Packages, NEW c1 \in Ids, NEW c2 \in Ids,
           ResolventOf(store, id, p, c1, c2),
           NEW t1, StandsFor(t1, store[c1]), NEW t2, StandsFor(t2, store[c2]),
           NEW node, node.terms = store[id].terms, node.kind = store[id].kind,
           node.causes = <<t1, t2>>
    PROVE  StandsFor(CollapseNode(node), store[id])
<1>1. /\ store[c1].terms \in TermsType /\ store[c2].terms \in TermsType
      /\ store[c1].kind # "derived" => Fact(store[c1])
      /\ store[c2].kind # "derived" => Fact(store[c2])
  BY StoreEntry DEF EntriesExplained, Explained
<1>2. /\ p \in IncompatPackages(store[c1].terms) /\ p \in IncompatPackages(store[c2].terms)
      /\ Resolvable(store[c1].terms) /\ Resolvable(store[c2].terms)
      /\ store[id].terms = PriorCauseTerms(store[c1].terms, store[c2].terms, p)
      /\ store[c1].kind = "no_versions" => store[c2].kind # "not_root"
      /\ store[c2].kind = "no_versions" => store[c1].kind # "not_root"
  BY DEF ResolventOf, PriorCause
<1>3. node.causes[1] = t1 /\ node.causes[2] = t2
  OBVIOUS
<1>4. CASE IsNoVersions(t1)
  <2>1. t1 = store[c1] /\ store[c1].kind = "no_versions"
    BY <1>4 DEF StandsFor, IsNoVersions
  <2>2. CollapseNode(node) = Replacement(node, store[c1], t2)
    BY <1>3, <1>4, <2>1 DEF CollapseNode
  <2>3. StandsFor(Replacement(node, store[c1], t2), store[id])
    BY <1>1, <1>2, <2>1, StandsForReplacement
  <2> QED BY <2>2, <2>3
<1>5. CASE ~IsNoVersions(t1) /\ IsNoVersions(t2)
  <2>1. t2 = store[c2] /\ store[c2].kind = "no_versions"
    BY <1>5 DEF StandsFor, IsNoVersions
  <2>2. CollapseNode(node) = Replacement(node, store[c2], t1)
    BY <1>3, <1>5, <2>1 DEF CollapseNode
  <2>3. StandsFor(Replacement(node, store[c2], t1), store[id])
    BY <1>1, <1>2, <1>5, <2>1, StandsForReplacement
  <2> QED BY <2>2, <2>3
<1>6. CASE ~IsNoVersions(t1) /\ ~IsNoVersions(t2)
  <2>1. CollapseNode(node) = node
    BY <1>3, <1>6 DEF CollapseNode
  <2>2. StandsFor(node, store[id])
    BY <1>6, StandsForNode
  <2> QED BY <2>1, <2>2
<1> QED BY <1>4, <1>5, <1>6

\* By induction over the ids, every collapsed tree stands for its incompatibility.
LEMMA CollapsedStandsFor ==
    ASSUME Invariant, EntriesExplained, NEW id \in Ids
    PROVE  StandsFor(CollapsedTrees(store)[id], store[id])
<1>1. PICK f : f = CollapsedTrees(store)
  OBVIOUS
<1>2. TwoCauses(store) /\ Len(store) \in Nat /\ DOMAIN store = Ids /\ Ids = 1 .. Len(store)
  BY StoreTwoCauses DEF TwoCauses, CausesBelow, Ids
<1>3. \A n \in Ids : f[n] = CollapsedAt(store, f, n)
  BY <1>1, <1>2, CollapsedExact DEF IsCollapsed
<1> DEFINE S == {n \in Ids : StandsFor(f[n], store[n])}
<1>4. ASSUME NEW n \in 1 .. Len(store), \A i \in 1 .. n - 1 : i \in S
      PROVE  n \in S
  <2>1. n \in Ids /\ f[n] = CollapsedAt(store, f, n)
    BY <1>2, <1>3
  <2>2. Explained(store, n) /\ store[n].kind \in Kinds
    <3>1. store[n] \in IncompatibilityType
      BY <2>1, StoreEntry
    <3> QED BY <2>1, <3>1 DEF EntriesExplained, IncompatibilityType
  <2>3. CASE store[n].kind # "derived"
    <3>1. f[n] = store[n]
      BY <2>1, <2>3 DEF CollapsedAt
    <3> QED BY <2>1, <2>2, <2>3, <3>1, StandsForFact DEF Explained
  <2>4. CASE store[n].kind = "derived"
    <3>1. PICK p \in Packages, c1, c2 \in 1 .. n - 1 : ResolventOf(store, n, p, c1, c2)
      BY <2>2, <2>4 DEF Explained
    <3>2. store[n].causes[1] = c1 /\ store[n].causes[2] = c2
      BY <3>1 DEF ResolventOf, PriorCause
    <3>3. c1 \in Ids /\ StandsFor(f[c1], store[c1]) /\ c2 \in Ids /\ StandsFor(f[c2], store[c2])
      BY <1>4, <3>1
    <3>4. PICK t1, t2 : t1 = f[c1] /\ t2 = f[c2]
      OBVIOUS
    <3>5. PICK node : node = [store[n] EXCEPT !.causes = <<t1, t2>>]
      OBVIOUS
    <3>6. node.terms = store[n].terms /\ node.kind = store[n].kind /\ node.causes = <<t1, t2>>
      <4>1. store[n] \in IncompatibilityType
        BY <2>1, StoreEntry
      <4> QED BY <3>5, <4>1 DEF IncompatibilityType
    <3>7. f[n] = CollapseNode(node)
      BY <2>1, <2>4, <3>2, <3>4, <3>5 DEF CollapsedAt
    <3>8. StandsFor(CollapseNode(node), store[n])
      BY <2>1, <2>4, <3>1, <3>3, <3>4, <3>6, CollapsedNode
    <3> QED BY <2>1, <3>7, <3>8
  <2> QED BY <2>3, <2>4
<1>5. id \in S
  <2> HIDE DEF S
  <2>1. \A n \in 1 .. Len(store) : (\A i \in 1 .. n - 1 : i \in S) => n \in S
    BY <1>4
  <2>2. PICK N \in Nat : N = Len(store)
    BY <1>2
  <2> QED BY <1>2, <2>1, <2>2, IdInduction
<1> QED BY <1>1, <1>5

\* collapse_no_versions replaces every derived incompatibility of the tree by
\* one that excludes the same selections of the versions that exist.
THEOREM CollapseAlwaysKeepsMeaning == Spec => []CollapseKeepsMeaning
<1>1. ProofInvariant => CollapseKeepsMeaning
  <2>1. ASSUME ProofInvariant, NEW id \in TreeIds, NEW w \in ExistingSelections
        PROVE  SelectionSatisfies(CollapsedTrees(store)[id].terms, w)
                   <=> SelectionSatisfies(store[id].terms, w)
    <3>1. StandsFor(CollapsedTrees(store)[id], store[id])
      BY <2>1, TreeIdsInStore, CollapsedStandsFor
    <3> QED BY <3>1 DEF StandsFor
  <2> QED BY <2>1 DEF CollapseKeepsMeaning
<1> QED BY <1>1, AlwaysConflict, PTL

\* The panic of collapse_no_versions and merge_no_versions ("How did we end up
\* with a NoVersions merged with a NotRoot?") is not reached, and a NoVersions
\* is left only beside one that no range can be merged into.
THEOREM CollapseAlwaysMerges == Spec => []CollapseMerges
<1>1. ProofInvariant => CollapseMerges
  <2>1. ASSUME ProofInvariant, NEW id \in TreeIds,
               NEW k \in DOMAIN CollapsedTrees(store)[id].causes,
               IsNoVersions(CollapsedTrees(store)[id].causes[k])
        PROVE  CollapsedTrees(store)[id].causes[3 - k].kind \in {"no_versions", "custom"}
    <3>1. StandsFor(CollapsedTrees(store)[id], store[id])
      BY <2>1, TreeIdsInStore, CollapsedStandsFor
    <3> QED BY <2>1, <3>1 DEF StandsFor, CausesTold
  <2> QED BY <2>1 DEF CollapseMerges
<1> QED BY <1>1, AlwaysConflict, PTL
=============================================================================
