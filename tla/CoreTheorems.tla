---------------------------- MODULE CoreTheorems ----------------------------
(***************************************************************************)
(* Facts about terms and incompatibilities: what the constructors, merging *)
(* and the rule of resolution return, and that they exclude no solution.   *)
(* Then what the operations of the partial solution keep true, of the      *)
(* history of one package first; and what adding and merging incompatibil- *)
(* ities, unit propagation and conflict resolution keep true of the store. *)
(***************************************************************************)
EXTENDS SolverInvariant, FiniteSetTheorems, SequenceTheorems, WellFoundedInduction, TLAPS

-----------------------------------------------------------------------------
(* Terms: each operation agrees with the set of the versions, NoVersion    *)
(* included, for which the term holds.                                     *)

\* Operations return terms: the VersionSet operations stay in Versions.
THEOREM TermsClosed ==
    ASSUME NEW t1 \in TermType, NEW t2 \in TermType
    PROVE  /\ Negate(t1) \in TermType
           /\ Intersection(t1, t2) \in TermType
           /\ Union(t1, t2) \in TermType
BY DEF TermType, Negate, Intersection, Union, Positive, Negative, Complement

\* Negate: src/src/term.rs, negate.
THEOREM NegateMeaning ==
    ASSUME NEW t \in TermType, NEW v \in Selections
    PROVE  TermContains(Negate(t), v) <=> ~TermContains(t, v)
BY DEF TermType, Negate, Positive, Negative, TermContains

\* Intersection: both terms hold.
THEOREM IntersectionMeaning ==
    ASSUME NEW t1 \in TermType, NEW t2 \in TermType, NEW v \in Selections
    PROVE  TermContains(Intersection(t1, t2), v)
               <=> TermContains(t1, v) /\ TermContains(t2, v)
BY NoVersionAssumption
   DEF TermType, Selections, Intersection, Positive, Negative, Complement, TermContains

\* Union: one of the terms holds.
THEOREM UnionMeaning ==
    ASSUME NEW t1 \in TermType, NEW t2 \in TermType, NEW v \in Selections
    PROVE  TermContains(Union(t1, t2), v)
               <=> TermContains(t1, v) \/ TermContains(t2, v)
BY NoVersionAssumption
   DEF TermType, Selections, Union, Positive, Negative, Complement, TermContains

\* The term no choice satisfies is the positive term of the empty set.
THEOREM EmptyTermMeaning ==
    ASSUME NEW t \in TermType
    PROVE  t # EmptyTerm <=> \E v \in Selections : TermContains(t, v)
<1>1. CASE t.positive
  BY <1>1, NoVersionAssumption
     DEF TermType, EmptyTerm, Positive, Selections, TermContains
<1>2. CASE ~t.positive
  BY <1>2, NoVersionAssumption
     DEF TermType, EmptyTerm, Positive, Selections, TermContains
<1> QED BY <1>1, <1>2

\* is_disjoint: no choice satisfies both terms.
THEOREM IsDisjointMeaning ==
    ASSUME NEW t1 \in TermType, NEW t2 \in TermType
    PROVE  IsDisjoint(t1, t2)
               <=> \A v \in Selections : ~(TermContains(t1, v) /\ TermContains(t2, v))
BY NoVersionAssumption
   DEF TermType, Selections, IsDisjoint, TermContains

\* subset_of: every choice that satisfies the first term satisfies the second.
THEOREM SubsetOfMeaning ==
    ASSUME NEW t1 \in TermType, NEW t2 \in TermType
    PROVE  SubsetOf(t1, t2)
               <=> \A v \in Selections : TermContains(t1, v) => TermContains(t2, v)
BY NoVersionAssumption
   DEF TermType, Selections, SubsetOf, TermContains

TermsType == SUBSET (Packages \X TermType)

-----------------------------------------------------------------------------
(* Looking up the term of a package *)

\* Get and GetLast find an entry of the package.
LEMMA GetFinds ==
    ASSUME NEW terms \in TermsType, NEW p \in IncompatPackages(terms)
    PROVE  /\ p \in Packages
           /\ Get(terms, p) \in TermType /\ <<p, Get(terms, p)>> \in terms
           /\ GetLast(terms, p) \in TermType /\ <<p, GetLast(terms, p)>> \in terms
<1>1. \A t \in TermsOf(terms, p) : t \in TermType /\ <<p, t>> \in terms
  BY DEF TermsOf, EntriesOf, TermsType
<1>2. PICK x \in terms : x[1] = p
  BY DEF IncompatPackages
<1>3. x[2] \in TermsOf(terms, p)
  BY <1>2 DEF TermsOf, EntriesOf
<1>4. \E t \in TermsOf(terms, p) :
          t.positive \/ \A t2 \in TermsOf(terms, p) : ~t2.positive
  BY <1>3
<1>5. \E t \in TermsOf(terms, p) :
          ~t.positive \/ \A t2 \in TermsOf(terms, p) : t2.positive
  BY <1>3
<1>6. Get(terms, p) \in TermsOf(terms, p)
  BY <1>4 DEF Get
<1>7. GetLast(terms, p) \in TermsOf(terms, p)
  BY <1>5 DEF GetLast
<1> QED BY <1>1, <1>2, <1>6, <1>7 DEF TermsType

\* With one entry per package, that is the entry found.
LEMMA GetOnly ==
    ASSUME NEW terms \in TermsType, OneTermPerPackage(terms), NEW x \in terms
    PROVE  Get(terms, x[1]) = x[2] /\ GetLast(terms, x[1]) = x[2]
<1>1. x[1] \in IncompatPackages(terms)
  BY DEF IncompatPackages
<1>2. /\ <<x[1], Get(terms, x[1])>> \in terms
      /\ <<x[1], GetLast(terms, x[1])>> \in terms
  BY <1>1, GetFinds
<1> QED BY <1>2 DEF OneTermPerPackage

\* Of the two entries of a self-dependency, get finds the positive one; the
\* negative one is the last.
LEMMA GetSelf ==
    ASSUME NEW p \in Packages, NEW v \in Versions, NEW set \in SUBSET Versions
    PROVE  /\ SelfTerms(p, v, set) \in TermsType
           /\ IncompatPackages(SelfTerms(p, v, set)) = {p}
           /\ Get(SelfTerms(p, v, set), p) = Positive({v})
           /\ GetLast(SelfTerms(p, v, set), p) = Negative(set)
<1>1. TermsOf(SelfTerms(p, v, set), p) = {Positive({v}), Negative(set)}
  <2>1. \A x \in SelfTerms(p, v, set) :
            x[1] = p /\ (x[2] = Positive({v}) \/ x[2] = Negative(set))
    BY DEF SelfTerms
  <2>2. <<p, Positive({v})>>[1] = p /\ <<p, Negative(set)>>[1] = p
    OBVIOUS
  <2>3. /\ <<p, Positive({v})>>[2] = Positive({v})
        /\ <<p, Negative(set)>>[2] = Negative(set)
    OBVIOUS
  <2>4. /\ <<p, Positive({v})>> \in SelfTerms(p, v, set)
        /\ <<p, Negative(set)>> \in SelfTerms(p, v, set)
    BY DEF SelfTerms
  <2> QED BY <2>1, <2>2, <2>3, <2>4 DEF TermsOf, EntriesOf
<1>2. Positive({v}).positive /\ ~Negative(set).positive
  BY DEF Positive, Negative
<1>3. Get(SelfTerms(p, v, set), p) = Positive({v})
  BY <1>1, <1>2 DEF Get
<1>4. GetLast(SelfTerms(p, v, set), p) = Negative(set)
  BY <1>1, <1>2 DEF GetLast
<1>5. SelfTerms(p, v, set) \in TermsType
  <2>1. Positive({v}) \in TermType /\ Negative(set) \in TermType
    BY DEF TermType, Positive, Negative
  <2> QED BY <2>1 DEF SelfTerms, TermsType
<1> QED BY <1>3, <1>4, <1>5 DEF IncompatPackages, SelfTerms

-----------------------------------------------------------------------------
(* The rule of resolution *)

\* MergeTerms has the packages of both arguments and says what both say.
LEMMA MergeTermsEntries ==
    ASSUME NEW A \in TermsType, NEW B \in TermsType,
           OneTermPerPackage(A), OneTermPerPackage(B)
    PROVE  /\ MergeTerms(A, B) \in TermsType
           /\ OneTermPerPackage(MergeTerms(A, B))
           /\ IncompatPackages(MergeTerms(A, B))
                  \subseteq IncompatPackages(A) \cup IncompatPackages(B)
<1> DEFINE M == MergeTerms(A, B)
           onlyA == {x \in A : x[1] \notin IncompatPackages(B)}
           onlyB == {x \in B : x[1] \notin IncompatPackages(A)}
           both  == {y \in A : y[1] \in IncompatPackages(B)}
           new(y) == <<y[1], Intersection(y[2], Get(B, y[1]))>>
<1>1. M = onlyA \cup onlyB \cup {new(y) : y \in both}
  BY DEF MergeTerms
<1>2. \A y \in both : new(y) \in Packages \X TermType /\ new(y)[1] = y[1]
  <2> TAKE y \in both
  <2>1. y \in Packages \X TermType /\ y[1] \in IncompatPackages(B)
    BY DEF TermsType
  <2>2. Get(B, y[1]) \in TermType
    BY <2>1, GetFinds
  <2>3. y[1] \in Packages /\ y[2] \in TermType
    BY <2>1
  <2>4. Intersection(y[2], Get(B, y[1])) \in TermType
    BY <2>2, <2>3, TermsClosed
  <2> QED BY <2>3, <2>4
<1>3. M \in TermsType
  <2>1. onlyA \subseteq Packages \X TermType /\ onlyB \subseteq Packages \X TermType
    BY DEF TermsType
  <2> QED BY <1>1, <1>2, <2>1 DEF TermsType
<1>4. \A x \in A : x[1] \in IncompatPackages(A)
  BY DEF IncompatPackages
<1>5. \A x \in B : x[1] \in IncompatPackages(B)
  BY DEF IncompatPackages
<1>6. \A x \in M : \/ x \in onlyA
                  \/ x \in onlyB
                  \/ \E y \in both : x = new(y)
  BY <1>1
<1>7. OneTermPerPackage(M)
  <2> SUFFICES ASSUME NEW x \in M, NEW y \in M, x[1] = y[1]
               PROVE  x = y
    BY DEF OneTermPerPackage
  <2>1. CASE x \in onlyA
    <3>1. y \in onlyA
      BY <1>2, <1>4, <1>5, <1>6, <2>1
    <3> QED BY <2>1, <3>1 DEF OneTermPerPackage
  <2>2. CASE x \in onlyB
    <3>1. y \in onlyB
      BY <1>2, <1>4, <1>5, <1>6, <2>2
    <3> QED BY <2>2, <3>1 DEF OneTermPerPackage
  <2>3. CASE \E z \in both : x = new(z)
    <3>1. PICK z \in both : x = new(z)
      BY <2>3
    <3>2. PICK u \in both : y = new(u)
      BY <1>2, <1>4, <1>5, <1>6, <3>1
    <3>3. z[1] = u[1]
      BY <1>2, <3>1, <3>2
    <3>4. z = u
      BY <3>3 DEF OneTermPerPackage
    <3> QED BY <3>1, <3>2, <3>4
  <2> QED BY <1>6, <2>1, <2>2, <2>3
<1>8. IncompatPackages(M) \subseteq IncompatPackages(A) \cup IncompatPackages(B)
  BY <1>2, <1>4, <1>5, <1>6 DEF IncompatPackages
<1> QED BY <1>3, <1>7, <1>8

\* MergeTerms makes a finite set, and no term of it is trivial.
LEMMA MergeTermsFinite ==
    ASSUME NEW A \in TermsType, NEW B \in TermsType,
           IsFiniteSet(A), IsFiniteSet(B),
           \A x \in A : x[2] # AnyTerm, \A x \in B : x[2] # AnyTerm
    PROVE  /\ IsFiniteSet(MergeTerms(A, B))
           /\ \A x \in MergeTerms(A, B) : x[2] # AnyTerm
<1> DEFINE onlyA == {x \in A : x[1] \notin IncompatPackages(B)}
           onlyB == {x \in B : x[1] \notin IncompatPackages(A)}
           both  == {y \in A : y[1] \in IncompatPackages(B)}
           f     == [y \in both |-> <<y[1], Intersection(y[2], Get(B, y[1]))>>]
           image == {f[y] : y \in both}
<1>1. IsFiniteSet(onlyA) /\ IsFiniteSet(onlyB) /\ IsFiniteSet(both)
  BY FS_Subset
<1>2. f \in Surjection(both, image)
  BY DEF Surjection
<1>3. IsFiniteSet(image)
  BY <1>1, <1>2, FS_Surjection
<1>4. MergeTerms(A, B) = onlyA \cup onlyB \cup image
  BY DEF MergeTerms
<1>5. IsFiniteSet(MergeTerms(A, B))
  <2> HIDE DEF onlyA, onlyB, image
  <2>1. IsFiniteSet(onlyA \cup onlyB)
    BY <1>1, FS_Union
  <2>2. IsFiniteSet((onlyA \cup onlyB) \cup image)
    BY <1>3, <2>1, FS_Union
  <2> QED BY <1>4, <2>2
<1>6. \A y \in both : f[y][2] # AnyTerm
  <2> TAKE y \in both
  <2>1. y \in Packages \X TermType /\ y[1] \in IncompatPackages(B) /\ y[2] # AnyTerm
    BY DEF TermsType
  <2>2. Get(B, y[1]) \in TermType /\ <<y[1], Get(B, y[1])>> \in B
    BY <2>1, GetFinds
  <2>3. Get(B, y[1]) # AnyTerm /\ y[2] \in TermType
    BY <2>1, <2>2
  <2>4. Intersection(y[2], Get(B, y[1])) # AnyTerm
    BY <2>1, <2>2, <2>3
       DEF Intersection, AnyTerm, TermType, Positive, Negative, Complement
  <2> QED BY <2>4
<1> QED BY <1>4, <1>5, <1>6

\* A selection that satisfies the merged terms satisfies both arguments.
LEMMA MergeTermsMeaning ==
    ASSUME NEW A \in TermsType, NEW B \in TermsType,
           OneTermPerPackage(A), OneTermPerPackage(B),
           NEW w \in SelectionType, NEW p,
           \A x \in MergeTerms(A, B) : x[1] # p => TermContains(x[2], w[x[1]])
    PROVE  /\ \A x \in A : x[1] # p => TermContains(x[2], w[x[1]])
           /\ \A x \in B : x[1] # p => TermContains(x[2], w[x[1]])
<1>1. ASSUME NEW x \in A, NEW y \in B, x[1] = y[1], x[1] # p
      PROVE  TermContains(x[2], w[x[1]]) /\ TermContains(y[2], w[x[1]])
  <2>1. x[1] \in IncompatPackages(B) /\ Get(B, x[1]) = y[2]
    BY <1>1, GetOnly DEF IncompatPackages
  <2>2. <<x[1], Intersection(x[2], y[2])>> \in MergeTerms(A, B)
    BY <2>1 DEF MergeTerms
  <2>3. <<x[1], Intersection(x[2], y[2])>>[1] = x[1]
        /\ <<x[1], Intersection(x[2], y[2])>>[2] = Intersection(x[2], y[2])
    OBVIOUS
  <2>4. TermContains(Intersection(x[2], y[2]), w[x[1]])
    BY <1>1, <2>2, <2>3
  <2>5. x[2] \in TermType /\ y[2] \in TermType /\ w[x[1]] \in Selections
    BY DEF TermsType, SelectionType
  <2> QED BY <2>4, <2>5, IntersectionMeaning
<1>2. ASSUME NEW x \in A, x[1] # p
      PROVE  TermContains(x[2], w[x[1]])
  <2>1. CASE x[1] \in IncompatPackages(B)
    BY <1>1, <1>2, <2>1 DEF IncompatPackages
  <2>2. CASE x[1] \notin IncompatPackages(B)
    BY <1>2, <2>2 DEF MergeTerms
  <2> QED BY <2>1, <2>2
<1>3. ASSUME NEW x \in B, x[1] # p
      PROVE  TermContains(x[2], w[x[1]])
  <2>1. CASE x[1] \in IncompatPackages(A)
    BY <1>1, <1>3, <2>1 DEF IncompatPackages
  <2>2. CASE x[1] \notin IncompatPackages(A)
    BY <1>3, <2>2 DEF MergeTerms
  <2> QED BY <2>1, <2>2
<1> QED BY <1>2, <1>3

\* What resolution needs to know of its arguments: the entry found for p can
\* be split off, and together with the terms of the others it says it all.
LEMMA ResolvableSplit ==
    ASSUME NEW terms \in TermsType, Resolvable(terms),
           NEW p \in IncompatPackages(terms)
    PROVE  /\ OneTermPerPackage(terms \ {<<p, Get(terms, p)>>})
           /\ OneTermPerPackage({x \in terms : x[1] # p})
           /\ \A w \in SelectionType :
                 /\ TermContains(Get(terms, p), w[p])
                 /\ \A x \in terms : x[1] # p => TermContains(x[2], w[x[1]])
                 => SelectionSatisfies(terms, w)
<1>1. CASE OneTermPerPackage(terms)
  <2>1. \A x \in terms : x[1] = p => x[2] = Get(terms, p)
    BY <1>1, GetOnly
  <2> QED BY <1>1, <2>1 DEF OneTermPerPackage, SelectionSatisfies
<1>2. ASSUME NEW q \in Packages, NEW v \in Versions, NEW set \in SUBSET Versions,
             terms = SelfTerms(q, v, set), v \notin set
      PROVE  /\ OneTermPerPackage(terms \ {<<p, Get(terms, p)>>})
             /\ OneTermPerPackage({x \in terms : x[1] # p})
             /\ \A w \in SelectionType :
                   TermContains(Get(terms, p), w[p]) => SelectionSatisfies(terms, w)
  <2>1. p = q /\ Get(terms, p) = Positive({v})
    BY <1>2, GetSelf
  <2>2. terms = {<<p, Positive({v})>>, <<p, Negative(set)>>}
    BY <1>2, <2>1 DEF SelfTerms
  <2>3. terms \ {<<p, Get(terms, p)>>} \subseteq {<<p, Negative(set)>>}
    BY <2>1, <2>2
  <2>4. {x \in terms : x[1] # p} = {}
    BY <2>2
  <2>5. ASSUME NEW w \in SelectionType, TermContains(Positive({v}), w[p])
        PROVE  SelectionSatisfies(terms, w)
    <3>1. w[p] = v
      BY <2>5 DEF TermContains, Positive
    <3>2. TermContains(Negative(set), w[p])
      BY <1>2, <3>1 DEF TermContains, Negative
    <3>3. \A x \in terms : x[1] = p /\ (x[2] = Positive({v}) \/ x[2] = Negative(set))
      BY <2>2
    <3> QED BY <2>5, <3>2, <3>3 DEF SelectionSatisfies
  <2> QED BY <2>1, <2>3, <2>4, <2>5 DEF OneTermPerPackage
<1> QED BY <1>1, <1>2 DEF Resolvable

\* The resolvent is again an incompatibility that resolution may use.
LEMMA PriorCauseWellFormed ==
    ASSUME NEW terms1 \in TermsType, NEW terms2 \in TermsType,
           Resolvable(terms1), Resolvable(terms2),
           IsFiniteSet(terms1), IsFiniteSet(terms2),
           \A x \in terms1 : x[2] # AnyTerm, \A x \in terms2 : x[2] # AnyTerm,
           NEW p \in IncompatPackages(terms1), p \in IncompatPackages(terms2)
    PROVE  /\ PriorCauseTerms(terms1, terms2, p) \in TermsType
           /\ OneTermPerPackage(PriorCauseTerms(terms1, terms2, p))
           /\ IsFiniteSet(PriorCauseTerms(terms1, terms2, p))
           /\ \A x \in PriorCauseTerms(terms1, terms2, p) : x[2] # AnyTerm
<1> DEFINE A == terms1 \ {<<p, Get(terms1, p)>>}
           B == {x \in terms2 : x[1] # p}
           rest == MergeTerms(A, B)
           term == ResolventTerm(terms1, terms2, p)
           others == {x \in rest : x[1] # p}
<1>1. A \in TermsType /\ B \in TermsType
  BY DEF TermsType
<1>2. OneTermPerPackage(A) /\ OneTermPerPackage(B)
  BY ResolvableSplit
<1>3. IsFiniteSet(A) /\ IsFiniteSet(B)
  BY FS_Subset
<1>4. (\A x \in A : x[2] # AnyTerm) /\ (\A x \in B : x[2] # AnyTerm)
  OBVIOUS
<1>5. p \in Packages /\ term \in TermType
  BY GetFinds, TermsClosed DEF ResolventTerm
<1> HIDE DEF A, B
<1>6. rest \in TermsType /\ OneTermPerPackage(rest)
  BY <1>1, <1>2, MergeTermsEntries
<1>7. IsFiniteSet(rest) /\ \A x \in rest : x[2] # AnyTerm
  BY <1>1, <1>3, <1>4, MergeTermsFinite
<1> HIDE DEF rest
<1>8. CASE term = AnyTerm
  <2>1. PriorCauseTerms(terms1, terms2, p) = rest
    BY <1>8 DEF PriorCauseTerms, rest, A, B
  <2> QED BY <1>6, <1>7, <2>1
<1>9. CASE term # AnyTerm
  <2>1. PriorCauseTerms(terms1, terms2, p) = others \cup {<<p, term>>}
    BY <1>9 DEF PriorCauseTerms, rest, A, B
  <2>2. others \cup {<<p, term>>} \in TermsType
    BY <1>5, <1>6 DEF TermsType
  <2>3. OneTermPerPackage(others \cup {<<p, term>>})
    BY <1>6 DEF OneTermPerPackage
  <2>4. IsFiniteSet(others \cup {<<p, term>>})
    <3>1. IsFiniteSet(others)
      BY <1>7, FS_Subset
    <3> HIDE DEF others
    <3> QED BY <3>1, FS_AddElement
  <2>5. \A x \in others \cup {<<p, term>>} : x[2] # AnyTerm
    BY <1>7, <1>9
  <2> QED BY <2>1, <2>2, <2>3, <2>4, <2>5
<1> QED BY <1>8, <1>9

\* Resolution is sound: what satisfies the resolvent satisfies one of the two
\* incompatibilities it was made from.
THEOREM PriorCauseSound ==
    ASSUME NEW terms1 \in TermsType, NEW terms2 \in TermsType,
           Resolvable(terms1), Resolvable(terms2),
           NEW p \in IncompatPackages(terms1), p \in IncompatPackages(terms2),
           NEW w \in SelectionType,
           SelectionSatisfies(PriorCauseTerms(terms1, terms2, p), w)
    PROVE  SelectionSatisfies(terms1, w) \/ SelectionSatisfies(terms2, w)
<1> DEFINE A == terms1 \ {<<p, Get(terms1, p)>>}
           B == {x \in terms2 : x[1] # p}
           rest == MergeTerms(A, B)
           term == ResolventTerm(terms1, terms2, p)
<1>1. A \in TermsType /\ B \in TermsType
  BY DEF TermsType
<1>2. OneTermPerPackage(A) /\ OneTermPerPackage(B)
  BY ResolvableSplit
<1>3. /\ p \in Packages
      /\ Get(terms1, p) \in TermType /\ <<p, Get(terms1, p)>> \in terms1
      /\ Get(terms2, p) \in TermType
  BY GetFinds
<1>4. w[p] \in Selections
  BY <1>3 DEF SelectionType
<1>5. PriorCauseTerms(terms1, terms2, p)
          = IF term = AnyTerm THEN rest ELSE {x \in rest : x[1] # p} \cup {<<p, term>>}
  BY DEF PriorCauseTerms
<1>6. \A x \in rest : x[1] # p => TermContains(x[2], w[x[1]])
  BY <1>5 DEF SelectionSatisfies
<1>7. TermContains(term, w[p])
  <2>1. CASE term = AnyTerm
    BY <2>1 DEF TermContains, AnyTerm, Negative
  <2>2. CASE term # AnyTerm
    <3>1. <<p, term>> \in PriorCauseTerms(terms1, terms2, p)
      BY <1>5, <2>2
    <3> QED BY <3>1 DEF SelectionSatisfies
  <2> QED BY <2>1, <2>2
<1>8. /\ \A x \in A : x[1] # p => TermContains(x[2], w[x[1]])
      /\ \A x \in B : x[1] # p => TermContains(x[2], w[x[1]])
  <2> HIDE DEF A, B
  <2> QED BY <1>1, <1>2, <1>6, MergeTermsMeaning
<1>9. /\ \A x \in terms1 : x[1] # p => TermContains(x[2], w[x[1]])
      /\ \A x \in terms2 : x[1] # p => TermContains(x[2], w[x[1]])
  BY <1>8
<1>10. TermContains(Get(terms1, p), w[p]) \/ TermContains(Get(terms2, p), w[p])
  BY <1>3, <1>4, <1>7, UnionMeaning DEF ResolventTerm
<1> QED BY <1>9, <1>10, ResolvableSplit

-----------------------------------------------------------------------------
(* The constructors *)

\* not_root, no_versions and custom_version: one term.
LEMMA ExternalWellFormed ==
    ASSUME NEW p \in Packages, NEW t \in TermType, t # AnyTerm,
           NEW kind \in Kinds \ {"dependency"}
    PROVE  /\ External({<<p, t>>}, kind) \in IncompatibilityType
           /\ WellFormed(External({<<p, t>>}, kind))
<1> DEFINE i == External({<<p, t>>}, kind)
<1>1. /\ i.terms = {<<p, t>>} /\ i.kind = kind
      /\ i.dependency = << >> /\ i.causes = << >>
      /\ i \in IncompatibilityType
  BY DEF External, IncompatibilityType
<1> HIDE DEF i
<1>2. IsFiniteSet(i.terms)
  <2>1. PICK x : x = <<p, t>>
    OBVIOUS
  <2>2. IsFiniteSet({x})
    BY FS_Singleton
  <2> QED BY <1>1, <2>1, <2>2
<1>3. i.kind # "dependency" /\ OneTermPerPackage(i.terms) /\ \A x \in i.terms : x[2] # AnyTerm
  BY <1>1 DEF OneTermPerPackage
<1>4. WellFormed(i)
  BY <1>2, <1>3 DEF WellFormed
<1> QED BY <1>1, <1>4 DEF i

\* from_dependency: the terms of the dependent and of what it depends on.
LEMMA FromDependencyWellFormed ==
    ASSUME NEW p \in Packages, NEW versions \in Ranges,
           NEW p2 \in Packages, NEW set2 \in Ranges,
           p = p2 => \E v \in Versions : versions = {v}
    PROVE  /\ FromDependency(p, versions, p2, set2) \in IncompatibilityType
           /\ WellFormed(FromDependency(p, versions, p2, set2))
<1> DEFINE i == FromDependency(p, versions, p2, set2)
           second == IF set2 = {} THEN {} ELSE {<<p2, Negative(set2)>>}
<1>1. /\ i.terms = {<<p, Positive(versions)>>} \cup second
      /\ i.kind = "dependency" /\ i.dependency = <<p, p2>> /\ i.causes = << >>
  BY DEF FromDependency
<1>2. Positive(versions) \in TermType /\ Negative(set2) \in TermType
  BY DEF Ranges, TermType, Positive, Negative
<1>3. i.terms \in TermsType
  BY <1>1, <1>2 DEF TermsType
<1>4. i \in IncompatibilityType
  BY <1>3 DEF FromDependency, IncompatibilityType, TermsType, Kinds
<1>5. IsFiniteSet(i.terms)
  <2>1. IsFiniteSet(second)
    BY FS_EmptySet, FS_Singleton
  <2>2. IsFiniteSet({<<p, Positive(versions)>>})
    BY FS_Singleton
  <2> HIDE DEF second, i
  <2>3. IsFiniteSet({<<p, Positive(versions)>>} \cup second)
    BY <2>1, <2>2, FS_Union
  <2> QED BY <1>1, <2>3
<1>6. \A x \in i.terms : x[2] # AnyTerm
  BY <1>1 DEF AnyTerm, Positive, Negative
<1>7. IsDependency(i)
  <2>1. i.dependency[1] = p /\ i.dependency[2] = p2 /\ i.dependency \in Packages \X Packages
    BY <1>1
  <2> QED BY <2>1 DEF IsDependency
<1> QED BY <1>1, <1>4, <1>5, <1>6, <1>7 DEF WellFormed

\* What a dependency excludes: the dependent at one of the versions, without a
\* version in the range of the other.
LEMMA DependencyMeaning ==
    ASSUME NEW p \in Packages, NEW versions \in Ranges,
           NEW p2 \in Packages, NEW set2 \in Ranges,
           NEW w \in SelectionType,
           NEW i, i = FromDependency(p, versions, p2, set2)
    PROVE  SelectionSatisfies(i.terms, w)
               <=> w[p] \in versions /\ (set2 # {} => w[p2] \notin set2)
<1> DEFINE terms == i.terms
           first == <<p, Positive(versions)>>
           second == <<p2, Negative(set2)>>
<1>1. terms = {first} \cup (IF set2 = {} THEN {} ELSE {second})
  BY DEF FromDependency
<1>2. /\ first[1] = p /\ (TermContains(first[2], w[first[1]]) <=> w[p] \in versions)
      /\ second[1] = p2 /\ (TermContains(second[2], w[second[1]]) <=> w[p2] \notin set2)
  BY DEF TermContains, Positive, Negative
<1> HIDE DEF first, second
<1> QED BY <1>1, <1>2 DEF SelectionSatisfies

DependencyTerm(p, set) == IF set = {} THEN {} ELSE {<<p, Negative(set)>>}

\* The entries of a dependency between two packages.
LEMMA DependencyEntries ==
    ASSUME NEW p \in Packages, NEW versions \in Ranges,
           NEW p2 \in Packages, NEW set2 \in Ranges, p # p2,
           NEW i, i = FromDependency(p, versions, p2, set2)
    PROVE  /\ i.terms \in TermsType
           /\ OneTermPerPackage(i.terms)
           /\ Get(i.terms, p) = Positive(versions)
           /\ EntriesOf(i.terms, p2) = DependencyTerm(p2, set2)
           /\ set2 = {} => TermsOf(i.terms, p2) = {}
           /\ set2 # {} => TermsOf(i.terms, p2) = {Negative(set2)}
<1> DEFINE terms == i.terms
           second == DependencyTerm(p2, set2)
<1>1. terms = {<<p, Positive(versions)>>} \cup second
  BY DEF FromDependency, DependencyTerm
<1>2. terms \in TermsType
  <2>1. Positive(versions) \in TermType /\ Negative(set2) \in TermType
    BY DEF Ranges, TermType, Positive, Negative
  <2> QED BY <1>1, <2>1 DEF TermsType, DependencyTerm
<1>3. \A x \in terms : \/ x[1] = p /\ x[2] = Positive(versions) /\ x = <<p, Positive(versions)>>
                      \/ /\ set2 # {} /\ x[1] = p2 /\ x[2] = Negative(set2)
                         /\ x = <<p2, Negative(set2)>>
  BY <1>1 DEF DependencyTerm
<1>4. OneTermPerPackage(terms)
  BY <1>3 DEF OneTermPerPackage
<1>5. Get(terms, p) = Positive(versions)
  <2>1. <<p, Positive(versions)>> \in terms
    BY <1>1
  <2>2. p \in IncompatPackages(terms)
    BY <2>1 DEF IncompatPackages
  <2>3. <<p, Get(terms, p)>> \in terms
    BY <1>2, <2>2, GetFinds
  <2>4. <<p, Get(terms, p)>> = <<p, Positive(versions)>>
    BY <1>4, <2>1, <2>3 DEF OneTermPerPackage
  <2> QED BY <2>4
<1>6. EntriesOf(terms, p2) = second
  BY <1>1, <1>3 DEF EntriesOf, DependencyTerm
<1>7. TermsOf(terms, p2) = {x[2] : x \in second}
  BY <1>6 DEF TermsOf, EntriesOf
<1>8. set2 = {} => TermsOf(terms, p2) = {}
  BY <1>7 DEF DependencyTerm
<1>9. ASSUME set2 # {}
      PROVE  TermsOf(terms, p2) = {Negative(set2)}
  <2>1. second = {<<p2, Negative(set2)>>}
    BY <1>9 DEF DependencyTerm
  <2>2. <<p2, Negative(set2)>>[2] = Negative(set2)
    OBVIOUS
  <2> HIDE DEF second
  <2> QED BY <1>7, <2>1, <2>2
<1> QED BY <1>2, <1>4, <1>5, <1>6, <1>8, <1>9

\* The same, of the entries as from_dependency writes them.
LEMMA DependencyGet ==
    ASSUME NEW p \in Packages, NEW versions \in Ranges,
           NEW p2 \in Packages, NEW set2 \in Ranges, p # p2
    PROVE  Get(FromDependency(p, versions, p2, set2).terms, p) = Positive(versions)
<1> DEFINE i == FromDependency(p, versions, p2, set2)
<1> HIDE DEF i
<1>1. i = FromDependency(p, versions, p2, set2)
  BY DEF i
<1>2. Get(i.terms, p) = Positive(versions)
  BY <1>1, DependencyEntries
<1> QED BY <1>2 DEF i

\* The terms of the dependency's package, none if it depends on no version.
NegativeTerms(set) == IF set = {} THEN {} ELSE {Negative(set)}

\* get finds what from_dependency put there.
LEMMA DependencyTermsOf ==
    ASSUME NEW p \in Packages, NEW versions \in Ranges,
           NEW p2 \in Packages, NEW set2 \in Ranges, p # p2
    PROVE  TermsOf(FromDependency(p, versions, p2, set2).terms, p2)
               = NegativeTerms(set2)
<1> DEFINE i == FromDependency(p, versions, p2, set2)
<1> HIDE DEF i
<1>1. i = FromDependency(p, versions, p2, set2)
  BY DEF i
<1>2. set2 = {} => TermsOf(i.terms, p2) = {}
  BY <1>1, DependencyEntries
<1>3. set2 # {} => TermsOf(i.terms, p2) = {Negative(set2)}
  BY <1>1, DependencyEntries
<1> QED BY <1>2, <1>3 DEF i, NegativeTerms

\* ... and its entries.
LEMMA DependencyEntriesOf ==
    ASSUME NEW p \in Packages, NEW versions \in Ranges,
           NEW p2 \in Packages, NEW set2 \in Ranges, p # p2
    PROVE  EntriesOf(FromDependency(p, versions, p2, set2).terms, p2)
               = DependencyTerm(p2, set2)
<1> DEFINE i == FromDependency(p, versions, p2, set2)
<1> HIDE DEF i
<1>1. i = FromDependency(p, versions, p2, set2)
  BY DEF i
<1>2. EntriesOf(i.terms, p2) = DependencyTerm(p2, set2)
  BY <1>1, DependencyEntries
<1> QED BY <1>2 DEF i

\* Dependencies that can be merged are on the same range.
LEMMA MergedRange ==
    ASSUME NEW p \in Packages, NEW q \in Packages, p # q,
           NEW v1 \in Ranges, NEW set1 \in Ranges,
           NEW v2 \in Ranges, NEW set2 \in Ranges,
           CanMerge(FromDependency(p, v1, q, set1), FromDependency(p, v2, q, set2))
    PROVE  set1 = set2
<1>1. TermsOf(FromDependency(p, v1, q, set1).terms, q)
        = TermsOf(FromDependency(p, v2, q, set2).terms, q)
  <2>1. FromDependency(p, v1, q, set1).dependency = <<p, q>>
        /\ FromDependency(p, v2, q, set2).dependency = <<p, q>>
    BY DEF FromDependency
  <2> QED BY <2>1 DEF CanMerge
<1>2. NegativeTerms(set1) = NegativeTerms(set2)
  <2>1. TermsOf(FromDependency(p, v1, q, set1).terms, q)
          = NegativeTerms(set1)
    BY DependencyTermsOf
  <2>2. TermsOf(FromDependency(p, v2, q, set2).terms, q)
          = NegativeTerms(set2)
    BY DependencyTermsOf
  <2> QED BY <1>1, <2>1, <2>2
<1>3. Negative(set1).set = set1 /\ Negative(set2).set = set2
  BY DEF Negative
<1> QED BY <1>2, <1>3 DEF NegativeTerms

\* merge_dependents: two dependencies on one range make one of both versions.
LEMMA MergedDependency ==
    ASSUME NEW p \in Packages, NEW q \in Packages, p # q,
           NEW v1 \in Ranges, NEW v2 \in Ranges, NEW set \in Ranges
    PROVE  Merged(FromDependency(p, v1, q, set), FromDependency(p, v2, q, set))
               = FromDependency(p, v1 \cup v2, q, set)
<1> DEFINE i == FromDependency(p, v1, q, set)
           j == FromDependency(p, v2, q, set)
<1>1. Get(i.terms, p) = Positive(v1)
  BY DependencyGet, Zenon
<1>2. Get(j.terms, p) = Positive(v2)
  BY DependencyGet, Zenon
<1>3. EntriesOf(i.terms, q) = DependencyTerm(q, set)
  BY DependencyEntriesOf, Zenon
<1>4. i.dependency[1] = p /\ i.dependency[2] = q
  BY DEF FromDependency
<1>5. Get(i.terms, p).set \cup Get(j.terms, p).set = v1 \cup v2
  BY <1>1, <1>2 DEF Positive
<1>6. Merged(i, j) = [i EXCEPT !.terms =
          {<<p, Positive(v1 \cup v2)>>} \cup DependencyTerm(q, set)]
  <2> HIDE DEF i, j
  <2> QED BY <1>3, <1>4, <1>5 DEF Merged
<1> QED BY <1>6 DEF FromDependency, DependencyTerm

\* i and j are dependencies of p on the same range of q, and merge into one.
MergesTo(i, j, p, q, v1, v2, set) ==
    /\ i = FromDependency(p, v1, q, set)
    /\ j = FromDependency(p, v2, q, set)
    /\ Merged(i, j) = FromDependency(p, v1 \cup v2, q, set)

\* The same, of any two dependencies that can be merged.
LEMMA MergedIsDependency ==
    ASSUME NEW i, NEW j, IsDependency(i), IsDependency(j), CanMerge(i, j),
           NEW p \in Packages, NEW q \in Packages, i.dependency = <<p, q>>
    PROVE  /\ p # q
           /\ \E v1, v2, set \in Ranges : MergesTo(i, j, p, q, v1, v2, set)
<1>0. p = i.dependency[1] /\ q = i.dependency[2]
  OBVIOUS
<1>1. PICK v1, set \in Ranges : i = FromDependency(p, v1, q, set)
  BY <1>0 DEF IsDependency
<1>2. PICK v2, set2 \in Ranges :
          j = FromDependency(j.dependency[1], v2, j.dependency[2], set2)
  BY DEF IsDependency
<1>3. p # q /\ j.dependency[1] = p /\ j.dependency[2] = q
  BY <1>0 DEF CanMerge
<1>4. j = FromDependency(p, v2, q, set2)
  BY <1>2, <1>3
<1>5. set = set2
  <2>1. CanMerge(FromDependency(p, v1, q, set), FromDependency(p, v2, q, set2))
    BY <1>1, <1>4
  <2> QED BY <1>3, <2>1, MergedRange
<1>6. Merged(i, j) = FromDependency(p, v1 \cup v2, q, set)
  <2>1. Merged(FromDependency(p, v1, q, set), FromDependency(p, v2, q, set))
          = FromDependency(p, v1 \cup v2, q, set)
    BY <1>3, MergedDependency
  <2> QED BY <1>1, <1>4, <1>5, <2>1
<1> QED BY <1>1, <1>3, <1>4, <1>5, <1>6 DEF MergesTo

\* Merging makes an incompatibility that excludes what one of the two did.
LEMMA MergedWellFormed ==
    ASSUME NEW i, NEW j, IsDependency(i), IsDependency(j), CanMerge(i, j)
    PROVE  /\ Merged(i, j) \in IncompatibilityType
           /\ WellFormed(Merged(i, j))
           /\ \A w \in SelectionType : SelectionSatisfies(Merged(i, j).terms, w)
                 => SelectionSatisfies(i.terms, w) \/ SelectionSatisfies(j.terms, w)
<1>1. PICK p \in Packages, q \in Packages : i.dependency = <<p, q>>
  BY DEF IsDependency
<1>2. p # q
  BY <1>1, MergedIsDependency
<1>3. PICK v1, v2, set \in Ranges : MergesTo(i, j, p, q, v1, v2, set)
  BY <1>1, MergedIsDependency
<1>4. /\ i = FromDependency(p, v1, q, set)
      /\ j = FromDependency(p, v2, q, set)
      /\ Merged(i, j) = FromDependency(p, v1 \cup v2, q, set)
  BY <1>3 DEF MergesTo
<1>5. v1 \cup v2 \in Ranges
  BY DEF Ranges
<1>6. /\ FromDependency(p, v1 \cup v2, q, set) \in IncompatibilityType
      /\ WellFormed(FromDependency(p, v1 \cup v2, q, set))
  BY <1>2, <1>5, FromDependencyWellFormed
<1>7. ASSUME NEW w \in SelectionType, SelectionSatisfies(Merged(i, j).terms, w)
      PROVE  SelectionSatisfies(i.terms, w) \/ SelectionSatisfies(j.terms, w)
  <2>1. w[p] \in v1 \cup v2 /\ (set # {} => w[q] \notin set)
    BY <1>4, <1>5, <1>7, DependencyMeaning
  <2>2. w[p] \in v1 => SelectionSatisfies(i.terms, w)
    BY <1>4, <2>1, DependencyMeaning
  <2>3. w[p] \in v2 => SelectionSatisfies(j.terms, w)
    BY <1>4, <2>1, DependencyMeaning
  <2> QED BY <2>1, <2>2, <2>3
<1> QED BY <1>4, <1>6, <1>7

-----------------------------------------------------------------------------
(* The history of one package *)

\* The first derivation of a package starts a history.
LEMMA FirstDerivationWellFormed ==
    ASSUME currentDecisionLevel \in Nat, nextGlobalIndex \in Nat,
           NEW cause \in Nat \ {NoCause}, NEW t \in TermType, t # EmptyTerm
    PROVE  /\ FirstDerivation(cause, t) \in PackageAssignmentsType
           /\ HistoryWellFormed(FirstDerivation(cause, t), currentDecisionLevel)
           /\ FirstDerivation(cause, t).dated = <<DatedDerivation(cause, t)>>
<1> DEFINE a == FirstDerivation(cause, t)
           d == DatedDerivation(cause, t)
<1>1. /\ a.smallest = currentDecisionLevel /\ a.highest = currentDecisionLevel
      /\ a.dated = <<d>> /\ a.version = NoVersion /\ a.index = 0 /\ a.term = t
      /\ d.level = currentDecisionLevel /\ d.term = t
  BY DEF FirstDerivation, DatedDerivation
<1>2. d \in DatedDerivationType
  BY DEF DatedDerivation, DatedDerivationType
<1>3. a \in PackageAssignmentsType
  BY <1>2 DEF FirstDerivation, PackageAssignmentsType, Selections
<1>4. DOMAIN a.dated = {1} /\ a.dated[1] = d /\ a.dated # << >>
  BY <1>1
<1> HIDE DEF a, d
<1>5. HistoryWellFormed(a, currentDecisionLevel)
  BY <1>1, <1>4 DEF HistoryWellFormed
<1> QED BY <1>1, <1>3, <1>5 DEF a, d

\* Another derivation goes to its end.
LEMMA NextDerivationWellFormed ==
    ASSUME currentDecisionLevel \in Nat, nextGlobalIndex \in Nat,
           NEW a \in PackageAssignmentsType, HistoryWellFormed(a, currentDecisionLevel),
           NEW cause \in Nat \ {NoCause}, NEW t \in TermType,
           Intersection(a.term, t) # EmptyTerm
    PROVE  /\ NextDerivation(a, cause, t) \in PackageAssignmentsType
           /\ HistoryWellFormed(NextDerivation(a, cause, t), currentDecisionLevel)
           /\ NextDerivation(a, cause, t).dated
                  = Append(a.dated, DatedDerivation(cause, Intersection(a.term, t)))
<1> DEFINE u == Intersection(a.term, t)
           d == DatedDerivation(cause, u)
           b == NextDerivation(a, cause, t)
<1>1. /\ a.dated \in Seq(DatedDerivationType) /\ a.term \in TermType
      /\ a.smallest \in Nat /\ a.highest \in Nat /\ a.version \in Selections /\ a.index \in Nat
  BY DEF PackageAssignmentsType
<1>2. u \in TermType
  BY <1>1, TermsClosed
<1>3. d \in DatedDerivationType /\ d.level = currentDecisionLevel /\ d.term = u
  BY <1>2 DEF DatedDerivation, DatedDerivationType
<1>4. /\ b.smallest = a.smallest /\ b.highest = currentDecisionLevel
      /\ b.dated = Append(a.dated, d) /\ b.term = u
  BY DEF NextDerivation, PackageAssignmentsType
<1>5. b \in PackageAssignmentsType
  <2>1. Append(a.dated, d) \in Seq(DatedDerivationType)
    BY <1>1, <1>3
  <2> QED BY <1>2, <2>1 DEF NextDerivation, PackageAssignmentsType
<1> HIDE DEF u, d, b
<1>6. /\ Len(a.dated) \in Nat /\ DOMAIN a.dated = 1 .. Len(a.dated)
      /\ DOMAIN b.dated = 1 .. Len(a.dated) + 1
      /\ \A i \in 1 .. Len(a.dated) : b.dated[i] = a.dated[i]
      /\ b.dated[Len(a.dated) + 1] = d
      /\ \A i \in 1 .. Len(a.dated) : a.dated[i] \in DatedDerivationType
  BY <1>1, <1>3, <1>4
<1>7. Len(a.dated) > 0 /\ b.dated # << >>
  BY <1>1, <1>6 DEF HistoryWellFormed
<1>8. \A i \in 1 .. Len(a.dated) : a.dated[i].level \in Nat /\ a.dated[i].level <= currentDecisionLevel
  <2> TAKE i \in 1 .. Len(a.dated)
  <2>1. a.dated[i].level \in Nat
    BY <1>6 DEF DatedDerivationType
  <2>2. a.dated[i].level <= a.highest /\ a.highest <= currentDecisionLevel
    BY <1>6 DEF HistoryWellFormed
  <2> QED BY <1>1, <2>1, <2>2
<1>9. HistoryWellFormed(b, currentDecisionLevel)
  <2>1. b.smallest = b.dated[1].level
    BY <1>4, <1>6, <1>7 DEF HistoryWellFormed
  <2>2. b.highest <= currentDecisionLevel /\ b.term # EmptyTerm
    BY <1>4 DEF u
  <2>3. ASSUME NEW i \in DOMAIN b.dated
        PROVE  b.dated[i].level <= b.highest /\ b.dated[i].term # EmptyTerm
    BY <1>3, <1>4, <1>6, <1>8 DEF HistoryWellFormed, u
  <2>4. ASSUME NEW i \in DOMAIN b.dated, NEW j \in DOMAIN b.dated, i <= j
        PROVE  b.dated[i].level <= b.dated[j].level
    <3>1. CASE j = Len(a.dated) + 1
      BY <1>3, <1>6, <1>8, <3>1
    <3>2. CASE j # Len(a.dated) + 1
      <4>1. i \in DOMAIN a.dated /\ j \in DOMAIN a.dated
        BY <1>6, <2>4, <3>2
      <4> QED BY <1>6, <2>4, <4>1 DEF HistoryWellFormed
    <3> QED BY <3>1, <3>2
  <2> QED BY <1>7, <2>1, <2>2, <2>3, <2>4 DEF HistoryWellFormed
<1> QED BY <1>4, <1>5, <1>9 DEF u, d, b

\* A decision leaves the derivations alone.
LEMMA DecisionWellFormed ==
    ASSUME currentDecisionLevel \in Nat, nextGlobalIndex \in Nat,
           NEW a \in PackageAssignmentsType, HistoryWellFormed(a, currentDecisionLevel),
           NEW v \in Versions
    PROVE  /\ Decision(a, v) \in PackageAssignmentsType
           /\ HistoryWellFormed(Decision(a, v), currentDecisionLevel + 1)
           /\ Decision(a, v).dated = a.dated
<1> DEFINE b == Decision(a, v)
<1>1. /\ b.smallest = a.smallest /\ b.highest = currentDecisionLevel + 1
      /\ b.dated = a.dated /\ b.term = Exact(v)
  BY DEF Decision, PackageAssignmentsType
<1>2. Exact(v) \in TermType /\ Exact(v) # EmptyTerm
  BY DEF Exact, EmptyTerm, Positive, TermType
<1>5. /\ a.highest \in Nat /\ a.smallest \in Nat
      /\ a.dated \in Seq(DatedDerivationType)
  BY DEF PackageAssignmentsType
<1>3. b \in PackageAssignmentsType
  <2>1. v \in Selections /\ currentDecisionLevel + 1 \in Nat
    BY DEF Selections
  <2> QED BY <1>2, <1>5, <2>1 DEF Decision, PackageAssignmentsType
<1>4. \A i \in DOMAIN a.dated : a.dated[i].level \in Nat
  <2> TAKE i \in DOMAIN a.dated
  <2>1. a.dated[i] \in DatedDerivationType
    BY <1>5
  <2> QED BY <2>1 DEF DatedDerivationType
<1> HIDE DEF b
<1>6. HistoryWellFormed(b, currentDecisionLevel + 1)
  BY <1>1, <1>2, <1>4, <1>5 DEF HistoryWellFormed
<1> QED BY <1>1, <1>3, <1>6 DEF b

-----------------------------------------------------------------------------
(* Cutting a history *)

\* A history that begins at a level not later than `level' has a last
\* derivation of such a level: the pops of `backtrack' stop.
LEMMA KeptDerivationsFound ==
    ASSUME NEW a \in PackageAssignmentsType, NEW level \in Nat,
           a.dated # << >>, a.dated[1].level <= level
    PROVE  /\ KeptDerivations(a.dated, level) \in 1 .. Len(a.dated)
           /\ a.dated[KeptDerivations(a.dated, level)].level <= level
           /\ \A i \in KeptDerivations(a.dated, level) + 1 .. Len(a.dated) :
                  a.dated[i].level > level
<1> DEFINE n == Len(a.dated)
           T == {k \in 0 .. n : \E i \in 1 .. n : k = n - i /\ a.dated[i].level <= level}
           good(m) == /\ \A i \in m + 1 .. n : a.dated[i].level > level
                      /\ m > 0 => a.dated[m].level <= level
<1>1. a.dated \in Seq(DatedDerivationType)
  BY DEF PackageAssignmentsType
<1>2. n \in Nat /\ n > 0 /\ \A i \in 1 .. n : a.dated[i].level \in Nat
  <2>1. \A i \in 1 .. n : a.dated[i] \in DatedDerivationType
    BY <1>1
  <2> QED BY <1>1, <2>1 DEF DatedDerivationType
<1>3. n - 1 \in T
  BY <1>2
<1>4. T \subseteq Nat
  BY <1>2
<1>5. PICK k \in T : \A y \in T : ~(<<y, k>> \in OpToRel(<, Nat))
  <2> HIDE DEF T
  <2> QED BY <1>3, <1>4, WFMin, NatLessThanWellFounded
<1>6. \A y \in T : ~(y < k)
  BY <1>4, <1>5 DEF OpToRel
<1>7. good(n - k) /\ n - k \in 1 .. n
  <2>1. PICK i \in 1 .. n : k = n - i /\ a.dated[i].level <= level
    OBVIOUS
  <2>2. n - k = i
    BY <1>2, <2>1
  <2>3. ASSUME NEW j \in i + 1 .. n
        PROVE  a.dated[j].level > level
    <3>1. n - j \in Nat /\ n - j < k /\ j \in 1 .. n
      BY <1>2, <2>1
    <3>2. n - j \notin T
      BY <1>6, <3>1
    <3>3. ~(a.dated[j].level <= level)
      BY <1>2, <3>1, <3>2
    <3> QED BY <1>2, <3>1, <3>3
  <2> QED BY <2>1, <2>2, <2>3
<1>8. \E m \in 0 .. n : good(m)
  BY <1>2, <1>7
<1>9. KeptDerivations(a.dated, level) \in 0 .. n /\ good(KeptDerivations(a.dated, level))
  <2> DEFINE K == CHOOSE m \in 0 .. n : good(m)
  <2>1. KeptDerivations(a.dated, level) = K
    BY DEF KeptDerivations
  <2>2. K \in 0 .. n /\ good(K)
    BY <1>8
  <2> QED BY <2>1, <2>2
<1> HIDE DEF T
<1>10. KeptDerivations(a.dated, level) # 0
  BY <1>2, <1>9
<1> QED BY <1>2, <1>9, <1>10

\* What is left of a history that is cut is a history up to that level, and
\* ends with the last derivation kept.
LEMMA TruncateWellFormed ==
    ASSUME NEW a \in PackageAssignmentsType, NEW level \in Nat, NEW now \in Nat,
           HistoryWellFormed(a, now), a.smallest <= level
    PROVE  LET n == KeptDerivations(a.dated, level)
           IN  /\ Truncate(a, level) \in PackageAssignmentsType
               /\ HistoryWellFormed(Truncate(a, level), level)
               /\ n \in DOMAIN a.dated /\ a.dated[n].level <= level
               /\ Truncate(a, level).term = a.dated[n].term
               /\ DOMAIN Truncate(a, level).dated = 1 .. n
               /\ \A i \in 1 .. n : i \in DOMAIN a.dated
                                  /\ Truncate(a, level).dated[i] = a.dated[i]
<1> DEFINE n == KeptDerivations(a.dated, level)
           b == Truncate(a, level)
<1>1. a.dated \in Seq(DatedDerivationType)
  BY DEF PackageAssignmentsType
<1>2. a.dated # << >> /\ a.dated[1].level <= level
  BY DEF HistoryWellFormed
<1>3. n \in 1 .. Len(a.dated) /\ a.dated[n].level <= level
  BY <1>2, KeptDerivationsFound
<1>4. \A i \in 1 .. Len(a.dated) :
          /\ a.dated[i] \in DatedDerivationType
          /\ a.dated[i].level \in Nat /\ a.dated[i].term \in TermType
  <2>1. \A i \in 1 .. Len(a.dated) : a.dated[i] \in DatedDerivationType
    BY <1>1
  <2> QED BY <2>1 DEF DatedDerivationType
<1>5. /\ b.smallest = a.smallest /\ b.highest = a.dated[n].level
      /\ b.dated = SubSeq(a.dated, 1, n) /\ b.term = a.dated[n].term
  BY DEF Truncate, PackageAssignmentsType
<1>6. /\ SubSeq(a.dated, 1, n) \in Seq(DatedDerivationType)
      /\ Len(SubSeq(a.dated, 1, n)) = n
      /\ \A i \in 1 .. n : SubSeq(a.dated, 1, n)[i] = a.dated[i]
  <2> HIDE DEF n
  <2>1. n \in Int /\ 1 <= n /\ \A i \in 1 .. n : a.dated[i] \in DatedDerivationType
    BY <1>1, <1>3, <1>4
  <2> QED BY <1>1, <1>3, <2>1, SubSeqProperties
<1>7. b \in PackageAssignmentsType
  <2>1. a.dated[n].level \in Nat /\ a.dated[n].term \in TermType
    BY <1>3, <1>4
  <2>2. a.smallest \in Nat
    BY DEF PackageAssignmentsType
  <2> QED BY <1>6, <2>1, <2>2 DEF Truncate, PackageAssignmentsType, Selections
<1>8. DOMAIN b.dated = 1 .. n /\ \A i \in 1 .. n : b.dated[i] = a.dated[i]
  BY <1>5, <1>6
<1>9. \A i \in 1 .. n : i \in DOMAIN a.dated
  BY <1>1, <1>3
<1> HIDE DEF n, b
<1>10. HistoryWellFormed(b, level)
  <2>1. b.dated # << >>
    BY <1>3, <1>8
  <2>2. b.smallest = b.dated[1].level /\ b.highest <= level /\ b.term # EmptyTerm
    BY <1>3, <1>5, <1>8, <1>9 DEF HistoryWellFormed
  <2>3. ASSUME NEW i \in 1 .. n
        PROVE  /\ b.dated[i].level <= b.highest /\ b.dated[i].term # EmptyTerm
               /\ \A j \in 1 .. n : i <= j => b.dated[i].level <= b.dated[j].level
    <3>1. i <= n /\ n \in DOMAIN a.dated /\ i \in DOMAIN a.dated
      BY <1>3, <1>9
    <3> QED BY <1>5, <1>8, <1>9, <3>1 DEF HistoryWellFormed
  <2> QED BY <1>8, <2>1, <2>2, <2>3 DEF HistoryWellFormed
<1> QED BY <1>3, <1>5, <1>7, <1>8, <1>9, <1>10 DEF n, b

-----------------------------------------------------------------------------
(* The operations of the partial solution *)

PSWellFormed == \A p \in DOMAIN assignments :
                    HistoryWellFormed(assignments[p], currentDecisionLevel)

CausesIn(s) == \A p \in DOMAIN assignments : CausesResolvable(p, assignments[p], s)

\* Only packages have assignments, so there are finitely many.
LEMMA AssignmentsFinite ==
    ASSUME PSTypeOK, NEW set \in SUBSET DOMAIN assignments
    PROVE  IsFiniteSet(set) /\ Cardinality(set) \in Nat
<1>1. set \in SUBSET Packages
  BY DEF PSTypeOK
<1>2. IsFiniteSet(set)
  BY <1>1, PackagesAssumption, FS_Subset
<1> QED BY <1>2, FS_CardinalityType

\* The term derived is not empty, if the cause has a term for the package.
LEMMA NegateNotEmpty ==
    ASSUME NEW t \in TermType, t # AnyTerm
    PROVE  Negate(t) # EmptyTerm
BY DEF TermType, Negate, AnyTerm, EmptyTerm, Positive, Negative

\* add_derivation
LEMMA AddDerivationWellFormed ==
    ASSUME PSTypeOK, PSWellFormed,
           NEW cause \in Nat \ {NoCause}, NEW terms \in TermsType,
           NEW p \in IncompatPackages(terms), Get(terms, p) # AnyTerm,
           p \in DOMAIN assignments =>
               Intersection(assignments[p].term, Negate(Get(terms, p))) # EmptyTerm,
           AddDerivation(p, cause, terms)
    PROVE  /\ PSTypeOK' /\ PSWellFormed'
           /\ \A s : /\ CausesIn(s)
                     /\ cause \in 1 .. Len(s)
                     /\ p \in IncompatPackages(s[cause].terms)
                     /\ Resolvable(s[cause].terms)
                     => \A q \in DOMAIN assignments' : CausesResolvable(q, assignments'[q], s)
<1> DEFINE t == Negate(Get(terms, p))
           new == IF p \in DOMAIN assignments
                  THEN NextDerivation(assignments[p], cause, t)
                  ELSE FirstDerivation(cause, t)
<1>1. p \in Packages /\ Get(terms, p) \in TermType
  BY GetFinds
<1>2. t \in TermType /\ t # EmptyTerm
  BY <1>1, TermsClosed, NegateNotEmpty
<1>3. /\ currentDecisionLevel \in Nat /\ nextGlobalIndex \in Nat
      /\ DOMAIN assignments \subseteq Packages
      /\ \A q \in DOMAIN assignments : assignments[q] \in PackageAssignmentsType
  BY DEF PSTypeOK
<1>4. /\ assignments' = [q \in DOMAIN assignments \cup {p} |->
                            IF q = p THEN new ELSE assignments[q]]
      /\ position' = [q \in DOMAIN assignments \cup {p} |->
                         IF q \in DOMAIN assignments THEN position[q]
                         ELSE Cardinality(DOMAIN assignments) + 1]
      /\ outdated' = OutdatedBy(p, new.term)
      /\ nextGlobalIndex' = nextGlobalIndex + 1
      /\ UNCHANGED <<currentDecisionLevel, prioritized, hasEverBacktracked>>
  BY DEF AddDerivation
<1>5. new \in PackageAssignmentsType /\ HistoryWellFormed(new, currentDecisionLevel)
  <2>1. CASE p \in DOMAIN assignments
    <3>1. HistoryWellFormed(assignments[p], currentDecisionLevel)
      BY <2>1 DEF PSWellFormed
    <3>2. /\ NextDerivation(assignments[p], cause, t) \in PackageAssignmentsType
          /\ HistoryWellFormed(NextDerivation(assignments[p], cause, t), currentDecisionLevel)
      <4> HIDE DEF t
      <4> QED BY <1>2, <1>3, <2>1, <3>1, NextDerivationWellFormed DEF t
    <3> QED BY <2>1, <3>2
  <2>2. CASE p \notin DOMAIN assignments
    <3>1. /\ FirstDerivation(cause, t) \in PackageAssignmentsType
          /\ HistoryWellFormed(FirstDerivation(cause, t), currentDecisionLevel)
      <4> HIDE DEF t
      <4> QED BY <1>2, <1>3, FirstDerivationWellFormed
    <3> QED BY <2>2, <3>1
  <2> QED BY <2>1, <2>2
<1>6. ASSUME NEW s, CausesIn(s), cause \in 1 .. Len(s),
             p \in IncompatPackages(s[cause].terms), Resolvable(s[cause].terms)
      PROVE  CausesResolvable(p, new, s)
  <2>1. CASE p \in DOMAIN assignments
    <3> DEFINE a == assignments[p]
               d == DatedDerivation(cause, Intersection(a.term, t))
    <3>1. new.dated = Append(a.dated, d)
      <4>1. HistoryWellFormed(assignments[p], currentDecisionLevel)
        BY <2>1 DEF PSWellFormed
      <4> HIDE DEF t
      <4> QED BY <1>2, <1>3, <2>1, <4>1, NextDerivationWellFormed DEF t
    <3>2. a.dated \in Seq(DatedDerivationType)
      BY <1>3, <2>1 DEF PackageAssignmentsType
    <3>3. CausesResolvable(p, a, s)
      BY <1>6, <2>1 DEF CausesIn
    <3>4. d.cause = cause
      BY DEF DatedDerivation
    <3> HIDE DEF a, d, new
    <3>5. /\ DOMAIN new.dated = 1 .. Len(a.dated) + 1 /\ DOMAIN a.dated = 1 .. Len(a.dated)
          /\ Len(a.dated) \in Nat
          /\ \A i \in 1 .. Len(a.dated) : new.dated[i] = a.dated[i]
          /\ new.dated[Len(a.dated) + 1] = d
      BY <3>1, <3>2
    <3>6. \A i \in DOMAIN new.dated : i \in DOMAIN a.dated \/ new.dated[i] = d
      BY <3>5
    <3> QED BY <1>6, <3>3, <3>4, <3>5, <3>6 DEF CausesResolvable
  <2>2. CASE p \notin DOMAIN assignments
    <3>1. new.dated = <<DatedDerivation(cause, t)>>
      BY <2>2 DEF FirstDerivation
    <3>2. DatedDerivation(cause, t).cause = cause
      BY DEF DatedDerivation
    <3>3. \A i \in DOMAIN new.dated : new.dated[i].cause = cause
      BY <3>1, <3>2
    <3> QED BY <1>6, <3>3 DEF CausesResolvable
  <2> QED BY <2>1, <2>2
<1> HIDE DEF new
<1>7. PSTypeOK'
  <2>1. DOMAIN assignments' \subseteq Packages
    BY <1>1, <1>3, <1>4
  <2>2. assignments' \in [DOMAIN assignments' -> PackageAssignmentsType]
    BY <1>3, <1>4, <1>5
  <2>3. position' \in [DOMAIN assignments' -> Nat]
    <3>1. Cardinality(DOMAIN assignments) \in Nat
      BY AssignmentsFinite
    <3>2. \A q \in DOMAIN assignments : position[q] \in Nat
      BY DEF PSTypeOK
    <3> QED BY <1>4, <3>1, <3>2
  <2>4. nextGlobalIndex' \in Nat /\ currentDecisionLevel' \in Nat
    BY <1>3, <1>4
  <2>5. outdated' \subseteq Packages
    BY <1>1, <1>4 DEF OutdatedBy, PSTypeOK
  <2>6. /\ DOMAIN prioritized' \subseteq Packages
        /\ prioritized' \in [DOMAIN prioritized' -> SUBSET Versions]
        /\ hasEverBacktracked' \in BOOLEAN
    BY <1>4 DEF PSTypeOK
  <2> QED BY <2>1, <2>2, <2>3, <2>4, <2>5, <2>6 DEF PSTypeOK
<1>8. PSWellFormed'
  BY <1>4, <1>5 DEF PSWellFormed
<1>9. ASSUME NEW s, CausesIn(s), cause \in 1 .. Len(s),
             p \in IncompatPackages(s[cause].terms), Resolvable(s[cause].terms)
      PROVE  \A q \in DOMAIN assignments' : CausesResolvable(q, assignments'[q], s)
  BY <1>4, <1>6, <1>9 DEF CausesIn
<1> QED BY <1>7, <1>8, <1>9

\* add_decision
LEMMA AddDecisionWellFormed ==
    ASSUME PSTypeOK, PSWellFormed,
           NEW p, NEW v \in Versions, AddDecision(p, v)
    PROVE  /\ PSTypeOK' /\ PSWellFormed'
           /\ \A s : CausesIn(s) =>
                 \A q \in DOMAIN assignments' : CausesResolvable(q, assignments'[q], s)
<1>1. /\ p \in DOMAIN assignments
      /\ currentDecisionLevel' = currentDecisionLevel + 1
      /\ assignments' = [assignments EXCEPT ![p] = Decision(assignments[p], v)]
      /\ position' = MoveToDecisions(p)
      /\ nextGlobalIndex' = nextGlobalIndex + 1
      /\ UNCHANGED <<prioritized, outdated, hasEverBacktracked>>
  BY DEF AddDecision, CanDecide
<1>2. /\ currentDecisionLevel \in Nat /\ nextGlobalIndex \in Nat
      /\ assignments \in [DOMAIN assignments -> PackageAssignmentsType]
      /\ position \in [DOMAIN assignments -> Nat]
  BY DEF PSTypeOK
<1>3. /\ assignments[p] \in PackageAssignmentsType
      /\ HistoryWellFormed(assignments[p], currentDecisionLevel)
  BY <1>1, <1>2 DEF PSWellFormed
<1>4. /\ Decision(assignments[p], v) \in PackageAssignmentsType
      /\ HistoryWellFormed(Decision(assignments[p], v), currentDecisionLevel + 1)
      /\ Decision(assignments[p], v).dated = assignments[p].dated
  BY <1>2, <1>3, DecisionWellFormed
<1>5. DOMAIN assignments' = DOMAIN assignments
      /\ \A q \in DOMAIN assignments :
            assignments'[q] = IF q = p THEN Decision(assignments[p], v) ELSE assignments[q]
  BY <1>1, <1>2
<1>6. PSTypeOK'
  <2>1. assignments' \in [DOMAIN assignments' -> PackageAssignmentsType]
    BY <1>1, <1>2, <1>4
  <2>2. position' \in [DOMAIN assignments' -> Nat]
    BY <1>1, <1>2, <1>5 DEF MoveToDecisions
  <2> QED BY <1>1, <1>2, <1>5, <2>1, <2>2 DEF PSTypeOK
<1>7. PSWellFormed'
  <2> SUFFICES ASSUME NEW q \in DOMAIN assignments
               PROVE  HistoryWellFormed(assignments'[q], currentDecisionLevel + 1)
    BY <1>1, <1>5 DEF PSWellFormed
  <2>1. CASE q = p
    BY <1>4, <1>5, <2>1
  <2>2. CASE q # p
    <3>1. assignments'[q] = assignments[q]
      BY <1>5, <2>2
    <3>2. HistoryWellFormed(assignments[q], currentDecisionLevel)
      BY DEF PSWellFormed
    <3>3. assignments[q].highest \in Nat
      BY <1>2 DEF PackageAssignmentsType
    <3>4. HistoryWellFormed(assignments[q], currentDecisionLevel + 1)
      BY <1>2, <3>2, <3>3 DEF HistoryWellFormed
    <3> QED BY <3>1, <3>4
  <2> QED BY <2>1, <2>2
<1>8. ASSUME NEW s, CausesIn(s)
      PROVE  \A q \in DOMAIN assignments' : CausesResolvable(q, assignments'[q], s)
  BY <1>4, <1>5, <1>8 DEF CausesIn, CausesResolvable
<1> QED BY <1>6, <1>7, <1>8

\* backtrack
LEMMA BacktrackWellFormed ==
    ASSUME PSTypeOK, PSWellFormed, NEW level \in Nat, Backtrack(level)
    PROVE  /\ PSTypeOK' /\ PSWellFormed'
           /\ \A s : CausesIn(s) =>
                 \A q \in DOMAIN assignments' : CausesResolvable(q, assignments'[q], s)
           /\ \A q \in DOMAIN assignments' :
                 /\ q \in DOMAIN assignments
                 /\ assignments[q].smallest <= level
                 /\ assignments'[q] = BacktrackedAssignment(assignments[q], level)
<1> DEFINE kept == {p \in DOMAIN assignments : assignments[p].smallest <= level}
           truncated == {p \in kept : assignments[p].highest > level}
           new == [p \in kept |-> BacktrackedAssignment(assignments[p], level)]
<1>1. /\ currentDecisionLevel' = level
      /\ assignments' = new
      /\ position' = [p \in kept |-> Cardinality({q \in kept : position[q] <= position[p]})]
      /\ prioritized' = [p \in DOMAIN prioritized \ truncated |-> prioritized[p]]
      /\ outdated' = outdated \cup Requeued(kept, truncated, new)
      /\ hasEverBacktracked' = TRUE
      /\ UNCHANGED nextGlobalIndex
  BY DEF Backtrack
<1>2. /\ currentDecisionLevel \in Nat
      /\ DOMAIN assignments \subseteq Packages
      /\ \A q \in DOMAIN assignments : assignments[q] \in PackageAssignmentsType
  BY DEF PSTypeOK
<1>3. DOMAIN assignments' = kept
      /\ \A q \in kept : assignments'[q] = BacktrackedAssignment(assignments[q], level)
  BY <1>1
<1>4. ASSUME NEW q \in kept
      PROVE  /\ assignments'[q] \in PackageAssignmentsType
             /\ HistoryWellFormed(assignments'[q], level)
             /\ \A s : CausesResolvable(q, assignments[q], s)
                         => CausesResolvable(q, assignments'[q], s)
  <2> DEFINE a == assignments[q]
  <2>1. /\ a \in PackageAssignmentsType /\ a.smallest <= level
        /\ HistoryWellFormed(a, currentDecisionLevel) /\ a.highest \in Nat
    BY <1>2 DEF PSWellFormed, PackageAssignmentsType
  <2> HIDE DEF a
  <2>2. CASE a.highest <= level
    <3>1. assignments'[q] = a
      BY <1>3, <2>2 DEF BacktrackedAssignment, a
    <3>2. HistoryWellFormed(a, level)
      BY <2>1, <2>2 DEF HistoryWellFormed
    <3> QED BY <2>1, <3>1, <3>2 DEF a
  <2>3. CASE ~(a.highest <= level)
    <3> DEFINE b == Truncate(a, level)
               n == KeptDerivations(a.dated, level)
    <3>1. assignments'[q] = b
      BY <1>3, <2>3 DEF BacktrackedAssignment, a
    <3>2. /\ b \in PackageAssignmentsType /\ HistoryWellFormed(b, level)
          /\ DOMAIN b.dated = 1 .. n
          /\ \A i \in 1 .. n : i \in DOMAIN a.dated /\ b.dated[i] = a.dated[i]
      BY <1>2, <2>1, TruncateWellFormed
    <3> HIDE DEF b, n
    <3>3. \A s : CausesResolvable(q, a, s) => CausesResolvable(q, b, s)
      BY <3>2 DEF CausesResolvable
    <3> QED BY <3>1, <3>2, <3>3 DEF a
  <2> QED BY <2>2, <2>3
<1>5. PSTypeOK'
  <2>1. assignments' \in [DOMAIN assignments' -> PackageAssignmentsType]
    BY <1>1, <1>3, <1>4
  <2>2. position' \in [DOMAIN assignments' -> Nat]
    <3>1. \A p \in kept : Cardinality({q \in kept : position[q] <= position[p]}) \in Nat
      <4> TAKE p \in kept
      <4>1. {q \in kept : position[q] <= position[p]} \in SUBSET DOMAIN assignments
        OBVIOUS
      <4> HIDE DEF kept
      <4> QED BY <4>1, AssignmentsFinite
    <3> HIDE DEF kept
    <3> QED BY <1>1, <1>3, <3>1
  <2>3. DOMAIN assignments' \subseteq Packages /\ kept \subseteq Packages
    BY <1>2, <1>3
  <2>4. outdated' \subseteq Packages
    <3>1. Requeued(kept, truncated, new) \subseteq kept
      BY DEF Requeued
    <3> QED BY <1>1, <2>3, <3>1 DEF PSTypeOK
  <2>5. /\ DOMAIN prioritized' \subseteq Packages
        /\ prioritized' \in [DOMAIN prioritized' -> SUBSET Versions]
    BY <1>1 DEF PSTypeOK
  <2>6. /\ nextGlobalIndex' \in Nat /\ currentDecisionLevel' \in Nat
        /\ hasEverBacktracked' \in BOOLEAN
    BY <1>1 DEF PSTypeOK
  <2> QED BY <2>1, <2>2, <2>3, <2>4, <2>5, <2>6 DEF PSTypeOK
<1>6. PSWellFormed'
  BY <1>1, <1>3, <1>4 DEF PSWellFormed
<1>7. ASSUME NEW s, CausesIn(s)
      PROVE  \A q \in DOMAIN assignments' : CausesResolvable(q, assignments'[q], s)
  BY <1>3, <1>4, <1>7 DEF CausesIn
<1> QED BY <1>3, <1>5, <1>6, <1>7

\* pick_highest_priority_pkg changes the queue and nothing else.
LEMMA PickWellFormed ==
    ASSUME PSTypeOK, (\E p \in Packages : PickPackage(p)) \/ PickNone
    PROVE  /\ PSTypeOK'
           /\ UNCHANGED <<nextGlobalIndex, currentDecisionLevel, assignments, position,
                          hasEverBacktracked>>
<1>1. /\ DOMAIN RefreshedQueue \subseteq Packages
      /\ RefreshedQueue \in [DOMAIN RefreshedQueue -> SUBSET Versions]
  <2>1. \A p \in DOMAIN assignments : assignments[p].term.set \in SUBSET Versions
    BY DEF PSTypeOK, PackageAssignmentsType, TermType
  <2> QED BY <2>1 DEF RefreshedQueue, Potential, PSTypeOK
<1>2. CASE PickNone
  BY <1>2 DEF PickNone, PSTypeOK
<1>3. ASSUME NEW p \in Packages, PickPackage(p)
      PROVE  /\ PSTypeOK'
             /\ UNCHANGED <<nextGlobalIndex, currentDecisionLevel, assignments, position,
                            hasEverBacktracked>>
  <2>1. PICK dropped : prioritized' = [q \in DOMAIN RefreshedQueue \ (dropped \cup {p}) |->
                                          RefreshedQueue[q]]
    BY <1>3 DEF PickPackage
  <2>2. /\ DOMAIN prioritized' \subseteq Packages
        /\ prioritized' \in [DOMAIN prioritized' -> SUBSET Versions]
    BY <1>1, <2>1
  <2> QED BY <1>3, <2>2 DEF PickPackage, PSTypeOK
<1> QED BY <1>2, <1>3

-----------------------------------------------------------------------------
(* The store *)

GoodStore(s) ==
    /\ s \in Seq(IncompatibilityType)
    /\ \A id \in 1 .. Len(s) : WellFormed(s[id])

\* What was allocated stays.
StoreExtends(s, t) ==
    /\ Len(s) <= Len(t)
    /\ \A id \in 1 .. Len(s) : t[id] = s[id]

Excludes(s, w) == \A id \in 1 .. Len(s) : ~SelectionSatisfies(s[id].terms, w)

ListsIn(lists, s) == lists \in [Packages -> Seq(1 .. Len(s))]
MergedIn(merged, s) == merged \in [Packages \X Packages -> Seq(1 .. Len(s))]

-----------------------------------------------------------------------------
(* Sequences of ids *)

\* Removing an id leaves a sequence of ids.
LEMMA WithoutType ==
    ASSUME NEW S, NEW ids \in Seq(S), NEW id
    PROVE  Without(ids, id) \in Seq(S)
<1>1. CASE \E i \in DOMAIN ids : ids[i] = id
  <2> DEFINE k == CHOOSE i \in DOMAIN ids : ids[i] = id
  <2>1. k \in DOMAIN ids /\ DOMAIN ids = 1 .. Len(ids) /\ Len(ids) \in Nat
    BY <1>1
  <2> HIDE DEF k
  <2>2. \A i \in 1 .. Len(ids) : ids[i] \in S
    OBVIOUS
  <2>3. SubSeq(ids, 1, k - 1) \in Seq(S)
    BY <2>1, <2>2, SubSeqProperties
  <2>4. SubSeq(ids, k + 1, Len(ids)) \in Seq(S)
    BY <2>1, <2>2, SubSeqProperties
  <2>5. RemoveAt(ids, k) \in Seq(S)
    BY <2>3, <2>4, ConcatProperties DEF RemoveAt
  <2> QED BY <1>1, <2>5 DEF Without, k
<1>2. CASE ~\E i \in DOMAIN ids : ids[i] = id
  BY <1>2 DEF Without
<1> QED BY <1>1, <1>2

\* Registering an id for the packages of its terms.
LEMMA RegisterType ==
    ASSUME NEW S, NEW lists \in [Packages -> Seq(S)], NEW id \in S,
           NEW terms, IsFiniteSet(terms)
    PROVE  Register(lists, terms, id) \in [Packages -> Seq(S)]
<1>1. ASSUME NEW p \in Packages
      PROVE  lists[p] \o [i \in 1 .. Cardinality(TermsOf(terms, p)) |-> id] \in Seq(S)
  <2> DEFINE mine == EntriesOf(terms, p)
             f == [y \in mine |-> y[2]]
             n == Cardinality(TermsOf(terms, p))
  <2>1. IsFiniteSet(mine)
    BY FS_Subset DEF EntriesOf
  <2>2. f \in Surjection(mine, TermsOf(terms, p))
    BY DEF Surjection, TermsOf
  <2>3. n \in Nat
    BY <2>1, <2>2, FS_Surjection, FS_CardinalityType
  <2> HIDE DEF n
  <2>4. [i \in 1 .. n |-> id] \in Seq(S)
    BY <2>3
  <2> QED BY <2>4, ConcatProperties DEF n
<1> QED BY <1>1 DEF Register

\* Taking an id out of the lists of some packages.
LEMMA UnregisterType ==
    ASSUME NEW S, NEW lists \in [Packages -> Seq(S)], NEW id, NEW terms
    PROVE  Unregister(lists, terms, id) \in [Packages -> Seq(S)]
BY WithoutType DEF Unregister

-----------------------------------------------------------------------------
(* merge_incompatibility *)

\* The store that a merge appends to stays good, and excludes no solution it
\* did not exclude before.
LEMMA MergeWellFormed ==
    ASSUME NEW s, GoodStore(s), NEW id \in 1 .. Len(s),
           ListsIn(incompatibilities, s), MergedIn(mergedDependencies, s),
           MergeIncompatibility(s, id)
    PROVE  /\ GoodStore(store') /\ StoreExtends(s, store')
           /\ ListsIn(incompatibilities', store') /\ MergedIn(mergedDependencies', store')
           /\ \A w \in SelectionType : Excludes(s, w) => Excludes(store', w)
<1>1. /\ s \in Seq(IncompatibilityType) /\ Len(s) \in Nat
      /\ s[id] \in IncompatibilityType /\ WellFormed(s[id])
  BY DEF GoodStore
<1>2. s[id].kind = "dependency" => IsDependency(s[id]) /\ s[id].dependency \in Packages \X Packages
  BY <1>1 DEF WellFormed, IsDependency
<1>3. CASE Keep(s, id)
  <2>1. store' = s /\ incompatibilities' = Register(incompatibilities, s[id].terms, id)
    BY <1>3 DEF Keep
  <2>2. ListsIn(incompatibilities', s)
    <3>1. IsFiniteSet(s[id].terms)
      BY <1>1 DEF WellFormed
    <3> QED BY <2>1, <3>1, RegisterType DEF ListsIn
  <2>3. MergedIn(mergedDependencies', s)
    <3>1. CASE s[id].kind = "dependency"
      <4>1. mergedDependencies[s[id].dependency] \in Seq(1 .. Len(s))
        BY <1>2, <3>1 DEF MergedIn
      <4>2. Append(mergedDependencies[s[id].dependency], id) \in Seq(1 .. Len(s))
        BY <4>1
      <4> QED BY <1>2, <1>3, <3>1, <4>2 DEF Keep, MergedIn
    <3>2. CASE s[id].kind # "dependency"
      BY <1>3, <3>2 DEF Keep, MergedIn
    <3> QED BY <3>1, <3>2
  <2> QED BY <1>1, <2>1, <2>2, <2>3 DEF StoreExtends
<1>4. ASSUME NEW k \in DOMAIN PastDependencies(s, id),
             MergesWith(s, id, PastDependencies(s, id), k), ReplacePast(s, id, k)
      PROVE  /\ GoodStore(store') /\ StoreExtends(s, store')
             /\ ListsIn(incompatibilities', store') /\ MergedIn(mergedDependencies', store')
             /\ \A w \in SelectionType : Excludes(s, w) => Excludes(store', w)
  <2> DEFINE pair == s[id].dependency
             past == mergedDependencies[pair][k]
             merged == Merged(s[id], s[past])
             new == Len(s) + 1
  <2>1. s[id].kind = "dependency" /\ IsDependency(s[id]) /\ pair \in Packages \X Packages
    BY <1>2, <1>4 DEF MergesWith, CanMerge
  <2>2. /\ mergedDependencies[pair] \in Seq(1 .. Len(s))
        /\ PastDependencies(s, id) = mergedDependencies[pair]
    BY <2>1 DEF MergedIn, PastDependencies
  <2>3. past \in 1 .. Len(s) /\ k \in DOMAIN mergedDependencies[pair]
    BY <1>4, <2>2
  <2>4. CanMerge(s[id], s[past])
    BY <1>4, <2>2 DEF MergesWith
  <2>5. s[past] \in IncompatibilityType /\ WellFormed(s[past])
    BY <1>1, <2>3 DEF GoodStore
  <2>6. IsDependency(s[past])
    BY <2>4, <2>5 DEF WellFormed, CanMerge
  <2> HIDE DEF pair, past
  <2>8. /\ merged \in IncompatibilityType /\ WellFormed(merged)
        /\ \A w \in SelectionType : SelectionSatisfies(merged.terms, w)
              => SelectionSatisfies(s[id].terms, w) \/ SelectionSatisfies(s[past].terms, w)
    BY <2>1, <2>4, <2>6, MergedWellFormed
  <2> HIDE DEF merged
  <2>9. /\ store' = Append(s, merged)
        /\ incompatibilities' =
              Register(Unregister(incompatibilities, merged.terms, past), merged.terms, new)
        /\ mergedDependencies' = [mergedDependencies EXCEPT ![pair][k] = new]
    BY <1>4 DEF ReplacePast, merged, past, pair
  <2>10. /\ store' \in Seq(IncompatibilityType) /\ Len(store') = new
         /\ store'[new] = merged /\ \A i \in 1 .. Len(s) : store'[i] = s[i]
    BY <1>1, <2>8, <2>9
  <2>11. GoodStore(store') /\ StoreExtends(s, store')
    BY <1>1, <2>8, <2>10 DEF GoodStore, StoreExtends
  <2>12. 1 .. Len(s) \subseteq 1 .. Len(store') /\ new \in 1 .. Len(store')
    BY <1>1, <2>10
  <2>13. ListsIn(incompatibilities', store')
    <3>1. incompatibilities \in [Packages -> Seq(1 .. Len(store'))]
      <4>1. \A p \in Packages : incompatibilities[p] \in Seq(1 .. Len(store'))
        BY <2>12, SeqMonotonic DEF ListsIn
      <4> QED BY <4>1 DEF ListsIn
    <3>2. IsFiniteSet(merged.terms)
      BY <2>8 DEF WellFormed
    <3> QED BY <2>9, <2>12, <3>1, <3>2, UnregisterType, RegisterType DEF ListsIn
  <2>14. MergedIn(mergedDependencies', store')
    <3>1. \A x \in Packages \X Packages : mergedDependencies[x] \in Seq(1 .. Len(store'))
      BY <2>12, SeqMonotonic DEF MergedIn
    <3>2. [mergedDependencies[pair] EXCEPT ![k] = new] \in Seq(1 .. Len(store'))
      BY <2>1, <2>3, <2>12, <3>1, ExceptSeq DEF pair
    <3> QED BY <2>9, <3>1, <3>2 DEF MergedIn
  <2>15. ASSUME NEW w \in SelectionType, Excludes(s, w)
         PROVE  Excludes(store', w)
    <3>1. ~SelectionSatisfies(s[id].terms, w) /\ ~SelectionSatisfies(s[past].terms, w)
      BY <2>3, <2>15 DEF Excludes
    <3>2. ~SelectionSatisfies(merged.terms, w)
      BY <2>8, <3>1
    <3>3. \A m \in 1 .. Len(store') : m \in 1 .. Len(s) \/ m = new
      BY <1>1, <2>10
    <3> QED BY <2>10, <2>15, <3>2, <3>3 DEF Excludes
  <2> QED BY <2>11, <2>13, <2>14, <2>15
<1> QED BY <1>3, <1>4 DEF MergeIncompatibility

-----------------------------------------------------------------------------
(* Unit propagation *)

\* A well-formed incompatibility either has one term per package, or it is a
\* self-dependency.
LEMMA WellFormedShape ==
    ASSUME NEW i \in IncompatibilityType, WellFormed(i)
    PROVE  /\ i.terms \in TermsType
           /\ \/ OneTermPerPackage(i.terms)
              \/ \E p \in Packages, v \in Versions, set \in Ranges :
                    i.terms = SelfTerms(p, v, set)
<1>1. i.terms \in TermsType
  BY DEF IncompatibilityType, TermsType
<1>2. CASE i.kind # "dependency"
  BY <1>1, <1>2 DEF WellFormed
<1>3. CASE i.kind = "dependency"
  <2>1. IsDependency(i)
    BY <1>3 DEF WellFormed
  <2>2. PICK versions \in Ranges, set \in Ranges :
            /\ i.dependency \in Packages \X Packages
            /\ i = FromDependency(i.dependency[1], versions, i.dependency[2], set)
            /\ i.dependency[1] = i.dependency[2] => \E v \in Versions : versions = {v}
    BY <2>1 DEF IsDependency
  <2> DEFINE p == i.dependency[1]
             q == i.dependency[2]
  <2>3. /\ p \in Packages /\ q \in Packages
        /\ i.terms = {<<p, Positive(versions)>>} \cup DependencyTerm(q, set)
        /\ p = q => \E v \in Versions : versions = {v}
    BY <2>2 DEF FromDependency, DependencyTerm
  <2> HIDE DEF p, q
  <2>4. CASE set = {}
    <3>1. i.terms = {<<p, Positive(versions)>>}
      BY <2>3, <2>4 DEF DependencyTerm
    <3> QED BY <1>1, <3>1 DEF OneTermPerPackage
  <2>5. CASE set # {} /\ p # q
    <3>1. i.terms = {<<p, Positive(versions)>>, <<q, Negative(set)>>}
      BY <2>3, <2>5 DEF DependencyTerm
    <3> QED BY <1>1, <2>5, <3>1 DEF OneTermPerPackage
  <2>6. CASE set # {} /\ p = q
    <3>1. PICK v \in Versions : versions = {v}
      BY <2>3, <2>6
    <3>2. i.terms = SelfTerms(p, v, set)
      BY <2>3, <2>6, <3>1 DEF DependencyTerm, SelfTerms
    <3> QED BY <1>1, <2>3, <3>2
  <2> QED BY <2>4, <2>5, <2>6
<1> QED BY <1>2, <1>3

\* What is known of a package leaves some choice, which decides the relation.
LEMMA KnownTerm ==
    ASSUME PSTypeOK, PSWellFormed, NEW p \in DOMAIN Known
    PROVE  /\ p \in DOMAIN assignments /\ Known[p] = assignments[p].term
           /\ Known[p] \in TermType
           /\ \E v \in Selections : TermContains(Known[p], v)
<1>1. p \in DOMAIN assignments /\ Known[p] = assignments[p].term
  BY DEF Known
<1>2. assignments[p].term \in TermType /\ assignments[p].term # EmptyTerm
  BY <1>1 DEF PSTypeOK, PackageAssignmentsType, PSWellFormed, HistoryWellFormed
<1> QED BY <1>1, <1>2, EmptyTermMeaning

\* An inconclusive term and its negation are both still possible.
LEMMA InconclusiveLeavesChoice ==
    ASSUME NEW t \in TermType, NEW known \in TermType, TermInconclusive(t, known)
    PROVE  Intersection(known, Negate(t)) # EmptyTerm
<1>1. ~SubsetOf(known, t)
  BY DEF TermInconclusive
<1>2. PICK v \in Selections : TermContains(known, v) /\ ~TermContains(t, v)
  BY <1>1, SubsetOfMeaning
<1>3. Negate(t) \in TermType /\ TermContains(Negate(t), v)
  BY <1>2, TermsClosed, NegateMeaning
<1>4. Intersection(known, Negate(t)) \in TermType
  BY <1>3, TermsClosed
<1>5. TermContains(Intersection(known, Negate(t)), v)
  BY <1>2, <1>3, IntersectionMeaning
<1> QED BY <1>4, <1>5, EmptyTermMeaning

\* A version that depends on its own package: once its term is satisfied, the
\* other one is decided.
LEMMA SelfTermKnown ==
    ASSUME NEW v \in Versions, NEW set \in Ranges, NEW known \in TermType,
           \E u \in Selections : TermContains(known, u)
    PROVE  /\ TermSatisfied(Positive({v}), known) => ~TermInconclusive(Negative(set), known)
           /\ /\ TermSatisfied(Negative(set), known)
              /\ TermSatisfied(Positive({v}), known) \/ TermInconclusive(Positive({v}), known)
              => v \notin set
<1>1. Positive({v}) \in TermType /\ Negative(set) \in TermType
  BY DEF TermType, Positive, Negative, Ranges
<1>2. \A u \in Selections : /\ TermContains(Positive({v}), u) <=> u = v
                            /\ TermContains(Negative(set), u) <=> u \notin set
  BY DEF TermContains, Positive, Negative
<1>3. v \in Selections
  BY DEF Selections
<1>4. ASSUME TermSatisfied(Positive({v}), known)
      PROVE  ~TermInconclusive(Negative(set), known) /\ TermContains(known, v)
  <2>1. \A u \in Selections : TermContains(known, u) => u = v
    BY <1>1, <1>2, <1>4, SubsetOfMeaning DEF TermSatisfied
  <2>2. TermContains(known, v)
    BY <2>1
  <2>3. v \notin set => SubsetOf(known, Negative(set))
    BY <1>1, <1>2, <2>1, SubsetOfMeaning
  <2>4. v \in set => IsDisjoint(Negative(set), known)
    BY <1>1, <1>2, <2>1, IsDisjointMeaning
  <2> QED BY <2>2, <2>3, <2>4 DEF TermInconclusive
<1>5. ASSUME TermInconclusive(Positive({v}), known)
      PROVE  TermContains(known, v)
  <2>1. ~IsDisjoint(Positive({v}), known)
    BY <1>5 DEF TermInconclusive
  <2> QED BY <1>1, <1>2, <2>1, IsDisjointMeaning
<1>6. ASSUME TermSatisfied(Negative(set), known), TermContains(known, v)
      PROVE  v \notin set
  BY <1>1, <1>2, <1>3, <1>6, SubsetOfMeaning DEF TermSatisfied
<1> QED BY <1>4, <1>5, <1>6

\* A satisfied incompatibility may be resolved.
LEMMA SatisfiedResolvable ==
    ASSUME PSTypeOK, PSWellFormed,
           NEW i \in IncompatibilityType, WellFormed(i), Satisfied(i.terms, Known)
    PROVE  Resolvable(i.terms)
<1>1. ASSUME NEW p \in Packages, NEW v \in Versions, NEW set \in Ranges,
             i.terms = SelfTerms(p, v, set)
      PROVE  Resolvable(i.terms)
  <2>1. /\ p \in DOMAIN Known
        /\ TermSatisfied(Positive({v}), Known[p])
        /\ TermSatisfied(Negative(set), Known[p])
    BY <1>1 DEF Satisfied, EntrySatisfied, SelfTerms
  <2>2. v \notin set
    BY <2>1, KnownTerm, SelfTermKnown
  <2> QED BY <1>1, <2>2 DEF Resolvable, Ranges
<1> QED BY <1>1, WellFormedShape DEF Resolvable

\* Deriving the negation of the one term of an incompatibility that is not
\* satisfied: get finds that very term, and the package keeps some choice.
LEMMA AlmostSatisfiedReady ==
    ASSUME PSTypeOK, PSWellFormed,
           NEW i \in IncompatibilityType, WellFormed(i),
           NEW x, AlmostSatisfiedBy(i.terms, Known, x)
    PROVE  /\ Resolvable(i.terms)
           /\ x[1] \in IncompatPackages(i.terms) /\ x[1] \in Packages
           /\ Get(i.terms, x[1]) = x[2] /\ x[2] # AnyTerm
           /\ x[1] \in DOMAIN assignments =>
                 Intersection(assignments[x[1]].term, Negate(Get(i.terms, x[1]))) # EmptyTerm
<1>1. /\ x \in i.terms /\ EntryInconclusive(x, Known)
      /\ \A y \in i.terms \ {x} : EntrySatisfied(y, Known)
  BY DEF AlmostSatisfiedBy
<1>2. i.terms \in TermsType /\ x \in Packages \X TermType /\ x[2] # AnyTerm
  BY <1>1, WellFormedShape DEF TermsType, WellFormed
<1>3. Resolvable(i.terms) /\ Get(i.terms, x[1]) = x[2]
  <2>1. CASE OneTermPerPackage(i.terms)
    BY <1>1, <1>2, <2>1, GetOnly DEF Resolvable
  <2>2. ASSUME NEW p \in Packages, NEW v \in Versions, NEW set \in Ranges,
               i.terms = SelfTerms(p, v, set)
        PROVE  Resolvable(i.terms) /\ Get(i.terms, x[1]) = x[2]
    <3> DEFINE plus == <<p, Positive({v})>>
               minus == <<p, Negative(set)>>
    <3>1. i.terms = {plus, minus} /\ plus # minus
      BY <2>2 DEF SelfTerms, Positive, Negative
    <3>2. plus[1] = p /\ plus[2] = Positive({v}) /\ minus[1] = p /\ minus[2] = Negative(set)
      OBVIOUS
    <3> HIDE DEF plus, minus
    <3>3. ~(x = minus)
      <4>1. SUFFICES ASSUME x = minus PROVE FALSE
        OBVIOUS
      <4>2. EntrySatisfied(plus, Known) /\ EntryInconclusive(minus, Known)
        BY <1>1, <3>1, <4>1
      <4>3. p \in DOMAIN Known /\ TermSatisfied(Positive({v}), Known[p])
        BY <3>2, <4>2 DEF EntrySatisfied
      <4>4. TermInconclusive(Negative(set), Known[p])
        BY <3>2, <4>2, <4>3 DEF EntryInconclusive
      <4> QED BY <4>3, <4>4, KnownTerm, SelfTermKnown
    <3>4. x = plus
      BY <1>1, <3>1, <3>3
    <3>5. EntrySatisfied(minus, Known) /\ EntryInconclusive(plus, Known)
      BY <1>1, <3>1, <3>4
    <3>6. p \in DOMAIN Known /\ TermSatisfied(Negative(set), Known[p])
      BY <3>2, <3>5 DEF EntrySatisfied
    <3>7. TermInconclusive(Positive({v}), Known[p])
      BY <3>2, <3>5, <3>6 DEF EntryInconclusive
    <3>8. v \notin set
      BY <3>6, <3>7, KnownTerm, SelfTermKnown
    <3>9. Resolvable(i.terms)
      BY <2>2, <3>8 DEF Resolvable, Ranges
    <3>10. Get(i.terms, p) = Positive({v})
      BY <2>2, GetSelf DEF Ranges
    <3> QED BY <3>2, <3>4, <3>9, <3>10
  <2> QED BY <2>1, <2>2, WellFormedShape
<1>4. x[1] \in IncompatPackages(i.terms)
  BY <1>1 DEF IncompatPackages
<1>5. ASSUME x[1] \in DOMAIN assignments
      PROVE  Intersection(assignments[x[1]].term, Negate(x[2])) # EmptyTerm
  <2>1. x[1] \in DOMAIN Known
    BY <1>5 DEF Known
  <2>2. TermInconclusive(x[2], Known[x[1]])
    BY <1>1, <2>1 DEF EntryInconclusive
  <2>3. x[2] \in TermType
    BY <1>2
  <2> QED BY <2>1, <2>2, <2>3, KnownTerm, InconclusiveLeavesChoice
<1> QED BY <1>2, <1>3, <1>4, <1>5

-----------------------------------------------------------------------------
(* satisfier_search *)

\* A nonempty set of positions has a first one.
LEMMA FirstPosition ==
    ASSUME NEW S \in SUBSET Nat, S # {}
    PROVE  LET first == CHOOSE i \in S : \A j \in S : i <= j
           IN  first \in S /\ \A j \in S : first <= j
<1>1. PICK k \in S : \A y \in S : ~(<<y, k>> \in OpToRel(<, Nat))
  BY WFMin, NatLessThanWellFounded
<1>2. \A y \in S : ~(y < k)
  BY <1>1 DEF OpToRel
<1>3. \A y \in S : k <= y
  BY <1>2
<1> QED BY <1>3

\* What a satisfier is made of.
SatisfiedByDerivation(s, a, start, i) ==
    /\ s.cause = a.dated[i].cause
    /\ s.index = a.dated[i].index
    /\ s.level = a.dated[i].level
    /\ IsDisjoint(a.dated[i].term, start)
    /\ \A j \in DOMAIN a.dated : j < i => ~IsDisjoint(a.dated[j].term, start)

SatisfiedByDecision(s, a, start) ==
    /\ s.cause = NoCause
    /\ s.index = a.index
    /\ s.level = a.highest
    /\ \A j \in DOMAIN a.dated : ~IsDisjoint(a.dated[j].term, start)

\* A satisfier is the first derivation that is enough, or else the decision.
LEMMA SatisfierMeaning ==
    ASSUME PSTypeOK, NEW p \in DOMAIN assignments, NEW start
    PROVE  /\ Satisfier(p, start) \in SatisfierType
           /\ Satisfier(p, start).package = p
           /\ \/ \E i \in DOMAIN assignments[p].dated :
                    SatisfiedByDerivation(Satisfier(p, start), assignments[p], start, i)
              \/ SatisfiedByDecision(Satisfier(p, start), assignments[p], start)
<1> DEFINE a == assignments[p]
           found == SatisfyingDerivations(a, start)
           first == CHOOSE i \in found : \A j \in found : i <= j
           s == Satisfier(p, start)
<1>1. /\ p \in Packages /\ a \in PackageAssignmentsType
      /\ a.dated \in Seq(DatedDerivationType) /\ a.highest \in Nat /\ a.index \in Nat
  BY DEF PSTypeOK, PackageAssignmentsType
<1>2. found \in SUBSET Nat /\ found \subseteq DOMAIN a.dated
  BY <1>1 DEF SatisfyingDerivations
<1>3. CASE found # {}
  <2> HIDE DEF found
  <2>1. first \in found /\ \A j \in found : first <= j
    BY <1>2, <1>3, FirstPosition
  <2>2. s = SatisfierEntry(p, a.dated[first].cause, a.dated[first].index, a.dated[first].level)
    BY <1>3 DEF Satisfier, found
  <2> HIDE DEF first, s
  <2>3. first \in DOMAIN a.dated /\ a.dated[first] \in DatedDerivationType
    BY <1>1, <1>2, <2>1
  <2>4. /\ s \in SatisfierType /\ s.package = p
        /\ s.cause = a.dated[first].cause /\ s.level = a.dated[first].level
        /\ s.index = a.dated[first].index
    BY <1>1, <2>2, <2>3 DEF SatisfierEntry, SatisfierType, DatedDerivationType
  <2>5. \A j \in DOMAIN a.dated : j < first => ~IsDisjoint(a.dated[j].term, start)
    <3>1. \A j \in DOMAIN a.dated : IsDisjoint(a.dated[j].term, start) => j \in found
      BY DEF found, SatisfyingDerivations
    <3>2. first \in Nat /\ \A j \in DOMAIN a.dated : j \in Nat
      BY <1>1, <2>3
    <3> QED BY <2>1, <3>1, <3>2
  <2>6. IsDisjoint(a.dated[first].term, start)
    BY <2>1 DEF found, SatisfyingDerivations
  <2>7. SatisfiedByDerivation(s, a, start, first)
    BY <2>4, <2>5, <2>6 DEF SatisfiedByDerivation
  <2> QED BY <2>3, <2>4, <2>7 DEF s
<1>4. CASE found = {}
  <2>1. s = SatisfierEntry(p, NoCause, a.index, a.highest)
    BY <1>4 DEF Satisfier
  <2>2. \A j \in DOMAIN a.dated : ~IsDisjoint(a.dated[j].term, start)
    BY <1>4 DEF SatisfyingDerivations
  <2> HIDE DEF s, found
  <2>3. /\ s \in SatisfierType /\ s.package = p
        /\ s.cause = NoCause /\ s.level = a.highest /\ s.index = a.index
    BY <1>1, <2>1 DEF SatisfierEntry, SatisfierType, NoCause
  <2>4. SatisfiedByDecision(s, a, start)
    BY <2>2, <2>3 DEF SatisfiedByDecision
  <2> QED BY <2>3, <2>4 DEF s
<1> QED BY <1>3, <1>4

\* The satisfied map holds the satisfiers of the packages mentioned.
LEMMA SatisfiedMapMeaning ==
    ASSUME PSTypeOK, NEW terms, HasSatisfiers(terms), NEW s \in SatisfiedMap(terms)
    PROVE  /\ s \in SatisfierType
           /\ s.package \in IncompatPackages(terms)
           /\ s.package \in DOMAIN assignments
           /\ s = Satisfier(s.package, Negate(GetLast(terms, s.package)))
<1>1. PICK p \in IncompatPackages(terms) : s = Satisfier(p, Negate(GetLast(terms, p)))
  BY DEF SatisfiedMap
<1>2. p \in DOMAIN assignments
  BY DEF HasSatisfiers
<1>3. s \in SatisfierType /\ s.package = p
  BY <1>1, <1>2, SatisfierMeaning
<1> QED BY <1>1, <1>2, <1>3

\* The level to backtrack to is a level.
LEMMA PreviousLevelType ==
    ASSUME PSTypeOK, NEW terms, HasSatisfiers(terms), NEW s \in SatisfiedMap(terms),
           NEW previous \in PreviousMap(store, terms, s)
    PROVE  PreviousLevel(previous) \in Nat \ {0}
<1>1. previous \in SatisfierType
  <2>1. CASE previous \in SatisfiedMap(terms)
    BY <2>1, SatisfiedMapMeaning
  <2>2. CASE previous = Satisfier(s.package, PreviousStart(store, terms, s))
    BY <2>2, SatisfiedMapMeaning, SatisfierMeaning
  <2> QED BY <2>1, <2>2 DEF PreviousMap
<1>2. previous.level \in Nat
  BY <1>1 DEF SatisfierType
<1> QED BY <1>2 DEF PreviousLevel

\* The cause of a satisfier is an incompatibility of its package.
LEMMA SatisfierCause ==
    ASSUME PSTypeOK, CausesIn(store), NEW terms, HasSatisfiers(terms),
           NEW s \in SatisfiedMap(terms), s.cause # NoCause
    PROVE  /\ s.cause \in Ids
           /\ s.package \in IncompatPackages(store[s.cause].terms)
           /\ Resolvable(store[s.cause].terms)
<1> DEFINE p == s.package
           start == Negate(GetLast(terms, s.package))
<1>1. s = Satisfier(p, start) /\ p \in DOMAIN assignments
  BY SatisfiedMapMeaning
<1> HIDE DEF p, start
<1>2. PICK i \in DOMAIN assignments[p].dated :
          SatisfiedByDerivation(s, assignments[p], start, i)
  BY <1>1, SatisfierMeaning DEF SatisfiedByDecision
<1>3. s.cause = assignments[p].dated[i].cause
  BY <1>2 DEF SatisfiedByDerivation
<1>4. CausesResolvable(p, assignments[p], store)
  BY <1>1 DEF CausesIn
<1> QED BY <1>3, <1>4 DEF CausesResolvable, Ids, p

\* A package cut back to before its satisfier is no longer known to contradict
\* the negation of the term it satisfied.
LEMMA CutBeforeSatisfier ==
    ASSUME PSTypeOK, PSWellFormed, NEW terms, HasSatisfiers(terms),
           NEW s \in SatisfiedMap(terms), NEW level \in Nat, level < s.level,
           assignments[s.package].smallest <= level
    PROVE  LET b == BacktrackedAssignment(assignments[s.package], level)
           IN  /\ b.term \in TermType
               /\ ~IsDisjoint(b.term, Negate(GetLast(terms, s.package)))
<1> DEFINE p == s.package
           start == Negate(GetLast(terms, s.package))
           a == assignments[p]
           n == KeptDerivations(a.dated, level)
           b == BacktrackedAssignment(a, level)
<1>1. p \in DOMAIN assignments /\ s = Satisfier(p, start) /\ s \in SatisfierType
  BY SatisfiedMapMeaning
<1>2. a \in PackageAssignmentsType /\ HistoryWellFormed(a, currentDecisionLevel)
  BY <1>1 DEF PSTypeOK, PSWellFormed
<1>3. /\ \/ \E i \in DOMAIN a.dated : SatisfiedByDerivation(s, a, start, i)
         \/ SatisfiedByDecision(s, a, start)
  <2> HIDE DEF p, start
  <2> QED BY <1>1, SatisfierMeaning
<1>4. currentDecisionLevel \in Nat /\ a.smallest <= level /\ level \in Nat
  BY DEF PSTypeOK
<1> HIDE DEF p, start, a
<1>5. /\ a.highest \in Nat /\ s.level \in Nat
      /\ a.dated \in Seq(DatedDerivationType)
      /\ \A i \in DOMAIN a.dated : a.dated[i].level \in Nat /\ a.dated[i].term \in TermType
      /\ DOMAIN a.dated \subseteq Nat
  <2>1. a.dated \in Seq(DatedDerivationType)
    BY <1>2 DEF PackageAssignmentsType
  <2>2. a.highest \in Nat /\ s.level \in Nat
    BY <1>1, <1>2 DEF PackageAssignmentsType, SatisfierType
  <2>3. ASSUME NEW i \in DOMAIN a.dated
        PROVE  i \in Nat /\ a.dated[i].level \in Nat /\ a.dated[i].term \in TermType
    <3>1. i \in Nat /\ a.dated[i] \in DatedDerivationType
      BY <2>1
    <3> QED BY <3>1 DEF DatedDerivationType
  <2> QED BY <2>1, <2>2, <2>3
<1>6. s.level <= a.highest
  <2>1. CASE SatisfiedByDecision(s, a, start)
    BY <1>5, <2>1 DEF SatisfiedByDecision
  <2>2. ASSUME NEW i \in DOMAIN a.dated, SatisfiedByDerivation(s, a, start, i)
        PROVE  s.level <= a.highest
    BY <1>2, <2>2 DEF SatisfiedByDerivation, HistoryWellFormed
  <2> QED BY <1>3, <2>1, <2>2
<1>7. b = Truncate(a, level)
  <2>1. ~(a.highest <= level)
    BY <1>4, <1>5, <1>6
  <2> QED BY <2>1 DEF BacktrackedAssignment
<1>8. /\ n \in DOMAIN a.dated /\ a.dated[n].level <= level
      /\ Truncate(a, level).term = a.dated[n].term
  BY <1>2, <1>4, TruncateWellFormed
<1> HIDE DEF n, b
<1>9. ~IsDisjoint(a.dated[n].term, start)
  <2>1. CASE SatisfiedByDecision(s, a, start)
    BY <1>8, <2>1 DEF SatisfiedByDecision
  <2>2. ASSUME NEW i \in DOMAIN a.dated, SatisfiedByDerivation(s, a, start, i)
        PROVE  ~IsDisjoint(a.dated[n].term, start)
    <3>1. a.dated[n].level < a.dated[i].level
      BY <1>4, <1>5, <1>8, <2>2 DEF SatisfiedByDerivation
    <3>2. ~(i <= n)
      BY <1>2, <1>5, <1>8, <3>1 DEF HistoryWellFormed
    <3>3. n < i
      BY <1>5, <1>8, <3>2
    <3> QED BY <1>8, <2>2, <3>3 DEF SatisfiedByDerivation
  <2> QED BY <1>3, <2>1, <2>2
<1>10. b.term = a.dated[n].term /\ b.term \in TermType
  BY <1>5, <1>7, <1>8
<1> QED BY <1>9, <1>10 DEF b, a, p, start

\* Not yet disjoint with the last term of the package, what is known of it
\* leaves a choice outside the first one.
LEMMA NotDisjointLeavesChoice ==
    ASSUME NEW terms \in TermsType, Resolvable(terms),
           NEW p \in IncompatPackages(terms), NEW known \in TermType,
           ~IsDisjoint(known, Negate(GetLast(terms, p)))
    PROVE  Intersection(known, Negate(Get(terms, p))) # EmptyTerm
<1> DEFINE last == GetLast(terms, p)
           get == Get(terms, p)
<1>1. last \in TermType /\ get \in TermType /\ <<p, last>> \in terms /\ <<p, get>> \in terms
  BY GetFinds
<1>2. \A u \in Selections : TermContains(Negate(last), u) => TermContains(Negate(get), u)
  <2>1. CASE OneTermPerPackage(terms)
    <3>1. <<p, last>> = <<p, get>>
      BY <1>1, <2>1 DEF OneTermPerPackage
    <3> QED BY <3>1
  <2>2. ASSUME NEW q \in Packages, NEW v \in Versions, NEW set \in SUBSET Versions,
               terms = SelfTerms(q, v, set), v \notin set
        PROVE  \A u \in Selections : TermContains(Negate(last), u) => TermContains(Negate(get), u)
    <3>1. p = q /\ get = Positive({v}) /\ last = Negative(set)
      BY <2>2, GetSelf
    <3>2. Negate(get) = Negative({v}) /\ Negate(last) = Positive(set)
      BY <3>1 DEF Negate, Positive, Negative
    <3> QED BY <2>2, <3>2 DEF TermContains, Positive, Negative
  <2> QED BY <2>1, <2>2 DEF Resolvable
<1> HIDE DEF last, get
<1>3. Negate(last) \in TermType /\ Negate(get) \in TermType
  BY <1>1, TermsClosed
<1>4. PICK u \in Selections : TermContains(known, u) /\ TermContains(Negate(last), u)
  BY <1>3, IsDisjointMeaning DEF last
<1>5. TermContains(Intersection(known, Negate(get)), u)
  BY <1>2, <1>3, <1>4, IntersectionMeaning
<1>6. Intersection(known, Negate(get)) \in TermType
  BY <1>3, TermsClosed
<1> QED BY <1>5, <1>6, EmptyTermMeaning DEF get
=============================================================================
