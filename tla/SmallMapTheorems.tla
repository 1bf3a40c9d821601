---------------------------- MODULE SmallMapTheorems ----------------------------
(***************************************************************************)
(* SmallMap is a map, in each of its representations and through each      *)
(* change from one to another; and prior_cause on it, entry by entry and   *)
(* in any order, is the rule of resolution.                                *)
(***************************************************************************)
EXTENDS PriorCause, FiniteSetTheorems, SequenceTheorems, TLAPS

-----------------------------------------------------------------------------
(* The representations *)

OneEntry(x)      == Map!Inline(<<x>>)
TwoEntries(x, y) == Map!Inline(<<x, y>>)

\* A map from packages to values that holds no key twice.
Proper(m, values) ==
    \/ m = Map!Empty
    \/ \E x \in Packages \X values : m = OneEntry(x)
    \/ \E x, y \in Packages \X values : x[1] # y[1] /\ m = TwoEntries(x, y)
    \/ \E set \in SUBSET Packages : \E f \in [set -> values] : m = Map!Flexible(f)

\* What get finds in each of them.
LEMMA GetInline ==
    ASSUME NEW entries, NEW k
    PROVE  /\ Map!Get(Map!Inline(entries), k)
                  = {entries[i][2] : i \in Map!PositionsOf(Map!Inline(entries), k)}
           /\ \A i : i \in Map!PositionsOf(Map!Inline(entries), k) <=>
                  /\ i \in DOMAIN entries /\ entries[i][1] = k
                  /\ \A j \in 1 .. i - 1 : entries[j][1] # k
<1>1. PICK m : m = Map!Inline(entries)
  OBVIOUS
<1>2. m.inline = entries /\ m.data = << >>
  BY <1>1 DEF Map!Inline
<1>3. DOMAIN m.data = {}
  BY <1>2
<1>4. Map!Get(m, k) = {entries[i][2] : i \in Map!PositionsOf(m, k)}
  BY <1>2, <1>3 DEF Map!Get
<1>5. \A i : i \in Map!PositionsOf(m, k) <=>
          /\ i \in DOMAIN entries /\ entries[i][1] = k
          /\ \A j \in 1 .. i - 1 : entries[j][1] # k
  BY <1>2 DEF Map!PositionsOf
<1> QED BY <1>1, <1>4, <1>5

LEMMA GetEmpty == \A k : Map!Get(Map!Empty, k) = {} /\ Map!PositionsOf(Map!Empty, k) = {}
<1> SUFFICES ASSUME NEW k PROVE Map!Get(Map!Empty, k) = {} /\ Map!PositionsOf(Map!Empty, k) = {}
  OBVIOUS
<1>1. Map!Empty = Map!Inline(<< >>)
  BY DEF Map!Empty
<1>2. Map!PositionsOf(Map!Empty, k) = {}
  BY <1>1, GetInline
<1> QED BY <1>1, <1>2, GetInline

LEMMA GetOne ==
    ASSUME NEW x, NEW k
    PROVE  /\ Map!PositionsOf(OneEntry(x), k) = IF x[1] = k THEN {1} ELSE {}
           /\ Map!Get(OneEntry(x), k) = IF x[1] = k THEN {x[2]} ELSE {}
<1>1. PICK e : e = <<x>>
  OBVIOUS
<1>2. DOMAIN e = {1} /\ e[1] = x
  BY <1>1
<1>3. \A i : i \in Map!PositionsOf(OneEntry(x), k) <=> i = 1 /\ x[1] = k
  BY <1>1, <1>2, GetInline DEF OneEntry
<1>4. Map!Get(OneEntry(x), k) = {e[i][2] : i \in Map!PositionsOf(OneEntry(x), k)}
  BY <1>1, GetInline DEF OneEntry
<1> QED BY <1>2, <1>3, <1>4

LEMMA GetTwo ==
    ASSUME NEW x, NEW y, NEW k
    PROVE  /\ Map!PositionsOf(TwoEntries(x, y), k)
                 = IF x[1] = k THEN {1} ELSE IF y[1] = k THEN {2} ELSE {}
           /\ Map!Get(TwoEntries(x, y), k)
                 = IF x[1] = k THEN {x[2]} ELSE IF y[1] = k THEN {y[2]} ELSE {}
<1>1. PICK e : e = <<x, y>>
  OBVIOUS
<1>2. DOMAIN e = {1, 2} /\ e[1] = x /\ e[2] = y
  BY <1>1
<1>3. \A i : i \in Map!PositionsOf(TwoEntries(x, y), k) <=>
                (i = 1 /\ x[1] = k) \/ (i = 2 /\ y[1] = k /\ x[1] # k)
  <2>1. \A i : i \in Map!PositionsOf(TwoEntries(x, y), k) <=>
            i \in {1, 2} /\ e[i][1] = k /\ \A j \in 1 .. i - 1 : e[j][1] # k
    BY <1>1, <1>2, GetInline DEF TwoEntries
  <2>2. 1 .. 1 - 1 = {} /\ 1 .. 2 - 1 = {1}
    OBVIOUS
  <2> QED BY <1>2, <2>1, <2>2
<1>4. Map!Get(TwoEntries(x, y), k) = {e[i][2] : i \in Map!PositionsOf(TwoEntries(x, y), k)}
  BY <1>1, GetInline DEF TwoEntries
<1>5. CASE x[1] = k
  <2>1. Map!PositionsOf(TwoEntries(x, y), k) = {1}
    BY <1>3, <1>5
  <2> QED BY <1>2, <1>4, <1>5, <2>1
<1>6. CASE x[1] # k /\ y[1] = k
  <2>1. Map!PositionsOf(TwoEntries(x, y), k) = {2}
    BY <1>3, <1>6
  <2> QED BY <1>2, <1>4, <1>6, <2>1
<1>7. CASE x[1] # k /\ y[1] # k
  <2>1. Map!PositionsOf(TwoEntries(x, y), k) = {}
    BY <1>3, <1>7
  <2> QED BY <1>4, <1>7, <2>1
<1> QED BY <1>5, <1>6, <1>7

LEMMA GetFlexible ==
    ASSUME NEW f, NEW k
    PROVE  /\ Map!PositionsOf(Map!Flexible(f), k) = {}
           /\ Map!Get(Map!Flexible(f), k) = IF k \in DOMAIN f THEN {f[k]} ELSE {}
<1>1. PICK m : m = Map!Flexible(f)
  OBVIOUS
<1>2. m.inline = << >> /\ m.data = f
  BY <1>1 DEF Map!Flexible
<1>3. DOMAIN m.inline = {}
  BY <1>2
<1>4. Map!PositionsOf(m, k) = {}
  BY <1>3 DEF Map!PositionsOf
<1>5. Map!Get(m, k) = {f[j] : j \in DOMAIN f \cap {k}}
  BY <1>2, <1>4 DEF Map!Get
<1> QED BY <1>1, <1>4, <1>5

\* A proper map has one value for a key, or none.
LEMMA GetProper ==
    ASSUME NEW values, NEW m, Proper(m, values), NEW k
    PROVE  Map!Get(m, k) = {} \/ (k \in Packages /\ \E v \in values : Map!Get(m, k) = {v})
<1>1. CASE m = Map!Empty
  BY <1>1, GetEmpty
<1>2. CASE \E x \in Packages \X values : m = OneEntry(x)
  BY <1>2, GetOne
<1>3. CASE \E x, y \in Packages \X values : x[1] # y[1] /\ m = TwoEntries(x, y)
  BY <1>3, GetTwo
<1>4. CASE \E set \in SUBSET Packages : \E f \in [set -> values] : m = Map!Flexible(f)
  BY <1>4, GetFlexible
<1> QED BY <1>1, <1>2, <1>3, <1>4 DEF Proper

-----------------------------------------------------------------------------
(* The methods that change a map *)

\* What get answers afterwards.
Answers(m, n, k, found) == \A j : Map!Get(n, j) = IF j = k THEN found ELSE Map!Get(m, j)

\* An assignment through get_mut to a key that is there.
LEMMA AssignOne ==
    ASSUME NEW x, NEW k, NEW v
    PROVE  Map!Assign(OneEntry(x), k, v) = OneEntry(IF x[1] = k THEN <<k, v>> ELSE x)
<1>1. PICK y : y = IF x[1] = k THEN <<k, v>> ELSE x
  OBVIOUS
<1>2. PICK e : e = [i \in DOMAIN <<x>> |->
                       IF i \in Map!PositionsOf(OneEntry(x), k) THEN <<k, v>> ELSE <<x>>[i]]
  OBVIOUS
<1>3. e = <<y>>
  <2>1. 1 \in Map!PositionsOf(OneEntry(x), k) <=> x[1] = k
    BY GetOne
  <2> QED BY <1>1, <1>2, <2>1
<1>4. Map!Assign(OneEntry(x), k, v) = Map!Inline(e)
  <2>1. OneEntry(x).inline = <<x>> /\ ~OneEntry(x).flexible
    BY DEF OneEntry, Map!Inline
  <2> QED BY <1>2, <2>1 DEF Map!Assign
<1> QED BY <1>1, <1>3, <1>4 DEF OneEntry

LEMMA AssignTwo ==
    ASSUME NEW x, NEW y, NEW k, NEW v
    PROVE  /\ x[1] = k => Map!Assign(TwoEntries(x, y), k, v) = TwoEntries(<<k, v>>, y)
           /\ x[1] # k /\ y[1] = k => Map!Assign(TwoEntries(x, y), k, v) = TwoEntries(x, <<k, v>>)
<1>1. PICK u : u = <<k, v>>
  OBVIOUS
<1>2. PICK e : e = [i \in DOMAIN <<x, y>> |->
                       IF i \in Map!PositionsOf(TwoEntries(x, y), k) THEN u ELSE <<x, y>>[i]]
  OBVIOUS
<1>3. Map!Assign(TwoEntries(x, y), k, v) = Map!Inline(e)
  <2>1. TwoEntries(x, y).inline = <<x, y>> /\ ~TwoEntries(x, y).flexible
    BY DEF TwoEntries, Map!Inline
  <2> QED BY <1>1, <1>2, <2>1 DEF Map!Assign
<1>4. CASE x[1] = k
  <2>1. Map!PositionsOf(TwoEntries(x, y), k) = {1}
    BY <1>4, GetTwo
  <2>2. e = <<u, y>>
    BY <1>2, <2>1
  <2> QED BY <1>1, <1>3, <1>4, <2>2 DEF TwoEntries
<1>5. CASE x[1] # k /\ y[1] = k
  <2>1. Map!PositionsOf(TwoEntries(x, y), k) = {2}
    BY <1>5, GetTwo
  <2>2. e = <<x, u>>
    BY <1>2, <2>1
  <2> QED BY <1>1, <1>3, <1>5, <2>2 DEF TwoEntries
<1>6. CASE x[1] # k /\ y[1] # k
  BY <1>6
<1> QED BY <1>4, <1>5, <1>6

LEMMA AssignProper ==
    ASSUME NEW values, NEW m, Proper(m, values), NEW k \in Packages, Map!HasKey(m, k),
           NEW v \in values
    PROVE  Proper(Map!Assign(m, k, v), values) /\ Answers(m, Map!Assign(m, k, v), k, {v})
<1>0. PICK u : u = <<k, v>>
  OBVIOUS
<1>1. u \in Packages \X values /\ u[1] = k /\ u[2] = v
  BY <1>0
<1>2. CASE m = Map!Empty
  BY <1>2, GetEmpty DEF Map!HasKey
<1>3. CASE \E x \in Packages \X values : m = OneEntry(x)
  <2>1. PICK x \in Packages \X values : m = OneEntry(x)
    BY <1>3
  <2>2. x[1] = k
    BY <2>1, GetOne DEF Map!HasKey
  <2>3. Map!Assign(m, k, v) = OneEntry(u)
    BY <1>0, <2>1, <2>2, AssignOne
  <2>4. Answers(m, OneEntry(u), k, {v})
    BY <1>1, <2>1, <2>2, GetOne DEF Answers
  <2> QED BY <1>1, <2>3, <2>4 DEF Proper
<1>4. CASE \E x, y \in Packages \X values : x[1] # y[1] /\ m = TwoEntries(x, y)
  <2>1. PICK x, y \in Packages \X values : x[1] # y[1] /\ m = TwoEntries(x, y)
    BY <1>4
  <2>2. x[1] = k \/ (x[1] # k /\ y[1] = k)
    BY <2>1, GetTwo DEF Map!HasKey
  <2>3. CASE x[1] = k
    <3>1. Map!Assign(m, k, v) = TwoEntries(u, y)
      BY <1>0, <2>1, <2>3, AssignTwo
    <3>2. Answers(m, TwoEntries(u, y), k, {v})
      BY <1>1, <2>1, <2>3, GetTwo DEF Answers
    <3> QED BY <1>1, <2>1, <2>3, <3>1, <3>2 DEF Proper
  <2>4. CASE x[1] # k /\ y[1] = k
    <3>1. Map!Assign(m, k, v) = TwoEntries(x, u)
      BY <1>0, <2>1, <2>4, AssignTwo
    <3>2. ASSUME NEW j
          PROVE  Map!Get(TwoEntries(x, u), j) = IF j = k THEN {v} ELSE Map!Get(m, j)
      <4>1. Map!Get(TwoEntries(x, u), j) = IF x[1] = j THEN {x[2]} ELSE IF k = j THEN {v} ELSE {}
        BY <1>1, GetTwo
      <4>2. Map!Get(m, j) = IF x[1] = j THEN {x[2]} ELSE IF k = j THEN {y[2]} ELSE {}
        BY <2>1, <2>4, GetTwo
      <4> QED BY <2>4, <4>1, <4>2
    <3>3. Answers(m, TwoEntries(x, u), k, {v})
      BY <3>2 DEF Answers
    <3> QED BY <1>1, <2>1, <2>4, <3>1, <3>3 DEF Proper
  <2> QED BY <2>2, <2>3, <2>4
<1>5. CASE \E set \in SUBSET Packages : \E f \in [set -> values] : m = Map!Flexible(f)
  <2>0. PICK set \in SUBSET Packages : \E f \in [set -> values] : m = Map!Flexible(f)
    BY <1>5
  <2>1. PICK f \in [set -> values] : m = Map!Flexible(f)
    BY <2>0
  <2>2. PICK g : g = [j \in DOMAIN f |-> IF j = k THEN v ELSE f[j]]
    OBVIOUS
  <2>3. g \in [set -> values] /\ k \in set /\ g[k] = v /\ \A j \in set : j # k => g[j] = f[j]
    <3>1. k \in DOMAIN f
      BY <2>1, GetFlexible DEF Map!HasKey
    <3> QED BY <2>2, <3>1
  <2>4. Map!Assign(m, k, v) = Map!Flexible(g)
    <3>1. m.flexible /\ m.data = f
      BY <2>1 DEF Map!Flexible
    <3> QED BY <2>2, <3>1 DEF Map!Assign
  <2>5. Answers(m, Map!Flexible(g), k, {v})
    BY <2>1, <2>3, GetFlexible DEF Answers
  <2> QED BY <2>3, <2>4, <2>5 DEF Proper
<1> QED BY <1>2, <1>3, <1>4, <1>5 DEF Proper

\* And to one that is not.
LEMMA AssignNone ==
    ASSUME NEW values, NEW m, Proper(m, values), NEW k, ~Map!HasKey(m, k), NEW v
    PROVE  Map!Assign(m, k, v) = m
<1>0. PICK u : u = <<k, v>>
  OBVIOUS
<1>1. ASSUME NEW e, m = Map!Inline(e),
             e = [i \in DOMAIN e |-> e[i]], Map!PositionsOf(m, k) = {}
      PROVE  Map!Assign(m, k, v) = m
  <2>1. ~m.flexible /\ m.inline = e
    BY <1>1 DEF Map!Inline
  <2>2. [i \in DOMAIN e |-> IF i \in Map!PositionsOf(m, k) THEN u ELSE e[i]] = e
    BY <1>1
  <2> QED BY <1>0, <1>1, <2>1, <2>2 DEF Map!Assign
<1>2. CASE m = Map!Empty
  <2>1. PICK e : e = << >>
    OBVIOUS
  <2>2. e = [i \in DOMAIN e |-> e[i]] /\ m = Map!Inline(e)
    BY <1>2, <2>1 DEF Map!Empty
  <2> QED BY <1>1, <1>2, <2>2, GetEmpty
<1>3. CASE \E x \in Packages \X values : m = OneEntry(x)
  <2>1. PICK x \in Packages \X values : m = OneEntry(x)
    BY <1>3
  <2>2. PICK e : e = <<x>>
    OBVIOUS
  <2>3. e = [i \in DOMAIN e |-> e[i]] /\ m = Map!Inline(e)
    BY <2>1, <2>2 DEF OneEntry
  <2>4. Map!PositionsOf(m, k) = {}
    BY <2>1, GetOne DEF Map!HasKey
  <2> QED BY <1>1, <2>3, <2>4
<1>4. CASE \E x, y \in Packages \X values : x[1] # y[1] /\ m = TwoEntries(x, y)
  <2>1. PICK x, y \in Packages \X values : x[1] # y[1] /\ m = TwoEntries(x, y)
    BY <1>4
  <2>2. PICK e : e = <<x, y>>
    OBVIOUS
  <2>3. e = [i \in DOMAIN e |-> e[i]] /\ m = Map!Inline(e)
    BY <2>1, <2>2 DEF TwoEntries
  <2>4. Map!PositionsOf(m, k) = {}
    BY <2>1, GetTwo DEF Map!HasKey
  <2> QED BY <1>1, <2>3, <2>4
<1>5. CASE \E set \in SUBSET Packages : \E f \in [set -> values] : m = Map!Flexible(f)
  <2>1. PICK set \in SUBSET Packages : \E f \in [set -> values] : m = Map!Flexible(f)
    BY <1>5
  <2>2. PICK f \in [set -> values] : m = Map!Flexible(f)
    BY <2>1
  <2>3. m.flexible /\ m.data = f
    BY <2>2 DEF Map!Flexible
  <2>4. k \notin set
    BY <2>2, GetFlexible DEF Map!HasKey
  <2>5. [j \in DOMAIN f |-> IF j = k THEN v ELSE f[j]] = f
    BY <2>4
  <2> QED BY <2>2, <2>3, <2>5 DEF Map!Assign
<1> QED BY <1>2, <1>3, <1>4, <1>5 DEF Proper

-----------------------------------------------------------------------------
(* Entries that are added and taken away *)

LEMMA AppendToOne ==
    ASSUME NEW x, NEW u
    PROVE  Append(<<x>>, u) = <<x, u>>
<1>1. PICK set : set = {x, u}
  OBVIOUS
<1>2. PICK e : e = <<x>>
  OBVIOUS
<1>3. PICK d : d = <<x, u>>
  OBVIOUS
<1>4. e \in Seq(set) /\ Len(e) = 1 /\ e[1] = x /\ u \in set
  BY <1>1, <1>2
<1>5. d \in Seq(set) /\ Len(d) = 2 /\ d[1] = x /\ d[2] = u
  BY <1>1, <1>3
<1>6. /\ Append(e, u) \in Seq(set) /\ Len(Append(e, u)) = Len(e) + 1
      /\ Append(e, u)[Len(e) + 1] = u /\ \A i \in 1 .. Len(e) : Append(e, u)[i] = e[i]
  <2>1. e \in Seq(set) /\ u \in set
    BY <1>4
  <2>2. Append(e, u) \in Seq(set)
    BY <2>1
  <2>3. Len(Append(e, u)) = Len(e) + 1
    BY <2>1
  <2>4. Append(e, u)[Len(e) + 1] = u
    BY <2>1, AppendProperties, Zenon
  <2>5. \A i \in 1 .. Len(e) : Append(e, u)[i] = e[i]
    BY <2>1
  <2> QED BY <2>2, <2>3, <2>4, <2>5
<1>7. PICK a : a = Append(e, u)
  OBVIOUS
<1>8. a \in Seq(set) /\ Len(a) = 2 /\ a[1] = x /\ a[2] = u
  BY <1>4, <1>6, <1>7
<1>9. a = d
  BY <1>5, <1>8, SeqEqual
<1> QED BY <1>2, <1>3, <1>7, <1>9

LEMMA RemoveForms ==
    ASSUME NEW x, NEW y
    PROVE  /\ Map!RemoveAt(<<x>>, 1) = << >>
           /\ Map!RemoveAt(<<x, y>>, 1) = <<y>>
           /\ Map!RemoveAt(<<x, y>>, 2) = <<x>>
<1>0. PICK set : set = {x, y}
  OBVIOUS
<1>1. PICK e : e = <<x>>
  OBVIOUS
<1>2. PICK d : d = <<x, y>>
  OBVIOUS
<1>3. PICK g : g = <<y>>
  OBVIOUS
<1>4. e \in Seq(set) /\ Len(e) = 1 /\ e[1] = x
  BY <1>0, <1>1
<1>5. d \in Seq(set) /\ Len(d) = 2 /\ d[1] = x /\ d[2] = y
  BY <1>0, <1>2
<1>6. g \in Seq(set) /\ Len(g) = 1 /\ g[1] = y
  BY <1>0, <1>3
<1>7. << >> \in Seq(set)
  BY EmptySeq
<1>8. Map!RemoveAt(e, 1) = << >>
  <2>1. SubSeq(e, 1, 1 - 1) = << >> /\ SubSeq(e, 1 + 1, 1) = << >>
    BY SubSeqEmpty
  <2> QED BY <1>4, <1>7, <2>1, ConcatEmptySeq DEF Map!RemoveAt
<1>9. Map!RemoveAt(d, 1) = g
  <2>1. SubSeq(d, 1, 1 - 1) = << >>
    BY SubSeqEmpty
  <2>2. PICK t : t = SubSeq(d, 1 + 1, 2)
    OBVIOUS
  <2>3. t \in Seq(set) /\ Len(t) = 1 /\ t[1] = y
    BY <1>5, <2>2
  <2>4. t = g
    BY <1>6, <2>3, SeqEqual
  <2> QED BY <1>5, <1>6, <2>1, <2>2, <2>4, ConcatEmptySeq DEF Map!RemoveAt
<1>10. Map!RemoveAt(d, 2) = e
  <2>1. SubSeq(d, 2 + 1, 2) = << >>
    BY SubSeqEmpty
  <2>2. PICK t : t = SubSeq(d, 1, 2 - 1)
    OBVIOUS
  <2>3. t \in Seq(set) /\ Len(t) = 1 /\ t[1] = x
    BY <1>5, <2>2
  <2>4. t = e
    BY <1>4, <2>3, SeqEqual
  <2> QED BY <1>4, <1>5, <2>1, <2>2, <2>4, ConcatEmptySeq DEF Map!RemoveAt
<1> QED BY <1>1, <1>2, <1>3, <1>8, <1>9, <1>10

\* The hash maps that they make.
Joined(x, y, k, v) ==
    [j \in {k, x[1], y[1]} |->
        CASE j = y[1] -> y[2] [] j = x[1] /\ j # y[1] -> x[2] [] OTHER -> v]

Extended(f, k, v) == [j \in DOMAIN f \cup {k} |-> IF j = k THEN v ELSE f[j]]
Reduced(f, k)     == [j \in DOMAIN f \ {k} |-> f[j]]

\* insert of a key that is not there.
LEMMA GrowForms ==
    ASSUME NEW k, NEW v
    PROVE  /\ Map!Grow(Map!Empty, k, v) = OneEntry(<<k, v>>)
           /\ \A x : Map!Grow(OneEntry(x), k, v) = TwoEntries(x, <<k, v>>)
           /\ \A x, y : Map!Grow(TwoEntries(x, y), k, v) = Map!Flexible(Joined(x, y, k, v))
           /\ \A f : Map!Grow(Map!Flexible(f), k, v) = Map!Flexible(Extended(f, k, v))
<1>1. PICK u : u = <<k, v>>
  OBVIOUS
<1>2. Map!Grow(Map!Empty, k, v) = OneEntry(u)
  <2>1. Map!Empty.inline = << >> /\ ~Map!Empty.flexible
    BY DEF Map!Empty, Map!Inline
  <2>2. Len(<< >>) < 2 /\ Append(<< >>, u) = <<u>>
    OBVIOUS
  <2> QED BY <1>1, <2>1, <2>2 DEF Map!Grow, OneEntry
<1>3. ASSUME NEW x PROVE Map!Grow(OneEntry(x), k, v) = TwoEntries(x, u)
  <2>1. OneEntry(x).inline = <<x>> /\ ~OneEntry(x).flexible
    BY DEF OneEntry, Map!Inline
  <2>2. PICK e : e = <<x>>
    OBVIOUS
  <2>3. Len(e) < 2
    BY <2>2
  <2>4. Append(e, u) = <<x, u>>
    BY <2>2, AppendToOne
  <2> QED BY <1>1, <2>1, <2>2, <2>3, <2>4 DEF Map!Grow, TwoEntries
<1>4. ASSUME NEW x, NEW y
      PROVE  Map!Grow(TwoEntries(x, y), k, v) = Map!Flexible(Joined(x, y, k, v))
  <2>1. PICK e : e = <<x, y>>
    OBVIOUS
  <2>2. TwoEntries(x, y).inline = e /\ ~TwoEntries(x, y).flexible
    BY <2>1 DEF TwoEntries, Map!Inline
  <2>3. ~(Len(e) < 2) /\ e[1] = x /\ e[2] = y
    BY <2>1
  <2> QED BY <2>2, <2>3 DEF Map!Grow, Joined
<1>5. ASSUME NEW f
      PROVE  Map!Grow(Map!Flexible(f), k, v) = Map!Flexible(Extended(f, k, v))
  <2>1. Map!Flexible(f).flexible /\ Map!Flexible(f).data = f
    BY DEF Map!Flexible
  <2> QED BY <2>1 DEF Map!Grow, Extended
<1> QED BY <1>1, <1>2, <1>3, <1>4, <1>5

\* insert of a key, whether it is there or not.
LEMMA GrowProper ==
    ASSUME NEW values, NEW m, Proper(m, values), NEW k \in Packages, ~Map!HasKey(m, k),
           NEW v \in values
    PROVE  Proper(Map!Grow(m, k, v), values) /\ Answers(m, Map!Grow(m, k, v), k, {v})
<1>0. PICK u : u = <<k, v>>
  OBVIOUS
<1>1. u \in Packages \X values /\ u[1] = k /\ u[2] = v
  BY <1>0
<1>2. CASE m = Map!Empty
  <2>1. Map!Grow(m, k, v) = OneEntry(u)
    BY <1>0, <1>2, GrowForms
  <2>2. Answers(m, OneEntry(u), k, {v})
    BY <1>1, <1>2, GetEmpty, GetOne DEF Answers
  <2> QED BY <1>1, <2>1, <2>2 DEF Proper
<1>3. CASE \E x \in Packages \X values : m = OneEntry(x)
  <2>1. PICK x \in Packages \X values : m = OneEntry(x)
    BY <1>3
  <2>2. x[1] # k
    BY <2>1, GetOne DEF Map!HasKey
  <2>3. Map!Grow(m, k, v) = TwoEntries(x, u)
    BY <1>0, <2>1, GrowForms
  <2>4. ASSUME NEW j
        PROVE  Map!Get(TwoEntries(x, u), j) = IF j = k THEN {v} ELSE Map!Get(m, j)
    <3>1. Map!Get(TwoEntries(x, u), j) = IF x[1] = j THEN {x[2]} ELSE IF k = j THEN {v} ELSE {}
      BY <1>1, GetTwo
    <3>2. Map!Get(m, j) = IF x[1] = j THEN {x[2]} ELSE {}
      BY <2>1, GetOne
    <3> QED BY <2>2, <3>1, <3>2
  <2>5. Answers(m, TwoEntries(x, u), k, {v})
    BY <2>4 DEF Answers
  <2> QED BY <1>1, <2>2, <2>3, <2>5 DEF Proper
<1>4. CASE \E x, y \in Packages \X values : x[1] # y[1] /\ m = TwoEntries(x, y)
  <2>1. PICK x, y \in Packages \X values : x[1] # y[1] /\ m = TwoEntries(x, y)
    BY <1>4
  <2>2. x[1] # k /\ y[1] # k
    BY <2>1, GetTwo DEF Map!HasKey
  <2>3. PICK set : set = {k, x[1], y[1]}
    OBVIOUS
  <2>4. PICK f : f = Joined(x, y, k, v)
    OBVIOUS
  <2>5. Map!Grow(m, k, v) = Map!Flexible(f)
    <3>1. Map!Grow(TwoEntries(x, y), k, v) = Map!Flexible(Joined(x, y, k, v))
      BY GrowForms
    <3> QED BY <2>1, <2>4, <3>1
  <2>6. set \in SUBSET Packages /\ DOMAIN f = set
    BY <2>1, <2>3, <2>4 DEF Joined
  <2>7. f[y[1]] = y[2] /\ f[x[1]] = x[2] /\ f[k] = v
    BY <2>1, <2>2, <2>4 DEF Joined
  <2>8. f \in [set -> values]
    <3>1. f = [j \in set |-> f[j]]
      BY <2>3, <2>4 DEF Joined
    <3>2. \A j \in set : f[j] \in values
      BY <2>1, <2>3, <2>7
    <3> QED BY <3>1, <3>2
  <2>9. ASSUME NEW j
        PROVE  Map!Get(Map!Flexible(f), j) = IF j = k THEN {v} ELSE Map!Get(m, j)
    <3>1. Map!Get(Map!Flexible(f), j) = IF j \in set THEN {f[j]} ELSE {}
      BY <2>6, GetFlexible
    <3>2. Map!Get(m, j) = IF x[1] = j THEN {x[2]} ELSE IF y[1] = j THEN {y[2]} ELSE {}
      BY <2>1, GetTwo
    <3>3. j \in set <=> j = k \/ j = x[1] \/ j = y[1]
      BY <2>3
    <3> QED BY <2>1, <2>2, <2>7, <3>1, <3>2, <3>3
  <2>10. Answers(m, Map!Flexible(f), k, {v})
    BY <2>9 DEF Answers
  <2> QED BY <2>5, <2>6, <2>8, <2>10 DEF Proper
<1>5. CASE \E set \in SUBSET Packages : \E f \in [set -> values] : m = Map!Flexible(f)
  <2>0. PICK set \in SUBSET Packages : \E f \in [set -> values] : m = Map!Flexible(f)
    BY <1>5
  <2>1. PICK f \in [set -> values] : m = Map!Flexible(f)
    BY <2>0
  <2>2. PICK g : g = Extended(f, k, v)
    OBVIOUS
  <2>3. PICK keys : keys = set \cup {k}
    OBVIOUS
  <2>4. keys \in SUBSET Packages /\ g \in [keys -> values] /\ g[k] = v
        /\ \A j \in set : j # k => g[j] = f[j]
    BY <2>2, <2>3 DEF Extended
  <2>5. Map!Grow(m, k, v) = Map!Flexible(g)
    BY <2>1, <2>2, GrowForms
  <2>6. Answers(m, Map!Flexible(g), k, {v})
    BY <2>1, <2>3, <2>4, GetFlexible DEF Answers
  <2> QED BY <2>4, <2>5, <2>6 DEF Proper
<1> QED BY <1>2, <1>3, <1>4, <1>5 DEF Proper

LEMMA InsertProper ==
    ASSUME NEW values, NEW m, Proper(m, values), NEW k \in Packages, NEW v \in values
    PROVE  Proper(Map!Insert(m, k, v), values) /\ Answers(m, Map!Insert(m, k, v), k, {v})
<1>1. CASE Map!HasKey(m, k)
  <2>1. Map!Insert(m, k, v) = Map!Assign(m, k, v)
    BY <1>1 DEF Map!Insert
  <2> QED BY <1>1, <2>1, AssignProper
<1>2. CASE ~Map!HasKey(m, k)
  <2>1. Map!Insert(m, k, v) = Map!Grow(m, k, v)
    BY <1>2 DEF Map!Insert
  <2> QED BY <1>2, <2>1, GrowProper
<1> QED BY <1>1, <1>2

\* remove, also of the first entry of two with the same key.
LEMMA WithoutForms ==
    ASSUME NEW k, NEW x, NEW y, NEW f
    PROVE  /\ Map!Without(Map!Empty, k) = Map!Empty
           /\ Map!Without(OneEntry(x), k) = IF x[1] = k THEN Map!Empty ELSE OneEntry(x)
           /\ x[1] = k => Map!Without(TwoEntries(x, y), k) = OneEntry(y)
           /\ x[1] # k /\ y[1] = k => Map!Without(TwoEntries(x, y), k) = OneEntry(x)
           /\ x[1] # k /\ y[1] # k => Map!Without(TwoEntries(x, y), k) = TwoEntries(x, y)
           /\ Map!Without(Map!Flexible(f), k) = Map!Flexible(Reduced(f, k))
<1>1. ASSUME NEW e, NEW n \in Nat, Map!PositionsOf(Map!Inline(e), k) = {n}
      PROVE  Map!Without(Map!Inline(e), k) = Map!Inline(Map!RemoveAt(e, n))
  <2>1. PICK m : m = Map!Inline(e)
    OBVIOUS
  <2>2. m = [flexible |-> FALSE, inline |-> e, data |-> << >>]
    BY <2>1 DEF Map!Inline
  <2>3. [j \in DOMAIN m.data \ {k} |-> m.data[j]] = << >>
    BY <2>2
  <2>4. (CHOOSE i \in Map!PositionsOf(m, k) : TRUE) = n
    BY <1>1, <2>1
  <2>5. PICK d : d = Map!RemoveAt(e, n)
    OBVIOUS
  <2>6. Map!Without(m, k) = [m EXCEPT !.inline = d, !.data = << >>]
    <3>1. Map!PositionsOf(m, k) # {}
      BY <1>1, <2>1
    <3>2. d = Map!RemoveAt(m.inline, CHOOSE i \in Map!PositionsOf(m, k) : TRUE)
      BY <2>2, <2>4, <2>5
    <3> QED BY <2>3, <3>1, <3>2 DEF Map!Without
  <2>7. Map!Without(m, k) = [flexible |-> FALSE, inline |-> d, data |-> << >>]
    BY <2>2, <2>6
  <2> QED BY <2>1, <2>5, <2>7 DEF Map!Inline
<1>2. ASSUME NEW e, Map!PositionsOf(Map!Inline(e), k) = {}
      PROVE  Map!Without(Map!Inline(e), k) = Map!Inline(e)
  <2>1. PICK m : m = Map!Inline(e)
    OBVIOUS
  <2>2. m = [flexible |-> FALSE, inline |-> e, data |-> << >>]
    BY <2>1 DEF Map!Inline
  <2>3. [j \in DOMAIN m.data \ {k} |-> m.data[j]] = << >>
    BY <2>2
  <2>4. Map!Without(m, k) = [m EXCEPT !.inline = m.inline, !.data = << >>]
    BY <1>2, <2>1, <2>3 DEF Map!Without
  <2>5. Map!Without(m, k) = [flexible |-> FALSE, inline |-> e, data |-> << >>]
    BY <2>2, <2>4
  <2> QED BY <2>1, <2>2, <2>5
<1>3. Map!Without(Map!Empty, k) = Map!Empty
  BY <1>2, GetEmpty DEF Map!Empty
<1>4. Map!Without(OneEntry(x), k) = IF x[1] = k THEN Map!Empty ELSE OneEntry(x)
  <2>1. PICK e : e = <<x>>
    OBVIOUS
  <2>2. OneEntry(x) = Map!Inline(e) /\ Map!RemoveAt(e, 1) = << >>
    BY <2>1, RemoveForms DEF OneEntry
  <2>3. CASE x[1] = k
    <3>1. Map!PositionsOf(Map!Inline(e), k) = {1}
      BY <2>2, <2>3, GetOne
    <3> QED BY <1>1, <2>2, <2>3, <3>1 DEF Map!Empty
  <2>4. CASE x[1] # k
    <3>1. Map!PositionsOf(Map!Inline(e), k) = {}
      BY <2>2, <2>4, GetOne
    <3> QED BY <1>2, <2>2, <2>4, <3>1
  <2> QED BY <2>3, <2>4
<1>5. /\ x[1] = k => Map!Without(TwoEntries(x, y), k) = OneEntry(y)
      /\ x[1] # k /\ y[1] = k => Map!Without(TwoEntries(x, y), k) = OneEntry(x)
      /\ x[1] # k /\ y[1] # k => Map!Without(TwoEntries(x, y), k) = TwoEntries(x, y)
  <2>1. PICK e : e = <<x, y>>
    OBVIOUS
  <2>2. /\ TwoEntries(x, y) = Map!Inline(e)
        /\ Map!Inline(Map!RemoveAt(e, 1)) = OneEntry(y)
        /\ Map!Inline(Map!RemoveAt(e, 2)) = OneEntry(x)
    BY <2>1, RemoveForms DEF OneEntry, TwoEntries
  <2>3. CASE x[1] = k
    <3>1. Map!PositionsOf(Map!Inline(e), k) = {1}
      BY <2>2, <2>3, GetTwo
    <3> QED BY <1>1, <2>2, <2>3, <3>1
  <2>4. CASE x[1] # k /\ y[1] = k
    <3>1. Map!PositionsOf(Map!Inline(e), k) = {2}
      BY <2>2, <2>4, GetTwo
    <3> QED BY <1>1, <2>2, <2>4, <3>1
  <2>5. CASE x[1] # k /\ y[1] # k
    <3>1. Map!PositionsOf(Map!Inline(e), k) = {}
      BY <2>2, <2>5, GetTwo
    <3> QED BY <1>2, <2>2, <2>5, <3>1
  <2> QED BY <2>3, <2>4, <2>5
<1>6. Map!Without(Map!Flexible(f), k) = Map!Flexible(Reduced(f, k))
  <2>1. PICK m : m = Map!Flexible(f)
    OBVIOUS
  <2>2. m = [flexible |-> TRUE, inline |-> << >>, data |-> f]
    BY <2>1 DEF Map!Flexible
  <2>3. PICK g : g = Reduced(f, k)
    OBVIOUS
  <2>4. Map!PositionsOf(m, k) = {}
    BY <2>1, GetFlexible
  <2>5. Map!Without(m, k) = [m EXCEPT !.inline = m.inline, !.data = g]
    BY <2>2, <2>3, <2>4 DEF Map!Without, Reduced
  <2>6. Map!Without(m, k) = [flexible |-> TRUE, inline |-> << >>, data |-> g]
    BY <2>2, <2>5
  <2> QED BY <2>1, <2>3, <2>6 DEF Map!Flexible
<1> QED BY <1>3, <1>4, <1>5, <1>6

LEMMA WithoutProper ==
    ASSUME NEW values, NEW m, Proper(m, values), NEW k
    PROVE  Proper(Map!Without(m, k), values) /\ Answers(m, Map!Without(m, k), k, {})
<1>1. CASE m = Map!Empty
  BY <1>1, WithoutForms, GetEmpty DEF Answers, Proper
<1>2. CASE \E x \in Packages \X values : m = OneEntry(x)
  <2>1. PICK x \in Packages \X values : m = OneEntry(x)
    BY <1>2
  <2>2. CASE x[1] = k
    <3>1. Map!Without(m, k) = Map!Empty
      BY <2>1, <2>2, WithoutForms
    <3>2. Answers(m, Map!Empty, k, {})
      BY <2>1, <2>2, GetEmpty, GetOne DEF Answers
    <3> QED BY <3>1, <3>2 DEF Proper
  <2>3. CASE x[1] # k
    <3>1. Map!Without(m, k) = m
      BY <2>1, <2>3, WithoutForms
    <3>2. Map!Get(m, k) = {}
      BY <2>1, <2>3, GetOne
    <3> QED BY <3>1, <3>2 DEF Answers
  <2> QED BY <2>2, <2>3
<1>3. CASE \E x, y \in Packages \X values : x[1] # y[1] /\ m = TwoEntries(x, y)
  <2>1. PICK x, y \in Packages \X values : x[1] # y[1] /\ m = TwoEntries(x, y)
    BY <1>3
  <2>2. ASSUME NEW j
        PROVE  Map!Get(m, j) = IF x[1] = j THEN {x[2]} ELSE IF y[1] = j THEN {y[2]} ELSE {}
    BY <2>1, GetTwo
  <2>3. CASE x[1] = k
    <3>1. Map!Without(m, k) = OneEntry(y)
      BY <2>1, <2>3, WithoutForms
    <3>2. ASSUME NEW j PROVE Map!Get(OneEntry(y), j) = IF j = k THEN {} ELSE Map!Get(m, j)
      <4>1. Map!Get(OneEntry(y), j) = IF y[1] = j THEN {y[2]} ELSE {}
        BY GetOne
      <4> QED BY <2>1, <2>2, <2>3, <4>1
    <3>3. Answers(m, OneEntry(y), k, {})
      BY <3>2 DEF Answers
    <3> QED BY <3>1, <3>3 DEF Proper
  <2>4. CASE x[1] # k /\ y[1] = k
    <3>1. Map!Without(m, k) = OneEntry(x)
      BY <2>1, <2>4, WithoutForms
    <3>2. ASSUME NEW j PROVE Map!Get(OneEntry(x), j) = IF j = k THEN {} ELSE Map!Get(m, j)
      <4>1. Map!Get(OneEntry(x), j) = IF x[1] = j THEN {x[2]} ELSE {}
        BY GetOne
      <4> QED BY <2>1, <2>2, <2>4, <4>1
    <3>3. Answers(m, OneEntry(x), k, {})
      BY <3>2 DEF Answers
    <3> QED BY <3>1, <3>3 DEF Proper
  <2>5. CASE x[1] # k /\ y[1] # k
    <3>1. Map!Without(m, k) = m
      BY <2>1, <2>5, WithoutForms
    <3>2. Map!Get(m, k) = {}
      BY <2>2, <2>5
    <3> QED BY <3>1, <3>2 DEF Answers
  <2> QED BY <2>3, <2>4, <2>5
<1>4. CASE \E set \in SUBSET Packages : \E f \in [set -> values] : m = Map!Flexible(f)
  <2>0. PICK set \in SUBSET Packages : \E f \in [set -> values] : m = Map!Flexible(f)
    BY <1>4
  <2>1. PICK f \in [set -> values] : m = Map!Flexible(f)
    BY <2>0
  <2>2. PICK g : g = Reduced(f, k)
    OBVIOUS
  <2>3. PICK keys : keys = set \ {k}
    OBVIOUS
  <2>4. keys \in SUBSET Packages /\ g \in [keys -> values] /\ \A j \in keys : g[j] = f[j]
    BY <2>2, <2>3 DEF Reduced
  <2>5. Map!Without(m, k) = Map!Flexible(g)
    BY <2>1, <2>2, WithoutForms
  <2>6. Answers(m, Map!Flexible(g), k, {})
    BY <2>1, <2>3, <2>4, GetFlexible DEF Answers
  <2> QED BY <2>4, <2>5, <2>6 DEF Proper
<1> QED BY <1>1, <1>2, <1>3, <1>4 DEF Proper

-----------------------------------------------------------------------------
(* What iterating over a map and counting its entries gives *)

LEMMA EntriesForms ==
    /\ Map!Entries(Map!Empty) = {}
    /\ \A x : Map!Entries(OneEntry(x)) = {x}
    /\ \A x, y : Map!Entries(TwoEntries(x, y)) = {x, y}
    /\ \A f : Map!Entries(Map!Flexible(f)) = {<<j, f[j]>> : j \in DOMAIN f}
<1>1. ASSUME NEW e
      PROVE  Map!Entries(Map!Inline(e)) = {e[i] : i \in DOMAIN e}
  <2>1. PICK m : m = Map!Inline(e)
    OBVIOUS
  <2>2. m.inline = e /\ DOMAIN m.data = {}
    BY <2>1 DEF Map!Inline
  <2> QED BY <2>1, <2>2 DEF Map!Entries
<1>2. Map!Entries(Map!Empty) = {}
  BY <1>1 DEF Map!Empty
<1>3. ASSUME NEW x PROVE Map!Entries(OneEntry(x)) = {x}
  <2>1. PICK e : e = <<x>>
    OBVIOUS
  <2>2. DOMAIN e = {1} /\ e[1] = x
    BY <2>1
  <2>3. {e[i] : i \in DOMAIN e} = {x}
    BY <2>2
  <2> QED BY <1>1, <2>1, <2>3 DEF OneEntry
<1>4. ASSUME NEW x, NEW y PROVE Map!Entries(TwoEntries(x, y)) = {x, y}
  <2>1. PICK e : e = <<x, y>>
    OBVIOUS
  <2>2. DOMAIN e = {1, 2} /\ e[1] = x /\ e[2] = y
    BY <2>1
  <2>3. {e[i] : i \in DOMAIN e} = {x, y}
    BY <2>2
  <2> QED BY <1>1, <2>1, <2>3 DEF TwoEntries
<1>5. ASSUME NEW f PROVE Map!Entries(Map!Flexible(f)) = {<<j, f[j]>> : j \in DOMAIN f}
  <2>1. PICK m : m = Map!Flexible(f)
    OBVIOUS
  <2>2. m.data = f /\ DOMAIN m.inline = {}
    BY <2>1 DEF Map!Flexible
  <2>3. {m.inline[i] : i \in DOMAIN m.inline} = {}
    BY <2>2
  <2> QED BY <2>1, <2>2, <2>3 DEF Map!Entries
<1> QED BY <1>2, <1>3, <1>4, <1>5

\* The entries are what get finds.
LEMMA EntriesProper ==
    ASSUME NEW values, NEW m, Proper(m, values), NEW x
    PROVE  x \in Map!Entries(m) <=> x \in Packages \X values /\ Map!Get(m, x[1]) = {x[2]}
<1>1. CASE m = Map!Empty
  BY <1>1, EntriesForms, GetEmpty
<1>2. CASE \E y \in Packages \X values : m = OneEntry(y)
  <2>1. PICK y \in Packages \X values : m = OneEntry(y)
    BY <1>2
  <2>2. x \in Map!Entries(m) <=> x = y
    BY <2>1, EntriesForms
  <2>3. Map!Get(m, x[1]) = IF y[1] = x[1] THEN {y[2]} ELSE {}
    BY <2>1, GetOne
  <2>4. x \in Packages \X values => (x = y <=> x[1] = y[1] /\ x[2] = y[2])
    OBVIOUS
  <2> QED BY <2>2, <2>3, <2>4
<1>3. CASE \E y, z \in Packages \X values : y[1] # z[1] /\ m = TwoEntries(y, z)
  <2>1. PICK y, z \in Packages \X values : y[1] # z[1] /\ m = TwoEntries(y, z)
    BY <1>3
  <2>2. x \in Map!Entries(m) <=> x = y \/ x = z
    BY <2>1, EntriesForms
  <2>3. Map!Get(m, x[1]) = IF y[1] = x[1] THEN {y[2]} ELSE IF z[1] = x[1] THEN {z[2]} ELSE {}
    BY <2>1, GetTwo
  <2>4. x \in Packages \X values => /\ (x = y <=> x[1] = y[1] /\ x[2] = y[2])
                                    /\ (x = z <=> x[1] = z[1] /\ x[2] = z[2])
    OBVIOUS
  <2> QED BY <2>1, <2>2, <2>3, <2>4
<1>4. CASE \E set \in SUBSET Packages : \E f \in [set -> values] : m = Map!Flexible(f)
  <2>0. PICK set \in SUBSET Packages : \E f \in [set -> values] : m = Map!Flexible(f)
    BY <1>4
  <2>1. PICK f \in [set -> values] : m = Map!Flexible(f)
    BY <2>0
  <2>2. x \in Map!Entries(m) <=> \E j \in set : x = <<j, f[j]>>
    BY <2>1, EntriesForms
  <2>3. Map!Get(m, x[1]) = IF x[1] \in set THEN {f[x[1]]} ELSE {}
    BY <2>1, GetFlexible
  <2>4. (\E j \in set : x = <<j, f[j]>>)
           <=> x \in Packages \X values /\ x[1] \in set /\ x[2] = f[x[1]]
    OBVIOUS
  <2> QED BY <2>2, <2>3, <2>4
<1> QED BY <1>1, <1>2, <1>3, <1>4 DEF Proper

LEMMA CardinalitySame == \A S : Map!Cardinality(S) = Cardinality(S)
BY Zenon DEF Map!Cardinality, Cardinality

\* len counts the keys.
LEMMA LengthProper ==
    ASSUME NEW values, NEW m, Proper(m, values)
    PROVE  Map!Length(m) = Cardinality({k \in Packages : Map!HasKey(m, k)})
<1>0. PICK keys : keys = {k \in Packages : Map!HasKey(m, k)}
  OBVIOUS
<1>1. ASSUME NEW e, m = Map!Inline(e)
      PROVE  Map!Length(m) = Len(e)
  BY <1>1 DEF Map!Inline, Map!Length
<1>2. CASE m = Map!Empty
  <2>1. keys = {}
    BY <1>0, <1>2, GetEmpty DEF Map!HasKey
  <2>2. Map!Length(m) = Len(<< >>)
    BY <1>1, <1>2 DEF Map!Empty
  <2> QED BY <1>0, <2>1, <2>2, FS_EmptySet
<1>3. CASE \E x \in Packages \X values : m = OneEntry(x)
  <2>1. PICK x \in Packages \X values : m = OneEntry(x)
    BY <1>3
  <2>2. keys = {x[1]}
    BY <1>0, <2>1, GetOne DEF Map!HasKey
  <2>3. Map!Length(m) = Len(<<x>>)
    BY <1>1, <2>1 DEF OneEntry
  <2> QED BY <1>0, <2>2, <2>3, FS_Singleton
<1>4. CASE \E x, y \in Packages \X values : x[1] # y[1] /\ m = TwoEntries(x, y)
  <2>1. PICK x, y \in Packages \X values : x[1] # y[1] /\ m = TwoEntries(x, y)
    BY <1>4
  <2>2. keys = {x[1]} \cup {y[1]}
    BY <1>0, <2>1, GetTwo DEF Map!HasKey
  <2>3. Map!Length(m) = Len(<<x, y>>)
    BY <1>1, <2>1 DEF TwoEntries
  <2>4. IsFiniteSet({x[1]}) /\ Cardinality({x[1]}) = 1
    BY FS_Singleton
  <2>5. Cardinality({x[1]} \cup {y[1]}) = 2
    BY <2>1, <2>4, FS_AddElement
  <2> QED BY <1>0, <2>2, <2>3, <2>5
<1>5. CASE \E set \in SUBSET Packages : \E f \in [set -> values] : m = Map!Flexible(f)
  <2>0. PICK set \in SUBSET Packages : \E f \in [set -> values] : m = Map!Flexible(f)
    BY <1>5
  <2>1. PICK f \in [set -> values] : m = Map!Flexible(f)
    BY <2>0
  <2>2. keys = set
    BY <1>0, <2>1, GetFlexible DEF Map!HasKey
  <2>3. Map!Length(m) = Cardinality(DOMAIN f)
    <3>1. m.flexible /\ m.data = f
      BY <2>1 DEF Map!Flexible
    <3> QED BY <3>1, CardinalitySame DEF Map!Length
  <2> QED BY <1>0, <2>1, <2>2, <2>3
<1> QED BY <1>2, <1>3, <1>4, <1>5 DEF Proper

\* The maps of the model are the proper ones.
LEMMA ProperMapsMeaning == \A m : m \in ProperMaps <=> Proper(m, Terms)
<1>1. ASSUME NEW m PROVE m \in ProperMaps => Proper(m, Terms)
  <2>1. ASSUME NEW e \in [{1} -> Packages \X Terms], m = Map!Inline(e)
        PROVE  Proper(m, Terms)
    <3>1. e = <<e[1]>> /\ e[1] \in Packages \X Terms
      OBVIOUS
    <3> QED BY <2>1, <3>1 DEF Proper, OneEntry
  <2>2. ASSUME NEW e \in [1 .. 2 -> Packages \X Terms], e[1][1] # e[2][1], m = Map!Inline(e)
        PROVE  Proper(m, Terms)
    <3>1. e = <<e[1], e[2]>> /\ e[1] \in Packages \X Terms /\ e[2] \in Packages \X Terms
      OBVIOUS
    <3> QED BY <2>2, <3>1 DEF Proper, TwoEntries
  <2>3. ASSUME NEW set \in SUBSET Packages, NEW f \in [set -> Terms], m = Map!Flexible(f)
        PROVE  Proper(m, Terms)
    BY <2>3 DEF Proper
  <2>4. CASE m = Map!Inline(<< >>)
    BY <2>4 DEF Proper, Map!Empty
  <2> QED BY <2>1, <2>2, <2>3, <2>4 DEF ProperMaps
<1>2. ASSUME NEW m PROVE Proper(m, Terms) => m \in ProperMaps
  <2>1. CASE m = Map!Empty
    BY <2>1 DEF ProperMaps, Map!Empty
  <2>2. ASSUME NEW x \in Packages \X Terms, m = OneEntry(x)
        PROVE  m \in ProperMaps
    <3>1. PICK e : e = <<x>>
      OBVIOUS
    <3>2. e \in [{1} -> Packages \X Terms]
      BY <3>1
    <3>3. m = Map!Inline(e)
      BY <2>2, <3>1 DEF OneEntry
    <3> QED BY <3>2, <3>3 DEF ProperMaps
  <2>3. ASSUME NEW x \in Packages \X Terms, NEW y \in Packages \X Terms, x[1] # y[1],
               m = TwoEntries(x, y)
        PROVE  m \in ProperMaps
    <3>1. PICK e : e = <<x, y>>
      OBVIOUS
    <3>2. e \in [1 .. 2 -> Packages \X Terms] /\ e[1][1] # e[2][1]
      BY <2>3, <3>1
    <3>3. m = Map!Inline(e)
      BY <2>3, <3>1 DEF TwoEntries
    <3> QED BY <3>2, <3>3 DEF ProperMaps
  <2>4. ASSUME NEW set \in SUBSET Packages, NEW f \in [set -> Terms], m = Map!Flexible(f)
        PROVE  m \in ProperMaps
    BY <2>4 DEF ProperMaps
  <2> QED BY <2>1, <2>2, <2>3, <2>4 DEF Proper
<1> QED BY <1>1, <1>2

\* iter gives each entry once, and no key twice.
Lists(order, m) ==
    /\ \A x : x \in Map!Entries(m) <=> \E i \in DOMAIN order : order[i] = x
    /\ \A i, j \in DOMAIN order : order[i][1] = order[j][1] => i = j

LEMMA OrdersOfFlexible ==
    ASSUME NEW values, NEW set \in SUBSET Packages, NEW f \in [set -> values],
           NEW order \in Map!Orders(Map!Flexible(f))
    PROVE  order \in Seq(Packages \X values) /\ Lists(order, Map!Flexible(f))
<1>1. PICK S : S = {<<j, f[j]>> : j \in DOMAIN f}
  OBVIOUS
<1>2. PICK n : n = Cardinality(S)
  OBVIOUS
<1>3. order \in [1 .. n -> S] /\ \A i, j \in 1 .. n : i # j => order[i] # order[j]
  <2>1. PICK m : m = Map!Flexible(f)
    OBVIOUS
  <2>2. m.flexible /\ m.data = f
    BY <2>1 DEF Map!Flexible
  <2>3. order \in Map!SetToSeqs(S)
    BY <1>1, <2>1, <2>2 DEF Map!Orders
  <2> QED BY <1>2, <2>3, CardinalitySame DEF Map!SetToSeqs
<1>4. \A x : x \in S <=> x \in Packages \X values /\ x[1] \in set /\ x[2] = f[x[1]]
  BY <1>1
<1>5. IsFiniteSet(S)
  <2>1. PICK g : g = [x \in S |-> x[1]]
    OBVIOUS
  <2>2. g \in [S -> Packages]
    BY <1>4, <2>1
  <2>3. \A x, y \in S : g[x] = g[y] => x = y
    <3>1. \A x, y \in S : x[1] = y[1] => x = y
      BY <1>1
    <3> QED BY <2>1, <3>1
  <2>4. DOMAIN g = S
    BY <2>2
  <2>5. g \in Injection(S, Packages)
    BY <2>2, <2>3, <2>4 DEF Injection, IsInjective
  <2> QED BY <2>5, FS_Injection, PackagesAssumption
<1>6. n \in Nat
  BY <1>2, <1>5, FS_CardinalityType
<1>7. IsFiniteSet(1 .. n) /\ Cardinality(1 .. n) = n
  BY <1>6, FS_Interval
<1>8. DOMAIN order = 1 .. n
  BY <1>3
<1>9. order \in Surjection(1 .. n, S)
  <2>1. order \in Injection(1 .. n, S)
    BY <1>3, <1>8 DEF Injection, IsInjective
  <2> QED BY <1>2, <1>5, <1>7, <2>1, FS_Injection
<1>10. \A x : x \in S <=> \E i \in DOMAIN order : order[i] = x
  BY <1>3, <1>8, <1>9 DEF Surjection
<1>11. \A i, j \in DOMAIN order : order[i][1] = order[j][1] => i = j
  <2>1. \A x, y \in S : x[1] = y[1] => x = y
    BY <1>1
  <2> QED BY <1>3, <1>8, <2>1
<1>12. order \in Seq(Packages \X values)
  <2>1. order \in [1 .. n -> Packages \X values]
    BY <1>3, <1>4
  <2> QED BY <1>6, <2>1
<1>13. Map!Entries(Map!Flexible(f)) = S
  BY <1>1, EntriesForms
<1> QED BY <1>10, <1>11, <1>12, <1>13 DEF Lists

LEMMA OrdersOfInline ==
    ASSUME NEW e
    PROVE  Map!Orders(Map!Inline(e)) = {e}
<1>1. PICK m : m = Map!Inline(e)
  OBVIOUS
<1>2. ~m.flexible /\ m.inline = e
  BY <1>1 DEF Map!Inline
<1> QED BY <1>1, <1>2 DEF Map!Orders

LEMMA OrdersProper ==
    ASSUME NEW values, NEW m, Proper(m, values), NEW order \in Map!Orders(m)
    PROVE  order \in Seq(Packages \X values) /\ Lists(order, m)
<1>1. CASE m = Map!Empty
  <2>1. order = << >>
    BY <1>1, OrdersOfInline DEF Map!Empty
  <2>2. order \in Seq(Packages \X values) /\ DOMAIN order = {}
    BY <2>1
  <2> QED BY <1>1, <2>2, EntriesForms DEF Lists
<1>2. CASE \E x \in Packages \X values : m = OneEntry(x)
  <2>1. PICK x \in Packages \X values : m = OneEntry(x)
    BY <1>2
  <2>2. order = <<x>>
    BY <2>1, OrdersOfInline DEF OneEntry
  <2>3. order \in Seq(Packages \X values) /\ DOMAIN order = {1} /\ order[1] = x
    BY <2>2
  <2>4. \A z : z \in Map!Entries(m) <=> z = x
    BY <2>1, EntriesForms
  <2> QED BY <2>3, <2>4 DEF Lists
<1>3. CASE \E x, y \in Packages \X values : x[1] # y[1] /\ m = TwoEntries(x, y)
  <2>1. PICK x, y \in Packages \X values : x[1] # y[1] /\ m = TwoEntries(x, y)
    BY <1>3
  <2>2. order = <<x, y>>
    BY <2>1, OrdersOfInline DEF TwoEntries
  <2>3. /\ order \in Seq(Packages \X values) /\ DOMAIN order = {1, 2}
        /\ order[1] = x /\ order[2] = y
    BY <2>2
  <2>4. \A z : z \in Map!Entries(m) <=> z = x \/ z = y
    BY <2>1, EntriesForms
  <2> QED BY <2>1, <2>3, <2>4 DEF Lists
<1>4. CASE \E set \in SUBSET Packages : \E f \in [set -> values] : m = Map!Flexible(f)
  <2>1. PICK set \in SUBSET Packages : \E f \in [set -> values] : m = Map!Flexible(f)
    BY <1>4
  <2>2. PICK f \in [set -> values] : m = Map!Flexible(f)
    BY <2>1
  <2> QED BY <2>2, OrdersOfFlexible
<1> QED BY <1>1, <1>2, <1>3, <1>4 DEF Proper

-----------------------------------------------------------------------------
(* The arguments of prior_cause *)

SelfEntries(m, x, y) ==
    /\ x[1] = y[1] /\ x[2].positive /\ ~y[2].positive
    /\ m = TwoEntries(x, y)

\* A map that has the package, or a dependency on it with both of its terms.
Argument(m, p) ==
    /\ Map!HasKey(m, p)
    /\ Proper(m, Terms) \/ \E x, y \in Packages \X Terms : SelfEntries(m, x, y)

LEMMA ArgumentForms ==
    ASSUME NEW m \in ProperMaps \cup SelfDependencyMaps, NEW p, Map!HasKey(m, p)
    PROVE  Argument(m, p)
<1>1. CASE m \in ProperMaps
  BY <1>1, ProperMapsMeaning DEF Argument
<1>2. CASE m \in SelfDependencyMaps
  <2>0. PICK positives, negatives :
            /\ positives = {t \in Terms : t.positive}
            /\ negatives = {t \in Terms : ~t.positive}
    OBVIOUS
  <2>1. PICK q \in Packages, t1 \in positives, t2 \in negatives :
            m = Map!Inline(<<<<q, t1>>, <<q, t2>>>>)
    <3>1. SelfDependencyMaps = {Map!Inline(<<<<q, t1>>, <<q, t2>>>>) :
                                    q \in Packages, t1 \in positives, t2 \in negatives}
      BY <2>0 DEF SelfDependencyMaps
    <3> QED BY <1>2, <3>1
  <2>2. PICK x : x = <<q, t1>>
    OBVIOUS
  <2>3. PICK y : y = <<q, t2>>
    OBVIOUS
  <2>4. m = TwoEntries(x, y)
    BY <2>1, <2>2, <2>3 DEF TwoEntries
  <2>5. x \in Packages \X Terms /\ y \in Packages \X Terms /\ SelfEntries(m, x, y)
    BY <2>0, <2>2, <2>3, <2>4 DEF SelfEntries
  <2> QED BY <2>5 DEF Argument
<1> QED BY <1>1, <1>2

LEMMA SelfFacts ==
    ASSUME NEW m, NEW p, Map!HasKey(m, p), NEW x \in Packages \X Terms, NEW y \in Packages \X Terms,
           SelfEntries(m, x, y)
    PROVE  /\ p \in Packages /\ x[1] = p /\ y[1] = p /\ x[2] # y[2] /\ x # y
           /\ Map!Get(m, p) = {x[2]}
           /\ \A q : q # p => Map!Get(m, q) = {}
           /\ Map!Without(m, p) = OneEntry(y)
           /\ Map!Entries(m) = {x, y}
<1>1. x[1] = y[1] /\ x[2].positive /\ ~y[2].positive /\ m = TwoEntries(x, y)
  BY DEF SelfEntries
<1>2. ASSUME NEW q PROVE Map!Get(m, q) = IF x[1] = q THEN {x[2]} ELSE {}
  BY <1>1, GetTwo
<1>3. x[1] = p
  BY <1>2 DEF Map!HasKey
<1>4. Map!Without(m, p) = OneEntry(y)
  BY <1>1, <1>3, WithoutForms
<1>5. Map!Entries(m) = {x, y}
  BY <1>1, EntriesForms
<1> QED BY <1>1, <1>2, <1>3, <1>4, <1>5

LEMMA ValueOne ==
    ASSUME NEW m, NEW p, NEW v, Map!Get(m, p) = {v}
    PROVE  Value(m, p) = v
BY DEF Value

\* The value that is split off, and what is left.
LEMMA ArgumentSplit ==
    ASSUME NEW m, NEW p, Argument(m, p)
    PROVE  /\ p \in Packages /\ Value(m, p) \in Terms /\ Map!Get(m, p) = {Value(m, p)}
           /\ Proper(Map!Without(m, p), Terms)
           /\ \A q : q # p => /\ Map!Get(Map!Without(m, p), q) = Map!Get(m, q)
                              /\ \/ Map!Get(m, q) = {}
                                 \/ q \in Packages /\ \E t \in Terms : Map!Get(m, q) = {t}
<1>1. CASE Proper(m, Terms)
  <2>1. PICK v \in Terms : p \in Packages /\ Map!Get(m, p) = {v}
    BY <1>1, GetProper DEF Argument, Map!HasKey
  <2>2. Value(m, p) = v
    BY <2>1, ValueOne
  <2>3. Proper(Map!Without(m, p), Terms) /\ Answers(m, Map!Without(m, p), p, {})
    BY <1>1, WithoutProper
  <2>4. \A q : Map!Get(m, q) = {} \/ (q \in Packages /\ \E t \in Terms : Map!Get(m, q) = {t})
    BY <1>1, GetProper
  <2> QED BY <2>1, <2>2, <2>3, <2>4 DEF Answers
<1>2. CASE \E x, y \in Packages \X Terms : SelfEntries(m, x, y)
  <2>1. PICK x, y \in Packages \X Terms : SelfEntries(m, x, y)
    BY <1>2
  <2>2. Map!HasKey(m, p)
    BY DEF Argument
  <2>3. /\ p \in Packages /\ y[1] = p /\ Map!Get(m, p) = {x[2]}
        /\ \A q : q # p => Map!Get(m, q) = {}
        /\ Map!Without(m, p) = OneEntry(y)
    BY <2>1, <2>2, SelfFacts
  <2>4. Value(m, p) = x[2] /\ x[2] \in Terms
    BY <2>3, ValueOne
  <2>5. Proper(OneEntry(y), Terms)
    BY DEF Proper
  <2>6. \A q : q # p => Map!Get(OneEntry(y), q) = {}
    BY <2>3, GetOne
  <2> QED BY <2>3, <2>4, <2>5, <2>6
<1> QED BY <1>1, <1>2 DEF Argument

\* The same on the entries, as the rule of resolution takes them.
LEMMA ArgumentEntries ==
    ASSUME NEW m, NEW p, Argument(m, p)
    PROVE  /\ Get(Map!Entries(m), p) = Value(m, p)
           /\ Map!Entries(Map!Without(m, p)) = Map!Entries(m) \ {<<p, Value(m, p)>>}
           /\ \A x : x[1] # p => (x \in Map!Entries(m) <=>
                         x \in Packages \X Terms /\ Map!Get(m, x[1]) = {x[2]})
<1>0. /\ p \in Packages /\ Value(m, p) \in Terms /\ Map!Get(m, p) = {Value(m, p)}
      /\ Proper(Map!Without(m, p), Terms)
  BY ArgumentSplit
<1>1. PICK v : v = Value(m, p)
  OBVIOUS
<1>2. CASE Proper(m, Terms)
  <2>1. \A x : x \in Map!Entries(m) <=> x \in Packages \X Terms /\ Map!Get(m, x[1]) = {x[2]}
    BY <1>2, EntriesProper
  <2>2. TermsOf(Map!Entries(m), p) = {v}
    <3>1. \A x \in Map!Entries(m) : x[1] = p => x[2] = v
      BY <1>0, <1>1, <2>1
    <3>2. PICK x : x = <<p, v>>
      OBVIOUS
    <3>3. x \in Map!Entries(m) /\ x[1] = p /\ x[2] = v
      BY <1>0, <1>1, <2>1, <3>2
    <3> QED BY <3>1, <3>3 DEF TermsOf, EntriesOf
  <2>3. Get(Map!Entries(m), p) = v
    BY <2>2 DEF Get
  <2>4. ASSUME NEW x
        PROVE  x \in Map!Entries(Map!Without(m, p)) <=> x \in Map!Entries(m) /\ x # <<p, v>>
    <3>1. Answers(m, Map!Without(m, p), p, {})
      BY <1>2, WithoutProper
    <3>2. Map!Get(Map!Without(m, p), x[1]) = IF x[1] = p THEN {} ELSE Map!Get(m, x[1])
      BY <3>1 DEF Answers
    <3>3. x \in Map!Entries(Map!Without(m, p)) <=>
              x \in Packages \X Terms /\ Map!Get(Map!Without(m, p), x[1]) = {x[2]}
      BY <1>0, EntriesProper
    <3>4. x \in Packages \X Terms => (x = <<p, v>> <=> x[1] = p /\ x[2] = v)
      OBVIOUS
    <3>5. Map!Get(m, p) = {v}
      BY <1>0, <1>1
    <3> QED BY <2>1, <3>2, <3>3, <3>4, <3>5
  <2> QED BY <1>1, <2>1, <2>3, <2>4
<1>3. CASE \E x, y \in Packages \X Terms : SelfEntries(m, x, y)
  <2>1. PICK x, y \in Packages \X Terms : SelfEntries(m, x, y)
    BY <1>3
  <2>2. Map!HasKey(m, p)
    BY DEF Argument
  <2>3. /\ x[1] = p /\ y[1] = p /\ x # y /\ Map!Get(m, p) = {x[2]}
        /\ \A q : q # p => Map!Get(m, q) = {}
        /\ Map!Without(m, p) = OneEntry(y)
        /\ Map!Entries(m) = {x, y}
    BY <2>1, <2>2, SelfFacts
  <2>4. v = x[2]
    BY <1>1, <2>3, ValueOne
  <2>5. x = <<p, v>>
    BY <2>3, <2>4
  <2>6. Get(Map!Entries(m), p) = v
    <3>1. TermsOf(Map!Entries(m), p) = {x[2], y[2]}
      BY <2>3 DEF TermsOf, EntriesOf
    <3>2. x[2].positive /\ ~y[2].positive
      BY <2>1 DEF SelfEntries
    <3>3. PICK ts : ts = {x[2], y[2]}
      OBVIOUS
    <3>4. \A t \in ts : (t.positive \/ \A t2 \in ts : ~t2.positive) <=> t = v
      BY <2>4, <3>2, <3>3
    <3>5. v \in ts
      BY <2>4, <3>3
    <3>6. (CHOOSE t \in ts : t.positive \/ \A t2 \in ts : ~t2.positive) = v
      BY <3>4, <3>5
    <3> QED BY <3>1, <3>3, <3>6 DEF Get
  <2>7. Map!Entries(OneEntry(y)) = {y}
    BY EntriesForms
  <2>8. {x, y} \ {x} = {y}
    BY <2>3
  <2> QED BY <1>1, <2>3, <2>5, <2>6, <2>7, <2>8
<1> QED BY <1>2, <1>3 DEF Argument

\* The entries that are merged: each of another package comes once.
ListsOthers(order, m, p) ==
    /\ \A i \in DOMAIN order : order[i][1] # p => Map!Get(m, order[i][1]) = {order[i][2]}
    /\ \A i, j \in DOMAIN order : order[i][1] # p /\ order[i][1] = order[j][1] => i = j
    /\ \A q : q # p /\ Map!Get(m, q) # {} => \E i \in DOMAIN order : order[i][1] = q

LEMMA ArgumentOrder ==
    ASSUME NEW m, NEW p, Argument(m, p), NEW order \in Map!Orders(m)
    PROVE  order \in Seq(Packages \X Terms) /\ ListsOthers(order, m, p)
<1>1. CASE Proper(m, Terms)
  <2>1. order \in Seq(Packages \X Terms) /\ Lists(order, m)
    BY <1>1, OrdersProper
  <2>2. ASSUME NEW i \in DOMAIN order
        PROVE  Map!Get(m, order[i][1]) = {order[i][2]}
    <3>1. order[i] \in Map!Entries(m)
      BY <2>1 DEF Lists
    <3> QED BY <1>1, <3>1, EntriesProper
  <2>3. ASSUME NEW q, Map!Get(m, q) # {}
        PROVE  \E i \in DOMAIN order : order[i][1] = q
    <3>1. PICK v \in Terms : q \in Packages /\ Map!Get(m, q) = {v}
      BY <1>1, <2>3, GetProper
    <3>2. PICK x : x = <<q, v>>
      OBVIOUS
    <3>3. x \in Packages \X Terms /\ x[1] = q /\ x[2] = v
      BY <3>1, <3>2
    <3>4. x \in Map!Entries(m)
      BY <1>1, <3>1, <3>3, EntriesProper
    <3> QED BY <2>1, <3>3, <3>4 DEF Lists
  <2> QED BY <2>1, <2>2, <2>3 DEF Lists, ListsOthers
<1>2. CASE \E x, y \in Packages \X Terms : SelfEntries(m, x, y)
  <2>1. PICK x, y \in Packages \X Terms : SelfEntries(m, x, y)
    BY <1>2
  <2>2. x[1] = p /\ y[1] = p /\ \A q : q # p => Map!Get(m, q) = {}
    BY <2>1, SelfFacts DEF Argument
  <2>3. order = <<x, y>>
    BY <2>1, OrdersOfInline DEF SelfEntries, TwoEntries
  <2>4. /\ order \in Seq(Packages \X Terms) /\ DOMAIN order = {1, 2}
        /\ order[1] = x /\ order[2] = y
    BY <2>3
  <2> QED BY <2>2, <2>4 DEF ListsOthers
<1> QED BY <1>1, <1>2 DEF Argument

-----------------------------------------------------------------------------
(* The rule of resolution, package by package *)

LEMMA TermsClosed ==
    ASSUME NEW t1 \in TermType, NEW t2 \in TermType
    PROVE  Intersection(t1, t2) \in TermType /\ Union(t1, t2) \in TermType
BY DEF TermType, Intersection, Union, Positive, Negative, Complement

LEMMA ProperTerms == \A m : Proper(m, Terms) => Proper(m, TermType)
<1>1. Terms \subseteq TermType
  BY TermsAssumption
<1>2. \A set : [set -> Terms] \subseteq [set -> TermType]
  BY <1>1
<1>3. Packages \X Terms \subseteq Packages \X TermType
  BY <1>1
<1> SUFFICES ASSUME NEW m, Proper(m, Terms) PROVE Proper(m, TermType)
  OBVIOUS
<1>4. CASE m = Map!Empty
  BY <1>4 DEF Proper
<1>5. CASE \E x \in Packages \X Terms : m = OneEntry(x)
  BY <1>3, <1>5 DEF Proper
<1>6. CASE \E x, y \in Packages \X Terms : x[1] # y[1] /\ m = TwoEntries(x, y)
  BY <1>3, <1>6 DEF Proper
<1>7. CASE \E set \in SUBSET Packages : \E f \in [set -> Terms] : m = Map!Flexible(f)
  BY <1>2, <1>7 DEF Proper
<1> QED BY <1>4, <1>5, <1>6, <1>7 DEF Proper

\* The terms of the other packages: in one of the maps, or in both.
MergedValues(m, others, q) ==
    IF Map!Get(m, q) = {} THEN Map!Get(others, q)
    ELSE IF Map!Get(others, q) = {} THEN Map!Get(m, q)
    ELSE {Intersection(Value(m, q), Value(others, q))}

\* What is left for a package after the merge, without the package's own.
RestValues(m, others, p, q) ==
    IF q = p THEN Map!Get(m, p) ELSE MergedValues(m, others, q)

\* And with it.
ResolventValues(terms1, terms2, p, q) ==
    LET term == Union(Value(terms1, p), Value(terms2, p))
    IN  IF q = p /\ term # AnyTerm THEN {term}
        ELSE RestValues(Map!Without(terms1, p), terms2, p, q)

LEMMA MergeEntryProper ==
    ASSUME NEW m, Proper(m, TermType), NEW k \in Packages, NEW t \in TermType
    PROVE  LET n == Map!MergeEntry(m, k, t, {Intersection(u, t) : u \in Map!Get(m, k)})
           IN  /\ Proper(n, TermType)
               /\ Answers(m, n, k, IF Map!Get(m, k) = {} THEN {t}
                                   ELSE {Intersection(Value(m, k), t)})
<1>1. PICK merged : merged = {Intersection(u, t) : u \in Map!Get(m, k)}
  OBVIOUS
<1>2. PICK n : n = Map!MergeEntry(m, k, t, merged)
  OBVIOUS
<1>3. CASE Map!Get(m, k) = {}
  <2>1. n = Map!Insert(m, k, t)
    BY <1>2, <1>3 DEF Map!MergeEntry, Map!HasKey
  <2>2. Proper(n, TermType) /\ Answers(m, n, k, {t})
    BY <2>1, InsertProper
  <2> QED BY <1>1, <1>2, <1>3, <2>2
<1>4. CASE Map!Get(m, k) # {}
  <2>1. PICK v \in TermType : Map!Get(m, k) = {v}
    BY <1>4, GetProper
  <2>2. Value(m, k) = v
    BY <2>1, ValueOne
  <2>3. PICK u : u = Intersection(v, t)
    OBVIOUS
  <2>4. u \in TermType /\ merged = {u}
    BY <1>1, <2>1, <2>3, TermsClosed
  <2>5. n = Map!Assign(m, k, u)
    BY <1>2, <1>4, <2>4 DEF Map!MergeEntry, Map!HasKey
  <2>6. Proper(n, TermType) /\ Answers(m, n, k, {u})
    BY <1>4, <2>4, <2>5, AssignProper DEF Map!HasKey
  <2> QED BY <1>1, <1>2, <1>4, <2>2, <2>3, <2>6
<1> QED BY <1>3, <1>4

LEMMA RestEntries ==
    ASSUME NEW m, Proper(m, Terms), NEW others, NEW p, Argument(others, p), NEW x
    PROVE  x \in MergeTerms(Map!Entries(m), {y \in Map!Entries(others) : y[1] # p}) <=>
              x \in Packages \X TermType /\ RestValues(m, others, p, x[1]) = {x[2]}
<1>1. PICK A : A = Map!Entries(m)
  OBVIOUS
<1>2. PICK B : B = {y \in Map!Entries(others) : y[1] # p}
  OBVIOUS
<1>3. \A y : y \in A <=> y \in Packages \X Terms /\ Map!Get(m, y[1]) = {y[2]}
  BY <1>1, EntriesProper
<1>4. \A y : y \in B <=> y[1] # p /\ y \in Packages \X Terms /\ Map!Get(others, y[1]) = {y[2]}
  BY <1>2, ArgumentEntries
<1>5. ASSUME NEW q
      PROVE  /\ q \in IncompatPackages(A) <=> Map!Get(m, q) # {}
             /\ Map!Get(m, q) # {} => /\ q \in Packages /\ Value(m, q) \in Terms
                                      /\ Map!Get(m, q) = {Value(m, q)}
  <2>1. CASE Map!Get(m, q) = {}
    BY <1>3, <2>1 DEF IncompatPackages
  <2>2. CASE Map!Get(m, q) # {}
    <3>1. PICK t \in Terms : q \in Packages /\ Map!Get(m, q) = {t}
      BY <2>2, GetProper
    <3>2. PICK y : y = <<q, t>>
      OBVIOUS
    <3>3. y \in A /\ y[1] = q
      BY <1>3, <3>1, <3>2
    <3>4. Value(m, q) = t
      BY <3>1, ValueOne
    <3> QED BY <2>2, <3>1, <3>3, <3>4 DEF IncompatPackages
  <2> QED BY <2>1, <2>2
<1>6. ASSUME NEW q, q # p
      PROVE  /\ q \in IncompatPackages(B) <=> Map!Get(others, q) # {}
             /\ Map!Get(others, q) # {} =>
                   /\ q \in Packages /\ Value(others, q) \in Terms
                   /\ Map!Get(others, q) = {Value(others, q)}
                   /\ Get(B, q) = Value(others, q)
  <2>1. CASE Map!Get(others, q) = {}
    BY <1>4, <2>1 DEF IncompatPackages
  <2>2. CASE Map!Get(others, q) # {}
    <3>1. PICK t \in Terms : q \in Packages /\ Map!Get(others, q) = {t}
      BY <1>6, <2>2, ArgumentSplit
    <3>2. PICK y : y = <<q, t>>
      OBVIOUS
    <3>3. y \in B /\ y[1] = q /\ y[2] = t
      BY <1>4, <1>6, <3>1, <3>2
    <3>4. Value(others, q) = t
      BY <3>1, ValueOne
    <3>5. TermsOf(B, q) = {t}
      <4>1. \A z \in B : z[1] = q => z[2] = t
        BY <1>4, <3>1
      <4> QED BY <3>3, <4>1 DEF TermsOf, EntriesOf
    <3>6. Get(B, q) = t
      BY <3>5 DEF Get
    <3> QED BY <2>2, <3>1, <3>3, <3>4, <3>6 DEF IncompatPackages
  <2> QED BY <2>1, <2>2
<1>7. p \notin IncompatPackages(B)
  BY <1>4 DEF IncompatPackages
<1>8. x \in MergeTerms(A, B) <=>
         \/ x \in A /\ x[1] \notin IncompatPackages(B)
         \/ x \in B /\ x[1] \notin IncompatPackages(A)
         \/ \E y \in A : /\ y[1] \in IncompatPackages(B)
                         /\ x = <<y[1], Intersection(y[2], Get(B, y[1]))>>
  BY DEF MergeTerms
<1>9. Terms \subseteq TermType
  BY TermsAssumption
<1>10. CASE \E y \in A : /\ y[1] \in IncompatPackages(B)
                         /\ x = <<y[1], Intersection(y[2], Get(B, y[1]))>>
  <2>1. PICK y \in A : /\ y[1] \in IncompatPackages(B)
                       /\ x = <<y[1], Intersection(y[2], Get(B, y[1]))>>
    BY <1>10
  <2>2. PICK q : q = y[1]
    OBVIOUS
  <2>3. q # p /\ q \in Packages /\ y[2] \in Terms /\ Map!Get(m, q) = {y[2]}
    BY <1>3, <1>7, <2>1, <2>2
  <2>4. Map!Get(others, q) # {} /\ Value(others, q) \in Terms /\ Get(B, q) = Value(others, q)
    BY <1>6, <2>1, <2>2, <2>3
  <2>5. Value(m, q) = y[2] /\ Map!Get(m, q) # {}
    BY <2>3, ValueOne
  <2>6. PICK t : t = Intersection(y[2], Value(others, q))
    OBVIOUS
  <2>7. t \in TermType
    BY <1>9, <2>3, <2>4, <2>6, TermsClosed
  <2>8. x = <<q, t>>
    BY <2>1, <2>2, <2>4, <2>6
  <2>9. RestValues(m, others, p, q) = {t}
    BY <2>3, <2>4, <2>5, <2>6 DEF RestValues, MergedValues
  <2>10. x \in Packages \X TermType /\ x[1] = q /\ x[2] = t
    BY <2>3, <2>7, <2>8
  <2> QED BY <1>1, <1>2, <1>8, <1>10, <2>9, <2>10
<1>11. ASSUME NEW q, x[1] = q, q = p \/ Map!Get(others, q) = {}
       PROVE  x \in MergeTerms(A, B) <=>
                 x \in Packages \X TermType /\ RestValues(m, others, p, q) = {x[2]}
  <2>1. q \notin IncompatPackages(B)
    BY <1>6, <1>7, <1>11
  <2>2. x \notin B
    BY <1>4, <1>11
  <2>3. ~\E y \in A : /\ y[1] \in IncompatPackages(B)
                      /\ x = <<y[1], Intersection(y[2], Get(B, y[1]))>>
    BY <1>11, <2>1
  <2>4. RestValues(m, others, p, q) = Map!Get(m, q)
    BY <1>11 DEF RestValues, MergedValues
  <2>5. x \in MergeTerms(A, B) <=> x \in Packages \X Terms /\ Map!Get(m, q) = {x[2]}
    BY <1>3, <1>8, <1>11, <2>1, <2>2, <2>3
  <2>6. ASSUME x \in Packages \X TermType, Map!Get(m, q) = {x[2]} PROVE x \in Packages \X Terms
    BY <1>5, <1>11, <2>6
  <2> QED BY <1>9, <2>4, <2>5, <2>6
<1>12. ASSUME NEW q, x[1] = q, q # p, Map!Get(others, q) # {}, Map!Get(m, q) = {}
       PROVE  x \in MergeTerms(A, B) <=>
                 x \in Packages \X TermType /\ RestValues(m, others, p, q) = {x[2]}
  <2>1. q \notin IncompatPackages(A)
    BY <1>5, <1>12
  <2>2. x \notin A
    BY <1>3, <1>12
  <2>3. ~\E y \in A : /\ y[1] \in IncompatPackages(B)
                      /\ x = <<y[1], Intersection(y[2], Get(B, y[1]))>>
    BY <1>12, <2>1 DEF IncompatPackages
  <2>4. RestValues(m, others, p, q) = Map!Get(others, q)
    BY <1>12 DEF RestValues, MergedValues
  <2>5. x \in MergeTerms(A, B) <=> x \in Packages \X Terms /\ Map!Get(others, q) = {x[2]}
    BY <1>4, <1>8, <1>12, <2>1, <2>2, <2>3
  <2>6. ASSUME x \in Packages \X TermType, Map!Get(others, q) = {x[2]}
        PROVE  x \in Packages \X Terms
    BY <1>6, <1>12, <2>6
  <2> QED BY <1>9, <2>4, <2>5, <2>6
<1>13. ASSUME NEW q, x[1] = q, q # p, Map!Get(others, q) # {}, Map!Get(m, q) # {},
              x \in Packages \X TermType, RestValues(m, others, p, q) = {x[2]}
       PROVE  x \in MergeTerms(A, B)
  <2>1. PICK t : t = Value(m, q)
    OBVIOUS
  <2>2. PICK u : u = Value(others, q)
    OBVIOUS
  <2>3. q \in Packages /\ t \in Terms /\ Map!Get(m, q) = {t}
    BY <1>5, <1>13, <2>1
  <2>4. q \in IncompatPackages(B) /\ Get(B, q) = u
    BY <1>6, <1>13, <2>2
  <2>5. PICK y : y = <<q, t>>
    OBVIOUS
  <2>6. y \in A /\ y[1] = q /\ y[2] = t
    BY <1>3, <2>3, <2>5
  <2>7. RestValues(m, others, p, q) = {Intersection(t, u)}
    BY <1>13, <2>1, <2>2 DEF RestValues, MergedValues
  <2>8. x = <<q, Intersection(t, u)>>
    BY <1>13, <2>7
  <2> QED BY <1>8, <2>4, <2>6, <2>8
<1>14. ASSUME NEW q, x[1] = q, q # p, Map!Get(others, q) # {}, Map!Get(m, q) # {},
              x \in MergeTerms(A, B)
       PROVE  \E y \in A : /\ y[1] \in IncompatPackages(B)
                           /\ x = <<y[1], Intersection(y[2], Get(B, y[1]))>>
  BY <1>5, <1>6, <1>8, <1>14
<1> QED BY <1>1, <1>2, <1>10, <1>11, <1>12, <1>13, <1>14

LEMMA PriorCauseEntries ==
    ASSUME NEW terms1, NEW terms2, NEW p, Argument(terms1, p), Argument(terms2, p), NEW x
    PROVE  x \in PriorCauseTerms(Map!Entries(terms1), Map!Entries(terms2), p) <=>
              x \in Packages \X TermType /\ ResolventValues(terms1, terms2, p, x[1]) = {x[2]}
<1>1. PICK m : m = Map!Without(terms1, p)
  OBVIOUS
<1>2. PICK term : term = Union(Value(terms1, p), Value(terms2, p))
  OBVIOUS
<1>3. PICK rest : rest = MergeTerms(Map!Entries(m), {y \in Map!Entries(terms2) : y[1] # p})
  OBVIOUS
<1>4. /\ Get(Map!Entries(terms1), p) = Value(terms1, p)
      /\ Map!Entries(m) = Map!Entries(terms1) \ {<<p, Value(terms1, p)>>}
      /\ Get(Map!Entries(terms2), p) = Value(terms2, p)
  BY <1>1, ArgumentEntries
<1>5. /\ p \in Packages /\ Proper(m, Terms)
      /\ Value(terms1, p) \in Terms /\ Value(terms2, p) \in Terms
  BY <1>1, ArgumentSplit
<1>6. term \in TermType
  <2>1. Value(terms1, p) \in TermType /\ Value(terms2, p) \in TermType
    BY <1>5, TermsAssumption
  <2> QED BY <1>2, <2>1, TermsClosed
<1>7. x \in rest <=> x \in Packages \X TermType /\ RestValues(m, terms2, p, x[1]) = {x[2]}
  BY <1>3, <1>5, RestEntries
<1>8. ResolventTerm(Map!Entries(terms1), Map!Entries(terms2), p) = term
  BY <1>2, <1>4 DEF ResolventTerm
<1>9. PriorCauseTerms(Map!Entries(terms1), Map!Entries(terms2), p)
         = IF term = AnyTerm THEN rest ELSE {y \in rest : y[1] # p} \cup {<<p, term>>}
  <2>1. rest = MergeTerms(Map!Entries(terms1) \ {<<p, Get(Map!Entries(terms1), p)>>},
                          {y \in Map!Entries(terms2) : y[1] # p})
    BY <1>3, <1>4
  <2> QED BY <1>8, <2>1 DEF PriorCauseTerms
<1>10. ResolventValues(terms1, terms2, p, x[1])
          = IF x[1] = p /\ term # AnyTerm THEN {term} ELSE RestValues(m, terms2, p, x[1])
  BY <1>1, <1>2 DEF ResolventValues
<1>11. CASE term = AnyTerm
  BY <1>7, <1>9, <1>10, <1>11
<1>12. CASE term # AnyTerm
  <2>1. x \in PriorCauseTerms(Map!Entries(terms1), Map!Entries(terms2), p)
           <=> (x \in rest /\ x[1] # p) \/ x = <<p, term>>
    BY <1>9, <1>12
  <2>2. x = <<p, term>> <=> x \in Packages \X TermType /\ x[1] = p /\ x[2] = term
    BY <1>5, <1>6
  <2>3. CASE x[1] = p
    BY <1>10, <1>12, <2>1, <2>2, <2>3
  <2>4. CASE x[1] # p
    BY <1>7, <1>10, <2>1, <2>2, <2>4
  <2> QED BY <2>3, <2>4
<1> QED BY <1>11, <1>12

-----------------------------------------------------------------------------
(* prior_cause, entry by entry *)

StillComes(q) == \E i \in DOMAIN pending : pending[i][1] = q

PendingRight ==
    /\ \A i \in DOMAIN pending :
          pending[i][1] # package => Map!Get(cause, pending[i][1]) = {pending[i][2]}
    /\ \A i, j \in DOMAIN pending :
          pending[i][1] # package /\ pending[i][1] = pending[j][1] => i = j

\* What has come so far is merged, what still comes is not.
SoFar ==
    \A q : Map!Get(resolvent, q) =
        IF StillComes(q) /\ q # package
        THEN Map!Get(Map!Without(incompat, package), q)
        ELSE RestValues(Map!Without(incompat, package), cause, package, q)

MergeInvariant ==
    /\ pc # "edit" => /\ Argument(incompat, package) /\ Argument(cause, package)
                      /\ Proper(resolvent, TermType)
    /\ pc \in {"merge", "insert"} => PendingRight /\ SoFar
    /\ pc = "insert" => pending = << >>
    /\ pc = "done" => \A q : Map!Get(resolvent, q) = ResolventValues(incompat, cause, package, q)

Invariant == TypeOK /\ MergeInvariant

LEMMA InitInvariant == Init => Invariant
<1> SUFFICES ASSUME Init PROVE Invariant
  OBVIOUS
<1>1. map \in ProperMaps
  BY ProperMapsMeaning DEF Init, Proper
<1>2. pending \in Seq(Packages \X Terms)
  BY DEF Init
<1>3. TypeOK
  BY <1>1, <1>2, RootAssumption DEF Init, TypeOK
<1>4. pc = "edit"
  BY DEF Init
<1>5. MergeInvariant
  BY <1>4 DEF MergeInvariant
<1> QED BY <1>3, <1>5 DEF Invariant

\* The calls on the map under construction.
LEMMA EditType ==
    ASSUME TypeOK, NEW p \in Packages, NEW t \in Terms,
           Insert(p, t) \/ Update(p, t) \/ Remove(p) \/ Lookup(p)
    PROVE  map' \in ProperMaps /\ returned' \subseteq Terms
<1>1. Proper(map, Terms)
  BY ProperMapsMeaning DEF TypeOK
<1>2. Map!Get(map, p) \subseteq Terms
  BY <1>1, GetProper
<1>3. CASE Insert(p, t)
  BY <1>1, <1>3, InsertProper, ProperMapsMeaning DEF Insert
<1>4. CASE Update(p, t)
  <2>1. CASE Map!HasKey(map, p)
    BY <1>1, <1>2, <1>4, <2>1, AssignProper, ProperMapsMeaning DEF Update
  <2>2. CASE ~Map!HasKey(map, p)
    BY <1>1, <1>2, <1>4, <2>2, AssignNone, ProperMapsMeaning DEF Update
  <2> QED BY <2>1, <2>2
<1>5. CASE Remove(p)
  BY <1>1, <1>2, <1>5, WithoutProper, ProperMapsMeaning DEF Remove
<1>6. CASE Lookup(p)
  BY <1>2, <1>6 DEF Lookup, TypeOK
<1> QED BY <1>3, <1>4, <1>5, <1>6

\* Taking the next entry.
LEMMA NextEntry ==
    ASSUME pending \in Seq(Packages \X Terms), pending # << >>, PendingRight
    PROVE  /\ Head(pending) \in Packages \X Terms
           /\ Tail(pending) \in Seq(Packages \X Terms)
           /\ \A q : StillComes(q) <=> \/ Head(pending)[1] = q
                                       \/ \E i \in DOMAIN Tail(pending) : Tail(pending)[i][1] = q
           /\ Head(pending)[1] # package =>
                 /\ Map!Get(cause, Head(pending)[1]) = {Head(pending)[2]}
                 /\ \A i \in DOMAIN Tail(pending) : Tail(pending)[i][1] # Head(pending)[1]
           /\ \A i \in DOMAIN Tail(pending) : Tail(pending)[i][1] # package =>
                 Map!Get(cause, Tail(pending)[i][1]) = {Tail(pending)[i][2]}
           /\ \A i, j \in DOMAIN Tail(pending) :
                 Tail(pending)[i][1] # package /\ Tail(pending)[i][1] = Tail(pending)[j][1] => i = j
<1>1. PICK rest : rest = Tail(pending)
  OBVIOUS
<1>2. PICK n \in Nat : n = Len(pending)
  OBVIOUS
<1>3. DOMAIN pending = 1 .. n /\ n > 0 /\ Head(pending) = pending[1] /\ 1 \in DOMAIN pending
  BY <1>2
<1>4. /\ rest \in Seq(Packages \X Terms) /\ DOMAIN rest = 1 .. n - 1
      /\ \A i \in 1 .. n - 1 : rest[i] = pending[i + 1]
  BY <1>1, <1>2, <1>3
<1>5. Head(pending) \in Packages \X Terms
  BY <1>3
<1>6. ASSUME NEW q
      PROVE  StillComes(q) <=> Head(pending)[1] = q \/ \E i \in DOMAIN rest : rest[i][1] = q
  <2>1. ASSUME NEW i \in DOMAIN pending, i # 1, pending[i][1] = q
        PROVE  \E j \in DOMAIN rest : rest[j][1] = q
    <3>1. PICK j \in 1 .. n - 1 : i = j + 1
      <4>1. i - 1 \in 1 .. n - 1 /\ i = (i - 1) + 1
        BY <1>3, <2>1
      <4> QED BY <4>1
    <3> QED BY <1>4, <2>1, <3>1
  <2>2. ASSUME NEW j \in DOMAIN rest, rest[j][1] = q PROVE StillComes(q)
    <3>1. PICK i \in DOMAIN pending : i = j + 1
      BY <1>3, <1>4
    <3> QED BY <1>4, <2>2, <3>1 DEF StillComes
  <2> QED BY <1>3, <2>1, <2>2 DEF StillComes
<1>7. ASSUME NEW i \in DOMAIN rest
      PROVE  /\ i + 1 \in DOMAIN pending /\ i + 1 # 1 /\ rest[i] = pending[i + 1]
  BY <1>3, <1>4
<1>8. ASSUME Head(pending)[1] # package
      PROVE  /\ Map!Get(cause, Head(pending)[1]) = {Head(pending)[2]}
             /\ \A i \in DOMAIN rest : rest[i][1] # Head(pending)[1]
  <2>1. Map!Get(cause, Head(pending)[1]) = {Head(pending)[2]}
    BY <1>3, <1>8 DEF PendingRight
  <2>2. ASSUME NEW i \in DOMAIN rest PROVE rest[i][1] # Head(pending)[1]
    <3>1. PICK j \in DOMAIN pending : j = i + 1 /\ j # 1 /\ rest[i] = pending[j]
      BY <1>7
    <3>2. pending[1][1] = pending[j][1] => 1 = j
      BY <1>3, <1>8 DEF PendingRight
    <3> QED BY <1>3, <3>1, <3>2
  <2> QED BY <2>1, <2>2
<1>9. ASSUME NEW i \in DOMAIN rest, rest[i][1] # package
      PROVE  Map!Get(cause, rest[i][1]) = {rest[i][2]}
  <2>1. PICK k \in DOMAIN pending : rest[i] = pending[k]
    BY <1>7
  <2> QED BY <1>9, <2>1 DEF PendingRight
<1>10. ASSUME NEW i \in DOMAIN rest, NEW j \in DOMAIN rest,
              rest[i][1] # package, rest[i][1] = rest[j][1]
       PROVE  i = j
  <2>1. i \in Nat /\ j \in Nat
    BY <1>4
  <2>2. i + 1 = j + 1
    <3>1. PICK k \in DOMAIN pending : k = i + 1 /\ rest[i] = pending[k]
      BY <1>7
    <3>2. PICK l \in DOMAIN pending : l = j + 1 /\ rest[j] = pending[l]
      BY <1>7
    <3> QED BY <1>10, <3>1, <3>2 DEF PendingRight
  <2> QED BY <2>1, <2>2
<1> QED BY <1>1, <1>4, <1>5, <1>6, <1>8, <1>9, <1>10

LEMMA SplitInvariant == TypeOK /\ Split => Invariant'
<1> SUFFICES ASSUME TypeOK, Split PROVE Invariant'
  OBVIOUS
<1>1. PICK p \in Packages,
           terms1 \in {map} \cup (IF map = Map!Empty THEN SelfDependencyMaps ELSE {}),
           terms2 \in ProperMaps \cup SelfDependencyMaps :
          /\ Map!HasKey(terms1, p) /\ Map!HasKey(terms2, p)
          /\ package' = p /\ incompat' = terms1 /\ cause' = terms2
          /\ resolvent' = Map!Without(terms1, p)
          /\ pending' \in Map!Orders(terms2)
  BY DEF Split
<1>2. pc' = "merge" /\ UNCHANGED <<map, returned>>
  BY DEF Split
<1>3. terms1 \in ProperMaps \cup SelfDependencyMaps
  BY <1>1 DEF TypeOK
<1>4. Argument(terms1, p) /\ Argument(terms2, p)
  BY <1>1, <1>3, ArgumentForms
<1>5. /\ pending' \in Seq(Packages \X Terms)
      /\ \A i \in DOMAIN pending' :
            pending'[i][1] # p => Map!Get(terms2, pending'[i][1]) = {pending'[i][2]}
      /\ \A i, j \in DOMAIN pending' :
            pending'[i][1] # p /\ pending'[i][1] = pending'[j][1] => i = j
      /\ \A q : q # p /\ Map!Get(terms2, q) # {} => \E i \in DOMAIN pending' : pending'[i][1] = q
  <2>1. PICK order \in Map!Orders(terms2) : order = pending'
    BY <1>1
  <2>2. order \in Seq(Packages \X Terms) /\ ListsOthers(order, terms2, p)
    BY <1>4, ArgumentOrder
  <2> QED BY <2>1, <2>2 DEF ListsOthers
<1>6. TypeOK'
  BY <1>1, <1>2, <1>5 DEF TypeOK
<1>7. Proper(resolvent', TermType)
  BY <1>1, <1>4, ArgumentSplit, ProperTerms
<1>8. PendingRight'
  BY <1>1, <1>5 DEF PendingRight
<1>9. SoFar'
  <2>1. ASSUME NEW q
        PROVE  Map!Get(resolvent', q) =
                  IF (\E i \in DOMAIN pending' : pending'[i][1] = q) /\ q # p
                  THEN Map!Get(resolvent', q)
                  ELSE RestValues(resolvent', terms2, p, q)
    <3>1. CASE \E i \in DOMAIN pending' : pending'[i][1] = q
      BY <3>1 DEF RestValues
    <3>2. CASE ~\E i \in DOMAIN pending' : pending'[i][1] = q
      <4>1. q = p \/ Map!Get(terms2, q) = {}
        BY <1>5, <3>2
      <4> QED BY <3>2, <4>1 DEF RestValues, MergedValues
    <3> QED BY <3>1, <3>2
  <2> QED BY <1>1, <2>1 DEF SoFar, StillComes
<1>10. MergeInvariant'
  BY <1>1, <1>2, <1>4, <1>7, <1>8, <1>9 DEF MergeInvariant
<1> QED BY <1>6, <1>10 DEF Invariant

LEMMA SkipInvariant == Invariant /\ SkipPackage => Invariant'
<1> SUFFICES ASSUME Invariant, SkipPackage PROVE Invariant'
  OBVIOUS
<1>1. /\ pc = "merge" /\ pending # << >> /\ Head(pending)[1] = package /\ pending' = Tail(pending)
      /\ UNCHANGED <<map, returned, pc, package, incompat, cause, resolvent>>
  BY DEF SkipPackage, Merging
<1>2. /\ pending \in Seq(Packages \X Terms) /\ PendingRight /\ SoFar
      /\ Argument(incompat, package) /\ Argument(cause, package) /\ Proper(resolvent, TermType)
  BY <1>1 DEF Invariant, TypeOK, MergeInvariant
<1>3. PICK rest : rest = Tail(pending)
  OBVIOUS
<1>4. /\ rest \in Seq(Packages \X Terms)
      /\ \A q : StillComes(q) <=> package = q \/ \E i \in DOMAIN rest : rest[i][1] = q
      /\ \A i \in DOMAIN rest :
            rest[i][1] # package => Map!Get(cause, rest[i][1]) = {rest[i][2]}
      /\ \A i, j \in DOMAIN rest : rest[i][1] # package /\ rest[i][1] = rest[j][1] => i = j
  BY <1>1, <1>2, <1>3, NextEntry
<1>5. TypeOK'
  BY <1>1, <1>3, <1>4 DEF Invariant, TypeOK
<1>6. PendingRight'
  BY <1>1, <1>3, <1>4 DEF PendingRight
<1>7. SoFar'
  <2>1. \A q : q # package => (StillComes(q) <=> StillComes(q)')
    BY <1>1, <1>3, <1>4 DEF StillComes
  <2> QED BY <1>1, <1>2, <2>1 DEF SoFar
<1>8. MergeInvariant'
  BY <1>1, <1>2, <1>6, <1>7 DEF MergeInvariant
<1> QED BY <1>5, <1>8 DEF Invariant

LEMMA MergeCauseInvariant == Invariant /\ MergeCauseTerm => Invariant'
<1> SUFFICES ASSUME Invariant, MergeCauseTerm PROVE Invariant'
  OBVIOUS
<1>1. /\ pc = "merge" /\ pending # << >> /\ Head(pending)[1] # package /\ pending' = Tail(pending)
      /\ UNCHANGED <<map, returned, pc, package, incompat, cause>>
  BY DEF MergeCauseTerm, Merging
<1>2. /\ pending \in Seq(Packages \X Terms) /\ PendingRight /\ SoFar
      /\ Argument(incompat, package) /\ Argument(cause, package) /\ Proper(resolvent, TermType)
  BY <1>1 DEF Invariant, TypeOK, MergeInvariant
<1>3. PICK rest : rest = Tail(pending)
  OBVIOUS
<1>4. PICK x : x = Head(pending)
  OBVIOUS
<1>5. PICK k, t : k = x[1] /\ t = x[2]
  OBVIOUS
<1>6. /\ x \in Packages \X Terms
      /\ rest \in Seq(Packages \X Terms)
      /\ \A q : StillComes(q) <=> k = q \/ \E i \in DOMAIN rest : rest[i][1] = q
      /\ Map!Get(cause, k) = {t} /\ \A i \in DOMAIN rest : rest[i][1] # k
      /\ \A i \in DOMAIN rest :
            rest[i][1] # package => Map!Get(cause, rest[i][1]) = {rest[i][2]}
      /\ \A i, j \in DOMAIN rest : rest[i][1] # package /\ rest[i][1] = rest[j][1] => i = j
  BY <1>1, <1>2, <1>3, <1>4, <1>5, NextEntry
<1>7. k \in Packages /\ t \in TermType /\ k # package
  BY <1>1, <1>4, <1>5, <1>6, TermsAssumption
<1>8. PICK m : m = Map!Without(incompat, package)
  OBVIOUS
<1>9. Map!Get(resolvent, k) = Map!Get(m, k)
  BY <1>2, <1>6, <1>7, <1>8 DEF SoFar
<1>10. PICK value : value = Value(resolvent, k)
  OBVIOUS
<1>11. value = Value(m, k)
  BY <1>9, <1>10 DEF Value
<1>12. resolvent' = Map!MergeEntry(resolvent, k, t,
                        {Intersection(u, t) : u \in Map!Get(resolvent, k)})
  BY <1>4, <1>5 DEF MergeCauseTerm
<1>13. PICK found : found = IF Map!Get(resolvent, k) = {} THEN {t} ELSE {Intersection(value, t)}
  OBVIOUS
<1>14. Proper(resolvent', TermType) /\ Answers(resolvent, resolvent', k, found)
  BY <1>2, <1>7, <1>10, <1>12, <1>13, MergeEntryProper
<1>15. found = RestValues(m, cause, package, k)
  <2>1. Value(cause, k) = t
    <3>1. Map!Get(cause, k) = {t}
      BY <1>6
    <3> QED BY <3>1, ValueOne
  <2> QED BY <1>6, <1>7, <1>9, <1>11, <1>13, <2>1 DEF RestValues, MergedValues
<1>16. TypeOK'
  BY <1>1, <1>3, <1>6 DEF Invariant, TypeOK
<1>17. PendingRight'
  BY <1>1, <1>3, <1>6 DEF PendingRight
<1>18. SoFar'
  <2>1. ~StillComes(k)' /\ \A q : q # k => (StillComes(q) <=> StillComes(q)')
    BY <1>1, <1>3, <1>6 DEF StillComes
  <2>2. ASSUME NEW q
        PROVE  Map!Get(resolvent', q) = IF StillComes(q)' /\ q # package THEN Map!Get(m, q)
                                        ELSE RestValues(m, cause, package, q)
    <3>1. CASE q = k
      BY <1>14, <1>15, <2>1, <3>1 DEF Answers
    <3>2. CASE q # k
      <4>1. Map!Get(resolvent', q) = Map!Get(resolvent, q)
        BY <1>14, <3>2 DEF Answers
      <4>2. Map!Get(resolvent, q) = IF StillComes(q) /\ q # package THEN Map!Get(m, q)
                                    ELSE RestValues(m, cause, package, q)
        BY <1>2, <1>8 DEF SoFar
      <4> QED BY <2>1, <3>2, <4>1, <4>2
    <3> QED BY <3>1, <3>2
  <2> QED BY <1>1, <1>8, <2>2 DEF SoFar
<1>19. MergeInvariant'
  BY <1>1, <1>2, <1>14, <1>17, <1>18 DEF MergeInvariant
<1> QED BY <1>16, <1>19 DEF Invariant

LEMMA EndMergeInvariant == Invariant /\ EndMerge => Invariant'
<1> SUFFICES ASSUME Invariant, EndMerge PROVE Invariant'
  OBVIOUS
<1>1. /\ pc = "merge" /\ pending = << >> /\ pc' = "insert"
      /\ UNCHANGED <<map, returned, package, incompat, cause, resolvent, pending>>
  BY DEF EndMerge
<1>2. TypeOK'
  BY <1>1 DEF Invariant, TypeOK
<1>3. PendingRight' /\ SoFar'
  BY <1>1 DEF Invariant, MergeInvariant, PendingRight, SoFar, StillComes
<1>4. MergeInvariant'
  BY <1>1, <1>3 DEF Invariant, MergeInvariant
<1> QED BY <1>2, <1>4 DEF Invariant

LEMMA InsertUnionInvariant == Invariant /\ InsertUnion => Invariant'
<1> SUFFICES ASSUME Invariant, InsertUnion PROVE Invariant'
  OBVIOUS
<1>1. /\ pc = "insert" /\ pc' = "done"
      /\ UNCHANGED <<map, returned, package, incompat, cause, pending>>
  BY DEF InsertUnion
<1>2. /\ pending = << >> /\ SoFar
      /\ Argument(incompat, package) /\ Argument(cause, package) /\ Proper(resolvent, TermType)
  BY <1>1 DEF Invariant, MergeInvariant
<1>3. PICK term : term = Union(Value(incompat, package), Value(cause, package))
  OBVIOUS
<1>4. PICK m : m = Map!Without(incompat, package)
  OBVIOUS
<1>5. ASSUME NEW q PROVE Map!Get(resolvent, q) = RestValues(m, cause, package, q)
  BY <1>2, <1>4 DEF SoFar, StillComes
<1>6. ASSUME NEW q
      PROVE  ResolventValues(incompat, cause, package, q)
                = IF q = package /\ term # AnyTerm THEN {term} ELSE Map!Get(resolvent, q)
  BY <1>3, <1>4, <1>5 DEF ResolventValues
<1>7. package \in Packages /\ term \in TermType
  <2>1. Value(incompat, package) \in TermType /\ Value(cause, package) \in TermType
    BY <1>2, ArgumentSplit, TermsAssumption
  <2>2. package \in Packages
    BY <1>2, ArgumentSplit
  <2> QED BY <1>3, <2>1, <2>2, TermsClosed
<1>8. resolvent' = IF term = AnyTerm THEN resolvent ELSE Map!Insert(resolvent, package, term)
  BY <1>3 DEF InsertUnion
<1>9. Proper(resolvent', TermType)
      /\ \A q : Map!Get(resolvent', q) = ResolventValues(incompat, cause, package, q)
  <2>1. CASE term = AnyTerm
    BY <1>2, <1>6, <1>8, <2>1
  <2>2. CASE term # AnyTerm
    <3>1. Proper(resolvent', TermType) /\ Answers(resolvent, resolvent', package, {term})
      BY <1>2, <1>7, <1>8, <2>2, InsertProper
    <3> QED BY <1>6, <2>2, <3>1 DEF Answers
  <2> QED BY <2>1, <2>2
<1>10. TypeOK'
  BY <1>1 DEF Invariant, TypeOK
<1>11. MergeInvariant'
  BY <1>1, <1>2, <1>9 DEF MergeInvariant
<1> QED BY <1>10, <1>11 DEF Invariant

LEMMA UnchangedInvariant == Invariant /\ UNCHANGED vars => Invariant'
<1> SUFFICES ASSUME Invariant, UNCHANGED vars PROVE Invariant'
  OBVIOUS
<1>1. UNCHANGED <<map, returned, pc, package, incompat, cause, resolvent, pending>>
  BY DEF vars, priorCauseVars
<1>2. PendingRight => PendingRight'
  BY <1>1 DEF PendingRight
<1>3. SoFar => SoFar'
  BY <1>1 DEF SoFar, StillComes
<1>4. MergeInvariant'
  BY <1>1, <1>2, <1>3 DEF Invariant, MergeInvariant
<1> QED BY <1>1, <1>4 DEF Invariant, TypeOK

LEMMA NextInvariant == Invariant /\ [Next]_vars => Invariant'
<1> SUFFICES ASSUME Invariant, [Next]_vars PROVE Invariant'
  OBVIOUS
<1>1. ASSUME NEW p \in Packages, NEW t \in Terms,
             Insert(p, t) \/ Update(p, t) \/ Remove(p) \/ Lookup(p)
      PROVE  Invariant'
  <2>1. pc = "edit" /\ UNCHANGED <<pc, package, incompat, cause, resolvent, pending>>
    BY <1>1 DEF Insert, Update, Remove, Lookup, Editing, priorCauseVars
  <2>2. map' \in ProperMaps /\ returned' \subseteq Terms
    BY <1>1, EditType DEF Invariant
  <2>3. TypeOK'
    BY <2>1, <2>2 DEF Invariant, TypeOK
  <2>4. MergeInvariant'
    BY <2>1 DEF MergeInvariant
  <2> QED BY <2>3, <2>4 DEF Invariant
<1>2. ASSUME NEW p \in Packages, Remove(p) \/ Lookup(p) PROVE Invariant'
  <2>1. pc = "edit" /\ UNCHANGED <<pc, package, incompat, cause, resolvent, pending>>
    BY <1>2 DEF Remove, Lookup, Editing, priorCauseVars
  <2>2. map' \in ProperMaps /\ returned' \subseteq Terms
    <3>1. Proper(map, Terms) /\ Map!Get(map, p) \subseteq Terms
      BY ProperMapsMeaning, GetProper DEF Invariant, TypeOK
    <3> QED BY <1>2, <3>1, WithoutProper, ProperMapsMeaning DEF Remove, Lookup
  <2>3. TypeOK'
    BY <2>1, <2>2 DEF Invariant, TypeOK
  <2>4. MergeInvariant'
    BY <2>1 DEF MergeInvariant
  <2> QED BY <2>3, <2>4 DEF Invariant
<1>3. CASE Split
  BY <1>3, SplitInvariant DEF Invariant
<1>4. CASE SkipPackage
  BY <1>4, SkipInvariant
<1>5. CASE MergeCauseTerm
  BY <1>5, MergeCauseInvariant
<1>6. CASE EndMerge
  BY <1>6, EndMergeInvariant
<1>7. CASE InsertUnion
  BY <1>7, InsertUnionInvariant
<1>8. CASE Done \/ UNCHANGED vars
  BY <1>8, UnchangedInvariant DEF Done
<1> QED BY <1>1, <1>2, <1>3, <1>4, <1>5, <1>6, <1>7, <1>8 DEF Next

LEMMA AlwaysRight == Spec => []Invariant
<1>1. Init => Invariant
  BY InitInvariant
<1>2. Invariant /\ [Next]_vars => Invariant'
  BY NextInvariant
<1> QED BY <1>1, <1>2, PTL DEF Spec

-----------------------------------------------------------------------------
(* What the runs check *)

\* TypeOK: a SmallMap never holds a key twice, in any of its representations
\* and through any sequence of its calls.
THEOREM MapAlwaysProper == Spec => []TypeOK
<1>1. Invariant => TypeOK
  BY DEF Invariant
<1> QED BY <1>1, AlwaysRight, PTL

\* ResolventExact: prior_cause computes the rule of resolution, in whatever
\* order the entries of the cause are iterated over.
THEOREM ResolventAlwaysExact == Spec => []ResolventExact
<1>1. ASSUME Invariant, pc = "done"
      PROVE  LET terms == Map!Entries(resolvent)
             IN  /\ terms = PriorCauseTerms(Map!Entries(incompat), Map!Entries(cause), package)
                 /\ Map!Length(resolvent) = Cardinality(IncompatPackages(terms))
  <2>1. /\ Argument(incompat, package) /\ Argument(cause, package) /\ Proper(resolvent, TermType)
        /\ \A q : Map!Get(resolvent, q) = ResolventValues(incompat, cause, package, q)
    BY <1>1 DEF Invariant, MergeInvariant
  <2>2. PICK terms : terms = Map!Entries(resolvent)
    OBVIOUS
  <2>3. PICK rule : rule = PriorCauseTerms(Map!Entries(incompat), Map!Entries(cause), package)
    OBVIOUS
  <2>4. ASSUME NEW x
        PROVE  x \in terms <=> x \in Packages \X TermType /\ Map!Get(resolvent, x[1]) = {x[2]}
    BY <2>1, <2>2, EntriesProper
  <2>5. ASSUME NEW x PROVE x \in terms <=> x \in rule
    <3>1. x \in rule <=> x \in Packages \X TermType
                         /\ ResolventValues(incompat, cause, package, x[1]) = {x[2]}
      BY <2>1, <2>3, PriorCauseEntries
    <3> QED BY <2>1, <2>4, <3>1
  <2>6. terms \subseteq rule /\ rule \subseteq terms
    BY <2>5
  <2>7. IncompatPackages(terms) = {k \in Packages : Map!HasKey(resolvent, k)}
    <3>1. ASSUME NEW k \in Packages, Map!HasKey(resolvent, k) PROVE k \in IncompatPackages(terms)
      <4>1. PICK v \in TermType : Map!Get(resolvent, k) = {v}
        BY <2>1, <3>1, GetProper DEF Map!HasKey
      <4>2. PICK x : x = <<k, v>>
        OBVIOUS
      <4>3. x \in terms /\ x[1] = k
        BY <2>4, <4>1, <4>2
      <4> QED BY <4>3 DEF IncompatPackages
    <3>2. ASSUME NEW k \in IncompatPackages(terms) PROVE k \in Packages /\ Map!HasKey(resolvent, k)
      <4>1. PICK x \in terms : k = x[1]
        BY DEF IncompatPackages
      <4> QED BY <2>4, <4>1 DEF Map!HasKey
    <3> QED BY <3>1, <3>2
  <2>8. Map!Length(resolvent) = Cardinality({k \in Packages : Map!HasKey(resolvent, k)})
    BY <2>1, LengthProper
  <2> QED BY <2>2, <2>3, <2>6, <2>7, <2>8
<1>2. Invariant => ResolventExact
  BY <1>1 DEF ResolventExact
<1> QED BY <1>2, AlwaysRight, PTL

\* The content of a map.
ContentOf(m) == [q \in {k \in Packages : Map!HasKey(m, k)} |-> Value(m, q)]

LEMMA ContentMeaning ==
    ASSUME NEW values, NEW m, Proper(m, values)
    PROVE  /\ \A q : q \in DOMAIN ContentOf(m) <=> Map!Get(m, q) # {}
           /\ \A q \in DOMAIN ContentOf(m) : Map!Get(m, q) = {ContentOf(m)[q]}
           /\ ContentOf(m) = [q \in DOMAIN ContentOf(m) |-> ContentOf(m)[q]]
<1>1. PICK f : f = ContentOf(m)
  OBVIOUS
<1>2. \A q : q \in DOMAIN f <=> q \in Packages /\ Map!Get(m, q) # {}
  BY <1>1 DEF ContentOf, Map!HasKey
<1>3. \A q \in DOMAIN f : f[q] = Value(m, q)
  BY <1>1 DEF ContentOf
<1>4. ASSUME NEW q, Map!Get(m, q) # {}
      PROVE  q \in Packages /\ Map!Get(m, q) = {Value(m, q)}
  <2>1. PICK v \in values : q \in Packages /\ Map!Get(m, q) = {v}
    BY <1>4, GetProper
  <2> QED BY <2>1, ValueOne
<1>5. f = [q \in DOMAIN f |-> f[q]]
  BY <1>1 DEF ContentOf
<1> QED BY <1>1, <1>2, <1>3, <1>4, <1>5

\* What a call does to what get answers is what it does to the content.
LEMMA ContentPut ==
    ASSUME NEW values, NEW m, NEW n, Proper(m, values), Proper(n, values), NEW k, NEW v,
           Answers(m, n, k, {v})
    PROVE  ContentOf(n) = Extended(ContentOf(m), k, v)
<1>1. PICK f, g : f = ContentOf(m) /\ g = ContentOf(n)
  OBVIOUS
<1>2. /\ \A q : q \in DOMAIN f <=> Map!Get(m, q) # {}
      /\ \A q \in DOMAIN f : Map!Get(m, q) = {f[q]}
  BY <1>1, ContentMeaning
<1>3. /\ \A q : q \in DOMAIN g <=> Map!Get(n, q) # {}
      /\ \A q \in DOMAIN g : Map!Get(n, q) = {g[q]}
      /\ g = [q \in DOMAIN g |-> g[q]]
  BY <1>1, ContentMeaning
<1>4. \A j : Map!Get(n, j) = IF j = k THEN {v} ELSE Map!Get(m, j)
  BY DEF Answers
<1>5. DOMAIN g = DOMAIN f \cup {k}
  BY <1>2, <1>3, <1>4
<1>6. \A j \in DOMAIN g : g[j] = IF j = k THEN v ELSE f[j]
  BY <1>2, <1>3, <1>4, <1>5
<1> QED BY <1>1, <1>3, <1>5, <1>6 DEF Extended

LEMMA ContentRemove ==
    ASSUME NEW values, NEW m, NEW n, Proper(m, values), Proper(n, values), NEW k,
           Answers(m, n, k, {})
    PROVE  ContentOf(n) = Reduced(ContentOf(m), k)
<1>1. PICK f, g : f = ContentOf(m) /\ g = ContentOf(n)
  OBVIOUS
<1>2. /\ \A q : q \in DOMAIN f <=> Map!Get(m, q) # {}
      /\ \A q \in DOMAIN f : Map!Get(m, q) = {f[q]}
  BY <1>1, ContentMeaning
<1>3. /\ \A q : q \in DOMAIN g <=> Map!Get(n, q) # {}
      /\ \A q \in DOMAIN g : Map!Get(n, q) = {g[q]}
      /\ g = [q \in DOMAIN g |-> g[q]]
  BY <1>1, ContentMeaning
<1>4. \A j : Map!Get(n, j) = IF j = k THEN {} ELSE Map!Get(m, j)
  BY DEF Answers
<1>5. DOMAIN g = DOMAIN f \ {k}
  BY <1>2, <1>3, <1>4
<1>6. \A j \in DOMAIN g : g[j] = f[j]
  BY <1>2, <1>3, <1>4, <1>5
<1> QED BY <1>1, <1>3, <1>5, <1>6 DEF Reduced

LEMMA ContentLookup ==
    ASSUME Proper(map, Terms), NEW k
    PROVE  AbstractMap!Lookup(k) = Map!Get(map, k)
<1>1. PICK f : f = Content
  OBVIOUS
<1>2. f = ContentOf(map)
  BY <1>1 DEF Content, ContentOf
<1>3. /\ \A q : q \in DOMAIN f <=> Map!Get(map, q) # {}
      /\ \A q \in DOMAIN f : Map!Get(map, q) = {f[q]}
  BY <1>2, ContentMeaning
<1>4. AbstractMap!Lookup(k) = {f[j] : j \in DOMAIN f \cap {k}}
  BY <1>1 DEF AbstractMap!Lookup
<1>5. CASE k \in DOMAIN f
  BY <1>3, <1>4, <1>5
<1>6. CASE k \notin DOMAIN f
  BY <1>3, <1>4, <1>6
<1> QED BY <1>5, <1>6

\* Every step is a step of the map, or leaves it alone.
LEMMA MapStep == TypeOK /\ [Next]_vars => [AbstractMap!Next]_<<Content, returned>>
<1> SUFFICES ASSUME TypeOK, [Next]_vars PROVE [AbstractMap!Next]_<<Content, returned>>
  OBVIOUS
<1>1. Proper(map, Terms)
  BY ProperMapsMeaning DEF TypeOK
<1>2. PICK f : f = Content
  OBVIOUS
<1>3. PICK g : g = Content'
  OBVIOUS
<1>4. f = ContentOf(map) /\ g = ContentOf(map')
  BY <1>2, <1>3 DEF Content, ContentOf
<1>5. /\ \A q : q \in DOMAIN f <=> Map!Get(map, q) # {}
      /\ f = [q \in DOMAIN f |-> f[q]]
  BY <1>1, <1>4, ContentMeaning
<1>6. ASSUME NEW p \in Packages, NEW t \in Terms, Insert(p, t)
      PROVE  AbstractMap!Put(p, t)
  <2>1. map' = Map!Insert(map, p, t) /\ returned' = {}
    BY <1>6 DEF Insert
  <2>2. Proper(map', Terms) /\ Answers(map, map', p, {t})
    BY <1>1, <2>1, InsertProper
  <2>3. g = Extended(f, p, t)
    BY <1>1, <1>4, <2>2, ContentPut
  <2> QED BY <1>2, <1>3, <2>1, <2>3 DEF AbstractMap!Put, Extended
<1>7. ASSUME NEW p \in Packages, NEW t \in Terms, Update(p, t)
      PROVE  AbstractMap!Update(p, t)
  <2>1. map' = Map!Assign(map, p, t) /\ returned' = Map!Get(map, p)
    BY <1>7 DEF Update
  <2>2. returned' = AbstractMap!Lookup(p)
    BY <1>1, <2>1, ContentLookup
  <2>3. g = [j \in DOMAIN f |-> IF j = p THEN t ELSE f[j]]
    <3>1. CASE Map!HasKey(map, p)
      <4>1. Proper(map', Terms) /\ Answers(map, map', p, {t})
        BY <1>1, <2>1, <3>1, AssignProper
      <4>2. g = Extended(f, p, t)
        BY <1>1, <1>4, <4>1, ContentPut
      <4>3. DOMAIN f \cup {p} = DOMAIN f
        BY <1>5, <3>1 DEF Map!HasKey
      <4> QED BY <4>2, <4>3 DEF Extended
    <3>2. CASE ~Map!HasKey(map, p)
      <4>1. g = f
        BY <1>1, <1>4, <2>1, <3>2, AssignNone
      <4>2. p \notin DOMAIN f
        BY <1>5, <3>2 DEF Map!HasKey
      <4>3. [j \in DOMAIN f |-> IF j = p THEN t ELSE f[j]] = [j \in DOMAIN f |-> f[j]]
        BY <4>2
      <4> QED BY <1>5, <4>1, <4>3
    <3> QED BY <3>1, <3>2
  <2> QED BY <1>2, <1>3, <2>2, <2>3 DEF AbstractMap!Update
<1>8. ASSUME NEW p \in Packages, Remove(p)
      PROVE  AbstractMap!Remove(p)
  <2>1. map' = Map!Without(map, p) /\ returned' = Map!Get(map, p)
    BY <1>8 DEF Remove
  <2>2. returned' = AbstractMap!Lookup(p)
    BY <1>1, <2>1, ContentLookup
  <2>3. Proper(map', Terms) /\ Answers(map, map', p, {})
    BY <1>1, <2>1, WithoutProper
  <2>4. g = Reduced(f, p)
    BY <1>1, <1>4, <2>3, ContentRemove
  <2> QED BY <1>2, <1>3, <2>2, <2>4 DEF AbstractMap!Remove, Reduced
<1>9. ASSUME NEW p \in Packages, Lookup(p)
      PROVE  AbstractMap!Get(p)
  <2>1. map' = map /\ returned' = Map!Get(map, p)
    BY <1>9 DEF Lookup
  <2>2. returned' = AbstractMap!Lookup(p)
    BY <1>1, <2>1, ContentLookup
  <2> QED BY <1>2, <1>3, <1>4, <2>1, <2>2 DEF AbstractMap!Get
<1>10. ASSUME map' = map, returned' = returned PROVE UNCHANGED <<Content, returned>>
  BY <1>2, <1>3, <1>4, <1>10
<1>11. CASE Split \/ SkipPackage \/ MergeCauseTerm \/ EndMerge \/ InsertUnion \/ Done
            \/ UNCHANGED vars
  BY <1>10, <1>11 DEF Split, SkipPackage, MergeCauseTerm, Merging, EndMerge, InsertUnion, Done, vars
<1> QED BY <1>6, <1>7, <1>8, <1>9, <1>11 DEF Next, AbstractMap!Next

\* IsMap: in whatever representation, a SmallMap behaves as a map: each method
\* answers, and changes the content, as the method of a map would.
THEOREM AlwaysMap == Spec => IsMap
<1>1. Init => AbstractMap!Init
  <2> SUFFICES ASSUME Init PROVE AbstractMap!Init
    OBVIOUS
  <2>1. map = Map!Empty /\ returned = {}
    BY DEF Init
  <2>2. {q \in Packages : Map!HasKey(map, q)} = {}
    BY <2>1, GetEmpty DEF Map!HasKey
  <2>3. Content = << >>
    BY <2>2 DEF Content
  <2> QED BY <2>1, <2>3 DEF AbstractMap!Init
<1>2. TypeOK /\ [Next]_vars => [AbstractMap!Next]_<<Content, returned>>
  BY MapStep
<1>3. Spec => []TypeOK
  BY MapAlwaysProper
<1>4. AbstractMap!vars = <<Content, returned>>
  BY DEF AbstractMap!vars
<1> QED BY <1>1, <1>2, <1>3, PTL DEF Spec, IsMap, AbstractMap!Spec, AbstractMap!vars
=============================================================================
