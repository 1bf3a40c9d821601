--------------------------- MODULE ReportTheorems ---------------------------
(***************************************************************************)
(* Whatever `resolve' fails with, building the tree of its explanation     *)
(* does not panic: the visit leaves no cause out, and a cause has a        *)
(* smaller id than what is derived from it; and what it calls shared is    *)
(* what it put on the stack twice, once for each use.  The report of that  *)
(* tree is one a reader can follow: every task of `todo' leaves the        *)
(* conclusion of its node as the last line, which is what the task after   *)
(* it goes on from, and a line reference is only used once a line has it.  *)
(***************************************************************************)
EXTENDS Report, TLAPS, SequenceTheorems, FiniteSetTheorems

-----------------------------------------------------------------------------
(* The tree. *)

\* Ids of the store that are not larger than the terminal one.
UpToRoot == {id \in DOMAIN causes : id <= incompat}

Stacked(id) == \E i \in DOMAIN stack : stack[i] = id

\* Between two steps of the visit, what is not visited yet is on the stack.
TreeInvariant ==
    /\ IsDerivation(causes)
    /\ incompat \in DOMAIN causes
    /\ allIds \subseteq UpToRoot
    /\ stack \in Seq(UpToRoot)
    /\ incompat \in allIds \/ Stacked(incompat)
    /\ \A id \in allIds : \A c \in CausesOf(id) : c \in allIds \/ Stacked(c)
    /\ phase # "visit" => stack = << >>
    /\ DOMAIN precomputed \subseteq allIds

-----------------------------------------------------------------------------

\* The causes of an incompatibility: two that are older, or none.
LEMMA CausesOlder ==
    ASSUME TreeInvariant, NEW id \in UpToRoot
    PROVE  /\ causes[id] = << >> => CausesOf(id) = {}
           /\ causes[id] # << >> => \E c1, c2 \in UpToRoot : causes[id] = <<c1, c2>>
           /\ id \in Nat
           /\ \A c \in CausesOf(id) : c \in UpToRoot /\ c < id
<1>1. /\ causes \in Seq({<< >>} \cup (Nat \X Nat)) /\ DOMAIN causes = 1 .. Len(causes)
      /\ Len(causes) \in Nat /\ id \in 1 .. Len(causes)
      /\ incompat \in 1 .. Len(causes) /\ id <= incompat
  BY DEF TreeInvariant, IsDerivation, UpToRoot
<1>2. \A k \in DOMAIN causes[id] : causes[id][k] \in 1 .. id - 1
  BY <1>1 DEF TreeInvariant, IsDerivation
<1>3. 1 .. id - 1 \subseteq UpToRoot /\ \A c \in 1 .. id - 1 : c < id
  BY <1>1 DEF UpToRoot
<1>4. CASE causes[id] = << >>
  <2>1. CausesOf(id) = {}
    BY <1>4 DEF CausesOf
  <2> QED BY <1>1, <1>4, <2>1
<1>5. CASE causes[id] # << >>
  <2>1. causes[id] \in Nat \X Nat
    BY <1>1, <1>5
  <2>2. PICK c1, c2 \in Nat : causes[id] = <<c1, c2>>
    BY <2>1
  <2>3. c1 \in 1 .. id - 1 /\ c2 \in 1 .. id - 1
    BY <1>2, <2>2
  <2>4. CausesOf(id) = {c1, c2}
    BY <2>2 DEF CausesOf
  <2> QED BY <1>1, <1>3, <1>5, <2>2, <2>3, <2>4
<1> QED BY <1>4, <1>5

\* The top of the stack, and what is below it.
LEMMA StackParts ==
    ASSUME TreeInvariant, stack # << >>
    PROVE  /\ Top \in UpToRoot /\ Popped \in Seq(UpToRoot)
           /\ \A id : Stacked(id) <=> id = Top \/ \E i \in DOMAIN Popped : Popped[i] = id
<1>1. stack \in Seq(UpToRoot) /\ Len(stack) \in Nat \ {0} /\ DOMAIN stack = 1 .. Len(stack)
  BY DEF TreeInvariant
<1>2. Top \in UpToRoot
  BY <1>1 DEF Top
<1>3. /\ Popped \in Seq(UpToRoot) /\ DOMAIN Popped = 1 .. Len(stack) - 1
      /\ \A i \in 1 .. Len(stack) - 1 : Popped[i] = stack[i]
  BY <1>1 DEF Popped
<1>4. ASSUME NEW id
      PROVE  Stacked(id) <=> id = Top \/ \E i \in DOMAIN Popped : Popped[i] = id
  BY <1>1, <1>3 DEF Stacked, Top
<1> QED BY <1>2, <1>3, <1>4

\* The root is put on an empty stack.
LEMMA TreeInitInvariant == Init => TreeInvariant
<1> SUFFICES ASSUME Init PROVE TreeInvariant
  OBVIOUS
<1>1. PICK f \in Failures : causes = f.causes /\ incompat = f.incompat
  BY DEF Init, TreeInit
<1>2. IsDerivation(causes) /\ incompat \in DOMAIN causes
  BY <1>1, FailuresAssumption
<1>3. incompat \in Nat
  BY <1>2 DEF IsDerivation
<1>4. incompat \in UpToRoot
  BY <1>2, <1>3 DEF UpToRoot
<1>5. stack = <<incompat>> /\ allIds = {} /\ phase = "visit" /\ precomputed = << >>
  BY DEF Init, TreeInit
<1>6. stack \in Seq(UpToRoot) /\ Stacked(incompat)
  BY <1>4, <1>5 DEF Stacked
<1> QED BY <1>2, <1>5, <1>6 DEF TreeInvariant

\* Visiting an external incompatibility, or one met before, takes it off the
\* stack: its causes are known.
LEMMA PopStep ==
    ASSUME TreeInvariant, VisitExternal \/ VisitAgain
    PROVE  TreeInvariant'
<1>1. /\ stack # << >> /\ stack' = Popped /\ phase = "visit" /\ phase' = "visit"
      /\ allIds' = allIds \cup {Top} /\ UNCHANGED <<causes, incompat, precomputed>>
  BY DEF VisitExternal, VisitAgain, Visiting
<1>2. /\ Top \in UpToRoot /\ Popped \in Seq(UpToRoot)
      /\ \A id : Stacked(id) => id = Top \/ \E i \in DOMAIN Popped : Popped[i] = id
  BY <1>1, StackParts
<1>3. UpToRoot' = UpToRoot /\ \A id : CausesOf(id)' = CausesOf(id)
  BY <1>1 DEF UpToRoot, CausesOf
<1>4. \A id : Stacked(id) => id \in allIds' \/ Stacked(id)'
  BY <1>1, <1>2 DEF Stacked
<1>5. \A c \in CausesOf(Top) : c \in allIds \/ Stacked(c)
  <2>1. CASE VisitExternal
    <3>1. CausesOf(Top) = {}
      BY <1>2, <2>1, CausesOlder DEF VisitExternal, IsDerived
    <3> QED BY <3>1
  <2>2. CASE VisitAgain
    BY <2>2 DEF VisitAgain, TreeInvariant
  <2> QED BY <2>1, <2>2
<1>6. (incompat \in allIds \/ Stacked(incompat))'
  <2>1. incompat \in allIds' \/ Stacked(incompat)
    BY <1>1 DEF TreeInvariant
  <2> QED BY <1>1, <1>4, <2>1 DEF Stacked
<1>7. \A id \in allIds' : \A c \in CausesOf(id) : c \in allIds' \/ Stacked(c)'
  BY <1>1, <1>4, <1>5 DEF TreeInvariant
<1>8. (\A id \in allIds : \A c \in CausesOf(id) : c \in allIds \/ Stacked(c))'
  BY <1>3, <1>7
<1>9. allIds' \subseteq UpToRoot' /\ stack' \in Seq(UpToRoot')
  BY <1>1, <1>2, <1>3 DEF TreeInvariant
<1> QED BY <1>1, <1>6, <1>8, <1>9 DEF TreeInvariant

\* What is visited for the first time leaves its causes on the stack.
LEMMA VisitFirstStep ==
    ASSUME TreeInvariant, VisitFirst
    PROVE  TreeInvariant'
<1>1. /\ stack # << >> /\ stack' = Popped \o causes[Top] /\ causes[Top] # << >>
      /\ phase = "visit" /\ phase' = "visit"
      /\ allIds' = allIds \cup {Top} /\ UNCHANGED <<causes, incompat, precomputed>>
  BY DEF VisitFirst, Visiting, PushCauses, IsDerived
<1>2. /\ Top \in UpToRoot /\ Popped \in Seq(UpToRoot)
      /\ \A id : Stacked(id) => id = Top \/ \E i \in DOMAIN Popped : Popped[i] = id
  BY <1>1, StackParts
<1>3. PICK c1, c2 \in UpToRoot : causes[Top] = <<c1, c2>>
  BY <1>1, <1>2, CausesOlder
<1>4. UpToRoot' = UpToRoot /\ \A id : CausesOf(id)' = CausesOf(id)
  BY <1>1 DEF UpToRoot, CausesOf
<1>5. CausesOf(Top) = {c1, c2}
  BY <1>3 DEF CausesOf
<1> DEFINE rest == Popped
           n    == Len(rest)
<1>6. rest \in Seq(UpToRoot) /\ n \in Nat /\ DOMAIN rest = 1 .. n
  BY <1>2
<1>7. stack' = rest \o <<c1, c2>>
  BY <1>1, <1>3
<1> HIDE DEF rest
<1>8. /\ stack' \in Seq(UpToRoot) /\ DOMAIN stack' = 1 .. n + 2
      /\ \A i \in 1 .. n : stack'[i] = rest[i]
      /\ stack'[n + 1] = c1 /\ stack'[n + 2] = c2
  BY <1>6, <1>7
<1>9. \A id : Stacked(id) => id \in allIds' \/ Stacked(id)'
  <2>1. ASSUME NEW i \in DOMAIN rest
        PROVE  \E j \in DOMAIN stack' : stack'[j] = rest[i]
    BY <1>6, <1>8
  <2>2. ASSUME NEW id, Stacked(id)
        PROVE  id \in allIds' \/ Stacked(id)'
    <3>1. id = Top \/ \E i \in DOMAIN rest : rest[i] = id
      BY <1>2, <2>2 DEF rest
    <3>2. CASE id = Top
      BY <1>1, <3>2
    <3>3. CASE \E i \in DOMAIN rest : rest[i] = id
      BY <2>1, <3>3 DEF Stacked
    <3> QED BY <3>1, <3>2, <3>3
  <2> QED BY <2>2
<1>10. Stacked(c1)' /\ Stacked(c2)'
  BY <1>6, <1>8 DEF Stacked
<1>11. (incompat \in allIds \/ Stacked(incompat))'
  <2>1. incompat \in allIds' \/ Stacked(incompat)
    BY <1>1 DEF TreeInvariant
  <2> QED BY <1>1, <1>9, <2>1 DEF Stacked
<1>12. \A id \in allIds' : \A c \in CausesOf(id) : c \in allIds' \/ Stacked(c)'
  BY <1>1, <1>5, <1>9, <1>10 DEF TreeInvariant
<1>13. (\A id \in allIds : \A c \in CausesOf(id) : c \in allIds \/ Stacked(c))'
  BY <1>4, <1>12
<1>14. allIds' \subseteq UpToRoot' /\ stack' \in Seq(UpToRoot')
  BY <1>1, <1>2, <1>4, <1>8 DEF TreeInvariant
<1> QED BY <1>1, <1>11, <1>13, <1>14 DEF TreeInvariant

\* The other steps leave what was found alone; the report starts when the tree
\* is built.
LEMMA LaterStep ==
    ASSUME TreeInvariant,
           UNCHANGED <<causes, incompat, stack, allIds>>,
           phase' = "visit" => phase = "visit",
           phase' # "visit" => stack = << >>,
           DOMAIN precomputed' \subseteq allIds
    PROVE  TreeInvariant'
<1>1. UpToRoot' = UpToRoot /\ \A id : CausesOf(id)' = CausesOf(id)
  BY DEF UpToRoot, CausesOf
<1>2. \A id : Stacked(id)' <=> Stacked(id)
  BY DEF Stacked
<1> QED BY <1>1, <1>2 DEF TreeInvariant

\* The report changes nothing of the tree.
LEMMA ReportKeepsTree ==
    ASSUME ReportNext
    PROVE  /\ UNCHANGED <<causes, incompat, stack, allIds, sharedIds, precomputed>>
           /\ phase \in {"tree", "report"} /\ phase' \in {"report", "done"}
<1>1. CASE ReportExternal \/ ReportDerived \/ EndReport
  BY <1>1 DEF ReportExternal, ReportDerived, EndReport
<1>2. CASE NumberShared \/ NumberNothing \/ SayLine
  BY <1>2 DEF NumberShared, NumberNothing, SayLine, Doing, treeVars
<1>3. CASE ExplainBothExternal \/ ExplainBothRef \/ ExplainOtherThenRef \/ ExplainFirst
  BY <1>3 DEF ExplainBothExternal, ExplainBothRef, ExplainOtherThenRef, ExplainFirst, Doing, treeVars
<1>4. CASE ResumeWithRef \/ ResumeUnshared
  BY <1>4 DEF ResumeWithRef, ResumeUnshared, Doing, treeVars
<1>5. CASE ReportRefAndExternal \/ ReportChained \/ ReportThenExternal
  BY <1>5 DEF ReportRefAndExternal, ReportChained, ReportThenExternal, Doing, treeVars
<1> QED BY <1>1, <1>2, <1>3, <1>4, <1>5 DEF ReportNext

\* Every step keeps the invariant.
LEMMA TreeNextInvariant == TreeInvariant /\ [Next]_vars => TreeInvariant'
<1> SUFFICES ASSUME TreeInvariant, [Next]_vars PROVE TreeInvariant'
  OBVIOUS
<1>1. CASE VisitExternal \/ VisitAgain
  BY <1>1, PopStep
<1>2. CASE VisitFirst
  BY <1>2, VisitFirstStep
<1>3. CASE EndVisit
  BY <1>3, LaterStep DEF EndVisit, TreeInvariant
<1>4. CASE BuildNode
  <2>1. PICK id \in allIds : DOMAIN precomputed' = DOMAIN precomputed \cup {id}
    BY <1>4 DEF BuildNode
  <2> QED BY <1>4, <2>1, LaterStep DEF BuildNode, TreeInvariant
<1>5. CASE EndBuild
  BY <1>5, LaterStep DEF EndBuild, TreeInvariant
<1>6. CASE ReportNext
  <2>1. /\ UNCHANGED <<causes, incompat, stack, allIds, precomputed>>
        /\ phase \in {"tree", "report"} /\ phase' \in {"report", "done"}
    BY <1>6, ReportKeepsTree
  <2> QED BY <2>1, LaterStep DEF TreeInvariant
<1>7. CASE Reported \/ UNCHANGED vars
  <2>1. UNCHANGED <<causes, incompat, phase, stack, allIds, precomputed>>
    BY <1>7 DEF Reported, vars, treeVars
  <2> QED BY <2>1, LaterStep DEF TreeInvariant
<1> QED BY <1>1, <1>2, <1>3, <1>4, <1>5, <1>6, <1>7 DEF Next, TreeNext

\* Nothing of build_derivation_tree panics, however many incompatibilities
\* there are and however they share causes: `expect("Non-topological calls
\* building tree")' finds the causes of a node built, the root is built at the
\* end, and it is no cause, so that its Arc is the only one.
THEOREM TreeNeverPanics == Spec => []NoTreePanic
<1>1. Init => TreeInvariant
  BY TreeInitInvariant
<1>2. TreeInvariant /\ [Next]_vars => TreeInvariant'
  BY TreeNextInvariant
<1>3. TreeInvariant => NoTreePanic
  <2> SUFFICES ASSUME TreeInvariant, phase = "build" PROVE NoTreePanic
    BY DEF NoTreePanic
  <2>1. /\ incompat \in allIds
        /\ \A id \in allIds : id \in UpToRoot /\ CausesOf(id) \subseteq allIds
    BY DEF TreeInvariant, Stacked
  <2>2. \A id \in allIds : id \in Nat /\ id <= incompat /\ \A c \in CausesOf(id) : c \in Nat /\ c < id
    BY <2>1, CausesOlder DEF UpToRoot
  <2>3. ASSUME NEW id \in allIds, IsNextToBuild(id), NEW c \in CausesOf(id)
        PROVE  c \in DOMAIN precomputed
    <3>1. c \in allIds /\ c < id /\ c \in Nat /\ id \in Nat
      BY <2>1, <2>2
    <3>2. c \in Unbuilt => id <= c
      BY <2>3 DEF IsNextToBuild
    <3> QED BY <3>1, <3>2 DEF Unbuilt
  <2>4. Unbuilt = {} => incompat \in DOMAIN precomputed
    BY <2>1 DEF Unbuilt
  <2>5. ASSUME NEW id \in DOMAIN precomputed
        PROVE  incompat \notin CausesOf(id)
    <3>1. id \in allIds
      BY DEF TreeInvariant
    <3> QED BY <2>1, <2>2, <3>1
  <2> QED BY <2>3, <2>4, <2>5 DEF NoTreePanic
<1> QED BY <1>1, <1>2, <1>3, PTL DEF Spec

-----------------------------------------------------------------------------
(* What is shared. *)

One(b) == IF b THEN 1 ELSE 0

\* How often an id was put on the stack, and how often it still lies there.
Places(id)  == {i \in DOMAIN stack : stack[i] = id}
Waiting(id) == Cardinality(Places(id))
Pushes(id)  == Cardinality(Uses(id)) + One(id = incompat)

\* Each use of an incompatibility puts it on the stack once: what is on the
\* stack no more was met, for the first time or again.
CountsRight(id) ==
    /\ id \notin allIds => Pushes(id) = Waiting(id)
    /\ id \in allIds \ sharedIds => Pushes(id) = Waiting(id) + 1
    /\ id \in sharedIds => Pushes(id) >= Waiting(id) + 2

VisitInvariant ==
    /\ sharedIds \subseteq {id \in allIds : IsDerived(id)}
    /\ \A id \in UpToRoot : id \in allIds \/ Stacked(id) => id = incompat \/ Uses(id) # {}
    /\ \A id \in UpToRoot : IsDerived(id) => CountsRight(id)

\* Counting one more, or none.
OneMore(S, b, x) == S \cup (IF b THEN {x} ELSE {})

LEMMA CountOneMore ==
    ASSUME NEW S, IsFiniteSet(S), NEW x, x \notin S, NEW b \in BOOLEAN
    PROVE  /\ IsFiniteSet(OneMore(S, b, x))
           /\ Cardinality(OneMore(S, b, x)) = Cardinality(S) + One(b)
<1>1. CASE b
  <2>1. OneMore(S, b, x) = S \cup {x}
    BY <1>1 DEF OneMore
  <2> QED BY <1>1, <2>1, FS_AddElement DEF One
<1>2. CASE ~b
  <2>1. OneMore(S, b, x) = S
    BY <1>2 DEF OneMore
  <2> QED BY <1>2, <2>1, FS_CardinalityType DEF One
<1> QED BY <1>1, <1>2

LEMMA CountsFinite ==
    ASSUME TreeInvariant, NEW id
    PROVE  /\ IsFiniteSet(Places(id)) /\ Waiting(id) \in Nat
           /\ IsFiniteSet(Uses(id)) /\ Cardinality(Uses(id)) \in Nat
<1>1. stack \in Seq(UpToRoot) /\ Len(stack) \in Nat /\ DOMAIN stack = 1 .. Len(stack)
  BY DEF TreeInvariant
<1>2. IsFiniteSet(1 .. Len(stack)) /\ Places(id) \subseteq 1 .. Len(stack)
  BY <1>1, FS_Interval DEF Places
<1>3. IsFiniteSet(allIds)
  <2>1. causes \in Seq({<< >>} \cup (Nat \X Nat)) /\ Len(causes) \in Nat
        /\ DOMAIN causes = 1 .. Len(causes)
    BY DEF TreeInvariant, IsDerivation
  <2>2. allIds \subseteq 1 .. Len(causes) /\ IsFiniteSet(1 .. Len(causes))
    BY <2>1, FS_Interval DEF TreeInvariant, UpToRoot
  <2> QED BY <2>2, FS_Subset
<1>4. IsFiniteSet({1, 2})
  <2>1. IsFiniteSet({} \cup {1})
    BY FS_EmptySet, FS_AddElement
  <2>2. IsFiniteSet(({} \cup {1}) \cup {2}) /\ ({} \cup {1}) \cup {2} = {1, 2}
    BY <2>1, FS_AddElement
  <2> QED BY <2>2
<1>5. IsFiniteSet(allIds \X {1, 2}) /\ Uses(id) \subseteq allIds \X {1, 2}
  BY <1>3, <1>4, FS_Product DEF Uses
<1>6. IsFiniteSet(Places(id)) /\ IsFiniteSet(Uses(id))
  BY <1>2, <1>5, FS_Subset
<1> QED BY <1>6, FS_CardinalityType DEF Waiting

\* One place less for the top of the stack.
LEMMA PopPlaces ==
    ASSUME TreeInvariant, stack # << >>, NEW id
    PROVE  /\ IsFiniteSet(Places(id) \ {Len(stack)})
           /\ Cardinality(Places(id) \ {Len(stack)}) \in Nat
           /\ Waiting(id) = Cardinality(Places(id) \ {Len(stack)}) + One(id = Top)
<1>1. stack \in Seq(UpToRoot) /\ Len(stack) \in Nat \ {0} /\ DOMAIN stack = 1 .. Len(stack)
  BY DEF TreeInvariant
<1>2. Len(stack) \in Places(id) <=> id = Top
  BY <1>1 DEF Places, Top
<1>3. IsFiniteSet(Places(id)) /\ Waiting(id) \in Nat
  BY CountsFinite
<1>4. /\ IsFiniteSet(Places(id) \ {Len(stack)})
      /\ Cardinality(Places(id) \ {Len(stack)})
            = IF Len(stack) \in Places(id) THEN Waiting(id) - 1 ELSE Waiting(id)
  BY <1>3, FS_RemoveElement DEF Waiting
<1>5. Cardinality(Places(id) \ {Len(stack)}) \in Nat
  BY <1>4, FS_CardinalityType
<1> QED BY <1>2, <1>3, <1>4, <1>5 DEF One

LEMMA VisitInit == Init => VisitInvariant
<1> SUFFICES ASSUME Init PROVE VisitInvariant
  OBVIOUS
<1>1. stack = <<incompat>> /\ allIds = {} /\ sharedIds = {}
  BY DEF Init, TreeInit
<1>2. \A id : Uses(id) = {}
  BY <1>1 DEF Uses
<1>3. Cardinality({}) = 0 /\ Cardinality({1}) = 1
  <2>1. {} \cup {1} = {1}
    OBVIOUS
  <2> QED BY <2>1, FS_EmptySet, FS_AddElement
<1>4. ASSUME NEW id
      PROVE  CountsRight(id) /\ (Stacked(id) => id = incompat)
  <2>1. DOMAIN stack = {1} /\ stack[1] = incompat
    BY <1>1
  <2>2. CASE id = incompat
    <3>1. Places(id) = {1}
      BY <2>1, <2>2 DEF Places
    <3>2. Pushes(id) = 1 /\ Waiting(id) = 1
      BY <1>2, <1>3, <2>2, <3>1 DEF Pushes, Waiting, One
    <3> QED BY <1>1, <2>2, <3>2 DEF CountsRight
  <2>3. CASE id # incompat
    <3>1. Places(id) = {} /\ ~Stacked(id)
      BY <2>1, <2>3 DEF Places, Stacked
    <3>2. Pushes(id) = 0 /\ Waiting(id) = 0
      BY <1>2, <1>3, <2>3, <3>1 DEF Pushes, Waiting, One
    <3> QED BY <1>1, <3>1, <3>2 DEF CountsRight
  <2> QED BY <2>2, <2>3
<1> QED BY <1>1, <1>4 DEF VisitInvariant

\* Popping what is not derived, or what was met before.
LEMMA VisitPop ==
    ASSUME TreeInvariant, VisitInvariant, VisitExternal \/ VisitAgain
    PROVE  VisitInvariant'
<1>1. /\ stack # << >> /\ stack' = Popped
      /\ allIds' = allIds \cup {Top} /\ UNCHANGED <<causes, incompat>>
  BY DEF VisitExternal, VisitAgain, Visiting
<1>2. /\ Top \in UpToRoot
      /\ \A id : Stacked(id) <=> id = Top \/ \E i \in DOMAIN Popped : Popped[i] = id
  BY <1>1, StackParts
<1>3. UpToRoot' = UpToRoot /\ \A id : IsDerived(id)' <=> IsDerived(id)
  BY <1>1 DEF UpToRoot, IsDerived
<1>4. \A id : Uses(id)' = Uses(id)
  BY <1>1 DEF Uses, IsDerived, VisitExternal, VisitAgain
<1>5. \A id : Places(id)' = Places(id) \ {Len(stack)}
  <2>1. stack \in Seq(UpToRoot) /\ Len(stack) \in Nat \ {0} /\ DOMAIN stack = 1 .. Len(stack)
    BY <1>1 DEF TreeInvariant
  <2>2. DOMAIN Popped = 1 .. Len(stack) - 1 /\ \A i \in 1 .. Len(stack) - 1 : Popped[i] = stack[i]
    BY <2>1 DEF Popped
  <2> QED BY <1>1, <2>1, <2>2 DEF Places
<1>6. ASSUME NEW id
      PROVE  /\ Waiting(id) \in Nat /\ Waiting(id)' \in Nat /\ Pushes(id) \in Nat
             /\ Waiting(id) = Waiting(id)' + One(id = Top)
             /\ Pushes(id)' = Pushes(id)
  <2>1. /\ Waiting(id) = Cardinality(Places(id) \ {Len(stack)}) + One(id = Top)
        /\ Cardinality(Places(id) \ {Len(stack)}) \in Nat
    BY <1>1, PopPlaces
  <2>2. Waiting(id)' = Cardinality(Places(id) \ {Len(stack)})
    BY <1>5 DEF Waiting
  <2>3. Waiting(id) \in Nat /\ Cardinality(Uses(id)) \in Nat
    BY CountsFinite
  <2>4. Pushes(id) \in Nat /\ Pushes(id)' = Pushes(id)
    BY <1>1, <1>4, <2>3 DEF Pushes, One
  <2> QED BY <2>1, <2>2, <2>3, <2>4
<1>7. sharedIds' \subseteq {id \in allIds' : IsDerived(id)'}
  BY <1>1, <1>3 DEF VisitInvariant, VisitExternal, VisitAgain
<1>8. \A id \in UpToRoot : id \in allIds' \/ Stacked(id)' => id = incompat \/ Uses(id) # {}
  <2>1. \A id : Stacked(id)' => Stacked(id)
    BY <1>1, <1>2 DEF Stacked
  <2>2. Stacked(Top)
    BY <1>2
  <2> QED BY <1>1, <2>1, <2>2 DEF VisitInvariant
<1>9. ASSUME NEW id \in UpToRoot, IsDerived(id)
      PROVE  CountsRight(id)'
  <2>1. CountsRight(id)
    BY <1>9 DEF VisitInvariant
  <2>2. CASE id # Top
    <3>1. Waiting(id)' = Waiting(id)
      BY <1>6, <2>2 DEF One
    <3>2. id \in allIds' <=> id \in allIds
      BY <1>1, <2>2
    <3>3. id \in sharedIds' <=> id \in sharedIds
      BY <2>2 DEF VisitExternal, VisitAgain
    <3> QED BY <1>6, <2>1, <3>1, <3>2, <3>3 DEF CountsRight
  <2>3. CASE id = Top
    <3>1. id \in allIds /\ sharedIds' = sharedIds \cup {id} /\ allIds' = allIds \cup {id}
      BY <1>1, <1>9, <2>3 DEF VisitExternal, VisitAgain
    <3>2. Waiting(id) = Waiting(id)' + 1
      BY <1>6, <2>3 DEF One
    <3>3. Pushes(id) >= Waiting(id) + 1
      BY <1>6, <2>1, <3>1 DEF CountsRight
    <3>4. Pushes(id)' >= Waiting(id)' + 2
      BY <1>6, <3>2, <3>3
    <3> QED BY <3>1, <3>4 DEF CountsRight
  <2> QED BY <2>2, <2>3
<1>10. (\A id \in UpToRoot : id \in allIds \/ Stacked(id) => id = incompat \/ Uses(id) # {})'
  BY <1>1, <1>3, <1>4, <1>8
<1>11. (\A id \in UpToRoot : IsDerived(id) => CountsRight(id))'
  BY <1>3, <1>9
<1> QED BY <1>7, <1>10, <1>11 DEF VisitInvariant

\* The first visit of what is derived puts both its causes on the stack, and
\* these are two uses.
LEMMA VisitCauses ==
    ASSUME TreeInvariant, VisitFirst, NEW c1, NEW c2, causes[Top] = <<c1, c2>>, NEW id
    PROVE  /\ Waiting(id)' \in Nat
           /\ Waiting(id)' + One(id = Top) = Waiting(id) + One(id = c1) + One(id = c2)
           /\ Cardinality(Uses(id))' = Cardinality(Uses(id)) + One(id = c1) + One(id = c2)
           /\ Uses(id) \subseteq Uses(id)'
           /\ id \in {c1, c2} => Uses(id)' # {}
           /\ Stacked(id)' => Stacked(id) \/ id \in {c1, c2}
<1>1. /\ stack # << >> /\ stack' = Popped \o causes[Top] /\ Top \notin allIds
      /\ allIds' = allIds \cup {Top} /\ UNCHANGED <<causes, incompat>>
  BY DEF VisitFirst, Visiting, PushCauses, IsDerived
<1>2. PICK n \in Nat : n = Len(stack) - 1
  <2>1. Len(stack) \in Nat /\ Len(stack) # 0
    BY <1>1 DEF TreeInvariant
  <2>2. Len(stack) - 1 \in Nat
    BY <2>1
  <2> QED BY <2>2
<1>3. /\ Len(stack) = n + 1 /\ DOMAIN stack = 1 .. n + 1 /\ Len(Popped) = n
       /\ \A i \in 1 .. n : Popped[i] = stack[i]
  <2>1. stack \in Seq(UpToRoot) /\ Len(stack) \in Nat /\ DOMAIN stack = 1 .. Len(stack)
    BY DEF TreeInvariant
  <2> QED BY <1>2, <2>1 DEF Popped
<1>4. /\ DOMAIN stack' = 1 .. n + 2
      /\ \A i \in 1 .. n : stack'[i] = stack[i]
      /\ stack'[n + 1] = c1 /\ stack'[n + 2] = c2
  <2> DEFINE rest == Popped
  <2>1. rest \in Seq(UpToRoot) /\ Len(rest) = n /\ \A i \in 1 .. n : rest[i] = stack[i]
    BY <1>1, <1>3, StackParts
  <2>2. stack' = rest \o <<c1, c2>>
    BY <1>1
  <2>3. c1 \in UpToRoot /\ c2 \in UpToRoot
    <3>1. Top \in UpToRoot /\ causes[Top] # << >>
      BY <1>1, StackParts
    <3> QED BY <3>1, CausesOlder
  <2> HIDE DEF rest
  <2>4. /\ DOMAIN (rest \o <<c1, c2>>) = 1 .. n + 2
        /\ \A i \in 1 .. n : (rest \o <<c1, c2>>)[i] = rest[i]
        /\ (rest \o <<c1, c2>>)[n + 1] = c1 /\ (rest \o <<c1, c2>>)[n + 2] = c2
    BY <2>1, <2>3
  <2> QED BY <2>1, <2>2, <2>4
<1>5. /\ Waiting(id)' \in Nat
      /\ Waiting(id)' + One(id = Top) = Waiting(id) + One(id = c1) + One(id = c2)
  <2>1. PICK S : S = Places(id) \ {n + 1}
    OBVIOUS
  <2>2. IsFiniteSet(S) /\ Cardinality(S) \in Nat /\ Waiting(id) = Cardinality(S) + One(id = Top)
    BY <1>1, <1>3, <2>1, PopPlaces
  <2>3. \A i : i \in S <=> i \in 1 .. n /\ stack[i] = id
    BY <1>3, <2>1 DEF Places
  <2>4. PICK T : T = OneMore(S, id = c1, n + 1)
    OBVIOUS
  <2>5. n + 1 \notin S /\ IsFiniteSet(T) /\ Cardinality(T) = Cardinality(S) + One(id = c1)
    <3>1. n + 1 \notin 1 .. n
      OBVIOUS
    <3>2. n + 1 \notin S
      BY <2>3, <3>1
    <3> QED BY <2>2, <2>4, <3>2, CountOneMore
  <2>6. \A i : i \in T <=> i \in S \/ (i = n + 1 /\ id = c1)
    BY <2>4 DEF OneMore
  <2>7. n + 2 \notin T
    BY <2>3, <2>6
  <2>8. Cardinality(OneMore(T, id = c2, n + 2)) = Cardinality(T) + One(id = c2)
    BY <2>5, <2>7, CountOneMore
  <2>9. \A i : i \in OneMore(T, id = c2, n + 2) <=> i \in T \/ (i = n + 2 /\ id = c2)
    BY DEF OneMore
  <2>10. \A i : i \in Places(id)' <=> i \in 1 .. n + 2 /\ stack'[i] = id
    BY <1>4 DEF Places
  <2>11. \A i : i \in 1 .. n + 2 <=> i \in 1 .. n \/ i = n + 1 \/ i = n + 2
    OBVIOUS
  <2>12. \A i : i \in Places(id)' <=> i \in OneMore(T, id = c2, n + 2)
    BY <1>4, <2>3, <2>6, <2>9, <2>10, <2>11
  <2>13. Places(id)' = OneMore(T, id = c2, n + 2)
    BY <2>12
  <2> QED BY <2>2, <2>5, <2>8, <2>13 DEF Waiting, One
<1>6. PICK a, b : a = <<Top, 1>> /\ b = <<Top, 2>>
  OBVIOUS
<1>7. \A use : use \in Uses(id)' <=>
                 use \in Uses(id) \/ (use = a /\ id = c1) \/ (use = b /\ id = c2)
  <2>1. IsDerived(Top) /\ causes[Top][1] = c1 /\ causes[Top][2] = c2
    BY DEF VisitFirst
  <2>2. a[1] = Top /\ a[2] = 1 /\ b[1] = Top /\ b[2] = 2
    BY <1>6
  <2>3. \A use : use \in allIds' \X {1, 2} <=> use \in allIds \X {1, 2} \/ use = a \/ use = b
    BY <1>1, <1>6
  <2>4. \A use : use \in Uses(id)' <=>
                   use \in allIds' \X {1, 2} /\ IsDerived(use[1]) /\ causes[use[1]][use[2]] = id
    BY <1>1 DEF Uses, IsDerived
  <2>5. \A use : use \in Uses(id) <=>
                   use \in allIds \X {1, 2} /\ IsDerived(use[1]) /\ causes[use[1]][use[2]] = id
    BY DEF Uses
  <2> QED BY <2>1, <2>2, <2>3, <2>4, <2>5
<1>8. a # b /\ a \notin Uses(id) /\ b \notin Uses(id)
  BY <1>1, <1>6 DEF Uses
<1>9. Cardinality(Uses(id))' = Cardinality(Uses(id)) + One(id = c1) + One(id = c2)
  <2>1. IsFiniteSet(Uses(id)) /\ Cardinality(Uses(id)) \in Nat
    BY CountsFinite
  <2>2. PICK T : T = OneMore(Uses(id), id = c1, a)
    OBVIOUS
  <2>3. IsFiniteSet(T) /\ Cardinality(T) = Cardinality(Uses(id)) + One(id = c1)
    BY <1>8, <2>1, <2>2, CountOneMore
  <2>4. \A use : use \in T <=> use \in Uses(id) \/ (use = a /\ id = c1)
    BY <2>2 DEF OneMore
  <2>5. b \notin T
    BY <1>8, <2>4
  <2>6. Cardinality(OneMore(T, id = c2, b)) = Cardinality(T) + One(id = c2)
    BY <2>3, <2>5, CountOneMore
  <2>7. \A use : use \in OneMore(T, id = c2, b) <=> use \in T \/ (use = b /\ id = c2)
    BY DEF OneMore
  <2>8. Uses(id)' = OneMore(T, id = c2, b)
    BY <1>7, <2>4, <2>7
  <2> QED BY <2>1, <2>3, <2>6, <2>8
<1>10. Stacked(id)' => Stacked(id) \/ id \in {c1, c2}
  BY <1>3, <1>4 DEF Stacked
<1> QED BY <1>5, <1>7, <1>9, <1>10

LEMMA VisitFirstCounts ==
    ASSUME TreeInvariant, VisitInvariant, VisitFirst
    PROVE  VisitInvariant'
<1>1. /\ stack # << >> /\ allIds' = allIds \cup {Top} /\ UNCHANGED <<causes, incompat, sharedIds>>
      /\ Top \notin allIds /\ IsDerived(Top)
  BY DEF VisitFirst, Visiting
<1>2. Top \in UpToRoot /\ Stacked(Top)
  BY <1>1, StackParts
<1>3. PICK c1, c2 \in UpToRoot : causes[Top] = <<c1, c2>> /\ c1 # Top /\ c2 # Top
  <2>1. PICK c1, c2 \in UpToRoot : causes[Top] = <<c1, c2>>
    BY <1>1, <1>2, CausesOlder DEF IsDerived
  <2>2. c1 \in CausesOf(Top) /\ c2 \in CausesOf(Top)
    BY <2>1 DEF CausesOf
  <2>3. c1 < Top /\ c2 < Top /\ Top \in Nat
    BY <1>2, <2>2, CausesOlder
  <2> QED BY <2>1, <2>3
<1>4. UpToRoot' = UpToRoot /\ \A id : IsDerived(id)' <=> IsDerived(id)
  BY <1>1 DEF UpToRoot, IsDerived
<1>5. sharedIds' \subseteq {id \in allIds' : IsDerived(id)'}
  BY <1>1, <1>4 DEF VisitInvariant
<1>6. ASSUME NEW id \in UpToRoot, id \in allIds' \/ Stacked(id)'
      PROVE  id = incompat \/ Uses(id)' # {}
  <2>1. /\ Uses(id) \subseteq Uses(id)' /\ (id \in {c1, c2} => Uses(id)' # {})
        /\ Stacked(id)' => Stacked(id) \/ id \in {c1, c2}
    BY <1>3, VisitCauses
  <2>2. id \in allIds \/ Stacked(id) \/ id \in {c1, c2}
    BY <1>1, <1>2, <1>6, <2>1
  <2> QED BY <2>1, <2>2 DEF VisitInvariant
<1>7. ASSUME NEW id \in UpToRoot, IsDerived(id)
      PROVE  CountsRight(id)'
  <2>1. /\ Waiting(id)' \in Nat
        /\ Waiting(id)' + One(id = Top) = Waiting(id) + One(id = c1) + One(id = c2)
        /\ Cardinality(Uses(id))' = Cardinality(Uses(id)) + One(id = c1) + One(id = c2)
    BY <1>3, VisitCauses
  <2>2. Waiting(id) \in Nat /\ Cardinality(Uses(id)) \in Nat
    BY CountsFinite
  <2>3. PICK u, v \in Nat : u = Pushes(id) /\ v = One(id = c1) + One(id = c2)
    <3>1. Pushes(id) \in Nat /\ One(id = c1) + One(id = c2) \in Nat
      BY <2>2 DEF Pushes, One
    <3> QED BY <3>1
  <2>4. Pushes(id)' = u + v
    BY <1>1, <2>1, <2>2, <2>3 DEF Pushes, One
  <2>5. Waiting(id)' + One(id = Top) = Waiting(id) + v
    BY <2>1, <2>2, <2>3 DEF One
  <2>6. CountsRight(id)
    BY <1>7 DEF VisitInvariant
  <2>7. CASE id = Top
    <3>1. v = 0 /\ Waiting(id)' + 1 = Waiting(id)
      BY <1>3, <2>2, <2>3, <2>5, <2>7 DEF One
    <3>2. Pushes(id) = Waiting(id) /\ id \in allIds' /\ id \notin sharedIds'
      BY <1>1, <2>6, <2>7 DEF CountsRight, VisitInvariant
    <3>3. Pushes(id)' = Waiting(id)' + 1
      BY <2>2, <2>1, <2>3, <2>4, <3>1, <3>2
    <3> QED BY <3>2, <3>3 DEF CountsRight
  <2>8. CASE id # Top
    <3>1. Waiting(id)' = Waiting(id) + v
      BY <2>1, <2>5, <2>8 DEF One
    <3>2. (id \in allIds' <=> id \in allIds) /\ (id \in sharedIds' <=> id \in sharedIds)
      BY <1>1, <2>8
    <3>3. /\ Pushes(id) = Waiting(id) => Pushes(id)' = Waiting(id)'
          /\ Pushes(id) = Waiting(id) + 1 => Pushes(id)' = Waiting(id)' + 1
          /\ Pushes(id) >= Waiting(id) + 2 => Pushes(id)' >= Waiting(id)' + 2
      BY <2>2, <2>3, <2>4, <3>1
    <3> QED BY <2>6, <3>2, <3>3 DEF CountsRight
  <2> QED BY <2>7, <2>8
<1>8. (\A id \in UpToRoot : id \in allIds \/ Stacked(id) => id = incompat \/ Uses(id) # {})'
  BY <1>1, <1>4, <1>6
<1>9. (\A id \in UpToRoot : IsDerived(id) => CountsRight(id))'
  BY <1>4, <1>7
<1> QED BY <1>5, <1>8, <1>9 DEF VisitInvariant

\* The steps after the visit change none of what is counted.
LEMMA VisitLater ==
    ASSUME VisitInvariant, UNCHANGED <<causes, incompat, stack, allIds, sharedIds>>
    PROVE  VisitInvariant'
<1>1. /\ UpToRoot' = UpToRoot
      /\ \A id : /\ IsDerived(id)' <=> IsDerived(id)
                 /\ Uses(id)' = Uses(id)
                 /\ Places(id)' = Places(id)
                 /\ Stacked(id)' <=> Stacked(id)
  BY DEF UpToRoot, IsDerived, Uses, Places, Stacked
<1>2. \A id : Pushes(id)' = Pushes(id) /\ Waiting(id)' = Waiting(id)
  BY <1>1 DEF Pushes, Waiting
<1>3. \A id : CountsRight(id) => CountsRight(id)'
  BY <1>2 DEF CountsRight
<1> QED BY <1>1, <1>3 DEF VisitInvariant

LEMMA VisitNext == TreeInvariant /\ VisitInvariant /\ [Next]_vars => VisitInvariant'
<1> SUFFICES ASSUME TreeInvariant, VisitInvariant, [Next]_vars PROVE VisitInvariant'
  OBVIOUS
<1>1. CASE VisitExternal \/ VisitAgain
  BY <1>1, VisitPop
<1>2. CASE VisitFirst
  BY <1>2, VisitFirstCounts
<1>3. CASE EndVisit \/ BuildNode \/ EndBuild
  BY <1>3, VisitLater DEF EndVisit, BuildNode, EndBuild
<1>4. CASE ReportNext
  BY <1>4, ReportKeepsTree, VisitLater
<1>5. CASE Reported \/ UNCHANGED vars
  BY <1>5, VisitLater DEF Reported, vars, treeVars
<1> QED BY <1>1, <1>2, <1>3, <1>4, <1>5 DEF Next, TreeNext

\* The visit of build_derivation_tree finds the terminal incompatibility, what
\* it is derived from and nothing else, and `shared_ids' are exactly the
\* derived ones that are a cause at two places, though the visit goes only
\* once below each.
THEOREM VisitAlwaysExact == Spec => []VisitExact
<1>1. Init => TreeInvariant /\ VisitInvariant
  BY TreeInitInvariant, VisitInit
<1>2. TreeInvariant /\ VisitInvariant /\ [Next]_vars => (TreeInvariant /\ VisitInvariant)'
  BY TreeNextInvariant, VisitNext
<1>3. TreeInvariant /\ VisitInvariant => VisitExact
  <2> SUFFICES ASSUME TreeInvariant, VisitInvariant, phase = "tree" PROVE VisitExact
    BY DEF VisitExact
  <2>1. /\ stack = << >> /\ incompat \in allIds
        /\ \A id \in allIds : id \in UpToRoot /\ CausesOf(id) \subseteq allIds
    BY DEF TreeInvariant, Stacked
  <2>2. \A id \in allIds \ {incompat} : Uses(id) # {}
    BY <2>1 DEF VisitInvariant
  <2>3. Uses(incompat) = {}
    <3>1. ASSUME NEW use \in Uses(incompat)
          PROVE  FALSE
      <4>1. use[1] \in allIds /\ use[2] \in {1, 2} /\ causes[use[1]] # << >>
            /\ causes[use[1]][use[2]] = incompat
        BY DEF Uses, IsDerived
      <4>2. PICK c1, c2 \in UpToRoot : causes[use[1]] = <<c1, c2>>
        BY <2>1, <4>1, CausesOlder
      <4>3. incompat \in CausesOf(use[1])
        BY <4>1, <4>2 DEF CausesOf
      <4>4. incompat < use[1] /\ use[1] \in Nat /\ use[1] <= incompat /\ incompat \in Nat
        BY <2>1, <4>1, <4>3, CausesOlder DEF UpToRoot
      <4> QED BY <4>4
    <3> QED BY <3>1
  <2>4. ASSUME NEW id \in allIds, IsDerived(id)
        PROVE  id \in sharedIds <=> Cardinality(Uses(id)) > 1
    <3>1. Waiting(id) = 0
      <4>1. Places(id) = {}
        BY <2>1 DEF Places
      <4> QED BY <4>1, FS_EmptySet DEF Waiting
    <3>2. CountsRight(id) /\ Cardinality(Uses(id)) \in Nat
      BY <2>1, <2>4, CountsFinite DEF VisitInvariant
    <3>3. (id \in sharedIds => Pushes(id) >= 2) /\ (id \notin sharedIds => Pushes(id) = 1)
      BY <3>1, <3>2 DEF CountsRight
    <3>4. CASE id = incompat
      <4>1. Cardinality(Uses(id)) = 0 /\ Pushes(id) = 1
        BY <2>3, <3>4, FS_EmptySet DEF Pushes, One
      <4> QED BY <3>3, <4>1
    <3>5. CASE id # incompat
      <4>1. Pushes(id) = Cardinality(Uses(id))
        BY <3>2, <3>5 DEF Pushes, One
      <4> QED BY <3>2, <3>3, <4>1
    <3> QED BY <3>4, <3>5
  <2>5. sharedIds = {id \in allIds : IsDerived(id) /\ Cardinality(Uses(id)) > 1}
    BY <2>4 DEF VisitInvariant
  <2> QED BY <2>1, <2>2, <2>5 DEF VisitExact
<1> QED BY <1>1, <1>2, <1>3, PTL DEF Spec

-----------------------------------------------------------------------------
(* The report. *)

\* The nodes are built once all of them are found, each with its causes.
BuiltInvariant ==
    /\ phase \in {"visit", "build", "tree", "report", "done"}
    /\ \A id \in DOMAIN precomputed : precomputed[id].causes = causes[id]
    /\ phase \in {"tree", "report", "done"} => DOMAIN precomputed = allIds

Nodes == {id \in allIds : IsDerived(id)}

LineType == [says : Nat, externals : SUBSET Nat, refs : SUBSET (Nat \X Nat),
             continues : BOOLEAN, numbers : SUBSET Nat]

TaskType == [do : {"explain", "number", "resume", "say"}, node : Nodes, line : LineType]

\* A line of ls concludes d and has the number r.
KnownIn(ls, d, r) == \E j \in DOMAIN ls : ls[j].says = d /\ r \in ls[j].numbers

NumberedOnce(ls, count) ==
    /\ \A i \in DOMAIN ls : ls[i].numbers = {} \/ \E x \in 1 .. count : ls[i].numbers = {x}
    /\ \A i, j \in DOMAIN ls : i # j => ls[i].numbers \cap ls[j].numbers = {}

RefsLeadBack(ls) ==
    \A i \in DOMAIN ls : \A ref \in ls[i].refs :
        \E j \in 1 .. i - 1 : ls[j].says = ref[1] /\ ref[2] \in ls[j].numbers

\* What references stand for.
Referred(refs) == {ref[1] : ref \in refs}

\* What a line concludes from when the line before it concludes d.
PremisesAfter(line, d) ==
    line.externals \cup Referred(line.refs)
    \cup (IF line.continues THEN {d} ELSE {})

FollowsAfter(line, d) == line.says \in Nodes /\ Explains(line.says, PremisesAfter(line, d))

EachFollows(ls) ==
    \A i \in DOMAIN ls : ls[i] # Blank =>
        (ls[i].continues => i > 1) /\ FollowsAfter(ls[i], ls[i - 1].says)

LinesRight(ls, count) ==
    /\ ls \in Seq(LineType) /\ count \in Nat
    /\ NumberedOnce(ls, count)
    /\ RefsLeadBack(ls)
    /\ EachFollows(ls)

\* The last line concludes n, and n can still be given a number if it has to.
Said(n) ==
    /\ lines # << >>
    /\ lines[Len(lines)].says = n
    /\ lines[Len(lines)].numbers = {} \/ HasRef(n)

\* The task can be done when the last line concludes d.
FitsAfter(task, d) ==
    /\ task.do = "number" => d = task.node
    /\ task.do = "resume" => d = Cause(task.node, 1) /\ Cause(task.node, 2) \in Nodes
    /\ task.do = "say" => /\ task.line.says = task.node
                          /\ task.line.numbers = {}
                          /\ FollowsAfter(task.line, d)

\* Every task leaves the conclusion of its node as the last line, which is what
\* the task after it needs.
TodoRight ==
    /\ todo \in Seq(TaskType)
    /\ \A i \in DOMAIN todo : i > 1 => FitsAfter(todo[i], todo[i - 1].node)
    /\ \A i \in DOMAIN todo : todo[i].do = "say" =>
          \A ref \in todo[i].line.refs : KnownIn(lines, ref[1], ref[2])
    /\ todo # << >> => todo[Len(todo)].node = incompat
    /\ todo # << >> /\ todo[1].do # "explain" => \E d \in Nodes : Said(d) /\ FitsAfter(todo[1], d)
    /\ todo = << >> => Said(incompat)

RefsKnown ==
    \A n \in DOMAIN sharedWithRef :
        sharedWithRef[n] \in Nat /\ KnownIn(lines, n, sharedWithRef[n])

ReportInvariant ==
    /\ phase \in {"visit", "build", "tree"} =>
          todo = << >> /\ lines = << >> /\ refCount = 0 /\ sharedWithRef = << >>
    /\ phase # "done" => LinesRight(lines, refCount) /\ RefsKnown
    /\ phase = "report" => incompat \in Nodes /\ TodoRight
    /\ phase = "done" => RefsRight /\ LinesFollow

-----------------------------------------------------------------------------

\* A line that may follow is pushed.
LEMMA AppendLine ==
    ASSUME NEW ls, NEW count, LinesRight(ls, count),
           NEW line \in LineType, line.numbers = {},
           \A ref \in line.refs : KnownIn(ls, ref[1], ref[2]),
           \/ line = Blank
           \/ (line.continues => ls # << >>) /\ FollowsAfter(line, ls[Len(ls)].says)
    PROVE  /\ LinesRight(Append(ls, line), count)
           /\ \A d, r : KnownIn(ls, d, r) => KnownIn(Append(ls, line), d, r)
<1> DEFINE new == Append(ls, line)
           n   == Len(ls)
<1>1. /\ ls \in Seq(LineType) /\ n \in Nat /\ DOMAIN ls = 1 .. n /\ count \in Nat
      /\ new \in Seq(LineType) /\ Len(new) = n + 1 /\ DOMAIN new = 1 .. n + 1
      /\ new[n + 1] = line /\ \A i \in 1 .. n : new[i] = ls[i]
  BY DEF LinesRight
<1> HIDE DEF new
<1>2. \A d, r : KnownIn(ls, d, r) => KnownIn(new, d, r)
  BY <1>1 DEF KnownIn
<1>3. NumberedOnce(new, count)
  <2>1. NumberedOnce(ls, count)
    BY DEF LinesRight
  <2>2. \A i \in DOMAIN new : new[i].numbers = {} \/ \E x \in 1 .. count : new[i].numbers = {x}
    BY <1>1, <2>1 DEF NumberedOnce
  <2>3. ASSUME NEW i \in 1 .. n + 1, NEW j \in 1 .. n + 1, i # j
        PROVE  new[i].numbers \cap new[j].numbers = {}
    <3>1. CASE i = n + 1 \/ j = n + 1
      BY <1>1, <3>1
    <3>2. CASE i \in 1 .. n /\ j \in 1 .. n
      BY <1>1, <2>1, <2>3, <3>2 DEF NumberedOnce
    <3> QED BY <1>1, <3>1, <3>2
  <2> QED BY <1>1, <2>2, <2>3 DEF NumberedOnce
<1>4. RefsLeadBack(new)
  <2>1. ASSUME NEW i \in 1 .. n, NEW ref \in new[i].refs
        PROVE  \E j \in 1 .. i - 1 : new[j].says = ref[1] /\ ref[2] \in new[j].numbers
    <3>1. PICK j \in 1 .. i - 1 : ls[j].says = ref[1] /\ ref[2] \in ls[j].numbers
      BY <1>1 DEF LinesRight, RefsLeadBack
    <3>2. j \in 1 .. n
      BY <1>1
    <3> QED BY <1>1, <3>1, <3>2
  <2>2. ASSUME NEW ref \in line.refs
        PROVE  \E j \in 1 .. n : new[j].says = ref[1] /\ ref[2] \in new[j].numbers
    BY <1>1 DEF KnownIn
  <2>3. n + 1 - 1 = n
    BY <1>1
  <2>4. ASSUME NEW i \in 1 .. n + 1, NEW ref \in new[i].refs
        PROVE  \E j \in 1 .. i - 1 : new[j].says = ref[1] /\ ref[2] \in new[j].numbers
    <3>1. CASE i \in 1 .. n
      BY <2>1, <3>1
    <3>2. CASE i = n + 1
      BY <1>1, <2>2, <2>3, <3>2
    <3> QED BY <1>1, <3>1, <3>2
  <2> QED BY <1>1, <2>4 DEF RefsLeadBack
<1>5. EachFollows(new)
  <2>1. ASSUME NEW i \in 1 .. n, new[i] # Blank
        PROVE  (new[i].continues => i > 1) /\ FollowsAfter(new[i], new[i - 1].says)
    <3>1. (ls[i].continues => i > 1) /\ FollowsAfter(ls[i], ls[i - 1].says)
      BY <1>1, <2>1 DEF LinesRight, EachFollows
    <3>2. CASE i > 1
      <4>1. i - 1 \in 1 .. n
        BY <1>1, <3>2
      <4> QED BY <1>1, <3>1, <4>1
    <3>3. CASE ~ls[i].continues
      BY <1>1, <3>1, <3>3 DEF FollowsAfter, PremisesAfter
    <3> QED BY <3>1, <3>2, <3>3
  <2>2. ASSUME line # Blank
        PROVE  (line.continues => n + 1 > 1) /\ FollowsAfter(line, new[n].says)
    <3>1. (line.continues => ls # << >>) /\ FollowsAfter(line, ls[n].says)
      BY <2>2
    <3>2. CASE ls # << >>
      <4>1. n \in 1 .. n
        BY <1>1, <3>2
      <4> QED BY <1>1, <3>1, <4>1
    <3>3. CASE ls = << >>
      <4>1. ~line.continues
        BY <3>1, <3>3
      <4> QED BY <3>1, <4>1 DEF FollowsAfter, PremisesAfter
    <3> QED BY <3>2, <3>3
  <2>3. n + 1 - 1 = n
    BY <1>1
  <2>4. ASSUME NEW i \in 1 .. n + 1, new[i] # Blank
        PROVE  (new[i].continues => i > 1) /\ FollowsAfter(new[i], new[i - 1].says)
    <3>1. CASE i \in 1 .. n
      BY <2>1, <2>4, <3>1
    <3>2. CASE i = n + 1
      BY <1>1, <2>2, <2>3, <2>4, <3>2
    <3> QED BY <1>1, <3>1, <3>2
  <2> QED BY <1>1, <2>4 DEF EachFollows
<1> QED BY <1>1, <1>2, <1>3, <1>4, <1>5 DEF LinesRight, new

\* A number changes nothing else of a line.
LEMMA NumberOnLine ==
    ASSUME NEW l \in LineType, NEW k \in Nat, NEW m, m = [l EXCEPT !.numbers = {k}]
    PROVE  /\ m \in LineType /\ m.numbers = {k}
           /\ m.says = l.says /\ m.externals = l.externals
           /\ m.refs = l.refs /\ m.continues = l.continues
<1>1. {k} \in SUBSET Nat
  OBVIOUS
<1>2. m \in LineType
  BY <1>1 DEF LineType
<1> QED BY <1>2 DEF LineType

\* The last line gets the number r.
WithNumber(ls, r) == [ls EXCEPT ![Len(ls)].numbers = @ \cup {r}]

\* The last line, which has no number, gets the next one.
LEMMA NumberLine ==
    ASSUME NEW ls, NEW count, LinesRight(ls, count), ls # << >>, 0 \notin Nodes,
           ls[Len(ls)].numbers = {}, ls[Len(ls)].says \in Nodes,
           NEW new, new = WithNumber(ls, count + 1)
    PROVE  /\ LinesRight(new, count + 1)
           /\ new # << >> /\ Len(new) = Len(ls)
           /\ new[Len(new)].says = ls[Len(ls)].says
           /\ KnownIn(new, ls[Len(ls)].says, count + 1)
           /\ \A d, r : KnownIn(ls, d, r) => KnownIn(new, d, r)
<1> DEFINE n == Len(ls)
<1>1. ls \in Seq(LineType) /\ n \in Nat /\ n >= 1 /\ DOMAIN ls = 1 .. n /\ count \in Nat
  BY DEF LinesRight
<1>2. ls[n] \in LineType /\ ls[n].numbers = {}
  BY <1>1
<1>3. /\ DOMAIN new = 1 .. n
      /\ \A i \in 1 .. n : i # n => new[i] = ls[i]
      /\ new[n] = [ls[n] EXCEPT !.numbers = {count + 1}]
  BY <1>1, <1>2 DEF WithNumber
<1>4. new[n] \in LineType /\ new[n].numbers = {count + 1} /\ new[n].says = ls[n].says
      /\ new[n].externals = ls[n].externals /\ new[n].refs = ls[n].refs
      /\ new[n].continues = ls[n].continues
  <2>1. count + 1 \in Nat /\ ls[n] \in LineType
    BY <1>1, <1>2
  <2>2. new[n] = [ls[n] EXCEPT !.numbers = {count + 1}]
    BY <1>3
  <2> HIDE DEF n
  <2> QED BY <2>1, <2>2, NumberOnLine
<1>5. new \in Seq(LineType) /\ Len(new) = n
  <2>1. \A i \in 1 .. n : ls[i] \in LineType
    BY <1>1
  <2>2. new \in [1 .. n -> LineType]
    <3>1. new = [i \in 1 .. n |-> new[i]]
      BY <1>1, <1>3 DEF WithNumber
    <3>2. \A i \in 1 .. n : new[i] \in LineType
      BY <1>3, <1>4, <2>1
    <3> QED BY <3>1, <3>2
  <2> QED BY <1>1, <2>2
<1>6. /\ \A i \in 1 .. n : /\ new[i].says = ls[i].says /\ new[i].externals = ls[i].externals
                           /\ new[i].refs = ls[i].refs /\ new[i].continues = ls[i].continues
                           /\ ls[i].numbers \subseteq new[i].numbers
  BY <1>2, <1>3, <1>4
<1>7. \A d, r : KnownIn(ls, d, r) => KnownIn(new, d, r)
  BY <1>1, <1>3, <1>6 DEF KnownIn
<1>8. KnownIn(new, ls[n].says, count + 1)
  BY <1>1, <1>3, <1>4 DEF KnownIn
<1>9. NumberedOnce(new, count + 1)
  <2>1. NumberedOnce(ls, count)
    BY DEF LinesRight
  <2>2. ASSUME NEW i \in 1 .. n
        PROVE  new[i].numbers = {} \/ \E x \in 1 .. count + 1 : new[i].numbers = {x}
    <3>1. CASE i = n
      <4>1. count + 1 \in 1 .. count + 1
        BY <1>1
      <4>2. new[i].numbers = {count + 1}
        BY <1>4, <3>1
      <4> QED BY <4>1, <4>2
    <3>2. CASE i # n
      <4>1. ls[i].numbers = {} \/ \E x \in 1 .. count : ls[i].numbers = {x}
        BY <1>1, <2>1 DEF NumberedOnce
      <4> QED BY <1>1, <1>3, <3>2, <4>1
    <3> QED BY <3>1, <3>2
  <2>3. \A i \in 1 .. n : count + 1 \notin ls[i].numbers
    BY <1>1, <2>1 DEF NumberedOnce
  <2>4. ASSUME NEW i \in 1 .. n, NEW j \in 1 .. n, i # j
        PROVE  new[i].numbers \cap new[j].numbers = {}
    <3>1. CASE i # n /\ j # n
      BY <1>1, <1>3, <2>1, <2>4, <3>1 DEF NumberedOnce
    <3>2. CASE i = n
      BY <1>3, <1>4, <2>3, <2>4, <3>2
    <3>3. CASE j = n
      BY <1>3, <1>4, <2>3, <2>4, <3>3
    <3> QED BY <3>1, <3>2, <3>3
  <2> QED BY <1>3, <2>2, <2>4 DEF NumberedOnce
<1>10. RefsLeadBack(new)
  <2>1. ASSUME NEW i \in 1 .. n, NEW ref \in new[i].refs
        PROVE  \E j \in 1 .. i - 1 : new[j].says = ref[1] /\ ref[2] \in new[j].numbers
    <3>1. PICK j \in 1 .. i - 1 : ls[j].says = ref[1] /\ ref[2] \in ls[j].numbers
      BY <1>1, <1>6 DEF LinesRight, RefsLeadBack
    <3>2. j \in 1 .. n
      BY <1>1
    <3> QED BY <1>6, <3>1, <3>2
  <2> QED BY <1>3, <2>1 DEF RefsLeadBack
<1>11. EachFollows(new)
  <2>1. ASSUME NEW i \in 1 .. n, new[i] # Blank
        PROVE  (new[i].continues => i > 1) /\ FollowsAfter(new[i], new[i - 1].says)
    <3>1. ls[i] # Blank
      <4>1. CASE i = n
        BY <4>1 DEF Blank, Line
      <4>2. CASE i # n
        BY <1>3, <2>1, <4>2
      <4> QED BY <4>1, <4>2
    <3>2. (ls[i].continues => i > 1) /\ FollowsAfter(ls[i], ls[i - 1].says)
      BY <1>1, <3>1 DEF LinesRight, EachFollows
    <3>3. FollowsAfter(new[i], ls[i - 1].says)
      BY <1>6, <3>2 DEF FollowsAfter, PremisesAfter
    <3>4. CASE i > 1
      <4>1. i - 1 \in 1 .. n
        BY <1>1, <3>4
      <4> QED BY <1>6, <3>2, <3>3, <3>4, <4>1
    <3>5. CASE ~ls[i].continues
      BY <1>6, <3>2, <3>3, <3>5 DEF FollowsAfter, PremisesAfter
    <3> QED BY <3>2, <3>4, <3>5
  <2> QED BY <1>3, <2>1 DEF EachFollows
<1>12. new # << >> /\ count + 1 \in Nat
  BY <1>1, <1>5
<1>13. LinesRight(new, count + 1)
  BY <1>5, <1>9, <1>10, <1>11, <1>12 DEF LinesRight
<1> QED BY <1>4, <1>5, <1>7, <1>8, <1>12, <1>13

-----------------------------------------------------------------------------

\* Ids of nodes are positive, and the causes of a node are in the tree.
LEMMA NodeCauses ==
    ASSUME TreeInvariant, BuiltInvariant, phase \in {"tree", "report"}
    PROVE  /\ allIds \subseteq Nat \ {0}
           /\ Nodes \subseteq Nat \ {0}
           /\ \A n \in Nodes : /\ Cause(n, 1) \in allIds /\ Cause(n, 2) \in allIds
                              /\ CausesOf(n) = {Cause(n, 1), Cause(n, 2)}
<1>1. allIds \subseteq UpToRoot /\ stack = << >>
  BY DEF TreeInvariant
<1>2. UpToRoot \subseteq Nat \ {0}
  BY DEF UpToRoot, TreeInvariant, IsDerivation
<1>3. ASSUME NEW n \in Nodes
      PROVE  /\ Cause(n, 1) \in allIds /\ Cause(n, 2) \in allIds
             /\ CausesOf(n) = {Cause(n, 1), Cause(n, 2)}
  <2>1. n \in UpToRoot /\ causes[n] # << >> /\ n \in allIds
    BY <1>1 DEF Nodes, IsDerived
  <2>2. PICK c1, c2 \in UpToRoot : causes[n] = <<c1, c2>>
    BY <2>1, CausesOlder
  <2>3. precomputed[n].causes = causes[n]
    BY <2>1 DEF BuiltInvariant
  <2>4. Cause(n, 1) = c1 /\ Cause(n, 2) = c2
    BY <2>2, <2>3 DEF Cause
  <2>5. CausesOf(n) = {c1, c2}
    BY <2>2 DEF CausesOf
  <2>6. CausesOf(n) \subseteq allIds
    BY <1>1, <2>1 DEF TreeInvariant, Stacked
  <2> QED BY <2>4, <2>5, <2>6
<1> QED BY <1>1, <1>2, <1>3 DEF Nodes

\* What the tasks and lines rest on stays as it is while the report is written.
LEMMA SameTree ==
    ASSUME UNCHANGED <<causes, incompat, allIds, precomputed>>
    PROVE  /\ Nodes' = Nodes /\ TaskType' = TaskType
           /\ \A line, d : FollowsAfter(line, d)' <=> FollowsAfter(line, d)
           /\ \A task, d : FitsAfter(task, d)' <=> FitsAfter(task, d)
           /\ \A ls, count : LinesRight(ls, count)' <=> LinesRight(ls, count)
<1>2. Nodes' = Nodes
  BY DEF Nodes, IsDerived
<1>3. TaskType' = TaskType
  BY <1>2 DEF TaskType
<1>4. \A line, d : FollowsAfter(line, d)' <=> FollowsAfter(line, d)
  BY <1>2 DEF FollowsAfter, Explains, CausesOf, PremisesAfter
<1>5. \A task, d : FitsAfter(task, d)' <=> FitsAfter(task, d)
  BY <1>2, <1>4 DEF FitsAfter, Cause
<1>6. \A ls : EachFollows(ls)' <=> EachFollows(ls)
  BY <1>4 DEF EachFollows
<1>7. \A ls, count : LinesRight(ls, count)' <=> LinesRight(ls, count)
  BY <1>6 DEF LinesRight, NumberedOnce, RefsLeadBack
<1> QED BY <1>2, <1>3, <1>4, <1>5, <1>7

\* The first thing to do is replaced by tasks of which each fits after the one
\* before, and the last one is for the same node.
LEMMA CallTasks ==
    ASSUME TodoRight, todo # << >>, UNCHANGED <<causes, incompat, allIds, precomputed>>,
           \A d, r : KnownIn(lines, d, r) => KnownIn(lines', d, r),
           NEW tasks \in Seq(TaskType), tasks # << >>, Call(tasks),
           tasks[1].do = "explain", tasks[Len(tasks)].node = Node,
           \A i \in DOMAIN tasks : i > 1 => FitsAfter(tasks[i], tasks[i - 1].node),
           \A i \in DOMAIN tasks : tasks[i].do = "say" =>
              \A ref \in tasks[i].line.refs : KnownIn(lines', ref[1], ref[2])
    PROVE  TodoRight'
<1> DEFINE rest == Tail(todo)
           new  == tasks \o rest
           k    == Len(tasks)
           n    == Len(rest)
<1>1. /\ todo \in Seq(TaskType) /\ Len(todo) \in Nat /\ n \in Nat /\ Len(todo) = n + 1
      /\ rest \in Seq(TaskType) /\ DOMAIN rest = 1 .. n /\ DOMAIN todo = 1 .. n + 1
      /\ \A i \in 1 .. n : rest[i] = todo[i + 1]
      /\ Node = todo[1].node
  BY HeadTailProperties DEF TodoRight, Node
<1>2. k \in Nat /\ k >= 1 /\ DOMAIN tasks = 1 .. k
  OBVIOUS
<1>3. todo' = new
  BY DEF Call
<1> HIDE DEF rest
<1>4. /\ new \in Seq(TaskType) /\ Len(new) = k + n /\ DOMAIN new = 1 .. k + n
      /\ \A i \in 1 .. k : new[i] = tasks[i]
      /\ \A i \in 1 .. n : new[k + i] = rest[i]
  <2>1. /\ new \in Seq(TaskType) /\ Len(new) = k + n
        /\ \A i \in 1 .. k + n : new[i] = IF i <= k THEN tasks[i] ELSE rest[i - k]
    BY <1>1, <1>2, ConcatProperties
  <2> HIDE DEF new
  <2>2. \A i \in 1 .. n : k + i \in 1 .. k + n /\ ~(k + i <= k) /\ (k + i) - k = i
    BY <1>1, <1>2
  <2>3. \A i \in 1 .. k : i \in 1 .. k + n /\ i <= k
    BY <1>1, <1>2
  <2> QED BY <2>1, <2>2, <2>3
<1> HIDE DEF new, k, n
<1>5. \A i \in 1 .. k + n : i \in 1 .. k \/ \E j \in 1 .. n : i = k + j
  <2>1. \A i \in 1 .. k + n : i \notin 1 .. k => i - k \in 1 .. n /\ i = k + (i - k)
    BY <1>1, <1>2
  <2> QED BY <2>1
<1>6. ASSUME NEW i \in 1 .. k + n, i > 1
      PROVE  FitsAfter(new[i], new[i - 1].node)
  <2>1. CASE i \in 1 .. k
    <3>1. i - 1 \in 1 .. k
      BY <1>2, <1>6, <2>1
    <3> QED BY <1>2, <1>4, <1>6, <2>1, <3>1
  <2>2. ASSUME NEW j \in 1 .. n, i = k + j
        PROVE  FitsAfter(new[i], new[i - 1].node)
    <3>1. new[i] = todo[j + 1] /\ j + 1 \in 1 .. n + 1 /\ j + 1 > 1 /\ (j + 1) - 1 = j
      BY <1>1, <1>4, <2>2
    <3>2. FitsAfter(todo[j + 1], todo[j].node)
      BY <1>1, <3>1 DEF TodoRight
    <3>3. CASE j = 1
      <4>1. i - 1 = k /\ k \in 1 .. k
        BY <1>2, <2>2, <3>3
      <4> QED BY <1>1, <1>4, <3>1, <3>2, <3>3, <4>1 DEF k
    <3>4. CASE j # 1
      <4>1. j - 1 \in 1 .. n /\ i - 1 = k + (j - 1) /\ (j - 1) + 1 = j
        BY <1>1, <1>2, <2>2, <3>4
      <4>2. new[i - 1] = todo[j]
        BY <1>1, <1>4, <4>1
      <4> QED BY <3>1, <3>2, <4>2
    <3> QED BY <3>3, <3>4
  <2> QED BY <1>5, <2>1, <2>2
<1>7. ASSUME NEW i \in 1 .. k + n, new[i].do = "say", NEW ref \in new[i].line.refs
      PROVE  KnownIn(lines', ref[1], ref[2])
  <2>1. CASE i \in 1 .. k
    BY <1>2, <1>4, <1>7, <2>1
  <2>2. ASSUME NEW j \in 1 .. n, i = k + j
        PROVE  KnownIn(lines', ref[1], ref[2])
    <3>1. new[i] = todo[j + 1] /\ j + 1 \in 1 .. n + 1
      BY <1>1, <1>4, <2>2
    <3>2. KnownIn(lines, ref[1], ref[2])
      BY <1>1, <1>7, <3>1 DEF TodoRight
    <3> QED BY <3>2
  <2> QED BY <1>5, <2>1, <2>2
<1>8. new[k + n].node = incompat
  <2>1. todo[n + 1].node = incompat
    BY <1>1 DEF TodoRight
  <2>2. CASE n = 0
    BY <1>1, <1>2, <1>4, <2>1, <2>2 DEF k
  <2>3. CASE n # 0
    <3>1. n \in 1 .. n
      BY <1>1, <2>3
    <3> QED BY <1>1, <1>4, <2>1, <3>1
  <2> QED BY <2>2, <2>3
<1>9. new # << >> /\ new[1].do = "explain"
  BY <1>1, <1>2, <1>4
<1>10. PICK td : td = new
  OBVIOUS
<1>11. /\ td \in Seq(TaskType') /\ DOMAIN td = 1 .. k + n /\ Len(td) = k + n
       /\ td[k + n].node = incompat'
  BY <1>4, <1>8, <1>10, SameTree
<1>12. \A i \in DOMAIN td : i > 1 => FitsAfter(td[i], td[i - 1].node)'
  BY <1>6, <1>10, <1>11, SameTree
<1>13. todo' = td
  BY <1>3, <1>10
<1> QED BY <1>7, <1>9, <1>10, <1>11, <1>12, <1>13 DEF TodoRight

\* The first thing to do is done, and its node concluded.
LEMMA FinishTask ==
    ASSUME TodoRight, todo # << >>, UNCHANGED <<causes, incompat, allIds, precomputed>>, Call(<< >>),
           NEW c, c = Node, Said(c)',
           \A d, r : KnownIn(lines, d, r) => KnownIn(lines', d, r)
    PROVE  TodoRight'
<1>1. PICK rest : rest = Tail(todo)
  OBVIOUS
<1>2. PICK n \in Nat : n = Len(rest) /\ Len(todo) = n + 1
  BY <1>1, HeadTailProperties DEF TodoRight
<1>3. /\ todo \in Seq(TaskType) /\ rest \in Seq(TaskType)
      /\ DOMAIN rest = 1 .. n /\ DOMAIN todo = 1 .. n + 1
      /\ \A i \in 1 .. n : rest[i] = todo[i + 1]
      /\ c = todo[1].node /\ c \in Nodes
  <2>1. /\ todo \in Seq(TaskType) /\ rest \in Seq(TaskType)
        /\ DOMAIN rest = 1 .. n /\ DOMAIN todo = 1 .. n + 1
        /\ \A i \in 1 .. n : rest[i] = todo[i + 1]
    BY <1>1, <1>2, HeadTailProperties DEF TodoRight
  <2>2. c = todo[1].node /\ todo[1] \in TaskType
    BY <2>1 DEF Node
  <2> QED BY <2>1, <2>2 DEF TaskType
<1>4. todo' = rest
  <2>1. todo' = << >> \o rest
    BY <1>1 DEF Call
  <2> QED BY <1>3, <2>1, ConcatEmptySeq
<1>5. ASSUME NEW i \in 1 .. n, i > 1
      PROVE  FitsAfter(rest[i], rest[i - 1].node)
  <2>1. i - 1 \in 1 .. n /\ (i - 1) + 1 = i /\ i + 1 \in 1 .. n + 1 /\ (i + 1) - 1 = i /\ i + 1 > 1
    BY <1>5
  <2> QED BY <1>3, <2>1 DEF TodoRight
<1>6. ASSUME NEW i \in 1 .. n, rest[i].do = "say", NEW ref \in rest[i].line.refs
      PROVE  KnownIn(lines', ref[1], ref[2])
  <2>1. i + 1 \in 1 .. n + 1 /\ rest[i] = todo[i + 1]
    BY <1>3
  <2> QED BY <1>3, <1>6, <2>1 DEF TodoRight
<1>7. todo[n + 1].node = incompat
  BY <1>2 DEF TodoRight
<1>8. /\ rest \in Seq(TaskType') /\ c \in Nodes' /\ incompat' = incompat
      /\ \A i \in DOMAIN rest : i > 1 => FitsAfter(rest[i], rest[i - 1].node)'
  BY <1>3, <1>5, SameTree
<1>9. CASE n = 0
  <2>1. rest = << >> /\ c = incompat'
    BY <1>2, <1>3, <1>7, <1>8, <1>9
  <2>2. Said(incompat)'
    BY <2>1 DEF Said
  <2>3. todo' = << >>
    BY <1>4, <2>1
  <2>4. todo' \in Seq(TaskType')
    BY <1>3, <1>4, <1>8
  <2>5. \A i \in DOMAIN todo' : FALSE
    BY <2>3
  <2> QED BY <2>2, <2>3, <2>4, <2>5 DEF TodoRight
<1>10. CASE n # 0
  <2>1. 1 \in 1 .. n /\ n \in 1 .. n /\ 2 \in 1 .. n + 1 /\ 2 > 1 /\ 2 - 1 = 1 /\ 1 + 1 = 2 /\ rest # << >>
    BY <1>2, <1>3, <1>10
  <2>2. rest[Len(rest)].node = incompat'
    BY <1>2, <1>3, <1>7, <1>8, <2>1
  <2>3. FitsAfter(rest[1], c)
    BY <1>3, <2>1 DEF TodoRight
  <2>4. FitsAfter(rest[1], c)'
    BY <2>3, SameTree
  <2> QED BY <1>3, <1>4, <1>6, <1>8, <2>1, <2>2, <2>4 DEF TodoRight
<1> QED BY <1>9, <1>10

-----------------------------------------------------------------------------
(* The steps of the report. *)

\* The lines written so far are what a reader relies on.
LEMMA RightLines ==
    ASSUME LinesRight(lines, refCount)
    PROVE  /\ RefsRight
           /\ phase # "done" => LinesFollow
           /\ lines # << >> /\ lines[Len(lines)].says = incompat => LinesFollow
<1>1. lines \in Seq(LineType) /\ refCount \in Nat
  BY DEF LinesRight
<1>2. RefsRight
  <2>1. ASSUME NEW i \in DOMAIN lines, NEW ref \in lines[i].refs
        PROVE  \E j \in 1 .. i - 1 : /\ lines[j].says = ref[1]
                                    /\ {k \in DOMAIN lines : ref[2] \in lines[k].numbers} = {j}
    <3>1. PICK j \in 1 .. i - 1 : lines[j].says = ref[1] /\ ref[2] \in lines[j].numbers
      BY DEF LinesRight, RefsLeadBack
    <3>2. j \in DOMAIN lines
      BY <1>1
    <3>3. \A k \in DOMAIN lines : ref[2] \in lines[k].numbers => k = j
      BY <3>1, <3>2 DEF LinesRight, NumberedOnce
    <3> QED BY <3>1, <3>2, <3>3
  <2>2. ASSUME NEW i \in DOMAIN lines
        PROVE  Cardinality(lines[i].numbers) <= 1
    <3>1. lines[i].numbers = {} \/ \E x : lines[i].numbers = {x}
      BY DEF LinesRight, NumberedOnce
    <3>2. Cardinality(lines[i].numbers) = 0 \/ Cardinality(lines[i].numbers) = 1
      BY <3>1, FS_EmptySet, FS_Singleton
    <3> QED BY <3>2
  <2> QED BY <2>1, <2>2 DEF RefsRight
<1>3. ASSUME NEW i \in DOMAIN lines, lines[i] # Blank
      PROVE  IF IsDerived(lines[i].says)
             THEN (lines[i].continues => i > 1) /\ Explains(lines[i].says, Premises(i))
             ELSE Premises(i) = {incompat}
  <2>1. (lines[i].continues => i > 1) /\ FollowsAfter(lines[i], lines[i - 1].says)
    BY <1>3 DEF LinesRight, EachFollows
  <2>2. Premises(i) = PremisesAfter(lines[i], lines[i - 1].says)
    BY DEF Premises, PremisesAfter, Referred
  <2> QED BY <2>1, <2>2 DEF FollowsAfter, Nodes
<1> QED BY <1>2, <1>3 DEF LinesFollow

\* The first task: its node is in the tree, and if it does not start an
\* explanation the last line is what it needs.
LEMMA FirstTask ==
    ASSUME TodoRight, todo # << >>
    PROVE  /\ Head(todo) = todo[1] /\ todo[1] \in TaskType
           /\ Node = todo[1].node /\ Node \in Nodes
           /\ todo[1].do # "explain" => \E d \in Nodes : Said(d) /\ FitsAfter(todo[1], d)
           /\ todo[1].do = "say" =>
                 \A ref \in todo[1].line.refs : KnownIn(lines, ref[1], ref[2])
<1>1. todo \in Seq(TaskType) /\ 1 \in DOMAIN todo /\ todo[1] \in TaskType
  BY DEF TodoRight
<1>2. todo[1].node \in Nodes
  BY <1>1 DEF TaskType
<1> QED BY <1>1, <1>2 DEF TodoRight, Node

\* A node that has a line reference is known by it.
LEMMA RefKnown ==
    ASSUME RefsKnown, NEW d, HasRef(d)
    PROVE  RefOf(d) \in Nat /\ KnownIn(lines, d, RefOf(d))
BY DEF RefsKnown, HasRef, RefOf

\* What every step of the report leaves to be shown.
LEMMA StepRight ==
    ASSUME ReportInvariant, phase = "report", UNCHANGED <<treeVars, sharedWithRef>>,
           \A d, r : KnownIn(lines, d, r) => KnownIn(lines', d, r),
           LinesRight(lines', refCount'), TodoRight'
    PROVE  ReportInvariant'
<1>1. UNCHANGED <<causes, incompat, phase, allIds, precomputed>>
  BY DEF treeVars
<1>2. LinesRight(lines, refCount)'
  BY <1>1, SameTree
<1>3. RefsKnown'
  <2>1. RefsKnown
    BY DEF ReportInvariant
  <2> QED BY <2>1 DEF RefsKnown, KnownIn
<1>4. (incompat \in Nodes)'
  BY <1>1, SameTree DEF ReportInvariant
<1> QED BY <1>1, <1>2, <1>3, <1>4 DEF ReportInvariant

\* A line that concludes the node of the task is pushed, and the task done.
LEMMA PushStep ==
    ASSUME ReportInvariant, phase = "report", todo # << >>,
           UNCHANGED <<treeVars, refCount, sharedWithRef>>,
           NEW line \in LineType, Push(line), Call(<< >>),
           line.numbers = {}, line.says = Node,
           \A ref \in line.refs : KnownIn(lines, ref[1], ref[2]),
           line.continues => lines # << >>,
           FollowsAfter(line, lines[Len(lines)].says)
    PROVE  ReportInvariant'
<1>1. UNCHANGED <<causes, incompat, phase, allIds, precomputed>>
  BY DEF treeVars
<1>2. lines \in Seq(LineType) /\ lines' = Append(lines, line)
  BY DEF ReportInvariant, LinesRight, Push
<1>3. /\ LinesRight(lines', refCount')
      /\ \A d, r : KnownIn(lines, d, r) => KnownIn(lines', d, r)
  BY <1>2, AppendLine DEF ReportInvariant
<1>4. PICK c : c = Node
  OBVIOUS
<1>5. Said(c)'
  BY <1>2, <1>4 DEF Said
<1>6. TodoRight'
  BY <1>1, <1>3, <1>4, <1>5, FinishTask DEF ReportInvariant
<1> QED BY <1>3, <1>6, StepRight

\* The tasks that explain a node.
LEMMA BuildTasks ==
    ASSUME NEW n \in Nodes
    PROVE  /\ Task("explain", n) \in TaskType /\ Task("number", n) \in TaskType
           /\ Task("resume", n) \in TaskType
           /\ FitsAfter(Task("number", n), n)
<1>1. Blank \in LineType
  BY DEF Blank, Line, LineType
<1> QED BY <1>1 DEF Task, TaskType, FitsAfter

LEMMA ThreeTasks ==
    ASSUME NEW t1 \in TaskType, NEW t2 \in TaskType, NEW t3 \in TaskType,
           NEW tasks, tasks = Append(<<t1, t2>>, t3)
    PROVE  /\ tasks \in Seq(TaskType) /\ tasks # << >> /\ Len(tasks) = 3
           /\ DOMAIN tasks = 1 .. 3
           /\ tasks[1] = t1 /\ tasks[2] = t2 /\ tasks[3] = t3
<1>1. PICK S : S = TaskType
  OBVIOUS
<1>2. PICK two : two = <<t1, t2>>
  OBVIOUS
<1>3. two \in Seq(S) /\ Len(two) = 2 /\ two[1] = t1 /\ two[2] = t2 /\ t3 \in S
  BY <1>1, <1>2
<1>4. /\ tasks \in Seq(S) /\ Len(tasks) = 3
      /\ tasks[1] = t1 /\ tasks[2] = t2 /\ tasks[3] = t3
  BY <1>2, <1>3
<1> QED BY <1>1, <1>4

\* Another node is explained first, and what is left is done after that.
LEMMA CallStep ==
    ASSUME ReportInvariant, phase = "report", todo # << >>,
           UNCHANGED <<treeVars, sharedWithRef>>,
           LinesRight(lines', refCount'),
           \A d, r : KnownIn(lines, d, r) => KnownIn(lines', d, r),
           NEW c \in Nodes, NEW last \in TaskType, last.node = Node, FitsAfter(last, c),
           last.do = "say" => \A ref \in last.line.refs : KnownIn(lines', ref[1], ref[2]),
           Call(Append(BuildRecursive(c), last))
    PROVE  ReportInvariant'
<1>1. UNCHANGED <<causes, incompat, allIds, precomputed>>
  BY DEF treeVars
<1>2. PICK t1, t2 \in TaskType :
          /\ t1 = Task("explain", c) /\ t2 = Task("number", c)
          /\ t1.do = "explain" /\ t1.node = c /\ t2.do = "number" /\ t2.node = c
          /\ FitsAfter(t2, c)
  BY BuildTasks DEF Task
<1>3. PICK two : two = BuildRecursive(c)
  OBVIOUS
<1>4. PICK tasks : tasks = Append(two, last)
  OBVIOUS
<1>5. /\ tasks \in Seq(TaskType) /\ tasks # << >> /\ Len(tasks) = 3 /\ DOMAIN tasks = 1 .. 3
      /\ tasks[1] = t1 /\ tasks[2] = t2 /\ tasks[3] = last
  <2>1. tasks = Append(<<t1, t2>>, last)
    BY <1>2, <1>3, <1>4 DEF BuildRecursive
  <2> QED BY <2>1, ThreeTasks
<1>6. ASSUME NEW i \in DOMAIN tasks, i > 1
      PROVE  FitsAfter(tasks[i], tasks[i - 1].node)
  <2>1. CASE i = 2
    BY <1>2, <1>5, <2>1
  <2>2. CASE i = 3
    BY <1>2, <1>5, <2>2
  <2> QED BY <1>5, <1>6, <2>1, <2>2
<1>7. \A i \in DOMAIN tasks : tasks[i].do = "say" =>
         \A ref \in tasks[i].line.refs : KnownIn(lines', ref[1], ref[2])
  BY <1>2, <1>5
<1>8. Call(tasks)
  BY <1>3, <1>4
<1>9. TodoRight'
  BY <1>1, <1>2, <1>5, <1>6, <1>7, <1>8, CallTasks DEF ReportInvariant
<1> QED BY <1>9, StepRight

\* A line that may follow the explanation of c is a task that may.
LEMMA SayTask ==
    ASSUME NEW line \in LineType, line.numbers = {}, NEW c, FollowsAfter(line, c)
    PROVE  /\ Say(line) \in TaskType /\ Say(line).node = line.says
           /\ Say(line).do = "say" /\ Say(line).line = line
           /\ FitsAfter(Say(line), c)
<1>1. line.says \in Nodes
  BY DEF FollowsAfter
<1>2. Say(line) \in TaskType
  BY <1>1 DEF Say, TaskType
<1> QED BY <1>1, <1>2 DEF Say, FitsAfter

-----------------------------------------------------------------------------

\* Lines that do not go on from the one before, and those that do; two references.
Fresh(n, externals, refs) == Line(n, externals, refs, FALSE)
Going(n, externals, refs) == Line(n, externals, refs, TRUE)
Refs(d1, r1, d2, r2)      == {<<d1, r1>>, <<d2, r2>>}
NoIds   == {}
NoRefs  == {}
IdSets  == SUBSET Nat
RefSets == SUBSET (Nat \X Nat)

\* A line made of ids of the tree that explains n; it does not go on from the
\* line before.
LEMMA NewLine ==
    ASSUME NEW n \in Nodes, n \in Nat, NEW externals \in IdSets,
           NEW refs \in RefSets,
           Explains(n, externals \cup Referred(refs)),
           NEW line, line = Fresh(n, externals, refs)
    PROVE  /\ line \in LineType /\ line.says = n /\ line.refs = refs /\ line.numbers = {}
           /\ ~line.continues
           /\ \A x : FollowsAfter(line, x)
<1>1. line \in LineType
  BY DEF Fresh, Line, LineType, IdSets, RefSets
<1>2. line.says = n /\ line.externals = externals /\ line.refs = refs /\ line.numbers = {}
  BY DEF Fresh, Line
<1>3. ~line.continues
  BY DEF Fresh, Line
<1>4. \A x : PremisesAfter(line, x) = externals \cup Referred(refs)
  BY <1>2, <1>3 DEF PremisesAfter
<1> QED BY <1>1, <1>2, <1>3, <1>4 DEF FollowsAfter

\* A line that goes on from one that concludes d.
LEMMA NextLine ==
    ASSUME NEW n \in Nodes, n \in Nat, NEW externals \in IdSets,
           NEW refs \in RefSets, NEW d,
           Explains(n, externals \cup Referred(refs) \cup {d}),
           NEW line, line = Going(n, externals, refs)
    PROVE  /\ line \in LineType /\ line.says = n /\ line.refs = refs /\ line.numbers = {}
           /\ FollowsAfter(line, d)
<1>1. line \in LineType
  BY DEF Going, Line, LineType, IdSets, RefSets
<1>2. line.says = n /\ line.externals = externals /\ line.refs = refs /\ line.numbers = {}
  BY DEF Going, Line
<1>3. line.continues
  BY DEF Going, Line
<1>4. PremisesAfter(line, d) = externals \cup Referred(refs) \cup {d}
  BY <1>2, <1>3 DEF PremisesAfter
<1> QED BY <1>1, <1>2, <1>4 DEF FollowsAfter

\* What a line with one or two references refers to.
LEMMA ReferredTo ==
    ASSUME NEW d1 \in Nat, NEW r1 \in Nat, NEW d2 \in Nat, NEW r2 \in Nat, NEW refs,
           refs = Refs(d1, r1, d2, r2)
    PROVE  /\ refs \in RefSets
           /\ Referred(refs) = {d1, d2}
           /\ KnownIn(lines, d1, r1) /\ KnownIn(lines, d2, r2) =>
                 \A ref \in refs : KnownIn(lines, ref[1], ref[2])
<1>1. PICK x1, x2 : x1 = <<d1, r1>> /\ x2 = <<d2, r2>>
  OBVIOUS
<1>2. /\ refs = {x1, x2} /\ x1 \in Nat \X Nat /\ x2 \in Nat \X Nat
      /\ x1[1] = d1 /\ x1[2] = r1 /\ x2[1] = d2 /\ x2[2] = r2
  BY <1>1 DEF Refs
<1>3. Referred(refs) = {d1, d2}
  BY <1>2 DEF Referred
<1> QED BY <1>2, <1>3 DEF RefSets

\* The cause with the number k and the other one are the causes.
LEMMA CauseAndOther ==
    ASSUME TreeInvariant, BuiltInvariant, phase \in {"tree", "report"},
           NEW n \in Nodes, NEW k \in {1, 2}
    PROVE  /\ n \in Nat /\ Cause(n, k) \in allIds /\ Other(n, k) \in allIds
           /\ Cause(n, k) \in Nat /\ Other(n, k) \in Nat
           /\ CausesOf(n) = {Cause(n, k), Other(n, k)}
<1>1. /\ n \in Nat /\ Cause(n, 1) \in allIds /\ Cause(n, 2) \in allIds
      /\ CausesOf(n) = {Cause(n, 1), Cause(n, 2)} /\ allIds \subseteq Nat
  BY NodeCauses
<1>2. CASE k = 1
  <2>1. 3 - k = 2
    BY <1>2
  <2>2. Other(n, k) = Cause(n, 2) /\ Cause(n, k) = Cause(n, 1)
    BY <1>2, <2>1 DEF Other
  <2> QED BY <1>1, <2>2
<1>3. CASE k = 2
  <2>1. 3 - k = 1
    BY <1>3
  <2>2. Other(n, k) = Cause(n, 1) /\ Cause(n, k) = Cause(n, 2)
    BY <1>3, <2>1 DEF Other
  <2> QED BY <1>1, <2>2
<1> QED BY <1>2, <1>3

\* A line that names two external causes.
LEMMA ExplainBothExternalStep ==
    ASSUME TreeInvariant, BuiltInvariant, ReportInvariant, ExplainBothExternal
    PROVE  ReportInvariant'
<1>1. phase = "report" /\ todo # << >> /\ TodoRight
  BY DEF ExplainBothExternal, Doing, ReportInvariant
<1>2. PICK n \in Nodes : n = Node
  BY <1>1, FirstTask
<1>3. PICK c1, c2 \in Nat : c1 = Cause(n, 1) /\ c2 = Cause(n, 2) /\ CausesOf(n) = {c1, c2} /\ n \in Nat
  BY <1>1, <1>2, NodeCauses
<1>4. PICK externals : externals = {c1, c2}
  OBVIOUS
<1>5. PICK line : line = Fresh(n, externals, NoRefs)
  OBVIOUS
<1>6. Push(line) /\ Call(<< >>) /\ UNCHANGED <<treeVars, refCount, sharedWithRef>>
  BY <1>2, <1>3, <1>4, <1>5 DEF ExplainBothExternal, BothExternal, Fresh, NoRefs
<1>7. externals \in IdSets /\ NoRefs \in RefSets /\ Explains(n, externals \cup Referred(NoRefs))
  <2>1. externals \cup Referred(NoRefs) = {c1, c2}
    BY <1>4 DEF Referred, NoRefs
  <2> QED BY <1>3, <1>4, <2>1 DEF Explains, IdSets, RefSets, NoRefs
<1>8. /\ line \in LineType /\ line.says = n /\ line.refs = NoRefs /\ line.numbers = {}
      /\ ~line.continues /\ \A x : FollowsAfter(line, x)
  <2>1. n \in Nat
    BY <1>3
  <2> QED BY <1>2, <1>5, <1>7, <2>1, NewLine
<1> QED BY <1>1, <1>2, <1>6, <1>8, PushStep DEF NoRefs

\* A line that names two derived causes by their line references.
LEMMA ExplainBothRefStep ==
    ASSUME TreeInvariant, BuiltInvariant, ReportInvariant, ExplainBothRef
    PROVE  ReportInvariant'
<1>1. phase = "report" /\ todo # << >> /\ TodoRight /\ RefsKnown
  BY DEF ExplainBothRef, Doing, ReportInvariant
<1>2. PICK n \in Nodes : n = Node
  BY <1>1, FirstTask
<1>3. PICK c1, c2 \in Nat : c1 = Cause(n, 1) /\ c2 = Cause(n, 2) /\ CausesOf(n) = {c1, c2} /\ n \in Nat
  BY <1>1, <1>2, NodeCauses
<1>4. HasRef(c1) /\ HasRef(c2)
  BY <1>2, <1>3 DEF ExplainBothRef
<1>5. PICK r1, r2 \in Nat : /\ r1 = RefOf(c1) /\ r2 = RefOf(c2)
                            /\ KnownIn(lines, c1, r1) /\ KnownIn(lines, c2, r2)
  BY <1>1, <1>4, RefKnown
<1>6. PICK refs : refs = Refs(c1, r1, c2, r2)
  OBVIOUS
<1>7. /\ refs \in RefSets /\ Referred(refs) = {c1, c2}
      /\ \A ref \in refs : KnownIn(lines, ref[1], ref[2])
  BY <1>3, <1>5, <1>6, ReferredTo
<1>8. PICK line : line = Fresh(n, NoIds, refs)
  OBVIOUS
<1>9. Push(line) /\ Call(<< >>) /\ UNCHANGED <<treeVars, refCount, sharedWithRef>>
  BY <1>2, <1>3, <1>5, <1>6, <1>8 DEF ExplainBothRef, BothRef, Refs, Fresh, NoIds
<1>10. Explains(n, NoIds \cup Referred(refs))
  BY <1>3, <1>7 DEF Explains, NoIds
<1>11. /\ line \in LineType /\ line.says = n /\ line.refs = refs /\ line.numbers = {}
       /\ ~line.continues /\ \A x : FollowsAfter(line, x)
  <2>1. n \in Nat /\ refs \in RefSets /\ NoIds \in IdSets
    BY <1>3, <1>7 DEF IdSets, NoIds
  <2> QED BY <1>2, <1>8, <1>10, <2>1, NewLine
<1> QED BY <1>1, <1>2, <1>7, <1>9, <1>11, PushStep

\* A line that names one cause by its reference, and an external one.
LEMMA ReportRefAndExternalStep ==
    ASSUME TreeInvariant, BuiltInvariant, ReportInvariant, ReportRefAndExternal
    PROVE  ReportInvariant'
<1>1. phase = "report" /\ todo # << >> /\ TodoRight /\ RefsKnown
  BY DEF ReportRefAndExternal, Doing, ReportInvariant
<1>2. PICK n \in Nodes : n = Node
  BY <1>1, FirstTask
<1>3. PICK k \in {1, 2} :
          /\ HasRef(Cause(n, k)) /\ Call(<< >>)
          /\ Push(RefAndExternal(n, Cause(n, k), RefOf(Cause(n, k)), Other(n, k)))
          /\ UNCHANGED <<treeVars, refCount, sharedWithRef>>
  BY <1>2 DEF ReportRefAndExternal
<1>4. PICK d, e \in Nat : d = Cause(n, k) /\ e = Other(n, k) /\ CausesOf(n) = {d, e} /\ n \in Nat
  BY <1>1, <1>2, <1>3, CauseAndOther
<1>5. PICK r \in Nat : r = RefOf(d) /\ KnownIn(lines, d, r)
  BY <1>1, <1>3, <1>4, RefKnown
<1>6. PICK refs : refs = Refs(d, r, d, r)
  OBVIOUS
<1>7. /\ refs \in RefSets /\ Referred(refs) = {d, d}
      /\ \A ref \in refs : KnownIn(lines, ref[1], ref[2])
  BY <1>4, <1>5, <1>6, ReferredTo
<1>8. PICK externals, line : externals = {e} /\ line = Fresh(n, externals, refs)
  OBVIOUS
<1>9. Push(line)
  <2>1. refs = {<<d, r>>}
    BY <1>6 DEF Refs
  <2> QED BY <1>3, <1>4, <1>5, <1>8, <2>1 DEF RefAndExternal, Fresh
<1>10. externals \in IdSets /\ Explains(n, externals \cup Referred(refs))
  <2>1. externals \cup Referred(refs) = {d, e}
    BY <1>7, <1>8
  <2> QED BY <1>4, <1>8, <2>1 DEF Explains, IdSets
<1>11. line = Fresh(n, externals, refs)
  BY <1>8
<1>12. /\ line \in LineType /\ line.says = n /\ line.refs = refs /\ line.numbers = {}
       /\ ~line.continues /\ \A x : FollowsAfter(line, x)
  <2>1. n \in Nat /\ refs \in RefSets
    BY <1>4, <1>7
  <2> QED BY <1>2, <1>10, <1>11, <2>1, NewLine
<1> QED BY <1>1, <1>2, <1>3, <1>7, <1>9, <1>12, PushStep

\* The line prepared before the node it goes on from was explained.
LEMMA SayLineStep ==
    ASSUME TreeInvariant, BuiltInvariant, ReportInvariant, SayLine
    PROVE  ReportInvariant'
<1>1. phase = "report" /\ todo # << >> /\ TodoRight /\ Head(todo).do = "say"
  BY DEF SayLine, Doing, ReportInvariant
<1>2. PICK line \in LineType : /\ line = Head(todo).line /\ line.says = Node /\ line.numbers = {}
                               /\ lines # << >> /\ FollowsAfter(line, lines[Len(lines)].says)
                               /\ \A ref \in line.refs : KnownIn(lines, ref[1], ref[2])
  <2>1. todo[1].line \in LineType
    BY <1>1, FirstTask DEF TaskType
  <2>2. PICK d \in Nodes : Said(d) /\ FitsAfter(todo[1], d)
    BY <1>1, FirstTask
  <2> QED BY <1>1, <2>1, <2>2, FirstTask DEF FitsAfter, Said
<1>3. Push(line) /\ Call(<< >>) /\ UNCHANGED <<treeVars, refCount, sharedWithRef>>
  BY <1>2 DEF SayLine
<1> QED BY <1>1, <1>2, <1>3, PushStep

\* Nothing is written by the step.
LEMMA SameLines ==
    ASSUME ReportInvariant, phase = "report", UNCHANGED <<refCount, lines>>
    PROVE  /\ LinesRight(lines', refCount')
           /\ \A d, r : KnownIn(lines, d, r) => KnownIn(lines', d, r)
BY DEF ReportInvariant

\* Another node is explained, then a line goes on from its conclusion.
LEMMA SayAfter ==
    ASSUME ReportInvariant, phase = "report", todo # << >>,
           UNCHANGED <<treeVars, sharedWithRef>>,
           LinesRight(lines', refCount'),
           \A d, r : KnownIn(lines, d, r) => KnownIn(lines', d, r),
           NEW c \in Nodes, NEW line \in LineType, line.says = Node, line.numbers = {},
           FollowsAfter(line, c),
           \A ref \in line.refs : KnownIn(lines', ref[1], ref[2]),
           Call(Append(BuildRecursive(c), Say(line)))
    PROVE  ReportInvariant'
<1>1. PICK last \in TaskType : last = Say(line)
  BY SayTask
<1>2. last.node = Node /\ last.do = "say" /\ last.line = line /\ FitsAfter(last, c)
  BY <1>1, SayTask
<1>3. Call(Append(BuildRecursive(c), last))
  BY <1>1
<1> QED BY <1>2, <1>3, CallStep

\* The cause without a reference is explained, the other one referred to.
LEMMA ExplainOtherThenRefStep ==
    ASSUME TreeInvariant, BuiltInvariant, ReportInvariant, ExplainOtherThenRef
    PROVE  ReportInvariant'
<1>1. phase = "report" /\ todo # << >> /\ TodoRight /\ RefsKnown
  BY DEF ExplainOtherThenRef, Doing, ReportInvariant
<1>2. PICK n \in Nodes : n = Node
  BY <1>1, FirstTask
<1>3. PICK k \in {1, 2} :
          /\ HasRef(Cause(n, k))
          /\ Call(Append(BuildRecursive(Other(n, k)),
                         Say(AndRef(n, Cause(n, k), RefOf(Cause(n, k))))))
  BY <1>2 DEF ExplainOtherThenRef
<1>4. UNCHANGED <<treeVars, refCount, sharedWithRef, lines>>
  BY DEF ExplainOtherThenRef
<1>5. PICK d, e \in Nat : d = Cause(n, k) /\ e = Other(n, k) /\ CausesOf(n) = {d, e} /\ n \in Nat
  BY <1>1, <1>2, <1>3, CauseAndOther
<1>6. e \in Nodes
  <2>1. e \in allIds
    BY <1>1, <1>2, <1>3, <1>5, CauseAndOther
  <2>2. IsDerived(Cause(n, 1)) /\ IsDerived(Cause(n, 2))
    BY <1>2 DEF ExplainOtherThenRef, BothDerivedCauses
  <2>3. e = Cause(n, 1) \/ e = Cause(n, 2)
    BY <1>1, <1>2, <1>5, NodeCauses
  <2> QED BY <2>1, <2>2, <2>3 DEF Nodes
<1>7. PICK r \in Nat : r = RefOf(d) /\ KnownIn(lines, d, r)
  BY <1>1, <1>3, <1>5, RefKnown
<1>8. PICK refs : refs = Refs(d, r, d, r)
  OBVIOUS
<1>9. /\ refs \in RefSets /\ Referred(refs) = {d, d}
      /\ \A ref \in refs : KnownIn(lines, ref[1], ref[2])
  BY <1>5, <1>7, <1>8, ReferredTo
<1>10. PICK line : line = Going(n, NoIds, refs)
  OBVIOUS
<1>11. Call(Append(BuildRecursive(e), Say(line)))
  <2>1. refs = {<<d, r>>}
    BY <1>8 DEF Refs
  <2> QED BY <1>3, <1>5, <1>7, <1>10, <2>1 DEF AndRef, Going, NoIds
<1>12. NoIds \in IdSets /\ Explains(n, NoIds \cup Referred(refs) \cup {e})
  <2>1. NoIds \cup Referred(refs) \cup {e} = {d, e}
    BY <1>9 DEF NoIds
  <2> QED BY <1>5, <2>1 DEF Explains, IdSets
<1>13. /\ line \in LineType /\ line.says = n /\ line.refs = refs /\ line.numbers = {}
       /\ FollowsAfter(line, e)
  <2>1. n \in Nat /\ refs \in RefSets
    BY <1>5, <1>9
  <2> QED BY <1>2, <1>10, <1>12, <2>1, NextLine
<1>14. /\ LinesRight(lines', refCount')
       /\ \A x, y : KnownIn(lines, x, y) => KnownIn(lines', x, y)
  BY <1>1, <1>4, SameLines
<1>15. \A ref \in line.refs : KnownIn(lines', ref[1], ref[2])
  BY <1>9, <1>13, <1>14
<1> QED BY <1>1, <1>2, <1>4, <1>6, <1>11, <1>13, <1>14, <1>15, SayAfter

\* Neither cause has a reference: the first one is explained.
LEMMA ExplainFirstStep ==
    ASSUME TreeInvariant, BuiltInvariant, ReportInvariant, ExplainFirst
    PROVE  ReportInvariant'
<1>1. phase = "report" /\ todo # << >> /\ TodoRight
  BY DEF ExplainFirst, Doing, ReportInvariant
<1>2. PICK n \in Nodes : n = Node
  BY <1>1, FirstTask
<1>3. UNCHANGED <<treeVars, refCount, sharedWithRef, lines>>
  BY DEF ExplainFirst
<1>4. Cause(n, 1) \in Nodes /\ Cause(n, 2) \in Nodes
  <2>1. IsDerived(Cause(n, 1)) /\ IsDerived(Cause(n, 2))
    BY <1>2 DEF ExplainFirst, BothDerivedCauses
  <2> QED BY <1>1, <1>2, <2>1, NodeCauses DEF Nodes
<1>5. PICK c \in Nodes : c = Cause(n, 1)
  BY <1>4
<1>6. PICK last \in TaskType : last = Task("resume", n)
  BY BuildTasks
<1>7. /\ last.node = Node /\ last.do = "resume"
  BY <1>2, <1>6 DEF Task
<1>8. FitsAfter(last, c)
  BY <1>2, <1>4, <1>5, <1>7 DEF FitsAfter
<1>9. Call(Append(BuildRecursive(c), last))
  BY <1>2, <1>5, <1>6 DEF ExplainFirst
<1>10. /\ LinesRight(lines', refCount')
       /\ \A x, y : KnownIn(lines, x, y) => KnownIn(lines', x, y)
  BY <1>1, <1>3, SameLines
<1> QED BY <1>1, <1>3, <1>7, <1>8, <1>9, <1>10, CallStep

\* The derived cause is left out: its own derived cause is explained.
LEMMA ReportChainedStep ==
    ASSUME TreeInvariant, BuiltInvariant, ReportInvariant, ReportChained
    PROVE  ReportInvariant'
<1>1. phase = "report" /\ todo # << >> /\ TodoRight
  BY DEF ReportChained, Doing, ReportInvariant
<1>2. PICK n \in Nodes : n = Node
  BY <1>1, FirstTask
<1>3. PICK k \in {1, 2}, j \in {1, 2} :
          /\ OnlyDerived(n, k) /\ OnlyDerived(Cause(n, k), j)
          /\ Call(Append(BuildRecursive(Cause(Cause(n, k), j)),
                 Say(AndPriorAndExternal(n, Other(Cause(n, k), j), Other(n, k)))))
  BY <1>2 DEF ReportChained
<1>4. UNCHANGED <<treeVars, refCount, sharedWithRef, lines>>
  BY DEF ReportChained
<1>5. PICK d, e \in Nat : d = Cause(n, k) /\ e = Other(n, k) /\ CausesOf(n) = {d, e} /\ n \in Nat
                          /\ d \in Nodes /\ d # e
  <2>1. IsDerived(Cause(n, k)) /\ ~IsDerived(Other(n, k))
    BY <1>3 DEF OnlyDerived, Other
  <2>2. Cause(n, k) \in Nodes
    BY <1>1, <1>2, <1>3, <2>1, CauseAndOther DEF Nodes
  <2>3. Cause(n, k) # Other(n, k)
    BY <2>1
  <2>4. /\ n \in Nat /\ Cause(n, k) \in Nat /\ Other(n, k) \in Nat
        /\ CausesOf(n) = {Cause(n, k), Other(n, k)}
    BY <1>1, <1>2, <1>3, CauseAndOther
  <2> QED BY <2>2, <2>3, <2>4
<1>6. PICK c, f \in Nat : c = Cause(d, j) /\ f = Other(d, j) /\ CausesOf(d) = {c, f}
                          /\ c \in Nodes
  <2>1. Cause(d, j) \in Nodes
    BY <1>1, <1>3, <1>5, CauseAndOther DEF OnlyDerived, Nodes
  <2> QED BY <1>1, <1>3, <1>5, <2>1, CauseAndOther
<1>7. PICK externals : externals = {f, e}
  OBVIOUS
<1>8. PICK line : line = Going(n, externals, NoRefs)
  OBVIOUS
<1>9. Call(Append(BuildRecursive(c), Say(line)))
  BY <1>3, <1>5, <1>6, <1>7, <1>8 DEF AndPriorAndExternal, Going, NoRefs
<1>10. /\ externals \in IdSets /\ NoRefs \in RefSets
       /\ Explains(n, externals \cup Referred(NoRefs) \cup {c})
  <2>1. externals \cup Referred(NoRefs) \cup {c} = {f, e, c}
    BY <1>7 DEF Referred, NoRefs
  <2>2. (CausesOf(n) \ {d}) \cup CausesOf(d) = {f, e, c} /\ d \in CausesOf(n)
    BY <1>5, <1>6
  <2>3. Explains(n, {f, e, c})
    BY <2>2 DEF Explains
  <2> QED BY <1>5, <1>6, <1>7, <2>1, <2>3 DEF IdSets, RefSets, NoRefs
<1>11. /\ line \in LineType /\ line.says = n /\ line.refs = NoRefs /\ line.numbers = {}
       /\ FollowsAfter(line, c)
  <2>1. n \in Nat
    BY <1>5
  <2> QED BY <1>2, <1>8, <1>10, <2>1, NextLine
<1>12. /\ LinesRight(lines', refCount')
       /\ \A x, y : KnownIn(lines, x, y) => KnownIn(lines', x, y)
  BY <1>1, <1>4, SameLines
<1> QED BY <1>1, <1>2, <1>4, <1>6, <1>9, <1>11, <1>12, SayAfter DEF NoRefs

\* The derived cause is explained, then the external one named.
LEMMA ReportThenExternalStep ==
    ASSUME TreeInvariant, BuiltInvariant, ReportInvariant, ReportThenExternal
    PROVE  ReportInvariant'
<1>1. phase = "report" /\ todo # << >> /\ TodoRight
  BY DEF ReportThenExternal, Doing, ReportInvariant
<1>2. PICK n \in Nodes : n = Node
  BY <1>1, FirstTask
<1>3. PICK k \in {1, 2} :
          /\ OnlyDerived(n, k)
          /\ Call(Append(BuildRecursive(Cause(n, k)), Say(AndExternal(n, Other(n, k)))))
  BY <1>2 DEF ReportThenExternal
<1>4. UNCHANGED <<treeVars, refCount, sharedWithRef, lines>>
  BY DEF ReportThenExternal
<1>5. PICK d, e \in Nat : d = Cause(n, k) /\ e = Other(n, k) /\ CausesOf(n) = {d, e} /\ n \in Nat
                          /\ d \in Nodes
  <2>1. Cause(n, k) \in Nodes
    BY <1>1, <1>2, <1>3, CauseAndOther DEF OnlyDerived, Nodes
  <2> QED BY <1>1, <1>2, <1>3, <2>1, CauseAndOther
<1>6. PICK externals : externals = {e}
  OBVIOUS
<1>7. PICK line : line = Going(n, externals, NoRefs)
  OBVIOUS
<1>8. Call(Append(BuildRecursive(d), Say(line)))
  BY <1>3, <1>5, <1>6, <1>7 DEF AndExternal, Going, NoRefs
<1>9. /\ externals \in IdSets /\ NoRefs \in RefSets
      /\ Explains(n, externals \cup Referred(NoRefs) \cup {d})
  <2>1. externals \cup Referred(NoRefs) \cup {d} = {d, e}
    BY <1>6 DEF Referred, NoRefs
  <2> QED BY <1>5, <1>6, <2>1 DEF Explains, IdSets, RefSets, NoRefs
<1>10. /\ line \in LineType /\ line.says = n /\ line.refs = NoRefs /\ line.numbers = {}
       /\ FollowsAfter(line, d)
  <2>1. n \in Nat
    BY <1>5
  <2> QED BY <1>2, <1>7, <1>9, <2>1, NextLine
<1>11. /\ LinesRight(lines', refCount')
       /\ \A x, y : KnownIn(lines, x, y) => KnownIn(lines', x, y)
  BY <1>1, <1>4, SameLines
<1> QED BY <1>1, <1>2, <1>4, <1>5, <1>8, <1>10, <1>11, SayAfter DEF NoRefs

\* The blank line.
LEMMA BlankLine ==
    ASSUME NEW ls, NEW count, LinesRight(ls, count)
    PROVE  /\ LinesRight(Append(ls, Blank), count)
           /\ \A d, r : KnownIn(ls, d, r) => KnownIn(Append(ls, Blank), d, r)
<1>1. PICK line : line = Blank
  OBVIOUS
<1>2. line \in LineType /\ line.numbers = {} /\ line.refs = {}
  BY <1>1 DEF Blank, Line, LineType
<1> QED BY <1>1, <1>2, AppendLine

\* The first cause has a reference by now: the node is explained again.
LEMMA ResumeWithRefStep ==
    ASSUME TreeInvariant, BuiltInvariant, ReportInvariant, ResumeWithRef
    PROVE  ReportInvariant'
<1>1. phase = "report" /\ todo # << >> /\ TodoRight /\ LinesRight(lines, refCount)
  BY DEF ResumeWithRef, Doing, ReportInvariant
<1>2. PICK n \in Nodes : n = Node
  BY <1>1, FirstTask
<1>3. /\ UNCHANGED <<treeVars, refCount, sharedWithRef>> /\ lines' = Append(lines, Blank)
      /\ UNCHANGED <<causes, incompat, allIds, precomputed>>
  BY DEF ResumeWithRef, Push, treeVars
<1>4. /\ LinesRight(lines', refCount')
      /\ \A x, y : KnownIn(lines, x, y) => KnownIn(lines', x, y)
  BY <1>1, <1>3, BlankLine
<1>5. PICK t1, t2 \in TaskType :
          /\ t1 = Task("explain", n) /\ t2 = Task("number", n)
          /\ t1.do = "explain" /\ t1.node = n /\ t2.do = "number" /\ t2.node = n
          /\ FitsAfter(t2, n)
  BY BuildTasks DEF Task
<1>6. PICK tasks : tasks = <<t1, t2>>
  OBVIOUS
<1>7. Call(tasks)
  BY <1>2, <1>5, <1>6 DEF ResumeWithRef, BuildRecursive
<1>8. /\ tasks \in Seq(TaskType) /\ tasks # << >> /\ Len(tasks) = 2 /\ DOMAIN tasks = 1 .. 2
      /\ tasks[1] = t1 /\ tasks[2] = t2
  BY <1>6
<1>9. \A i \in DOMAIN tasks : i > 1 => FitsAfter(tasks[i], tasks[i - 1].node)
  BY <1>5, <1>8
<1>10. \A i \in DOMAIN tasks : tasks[i].do = "say" =>
          \A ref \in tasks[i].line.refs : KnownIn(lines', ref[1], ref[2])
  BY <1>5, <1>8
<1>11. TodoRight'
  BY <1>1, <1>2, <1>3, <1>4, <1>5, <1>7, <1>8, <1>9, <1>10, CallTasks
<1> QED BY <1>1, <1>3, <1>4, <1>11, StepRight

\* The first cause has no id to share: the line that concludes it gets a
\* reference, which the line to be said after the second one uses.
LEMMA ResumeUnsharedStep ==
    ASSUME TreeInvariant, BuiltInvariant, ReportInvariant, ResumeUnshared
    PROVE  ReportInvariant'
<1>1. phase = "report" /\ todo # << >> /\ TodoRight /\ LinesRight(lines, refCount)
      /\ Head(todo).do = "resume"
  BY DEF ResumeUnshared, Doing, ReportInvariant
<1>2. PICK n \in Nodes : n = Node
  BY <1>1, FirstTask
<1>3. PICK d \in Nodes : Said(d) /\ FitsAfter(todo[1], d)
  BY <1>1, FirstTask
<1>4. d = Cause(n, 1) /\ Cause(n, 2) \in Nodes
  BY <1>1, <1>2, <1>3, FirstTask DEF FitsAfter
<1>5. lines # << >> /\ lines[Len(lines)].says = d /\ lines[Len(lines)].numbers = {}
  BY <1>2, <1>3, <1>4 DEF Said, HasRef, ResumeUnshared
<1>6. PICK c \in Nat : c = Cause(n, 2) /\ c \in Nodes /\ CausesOf(n) = {d, c} /\ n \in Nat /\ d \in Nat
                     /\ 0 \notin Nodes
  BY <1>1, <1>2, <1>4, NodeCauses
<1>7. PICK r \in Nat : r = refCount + 1
  BY <1>1 DEF LinesRight
<1>8. PICK new : new = WithNumber(lines, refCount + 1)
  OBVIOUS
<1>9. /\ LinesRight(new, r) /\ KnownIn(new, d, r)
      /\ \A x, y : KnownIn(lines, x, y) => KnownIn(new, x, y)
  <2>1. lines[Len(lines)].says \in Nodes
    BY <1>3, <1>5
  <2> QED BY <1>1, <1>5, <1>6, <1>7, <1>8, <2>1, NumberLine
<1>10. /\ UNCHANGED <<treeVars, sharedWithRef>> /\ lines' = Append(new, Blank) /\ refCount' = r
  BY <1>7, <1>8 DEF ResumeUnshared, WithNumber
<1>11. /\ LinesRight(lines', refCount') /\ KnownIn(lines', d, r)
       /\ \A x, y : KnownIn(lines, x, y) => KnownIn(lines', x, y)
  BY <1>9, <1>10, BlankLine
<1>12. PICK refs : refs = Refs(d, r, d, r)
  OBVIOUS
<1>13. refs \in RefSets /\ Referred(refs) = {d, d}
  BY <1>6, <1>7, <1>12, ReferredTo
<1>14. PICK line : line = Going(n, NoIds, refs)
  OBVIOUS
<1>15. Call(Append(BuildRecursive(c), Say(line)))
  <2>1. refs = {<<d, r>>}
    BY <1>12 DEF Refs
  <2> QED BY <1>2, <1>4, <1>6, <1>7, <1>14, <2>1 DEF ResumeUnshared, AndRef, Going, NoIds
<1>16. NoIds \in IdSets /\ Explains(n, NoIds \cup Referred(refs) \cup {c})
  <2>1. NoIds \cup Referred(refs) \cup {c} = {d, c}
    BY <1>13 DEF NoIds
  <2> QED BY <1>6, <2>1 DEF Explains, IdSets
<1>17. /\ line \in LineType /\ line.says = n /\ line.refs = refs /\ line.numbers = {}
       /\ FollowsAfter(line, c)
  <2>1. n \in Nat /\ refs \in RefSets
    BY <1>6, <1>13
  <2> QED BY <1>2, <1>14, <1>16, <2>1, NextLine
<1>18. \A ref \in line.refs : KnownIn(lines', ref[1], ref[2])
  <2>1. \A ref \in refs : ref[1] = d /\ ref[2] = r
    BY <1>12 DEF Refs
  <2> QED BY <1>11, <1>17, <2>1
<1> QED BY <1>1, <1>2, <1>6, <1>10, <1>11, <1>15, <1>17, <1>18, SayAfter

\* A node that needs no line reference is done as it is.
LEMMA NumberNothingStep ==
    ASSUME TreeInvariant, BuiltInvariant, ReportInvariant, NumberNothing
    PROVE  ReportInvariant'
<1>1. phase = "report" /\ todo # << >> /\ TodoRight /\ Head(todo).do = "number"
  BY DEF NumberNothing, Doing, ReportInvariant
<1>2. /\ Call(<< >>) /\ UNCHANGED <<treeVars, refCount, sharedWithRef, lines>>
      /\ UNCHANGED <<causes, incompat, allIds, precomputed>>
  BY DEF NumberNothing, treeVars
<1>3. PICK d \in Nodes : Said(d) /\ FitsAfter(todo[1], d)
  BY <1>1, FirstTask
<1>4. d = Node
  BY <1>1, <1>3, FirstTask DEF FitsAfter
<1>5. Said(d)'
  BY <1>2, <1>3 DEF Said, HasRef, HasSharedId
<1>6. /\ LinesRight(lines', refCount')
      /\ \A x, y : KnownIn(lines, x, y) => KnownIn(lines', x, y)
  BY <1>1, <1>2, SameLines
<1>7. TodoRight'
  BY <1>1, <1>2, <1>4, <1>5, <1>6, FinishTask
<1> QED BY <1>1, <1>2, <1>6, <1>7, StepRight

\* A shared node gets the line reference its last line gets.
LEMMA NumberSharedStep ==
    ASSUME TreeInvariant, BuiltInvariant, ReportInvariant, NumberShared
    PROVE  ReportInvariant'
<1>1. phase = "report" /\ todo # << >> /\ TodoRight /\ LinesRight(lines, refCount) /\ RefsKnown
      /\ Head(todo).do = "number"
  BY DEF NumberShared, Doing, ReportInvariant
<1>2. /\ Call(<< >>) /\ UNCHANGED treeVars
      /\ UNCHANGED <<causes, incompat, phase, allIds, precomputed>>
  BY DEF NumberShared, treeVars
<1>3. PICK d \in Nodes : Said(d) /\ FitsAfter(todo[1], d)
  BY <1>1, FirstTask
<1>4. d = Node
  BY <1>1, <1>3, FirstTask DEF FitsAfter
<1>5. lines # << >> /\ lines[Len(lines)].says = d /\ lines[Len(lines)].numbers = {}
  BY <1>3, <1>4 DEF Said, HasRef, NeedsRef, NumberShared
<1>6. PICK r \in Nat : r = refCount + 1
  BY <1>1 DEF LinesRight
<1>7. refCount' = r /\ lines' = WithNumber(lines, refCount + 1)
  BY <1>5, <1>6 DEF NumberShared, AddLineRef, WithNumber
<1>8. PICK new : new = lines'
  OBVIOUS
<1>9. /\ LinesRight(new, r) /\ KnownIn(new, d, r) /\ new # << >> /\ new[Len(new)].says = d
      /\ \A x, y : KnownIn(lines, x, y) => KnownIn(new, x, y)
  <2>1. lines[Len(lines)].says \in Nodes /\ 0 \notin Nodes
    BY <1>1, <1>3, <1>5, NodeCauses
  <2> QED BY <1>1, <1>5, <1>6, <1>7, <1>8, <2>1, NumberLine
<1>10. /\ DOMAIN sharedWithRef' = DOMAIN sharedWithRef \cup {d}
       /\ \A x \in DOMAIN sharedWithRef' :
             sharedWithRef'[x] = IF x = d THEN r ELSE sharedWithRef[x]
  BY <1>4, <1>6 DEF NumberShared
<1>11. RefsKnown'
  <2>1. \A x \in DOMAIN sharedWithRef' :
           sharedWithRef'[x] \in Nat /\ KnownIn(new, x, sharedWithRef'[x])
    BY <1>1, <1>9, <1>10 DEF RefsKnown
  <2> QED BY <1>8, <2>1 DEF RefsKnown, KnownIn
<1>12. Said(d)'
  BY <1>2, <1>4, <1>8, <1>9, <1>10 DEF Said, HasRef, HasSharedId, NumberShared, NeedsRef
<1>13. \A x, y : KnownIn(lines, x, y) => KnownIn(lines', x, y)
  BY <1>8, <1>9
<1>14. TodoRight'
  BY <1>1, <1>2, <1>4, <1>12, <1>13, FinishTask
<1>15. LinesRight(lines, refCount)'
  BY <1>2, <1>7, <1>8, <1>9, SameTree
<1>16. (incompat \in Nodes)'
  BY <1>1, <1>2, SameTree DEF ReportInvariant
<1> QED BY <1>1, <1>2, <1>11, <1>14, <1>15, <1>16 DEF ReportInvariant

-----------------------------------------------------------------------------
(* The start and the end of the report, and the steps before it. *)

\* The report starts with the tree built and nothing written.
LEMMA NothingWritten ==
    LinesRight(<< >>, 0)
BY DEF LinesRight, NumberedOnce, RefsLeadBack, EachFollows

LEMMA ReportDerivedStep ==
    ASSUME TreeInvariant, BuiltInvariant, ReportInvariant, ReportDerived
    PROVE  ReportInvariant'
<1>1. /\ phase = "tree" /\ phase' = "report" /\ lines = << >> /\ sharedWithRef = << >>
      /\ LinesRight(lines, refCount)
      /\ UNCHANGED <<causes, incompat, allIds, precomputed, refCount, sharedWithRef, lines>>
  BY DEF ReportDerived, ReportInvariant
<1>2. PICK n \in Nodes : n = incompat
  BY <1>1 DEF TreeInvariant, Stacked, ReportDerived, Nodes
<1>3. PICK t1, t2 \in TaskType :
          /\ t1 = Task("explain", n) /\ t2 = Task("number", n)
          /\ t1.do = "explain" /\ t1.node = n /\ t2.do = "number" /\ t2.node = n
          /\ FitsAfter(t2, n)
  BY BuildTasks DEF Task
<1>4. PICK tasks : tasks = <<t1, t2>>
  OBVIOUS
<1>5. /\ tasks \in Seq(TaskType) /\ tasks # << >> /\ Len(tasks) = 2 /\ DOMAIN tasks = 1 .. 2
      /\ tasks[1] = t1 /\ tasks[2] = t2
  BY <1>4
<1>6. todo' = tasks
  BY <1>2, <1>3, <1>4 DEF ReportDerived, BuildRecursive
<1>7. \A i \in DOMAIN tasks : i > 1 => FitsAfter(tasks[i], tasks[i - 1].node)
  BY <1>3, <1>5
<1>8. /\ tasks \in Seq(TaskType') /\ incompat' = n
      /\ \A i \in DOMAIN tasks : i > 1 => FitsAfter(tasks[i], tasks[i - 1].node)'
  BY <1>1, <1>2, <1>5, <1>7, SameTree
<1>9. TodoRight'
  <2>1. /\ tasks[Len(tasks)].node = incompat' /\ tasks[1].do = "explain"
        /\ \A i \in DOMAIN tasks : tasks[i].do # "say"
    BY <1>3, <1>5, <1>8
  <2>2. tasks # << >>
    BY <1>5
  <2> QED BY <1>6, <1>8, <2>1, <2>2 DEF TodoRight
<1>10. LinesRight(lines, refCount)' /\ (incompat \in Nodes)'
  BY <1>1, <1>2, SameTree
<1>11. RefsKnown'
  BY <1>1 DEF RefsKnown
<1> QED BY <1>1, <1>9, <1>10, <1>11 DEF ReportInvariant

\* A failure that is one external incompatibility is one line.
LEMMA ReportExternalStep ==
    ASSUME TreeInvariant, BuiltInvariant, ReportInvariant, ReportExternal
    PROVE  ReportInvariant'
<1>1. /\ phase' = "done" /\ UNCHANGED <<causes, incompat>> /\ ~IsDerived(incompat)
  BY DEF ReportExternal
<1>2. PICK line : line = Fresh(incompat, {incompat}, {})
  OBVIOUS
<1>3. line.says = incompat /\ line.externals = {incompat} /\ line.refs = {} /\ line.numbers = {}
  BY <1>2 DEF Fresh, Line
<1>4. ~line.continues
  BY <1>2 DEF Fresh, Line
<1>5. lines' = <<line>>
  BY <1>2 DEF ReportExternal, Fresh
<1>6. DOMAIN lines' = {1} /\ lines'[1] = line /\ lines' # << >> /\ Len(lines') = 1
  BY <1>5
<1>7. RefsRight'
  BY <1>3, <1>6, FS_EmptySet DEF RefsRight
<1>8. LinesFollow'
  <2>1. Premises(1)' = {incompat}
    BY <1>3, <1>4, <1>6 DEF Premises
  <2>2. ~IsDerived(incompat)'
    BY <1>1 DEF IsDerived
  <2> QED BY <1>1, <1>3, <1>6, <2>1, <2>2 DEF LinesFollow
<1> QED BY <1>1, <1>7, <1>8 DEF ReportInvariant

\* Nothing is left to do: the last line concludes the failure.
LEMMA EndReportStep ==
    ASSUME TreeInvariant, BuiltInvariant, ReportInvariant, EndReport
    PROVE  ReportInvariant'
<1>1. /\ phase' = "done" /\ UNCHANGED <<causes, incompat, lines>>
      /\ LinesRight(lines, refCount) /\ lines # << >> /\ lines[Len(lines)].says = incompat
  BY DEF EndReport, ReportInvariant, TodoRight, Said, reportVars
<1>2. RefsRight /\ LinesFollow
  BY <1>1, RightLines
<1>3. RefsRight'
  BY <1>1, <1>2 DEF RefsRight
<1>4. LinesFollow'
  <2>1. /\ \A i : Premises(i)' = Premises(i)
        /\ \A n, premises : Explains(n, premises)' <=> Explains(n, premises)
        /\ \A n : IsDerived(n)' <=> IsDerived(n)
    BY <1>1 DEF Premises, Explains, CausesOf, IsDerived
  <2> QED BY <1>1, <1>2, <2>1 DEF LinesFollow
<1> QED BY <1>1, <1>3, <1>4 DEF ReportInvariant

\* While the tree is built nothing is written.
LEMMA TreeStep ==
    ASSUME ReportInvariant, TreeNext, UNCHANGED reportVars
    PROVE  ReportInvariant'
<1>1. phase \in {"visit", "build"} /\ phase' \in {"visit", "build", "tree"}
  BY DEF TreeNext, VisitExternal, VisitFirst, VisitAgain, EndVisit, BuildNode, EndBuild, Visiting
<1>2. /\ todo' = << >> /\ lines' = << >> /\ refCount' = 0 /\ sharedWithRef' = << >>
  BY <1>1 DEF ReportInvariant, reportVars
<1>3. LinesRight(lines, refCount)'
  BY <1>2 DEF LinesRight, NumberedOnce, RefsLeadBack, EachFollows
<1>4. RefsKnown'
  BY <1>2 DEF RefsKnown
<1> QED BY <1>1, <1>2, <1>3, <1>4 DEF ReportInvariant

\* Every step of the report.
LEMMA ReportStep ==
    ASSUME TreeInvariant, BuiltInvariant, ReportInvariant, ReportNext
    PROVE  ReportInvariant'
<1>1. CASE ReportExternal
  BY <1>1, ReportExternalStep
<1>2. CASE ReportDerived
  BY <1>2, ReportDerivedStep
<1>3. CASE EndReport
  BY <1>3, EndReportStep
<1>4. CASE NumberShared
  BY <1>4, NumberSharedStep
<1>5. CASE NumberNothing
  BY <1>5, NumberNothingStep
<1>6. CASE SayLine
  BY <1>6, SayLineStep
<1>7. CASE ExplainBothExternal
  BY <1>7, ExplainBothExternalStep
<1>8. CASE ExplainBothRef
  BY <1>8, ExplainBothRefStep
<1>9. CASE ExplainOtherThenRef
  BY <1>9, ExplainOtherThenRefStep
<1>10. CASE ExplainFirst
  BY <1>10, ExplainFirstStep
<1>11. CASE ResumeWithRef
  BY <1>11, ResumeWithRefStep
<1>12. CASE ResumeUnshared
  BY <1>12, ResumeUnsharedStep
<1>13. CASE ReportRefAndExternal
  BY <1>13, ReportRefAndExternalStep
<1>14. CASE ReportChained
  BY <1>14, ReportChainedStep
<1>15. CASE ReportThenExternal
  BY <1>15, ReportThenExternalStep
<1> QED BY <1>1, <1>2, <1>3, <1>4, <1>5, <1>6, <1>7, <1>8, <1>9, <1>10, <1>11, <1>12,
           <1>13, <1>14, <1>15 DEF ReportNext

\* Nodes keep their causes.
LEMMA BuiltStep ==
    ASSUME TreeInvariant, BuiltInvariant, [Next]_vars
    PROVE  BuiltInvariant'
<1>1. CASE VisitExternal \/ VisitFirst \/ VisitAgain \/ EndVisit
  <2>1. phase = "visit" /\ phase' \in {"visit", "build"} /\ UNCHANGED <<causes, precomputed>>
    BY <1>1 DEF VisitExternal, VisitFirst, VisitAgain, EndVisit, Visiting
  <2> QED BY <2>1 DEF BuiltInvariant
<1>2. CASE BuildNode
  <2>1. PICK id \in allIds :
            precomputed' = [i \in DOMAIN precomputed \cup {id} |->
                              IF i = id THEN [shared |-> id \in sharedIds, causes |-> causes[id]]
                                        ELSE precomputed[i]]
    BY <1>2 DEF BuildNode
  <2>2. \A i \in DOMAIN precomputed' : precomputed'[i].causes = causes[i]
    BY <2>1 DEF BuiltInvariant
  <2>3. phase' = "build" /\ UNCHANGED causes
    BY <1>2 DEF BuildNode
  <2> QED BY <2>2, <2>3 DEF BuiltInvariant
<1>3. CASE EndBuild
  <2>1. phase' = "tree" /\ UNCHANGED <<causes, precomputed, allIds>> /\ Unbuilt = {}
    BY <1>3 DEF EndBuild
  <2>2. DOMAIN precomputed = allIds
    BY <2>1 DEF TreeInvariant, Unbuilt
  <2> QED BY <2>1, <2>2 DEF BuiltInvariant
<1>4. CASE ReportNext
  <2>1. /\ UNCHANGED <<causes, allIds, precomputed>>
        /\ phase \in {"tree", "report"} /\ phase' \in {"report", "done"}
    BY <1>4, ReportKeepsTree
  <2> QED BY <2>1 DEF BuiltInvariant
<1>5. CASE Reported \/ UNCHANGED vars
  <2>1. UNCHANGED <<causes, phase, allIds, precomputed>>
    BY <1>5 DEF Reported, vars, treeVars
  <2> QED BY <2>1 DEF BuiltInvariant
<1> QED BY <1>1, <1>2, <1>3, <1>4, <1>5 DEF Next, TreeNext

\* Nothing changes.
LEMMA StutterStep ==
    ASSUME ReportInvariant, UNCHANGED vars
    PROVE  ReportInvariant'
<1>1. /\ UNCHANGED <<causes, incompat, allIds, precomputed>>
      /\ UNCHANGED <<phase, todo, refCount, sharedWithRef, lines>>
  BY DEF vars, treeVars, reportVars
<1>2. LinesRight(lines, refCount)' <=> LinesRight(lines, refCount)
  BY <1>1, SameTree
<1>3. RefsKnown' <=> RefsKnown
  BY <1>1 DEF RefsKnown, KnownIn
<1>4. TodoRight' <=> TodoRight
  <2>1. Said(incompat)' <=> Said(incompat)
    BY <1>1 DEF Said, HasRef, HasSharedId
  <2>2. \A d : Said(d)' <=> Said(d)
    BY <1>1 DEF Said, HasRef, HasSharedId
  <2>3. /\ Nodes' = Nodes /\ TaskType' = TaskType
        /\ \A task, d : FitsAfter(task, d)' <=> FitsAfter(task, d)
    BY <1>1, SameTree
  <2> QED BY <1>1, <2>1, <2>2, <2>3 DEF TodoRight, KnownIn
<1>5. RefsRight' <=> RefsRight
  BY <1>1 DEF RefsRight
<1>6. LinesFollow' <=> LinesFollow
  BY <1>1 DEF LinesFollow, Explains, CausesOf, Premises, IsDerived
<1>7. (incompat \in Nodes)' <=> incompat \in Nodes
  BY <1>1, SameTree
<1> QED BY <1>1, <1>2, <1>3, <1>4, <1>5, <1>6, <1>7 DEF ReportInvariant

-----------------------------------------------------------------------------

\* All of it holds at the start.
LEMMA ReportInitInvariant == Init => BuiltInvariant /\ ReportInvariant
<1> SUFFICES ASSUME Init PROVE BuiltInvariant /\ ReportInvariant
  OBVIOUS
<1>1. /\ phase = "visit" /\ precomputed = << >>
      /\ todo = << >> /\ lines = << >> /\ refCount = 0 /\ sharedWithRef = << >>
  BY DEF Init, TreeInit, ReportInit
<1>2. BuiltInvariant
  BY <1>1 DEF BuiltInvariant
<1>3. LinesRight(lines, refCount)
  BY <1>1, NothingWritten
<1> QED BY <1>1, <1>2, <1>3 DEF ReportInvariant, RefsKnown

\* Every step keeps all of it.
LEMMA ReportNextInvariant ==
    TreeInvariant /\ BuiltInvariant /\ ReportInvariant /\ [Next]_vars
    => TreeInvariant' /\ BuiltInvariant' /\ ReportInvariant'
<1> SUFFICES ASSUME TreeInvariant, BuiltInvariant, ReportInvariant, [Next]_vars
             PROVE  TreeInvariant' /\ BuiltInvariant' /\ ReportInvariant'
  OBVIOUS
<1>1. TreeInvariant'
  BY TreeNextInvariant
<1>2. BuiltInvariant'
  BY BuiltStep
<1>3. ReportInvariant'
  <2>1. CASE TreeNext /\ UNCHANGED reportVars
    BY <2>1, TreeStep
  <2>2. CASE ReportNext
    BY <2>2, ReportStep
  <2>3. CASE Reported \/ UNCHANGED vars
    BY <2>3, StutterStep DEF Reported
  <2> QED BY <2>1, <2>2, <2>3 DEF Next
<1> QED BY <1>1, <1>2, <1>3

\* The invariant gives what a reader relies on, and not only at the end.
LEMMA InvariantIsRight ==
    ReportInvariant => RefsRight /\ LinesFollow
<1> SUFFICES ASSUME ReportInvariant PROVE RefsRight /\ LinesFollow
  OBVIOUS
<1>1. CASE phase = "done"
  BY <1>1 DEF ReportInvariant
<1>2. CASE phase # "done"
  <2>1. LinesRight(lines, refCount)
    BY <1>2 DEF ReportInvariant
  <2> QED BY <1>2, <2>1, RightLines
<1> QED BY <1>1, <1>2

\* In the report of any failure a line reference leads to exactly one earlier
\* line, which concludes what it stands for, and no line has two numbers
\* (add_line_ref and the three places of report.rs it is called from).
THEOREM RefsAlwaysRight == Spec => []RefsRight
<1>1. Init => TreeInvariant /\ BuiltInvariant /\ ReportInvariant
  BY TreeInitInvariant, ReportInitInvariant
<1>2. TreeInvariant /\ BuiltInvariant /\ ReportInvariant /\ [Next]_vars
      => TreeInvariant' /\ BuiltInvariant' /\ ReportInvariant'
  BY ReportNextInvariant
<1>3. ReportInvariant => RefsRight
  BY InvariantIsRight
<1> QED BY <1>1, <1>2, <1>3, PTL DEF Spec

\* Every line of the report of any failure follows from what it names and from
\* what it goes on from, and the last one concludes the failure.
THEOREM LinesAlwaysFollow == Spec => []LinesFollow
<1>1. Init => TreeInvariant /\ BuiltInvariant /\ ReportInvariant
  BY TreeInitInvariant, ReportInitInvariant
<1>2. TreeInvariant /\ BuiltInvariant /\ ReportInvariant /\ [Next]_vars
      => TreeInvariant' /\ BuiltInvariant' /\ ReportInvariant'
  BY ReportNextInvariant
<1>3. ReportInvariant => LinesFollow
  BY InvariantIsRight
<1> QED BY <1>1, <1>2, <1>3, PTL DEF Spec
=============================================================================
