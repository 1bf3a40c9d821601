------------------------------- MODULE Report -------------------------------
(***************************************************************************)
(* DefaultStringReporter (src/src/report.rs) on the tree that              *)
(* build_derivation_tree makes.  The recursion of build_recursive is the   *)
(* list `todo' of what is still to be done, the next first:                *)
(*   explain   build_recursive_helper of a node                            *)
(*   number    what build_recursive does after it                          *)
(*   resume    the rest of the case where no cause has a line reference,   *)
(*             once the first one is explained                             *)
(*   say       push a line                                                 *)
(* A line is what it concludes and from what, not its words.               *)
(***************************************************************************)
EXTENDS DerivationTree

VARIABLES
    todo,
    refCount,        \* ref_count
    sharedWithRef,   \* shared_with_ref: id -> line reference
    lines

reportVars == <<todo, refCount, sharedWithRef, lines>>
vars == <<treeVars, reportVars>>

\* says: the node concluded, 0 for the blank line; externals: the external
\* premises; refs: the derived premises with their line references;
\* continues: it goes on from the line before ("And because"); numbers: the
\* line references added to it.
Line(n, externals, refs, continues) ==
    [says |-> n, externals |-> externals, refs |-> refs, continues |-> continues,
     numbers |-> {}]

Blank == Line(0, {}, {}, FALSE)

\* explain_both_external and the other methods of the formatter
BothExternal(n, e1, e2)          == Line(n, {e1, e2}, {}, FALSE)
RefAndExternal(n, d, ref, e)     == Line(n, {e}, {<<d, ref>>}, FALSE)
BothRef(n, d1, ref1, d2, ref2)   == Line(n, {}, {<<d1, ref1>>, <<d2, ref2>>}, FALSE)
AndExternal(n, e)                == Line(n, {e}, {}, TRUE)
AndRef(n, d, ref)                == Line(n, {}, {<<d, ref>>}, TRUE)

\* (Mutant: the external cause of the step left out is forgotten.)
AndExternalOnly(n, prior, e)     == AndExternal(n, e)
AndPriorAndExternal(n, prior, e) == Line(n, {prior, e}, {}, TRUE)

Task(do, n)       == [do |-> do, node |-> n, line |-> Blank]
Say(line)         == [do |-> "say", node |-> line.says, line |-> line]

\* (Mutant: the node is numbered before it is explained.)
NumberFirst(n)    == <<Task("number", n), Task("explain", n)>>
BuildRecursive(n) == <<Task("explain", n), Task("number", n)>>

ReportInit ==
    /\ todo = << >>
    /\ refCount = 0
    /\ sharedWithRef = << >>
    /\ lines = << >>

-----------------------------------------------------------------------------
(* What the cases of build_recursive_helper look at. *)

Cause(n, k)    == precomputed[n].causes[k]
HasSharedId(n) == precomputed[n].shared
HasRef(n)      == HasSharedId(n) /\ n \in DOMAIN sharedWithRef
RefOf(n)       == sharedWithRef[n]

BothExternalCauses(n) == ~IsDerived(Cause(n, 1)) /\ ~IsDerived(Cause(n, 2))
BothDerivedCauses(n)  == IsDerived(Cause(n, 1)) /\ IsDerived(Cause(n, 2))

\* The cause with the number k is the only one derived; the other one.
OnlyDerived(n, k) == IsDerived(Cause(n, k)) /\ ~IsDerived(Cause(n, 3 - k))
Other(n, k)       == Cause(n, 3 - k)
IsOneEach(n)      == \E k \in {1, 2} : OnlyDerived(n, k)

-----------------------------------------------------------------------------
(* Steps.  A step does the first thing of `todo', which gives place to     *)
(* what that calls.                                                        *)

Doing(do) == phase = "report" /\ todo # << >> /\ Head(todo).do = do
Node      == Head(todo).node

Call(tasks)      == todo' = tasks \o Tail(todo)
Push(line)  == lines' = Append(lines, line)

\* add_line_ref: the last line gets the next number.
AddLineRef ==
    /\ refCount' = refCount + 1
    /\ lines' = IF lines = << >> THEN lines
                ELSE [lines EXCEPT ![Len(lines)].numbers = @ \cup {refCount + 1}]

-----------------------------------------------------------------------------
(* report *)

ReportExternal ==
    /\ phase = "tree"
    /\ ~IsDerived(incompat)
    /\ lines' = <<Line(incompat, {incompat}, {}, FALSE)>>
    /\ phase' = "done"
    /\ UNCHANGED <<causes, incompat, stack, allIds, sharedIds, precomputed,
                   todo, refCount, sharedWithRef>>

ReportDerived ==
    /\ phase = "tree"
    /\ IsDerived(incompat)
    /\ todo' = BuildRecursive(incompat)
    /\ phase' = "report"
    /\ UNCHANGED <<causes, incompat, stack, allIds, sharedIds, precomputed,
                   refCount, sharedWithRef, lines>>

EndReport ==
    /\ phase = "report"
    /\ todo = << >>
    /\ phase' = "done"
    /\ UNCHANGED <<causes, incompat, stack, allIds, sharedIds, precomputed, reportVars>>

-----------------------------------------------------------------------------
(* build_recursive and the cases of build_recursive_helper *)

\* A shared node gets a line reference when it has none; a call for the same
\* node inside this one may have given it one.
NeedsRef(n) == HasSharedId(n) /\ n \notin DOMAIN sharedWithRef

NumberShared ==
    /\ Doing("number")
    /\ NeedsRef(Node)
    /\ AddLineRef
    /\ sharedWithRef' = [n \in DOMAIN sharedWithRef \cup {Node} |->
                            IF n = Node THEN refCount + 1 ELSE sharedWithRef[n]]
    /\ Call(<< >>)
    /\ UNCHANGED treeVars

NumberNothing ==
    /\ Doing("number")
    /\ ~NeedsRef(Node)
    /\ Call(<< >>)
    /\ UNCHANGED <<treeVars, refCount, sharedWithRef, lines>>

SayLine ==
    /\ Doing("say")
    /\ Push(Head(todo).line)
    /\ Call(<< >>)
    /\ UNCHANGED <<treeVars, refCount, sharedWithRef>>

ExplainBothExternal ==
    /\ Doing("explain")
    /\ BothExternalCauses(Node)
    /\ Push(BothExternal(Node, Cause(Node, 1), Cause(Node, 2)))
    /\ Call(<< >>)
    /\ UNCHANGED <<treeVars, refCount, sharedWithRef>>

ExplainBothRef ==
    /\ Doing("explain")
    /\ BothDerivedCauses(Node)
    /\ LET d1 == Cause(Node, 1)
           d2 == Cause(Node, 2)
       IN  /\ HasRef(d1) /\ HasRef(d2)
           /\ Push(BothRef(Node, d1, RefOf(d1), d2, RefOf(d2)))
    /\ Call(<< >>)
    /\ UNCHANGED <<treeVars, refCount, sharedWithRef>>

\* The cause without a reference is explained, then the other one referred to.
ExplainOtherThenRef ==
    /\ Doing("explain")
    /\ BothDerivedCauses(Node)
    /\ \E k \in {1, 2} :
          LET known == Cause(Node, k)
          IN  /\ HasRef(known) /\ ~HasRef(Other(Node, k))
              /\ Call(Append(BuildRecursive(Other(Node, k)), Say(AndRef(Node, known, RefOf(known)))))
    /\ UNCHANGED <<treeVars, refCount, sharedWithRef, lines>>

ExplainFirst ==
    /\ Doing("explain")
    /\ BothDerivedCauses(Node)
    /\ ~HasRef(Cause(Node, 1)) /\ ~HasRef(Cause(Node, 2))
    /\ Call(Append(BuildRecursive(Cause(Node, 1)), Task("resume", Node)))
    /\ UNCHANGED <<treeVars, refCount, sharedWithRef, lines>>

\* The first cause has a reference now: the node is explained again.
ResumeWithRef ==
    /\ Doing("resume")
    /\ HasSharedId(Cause(Node, 1))
    /\ Push(Blank)
    /\ Call(BuildRecursive(Node))
    /\ UNCHANGED <<treeVars, refCount, sharedWithRef>>

\* The last line, which concludes the first cause, gets a reference for this
\* use only.
ResumeUnshared ==
    /\ Doing("resume")
    /\ ~HasSharedId(Cause(Node, 1))
    /\ refCount' = refCount + 1
    /\ lines' = Append([lines EXCEPT ![Len(lines)].numbers = @ \cup {refCount + 1}], Blank)
    /\ Call(Append(BuildRecursive(Cause(Node, 2)),
                   Say(AndRef(Node, Cause(Node, 1), refCount + 1))))
    /\ UNCHANGED <<treeVars, sharedWithRef>>

-----------------------------------------------------------------------------
(* report_one_each and report_recurse_one_each *)

ReportRefAndExternal ==
    /\ Doing("explain")
    /\ \E k \in {1, 2} :
          LET derived == Cause(Node, k)
          IN  /\ OnlyDerived(Node, k)
              /\ HasRef(derived)
              /\ Push(RefAndExternal(Node, derived, RefOf(derived), Other(Node, k)))
    /\ Call(<< >>)
    /\ UNCHANGED <<treeVars, refCount, sharedWithRef>>

\* The derived cause has one derived cause itself, `prior': it gets no line of
\* its own.
ReportChained ==
    /\ Doing("explain")
    /\ \E k, j \in {1, 2} :
          LET derived == Cause(Node, k)
          IN  /\ OnlyDerived(Node, k)
              /\ ~HasRef(derived)
              /\ OnlyDerived(derived, j)
              /\ Call(Append(BuildRecursive(Cause(derived, j)),
                     Say(AndPriorAndExternal(Node, Other(derived, j), Other(Node, k)))))
    /\ UNCHANGED <<treeVars, refCount, sharedWithRef, lines>>

ReportThenExternal ==
    /\ Doing("explain")
    /\ \E k \in {1, 2} :
          LET derived == Cause(Node, k)
          IN  /\ OnlyDerived(Node, k)
              /\ ~HasRef(derived)
              /\ ~IsOneEach(derived)
              /\ Call(Append(BuildRecursive(derived), Say(AndExternal(Node, Other(Node, k)))))
    /\ UNCHANGED <<treeVars, refCount, sharedWithRef, lines>>

Reported == phase = "done" /\ UNCHANGED vars

ReportNext ==
    \/ ReportExternal \/ ReportDerived \/ EndReport
    \/ NumberShared \/ NumberNothing \/ SayLine
    \/ ExplainBothExternal \/ ExplainBothRef \/ ExplainOtherThenRef \/ ExplainFirst
    \/ ResumeWithRef \/ ResumeUnshared
    \/ ReportRefAndExternal \/ ReportChained \/ ReportThenExternal

Init == TreeInit /\ ReportInit

Next ==
    \/ TreeNext /\ UNCHANGED reportVars
    \/ ReportNext
    \/ Reported

\* Both are called on one thread and run on.
Spec == Init /\ [][Next]_vars /\ WF_vars(Next)

-----------------------------------------------------------------------------
(* What a reader of the report relies on. *)

\* A line reference leads to exactly one line, an earlier one, which concludes
\* what it stands for; and no line has two numbers.
RefsRight ==
    /\ \A i \in DOMAIN lines : \A ref \in lines[i].refs :
          \E j \in 1 .. i - 1 :
              /\ lines[j].says = ref[1]
              /\ {k \in DOMAIN lines : ref[2] \in lines[k].numbers} = {j}
    /\ \A i \in DOMAIN lines : Cardinality(lines[i].numbers) <= 1

\* What line i concludes from: what it states, what it refers to, and, when
\* it goes on from the line before, what that one concludes.
Premises(i) ==
    lines[i].externals
    \cup {ref[1] : ref \in lines[i].refs}
    \cup (IF lines[i].continues THEN {lines[i - 1].says} ELSE {})

\* The causes of n, or those with a derived one replaced by its own causes.
Explains(n, premises) ==
    \/ premises = CausesOf(n)
    \/ \E d \in CausesOf(n) : premises = (CausesOf(n) \ {d}) \cup CausesOf(d)

\* Every line follows: from the two causes of what it concludes, or from one
\* and the causes of the other; "And because" never follows a blank line or
\* the conclusion of something else.  The last one concludes the failure.
LinesFollow ==
    /\ \A i \in DOMAIN lines : lines[i] # Blank =>
          IF IsDerived(lines[i].says)
          THEN (lines[i].continues => i > 1) /\ Explains(lines[i].says, Premises(i))
          ELSE Premises(i) = {incompat}
    /\ phase = "done" => lines # << >> /\ lines[Len(lines)].says = incompat

\* The report gets written.
ReportWritten == <>(phase = "done")

\* "This can be used to only explain this incompatibility once, then refer to
\* the explanation for the other times" (Derived::shared_id): what has a line
\* reference is not explained again.
ExplainedOnce ==
    [][Doing("explain") => ~HasRef(Node)]_vars
=============================================================================
