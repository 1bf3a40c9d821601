--------------------------- MODULE DerivationTree ---------------------------
(***************************************************************************)
(* How `resolve' makes the tree that explains a failure                    *)
(* (State::build_derivation_tree in src/src/internal/core.rs and           *)
(* Incompatibility::build_derivation_tree in                               *)
(* src/src/internal/incompatibility.rs): a first loop visits what the      *)
(* terminal incompatibility was derived from and notes what is met again,  *)
(* a second one builds the nodes in the order of their ids.  A node is     *)
(* known by the id of its incompatibility, as the Arcs to it are copies of *)
(* one pointer.                                                            *)
(***************************************************************************)
EXTENDS Naturals, Sequences, FiniteSets

CONSTANT Failures   \* what `resolve' may fail with: the causes of every
                    \* incompatibility in the store, << >> for an external
                    \* one, and the id of the terminal one

IsDerivation(c) ==
    /\ c \in Seq({<< >>} \cup (Nat \X Nat))
    /\ \A i \in DOMAIN c : \A k \in DOMAIN c[i] : c[i][k] \in 1 .. i - 1

ASSUME FailuresAssumption ==
    \A f \in Failures : IsDerivation(f.causes) /\ f.incompat \in DOMAIN f.causes

VARIABLES
    causes,       \* the causes of every incompatibility in the store
    incompat,     \* the terminal incompatibility
    phase,        \* "visit", "build", "tree"; then "report", "done"
    stack,        \* ids still to visit, its top at the end
    allIds,
    sharedIds,
    precomputed   \* id -> [shared, causes], the nodes built

treeVars == <<causes, incompat, phase, stack, allIds, sharedIds, precomputed>>

IsDerived(id) == causes[id] # << >>

TreeInit ==
    /\ \E f \in Failures : causes = f.causes /\ incompat = f.incompat
    /\ phase = "visit"
    /\ stack = <<incompat>>
    /\ allIds = {}
    /\ sharedIds = {}
    /\ precomputed = << >>

-----------------------------------------------------------------------------
(* The `while let' over the stack. *)

Top    == stack[Len(stack)]
Popped == SubSeq(stack, 1, Len(stack) - 1)

Visiting == phase = "visit" /\ stack # << >>

VisitExternal ==
    /\ Visiting
    /\ ~IsDerived(Top)
    /\ allIds' = allIds \cup {Top}
    /\ stack' = Popped
    /\ UNCHANGED <<causes, incompat, phase, sharedIds, precomputed>>

\* (Mutant: the second cause is not followed.)
PushFirstCause(id) == Append(Popped, causes[id][1])

PushCauses(id) == Popped \o causes[id]

VisitFirst ==
    /\ Visiting
    /\ IsDerived(Top)
    /\ Top \notin allIds
    /\ allIds' = allIds \cup {Top}
    /\ stack' = PushCauses(Top)
    /\ UNCHANGED <<causes, incompat, phase, sharedIds, precomputed>>

\* The causes of what is met again are not visited again.
VisitAgain ==
    /\ Visiting
    /\ IsDerived(Top)
    /\ Top \in allIds
    /\ sharedIds' = sharedIds \cup {Top}
    /\ stack' = Popped
    /\ UNCHANGED <<causes, incompat, phase, allIds, precomputed>>

EndVisit ==
    /\ phase = "visit"
    /\ stack = << >>
    /\ phase' = "build"
    /\ UNCHANGED <<causes, incompat, stack, allIds, sharedIds, precomputed>>

-----------------------------------------------------------------------------
(* The `for' over sorted_ids. *)

Unbuilt == allIds \ DOMAIN precomputed

\* id is the next in the order of sorted_ids.  (Mutants: sorted the other way;
\* the loop does not get past the first one.)
IsLastUnbuilt(id) == id \in Unbuilt /\ \A j \in Unbuilt : id >= j

IsFirstOfAll(id) == Unbuilt # {} /\ \A j \in allIds : id <= j

IsNextToBuild(id) == id \in Unbuilt /\ \A j \in Unbuilt : id <= j

BuildNode ==
    /\ phase = "build"
    /\ \E id \in allIds :
          /\ IsNextToBuild(id)
          /\ precomputed' = [i \in DOMAIN precomputed \cup {id} |->
                               IF i = id THEN [shared |-> id \in sharedIds, causes |-> causes[id]]
                                         ELSE precomputed[i]]
    /\ UNCHANGED <<causes, incompat, phase, stack, allIds, sharedIds>>

\* The root leaves `precomputed' and is unwrapped; the other nodes stay
\* reachable from it.
EndBuild ==
    /\ phase = "build"
    /\ Unbuilt = {}
    /\ phase' = "tree"
    /\ UNCHANGED <<causes, incompat, stack, allIds, sharedIds, precomputed>>

TreeNext ==
    \/ VisitExternal \/ VisitFirst \/ VisitAgain \/ EndVisit
    \/ BuildNode \/ EndBuild

-----------------------------------------------------------------------------
(* What has to come out of it. *)

CausesOf(id) == {causes[id][k] : k \in DOMAIN causes[id]}

\* The places where an incompatibility is a cause.
Uses(id) == {use \in allIds \X {1, 2} : IsDerived(use[1]) /\ causes[use[1]][use[2]] = id}

\* The visit finds the terminal incompatibility, all it is derived from and
\* nothing else, and calls shared exactly what is derived and a cause at two
\* places, though it never enters what is below a node a second time.
VisitExact ==
    phase = "tree" =>
        /\ incompat \in allIds
        /\ \A id \in allIds : CausesOf(id) \subseteq allIds
        /\ \A id \in allIds \ {incompat} : Uses(id) # {}
        /\ sharedIds = {id \in allIds : IsDerived(id) /\ Cardinality(Uses(id)) > 1}

\* `expect("Non-topological calls building tree")' and the two `unwrap' at the
\* end do not fail: the causes of the next node are built, the root is built
\* at the end, and no node points to it.
NoTreePanic ==
    /\ phase = "build" => \A id \in allIds :
          IsNextToBuild(id) => CausesOf(id) \subseteq DOMAIN precomputed
    /\ phase = "build" /\ Unbuilt = {} =>
          /\ incompat \in DOMAIN precomputed
          /\ \A id \in DOMAIN precomputed : incompat \notin CausesOf(id)
=============================================================================
