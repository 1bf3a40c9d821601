----------------------------- MODULE Resolution -----------------------------
(***************************************************************************)
(* What `resolve' promises (src/src/solver.rs, documentation of `resolve', *)
(* and src/src/error.rs): it returns, with the complete set of packages    *)
(* and versions the root needs, or with NoSolution when there is no such   *)
(* set, or because the provider failed.                                    *)
(***************************************************************************)
EXTENDS DependencyProvider

CONSTANT Registries

VARIABLES registry, outcome, selection

vars == <<registry, outcome, selection>>

Nothing == [p \in Packages |-> NoVersion]

Selected(w) == {p \in Packages : w[p] # NoVersion}

Init ==
    /\ registry \in Registries
    /\ outcome = "running"
    /\ selection = Nothing

\* Ok: a solution, with no package that nothing depends on.
Solve ==
    /\ outcome = "running"
    /\ outcome' = "solution"
    /\ selection' \in {w \in SelectionType :
                          /\ IsSolution(registry, w)
                          /\ Selected(w) = NeededPackages(registry, w)}
    /\ UNCHANGED registry

\* Err(NoSolution)
Refute ==
    /\ outcome = "running"
    /\ \A w \in SelectionType : ~IsSolution(registry, w)
    /\ outcome' = "no_solution"
    /\ UNCHANGED <<registry, selection>>

\* Err of a call of the provider
Interrupt ==
    /\ outcome = "running"
    /\ outcome' \in {"error", "cancelled"}
    /\ UNCHANGED <<registry, selection>>

Next == Solve \/ Refute \/ Interrupt

Spec == Init /\ [][Next]_vars /\ WF_vars(Next)
=============================================================================
