------------------------------- MODULE Solver -------------------------------
(***************************************************************************)
(* `resolve' (src/src/solver.rs) with the unit propagation and conflict    *)
(* resolution it calls (src/src/internal/core.rs).  The run is sequential; *)
(* `pc' says which loop it is in, and one step is one iteration of it:     *)
(*                                                                         *)
(*   loop       the head of the main loop, before should_cancel            *)
(*   propagate  the `while let' of unit_propagation                        *)
(*   scan       its `for' over the incompatibilities of a package          *)
(*   conflict   the loop of conflict_resolution                            *)
(*   learn      back in unit_propagation, with the root cause              *)
(*   pick       before pick_highest_priority_pkg                           *)
(*   choose     before choose_version                                      *)
(*   merge      merging the dependencies of the chosen version             *)
(*   decide     add_package_version_incompatibilities                      *)
(*                                                                         *)
(* What the provider decides, which package has the highest priority,      *)
(* which version is chosen and whether a call fails, may be anything its   *)
(* contract allows.                                                        *)
(***************************************************************************)
EXTENDS Core

CONSTANT Registries    \* what the provider may know

ASSUME RegistriesAssumption == Registries \subseteq RegistryType

VARIABLES
    registry,
    pc,
    next,               \* the package being worked on
    scan,               \* the incompatibilities of a package still to look at
    conflict,           \* current_incompat_id
    conflictChanged,    \* current_incompat_changed
    chosen,             \* the version chosen for `next'
    pending,            \* dependencies allocated and not merged yet
    fresh,              \* dep_incompats
    addedDependencies,
    solution

solverVars == <<registry, pc, next, scan, conflict, conflictChanged, chosen,
                pending, fresh, addedDependencies, solution>>
vars == <<psVars, coreVars, solverVars>>

Done == {"solution", "no_solution", "error", "cancelled"}

PC == Done \cup {"loop", "propagate", "scan", "conflict", "learn", "pick",
                 "choose", "merge", "decide"}

SolverTypeOK ==
    /\ registry \in Registries
    /\ pc \in PC
    /\ next \in Packages
    /\ scan \in Seq(Ids)
    /\ conflict \in Ids
    /\ conflictChanged \in BOOLEAN
    /\ chosen \in Selections
    /\ pending \in Seq(Ids)
    /\ fresh \in Seq(Ids)
    /\ addedDependencies \subseteq Packages \X Versions
    /\ solution \in SelectionType

TypeOK == PSTypeOK /\ CoreTypeOK /\ SolverTypeOK

Init ==
    /\ PSInit
    /\ CoreInit
    /\ registry \in Registries
    /\ pc = "loop"
    /\ next = RootPackage
    /\ scan = << >>
    /\ conflict = 1
    /\ conflictChanged = FALSE
    /\ chosen = NoVersion
    /\ pending = << >>
    /\ fresh = << >>
    /\ addedDependencies = {}
    /\ solution = [p \in Packages |-> NoVersion]

-----------------------------------------------------------------------------
(* unit_propagation *)

\* should_cancel answers with an error.
Cancel ==
    /\ pc = "loop"
    /\ pc' = "cancelled"
    /\ UNCHANGED <<psVars, coreVars, registry, next, scan, conflict, conflictChanged,
                   chosen, pending, fresh, addedDependencies, solution>>

StartPropagation ==
    /\ pc = "loop"
    /\ buffer' = <<next>>
    /\ pc' = "propagate"
    /\ UNCHANGED <<psVars, store, incompatibilities, contradicted, mergedDependencies,
                   registry, next, scan, conflict, conflictChanged,
                   chosen, pending, fresh, addedDependencies, solution>>

\* Its incompatibilities are looked at from the newest to the oldest.
PopPackage ==
    /\ pc = "propagate"
    /\ buffer # << >>
    /\ buffer' = Front(buffer)
    /\ scan' = incompatibilities[Last(buffer)]
    /\ pc' = "scan"
    /\ UNCHANGED <<psVars, store, incompatibilities, contradicted, mergedDependencies,
                   registry, next, conflict, conflictChanged,
                   chosen, pending, fresh, addedDependencies, solution>>

EndPropagation ==
    /\ pc = "propagate"
    /\ buffer = << >>
    /\ pc' = "pick"
    /\ UNCHANGED <<psVars, coreVars, registry, next, scan, conflict, conflictChanged,
                   chosen, pending, fresh, addedDependencies, solution>>

SkipContradicted ==
    /\ pc = "scan"
    /\ scan # << >>
    /\ Last(scan) \in DOMAIN contradicted
    /\ scan' = Front(scan)
    /\ UNCHANGED <<psVars, coreVars, registry, pc, next, conflict, conflictChanged,
                   chosen, pending, fresh, addedDependencies, solution>>

Scanning == pc = "scan" /\ scan # << >> /\ Last(scan) \notin DOMAIN contradicted

ScanConflict ==
    /\ Scanning
    /\ Satisfied(store[Last(scan)].terms, Known)
    /\ conflict' = Last(scan)
    /\ conflictChanged' = FALSE
    /\ scan' = << >>
    /\ pc' = "conflict"
    /\ UNCHANGED <<psVars, coreVars, registry, next,
                   chosen, pending, fresh, addedDependencies, solution>>

ScanAlmostSatisfied ==
    /\ Scanning
    /\ \E x \in store[Last(scan)].terms : PropagateAlmostSatisfied(Last(scan), x)
    /\ scan' = Front(scan)
    /\ UNCHANGED <<registry, pc, next, conflict, conflictChanged,
                   chosen, pending, fresh, addedDependencies, solution>>

ScanContradicted ==
    /\ Scanning
    /\ FindContradicted(Last(scan))
    /\ scan' = Front(scan)
    /\ UNCHANGED <<registry, pc, next, conflict, conflictChanged,
                   chosen, pending, fresh, addedDependencies, solution>>

ScanInconclusive ==
    /\ Scanning
    /\ FindInconclusive(Last(scan))
    /\ scan' = Front(scan)
    /\ UNCHANGED <<registry, pc, next, conflict, conflictChanged,
                   chosen, pending, fresh, addedDependencies, solution>>

EndScan ==
    /\ pc = "scan"
    /\ scan = << >>
    /\ pc' = "propagate"
    /\ UNCHANGED <<psVars, coreVars, registry, next, scan, conflict, conflictChanged,
                   chosen, pending, fresh, addedDependencies, solution>>

-----------------------------------------------------------------------------
(* conflict_resolution *)

FailTerminal ==
    /\ pc = "conflict"
    /\ IsTerminal(store[conflict].terms)
    /\ pc' = "no_solution"
    /\ UNCHANGED <<psVars, coreVars, registry, next, scan, conflict, conflictChanged,
                   chosen, pending, fresh, addedDependencies, solution>>

Resolving == pc = "conflict" /\ ~IsTerminal(store[conflict].terms)

ResolveConflict ==
    /\ Resolving
    /\ ResolveWithCause(conflict)
    /\ conflict' = Len(store) + 1
    /\ conflictChanged' = TRUE
    /\ UNCHANGED <<registry, pc, next, scan,
                   chosen, pending, fresh, addedDependencies, solution>>

BacktrackFromConflict ==
    /\ Resolving
    /\ BacktrackFrom(conflict, conflictChanged)
    /\ pc' = "learn"
    /\ UNCHANGED <<registry, next, scan, conflict, conflictChanged,
                   chosen, pending, fresh, addedDependencies, solution>>

Learn ==
    /\ pc = "learn"
    /\ LearnRootCause(conflict, buffer[1])
    /\ pc' = "propagate"
    /\ UNCHANGED <<registry, next, scan, conflict, conflictChanged,
                   chosen, pending, fresh, addedDependencies, solution>>

-----------------------------------------------------------------------------
(* Decision making *)

ReturnSolution ==
    /\ pc = "pick"
    /\ PickNone
    /\ solution' = ExtractSolution
    /\ pc' = "solution"
    /\ UNCHANGED <<coreVars, registry, next, scan, conflict, conflictChanged,
                   chosen, pending, fresh, addedDependencies>>

Pick ==
    /\ pc = "pick"
    /\ \E p \in Packages : PickPackage(p) /\ next' = p
    /\ pc' = "choose"
    /\ UNCHANGED <<coreVars, registry, scan, conflict, conflictChanged,
                   chosen, pending, fresh, addedDependencies, solution>>

\* The range given to choose_version, and what it may choose.
CurrentRange == assignments[next].term.set
VersionChoices == Candidates(registry, next, CurrentRange)

\* choose_version or get_dependencies answers with an error.
ProviderError ==
    /\ pc = "choose"
    /\ pc' = "error"
    /\ UNCHANGED <<psVars, coreVars, registry, next, scan, conflict, conflictChanged,
                   chosen, pending, fresh, addedDependencies, solution>>

ChooseNone ==
    /\ pc = "choose"
    /\ VersionChoices = {}
    /\ AddIncompatibility(NoVersions(next, Positive(CurrentRange)))
    /\ pc' = "loop"
    /\ UNCHANGED <<psVars, contradicted, buffer, registry, next, scan, conflict,
                   conflictChanged, chosen, pending, fresh, addedDependencies, solution>>

\* The dependencies of this version have not been asked for yet.
IsNewDependency(v) == <<next, v>> \notin addedDependencies

ChooseUnavailable ==
    /\ pc = "choose"
    /\ \E v \in VersionChoices :
          /\ IsNewDependency(v)
          /\ registry[next][v].status = "unavailable"
          /\ AddIncompatibility(CustomVersion(next, v))
          /\ addedDependencies' = addedDependencies \cup {<<next, v>>}
    /\ pc' = "loop"
    /\ UNCHANGED <<psVars, contradicted, buffer, registry, next, scan, conflict,
                   conflictChanged, chosen, pending, fresh, solution>>

ChooseNew ==
    /\ pc = "choose"
    /\ \E v \in VersionChoices :
          LET new == DependencyIncompats(next, v, registry[next][v].dependencies)
              ids == AllocatedIds(new)
          IN  /\ IsNewDependency(v)
              /\ registry[next][v].status = "available"
              /\ store' = store \o new
              /\ addedDependencies' = addedDependencies \cup {<<next, v>>}
              /\ chosen' = v
              /\ fresh' = ids
              /\ pending' = ids
    /\ pc' = "merge"
    /\ UNCHANGED <<psVars, incompatibilities, contradicted, mergedDependencies, buffer,
                   registry, next, scan, conflict, conflictChanged, solution>>

ChooseKnown ==
    /\ pc = "choose"
    /\ \E v \in VersionChoices : ~IsNewDependency(v) /\ AddDecision(next, v)
    /\ pc' = "loop"
    /\ UNCHANGED <<coreVars, registry, next, scan, conflict, conflictChanged,
                   chosen, pending, fresh, addedDependencies, solution>>

MergeDependency ==
    /\ pc = "merge"
    /\ pending # << >>
    /\ MergeIncompatibility(store, Head(pending))
    /\ pending' = Tail(pending)
    /\ UNCHANGED <<psVars, contradicted, buffer, registry, pc, next, scan, conflict,
                   conflictChanged, chosen, fresh, addedDependencies, solution>>

EndMerge ==
    /\ pc = "merge"
    /\ pending = << >>
    /\ pc' = "decide"
    /\ UNCHANGED <<psVars, coreVars, registry, next, scan, conflict, conflictChanged,
                   chosen, pending, fresh, addedDependencies, solution>>

\* What is known once the chosen version is decided.
KnownIfChosen == [Known EXCEPT ![next] = Exact(chosen)]

FreshSatisfied == \E i \in DOMAIN fresh : Satisfied(store[fresh[i]].terms, KnownIfChosen)

Accepted == ~hasEverBacktracked \/ ~FreshSatisfied

Accept ==
    /\ pc = "decide"
    /\ Accepted
    /\ AddDecision(next, chosen)
    /\ pc' = "loop"
    /\ UNCHANGED <<coreVars, registry, next, scan, conflict, conflictChanged,
                   chosen, pending, fresh, addedDependencies, solution>>

Reject ==
    /\ pc = "decide"
    /\ ~Accepted
    /\ pc' = "loop"
    /\ UNCHANGED <<psVars, coreVars, registry, next, scan, conflict, conflictChanged,
                   chosen, pending, fresh, addedDependencies, solution>>

Terminated == pc \in Done /\ UNCHANGED vars

Next ==
    \/ Cancel \/ StartPropagation \/ PopPackage \/ EndPropagation
    \/ SkipContradicted \/ ScanConflict \/ ScanAlmostSatisfied
    \/ ScanContradicted \/ ScanInconclusive \/ EndScan
    \/ FailTerminal \/ ResolveConflict \/ BacktrackFromConflict \/ Learn
    \/ ReturnSolution \/ Pick \/ ProviderError
    \/ ChooseNone \/ ChooseUnavailable \/ ChooseNew \/ ChooseKnown
    \/ MergeDependency \/ EndMerge \/ Accept \/ Reject
    \/ Terminated

\* `resolve' runs on: a step that is possible is taken.
Spec == Init /\ [][Next]_vars /\ WF_vars(Next)
=============================================================================
