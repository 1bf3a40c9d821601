-------------------------------- MODULE Core --------------------------------
(***************************************************************************)
(* The solver's state and its handling of incompatibilities                *)
(* (src/src/internal/core.rs): the store they are allocated in, the index  *)
(* by package, and the merging of dependencies.                            *)
(***************************************************************************)
EXTENDS PartialSolution, SequencesExt

VARIABLES
    store,               \* incompatibility_store; the id of an entry is its
                         \* position (the code's raw id plus one)
    incompatibilities,   \* the ids of each package's incompatibilities, in
                         \* the order they were added; << >> if it has none
    contradicted,        \* contradicted_incompatibilities: id -> level
    mergedDependencies,  \* <<dependent, dependency>> -> ids
    buffer               \* unit_propagation_buffer, its top at the end

coreVars == <<store, incompatibilities, contradicted, mergedDependencies, buffer>>

Ids == 1 .. Len(store)

CoreTypeOK ==
    /\ store \in Seq(IncompatibilityType)
    /\ incompatibilities \in [Packages -> Seq(Ids)]
    /\ DOMAIN contradicted \subseteq Ids
    /\ contradicted \in [DOMAIN contradicted -> Nat]
    /\ mergedDependencies \in [Packages \X Packages -> Seq(Ids)]
    /\ buffer \in Seq(Packages)

\* State::init
CoreInit ==
    /\ store = <<NotRoot>>
    /\ incompatibilities = [p \in Packages |-> IF p = RootPackage THEN <<1>> ELSE << >>]
    /\ contradicted = << >>
    /\ mergedDependencies = [pair \in Packages \X Packages |-> << >>]
    /\ buffer = << >>

-----------------------------------------------------------------------------
(* merge_incompatibility *)

\* retain(|id| id != past); no list has the id of a dependency that can be
\* merged more than once.
Without(ids, id) ==
    IF \E i \in DOMAIN ids : ids[i] = id
    THEN RemoveAt(ids, CHOOSE i \in DOMAIN ids : ids[i] = id)
    ELSE ids

\* The id is added to the list of each package once for every entry.
Register(lists, terms, id) ==
    [p \in Packages |-> lists[p] \o [i \in 1 .. Cardinality(TermsOf(terms, p)) |-> id]]

Unregister(lists, terms, id) ==
    [p \in Packages |->
        IF p \in IncompatPackages(terms) THEN Without(lists[p], id) ELSE lists[p]]

\* The k-th of the past dependencies is the first that s[id] merges with.
MergesWith(s, id, past, k) ==
    /\ CanMerge(s[id], s[past[k]])
    /\ \A j \in 1 .. k - 1 : ~CanMerge(s[id], s[past[j]])

Keep(s, id) ==
    /\ store' = s
    /\ incompatibilities' = Register(incompatibilities, s[id].terms, id)
    /\ mergedDependencies' =
          IF s[id].kind = "dependency"
          THEN [mergedDependencies EXCEPT ![s[id].dependency] = Append(@, id)]
          ELSE mergedDependencies

\* The merged incompatibility takes the place of the past one.
ReplacePast(s, id, k) ==
    LET pair   == s[id].dependency
        past   == mergedDependencies[pair][k]
        merged == Merged(s[id], s[past])
        new    == Len(s) + 1
    IN  /\ store' = Append(s, merged)
        /\ incompatibilities' =
              Register(Unregister(incompatibilities, merged.terms, past), merged.terms, new)
        /\ mergedDependencies' = [mergedDependencies EXCEPT ![pair][k] = new]

\* (Mutant: never found.)
PastDependenciesNone(s, id) == << >>

PastDependencies(s, id) ==
    IF s[id].kind = "dependency" THEN mergedDependencies[s[id].dependency] ELSE << >>

\* s is the store with everything the caller has allocated.
MergeIncompatibility(s, id) ==
    \/ \E k \in DOMAIN PastDependencies(s, id) :
          MergesWith(s, id, PastDependencies(s, id), k) /\ ReplacePast(s, id, k)
    \/ /\ \A k \in DOMAIN PastDependencies(s, id) :
              ~CanMerge(s[id], s[PastDependencies(s, id)[k]])
       /\ Keep(s, id)

\* add_incompatibility
AddIncompatibility(incompat) ==
    MergeIncompatibility(Append(store, incompat), Len(store) + 1)

\* The incompatibilities add_incompatibility_from_dependencies allocates.
DependencyIncompats(p, v, deps) ==
    [i \in DOMAIN deps |-> FromDependency(p, {v}, deps[i][1], deps[i][2])]

\* The range of ids alloc_iter gives to new entries.  (Mutant: off by one.)
AllocatedIdsFromNext(new) == [i \in DOMAIN new |-> Len(store) + i + 1]

AllocatedIds(new) == [i \in DOMAIN new |-> Len(store) + i]

-----------------------------------------------------------------------------
(* Unit propagation: one step per incompatibility. *)

MarkContradicted(id) ==
    contradicted' = [i \in DOMAIN contradicted \cup {id} |->
                        IF i = id THEN currentDecisionLevel ELSE contradicted[i]]

\* The packages whose incompatibilities are to be looked at.
PushIfAbsent(seq, p) == IF \E i \in DOMAIN seq : seq[i] = p THEN seq ELSE Append(seq, p)

\* The incompatibility x[1] belongs to becomes unsatisfiable by this
\* derivation of the negation of its term.
PropagateAlmostSatisfied(id, x) ==
    /\ AlmostSatisfiedBy(store[id].terms, Known, x)
    /\ buffer' = PushIfAbsent(buffer, x[1])
    /\ AddDerivation(x[1], id, store[id].terms)
    /\ MarkContradicted(id)
    /\ UNCHANGED <<store, incompatibilities, mergedDependencies>>

FindContradicted(id) ==
    /\ HasContradicted(store[id].terms, Known)
    /\ MarkContradicted(id)
    /\ UNCHANGED <<store, incompatibilities, mergedDependencies, buffer, psVars>>

FindInconclusive(id) ==
    /\ HasTwoInconclusive(store[id].terms, Known)
    /\ UNCHANGED <<coreVars, psVars>>

-----------------------------------------------------------------------------
(* Conflict resolution: one step per satisfier. *)

\* The conflict is resolved with the cause of its satisfier.
ResolveWithCause(id) ==
    /\ HasSatisfiers(store[id].terms)
    /\ \E s \in SatisfiedMap(store[id].terms) :
       \E previous \in PreviousMap(store, store[id].terms, s) :
          /\ SatisfierSearch(store, store[id].terms, s, previous)
          /\ SameDecisionLevels(s, previous)
          /\ s.cause # NoCause
          /\ store' = Append(store, PriorCause(store, id, s.cause, s.package))
    /\ UNCHANGED <<incompatibilities, contradicted, mergedDependencies, buffer, psVars>>

\* What is contradicted since a level not later than that.
\* (Mutant: off by one.)
ContradictedAtNext(level) == {id \in DOMAIN contradicted : contradicted[id] <= level + 1}

ContradictedAt(level) == {id \in DOMAIN contradicted : contradicted[id] <= level}

\* State::backtrack; unit propagation starts anew from the satisfier's package.
BacktrackFrom(id, changed) ==
    /\ HasSatisfiers(store[id].terms)
    /\ \E s \in SatisfiedMap(store[id].terms) :
       \E previous \in PreviousMap(store, store[id].terms, s) :
          /\ SatisfierSearch(store, store[id].terms, s, previous)
          /\ ~SameDecisionLevels(s, previous)
          /\ Backtrack(PreviousLevel(previous))
          /\ contradicted' = [i \in ContradictedAt(PreviousLevel(previous)) |-> contradicted[i]]
          /\ buffer' = <<s.package>>
    /\ IF changed THEN MergeIncompatibility(store, id)
                  ELSE UNCHANGED <<store, incompatibilities, mergedDependencies>>

LearnRootCause(id, p) ==
    /\ AddDerivation(p, id, store[id].terms)
    /\ MarkContradicted(id)
    /\ UNCHANGED <<store, incompatibilities, mergedDependencies, buffer>>
=============================================================================
