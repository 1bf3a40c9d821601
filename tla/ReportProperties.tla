-------------------------- MODULE ReportProperties --------------------------
(***************************************************************************)
(* What the explanation of a failure must be like: the derivation tree of  *)
(* the incompatibility that `resolve' fails with is a proof, and           *)
(* collapse_no_versions leaves it one.                                     *)
(***************************************************************************)
EXTENDS SolverProperties, CollapseNoVersions

Failed  == pc = "no_solution"
TreeIds == Ancestors(store, conflict)

\* What an External says is so: there is no version in the range, the version
\* is unavailable, and each version in the range has that dependency.
ExternalTrue(i) ==
    CASE i.kind = "not_root"    -> TRUE
      [] i.kind = "no_versions" -> \A x \in i.terms : Candidates(registry, x[1], x[2].set) = {}
      [] i.kind = "custom"      -> \A x \in i.terms : \A v \in x[2].set :
                                      registry[x[1]][v].status = "unavailable"
      [] i.kind = "dependency"  -> \A v \in DependentRange(i) :
            LET deps == registry[i.dependency[1]][v].dependencies
            IN  \E k \in DOMAIN deps : deps[k] = <<i.dependency[2], DependencyRange(i)>>

\* Every fact at the leaves of the tree is true of the registry, merged
\* dependencies included.
FactsTrue == Failed => \A id \in TreeIds : store[id].kind # "derived" => ExternalTrue(store[id])

\* The versions a package can be selected at are those the provider has.
ExistingSelections ==
    {w \in SelectionType : \A p \in Packages :
        w[p] # NoVersion => registry[p][w[p]].status # "missing"}

\* collapse_no_versions replaces a derived incompatibility by one that, for
\* the versions that exist, excludes the same.
CollapseKeepsMeaning ==
    Failed =>
        LET tree == CollapsedTrees(store)
        IN  \A id \in TreeIds : \A w \in ExistingSelections :
                SelectionSatisfies(tree[id].terms, w) <=> SelectionSatisfies(store[id].terms, w)

\* `panic!("How did we end up with a NoVersions merged with a NotRoot?")' is
\* not reached; and a NoVersions is left only where no dependency can take it.
CollapseMerges ==
    Failed =>
        LET tree == CollapsedTrees(store)
        IN  \A id \in TreeIds : \A k \in DOMAIN tree[id].causes :
                IsNoVersions(tree[id].causes[k]) =>
                    tree[id].causes[3 - k].kind \in {"no_versions", "custom"}
=============================================================================
