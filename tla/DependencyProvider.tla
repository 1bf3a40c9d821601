------------------------- MODULE DependencyProvider -------------------------
(***************************************************************************)
(* What `resolve' is told of the packages (trait DependencyProvider and    *)
(* OfflineDependencyProvider, src/src/provider.rs, src/src/solver.rs) and  *)
(* what its answer means.  A registry gives each version of each package   *)
(* a status and a list of dependencies:                                    *)
(*   "missing"      choose_version never returns the version;              *)
(*   "unavailable"  get_dependencies answers Dependencies::Unavailable;    *)
(*   "available"    get_dependencies answers Available(dependencies), a    *)
(*                  Vec that may name a package more than once, or the     *)
(*                  package itself.                                        *)
(***************************************************************************)
EXTENDS Term, Sequences, FiniteSets

CONSTANTS
    Packages,
    RootPackage,    \* the arguments of resolve: solve the dependencies
    RootVersion     \* of this package at this version

ASSUME PackagesAssumption == IsFiniteSet(Packages)
ASSUME RootAssumption == RootPackage \in Packages /\ RootVersion \in Versions

Missing         == [status |-> "missing", dependencies |-> << >>]
Unavailable     == [status |-> "unavailable", dependencies |-> << >>]
Available(deps) == [status |-> "available", dependencies |-> deps]

\* Only an available version has dependencies.
RegistryEntry ==
    {e \in [status : {"missing", "unavailable", "available"},
            dependencies : Seq(Packages \X SUBSET Versions)] :
        e.status # "available" => e.dependencies = << >>}

RegistryType == [Packages -> [Versions -> RegistryEntry]]

\* The versions of p in a range that choose_version may return; it returns
\* None when there is none.
Candidates(r, p, range) == {v \in range : r[p][v].status # "missing"}

(***************************************************************************)
(* A selection gives every package its version, or NoVersion.  It is a     *)
(* solution when it selects the root version and every selected version is *)
(* available and has all its dependencies selected.                        *)
(***************************************************************************)
SelectionType == [Packages -> Selections]

DependenciesMet(r, w, p) ==
    LET entry == r[p][w[p]]
    IN  /\ entry.status = "available"
        /\ \A i \in DOMAIN entry.dependencies :
              w[entry.dependencies[i][1]] \in entry.dependencies[i][2]

IsSolution(r, w) ==
    /\ w[RootPackage] = RootVersion
    /\ \A p \in Packages : w[p] # NoVersion => DependenciesMet(r, w, p)

\* A set of packages that has the root and the dependencies of its members,
\* at the versions w selects, and the packages in every such set: those that
\* can be reached from the root.
ClosedUnderDependencies(r, w, set) ==
    /\ RootPackage \in set
    /\ \A p \in set : w[p] # NoVersion =>
          LET deps == r[p][w[p]].dependencies
          IN  \A i \in DOMAIN deps : deps[i][1] \in set

NeededPackages(r, w) ==
    {p \in Packages : \A set \in SUBSET Packages :
        ClosedUnderDependencies(r, w, set) => p \in set}

\* No version of a package depends on the package itself without allowing
\* that very version.
NoBrokenSelfDependency(r) ==
    \A p \in Packages, v \in Versions :
        LET deps == r[p][v].dependencies
        IN  \A i \in DOMAIN deps : deps[i][1] = p => v \in deps[i][2]
=============================================================================
