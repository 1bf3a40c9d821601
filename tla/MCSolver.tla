------------------------------ MODULE MCSolver ------------------------------
(***************************************************************************)
(* Small sets of registries for TLC.  Versions 1 and 2 (and 3 where stated)*)
(* may exist; the highest version exists nowhere and stands for the ones a *)
(* range admits and no registry has, so that no range of the model covers  *)
(* exactly what exists unless one says so.                                 *)
(***************************************************************************)
EXTENDS ConflictInvariant, ReportProperties

CONSTANTS root, foo, bar, baz

\* The versions of a package, from the entries of versions 1, 2, ...
Releases(entries) ==
    [v \in Versions |-> IF v \in DOMAIN entries THEN entries[v] ELSE Missing]

NoPackage == Releases(<< >>)

TwoPackageRegistry(rootDeps, foos, bars) ==
    [p \in Packages |-> CASE p = root -> Releases(<<Available(rootDeps)>>)
                          [] p = foo  -> Releases(foos)
                          [] p = bar  -> Releases(bars)
                          [] OTHER    -> NoPackage]

NoDeps      == Available(<< >>)
On(p, set)  == Available(<<<<p, set>>>>)
AnyVersion  == Versions
RootDeps    == <<<<foo, AnyVersion>>, <<bar, AnyVersion>>>>

(***************************************************************************)
(* root depends on any version of foo and bar; each of their versions may  *)
(* be missing, free, or depend on one version of the other, existing or    *)
(* not.                                                                    *)
(***************************************************************************)
MutualEntries(other) ==
    {Missing, NoDeps, On(other, {1}), On(other, {2}), On(other, {3})}

MutualDependencies ==
    {TwoPackageRegistry(RootDeps, <<foo1, foo2>>, <<bar1, bar2>>) :
        foo1, foo2 \in MutualEntries(bar), bar1, bar2 \in MutualEntries(foo)}

\* The same with less choice.
FewEntries(other) == {NoDeps, On(other, {1}), On(other, {3})}

FewMutualDependencies ==
    {TwoPackageRegistry(RootDeps, <<foo1, foo2>>, <<bar1, bar2>>) :
        foo1, foo2 \in FewEntries(bar), bar1, bar2 \in FewEntries(foo)}

(***************************************************************************)
(* What the providers may answer beside: a package root does not ask for,  *)
(* unavailable versions, a missing root, empty ranges, a dependency stated *)
(* twice, dependencies on root.                                            *)
(***************************************************************************)
OddEntries(other) ==
    {Unavailable, On(other, {}), On(other, {1, 3}), On(root, {1}), On(root, {2}),
     Available(<<<<other, {1, 2}>>, <<other, {2, 3}>>>>)}

OddAnswers ==
    {TwoPackageRegistry(rootDeps, <<foo1, foo2>>, <<NoDeps, bar2>>) :
        rootDeps \in {RootDeps, <<<<foo, {1, 2}>>>>},
        foo1 \in {NoDeps, Unavailable, On(bar, {2})}, foo2 \in OddEntries(bar),
        bar2 \in OddEntries(foo)}

MissingRoot == {[p \in Packages |-> NoPackage]}

\* Self-dependencies that allow the version they are stated for, and others.
SelfEntries(p) ==
    {On(p, AnyVersion), On(p, {1}), On(p, {2}), On(p, {}),
     Available(<<<<p, {1}>>, <<p, {2}>>>>)}

SelfDependencies ==
    {TwoPackageRegistry(RootDeps, <<foo1, foo2>>, <<NoDeps, bar2>>) :
        foo1 \in {NoDeps, On(bar, {3})}, foo2 \in SelfEntries(foo) \cup {On(bar, {3})},
        bar2 \in SelfEntries(bar) \cup {On(foo, {1})}}

SoundSelfDependencies == {r \in SelfDependencies : NoBrokenSelfDependency(r)}

(***************************************************************************)
(* Three packages below root.                                              *)
(***************************************************************************)
ThreePackages ==
    {[p \in Packages |->
        CASE p = root -> Releases(<<Available(<<<<foo, AnyVersion>>, <<bar, AnyVersion>>>>)>>)
          [] p = foo  -> Releases(<<foo1, foo2>>)
          [] p = bar  -> Releases(<<bar1, bar2>>)
          [] p = baz  -> Releases(<<baz1, baz2>>)] :
        foo1 \in {NoDeps, On(baz, {1})}, foo2 \in {On(bar, {1}), On(baz, {2})},
        bar1 \in {NoDeps, On(baz, {2})}, bar2 \in {On(baz, {1}), On(foo, {1})},
        baz1 \in {NoDeps, On(foo, {2})}, baz2 \in {NoDeps, On(bar, {2})}}

\* Both versions of foo have the same two dependencies, which are merged; one
\* is never met, and the other conflicts with the only choice for bar.
MergedConflict ==
    {[p \in Packages |->
        CASE p = root -> Releases(<<Available(<<<<foo, {1, 2}>>, <<bar, {1, 2}>>>>)>>)
          [] p = foo  -> Releases(<<foos, foos>>)
          [] p = bar  -> Releases(<<On(baz, {1}), On(baz, {1})>>)
          [] p = baz  -> Releases(<<NoDeps, NoDeps, NoDeps>>)] :
        foos \in {Available(<<<<root, {2}>>, <<baz, {3}>>>>)}}

TwoOrThreePackages == MutualDependencies \cup ThreePackages \cup MergedConflict

TwoPackages == FewMutualDependencies \cup OddAnswers \cup MissingRoot

Regular == TwoPackages \cup SoundSelfDependencies

(***************************************************************************)
(* Single registries for what the documentation says and the code does not *)
(* do: a package whose version 2 wants itself at version 1; a version whose*)
(* dependency is known to conflict, met again after backtracking; a version*)
(* that conflicts with the root although another package was decided since.*)
(***************************************************************************)
LostSelfDependency ==
    {TwoPackageRegistry(RootDeps, <<NoDeps, On(bar, {3})>>, <<NoDeps, On(bar, {1})>>)}

KnownConflict ==
    {TwoPackageRegistry(RootDeps, <<NoDeps, NoDeps, On(bar, {4})>>,
                                  <<On(foo, {1}), On(root, {2})>>)}

ConflictWithRoot == {TwoPackageRegistry(RootDeps, <<NoDeps>>, <<NoDeps, On(root, {2})>>)}
=============================================================================
