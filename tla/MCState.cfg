CONSTANTS
    root = root
    foo = foo
    bar = bar
    baz = baz
    Versions = {1, 2, 3}
    NoVersion = 0
    Packages = {root, foo, bar, baz}
    RootPackage = root
    RootVersion = 1
    Registries <- TwoOrThreePackages

SPECIFICATION Spec

INVARIANTS
    TypeOK
    NoPanic
    DecisionsFirst
    DerivationsJustified
    HistoryConsistent
    ContradictedCacheSound
    NoLostPackage
    PrioritiesFresh
    DependenciesSettled
    ConflictSatisfied
    DependenciesRecorded
    DependenciesMerged
PROPERTIES
    BacktrackLeavesRootCauseAlmostSatisfied
    RootCauseIsNew
