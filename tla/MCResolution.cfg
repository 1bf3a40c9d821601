CONSTANTS
    root = root
    foo = foo
    bar = bar
    baz = baz
    Versions = {1, 2, 3}
    NoVersion = 0
    Packages = {root, foo, bar}
    RootPackage = root
    RootVersion = 1
    Registries <- Regular

SPECIFICATION Spec

INVARIANTS
    StoreValid
    SolutionSound
    NoSolutionSound
    DerivationsFollow
    FactsTrue
    CollapseKeepsMeaning
    CollapseMerges
PROPERTIES
    Resolves
