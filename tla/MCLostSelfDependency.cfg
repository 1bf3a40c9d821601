CONSTANTS
    root = root
    foo = foo
    bar = bar
    baz = baz
    Versions = {1, 2, 3}
    NoVersion = 0
    Packages = {root, foo, bar}
    RootPackage = root
    RootVersion = 1
    Registries <- LostSelfDependency

SPECIFICATION Spec

INVARIANTS
    SolutionSound
