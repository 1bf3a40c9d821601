CONSTANTS
    Versions = {1, 2}
    NoVersion = 0
    Packages = {root, foo, bar}
    RootPackage = root
    RootVersion = 1
    Terms <- FewTerms
    root = root
    foo = foo
    bar = bar

SPECIFICATION Spec

INVARIANTS
    TypeOK
    ResolventExact
PROPERTIES
    IsMap
