CONSTANTS
    Versions = {1, 2, 3, 4, 5}
    BoundVersions = {2, 4}
    Calls <- UnsortedCalls

SPECIFICATION Spec

INVARIANTS
    UnsortedNoticed
