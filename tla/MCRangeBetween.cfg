CONSTANTS
    Versions = {1, 2, 3, 4, 5}
    BoundVersions = {2, 4}
    Calls <- BetweenCalls

SPECIFICATION Spec

INVARIANTS
    ResultWellFormed
