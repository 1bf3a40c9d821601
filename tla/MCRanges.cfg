CONSTANTS
    Versions = {1, 2, 3, 4, 5, 6, 7}
    BoundVersions = {2, 4, 6}
    Calls <- AllCalls

SPECIFICATION Spec

INVARIANTS
    ResultExact
    ResultWellFormed
    PredicatesExact
    Canonical
    SearchExact
    OrderConsistent
    SimplifyAgrees
    FromIterSoFar
