CONSTANTS
    Steps = 5
    Failures <- SmallFailures

SPECIFICATION Spec

INVARIANTS
    VisitExact
    NoTreePanic
    RefsRight
    LinesFollow
PROPERTIES
    ReportWritten
