CONSTANTS
    Steps = 3
    Failures <- SmallFailures

SPECIFICATION Spec

PROPERTIES
    ExplainedOnce
