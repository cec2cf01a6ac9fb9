\* The same instance, for the documented result of connect().
SPECIFICATION Spec
CONSTANT
    MaxUpdates = 1
INVARIANT
    FailureMeansNoAnswer
CHECK_DEADLOCK FALSE
