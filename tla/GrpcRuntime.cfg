SPECIFICATION RuntimeFairSpec
CONSTANTS
    Callers = {c1, c2}
    MaxCalls = 2
CHECK_DEADLOCK FALSE
INVARIANTS
    GracefulMeansDrained
    ReturnedMeansDone
PROPERTIES
    ShutdownIsNotAFailure
    ShutdownReturns
