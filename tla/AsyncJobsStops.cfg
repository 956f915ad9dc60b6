SPECIFICATION Spec
CONSTANTS
    Nil = Nil
    Sync = Sync
    Emails = {e1}
    EmailOf <- OneEmail
    Durable = TRUE
    SharedDB = FALSE
    Supervised = FALSE
    UserDeletes = TRUE
    Requests = {r1}
    Workers = {w1}
    MaxGen = 2
    Stoppers = {s1, s2}
    Capacity = 1
    MaxCrashes = 0
SYMMETRY Symmetry
CHECK_DEADLOCK FALSE
INVARIANTS
    TypeOK
    ExecutingJobIsRunning
    OneLiveGeneration
    StopOutcomeShared
    SucceededCreatedUser
    ConflictHasCause
