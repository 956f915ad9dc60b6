SPECIFICATION FairSpec
CONSTANTS
    Nil = Nil
    Sync = Sync
    Emails = {e1}
    EmailOf <- OneEmail
    Durable = FALSE
    SharedDB = FALSE
    Supervised = TRUE
    UserDeletes = FALSE
    Requests = {r1, r2}
    Workers = {w1}
    MaxGen = 1
    Stoppers = {s1}
    Capacity = 1
    MaxCrashes = 0
CHECK_DEADLOCK FALSE
INVARIANTS
    FailedCreatedNoUser
PROPERTIES
    StopAcceptingIsABarrier
    AcceptedJobEnds
    StopReturns
