SPECIFICATION Spec
CONSTANTS
    Nil = Nil
    Sync = Sync
    Emails = {e1}
    EmailOf <- OneEmail
    Durable = TRUE
    SharedDB = FALSE
    Supervised = TRUE
    UserDeletes = FALSE
    Requests = {r1}
    Workers = {w1}
    MaxGen = 1
    Stoppers = {s1}
    Capacity = 1
    MaxCrashes = 0
CHECK_DEADLOCK FALSE
INVARIANTS
    ShutdownFailsActiveJobs
