SPECIFICATION Spec
CONSTANTS
    Nil = Nil
    Sync = Sync
    Emails = {e1}
    EmailOf <- OneEmail
    Durable = TRUE
    SharedDB = FALSE
    Supervised = TRUE
    UserDeletes = FALSE
    Requests = {r1, r2}
    Workers = {w1}
    MaxGen = 2
    Stoppers = {s1}
    Capacity = 1
    MaxCrashes = 1
SYMMETRY Symmetry
CHECK_DEADLOCK FALSE
INVARIANTS
    StopLeavesNothingActive
