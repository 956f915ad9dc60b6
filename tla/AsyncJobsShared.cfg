SPECIFICATION Spec
CONSTANTS
    Nil = Nil
    Sync = Sync
    Emails = {e1}
    EmailOf <- OneEmail
    Durable = TRUE
    SharedDB = TRUE
    Supervised = FALSE
    UserDeletes = FALSE
    Requests = {r1, r2}
    Workers = {w1, w2}
    MaxGen = 1
    Stoppers = {s1}
    Capacity = 2
    MaxCrashes = 0
SYMMETRY Symmetry
CHECK_DEADLOCK FALSE
INVARIANTS
    ItemInOnePlace
    EventsAgreeWithStore
    EventsInOrder
PROPERTIES
    ImplementsLifecycle
