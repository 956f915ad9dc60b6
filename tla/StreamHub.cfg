SPECIFICATION FairSpec
CONSTANTS
    Nobody = Nobody
    Jobs = {j1}
    Streams = {s1, s2}
    JobOf <- OneJob
    Closers = {c1, c2}
    Buffer = 2
    MaxEvents = 3
CHECK_DEADLOCK FALSE
INVARIANTS
    RegisteredChannelIsOpen
    SubscribersCounted
    DeliveredInOrder
    MissedIsCounted
PROPERTIES
    SubscribeReturns
    StreamsEndAfterClose
