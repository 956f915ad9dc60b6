SPECIFICATION FairSpec
CHECK_DEADLOCK FALSE
CONSTANTS
    Servers = {"http", "https"}
    Requests = {"plain", "stream"}
    Streams = {"stream"}
    ServerOf <- TwoServers
    GrpcEnabled = TRUE
    Durable = TRUE
INVARIANTS ReadyMeansServing GracefulMeansClean CutIsReported FailureIsReturned
PROPERTIES RunReturns
