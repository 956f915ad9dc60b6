SPECIFICATION Spec
CHECK_DEADLOCK FALSE
CONSTANTS
    Servers = {"http"}
    Requests = {"plain", "stream"}
    Streams = {"stream"}
    ServerOf <- OneServer
    GrpcEnabled = TRUE
    Durable = TRUE
PROPERTIES StreamsEndProperly
