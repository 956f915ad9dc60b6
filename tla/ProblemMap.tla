----------------------------- MODULE ProblemMap -----------------------------
(***************************************************************************)
(* How an error becomes an HTTP status (internal/httputils).  An error is  *)
(* the set of sentinel errors and error types that errors.Is / errors.As   *)
(* find in its tree: wrapping and errors.Join put several in one error, so *)
(* the ORDER of MapError's tests decides the answer.                       *)
(***************************************************************************)
EXTENDS Naturals, Sequences, Functions

\* 1) typed HTTP errors and the gRPC bridge; 2) body size, 3) media type.
TransportRules ==
    << <<"badRequest", 400>>, <<"methodNotAllowed", 405>>,
       <<"unauthorized", 401>>, <<"forbidden", 403>>, <<"validation", 422>>,
       <<"grpcUnavailable", 503>>, <<"grpcTimeout", 504>>,
       <<"grpcCanceled", 408>>, <<"maxBytes", 413>>,
       <<"unsupportedMediaType", 415>>, <<"streamingUnsupported", 500>>,
       <<"hubClosed", 503>>, <<"json", 400>> >>

\* 5) domain and queue errors, then the job and the profile service.
DomainRules ==
    << <<"notFound", 404>>, <<"conflict", 409>>, <<"appForbidden", 403>>,
       <<"queueFull", 503>>, <<"queueStopped", 503>>, <<"jobNotFound", 404>>,
       <<"profileTimeout", 503>>, <<"profileCanceled", 408>>,
       <<"profile5xx", 502>>, <<"profile4xx", 502>>,
       <<"profileBadResponse", 502>>, <<"notAcceptable", 406>>,
       <<"protobufUnavailable", 500>>, <<"profileNetwork", 503>>,
       <<"profileParse", 502>>, <<"rateLimit", 429>>,
       <<"bulkheadRejected", 503>> >>

Rules == TransportRules \o DomainRules

\* The status of the first rule whose sentinel the error holds, else 500.
MapError(err) ==
    LET hits == {i \in DOMAIN Rules : Rules[i][1] \in err}
    IN  IF hits = {} THEN 500
        ELSE Rules[CHOOSE i \in hits : \A j \in hits : i <= j][2]

\* Variant with a bug: an unreachable server is reported as a timeout.
MapGRPCBridgeErrorMerged(code) ==
    CASE code = "NotFound" -> {"jobNotFound"}
      [] code = "PermissionDenied" -> {"forbidden"}
      [] code = "Canceled" -> {"grpcCanceled"}
      [] code \in {"DeadlineExceeded", "Unavailable"} -> {"grpcTimeout"}
      [] OTHER -> {"status"}

\* A gRPC status code as the error the bridge handler returns.
MapGRPCBridgeError(code) ==
    CASE code = "InvalidArgument" -> {"badRequest"}
      [] code = "NotFound" -> {"jobNotFound"}
      [] code = "PermissionDenied" -> {"forbidden"}
      [] code = "Unauthenticated" -> {"unauthorized"}
      [] code = "Canceled" -> {"grpcCanceled"}
      [] code = "DeadlineExceeded" -> {"grpcTimeout"}
      [] code = "Unavailable" -> {"grpcUnavailable"}
      [] OTHER -> {"status"}

\* The media type of an answer: the first protobuf range wins over every
\* JSON range, whatever their order; parts that do not parse are skipped.
AcceptHeader(parts) ==
    IF parts = <<>> \/ ("protobuf" \notin Range(parts) /\ {"json", "any"} \cap Range(parts) # {})
    THEN "json"
    ELSE IF "protobuf" \in Range(parts) THEN "protobuf" ELSE "notAcceptable"
=============================================================================
