---------------------------- MODULE MCSupervisor ----------------------------
(* Instances of Supervisor for TLC: a plain request and a stream. *)
EXTENDS Supervisor

TwoServers == [r \in {"plain", "stream"} |-> IF r = "stream" THEN "https" ELSE "http"]
OneServer == [r \in {"plain", "stream"} |-> "http"]
=============================================================================
