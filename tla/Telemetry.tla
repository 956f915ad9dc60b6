----------------------------- MODULE Telemetry ------------------------------
(***************************************************************************)
(* telemetry.Runtime (internal/telemetry/runtime.go): the fail-open start  *)
(* of the OpenTelemetry providers, their shutdown, and the error handler   *)
(* that the exporters' goroutines call at the same time.  The handler lets *)
(* one warning per interval through with atomics only: a clock reading, a  *)
(* load and a compare-and-swap.                                            *)
(***************************************************************************)
EXTENDS Integers, FiniteSets

CONSTANTS
    Reporters,      \* goroutines that report failed exports
    LogInterval,    \* the interval between two warnings
    MaxTime,        \* bound: readings of the wall clock
    MaxFailures     \* bound: failed exports

ASSUME TelemetryAssumption ==
    /\ IsFiniteSet(Reporters)
    /\ LogInterval \in Nat \ {0} /\ MaxTime \in Nat /\ MaxFailures \in Nat

VARIABLES
    providers,            \* "none", "off" (disabled), "on", "flushing", "shut"
    exporters,            \* OTLP exporters that are open
    startupFailures,      \* diagnostics: counters
    exportFailures,
    suppressedExportLogs,
    clock,                \* time.Now(), a wall clock that may be set
    nextLog,              \* nextLogUnixNano
    pendingSuppressed,
    rep,                  \* what each reporter does, see Resting
    logs,                 \* history: warnings written
    reported              \* history: sum of their suppressed_logs

handlerVars == <<exportFailures, suppressedExportLogs, clock, nextLog,
                 pendingSuppressed, rep, logs, reported>>
providerVars == <<providers, exporters, startupFailures>>
telemetryVars == <<providerVars, handlerVars>>

\* A reporter outside Handle; now and next are Handle's locals.
Resting == [pc |-> "rest", now |-> 0, next |-> 0]

TelemetryInit ==
    /\ providers = "none" /\ exporters = {} /\ startupFailures = 0
    /\ exportFailures = 0 /\ suppressedExportLogs = 0
    /\ clock = 0 /\ nextLog = 0 /\ pendingSuppressed = 0
    /\ rep = [r \in Reporters |-> Resting]
    /\ logs = 0 /\ reported = 0

-----------------------------------------------------------------------------
(* Start and shutdown.                                                      *)

\* What newRuntime may end in: the resource, the trace exporter or the metric
\* reader fails, the last one after the trace exporter was opened.
newRuntime(enabled) ==
    IF enabled THEN {"ok", "resource", "trace", "metric"} ELSE {"ok", "resource"}

\* The exporters open after newRuntime: when the metric reader fails, the
\* trace exporter is shut down again.
Opened(enabled, outcome) ==
    IF enabled /\ outcome = "ok" THEN {"trace", "metric"} ELSE {}

\* A failed start of enabled telemetry is tried again with telemetry disabled.
NewFailOpen(enabled) ==
    /\ providers = "none"
    /\ \E first \in newRuntime(enabled) :
        \/ /\ first = "ok" \/ ~enabled
           /\ providers' = IF first # "ok" THEN "none" ELSE IF enabled THEN "on" ELSE "off"
           /\ exporters' = Opened(enabled, first)
           /\ UNCHANGED startupFailures
        \/ /\ first # "ok" /\ enabled
           /\ \E second \in newRuntime(FALSE) :
                /\ providers' = IF second = "ok" THEN "off" ELSE "none"
                /\ startupFailures' = IF second = "ok" THEN startupFailures + 1
                                      ELSE startupFailures
           /\ exporters' = Opened(enabled, first)
    /\ UNCHANGED handlerVars

\* Runtime.Shutdown: flush, then shut both providers down; both are tried, and
\* one that fails or runs into the timeout may leave its exporter open.  The
\* previous error handler is restored at the end.
ForceFlush ==
    /\ providers \in {"off", "on"}
    /\ providers' = "flushing"
    /\ UNCHANGED <<exporters, startupFailures, handlerVars>>

Shutdown ==
    /\ providers = "flushing"
    /\ providers' = "shut"
    /\ exporters' \in SUBSET exporters
    /\ UNCHANGED <<startupFailures, handlerVars>>

-----------------------------------------------------------------------------
(* otelErrorHandler.Handle, one step per atomic operation.                  *)

To(r, pc) == rep' = [rep EXCEPT ![r].pc = pc]
Within(r, pc) == rep[r].pc = pc /\ UNCHANGED providerVars

\* An export fails while the error handler is installed: it is counted.
Handle(r) ==
    /\ Within(r, "rest") /\ exporters # {} /\ providers # "shut"
    /\ exportFailures < MaxFailures
    /\ exportFailures' = exportFailures + 1
    /\ To(r, "clock")
    /\ UNCHANGED <<suppressedExportLogs, clock, nextLog, pendingSuppressed, logs, reported>>

ReadClock(r) ==
    /\ Within(r, "clock")
    /\ rep' = [rep EXCEPT ![r] = [pc |-> "load", now |-> clock, next |-> 0]]
    /\ UNCHANGED <<exportFailures, suppressedExportLogs, clock, nextLog,
                   pendingSuppressed, logs, reported>>

LoadNext(r) ==
    /\ Within(r, "load")
    /\ rep' = [rep EXCEPT ![r].next = nextLog,
                          ![r].pc = IF nextLog > rep[r].now THEN "suppress" ELSE "cas"]
    /\ UNCHANGED <<exportFailures, suppressedExportLogs, clock, nextLog,
                   pendingSuppressed, logs, reported>>

\* Variant with a bug: a store that does not compare.
StoreNext(r) ==
    /\ Within(r, "cas")
    /\ nextLog' = rep[r].now + LogInterval
    /\ To(r, "log")
    /\ UNCHANGED <<exportFailures, suppressedExportLogs, clock, pendingSuppressed,
                   logs, reported>>

CompareAndSwap(r) ==
    /\ Within(r, "cas")
    /\ IF nextLog = rep[r].next
       THEN nextLog' = rep[r].now + LogInterval /\ To(r, "log")
       ELSE nextLog' = nextLog /\ To(r, "load")
    /\ UNCHANGED <<exportFailures, suppressedExportLogs, clock, pendingSuppressed,
                   logs, reported>>

AddPending(r) ==
    /\ Within(r, "suppress")
    /\ pendingSuppressed' = pendingSuppressed + 1
    /\ To(r, "count")
    /\ UNCHANGED <<exportFailures, suppressedExportLogs, clock, nextLog, logs, reported>>

recordSuppressedExportLog(r) ==
    /\ Within(r, "count")
    /\ suppressedExportLogs' = suppressedExportLogs + 1
    /\ rep' = [rep EXCEPT ![r] = Resting]
    /\ UNCHANGED <<exportFailures, clock, nextLog, pendingSuppressed, logs, reported>>

\* Variant with a bug: pendingSuppressed is read and not reset.
WarnWithoutReset(r) ==
    /\ Within(r, "log")
    /\ reported' = reported + pendingSuppressed
    /\ logs' = logs + 1
    /\ rep' = [rep EXCEPT ![r] = Resting]
    /\ UNCHANGED <<exportFailures, suppressedExportLogs, clock, nextLog, pendingSuppressed>>

\* The warning carries what pendingSuppressed.Swap(0) returns.
Warn(r) ==
    /\ Within(r, "log")
    /\ reported' = reported + pendingSuppressed
    /\ pendingSuppressed' = 0
    /\ logs' = logs + 1
    /\ rep' = [rep EXCEPT ![r] = Resting]
    /\ UNCHANGED <<exportFailures, suppressedExportLogs, clock, nextLog>>

SetClock ==
    /\ clock' \in 0 .. MaxTime
    /\ UNCHANGED <<providerVars, exportFailures, suppressedExportLogs, nextLog,
                   pendingSuppressed, rep, logs, reported>>

HandleNext ==
    \/ SetClock
    \/ \E r \in Reporters :
        \/ Handle(r) \/ ReadClock(r) \/ LoadNext(r) \/ CompareAndSwap(r)
        \/ AddPending(r) \/ recordSuppressedExportLog(r) \/ Warn(r)

TelemetryNext ==
    \/ \E enabled \in BOOLEAN : NewFailOpen(enabled)
    \/ ForceFlush \/ Shutdown \/ HandleNext

TelemetrySpec == TelemetryInit /\ [][TelemetryNext]_telemetryVars

-----------------------------------------------------------------------------
Reporting(stages) == {r \in Reporters : rep[r].pc \in stages}

\* No failed export disappears between the counters, however the reporters
\* interleave: each one is logged, suppressed or still on its way, and the
\* suppressed are each announced by exactly one later warning or pending.
FailuresAccountedFor ==
    /\ exportFailures = logs + suppressedExportLogs
                            + Cardinality(Reporting({"clock", "load", "cas", "log",
                                                     "suppress", "count"}))
    /\ reported + pendingSuppressed
            = suppressedExportLogs + Cardinality(Reporting({"count"}))

\* Two warnings are stamped at least an interval apart, even when a reporter
\* acts on an old clock reading or the wall clock is set back.
WarningsAreSpaced == [][nextLog' # nextLog => nextLog' >= nextLog + LogInterval]_telemetryVars
=============================================================================
