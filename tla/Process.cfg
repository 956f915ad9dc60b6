SPECIFICATION Spec
CONSTANTS
    Envs <- SomeEnvs
    Reporters = {"traces", "metrics"}
    LogInterval = 2
    MaxTime = 3
    MaxFailures = 3
CHECK_DEADLOCK FALSE
INVARIANTS AcceptedConfigurationBuilds BaselineHolds CleanupInOrder FailuresAccountedFor
PROPERTIES WarningsAreSpaced
