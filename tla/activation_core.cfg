SPECIFICATION ActFairSpec
CONSTANTS
    Gens = {1, 2}
    First = 1
    Broken = {}
    MaxRestarts = 0
    Threshold = 1
    MaxFaults = 1
    MaxStarts = 1
    MaxReloads = 0
    Crashes = TRUE
    MaxAttempts = 1
    Deltas = {"EXPANSION", "RESTRICTION", "INCOMPATIBLE"}
    Modes = {"rollback", "nowait"}
    Swept = TRUE
INVARIANTS ActTypeOK OperationAgrees
PROPERTIES SuccessIsReal AttemptsSettle
CHECK_DEADLOCK FALSE
