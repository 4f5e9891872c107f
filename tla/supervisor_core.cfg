SPECIFICATION FairSpec
CONSTANTS
    Gens = {1, 2, 3}
    First = 1
    Broken = {3}
    MaxRestarts = 1
    Threshold = 2
    MaxFaults = 3
    MaxStarts = 2
    MaxReloads = 2
    Crashes = TRUE
INVARIANTS  RestartBudget
  
CHECK_DEADLOCK FALSE
