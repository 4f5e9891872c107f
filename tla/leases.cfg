SPECIFICATION FairSpec
CONSTANTS
    Workers <- MCWorkers
    Supervisors <- MCSupervisors
    MaxFaults = 2
INVARIANTS TypeOK OneWorker HandoffClean
  
