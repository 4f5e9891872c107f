SPECIFICATION OneKeySpec
CONSTANTS
    local = local
    lookup = lookup
    publish = publish
    replayable = replayable
    unkeyed = unkeyed
    Keys = {local, lookup, publish, replayable, unkeyed}
    Inputs = {i1, i2}
    Kind <- MCKind
    MaxFaults = 2
INVARIANTS TypeOK  ReceiptTruth
PROPERTIES CompletedStays 
CHECK_DEADLOCK FALSE
