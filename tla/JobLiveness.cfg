SPECIFICATION FairSpec
CONSTANTS
    d1 = d1
    d2 = d2
    Kind = {"plain", "owned", "redo"}
    Dispatch = {d1}
    MaxAttempts = 2
    PatchTries = 4
    MaxLate = 1
PROPERTIES
    EndsOrHangs
    HeartbeatEnds
CHECK_DEADLOCK FALSE
