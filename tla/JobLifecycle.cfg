SPECIFICATION Spec
CONSTANTS
    d1 = d1
    d2 = d2
    Kind = {"plain", "owned"}
    Dispatch = {d1, d2}
    MaxAttempts = 2
    PatchTries = 2
    MaxLate = 1
INVARIANTS
    RetryBudget
    OneVerdict
    CompletedHasReturn
    NoSilentLoss
SYMMETRY MCSymmetry
CHECK_DEADLOCK FALSE
