CONSTANTS
    base = base
    one = one
    Experiments <- TheBaselineAndOne
    Baseline = base
    MaxAttempts = 3
    MaxAdjudications = 1
    Faults = {"kill", "presume", "executor"}
    MaxFaults = 1
SPECIFICATION WorkerFairSpec
CHECK_DEADLOCK FALSE
INVARIANTS VerdictIsSound
PROPERTIES DeliverySettles
