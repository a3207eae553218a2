CONSTANTS
    Work = {e1, e2}
    e1 = e1
    e2 = e2
    Runs <- BothRuns
    Cores = 2
    Inflight = 2
    MaxAttempts = 3
    MaxLaunches = 3
    Faults = {"crash", "kill", "hold", "blind", "vague", "refuse"}
SPECIFICATION FairSpec
CHECK_DEADLOCK FALSE
INVARIANTS Undisturbed
PROPERTIES GoneTakesTwo DeadIsNoticed
