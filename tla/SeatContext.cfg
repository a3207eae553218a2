\* Two attempts: a death at any line of the archive, a refused delivery, and a
\* compaction after any turn.
SPECIFICATION Spec
CONSTANTS
    Policy <- MCPolicy
    MaxSteps = 2  MaxRepairs = 2  Sizes = {1, 6}  MaxAttempts = 2
CHECK_DEADLOCK FALSE
INVARIANTS WakesWhole LifeIsArchived
