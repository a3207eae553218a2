\* Reads, thinking and judging interleaved with the seats; one worker may die or
\* be taken for dead.
SPECIFICATION FairSpec
CONSTANTS
    r = r  c = c  a = a  b = b
    Node <- MCNode  Root = r  Above <- MCAbove  Lens <- MCLens
    MaxSeats = 1  MaxRetries = 2  MaxSteps = 1  MaxRepairs = 1
    MaxBuys = 2  MaxEvents = 3  MaxHires = 2  MaxFaults = 1
CHECK_DEADLOCK FALSE
INVARIANTS ToldTheTruth
PROPERTIES JudgedOnTruth TurnEnds
