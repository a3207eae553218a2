\* Three worlds, one lens, one seat at a time, on the cluster: growth and
\* integration requests, with and without a limit of one evaluation, one fault or two
\* crashes.
SPECIFICATION FairSpec
CONSTANTS
    root = root
    n1 = n1
    n2 = n2
    a = a
    Node <- Three
    Root <- root
    Lens <- OneLens
    MaxSeats = 1
    MaxRetries = 2
    Backend = "condor"
    Limits <- SomeLimit
    Kinds = {"growth", "integration_request"}
    MaxBuys = 1
    MaxEvents = 3
    Faults = {"crash", "die", "ghost", "restart"}
    Cost <- CrashTwice
    MaxFaults = 2
INVARIANTS SingleGate BatchDecidedOnce AskedOnce HonestQuiescence
PROPERTIES EvidenceJudged
