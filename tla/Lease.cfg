\* One lease on the cluster, its scheduler killed anywhere, every fault of a
\* worker, two faults; with and without a run limit of one evaluation.
SPECIFICATION FairSpec
CONSTANTS
  l1 = l1
  Lease <- OneLease
  MaxSeats = 1
  MaxExps = 1
  MaxReopens = 1
  MaxAdjAttempts = 1
  Backend = "condor"
  EvalLimits = {1}
  Faults = {"crash", "ghost", "die", "fail", "malformed", "restart", "budget", "vacuous",
            "unknown", "torn"}
  MaxFaults = 2
INVARIANTS SingleFlight LeaseMatchesVerdicts
PROPERTIES RefinesProtocol LeaseConcludes CappedRunEnds
