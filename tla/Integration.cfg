\* Two requests, one experiment at a time, on either backend.
SPECIFICATION IntegrationFairSpec
CONSTANTS
  Request = {r1, r2}
  QueueSize = 1
  MaxExps = 1
  MaxOthers = 1
  Faults <- EitherBackend
  MaxFaults = 1
PROPERTIES RefinesProtocol OpenIsAnswered CandidateSettles
