SPECIFICATION EpisodeFairSpec
CONSTANTS
  MaxTurns = 4
  MaxStops = 2
  Sizes <- Small
  Keep = 4
  MaxIdle = 3
  MaxRefusals = 2
  MaxJobs = 1
INVARIANTS Consistent ReplaysExactly OneItemPerName
PROPERTIES EpisodeConcludes
