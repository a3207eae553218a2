SPECIFICATION Spec
CONSTANTS
  r = r
  w1 = w1
  w2 = w2
  Root <- TheSeed
  Worlds <- TwoWorlds
  Axes <- TwoAxes
  LowerIsBetter <- TimeIsLower
  Values <- TwoValues
  Policies <- BothPolicies
  TopK = 1
  NodeId <- Ids
  Inflights = {1, 2}
  RootScientists = 1
  MaxEpisodes = 4
CHECK_DEADLOCK FALSE
INVARIANTS OneStudyPerNode InheritsFrozen FrontierIsRight
