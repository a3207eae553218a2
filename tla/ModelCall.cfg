SPECIFICATION CallFairSpec
CONSTANTS
  Transports <- AllTransports
  Calls <- TwoCalls
  Pieces <- TwoAndOne
  MaxRetries = 1
  Timeout = 4
  Second = 2
  SdkReposts = 1
  SdkPause = 1
  MaxCalls = 1
CHECK_DEADLOCK FALSE
INVARIANTS AnsweredOrTried SilenceIsShared
PROPERTIES CallEnds
