SPECIFICATION FairSpec
CONSTANTS
  Inputs <- MCInputs
  ShortThreshold = 5
  BatchSize = 3
  MaxConcurrent = 2
  MaxDepth = 2
  ConnectRetries = 2
INVARIANT RightVector OnlyToxicFails
PROPERTY NothingSentAfterStop SettlesOnce CallEnds
CHECK_DEADLOCK FALSE
