SPECIFICATION FairSpec
CONSTANTS
  Docs = {"one", "two"}
  Pictures <- MCPictures
  Procs = {"p", "q"}
  Workers = 2
  MaxRuns = 2
  MaxKills = 1
INVARIANT CacheAtomic CacheSettles
PROPERTY ParseEnds
CHECK_DEADLOCK FALSE
