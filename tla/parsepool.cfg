CONSTANTS
  Large = {a, b, c, d, e}
  Small = {s}
  Killers = {a, b}
  Outside = TRUE
  MaxPending = 4
  MaxRestarts = 2
  MaxInvolvement = 2
SPECIFICATION FairSpec
INVARIANTS EachFileOnce SuspectsStayOut
PROPERTY LoopTerminates
CHECK_DEADLOCK FALSE
