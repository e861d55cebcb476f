SPECIFICATION FairSpec
CONSTANTS
  Cases = {c1}
  MaxTokens = 2
  MaxAsks = 1
INVARIANT RowCoversPage
PROPERTY DoneIsSaved UsageLogged PageRecovers
CHECK_DEADLOCK FALSE
