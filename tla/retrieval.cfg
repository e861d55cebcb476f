SPECIFICATION SearchSpec
CONSTANTS
  Parts <- MCParts
  Questions <- MCQuestions
  Requested <- MCRequested
  YearHint = 2025
  KBm25 = 4
  KDense = 4
  RrfK = 60
  Candidates = 2
  Depth = 5
  TopN = 2
  Scores = {0, 1}
  MinScore = 1
INVARIANT ResultIsFiltered AgreementKept MonthsAreWhole
CHECK_DEADLOCK FALSE
