CONSTANTS
  Cases = {c1}
  Threads = {t1, t2}
  CliRuns = {k1}
  None = None
SPECIFICATION Spec
SYMMETRY Symmetry
INVARIANTS TypeOK RunningMeansAlive IndexingAccounted ReadyHasIndex
PROPERTY ImplementsLedger
