CONSTANTS
  Cases = {c1}
  Threads = {t1, t2}
  CliRuns = {}
  None = None
SPECIFICATION Spec
INVARIANT CancelledRunKeepsIndex
