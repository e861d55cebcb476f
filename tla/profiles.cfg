SPECIFICATION Spec
CONSTANTS
  Models = {"qwen3-0.6b", "bge-m3"}
  EnvModel = "qwen3-0.6b"
  Service = "hdr-qwen3"
  Others = {"nohdr-qwen3"}
  Corpora <- MCCorpora
  MaxPuts = 2
  MaxRuns = 2
  MaxBuilds = 1
  MaxAsks = 2
INVARIANT AnswersMatch ListIsRight
CHECK_DEADLOCK FALSE
