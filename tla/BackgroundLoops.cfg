\* Two polling workers over two tasks; an operator's two patches and two processes.
SPECIFICATION LoopsSpec
CONSTANTS
  t1 = t1
  t2 = t2
  Tasks = {t1, t2}
  w1 = w1
  w2 = w2
  Workers = {w1, w2}
  r1 = r1
  r2 = r2
  Requests = {r1, r2}
  Nobody = nobody
  BatchSize = 1
  MaxActive = 1
  MaxRequests = 2
  p1 = p1
  p2 = p2
  Processes = {p1, p2}
  Operators = {p1}
  Wishes <- Asked
  Starts <- Configured
  EnvProvider = "openai"
  EnvKeys = {"openai"}
  EnvNamed = {}
  MaxSeconds = 3
  MaxPatches = 1
  MaxFailures = 1
  Unset = Unset
CHECK_DEADLOCK FALSE
INVARIANTS OnceEach PlannedChatOnly
PROPERTIES PollersKeepOutcomes EveryTaskEnds ProcessesCatchUp
