SPECIFICATION Spec
CONSTANTS
  h1 = h1
  Handlers = {h1}
  Nobody = nobody
  MaxTurns = 1
  MaxCalls = 2
  MaxRounds = 1
  MaxCredits = 1
CHECK_DEADLOCK FALSE
INVARIANTS ContinuesWithoutOrphans
