SPECIFICATION Spec
CONSTANTS
  h1 = h1
  h2 = h2
  Handlers = {h1, h2}
  Nobody = nobody
  MaxTurns = 2
  MaxCalls = 2
  MaxRounds = 1
  MaxCredits = 1
CHECK_DEADLOCK FALSE
SYMMETRY Interchangeable
VIEW UpToNumbers
INVARIANTS TypeOK ResultsFit SentIsAccepted OnlyAnswersArePaid OneResultPerCall
