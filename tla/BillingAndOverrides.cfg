\* Two workers, two Apple periods, a pack, two card payments and an operator; two patches in two processes.
SPECIFICATION BothSpec
CONSTANTS
  Requests = {r1, r2}
  Periods = {1, 2}
  Undated = {}
  Unnumbered = {2}
  Packs = {x1}
  CardPlans = {c1}
  CardPacks = {c2}
  Grants = {g1}
  AdminGrants = {a1}
  Horizon = 1
  MaxRequests = 3
  Nobody = Nobody
  Processes = {r1, r2}
  Operators = {r1, r2}
  Wishes <- Asked
  Starts <- Configured
  EnvProvider = "openai"
  EnvKeys = {"openai"}
  EnvNamed = {}
  MaxSeconds = 2
  MaxPatches = 2
  MaxFailures = 1
  Unset = Unset
SYMMETRY Interchangeable
CHECK_DEADLOCK FALSE
INVARIANTS
  TypeOK
  OneGrantPerPurchase
  RecordedIsCredited
  SomebodyMoves
  ConfigIsKept
PROPERTIES
  OldPeriodChangesNothing
