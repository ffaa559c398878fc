\* Two jobs of one user, a request worker and the loop, one GET, one lost transaction.
SPECIFICATION FairSpec
CONSTANTS
  Jobs = {j1, j2}
  Handlers = {h1}
  Reconcilers = {r1}
  MaxPolls = 1
  MaxAborts = 1
  Nobody = Nobody
INVARIANTS
  TypeOK
  RefundFlagIsTheLedger
PROPERTIES
  EveryJobSettles
CHECK_DEADLOCK FALSE
