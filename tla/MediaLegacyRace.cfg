\* One job, two pollers.
SPECIFICATION Spec
CONSTANTS
  Jobs = {j1}
  Handlers = {h1, h2}
  Reconcilers = {}
  MaxPolls = 2
  MaxAborts = 0
  Nobody = Nobody
INVARIANTS
  RefundOnlyWhenFailed
CHECK_DEADLOCK FALSE
