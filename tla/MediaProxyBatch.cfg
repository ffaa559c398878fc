\* Two jobs of one user: batches of the loop against requests.
SPECIFICATION Spec
CONSTANTS
  j1 = j1
  j2 = j2
  u1 = u1
  u2 = u2
  Jobs = {j1, j2}
  Users = {u1}
  Owner <- OneOwner
  Priced = {j1, j2}
  Routes <- TwoRoutesThenOne
  Handlers = {h1}
  Reconcilers = {r1, r2}
  Batch = 2
  MaxCallbacks = 1
  MaxAborts = 0
  Nobody = Nobody
INVARIANTS
  RequestsNeverDeadlock
CHECK_DEADLOCK FALSE
