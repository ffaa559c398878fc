\* One job with a fallback route: two request workers race the loop.
SPECIFICATION FairSpec
CONSTANTS
  j1 = j1
  j2 = j2
  u1 = u1
  u2 = u2
  Jobs = {j1}
  Users = {u1}
  Owner <- SoleOwner
  Priced = {j1}
  Routes <- TwoRoutes
  Handlers = {h1, h2}
  Reconcilers = {r1}
  Batch = 1
  MaxCallbacks = 3
  MaxAborts = 1
  Nobody = Nobody
INVARIANTS
  TypeOK
  MoneyFollowsTheJob
  OwningAttemptDecides
PROPERTIES
  FirstOutcomeWins
  ResultIsKept
  NoNeedlessPurchase
  KeepsThePromise
  EveryJobSettles
CHECK_DEADLOCK FALSE
