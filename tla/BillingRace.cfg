\* One Apple subscription, its next period against an expiry.
SPECIFICATION Spec
CONSTANTS
  Requests = {r1, r2}
  Periods = {1, 2}
  Undated = {}
  Unnumbered = {}
  Packs = {}
  CardPlans = {}
  CardPacks = {}
  Grants = {}
  AdminGrants = {}
  Horizon = 1
  MaxRequests = 2
  Nobody = Nobody
CHECK_DEADLOCK FALSE
PROPERTIES
  RenewalLeavesActive
