\* Two sign-ins, indexings, workers, shoppers and connections at once.
SPECIFICATION Spec
CONSTANTS
  u1 = u1
  u2 = u2
  Clients = {u1, u2}
  Devices = {d1, d2}
  Subjects = {s1, s2}
  MaxSignIns = 3
  NoOne = NoOne
  Indexers = {u1, u2}
  Sizes = {1, 2}
  Seqs = {1, 2, 3}
  MaxIndexings = 3
  Absent = Absent
  Workers = {u1, u2}
  Results = {j1}
  Assets = 2
  MaxTries = 2
  Nobody = Nobody
  Shoppers = {u1, u2}
  Hooks = {h1}
  MaxLinks = 2
  NoLink = NoLink
  Connections = {u1, u2}
  Free = Free
INVARIANTS
  IdentitiesAgree
  ReuseEndsTheChain
  MemoryIsKept
  StatusIsTrue
  NoPaymentFallsBetween
  PaidLinkIsForgotten
  VoiceIsKept
SYMMETRY Alike
CHECK_DEADLOCK FALSE
