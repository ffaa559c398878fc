\* A batch and two one-call transactions over one wallet: retries, mismatches, an empty balance.
SPECIFICATION Spec
CONSTANTS
  u1 = u1
  k1 = k1
  k2 = k2
  m1 = m1
  m2 = m2
  t1 = t1
  t2 = t2
  t3 = t3
  Users = {u1}
  Keys = {k1, k2}
  Payloads = {m1, m2}
  Amounts = {1, 2}
  Txs = {t1, t2, t3}
  Nobody = Nobody
  None = None
  Batchers = {t1}
  Wanted <- GrantAndSpend
  MaxCalls = 6
  MaxAborts = 1
INVARIANTS
  TypeOK
  BalanceIsTheLedger
  AnswersAreBacked
  SingleCallsNeverDeadlock
PROPERTIES
  KeepsTheWalletPromise
CHECK_DEADLOCK FALSE
