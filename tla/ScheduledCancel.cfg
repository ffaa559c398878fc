SPECIFICATION Spec
CONSTANTS
  t1 = t1
  Tasks = {t1}
  w1 = w1
  Workers = {w1}
  r1 = r1
  Requests = {r1}
  Nobody = nobody
  BatchSize = 1
  MaxActive = 1
  MaxRequests = 2
CHECK_DEADLOCK FALSE
PROPERTIES CancelOnlyScheduled
