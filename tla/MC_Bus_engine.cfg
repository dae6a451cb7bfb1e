SPECIFICATION Spec
CONSTANTS
  m1 = m1
  m2 = m2
  m3 = m3
  m4 = m4
  b1 = b1
  b2 = b2
  b3 = b3
  q1 = q1
  q2 = q2
  None = None
  Messages = {m1, m2, m3, m4}
  Bins = {b1, b2, b3}
  Skus = {q1, q2}
  Observed <- MCObserved
  Stock <- MCStock
  SendAttempts = 2
  MaxRetries = 1
  MaxFaults = 2
INVARIANTS Inv ExtraNeedFaults
PROPERTY CatchesUp
CHECK_DEADLOCK FALSE
