SPECIFICATION Spec
CONSTANTS
  e1 = e1  e2 = e2  e3 = e3  k1 = k1  k2 = k2
  None = None
  Event = {e1, e2, e3}
  KeyOf <- TwoKeys
  Replica = {p1, p2}
  Consumer = {d1, d2}
  BatchSize = 2
  PollSize = 2
  MaxFailures = 1
INVARIANTS OffsetHandled KeysInOrder
PROPERTIES NoStaleSend StreamSpec
CHECK_DEADLOCK FALSE
