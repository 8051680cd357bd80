SPECIFICATION Spec
CONSTANTS
  l1 = l1  r1 = r1  m1 = m1  p1 = p1  p2 = p2
  Lesson = {l1}
  Receipt = {r1}
  Manual = {m1}
  Event <- Single
  Amount <- Amounts
  Proc = {p1, p2}
SYMMETRY Procs
INVARIANTS BalanceExact
CHECK_DEADLOCK FALSE
