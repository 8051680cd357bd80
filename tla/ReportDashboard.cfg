SPECIFICATION Spec
CONSTANTS
  l1 = l1  l2 = l2  h1 = h1  r1 = r1  s1 = s1
  Lesson = {l1, l2}
  Homework = {h1}
  Receipt = {}
  Student = {s1}
  StudentOf <- OneStudent
  Amount <- Amounts
  Proc = {p1, p2}
  MaxSecond = 2
  MaxEvents = 3
  MaxFaults = 1
INVARIANTS FreshestWins SummaryExactInTurn
PROPERTIES DashboardCatchesUp
CHECK_DEADLOCK FALSE
