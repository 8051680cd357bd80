SPECIFICATION Spec
CONSTANTS
  a1 = a1
  None = None
  AssignmentId = {a1}
  Due = {a1}
  Call = {c1, c2}
  MaxSubmissions = 2
  Proc = {p1, p2}
  MaxEvents = 3
  MaxCrashes = 1
INVARIANTS ReviewBacked AnswerAwaitedInTurn NotifiedOnce
PROPERTIES DeadlineActs
CHECK_DEADLOCK FALSE
