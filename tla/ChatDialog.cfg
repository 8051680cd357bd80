SPECIFICATION Spec
CONSTANTS
  User = {u1, u2}
  Call = {c1, c2, c3}
  MaxMessages = 2
  PageSize = 1
SYMMETRY CallsAndUsers
INVARIANTS ReadsForward NothingUnseenInTurn NoneSkipped AnsweredInTurn
CHECK_DEADLOCK FALSE
