SPECIFICATION BillingSpec
CONSTANTS
  l1 = l1  l2 = l2  t1 = t1
  None = None
  Teacher = {t1}
  LessonId = {l1, l2}
  SlotId = {}
  LessonOwner <- OneTeacher
  SlotOwner <- NoSlots
  Ranges <- BothRanges
  Ops <- AllOps
  MaxPending = 4
  Times <- TwoRanges
  Call = {c1}
  Quote <- TinyQuote
  Proc = {p1}
  MaxEvents = 4
  MaxCrashes = 2
PROPERTIES Settles
CHECK_DEADLOCK FALSE
