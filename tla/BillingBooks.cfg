SPECIFICATION BillingSpec
CONSTANTS
  l1 = l1  l2 = l2  t1 = t1
  None = None
  Teacher = {t1}
  LessonId = {l1}
  SlotId = {}
  LessonOwner <- OneTeacher
  SlotOwner <- NoSlots
  Ranges <- BothRanges
  Ops <- NoReschedule
  MaxPending = 6
  Times <- OneRange
  Call = {c1, c2}
  Quote <- Rubles
  Proc = {p1, p2}
  MaxEvents = 6
  MaxCrashes = 1
INVARIANTS DebtBounded SettledWhenQuiet
PROPERTIES Settles
CHECK_DEADLOCK FALSE
