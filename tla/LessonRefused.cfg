SPECIFICATION Spec
CONSTANTS
  l1 = l1  l2 = l2  s1 = s1  s2 = s2  s3 = s3  t1 = t1  t2 = t2
  c1 = c1  c2 = c2
  None = None
  Teacher = {t1}
  LessonId = {l1, l2}
  SlotId = {s1, s2}
  Call = {c1}
  LessonOwner <- OneTeacherLessons
  SlotOwner <- OneTeacherSlots
  Ranges <- ProperRanges
  Ops <- AllOps
  MaxPending = 1
INVARIANTS HeldSlotBooked
CHECK_DEADLOCK FALSE
