SPECIFICATION Spec
CONSTANTS
  l1 = l1  l2 = l2  s1 = s1  s2 = s2  s3 = s3  t1 = t1  t2 = t2
  c1 = c1  c2 = c2
  None = None
  Teacher = {t1, t2}
  LessonId = {l1, l2}
  SlotId = {s1, s2, s3}
  Call = {c1, c2}
  LessonOwner <- OneTeacherLessons
  SlotOwner <- MixedSlots
  Ranges <- ProperRanges
  Ops <- NoReslot
  MaxPending = 1
SYMMETRY Calls
INVARIANTS TypeOK NoOverlap OwedIffCompleted SlotHeldOnce SlotOfTeacher BookedIffHeld
PROPERTIES RefusedChangesNothing
CHECK_DEADLOCK FALSE
