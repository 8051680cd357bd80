SPECIFICATION Spec
CONSTANTS
  r1 = r1  r2 = r2  c1 = c1  c2 = c2  teacher = teacher  student = student
  None = None
  Replica = {r1, r2}
  FirstOwner = r1
  User = {teacher, student}
  Connection = {c1, c2}
  HomeOf <- Home
  UserOf <- OneUser
  Log <- Messages
  MaxOpens = 3
  MaxFaults = 1
CONSTRAINT Explored
INVARIANTS TypeOK NoLostWakeup PresenceInTurn ReceivedInOrder
CHECK_DEADLOCK FALSE
