SPECIFICATION Spec
CONSTANTS
  l1 = l1  l2 = l2  c1 = c1  c2 = c2  m1 = m1  s1 = s1  s2 = s2
  Lecture = {l1}
  Student = {s1}
  Classroom = {c1}
  Subject = {m1}
  RoomOf <- OneRoom
  SubjectOf <- OneSubject
  Request = {r1, r2}
  Operator = {o1}
  Payload <- Recognised
  Transferable = {}
  Overridable = {s1}
  Stranger = Stranger
  AnyRoom = AnyRoom
  BadRoom = BadRoom
  NoLecture = NoLecture
  Cooldown = 1
  MaxEvents = 6
INVARIANTS
  TypeOK
  PromotionEarned
  RecordExplained
PROPERTIES
  LockedUntouched
CHECK_DEADLOCK FALSE
