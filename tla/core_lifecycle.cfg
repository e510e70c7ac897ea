SPECIFICATION Spec
CONSTANTS
  l1 = l1  l2 = l2  c1 = c1  c2 = c2  m1 = m1  s1 = s1  s2 = s2
  Lecture = {l1, l2}
  Student = {s1}
  Classroom = {c1, c2}
  Subject = {m1}
  RoomOf <- TwoRooms
  SubjectOf <- OneSubject
  Request = {r1}
  Operator = {o1, o2}
  Payload <- RoomPayload
  Transferable <- AnyEnrolment
  Overridable = {}
  Stranger = Stranger
  AnyRoom = AnyRoom
  BadRoom = BadRoom
  NoLecture = NoLecture
  Cooldown = 0
  MaxEvents = 1
INVARIANTS
  OneTransaction
PROPERTIES
  NoHitAfterWindow
  RoomIsolation
CHECK_DEADLOCK FALSE
