SPECIFICATION FairSpec
CONSTANTS
  l1 = l1  l2 = l2  c1 = c1  c2 = c2  m1 = m1  s1 = s1  s2 = s2
  Lecture = {l1}
  Student = {s1}
  Classroom = {c1}
  Subject = {m1}
  RoomOf <- OneRoom
  SubjectOf <- OneSubject
  Request = {r1}
  Operator = {o1}
  Payload <- GuardedPayload
  Transferable <- AnyEnrolment
  Overridable = {}
  Stranger = Stranger
  AnyRoom = AnyRoom
  BadRoom = BadRoom
  NoLecture = NoLecture
  Cooldown = 2
  MaxEvents = 6
PROPERTIES
  ClimbsLadder
  CooldownKept
  HitsAddUp
  EveryPostAnswered
CHECK_DEADLOCK FALSE
