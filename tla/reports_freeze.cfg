SPECIFICATION StartedSpec
CONSTANTS
  cam = cam  l1 = l1  l2 = l2  s1 = s1  s2 = s2
  Started = {l1}
  Camera = {cam}
  Track = {1}
  Timeout = 2
  Lecture = {l1}
  Student = {s1, s2}
  RoomCameras <- Unregistered
  Fallback = TRUE
  Explicit = {}
  NoLecture = NoLecture
  High = 0
  Medium = 1
  Window = 2
  RatioNum = 4
  RatioDen = 5
  Scheduled <- TwoUnits
  Query = {q1, q2}
  Request = {r1, r2}
  NoRequest = NoRequest
  Skew = 0
  Lag <- Exact
  EdgeLag = 0
  Limit = 2
  All = All
  NotFrozen = NotFrozen
  MaxTime = 0
  MaxRows = 2
  MaxAppearances = 0
  MaxRestarts = 1
SYMMETRY Slots
INVARIANTS
  FrozenIsFinal
  OneFinalReport
PROPERTIES
  FrozenOnce
CHECK_DEADLOCK FALSE
