SPECIFICATION StartedSpec
CONSTANTS
  cam = cam  l1 = l1  l2 = l2  s1 = s1  s2 = s2
  Started = {l1}
  Camera = {cam}
  Track = {1}
  Timeout = 1
  Lecture = {l1, l2}
  Student = {s1}
  RoomCameras <- OneCamera
  Fallback = FALSE
  Explicit = {}
  NoLecture = NoLecture
  High = 0
  Medium = 0
  Window = 2
  RatioNum = 4
  RatioDen = 5
  Scheduled <- OneUnit
  Query = {q1}
  Request = {r1}
  NoRequest = NoRequest
  Skew = 1
  Lag <- Ahead
  EdgeLag = 0
  Limit = 2
  All = All
  NotFrozen = NotFrozen
  MaxTime = 1
  MaxRows = 2
  MaxAppearances = 1
  MaxRestarts = 0
INVARIANTS
  LiveComplete
  ConfirmedSupported
  StudentRateIsRate
CHECK_DEADLOCK FALSE
