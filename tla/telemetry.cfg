SPECIFICATION MCSpec
CONSTANTS
  s1 = s1  s2 = s2
  Session = {s1}
  Garbage = Garbage
  Absent = Absent
  Feeds <- TwoFeeds
  Diagnostic = "diagnostic"
  BatchSize = 2
  MaxRetries = 2
  MaxRows <- FewRows
  Mode <- Modes
  Unreadable <- Damaged
  MaxRuns = 2
  MaxFaults = 2
  Lecture = {1, 2}
  Poll = {"p1", "p2"}
  NoLecture = 0
  Loaded <- Found
  MaxCalls = 2
  MaxEvents = 2
  Cooldown = 1
  Class = {1, 2}
  Before = 0
  After = 1
  RowLimit = 2
  Start = 1
  Lag <- Lags
  MaxNow = 3
  MaxPosts = 3
  LogsInOrder <- InOrder
  Programs <- Upgrades
  FlushEvery = 2
  FramesOfRun = 2
  Second = {0, 1}
  MaxCuts = 1
  Decisions = {"REJECTED_LIVENESS", "BELOW_THRESHOLD", "NO_MATCH"}
  MinInterval = 2
  PerSecond = 2
  MaxKept = 2
  SampleEvery = 4
  LastFrame = 7
  Captured = 2
  Measured <- LogRows
  Preset = {"distance_m", "CLOUD_ROUTING"}
  SweepValue = {2, 30}
  MaxMeasured = 2
  MaxTags = 2
  Ceiling <- Half
  NoFile = NoFile
  Torn = Torn
PROPERTIES
  UploadDelivers
  PageFollowsDatabase
  ShownAsDecided
  RunsAreKept
  PicturesAreKept
  StudyFollowsSessions
CHECK_DEADLOCK FALSE
