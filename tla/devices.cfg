SPECIFICATION PartsSpec
CONSTANTS
  Track = {t1}
  Person = {p1, p2}
  Nobody = Nobody
  Window = 3
  YunetN = 2
  EmbedN = 3
  PersistN = 2
  SpoofN = 3
  IngestCooldown = 3
  Visitor = {a, b}
  Box <- Boxes
  SizeInRange = {4}
  Reach = 3
  MaxGone = 2
  BufferLen = 2
  MaxId = 3
  Identity = {i1, i2}
  Similarity = {4, 9, 15}
  Threshold = 9
  Side = {36, 51}
  PoseWindow = 3
  MaxFrames = 3
  Scale = 8
  VoteWindow = 8
  MaxStreak = 6
  Mag = {0, 75, 150}
  AngleVar = {24, 45, 90, 300}
  AreaVar = {0, 19, 60, 100}
  Skin = {0, 50, 100}
  Confidence = {20, 59, 60, 66, 72, 73, 95}
  WindowSize = 3
  MinSamples = 2
  Agreements = 4
  MinAgreements = 2
  Temp = {40, 52, 53, 54, 55, 62, 63, 64, 65, 69, 70, 71, 72, 80}
  NoTemp = NoTemp
  Pictures = 3
  PipeSize = 6
  Client = {c1, c2}
  Seat = {1, 2}
  Named = {"ana", "bob"}
  Doubtful = {"ana"}
  Scene <- Scenes
  ThMid = 5000
  Failures = {"timeout", "connection_error", "server_error", "encode_failed"}
  Reply <- Answers
  DiagEvery = 1
  FramesEvery = 1
  Views = {{}, {1}, {1, 2}}
  Budget = 3
  MaxRetries = 1
  Enrollee = {1, 2}
  Sample <- Samples
  Axes = {1, 2}
  MaxEnrolled = 3
  Seen = {1, 2}
  OtherView = 6
  OtherPerson = 2
  Galleries <- GalleriesTried
  LIVENESS_WINDOW = 4
  ORIENTATION_SMOOTHING_WINDOW = 3
  CloudSays <- KnownToCloud
  MATCH_HIGH_BASE = 80
  MATCH_MID_BASE = 65
  PostAnswer <- PostEnds
INVARIANTS
  LoopSound
  FlatFacesRejected
  LogsExplainFrames
  MetricsAgree
  SightingsExplained
PROPERTIES
  SpoofBlocks
  CadencesMeet
  LoopReportsSteadyFace
  FacesKeepTracks
  FiltersInventNothing
  RoutersConsistent
  FanFollowsHeat
  PicturesArrive
  OutageContained
  EnrolledIsKnown
CHECK_DEADLOCK FALSE
