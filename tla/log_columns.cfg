SPECIFICATION LogsSpec
CONSTANTS
  Seat = {1, 2}
  Named = {"ana", "bob"}
  Doubtful = {"ana"}
  Scene <- Scenes
  ThMid = 5000
  Failures = {"timeout", "connection_error", "server_error", "encode_failed"}
  Reply <- Answers
  DiagEvery = 1
  FramesEvery = 1
  Views = {{}, {1}, {1, 2}}
  Budget = 3
INVARIANTS
  SourcesSummarised
CHECK_DEADLOCK FALSE
