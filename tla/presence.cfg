SPECIFICATION WorldsSpec
CONSTANTS
  camA = camA  camB = camB
  Camera = {camA, camB}
  Track = {1}
  Timeout = 2
  Heartbeat = 1
  Batch = 2
  Lag <- Ahead
  MaxTime = 5
  MaxFaults = 2
  MaxRestarts = 2
INVARIANTS
  ReliableSessions
  StoppedCameraFades
CHECK_DEADLOCK FALSE
