SPECIFICATION ProgressSpec
CONSTANTS
  NoRequest = NoRequest
  NoActor = NoActor
  Members = {"a"}
  Requests = {"r"}
  Messages = {"m", "end"}
  LastMessage <- EndsWith
  MaxTeamEpoch = 3
PROPERTIES
  SentIsAcknowledged
  EveryMessageIsResolved
CHECK_DEADLOCK FALSE
