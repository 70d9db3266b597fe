CONSTANTS
  plain = plain
  upload = upload
  Sessions = {s1}
  Operations = {plain, upload}
  Uploads = {upload}
  Large = {plain}
  MaxSessions = 2
  Workers = {p1}
  FrameItems = 1
  MaxRunning = 1
  MaxOutputs = 0
  MaxCalls = 1
  MaxFaults = 1
  MayRevoke = FALSE
  MayMaintain = TRUE
SPECIFICATION MCFairSpec
CHECK_DEADLOCK FALSE
PROPERTIES EverythingEnds
