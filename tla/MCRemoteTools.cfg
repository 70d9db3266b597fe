CONSTANTS
  plain = plain
  upload = upload
  Sessions = {s1, s2}
  Operations = {plain, upload}
  Uploads = {upload}
  Large = {plain, upload}
  MaxSessions = 2
  Workers = {p1, p2}
  FrameItems = 8
  MaxRunning = 1
  MaxOutputs = 1
  MaxCalls = 2
  MaxFaults = 1
  MayRevoke = TRUE
  MayMaintain = TRUE
SYMMETRY MCSymmetry
SPECIFICATION MCSpec
CHECK_DEADLOCK FALSE
INVARIANTS EffectIsExact LedgersAgree RequestsAccepted EventsAccepted MaintenanceIsQuiet
