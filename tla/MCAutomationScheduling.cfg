SPECIFICATION MCSpec
CONSTANTS
  v1 = v1
  v2 = v2
  c1 = c1
  Services = {v1, v2}
  Clients = {c1}
  Home <- MCHome
  Commands = {"rename", "reschedule", "pause", "enable", "delete"}
  Definitions <- MCDefinitions
  Policy <- MCCatchUp
  Notifications = TRUE
  MaxQueuedRuns = 2
  MaxRevision = 2
  MaxCrashes = 1
  MaxTime = 2
  ScheduleSet <- MCSchedules
  PolicySet <- MCPolicies
  WakeupHorizon = 6
CHECK_DEADLOCK FALSE
INVARIANTS SchedulingInvariant
PROPERTIES WakeupsFollowSchedule StaleWorkIsHarmless DueTaskIsMaterialized
