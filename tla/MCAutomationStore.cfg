SPECIFICATION MCSpec
CONSTANTS
  e1 = e1
  e2 = e2
  e3 = e3
  t1 = t1
  Owner = Owner
  Global = Global
  Executions = {e1, e2, e3}
  Tasks <- MCTasks
  ScopeOf <- MCScopeOf
  GlobalConcurrency = 2
  MaxConcurrentRuns = 1
  MaxQueuedRuns = 2
  MaxWorkItems = 4
  QueueTimeout = 2
  ExecutionTimeout = 1
  LeaseDuration = 1
  MaxBatch = 2
  EnqueueHorizon = 0
  MaxTime = 2
  Commands <- MCCommands
  RequestIds = {"q1", "q2", "q3", "q4"}
  Attempts = {a1, a2, a3}
  Spaces = {"s", "t"}
  MaxTasks = 1
  MaxOperations = 3
SYMMETRY MCSymmetry
CHECK_DEADLOCK FALSE
INVARIANTS TypeOK CapacityExact NothingStranded
PROPERTIES ClaimsStayLost OutcomeIsFinal LifecycleSpec CommandsTakeEffectOnce
