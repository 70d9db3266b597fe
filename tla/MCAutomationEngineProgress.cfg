SPECIFICATION MCFairSpec
CONSTANTS
  e1 = e1
  e2 = e2
  t1 = t1
  w1 = w1
  w2 = w2
  Owner = Owner
  Global = Global
  NoWorker = NoWorker
  Executions = {e1, e2}
  Tasks <- MCTasks
  ScopeOf <- MCScopeOf
  Workers = {w1, w2}
  FinalTargets = {e1}
  CallbackWorkers = {w2}
  GlobalConcurrency = 1
  MaxConcurrentRuns = 1
  MaxQueuedRuns = 2
  MaxWorkItems = 3
  QueueTimeout = 1
  ExecutionTimeout = 1
  LeaseDuration = 1
  MaxBatch = 1
  EnqueueHorizon = 0
  MaxTime = 3
  OutageHorizon = 0
PROPERTY EveryExecutionMovesOn
CHECK_DEADLOCK FALSE
