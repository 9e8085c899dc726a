\* No fault, but a reconciler may take longer than the TTL of its lock.
CONSTANTS
  t1 = t1
  t2 = t2
  TaskId = {t1, t2}
  Worker = {w1, w2}
  Owner = {w1, w2}
  NoOne = NoOne
  NoDraft = NoDraft
  NoCommit = {}
  Commit <- MCCommit
  Path <- MCPath
  Scope <- Apart
  ReopenLimit = 1
  PlanDeps <- NoDeps
  NoTree = NoTree
  NoTask = NoTask
  MaxFaults = 0
  SlowHolder = TRUE
SPECIFICATION RunSpec
INVARIANTS
  MergedOnMain
