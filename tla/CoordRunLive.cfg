\* A chain of two tasks with scopes of their own and one fault: progress.
CONSTANTS
  t1 = t1
  t2 = t2
  TaskId = {t1, t2}
  Worker = {w1, w2}
  Owner = {w1, w2}
  NoOne = NoOne
  NoDraft = NoDraft
  NoCommit = {}
  Commit <- MCCommit
  Path <- MCPath
  Scope <- Apart
  ReopenLimit = 0
  PlanDeps <- Chain
  NoTree = NoTree
  NoTask = NoTask
  MaxFaults = 1
  SlowHolder = FALSE
SPECIFICATION FairRunSpec
INVARIANTS
  MergedOnMain
PROPERTIES
  EveryTaskSettles
