\* No fault at all: a worktree goes from under the worker that holds its task.
CONSTANTS
  t1 = t1
  t2 = t2
  TaskId = {t1, t2}
  Worker = {w1, w2}
  Owner = {w1, w2}
  NoOne = NoOne
  NoDraft = NoDraft
  NoCommit = {}
  Commit <- MCCommit
  Path <- MCPath
  Scope <- Containing
  ReopenLimit = 1
  PlanDeps <- NoDeps
  NoTree = NoTree
  NoTask = NoTask
  MaxFaults = 0
  SlowHolder = FALSE
SPECIFICATION RunSpec
INVARIANTS
  TreeOfHolder
