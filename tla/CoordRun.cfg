\* Two processes, two tasks, conflicting scopes, one fault (a death, a refused
\* call, a worktree that cannot be removed), one reopen.
CONSTANTS
  t1 = t1
  t2 = t2
  TaskId = {t1, t2}
  Worker = {w1, w2}
  Owner = {w1, w2}
  NoOne = NoOne
  NoDraft = NoDraft
  NoCommit = {}
  Commit <- MCCommit
  Path <- MCPath
  Scope <- Containing
  ReopenLimit = 1
  PlanDeps <- NoDeps
  NoTree = NoTree
  NoTask = NoTask
  MaxFaults = 1
  SlowHolder = FALSE
SYMMETRY MCSymmetry
SPECIFICATION RunSpec
INVARIANTS
  RunTypeOK
  LeasesExclusive
  OneLeasePerOwner
  MergedOnMain
PROPERTIES
  MainFastForward
  OnlySubmittedReachMain
  ImplementsTable
  ImplementsLeases
