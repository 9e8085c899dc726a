\* Three tasks, two workers, a fuse of one reopen: every dependency graph on
\* three tasks, published in up to three batches.
CONSTANTS
  TaskId = {t1, t2, t3}
  Worker = {w1, w2}
  NoOne = NoOne
  NoDraft = NoDraft
  NoCommit = NoCommit
  Commit = {NoCommit}
  path = path
  Scope <- MCScope
  ReopenLimit = 1
SYMMETRY MCSymmetry
SPECIFICATION TableSpec
INVARIANTS
  TableTypeOK
  GraphWellFounded
  DependenciesFirst
  SomeTaskNotWaiting
  ReopenFuse
PROPERTIES
  TerminalIsFinal
  HolderKept
CHECK_DEADLOCK FALSE
