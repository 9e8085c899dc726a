\* Four processes and two faults: what the lock guarantees, and that a file
\* left behind is reclaimed.
CONSTANTS
  Proc = {p1, p2, p3, p4}
  NoFile = NoFile
  MaxFaults = 2
  SlowSection = FALSE
SPECIFICATION FairGuardSpec
INVARIANTS
  HolderHasFile
  RobberyNeedsLeftover
PROPERTIES
  LeftoverGoes
