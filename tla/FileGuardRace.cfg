\* Three processes, short sections, one death: two waiters meet at the file the
\* dead process left.
CONSTANTS
  Proc = {p1, p2, p3}
  NoFile = NoFile
  MaxFaults = 1
  SlowSection = FALSE
SYMMETRY MCSymmetry
SPECIFICATION GuardSpec
INVARIANTS
  MutualExclusion
