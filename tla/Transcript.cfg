\* Two transcripts, three rows, two flushing threads, three faults.
CONSTANTS
  p1 = p1
  p2 = p2
  r1 = r1
  r2 = r2
  r3 = r3
  Path = {p1, p2}
  Row = {r1, r2, r3}
  Of <- MCOf
  Flusher = {f1, f2}
  MaxFaults = 3
SPECIFICATION TranscriptSpec
INVARIANTS
  TranscriptTypeOK
PROPERTIES
  KeepsLog
CHECK_DEADLOCK FALSE
