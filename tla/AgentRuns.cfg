\* Three agents, two of them with overlapping scopes, two calls, two faults.
CONSTANTS
  a1 = a1
  a2 = a2
  a3 = a3
  Agent = {a1, a2, a3}
  Attempt = {n1, n2}
  NoAttempt = NoAttempt
  Call = {c1, c2}
  NoCall = NoCall
  Overlap <- MCOverlap
  Limit = 2
  MaxFaults = 2
SPECIFICATION FairRunsSpec
INVARIANTS
  RunsTypeOK
  OwnerIsCurrent
  ExecutionsCompatible
  ClosedStaysEmpty
PROPERTIES
  OrphansEnd
