\* An agent and its parent conversation, two attempts, one call, two notes, one
\* fault: the promise of the mailbox, and a parent that comes back hears.
CONSTANTS
  Agent = {a1}
  Attempt = {n1, n2}
  NoAttempt = NoAttempt
  Call = {c1}
  NoCall = NoCall
  Overlap <- MCOverlap
  Limit = 2
  MaxFaults = 1
  Parent = Parent
  BatchLimit = 2
  BoxLimit = 2
  MaxSent = 2
SPECIFICATION FairMailSpec
INVARIANTS
  MailTypeOK
  AckedIsDurable
PROPERTIES
  KeepsPromise
  ParentHears
