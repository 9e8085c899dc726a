\* Two messages, a batch refused twice is stuck, one human turn, two faults.
CONSTANTS
  Msg = {m1, m2}
  NoId = NoId
  MaxQueued = 2
  MaxAttempts = 2
  MaxTurns = 1
  MaxFaults = 2
SPECIFICATION FairInboxSpec
INVARIANTS
  InboxTypeOK
  LostOnlyUnflushed
  EntersOnce
PROPERTIES
  StopHolds
  QueueDrains
CHECK_DEADLOCK FALSE
