\* Two files, three contents, three heads after the base, an edit, two faults.
CONSTANTS
  v1 = v1
  File = {f1, f2}
  Content = {v1, v2, v3}
  Checkout <- MCCheckout
  MaxHead = 4
  MaxEdits = 1
  MaxFaults = 2
SPECIFICATION FairPublicationSpec
INVARIANTS
  PublicationTypeOK
  OnlyEditsConflict
PROPERTIES
  PublishesAtomically
  PublicationEnds
CHECK_DEADLOCK FALSE
