CONSTANTS
  Site = {s1, s2, s3}
  Slot = {}
  Root = s1
  Entries <- MCEntries
SPECIFICATION Spec
INVARIANTS SearchInv ReachableIsExact
PROPERTY Terminates
CHECK_DEADLOCK FALSE
