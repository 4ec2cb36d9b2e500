SPECIFICATION Spec
CONSTANTS
  None = None
  Paths = {1, 2}
  Roots = {"left"}
  RootOf <- MCRootOf
  Subjects = {None, 2}
  Capacity = 1
  MaxChanges = 2
  MaxEpoch = 2
  MaxInbox = 2
CHECK_DEADLOCK FALSE
INVARIANTS
  InventoryIsCurrent
  SummariesAreCurrent
