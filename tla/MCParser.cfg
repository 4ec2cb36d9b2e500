SPECIFICATION Spec
CONSTANTS
  HookOf <- MCHookOf
  NoTree = NoTree
  Scenarios <- MCScenarios
CHECK_DEADLOCK FALSE
INVARIANTS
  ActiveTokens
  PriorityOrder
  NodesOfTree
