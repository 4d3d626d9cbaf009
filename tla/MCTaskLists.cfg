SPECIFICATION Spec
CONSTANTS
  MaxTask = 4
  LastPriority = 2
  PriorityOf <- MCPriorityOf
INVARIANTS
  ListsEnd
PROPERTIES
  ImplementsQueues
