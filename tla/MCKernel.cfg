\* idle_task, task1 and two more tasks; three priorities; a UART line and the timer.
SPECIFICATION Spec
CONSTANTS
  MaxTask = 4
  LowestPriority = 2
  FirstPriority = 1
  LastEvent = 2
  ModemEvent = 1
INVARIANTS
  KernelInv
  LinkedOnce
  NoTaskLost
  NoMissedRendezvous
  SomeTaskReady
PROPERTIES
  HighestPriorityRuns
  StrandedForever
  OrphansStayBlocked
CHECK_DEADLOCK FALSE
