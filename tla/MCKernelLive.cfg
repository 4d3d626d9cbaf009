\* Fairness of the loop, and the refinement of Rendezvous: idle_task, task1 and
\* two more tasks, two priorities and one interrupt line.
SPECIFICATION FairSpec
CONSTANTS
  MaxTask = 4
  LowestPriority = 1
  FirstPriority = 0
  LastEvent = 1
  ModemEvent = 1
PROPERTIES
  ImplementsRendezvous
  TopPriorityRuns
  SendersAreServed
CHECK_DEADLOCK FALSE
