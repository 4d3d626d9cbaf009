\* More clients than slots: the list fills up and overflows.
SPECIFICATION FairSpec
CONSTANTS
  Client = {c1, c2, c3}
  Slots = 2
  Wrap = 16
  Ticks <- MCTicks
  LastTick = 3
INVARIANTS
  ListSortedAndCurrent
  BlockedClientsAccounted
  SlotsAccounted
PROPERTIES
  NeverEarly
  DelaysEnd
  RequestsServed
CHECK_DEADLOCK FALSE
