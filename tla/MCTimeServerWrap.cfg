\* The largest delay the assertion admits, near the wrap-around: violated.
SPECIFICATION FairSpec
CONSTANTS
  Client = {c1}
  Slots = 1
  Wrap = 8
  Ticks <- MCWrapTicks
  LastTick = 4
PROPERTY NeverEarly
CHECK_DEADLOCK FALSE
