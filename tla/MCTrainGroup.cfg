\* Both trains located: two commands or merges of two clients, one sensor or nag.
SPECIFICATION MCSpec
CONSTANTS
  Train = {a, b}
  Client = {p, q}
  None = None
  Located = {a, b}
  MaxCommands = 2
  MaxWork = 1
  MaxTimers = 1
  MaxNaggers = 2
SYMMETRY MCSymmetry
INVARIANTS
  MembersFollow
  SendsAreOwed
  NoCircularWait
CHECK_DEADLOCK FALSE
