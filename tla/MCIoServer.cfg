\* Rings of two bytes, which wrap around and fill up.
SPECIFICATION FairSpec
CONSTANTS
  Putter = {p1}
  Size = 3
  MaxPut = 3
  MaxRx = 2
INVARIANTS
  BytesInOrder
  HandshakeInv
PROPERTIES
  LossOnlyWhenFull
  NoOverrun
  OutputDrains
  ReaderServed
CHECK_DEADLOCK FALSE
