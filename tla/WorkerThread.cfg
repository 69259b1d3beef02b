CONSTANTS
  c1 = c1
  c2 = c2
  Conns = {c1, c2}
  Stream <- TwoWriters
  AirBlocks <- NoBlocks
  Garbage = {3, 4}
  DMA = 3
  MaxLost = 0
  Exclusive = 1
SPECIFICATION FairSpec
INVARIANTS
  TypeOK
  FramesInOrder
  WireHasBlocks
PROPERTY
  FramesServed
