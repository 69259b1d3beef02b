CONSTANTS
  c1 = c1
  c2 = c2
  Conns = {c1}
  Stream <- OneReader
  AirBlocks <- TwoBlocks
  Garbage = {3, 4}
  DMA = 3
  MaxLost = 1
  Exclusive = 1
SPECIFICATION Spec
INVARIANT
  TakenOnce
PROPERTY
  SilenceEndsBlock
