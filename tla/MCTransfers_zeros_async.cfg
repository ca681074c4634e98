CONSTANTS
  Buffers = {b1}
  Size <- TwoCells
  Regions = {r1, r2}
  RegionSize = 2
  Values = {0, 1}
  FLOAT_SIZE = 2
  ZerosBlock <- NonBlocking
  MaxQueue = 2

SPECIFICATION Spec

INVARIANTS
  ZerosFilled
