\* Copies of four bytes, more than the pipes hold, one after the other
SPECIFICATION FairSpec
CONSTANTS
  c1 = c1
  b1 = b1
  b2 = b2
  Null = Null
  Copies = {c1}
  Source <- MCSource
  Buffers = {b1, b2}
  PoolSize = 1
  Capacity = 2
  PipeSize = 1
  ShortWrites = FALSE
INVARIANTS
  BuffersExclusive
  WritesAreSeen
  TargetInOrder
PROPERTIES
  TransfersEnd
CHECK_DEADLOCK FALSE
