\* Region manager: is the first-run header durable in the order spec 4.1 requires?
CONSTANTS
  t1 = t1
  t2 = t2
  Threads <- MCThreads
  ReqSizes <- MCReqSizes
  Offsets <- MCOffsets
  MaxCrashes = 1
SPECIFICATION Spec
SYMMETRY MCSymmetry
INVARIANTS
  MagicImpliesSize
