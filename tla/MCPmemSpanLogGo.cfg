\* Span allocation log of pmemLog.go: two goroutines allocate, reuse and free spans across a crash.
CONSTANTS
  t1 = t1
  t2 = t2
  Threads <- MCThreads
  Descs <- MCDescs
  MapAddr = 0
  ArenaOffset = 0
  ArenaHdrSize = 64
  MdSize = 8192
  AllocSize = 49152
  MaxCrashes = 1
SPECIFICATION Spec
SYMMETRY MCSymmetry
INVARIANTS
  DurableLogMatches
  NoMismatchThrow
