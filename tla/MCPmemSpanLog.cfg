\* Span allocation log: two goroutines allocate, reuse and free spans across crashes.
CONSTANTS
  t1 = t1
  t2 = t2
  Threads <- MCThreads
  NPages = 5
  Descs <- MCDescs
  MaxCrashes = 1
SPECIFICATION Spec
SYMMETRY MCSymmetry
INVARIANTS
  DurableLogMatches
  NoMismatchThrow
