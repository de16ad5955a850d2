\* Region manager: two goroutines race on PmallocInit across crashes.
CONSTANTS
  t1 = t1
  t2 = t2
  Threads <- MCThreads
  ReqSizes <- MCReqSizes
  Offsets <- MCOffsets
  MaxCrashes = 1
SPECIFICATION Spec
SYMMETRY MCSymmetry
INVARIANTS
  TypeOK
  AtMostOneInit
  InitStateConsistent
  UsableRangeInRegion
