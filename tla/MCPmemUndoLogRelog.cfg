\* Undo log with a caller that logs the same field twice in one transaction.
CONSTANTS
  f1 = f1
  f2 = f2
  f3 = f3
  Fields <- MCFields
  Vals <- MCVals
  CallerRelogs = TRUE
  MaxTx = 2
  MaxCrashes = 1
SPECIFICATION Spec
SYMMETRY MCSymmetry
PROPERTIES
  AtomicUpdate
CHECK_DEADLOCK FALSE
