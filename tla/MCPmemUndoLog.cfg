\* Undo log with a caller that logs each field at most once per transaction.
CONSTANTS
  f1 = f1
  f2 = f2
  f3 = f3
  Fields <- MCFields
  Vals <- MCVals
  CallerRelogs = FALSE
  MaxTx = 3
  MaxCrashes = 2
SPECIFICATION Spec
SYMMETRY MCSymmetry
INVARIANTS
  TypeOK
  LogCoversDirty
\* The caller closes at most MaxTx transactions; after that the system stops.
CHECK_DEADLOCK FALSE
