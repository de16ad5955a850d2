\* Undo log, crash atomicity: the recovered header refines AtomicHeader, and
\* recovery under the spec 4.6 restart terminates despite crashes.
CONSTANTS
  f1 = f1
  f2 = f2
  f3 = f3
  Fields <- MCFields
  Vals <- MCVals
  CallerRelogs = FALSE
  MaxTx = 3
  MaxCrashes = 2
SPECIFICATION FairSpec
PROPERTIES
  AtomicUpdate
  RecoveryCompletes
\* The caller closes at most MaxTx transactions; after that the system stops.
CHECK_DEADLOCK FALSE
