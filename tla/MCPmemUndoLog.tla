---------------------------- MODULE MCPmemUndoLog ----------------------------
(* Model-checking instance of PmemUndoLog: three header words, so that a   *)
(* third logEntry in one transaction reaches the full-log throw.           *)
EXTENDS PmemUndoLog, TLC

CONSTANTS f1, f2, f3

MCFields == {f1, f2, f3}

MCVals == {0, 1}

MCSymmetry == Permutations(MCFields)
=============================================================================
