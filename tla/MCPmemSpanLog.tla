----------------------------- MODULE MCPmemSpanLog -----------------------------
(* Model-checking instance of PmemSpanLog: an arena of 5 pages, spans of   *)
(* the smallest class (8-byte objects, 1 page) and large spans of the     *)
(* smallest large size (5 pages), whose encodings are the closest the two  *)
(* kinds come to each other.                                               *)
EXTENDS PmemSpanLog, TLC

CONSTANTS t1, t2

MCThreads == {t1, t2}

MCDescs ==
  {[large |-> FALSE, spc |-> 2, npages |-> 1, opt |-> o, nz |-> z] : o \in {0, 1}, z \in {0, 1}}
  \cup {[large |-> TRUE, spc |-> c, npages |-> 5, opt |-> 0, nz |-> c] : c \in {0, 1}}

MCSymmetry == Permutations(MCThreads)
=============================================================================
