---------------------------- MODULE MCPmemSpanLogGo ----------------------------
(* Model-checking instance of PmemSpanLogGo: an arena of 6 heap pages     *)
(* after one page of metadata, spans of the smallest class (1 page) and   *)
(* large spans of the smallest large size (5 pages).                      *)
EXTENDS PmemSpanLogGo, TLC

CONSTANTS t1, t2

MCThreads == {t1, t2}

MCDescs ==
  {[large |-> FALSE, spc |-> 2, npages |-> 1, nz |-> z] : z \in {0, 1}}
  \cup {[large |-> TRUE, spc |-> c, npages |-> 5, nz |-> c] : c \in {0, 1}}

MCSymmetry == Permutations(MCThreads)
=============================================================================
