---------------------------- MODULE MCPmemTypeDesc ----------------------------
(* TLC instance of PmemTypeDesc: spans as model values. *)
EXTENDS PmemTypeDesc, TLC

CONSTANTS s1, s2

MCSpans == {s1, s2}

MCSymmetry == Permutations(MCSpans)
=============================================================================
