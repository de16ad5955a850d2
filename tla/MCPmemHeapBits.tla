---------------------------- MODULE MCPmemHeapBits ----------------------------
(* TLC instance of PmemHeapBits: a few pointer patterns of an object. *)
EXTENDS PmemHeapBits

\* No pointer, a pointer in the first word, a pointer in the last word.
MCPatterns ==
  {[i \in 0 .. (ObjWords - 1) |-> FALSE],
   [i \in 0 .. (ObjWords - 1) |-> i = 0],
   [i \in 0 .. (ObjWords - 1) |-> i = ObjWords - 1]}
=============================================================================
