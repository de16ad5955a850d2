------------------------------ MODULE MCPmemInit ------------------------------
(* Model-checking instance of PmemInit: two goroutines; sizes of 64 and    *)
(* 128 MiB; offsets 0, a page, half a page (rejected) and 64 MiB (accepted *)
(* only with the larger size).                                             *)
EXTENDS PmemInit, TLC

CONSTANTS t1, t2

MCThreads == {t1, t2}

MCReqSizes == {67108864, 134217728}

MCOffsets == {0, 4096, 8192, 67108864}

MCSymmetry == Permutations(MCThreads)
=============================================================================
