----------------------------- MODULE MCKMalloc -----------------------------
(* KMalloc for TLC.                                                        *)
EXTENDS KMalloc

CONSTANTS t1, t2, t3

MCsizes == <<4, 6>>
Symmetry == Permutations(Threads)

============================================================================
