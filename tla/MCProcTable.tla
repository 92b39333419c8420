---------------------------- MODULE MCProcTable ----------------------------
(* ProcTable for TLC.  Addresses are interchangeable.                      *)
EXTENDS ProcTable, TLC

CONSTANTS p1, p2, p3, p4, p5, p6

Symmetry == Permutations(Procs)

============================================================================
