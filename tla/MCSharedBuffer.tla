--------------------------- MODULE MCSharedBuffer --------------------------
(* SharedBuffer for TLC.                                                   *)
EXTENDS SharedBuffer

CONSTANTS t1, t2, t3, t4, a, b

============================================================================
