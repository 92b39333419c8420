------------------------------ MODULE MCSynch ------------------------------
(* Synch for TLC.                                                          *)
EXTENDS Synch

CONSTANTS t1, t2, t3, c1, c2

============================================================================
