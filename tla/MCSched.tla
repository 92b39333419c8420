------------------------------ MODULE MCSched ------------------------------
(* Sched for TLC.                                                          *)
EXTENDS Sched

CONSTANTS menu, h1, t1, t2

MCFirstThread == 0 :> menu @@ 1 :> h1

============================================================================
