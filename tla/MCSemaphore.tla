---------------------------- MODULE MCSemaphore ----------------------------
(* Semaphore for TLC.                                                      *)
EXTENDS Semaphore

CONSTANTS t1, t2, t3, t4

============================================================================
