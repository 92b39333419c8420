------------------------------ MODULE MCSemFs ------------------------------
(* The semaphore file system on small instances. *)
EXTENDS SemFs

============================================================================
