---------------------------- MODULE MCFileTable ----------------------------
(* FileTable for TLC.  Processes, vnodes that are not loaded as programs,  *)
(* Files and File_Descs are interchangeable.                               *)
EXTENDS FileTable, TLC

CONSTANTS p1, p2, n1, n2, f1, f2, d1, d2, d3

(* num_open_files may fall one below zero.                                 *)
MCMinOpen == -1

Symmetry ==
  Permutations(Procs) \cup Permutations(Files) \cup Permutations(Descs)

(* States that differ only in what nothing reads are one: where a          *)
(* File_Desc that nobody has any more pointed to, which the next open      *)
(* overwrites, and num_open_files of a table that is being closed.  When a *)
(* fork has miscounted the invariants claim nothing any more, and states   *)
(* are told apart only by where the processes are and what is left.        *)
View ==
  IF miscounted THEN <<miscounted, used_freed, pc, vn_refcount>>
  ELSE <<local,
         [p \in Procs |-> IF Exiting(p) THEN 0 ELSE num_open_files[p]],
         global, global_open, global_lk,
         [d \in Descs |-> IF Unused(d) THEN FREED ELSE file_of[d]],
         node_of, vn_refcount, loading, pc, arg, used_freed>>

============================================================================
