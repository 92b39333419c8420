------------------------------- MODULE MCSfs -------------------------------
(* The file system on a small disk. *)
EXTENDS Sfs, TLC

\* Nothing orders threads or names: entries are found by slot.
Symmetry == Permutations(Threads) \cup Permutations(Names)

(* States that differ only in what no operation reads count as one: the     *)
(* inode on disk under a dirty vnode, which is written before the vnode is  *)
(* unloaded, and inodes and indirect blocks left on free blocks.  Data left *)
(* on a free block is kept apart: a new file must not show it.              *)
View ==
  <<[fs EXCEPT !.disk = [b \in Blocks |->
       CASE b \notin fs.freemap -> [Zeroed EXCEPT !.data = fs.disk[b].data]
         [] b \in fs.dirty -> Zeroed
         [] OTHER -> fs.disk[b]]],
    pc, fd>>

============================================================================
