----------------------------- MODULE FileTable -----------------------------
(***************************************************************************)
(* The per-process and the global open file tables of kern/io/file_table.c *)
(* with the system calls that use them: open, close, dup2, and the table   *)
(* part of fork and of process exit.                                       *)
(*                                                                         *)
(* A File has no count of its own: whoever closes looks at the vnode's     *)
(* vn_refcount under the global table's lock, while vfs_open, fork and     *)
(* dup2 change that count without it.  A local table is only used by its   *)
(* own process' one thread, so its lock never blocks and is left out.      *)
(* Leaked memory (a File_Desc nobody points to) counts as free here.       *)
(*                                                                         *)
(* fork does not count the files in the slots of the standard descriptors, *)
(* where a program may have put ordinary ones: from then on a close may    *)
(* free what is in use.  What the kernel does once it has used freed       *)
(* memory (fault, spin, go on with what it finds) is not followed.         *)
(***************************************************************************)
EXTENDS Integers, FiniteSets

CONSTANTS
  Procs,       (* processes                                                *)
  Nodes,       (* vnodes (addresses: a reclaimed one may be used again)    *)
  Files,       (* addresses of File                                        *)
  Descs,       (* addresses of File_Desc                                   *)
  StdSlots,    (* number of standard descriptors (3 in the code)           *)
  MAX_LOCAL_TABLE_SIZE,
  MAX_GLOBAL_TABLE_SIZE,  (* without the slots of the standard Files       *)
  TargetFds,   (* descriptors programs close or dup2 onto                  *)
  ExecNodes,   (* vnodes that are also opened without the file table, as   *)
               (* runprogram and execv do to load a program                *)
  MaxRef,      (* bound: nobody opens a vnode with that many references    *)
  MinOpen,     (* bound: nobody closes when num_open_files is that low     *)
  NULL,        (* the null pointer                                         *)
  STD,         (* stdin_fd, stdout_fd or stderr_fd                         *)
  FREED        (* a field of freed memory                                  *)

Fds == 0 .. (MAX_LOCAL_TABLE_SIZE - 1)
Slots == 1 .. MAX_GLOBAL_TABLE_SIZE

ASSUME FileTableConstants ==
  /\ StdSlots \in Nat /\ MAX_LOCAL_TABLE_SIZE \in Nat \ {0}
  /\ StdSlots <= MAX_LOCAL_TABLE_SIZE
  /\ MAX_GLOBAL_TABLE_SIZE \in Nat
  /\ TargetFds \subseteq Fds
  /\ ExecNodes \subseteq Nodes
  /\ MaxRef \in Nat /\ MinOpen \in Int
  /\ IsFiniteSet(Procs)
  /\ NULL # STD /\ STD # FREED /\ FREED # NULL
  /\ {NULL, STD, FREED} \cap (Procs \cup Descs \cup Files \cup Nodes) = {}

VARIABLES
  local,          (* process -> its local_file_table->files                *)
  num_open_files, (* process -> local_file_table->num_open_files           *)
  global,         (* global_file_table->files                              *)
  global_open,    (* global_file_table->num_open_files, standard ones not  *)
                  (* counted                                               *)
  global_lk,      (* who has global_file_table->lk                         *)
  file_of,        (* File_Desc -> its file, FREED if not allocated         *)
  node_of,        (* File -> its node, FREED if not allocated              *)
  vn_refcount,    (* vnode -> reference count, 0 when reclaimed            *)
  loading,        (* vnodes that runprogram or execv has open              *)
  pc, arg,        (* where each process is, and its local variables        *)
  used_freed,     (* freed memory has been used: no step is followed after *)
                  (* that                                                  *)
  miscounted      (* history: a fork has copied a file it did not count    *)

heap == <<file_of, node_of>>
gtable == <<global, global_open, global_lk>>
vars == <<local, num_open_files, global, global_open, global_lk, file_of,
          node_of, vn_refcount, loading, pc, arg, used_freed, miscounted>>

NoArg == [node |-> NULL, file |-> NULL, desc |-> NULL, old |-> 0, new |-> 0,
          ret |-> "user"]

(* local_table_create *)
EmptyTable == [i \in Fds |-> IF i < StdSlots THEN STD ELSE NULL]
NoTable == [i \in Fds |-> NULL]

(* global_table_create; no program runs.                                   *)
Init ==
  /\ local = [p \in Procs |-> NoTable]
  /\ num_open_files = [p \in Procs |-> 0]
  /\ global = [i \in Slots |-> NULL]
  /\ global_open = 0
  /\ global_lk = NULL
  /\ file_of = [d \in Descs |-> FREED]
  /\ node_of = [f \in Files |-> FREED]
  /\ vn_refcount = [n \in Nodes |-> 0]
  /\ loading = {}
  /\ pc = [p \in Procs |-> "none"]
  /\ arg = [p \in Procs |-> NoArg]
  /\ used_freed = FALSE
  /\ miscounted = FALSE

Goto(p, place) == pc' = [pc EXCEPT ![p] = place]

(* A program is started from the menu with a fresh table.                  *)
start(p) ==
  /\ \A q \in Procs : pc[q] = "none"
  /\ local' = [local EXCEPT ![p] = EmptyTable]
  /\ num_open_files' = [num_open_files EXCEPT ![p] = StdSlots]
  /\ Goto(p, "user")
  /\ UNCHANGED <<gtable, heap, vn_refcount, loading, arg>>

Return(p) ==
  /\ Goto(p, "user")
  /\ arg' = [arg EXCEPT ![p] = NoArg]

(* file->node, through a pointer that may have been read from freed memory. *)
NodeOf(f) == IF f = FREED THEN FREED ELSE node_of[f]

(* What a pointer to a vnode leads to if the File_Desc, the File or the    *)
(* vnode has been freed and not been allocated again: kfree has filled it  *)
(* with 0xdeadbeef.                                                        *)
Gone(n) == n \in Nodes => vn_refcount[n] = 0

----------------------------------------------------------------------------
(* file_destroy: from here a process goes on to "ret"                      *)

(* What calls file_destroy: the File, the descriptor to free with it (NULL *)
(* when sys_open undoes its own global_table_open_file).                   *)
Destroy(p, f, d, ret) ==
  /\ Goto(p, "destroy")
  /\ arg' = [arg EXCEPT ![p] = [NoArg EXCEPT !.node = NodeOf(f), !.file = f,
                                             !.desc = d, !.ret = ret]]

(* Mutant: off by one.                                                     *)
LastReference_off_by_one(n) == vn_refcount[n] <= 2

LastReference(n) == vn_refcount[n] = 1

(* The lock is taken and the count looked at ...                           *)
file_destroy_check(p) ==
  /\ pc[p] = "destroy"
  /\ ~ Gone(arg[p].node)
  /\ global_lk = NULL
  /\ global_lk' = p
  /\ Goto(p, IF LastReference(arg[p].node) THEN "remove" ELSE "drop")
  /\ UNCHANGED <<local, num_open_files, global, global_open, heap, vn_refcount,
                 loading, arg>>

Continue(p) ==
  /\ Goto(p, arg[p].ret)
  /\ arg' = [arg EXCEPT ![p] = [NoArg EXCEPT !.old = arg[p].old,
                                             !.new = arg[p].new]]

CloseSlot(f) ==
  /\ global' = [i \in Slots |-> IF global[i] = f THEN NULL ELSE global[i]]
  /\ global_open' = IF \E i \in Slots : global[i] = f THEN global_open - 1
                    ELSE global_open

(* ... and, if it was the last one, the File leaves the global table and   *)
(* is freed with the descriptor ...                                        *)
file_destroy_remove(p) ==
  /\ pc[p] = "remove"
  /\ ~ Gone(arg[p].node)
  /\ CloseSlot(arg[p].file)
  /\ vn_refcount' = [vn_refcount EXCEPT ![arg[p].node] = @ - 1]
  /\ node_of' = [node_of EXCEPT ![arg[p].file] = FREED]
  /\ file_of' = [d \in Descs |-> IF d = arg[p].desc THEN FREED ELSE file_of[d]]
  /\ global_lk' = NULL
  /\ Continue(p)
  /\ UNCHANGED <<local, num_open_files, loading>>

(* ... or only the reference is given up.                                  *)
file_destroy_drop(p) ==
  /\ pc[p] = "drop"
  /\ ~ Gone(arg[p].node)
  /\ vn_refcount' = [vn_refcount EXCEPT ![arg[p].node] = @ - 1]
  /\ global_lk' = NULL
  /\ Continue(p)
  /\ UNCHANGED <<local, num_open_files, global, global_open, heap, loading>>

----------------------------------------------------------------------------
(* sys_open *)

(* vfs_open, before the global table's lock is taken.                      *)
sys_open(p, n) ==
  /\ pc[p] = "user"
  /\ vn_refcount[n] < MaxRef
  /\ vn_refcount' = [vn_refcount EXCEPT ![n] = @ + 1]
  /\ arg' = [arg EXCEPT ![p].node = n]
  /\ Goto(p, "opened")
  /\ UNCHANGED <<local, num_open_files, gtable, heap, loading>>

(* Mutant: the scan for a File of the same vnode is forgotten.             *)
OpenFiles_none(n) == {}

OpenFiles(n) == {f \in Files : node_of[f] = n /\ \E i \in Slots : global[i] = f}

EmptySlots == {i \in Slots : global[i] = NULL}

FirstFree(S) == CHOOSE i \in S : \A j \in S : i <= j

(* The rest of global_table_open_file, under the lock.  ENFILE, and ENOSPC *)
(* when no File can be had, leave the vnode's reference behind.            *)
global_table_open_file(p) ==
  /\ pc[p] = "opened"
  /\ global_lk = NULL
  /\ LET n == arg[p].node IN
     \/ /\ global_open = MAX_GLOBAL_TABLE_SIZE
        /\ Return(p)
        /\ UNCHANGED <<global, global_open, node_of>>
     \/ /\ global_open # MAX_GLOBAL_TABLE_SIZE
        /\ \E f \in OpenFiles(n) : arg' = [arg EXCEPT ![p].file = f]
        /\ Goto(p, "adding")
        /\ UNCHANGED <<global, global_open, node_of>>
     \/ /\ global_open # MAX_GLOBAL_TABLE_SIZE
        /\ OpenFiles(n) = {}
        /\ \E f \in Files :
             /\ node_of[f] = FREED
             /\ node_of' = [node_of EXCEPT ![f] = n]
             /\ global' = [global EXCEPT ![FirstFree(EmptySlots)] = f]
             /\ arg' = [arg EXCEPT ![p].file = f]
        /\ global_open' = global_open + 1
        /\ Goto(p, "adding")
     \/ /\ global_open # MAX_GLOBAL_TABLE_SIZE
        /\ OpenFiles(n) = {}
        /\ Return(p)
        /\ UNCHANGED <<global, global_open, node_of>>
  /\ UNCHANGED <<local, num_open_files, global_lk, file_of, vn_refcount, loading>>

EmptyFds(p) == {i \in Fds : local[p][i] = NULL}

(* A File_Desc that is not allocated, or has leaked.                       *)
Unused(d) ==
  /\ \A p \in Procs, i \in Fds : local[p][i] # d
  /\ \A p \in Procs : arg[p].desc # d

local_table_add_file(p) ==
  /\ pc[p] = "adding"
  /\ num_open_files[p] # MAX_LOCAL_TABLE_SIZE
  /\ EmptyFds(p) # {}
  /\ \E d \in {x \in Descs : Unused(x)} :
       /\ file_of' = [file_of EXCEPT ![d] = arg[p].file]
       /\ local' = [local EXCEPT ![p][FirstFree(EmptyFds(p))] = d]
  /\ Return(p)
  /\ UNCHANGED <<num_open_files, gtable, node_of, vn_refcount, loading>>

(* EMFILE, EIO, or no memory for the descriptor (ENOSPC).                  *)
local_table_add_file_fails(p) ==
  /\ pc[p] = "adding"
  /\ Destroy(p, arg[p].file, NULL, "user")
  /\ UNCHANGED <<local, num_open_files, gtable, heap, vn_refcount, loading>>

----------------------------------------------------------------------------
(* close, dup2 *)

(* non_lock_close_file and file_desc_destroy on an open descriptor.        *)
sys_close(p, fd) ==
  /\ pc[p] = "user"
  /\ local[p][fd] # NULL
  /\ num_open_files[p] > MinOpen
  /\ local' = [local EXCEPT ![p][fd] = NULL]
  /\ num_open_files' = [num_open_files EXCEPT ![p] = @ - 1]
  /\ IF local[p][fd] = STD
     THEN UNCHANGED <<pc, arg>>
     ELSE Destroy(p, file_of[local[p][fd]], local[p][fd], "user")
  /\ UNCHANGED <<gtable, heap, vn_refcount, loading>>

(* Only non-standard descriptors have a vnode.                             *)
CountDup(d) ==
  IF d = STD THEN UNCHANGED vn_refcount
  ELSE vn_refcount' = [vn_refcount EXCEPT ![NodeOf(file_of[d])] = @ + 1]

(* local_table_dup2 when the new descriptor is open: it is closed first.   *)
sys_dup2(p, old, new) ==
  /\ pc[p] = "user"
  /\ old # new
  /\ local[p][old] # NULL
  /\ local[p][new] # NULL => num_open_files[p] > MinOpen
  /\ local' = [local EXCEPT ![p][new] = NULL]
  /\ IF local[p][new] \in {NULL, STD}
     THEN /\ Goto(p, "dup")
          /\ arg' = [arg EXCEPT ![p].old = old, ![p].new = new]
     ELSE /\ Goto(p, "destroy")
          /\ arg' = [arg EXCEPT ![p] =
                       [node |-> NodeOf(file_of[local[p][new]]),
                        file |-> file_of[local[p][new]], desc |-> local[p][new],
                        old |-> old, new |-> new, ret |-> "dup"]]
  /\ num_open_files' = [num_open_files EXCEPT
                          ![p] = IF local[p][new] = NULL THEN @ ELSE @ - 1]
  /\ UNCHANGED <<gtable, heap, vn_refcount, loading>>

(* The rest of local_table_dup2.                                           *)
local_table_dup2(p) ==
  /\ pc[p] = "dup"
  /\ local[p][arg[p].old] \in Descs => ~ Gone(NodeOf(file_of[local[p][arg[p].old]]))
  /\ local' = [local EXCEPT ![p][arg[p].new] = local[p][arg[p].old]]
  /\ CountDup(local[p][arg[p].old])
  /\ num_open_files' = [num_open_files EXCEPT ![p] = @ + 1]
  /\ Return(p)
  /\ UNCHANGED <<gtable, heap, loading>>

----------------------------------------------------------------------------
(* The tables in fork and exit *)

FdsOn(p, fds, n) ==
  {i \in fds : local[p][i] \in Descs /\ NodeOf(file_of[local[p][i]]) = n}

(* Mutant: a file that is open twice is counted once.                      *)
CopiedRefs_once(p, n) ==
  IF FdsOn(p, {i \in Fds : i >= StdSlots}, n) = {} THEN 0 ELSE 1

(* What the loop from slot 3 on adds to a vnode's count.                   *)
CopiedRefs(p, n) == Cardinality(FdsOn(p, {i \in Fds : i >= StdSlots}, n))

(* The files the loop counts, and whether it leaves one out.               *)
CountedNodes(p) ==
  {NodeOf(file_of[local[p][i]]) :
     i \in {j \in Fds : j >= StdSlots /\ local[p][j] \in Descs}}

LeavesOut(p) == \E i \in Fds : i < StdSlots /\ local[p][i] \in Descs

(* sys_fork's local_table_copy into the child's table.  A fork that fails  *)
(* after it is a child that makes no call: proc_destroy closes the copy.   *)
local_table_copy(p, q) ==
  /\ pc[p] = "user"
  /\ pc[q] = "none"
  /\ \A n \in CountedNodes(p) : ~ Gone(n)
  /\ local' = [local EXCEPT ![q] = local[p]]
  /\ vn_refcount' = [n \in Nodes |-> vn_refcount[n] + CopiedRefs(p, n)]
  /\ num_open_files' = [num_open_files EXCEPT ![q] = num_open_files[p]]
  /\ Goto(q, "user")
  /\ miscounted' = (miscounted \/ LeavesOut(p))
  /\ UNCHANGED <<gtable, heap, loading, arg>>

(* proc_destroy: local_table_close_all, one descriptor after the other.    *)
OpenFds(p) == {i \in Fds : local[p][i] # NULL}

close_next(p) ==
  /\ pc[p] \in {"user", "closing"}
  /\ OpenFds(p) # {}
  /\ LET fd == FirstFree(OpenFds(p)) IN
     /\ local' = [local EXCEPT ![p][fd] = NULL]
     /\ IF local[p][fd] = STD
        THEN Goto(p, "closing") /\ UNCHANGED arg
        ELSE Destroy(p, file_of[local[p][fd]], local[p][fd], "closing")
  /\ UNCHANGED <<num_open_files, gtable, heap, vn_refcount, loading>>

local_table_destroy(p) ==
  /\ pc[p] \in {"user", "closing"}
  /\ OpenFds(p) = {}
  /\ num_open_files' = [num_open_files EXCEPT ![p] = 0]
  /\ Goto(p, "none")
  /\ arg' = [arg EXCEPT ![p] = NoArg]
  /\ UNCHANGED <<local, gtable, heap, vn_refcount, loading>>

----------------------------------------------------------------------------
(* runprogram and execv open the program's file and close it when it is    *)
(* loaded, without the tables.                                             *)

load_open(n) ==
  /\ n \notin loading
  /\ vn_refcount[n] < MaxRef
  /\ loading' = loading \cup {n}
  /\ vn_refcount' = [vn_refcount EXCEPT ![n] = @ + 1]
  /\ UNCHANGED <<local, num_open_files, gtable, heap, pc, arg>>

load_close(n) ==
  /\ n \in loading
  /\ ~ Gone(n)
  /\ loading' = loading \ {n}
  /\ vn_refcount' = [vn_refcount EXCEPT ![n] = @ - 1]
  /\ UNCHANGED <<local, num_open_files, gtable, heap, pc, arg>>

----------------------------------------------------------------------------

(* What the loader, or a process in the middle of a call, or its fork      *)
(* follows a pointer to.                                                   *)
Followed(p) ==
  CASE pc[p] \in {"destroy", "remove", "drop"} -> {arg[p].node}
    [] pc[p] = "dup" /\ local[p][arg[p].old] \in Descs ->
         {NodeOf(file_of[local[p][arg[p].old]])}
    [] pc[p] = "user" /\ (\E q \in Procs : pc[q] = "none") -> CountedNodes(p)
    [] OTHER -> {}

(* It has been freed: what is read is 0xdeadbeef, a pointer that faults, a *)
(* lock that is never free, a flag that is set.                            *)
use_freed ==
  /\ \E n \in loading \cup UNION {Followed(p) : p \in Procs} : Gone(n)
  /\ used_freed' = TRUE
  /\ UNCHANGED <<local, num_open_files, gtable, heap, vn_refcount, loading, pc, arg>>

----------------------------------------------------------------------------

(* One process' call, or the loader.                                       *)
Step ==
  \/ \E p \in Procs :
       \/ start(p)
       \/ file_destroy_check(p)
       \/ file_destroy_remove(p)
       \/ file_destroy_drop(p)
       \/ \E n \in Nodes : sys_open(p, n)
       \/ global_table_open_file(p)
       \/ local_table_add_file(p)
       \/ local_table_add_file_fails(p)
       \/ \E fd \in TargetFds : sys_close(p, fd)
       \/ \E old \in Fds, new \in TargetFds : sys_dup2(p, old, new)
       \/ local_table_dup2(p)
       \/ close_next(p)
       \/ local_table_destroy(p)
  \/ \E n \in ExecNodes : load_open(n) \/ load_close(n)

Next ==
  /\ ~ used_freed
  /\ \/ Step /\ UNCHANGED <<used_freed, miscounted>>
     \/ \E p, q \in Procs : p # q /\ local_table_copy(p, q) /\ UNCHANGED used_freed
     \/ use_freed /\ UNCHANGED miscounted

Spec == Init /\ [][Next]_vars

----------------------------------------------------------------------------
(* Properties *)

Places == {"none", "user", "destroy", "remove", "drop", "opened", "adding", "dup",
           "closing"}

Args == [node : Nodes \cup {NULL}, file : Files \cup {NULL}, desc : Descs \cup {NULL},
         old : Fds, new : Fds, ret : {"user", "dup", "closing"}]

TypeOK ==
  /\ local \in [Procs -> [Fds -> Descs \cup {NULL, STD}]]
  /\ num_open_files \in [Procs -> Int]
  /\ global \in [Slots -> Files \cup {NULL}]
  /\ global_open \in 0 .. MAX_GLOBAL_TABLE_SIZE
  /\ global_lk \in Procs \cup {NULL}
  /\ file_of \in [Descs -> Files \cup {FREED}]
  /\ node_of \in [Files -> Nodes \cup {FREED}]
  /\ vn_refcount \in [Nodes -> Nat]
  /\ loading \subseteq Nodes
  /\ pc \in [Procs -> Places]
  /\ arg \in [Procs -> Args]

(* The open descriptors that are not standard ones.                        *)
OpenDescs(p) == {local[p][i] : i \in Fds} \cap Descs

(* Every open descriptor's File_Desc is allocated, so is its File, and the *)
(* vnode behind it has not been reclaimed: nobody's close, exit or failed  *)
(* open frees what another process, or another descriptor, still uses.     *)
NoDanglingDescriptor ==
  \A p \in Procs : \A d \in OpenDescs(p) :
    /\ file_of[d] # FREED
    /\ node_of[file_of[d]] # FREED
    /\ vn_refcount[node_of[file_of[d]]] > 0

(* References the processes have to vnode n: open descriptors, and the     *)
(* calls that are between vfs_open and the descriptor, or between the      *)
(* descriptor and vfs_close.                                               *)
Descriptors(n) ==
  {x \in Procs \X Fds : LET d == local[x[1]][x[2]] IN
     d \in Descs /\ file_of[d] # FREED /\ node_of[file_of[d]] = n}

InCall(n) ==
  {p \in Procs : /\ pc[p] \in {"opened", "adding", "destroy", "remove", "drop"}
                 /\ arg[p].node = n}

(* vn_refcount counts every use of the vnode (and what has leaked): the    *)
(* test for the last reference in file_destroy relies on it.               *)
RefsCounted ==
  \A n \in Nodes :
    vn_refcount[n] >= Cardinality(Descriptors(n)) + Cardinality(InCall(n))
                      + Cardinality(loading \cap {n})

(* All descriptors of a vnode, of all processes, lead to one File, and it  *)
(* is in the global table: its lock serialises their reads and writes.     *)
FileIsShared ==
  \A p, q \in Procs : \A d \in OpenDescs(p), e \in OpenDescs(q) :
    /\ \E i \in Slots : global[i] = file_of[d]
    /\ node_of[file_of[d]] = node_of[file_of[e]] => file_of[d] = file_of[e]

(* The global table's count is the number of its slots in use, so a new    *)
(* File always finds a slot when the count says there is one.              *)
GlobalCountExact ==
  global_open = Cardinality({i \in Slots : global[i] # NULL})

(* include/filetable.h, File: "Currently open vnode".                      *)
GlobalFilesOpen ==
  \A i \in Slots : global[i] # NULL => vn_refcount[node_of[global[i]]] > 0

(* A File that is allocated is in one slot of the global table, and no two *)
(* Files stand for the same vnode.                                         *)
FilesListed ==
  /\ \A f \in Files : node_of[f] # FREED <=> \E i \in Slots : global[i] = f
  /\ \A i, j \in Slots : global[i] = global[j] /\ global[i] # NULL => i = j
  /\ \A f, g \in Files : node_of[f] = node_of[g] /\ node_of[f] # FREED => f = g

(* A process that is between two steps of open or close.                   *)
Closing(p) == pc[p] \in {"destroy", "remove", "drop"}

Exiting(p) ==
  pc[p] \in {"none", "closing"} \/ (Closing(p) /\ arg[p].ret = "closing")

(* What a process remembers across the steps of a call is still so: its    *)
(* File and descriptor have not been freed, and the descriptor it is to    *)
(* duplicate is open.  The global lock is held from the test of the count  *)
(* to the end of the close.                                                *)
ArgsCurrent ==
  \A p \in Procs :
    /\ pc[p] = "opened" => arg[p].node \in Nodes
    /\ pc[p] = "adding" \/ Closing(p) =>
         /\ arg[p].node \in Nodes
         /\ arg[p].file \in Files /\ node_of[arg[p].file] = arg[p].node
    /\ Closing(p) /\ arg[p].desc # NULL => file_of[arg[p].desc] = arg[p].file
    /\ pc[p] = "dup" \/ (Closing(p) /\ arg[p].ret = "dup") =>
         /\ local[p][arg[p].old] # NULL /\ local[p][arg[p].new] = NULL
         /\ arg[p].new \in TargetFds
    /\ global_lk = p <=> pc[p] \in {"remove", "drop"}

(* A process that is about to free a File is the only one that uses it:    *)
(* others may have opened the vnode again, but they have yet to ask for    *)
(* its File, and find none.                                                *)
LastCloserAlone ==
  \A p \in Procs : pc[p] = "remove" =>
    /\ \A q \in Procs : \A d \in OpenDescs(q) :
         node_of[file_of[d]] # arg[p].node
    /\ \A q \in Procs \ {p} : pc[q] = "adding" \/ Closing(q) =>
         arg[q].node # arg[p].node

(* A process that is not there has no table.                               *)
TablesKept ==
  \A p \in Procs, i \in Fds : pc[p] = "none" => local[p][i] = NULL

(* Until a fork has left a file in a standard slot uncounted, the global   *)
(* table holds exactly one File per open vnode and knows how many, and the *)
(* kernel uses no freed memory, whatever opens, forks and last closes      *)
(* overlap.                                                                *)
FileInv ==
  ~ miscounted =>
    /\ TypeOK /\ FileIsShared /\ GlobalCountExact
    /\ FilesListed /\ ArgsCurrent /\ LastCloserAlone /\ TablesKept
    /\ ~ used_freed

(* Until then no close, exit or failed open frees what another process, or *)
(* another descriptor, still uses ...                                      *)
NoneDangles == ~ miscounted => NoDanglingDescriptor

(* ... because until then vn_refcount counts every use.                    *)
UsesCounted == ~ miscounted => RefsCounted

============================================================================
