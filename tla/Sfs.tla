-------------------------------- MODULE Sfs --------------------------------
(***************************************************************************)
(* The on-disk file system (fs/sfs) with its one directory: inodes with    *)
(* direct blocks and one indirect block, the free block map, the directory *)
(* entries, and the vnodes loaded from inodes.                             *)
(*                                                                         *)
(* Every vnode operation runs under vfs_biglock from end to end, so it is  *)
(* one action; only the decision of vnode_decref to reclaim is taken       *)
(* outside.  Inside, a call can fail at each read and each allocation, and *)
(* a write can get lost.  The C functions are therefore operators from a   *)
(* file system to the set of their outcomes (the file system they leave,   *)
(* an error or not, a value), chained as the code chains them.             *)
(*                                                                         *)
(* An inode's number is its block.  A file's length is counted in blocks   *)
(* and a block's contents is one value; sfs_partialio and sfs_blockio then *)
(* differ only in a read that may fail.  The root directory's vnode is     *)
(* always loaded.                                                          *)
(***************************************************************************)
EXTENDS Integers, FiniteSets, FiniteSetsExt

CONSTANTS
  Threads,       \* each with at most one file open
  Names,         \* file names
  NBlocks,       \* sb_nblocks
  SFS_NDIRECT,   \* direct blocks of an inode
  SFS_DBPERIDB,  \* entries of the indirect block
  MaxBlocks,     \* most blocks in one call of write
  Values,        \* what is written to a block
  MaxErrors,     \* bound: calls during which disk accesses fail
  WriteErrors,   \* TRUE: the device may fail to write a block
  NULL

ASSUME SfsAssumption ==
  /\ NBlocks \in Nat /\ NBlocks > 3 /\ MaxBlocks \in Nat \ {0}
  /\ SFS_NDIRECT \in Nat \ {0} /\ SFS_DBPERIDB \in Nat \ {0}
  /\ Values \subseteq Nat \ {0} /\ MaxErrors \in Nat
  /\ WriteErrors \in BOOLEAN /\ NULL \notin Nat

SFS_ROOTDIR_INO == 1
Blocks == 0 .. NBlocks - 1
Reserved == {0, 1, 2}          \* superblock, root inode, freemap
Slots == 1 .. Cardinality(Names)
Direct == 0 .. SFS_NDIRECT - 1
Indirect == 0 .. SFS_DBPERIDB - 1
FileBlocks == 0 .. SFS_NDIRECT + SFS_DBPERIDB - 1

VARIABLES
  fs,   \* the file system: see NewFs
  pc,   \* thread -> "ready", or "reclaim" after vnode_decref's decision
  fd    \* thread -> the inode it has open, or NULL

vars == <<fs, pc, fd>>

\* A zeroed inode; its type is SFS_TYPE_INVAL.
NoInode == [type |-> "INVAL", linkcount |-> 0, size |-> 0,
            direct |-> [k \in Direct |-> 0], indirect |-> 0]

\* A zeroed block, whatever it is used for.
Zeroed == [ino |-> NoInode, idb |-> [k \in Indirect |-> 0], data |-> 0]

\* As mksfs leaves the disk and sfs_domount loads it, the root vnode loaded.
NewFs ==
  [freemap |-> Reserved,                       \* blocks marked in use
   disk |-> [b \in Blocks |-> Zeroed],
   dirents |-> [s \in Slots |-> NULL],         \* slot -> name and inode
   inode |-> [b \in Blocks |-> IF b = SFS_ROOTDIR_INO  \* sv_i of the vnode
                               THEN [NoInode EXCEPT !.type = "DIR"] ELSE NULL],
   dirty |-> {},                               \* loaded inodes with sv_dirty
   refs |-> [b \in Blocks |-> 0],              \* vn_refcount
   errors |-> 0,                               \* calls with a disk error
   panic |-> FALSE,                            \* a check or a KASSERT failed
   halted |-> FALSE]                           \* rename: Cannot recover

Init ==
  /\ fs = NewFs
  /\ pc = [t \in Threads |-> "ready"]
  /\ fd = [t \in Threads |-> NULL]

----------------------------------------------------------------------------
(* Outcomes *)

Ok(f, val) == [fs |-> f, err |-> FALSE, val |-> val]
Err(f) == [fs |-> f, err |-> TRUE, val |-> 0]

\* A check that panics unless cond holds.
Check(f, cond) == IF cond THEN f ELSE [f EXCEPT !.panic = TRUE]

ErrorCounted(f) == [f EXCEPT !.errors = fs.errors + 1]

\* sfs_readblock gives up after ten retries, any number of times in one call
\* and in MaxErrors calls (fs is the file system before the call).  A kmalloc
\* or a copy from the user's memory that fails there has the same outcome.
IoFails(f) == IF fs.errors < MaxErrors THEN {Err(ErrorCounted(f))} ELSE {}

\* sfs_writeblock, which never fails: lhd_io takes the data from the uio
\* before the device reports an error, so that the retry of sfs_rwblock has
\* nothing left to write, does nothing and returns 0.
sfs_writeblock(f, b, block, val) ==
  {Ok([f EXCEPT !.disk[b] = block], val)} \cup
    IF WriteErrors /\ fs.errors < MaxErrors THEN {Ok(ErrorCounted(f), val)} ELSE {}

\* Go on with each outcome that is not an error.
Then(outcomes, Op(_)) ==
  UNION {IF o.err THEN {o} ELSE Op(o) : o \in outcomes}

----------------------------------------------------------------------------
(* Blocks *)

\* Mutant: the block is handed out as it was left.
sfs_balloc_uncleared(f) ==
  IF f.freemap = Blocks THEN {Err(f)}
  ELSE LET b == Min(Blocks \ f.freemap)
       IN {Ok([f EXCEPT !.freemap = @ \cup {b}, !.disk[b].ino = NoInode], b)}

\* The first free block, cleared.
sfs_balloc(f) ==
  IF f.freemap = Blocks THEN {Err(f)}
  ELSE LET b == Min(Blocks \ f.freemap)
       IN sfs_writeblock([f EXCEPT !.freemap = @ \cup {b}], b, Zeroed, b)

sfs_bfree(f, bs) == [f EXCEPT !.freemap = @ \ bs]

\* Hand back a block that a file maps: it must be marked in use.
MappedBlock(f, b) == Ok(Check(f, b # 0 => b \in f.freemap), b)

\* The disk block of file block k of inode i, 0 if there is none.
sfs_bmap_direct(f, i, k, doalloc) ==
  LET b == f.inode[i].direct[k] IN
  IF b # 0 \/ ~doalloc THEN {MappedBlock(f, b)}
  ELSE Then(sfs_balloc(f), LAMBDA o :
         {MappedBlock([o.fs EXCEPT !.inode[i].direct[k] = o.val,
                                   !.dirty = @ \cup {i}], o.val)})

\* The indirect block of inode i, made if need be, and idbuf.
IndirectBlock(f, i) ==
  LET id == f.inode[i].indirect IN
  IF id # 0
    THEN {Ok(f, [block |-> id, idbuf |-> f.disk[id].idb])} \cup IoFails(f)
    ELSE Then(sfs_balloc(f), LAMBDA o :
           {Ok([o.fs EXCEPT !.inode[i].indirect = o.val, !.dirty = @ \cup {i}],
               [block |-> o.val, idbuf |-> Zeroed.idb])})

sfs_bmap_indirect(f, i, k, doalloc) ==
  IF f.inode[i].indirect = 0 /\ ~doalloc THEN {Ok(f, 0)}
  ELSE Then(IndirectBlock(f, i), LAMBDA id :
    LET b == id.val.idbuf[k] IN
    IF b # 0 \/ ~doalloc THEN {MappedBlock(id.fs, b)}
    ELSE Then(sfs_balloc(id.fs), LAMBDA o :
           Then(sfs_writeblock(o.fs, id.val.block,
                  [Zeroed EXCEPT !.idb = [id.val.idbuf EXCEPT ![k] = o.val]], o.val),
                LAMBDA w : {MappedBlock(w.fs, w.val)})))

sfs_bmap(f, i, k, doalloc) ==
  IF k < SFS_NDIRECT THEN sfs_bmap_direct(f, i, k, doalloc)
  ELSE IF k - SFS_NDIRECT >= SFS_DBPERIDB THEN {Err(f)}
  ELSE sfs_bmap_indirect(f, i, k - SFS_NDIRECT, doalloc)

Entries(idb) == {idb[k] : k \in Indirect} \ {0}

\* The part of sfs_itrunc about the indirect block.
TruncIndirect(f, i, blocklen) ==
  LET id == f.inode[i].indirect
      excess == {k \in Indirect : blocklen < SFS_NDIRECT + k}
      idb == f.disk[id].idb
      keep == [k \in Indirect |-> IF k \in excess THEN 0 ELSE idb[k]]
      freed == sfs_bfree(f, {idb[k] : k \in excess} \ {0})
  IN IF id = 0 \/ blocklen >= SFS_NDIRECT + SFS_DBPERIDB - 1 THEN {Ok(f, 0)}
     ELSE IoFails(f) \cup
       IF Entries(keep) = {}
         THEN {Ok([sfs_bfree(freed, {id}) EXCEPT !.inode[i].indirect = 0], 0)}
         ELSE sfs_writeblock(freed, id, [Zeroed EXCEPT !.idb = keep], 0)

\* The part about the direct blocks.
TruncDirect(f, i, blocklen) ==
  LET excess == {k \in Direct : k >= blocklen /\ f.inode[i].direct[k] # 0}
  IN IF excess = {} THEN f
     ELSE [sfs_bfree(f, {f.inode[i].direct[k] : k \in excess}) EXCEPT
             !.inode[i].direct = [k \in Direct |-> IF k \in excess THEN 0 ELSE @[k]],
             !.dirty = @ \cup {i}]

\* Mutant: the indirect block itself is not freed.
sfs_itrunc_keeps_indirect(f, i, blocklen) ==
  Then(TruncIndirect(TruncDirect(f, i, blocklen), i, blocklen), LAMBDA o :
    {Ok([o.fs EXCEPT !.inode[i].size = blocklen, !.dirty = @ \cup {i},
                     !.freemap = @ \cup ({f.inode[i].indirect} \ {0})], 0)})

\* Discard the blocks from blocklen on and set the length.
sfs_itrunc(f, i, blocklen) ==
  Then(TruncIndirect(TruncDirect(f, i, blocklen), i, blocklen), LAMBDA o :
    {Ok([o.fs EXCEPT !.inode[i].size = blocklen, !.dirty = @ \cup {i}], 0)})

----------------------------------------------------------------------------
(* Inodes and vnodes *)

sfs_sync_inode(f, i) ==
  IF i \notin f.dirty THEN {Ok(f, 0)}
  ELSE sfs_writeblock([f EXCEPT !.dirty = @ \ {i}], i,
                      [Zeroed EXCEPT !.ino = f.inode[i]], 0)

\* The vnode structure of inode i is given up.
Unload(f, i) ==
  [f EXCEPT !.inode[i] = NULL, !.refs[i] = 0, !.dirty = @ \ {i}]

\* Mutant: nobody can have picked up the vnode meanwhile.
sfs_reclaim_unchecked(f, i) ==
  LET erase == f.inode[i].linkcount = 0 IN
  Then(IF erase THEN sfs_itrunc(f, i, 0) ELSE {Ok(f, 0)}, LAMBDA o :
    Then(sfs_sync_inode(o.fs, i), LAMBDA s :
      {Ok(Unload(IF erase THEN sfs_bfree(s.fs, {i}) ELSE s.fs, i), 0)}))

\* An error leaves the vnode loaded, with its reference and no holder.
sfs_reclaim(f, i) ==
  IF f.refs[i] # 1 THEN {Ok([f EXCEPT !.refs[i] = @ - 1], 0)}
  ELSE LET erase == f.inode[i].linkcount = 0 IN
       Then(IF erase THEN sfs_itrunc(f, i, 0) ELSE {Ok(f, 0)}, LAMBDA o :
         Then(sfs_sync_inode(o.fs, i), LAMBDA s :
           {Ok(Unload(IF erase THEN sfs_bfree(s.fs, {i}) ELSE s.fs, i), 0)}))

\* VOP_DECREF inside an operation, under vfs_biglock.
vnode_decref(f, i) ==
  IF f.refs[i] > 1 THEN {Ok([f EXCEPT !.refs[i] = @ - 1], 0)}
  ELSE sfs_reclaim(f, i)

\* The same outcome reported with this error or success and value.
Report(outcomes, err, val) == {[o EXCEPT !.err = err, !.val = val] : o \in outcomes}

\* sfs_loadvnode's search panics at a vnode in an unallocated block.  (The
\* code looks at the vnodes before the one it wants, this at all of them.)
SearchVnodes(f) == Check(f, \A i \in Blocks : f.inode[i] # NULL => i \in f.freemap)

\* A vnode for inode i: the one loaded, or one loaded from the disk.
sfs_loadvnode(f, i) ==
  LET searched == SearchVnodes(f) IN
  IF f.inode[i] # NULL THEN {Ok([searched EXCEPT !.refs[i] = @ + 1], i)}
  ELSE LET ino == f.disk[i].ino
       IN {Ok(Check([searched EXCEPT !.inode[i] = ino, !.refs[i] = 1],
                    i \in f.freemap /\ ino.type = "FILE"), i)}
            \cup IoFails(searched)

\* A new inode, loaded with SFS_TYPE_FILE forced on its zeroed block.
sfs_makeobj(f) ==
  Then(sfs_balloc(f), LAMBDA o :
    LET i == o.val
        ino == o.fs.disk[i].ino
        searched == SearchVnodes(o.fs)
    IN {Ok(Check([searched EXCEPT !.inode[i] = [ino EXCEPT !.type = "FILE"],
                                  !.refs[i] = 1, !.dirty = @ \cup {i}],
                 ino.type = "INVAL"), i)}
         \cup IoFails(sfs_bfree(searched, {i})))

----------------------------------------------------------------------------
(* The directory *)

Used(f) == {s \in Slots : f.dirents[s] # NULL}
SlotsOf(f, x) == {s \in Used(f) : f.dirents[s].name = x}

\* sfs_dir_findname: the slot of name x, 0 if there is none.
sfs_dir_findname(f, x) ==
  LET found == SlotsOf(f, x)
      checked == Check(f, Cardinality(found) <= 1)
  IN {Ok(checked, IF found = {} THEN 0 ELSE Max(found))} \cup IoFails(f)

\* sfs_writedir through sfs_metaio: all entries fit in the first block.
sfs_writedir(f, slot, entry) ==
  Then(sfs_bmap(f, SFS_ROOTDIR_INO, 0, TRUE), LAMBDA o :
    LET size == o.fs.inode[SFS_ROOTDIR_INO].size
        sized == IF slot <= size THEN o.fs
                 ELSE [o.fs EXCEPT !.inode[SFS_ROOTDIR_INO].size = slot,
                                   !.dirty = @ \cup {SFS_ROOTDIR_INO}]
    IN IoFails(o.fs) \cup {Ok([sized EXCEPT !.dirents[slot] = entry], slot)}
         \cup IF WriteErrors /\ fs.errors < MaxErrors
                THEN {Ok(ErrorCounted(sized), slot)} ELSE {})

\* The last empty slot below the directory's size, or a new one.
EmptySlot(f) ==
  LET size == f.inode[SFS_ROOTDIR_INO].size
      empty == (1 .. size) \ Used(f)
  IN IF empty = {} THEN size + 1 ELSE Max(empty)

sfs_dir_link(f, x, i) ==
  Then(sfs_dir_findname(f, x), LAMBDA o :
    IF o.val # 0 THEN {Err(o.fs)}
    ELSE sfs_writedir(o.fs, EmptySlot(o.fs), [name |-> x, ino |-> i]))

sfs_dir_unlink(f, slot) == sfs_writedir(f, slot, NULL)

\* sfs_lookonce: the vnode of the file named x; val is its slot.
sfs_lookonce(f, x) ==
  Then(sfs_dir_findname(f, x), LAMBDA o :
    IF o.val = 0 THEN {Err(o.fs)}
    ELSE LET i == o.fs.dirents[o.val].ino
         IN Then(sfs_loadvnode(o.fs, i), LAMBDA v :
              {Ok(Check(v.fs, v.fs.inode[i].linkcount # 0), o.val)}))

----------------------------------------------------------------------------
(* Vnode operations; val of an outcome is the inode handed back *)

\* The number of links changes by n.
AddLinks(f, i, n) ==
  [Check(f, f.inode[i].linkcount + n >= 0)
     EXCEPT !.inode[i].linkcount = @ + n, !.dirty = @ \cup {i}]

sfs_lookup(f, x) ==
  Then(sfs_lookonce(f, x), LAMBDA o : {Ok(o.fs, o.fs.dirents[o.val].ino)})

\* The part of sfs_creat that makes the file.
CreateFile(f, x) ==
  Then(sfs_makeobj(f), LAMBDA n :
    LET i == n.val
        linked == sfs_dir_link(n.fs, x, i)
    IN UNION {IF o.err THEN Report(vnode_decref(o.fs, i), TRUE, 0)
              ELSE {Ok(AddLinks(o.fs, i, 1), i)} : o \in linked})

sfs_creat(f, x) ==
  Then(sfs_dir_findname(f, x), LAMBDA o :
    IF o.val # 0 THEN sfs_loadvnode(o.fs, o.fs.dirents[o.val].ino)
    ELSE CreateFile(o.fs, x))

sfs_link(f, x, i) ==
  Then(sfs_dir_link(f, x, i), LAMBDA o : {Ok(AddLinks(o.fs, i, 1), i)})

sfs_remove(f, x) ==
  Then(sfs_lookonce(f, x), LAMBDA v :
    LET i == v.fs.dirents[v.val].ino IN
    UNION {vnode_decref(IF o.err THEN o.fs ELSE AddLinks(o.fs, i, -1), i) :
             o \in sfs_dir_unlink(v.fs, v.val)})

\* Mutant: the link count is left raised when the old name stays.
RenameRecover_count(f, i, slot2) ==
  UNION {IF o.err THEN {Ok([o.fs EXCEPT !.halted = TRUE], 0)}
         ELSE vnode_decref(o.fs, i) : o \in sfs_dir_unlink(f, slot2)}

\* Error recovery in sfs_rename; when that fails too the kernel panics.
RenameRecover(f, i, slot2) ==
  UNION {IF o.err THEN {Ok([o.fs EXCEPT !.halted = TRUE], 0)}
         ELSE vnode_decref([o.fs EXCEPT !.inode[i].linkcount = @ - 1], i) :
           o \in sfs_dir_unlink(f, slot2)}

sfs_rename(f, x, y) ==
  Then(sfs_lookonce(f, x), LAMBDA g :
    LET slot1 == g.val
        i == g.fs.dirents[slot1].ino
    IN UNION {IF two.err THEN vnode_decref(two.fs, i)
              ELSE LET up == AddLinks(two.fs, i, 1) IN
                UNION {IF o.err THEN RenameRecover(o.fs, i, two.val)
                       ELSE vnode_decref(AddLinks(o.fs, i, -1), i) :
                         o \in sfs_dir_unlink(up, slot1)} :
                two \in sfs_dir_link(g.fs, y, i)})

\* sfs_io, writing n blocks from block k on; val is the block after the last
\* one written.  The length is adjusted when it ends, by an error or not.
RECURSIVE WriteBlocks(_, _, _, _, _)
WriteBlocks(f, i, k, n, v) ==
  IF n = 0 THEN {Ok(f, k)}
  ELSE LET written ==
             Then(sfs_bmap(f, i, k, TRUE), LAMBDA o :
               sfs_writeblock(o.fs, o.val, [Zeroed EXCEPT !.data = v], k)
                 \cup IoFails(o.fs))
       IN UNION {IF o.err THEN {[o EXCEPT !.val = k]}
                 ELSE WriteBlocks(o.fs, i, k + 1, n - 1, v) : o \in written}

sfs_io(f, i, k, n, v) ==
  {IF o.val > k /\ o.val > o.fs.inode[i].size
     THEN Ok([o.fs EXCEPT !.inode[i].size = o.val, !.dirty = @ \cup {i}], 0)
     ELSE o : o \in WriteBlocks(f, i, k, n, v)}

----------------------------------------------------------------------------
(* What threads do *)

Up == ~fs.panic /\ ~fs.halted
Running(t) == pc[t] = "ready" /\ Up

\* vfs_open: the vnode handed back is held.
OpenBy(t, outcomes) ==
  /\ Running(t) /\ fd[t] = NULL
  /\ \E o \in outcomes :
       /\ fs' = o.fs
       /\ fd' = [fd EXCEPT ![t] = IF o.err THEN NULL ELSE o.val]
  /\ UNCHANGED pc

Lookup(t, x) == OpenBy(t, sfs_lookup(fs, x))

Creat(t, x) == OpenBy(t, sfs_creat(fs, x))

\* An operation that opens and closes nothing.
Do(outcomes) ==
  /\ Up
  /\ \E o \in outcomes : fs' = o.fs
  /\ UNCHANGED <<pc, fd>>

\* An operation on the file that t has open.
DoOpen(t, outcomes) == pc[t] = "ready" /\ fd[t] # NULL /\ Do(outcomes)

\* Calls by name come from any process.
Remove(x) == Do(sfs_remove(fs, x))

Rename(x, y) == Do(sfs_rename(fs, x, y))

Link(t, x) == DoOpen(t, sfs_link(fs, x, fd[t]))

Write(t, k, n, v) == DoOpen(t, sfs_io(fs, fd[t], k, n, v))

\* vfs_open with O_TRUNC.
Truncate(t) == DoOpen(t, sfs_itrunc(fs, fd[t], 0))

\* VOP_FSYNC of a loaded inode; sfs_sync does it for each.
Fsync(i) == i \in fs.dirty /\ Do(sfs_sync_inode(fs, i))

\* vfs_close: VOP_DECREF, which looks at the count without vfs_biglock.
Close(t) ==
  /\ Running(t) /\ fd[t] # NULL
  /\ IF fs.refs[fd[t]] > 1
       THEN /\ fs' = [fs EXCEPT !.refs[fd[t]] = @ - 1]
            /\ fd' = [fd EXCEPT ![t] = NULL]
            /\ UNCHANGED pc
       ELSE /\ pc' = [pc EXCEPT ![t] = "reclaim"]
            /\ UNCHANGED <<fs, fd>>

\* VOP_RECLAIM follows.
Reclaim(t) ==
  /\ pc[t] = "reclaim" /\ Up
  /\ \E o \in sfs_reclaim(fs, fd[t]) : fs' = o.fs
  /\ pc' = [pc EXCEPT ![t] = "ready"]
  /\ fd' = [fd EXCEPT ![t] = NULL]

Next ==
  \/ \E t \in Threads :
       \/ \E x \in Names : Lookup(t, x) \/ Creat(t, x) \/ Link(t, x)
       \/ \E k \in FileBlocks, n \in 1 .. MaxBlocks, v \in Values : Write(t, k, n, v)
       \/ Truncate(t) \/ Close(t) \/ Reclaim(t)
  \/ \E x \in Names : Remove(x)
  \/ \E x, y \in Names : Rename(x, y)
  \/ \E i \in Blocks : Fsync(i)

Spec == Init /\ [][Next]_vars

----------------------------------------------------------------------------
(* Properties *)

Loaded == {i \in Blocks : fs.inode[i] # NULL}

\* The inode as the next load would find it: in memory or on the disk.
Inode(i) == IF i \in Loaded THEN fs.inode[i] ELSE fs.disk[i].ino

Named == {fs.dirents[s].ino : s \in Used(fs)}

\* Inodes in use: the root, those with a name, those loaded.
Inodes == {SFS_ROOTDIR_INO} \cup Named \cup Loaded

\* Counters keep their width and references their range.
TypeOK ==
  /\ fs.freemap \subseteq Blocks /\ fs.dirty \subseteq Loaded
  /\ \A i \in Loaded : /\ fs.inode[i].linkcount \in 0 .. Cardinality(Names)
                       /\ fs.refs[i] \in Nat
  /\ pc \in [Threads -> {"ready", "reclaim"}]
  /\ fd \in [Threads -> Blocks \cup {NULL}]

(* None of sfs's own checks fails, whatever I/O errors came before: a mapped *)
(* block is marked in use, an inode is loaded from an allocated block and    *)
(* has a valid type, a name does not lead to a file with link count 0.       *)
ChecksHold == ~fs.panic

Pointers(i) ==
  LET ino == Inode(i) IN
  [direct |-> {ino.direct[k] : k \in Direct} \ {0},
   indirect |-> {ino.indirect} \ {0},
   entries |-> IF ino.indirect = 0 THEN {} ELSE Entries(fs.disk[ino.indirect].idb)]

Owned(i) == Pointers(i).direct \cup Pointers(i).indirect \cup Pointers(i).entries

NonZero(f) == {k \in DOMAIN f : f[k] # 0}

\* How many pointers inode i holds.
PointerCount(i) ==
  LET ino == Inode(i) IN
  Cardinality(NonZero(ino.direct))
    + IF ino.indirect = 0 THEN 0
      ELSE 1 + Cardinality(NonZero(fs.disk[ino.indirect].idb))

(* Every block in use is used once: as an inode, or by one pointer of one    *)
(* inode; and every other block is free.  Allocation, truncation and erasure *)
(* keep this even when they stop half way.                                   *)
BlocksUsedOnce ==
  /\ fs.freemap = Reserved \cup Inodes \cup UNION {Owned(i) : i \in Inodes}
  /\ \A i \in Inodes :
       /\ Owned(i) \cap (Reserved \cup Inodes) = {}
       /\ Cardinality(Owned(i)) = PointerCount(i)
       /\ \A j \in Inodes \ {i} : Owned(i) \cap Owned(j) = {}

(* A file's link count is the number of its names, also after a link, rename *)
(* or remove that failed; sfs_rename's panic excepted.                       *)
LinksCounted ==
  fs.halted \/ \A i \in Inodes \ {SFS_ROOTDIR_INO} :
    Inode(i).linkcount = Cardinality({s \in Used(fs) : fs.dirents[s].ino = i})

(* A vnode has a reference for each thread that holds it, and one more only  *)
(* if an earlier reclaim of it failed: the vnode a thread holds is never     *)
(* unloaded under it.  sfs_rename's panic excepted.                          *)
RefsCounted ==
  fs.halted \/ \A i \in Blocks \ {SFS_ROOTDIR_INO} :
    LET holders == Cardinality({t \in Threads : fd[t] = i}) IN
    /\ fs.refs[i] \in {holders, holders + (IF fs.errors > 0 THEN 1 ELSE 0)}
    /\ fs.refs[i] > 0 <=> i \in Loaded

\* Reading file block k of inode i.
ReadBlock(i, k) ==
  LET ino == Inode(i)
      b == IF k < SFS_NDIRECT THEN ino.direct[k]
           ELSE IF ino.indirect = 0 THEN 0
           ELSE fs.disk[ino.indirect].idb[k - SFS_NDIRECT]
  IN IF b = 0 THEN 0 ELSE fs.disk[b].data

\* A thread's file is open until the last close has been decided.
Live(i) == i \in Named \/ \E t \in Threads : fd[t] = i

Flat == INSTANCE FlatFs WITH
  Files <- Blocks,
  Values <- Values,
  dir <- [x \in Names |-> IF SlotsOf(fs, x) = {} THEN NULL
                          ELSE fs.dirents[Max(SlotsOf(fs, x))].ino],
  length <- [i \in Blocks |-> IF Live(i) THEN Inode(i).size ELSE 0],
  data <- [i \in Blocks |-> [k \in FileBlocks |->
             IF Live(i) THEN ReadBlock(i, k) ELSE 0]],
  open <- fd

(* Until rename gives up, every step is one of FlatFs: what was written is   *)
(* read back through any name, a new file is empty and shows nothing of a    *)
(* removed one, and a file lives as long as something leads to it.           *)
ImplementsFlatFs == Flat!Init /\ [][fs'.halted \/ Flat!Next]_(Flat!vars)

(* Taken together: no check of sfs's own fails, and a vnode is loaded as   *)
(* long as somebody holds it, though reclaim is decided outside the lock.  *)
SfsInv == TypeOK /\ ChecksHold /\ RefsCounted

============================================================================
