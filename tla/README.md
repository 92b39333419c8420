# TLA+ models of the OS/161 kernel in group_project

The repository holds a course's OS/161 kernel: a small Unix-like kernel for the
MIPS simulator System/161, with the course's own locks, condition variables,
shared buffer, linked list, processes and file system calls. `src/project1` is
an earlier snapshot of the same tree; everything here is about
`src/group_project/src/kern`. Paths below are relative to that directory.

The kernel is preemptive: `hardclock()` calls `thread_yield()` on every tick, so
a thread can lose the cpu at any instruction outside a spinlock. The models
assume nothing about how many cpus there are.

## Inventory

| Component | State | Operations | Interacts with | What is hard | What makes it correct |
|---|---|---|---|---|---|
| Wait channels, `thread/thread.c` | list of sleeping threads | `wchan_sleep`, `wakeone`, `wakeall` | protected by the caller's spinlock; run queue | sleeping and dropping the spinlock must be one step | a sleeper is on one list, once |
| Semaphore, `thread/synch.c` | `sem_count`, channel, spinlock | `P`, `V` | wait channels; interrupt handlers call `V` | overtaking, wrap of an unsigned count | no unit is left unused while threads sleep |
| Lock, condition variable, `thread/synch.c` | `available`, `lk_holder`, channels, spinlocks | `lock_acquire/release`, `cv_wait/signal/broadcast` | everything below | the window inside `cv_wait`; two spinlocks | a Mesa monitor |
| Threads and scheduler, `thread/thread.c` | run queues, zombies, `thread_count` | `thread_fork`, `switch`, `exit`, migration | all | per-cpu lists, IPIs, idle | runnable threads run |
| Processes, `proc/proc.c`, `syscall/{fork,exit,waitpid}_syscall.c`, `main/menu.c` | `Global_Proc_Table`, `GLOBAL_PROC_COUNT`, `struct proc` with parent and child pointers | `proc_create`, `fork`, `_exit`, `waitpid`, start from the menu | `GPT_lock`, a cv per table entry, the heap | pointers to processes that may be freed; two locks and none for one piece of state; fork returns before it has recorded the child | the table names every process; waiters are told the code; slots are freed once |
| File tables, `io/file_table.c`, `syscall/{open,close,dup2}_syscall.c` | local tables, global table, `File`, `File_Desc`, `vn_refcount` | `open`, `close`, `dup2`, copy at fork, close at exit | the vnode layer counts references, the loader takes some too | who is last is decided by a count others change without the lock | nobody frees what is in use; one `File` per vnode |
| File data, `syscall/{read,write,lseek}_syscall.c` | offset, `desc->lk`, `file->lk` | `read`, `write`, `lseek` | VFS, console | blocking while holding two locks | offsets and data move together |
| `execv`, loader, `syscall/execv_syscall.c`, `runprogram.c` | address space, argument buffers | `execv`, `runprogram` | VFS, VM | many partial failures | old image kept on failure |
| Shared buffer, `shared_buffer/` | ring, `in`, `out`, `count` | produce, consume | monitor | overtaking, two cvs | bounded FIFO, nobody sleeps for ever |
| Linked list, `concurrent_list/` | doubly linked sorted list | prepend, insert, remove head | lock | pointers at the ends | list equals the sorted sequence |
| Semaphore file system, `fs/semfs/` | counts, directory, vnodes | read = P, write = V, truncate, create, remove, reclaim | monitor, VFS, the locks of `read`/`write` | wakeups only when the count was 0; reclaim races | counts, names, vnodes and sleepers consistent; a V returns |
| Kernel heap, `vm/kmalloc.c` | pages cut into blocks, free lists, pagerefs and their root pages | `kmalloc`, `kfree` | `alloc_kpages` of dumbvm, called without the spinlock | every list may have changed when the spinlock is taken again | blocks do not overlap; lists and counts exact |
| SFS, `fs/sfs/` | freemap, inodes on disk and in vnodes, directory, link and reference counts | `creat`, `lookup`, `link`, `remove`, `rename`, `write`, `truncate`, `fsync`, reclaim | block device, vnode layer | errors in the middle of a call; a full disk; reclaim decided outside the lock | names, lengths and contents as if every call were atomic; no block used twice or leaked |
| Console, `dev/generic/console.c`, `dev/lamebus/lser.c` | two semaphores, input ring, `ls_wbusy`, device registers | `putch`, `getch`, polled printing, interrupt handler | `read`/`write` on standard descriptors, `kprintf` | handler and users without a common lock; polling steals the device | no character lost, overwritten or reordered |
| Hangman, `thread/hangman.c` | wait-for graph | wait, acquire, release | locks, spinlocks | graph read under its own spinlock | reports cycles only |
| Rest of VM and VFS, emufs, other devices, menu, boot, tests, user programs | | | | | came with OS/161 |

`PROJECT.json` lists every component with its status and, under `hazards`, what
is hard to test, at its line.

## Modules

| Module | Models |
|---|---|
| `Wchan` | a wait channel as the sequence of its sleepers |
| `Monitor` | abstract: what `include/synch.h` promises of a lock and its cvs, every operation one step |
| `Synch` | `lock_*` and `cv_*` of `thread/synch.c`, spinlock by spinlock; refines `Monitor` |
| `Semaphore` | `P` and `V` |
| `ProcTable` | process creation, exit and waiting |
| `FileTable` | local and global file tables with the vnode's reference count |
| `Sched` | run queues, switching, idling, inter-processor wakeups, migration, `thread_count` |
| `Heap` | abstract: what `include/lib.h` promises of `kmalloc` and `kfree` |
| `KMalloc` | `vm/kmalloc.c` over the pages of dumbvm; refines `Heap` |
| `SemFs` | `fs/semfs/` under the locks of `read` and `write` |
| `Console` | `dev/generic/console.c` on `dev/lamebus/lser.c`, with `write_std`, `read_stdin` and `con_io` |
| `FlatFs` | abstract: what `include/vnode.h` promises of a file system with one directory |
| `Sfs` | `fs/sfs/` with the vnode layer's reference counts; refines `FlatFs` |
| `BoundedFifo` | abstract: the queue `include/shared_buffer.h` describes |
| `SharedBuffer` | `shared_buffer/shared_buffer.c` on a `Monitor`; refines `BoundedFifo` |
| `SynchProofs` | theorems about `Synch` and `Semaphore`, with the lemmas on wait channels both need |
| `SharedBufferProofs`, `SchedProofs`, `KMallocProofs`, `ProcTableProofs`, `FileTableProofs`, `SemFsProofs`, `ConsoleProofs` | theorems about the module they are named after |
| `MCSynch`, `MCSemaphore`, `MCProcTable`, `MCFileTable`, `MCSharedBuffer`, `MCSched`, `MCKMalloc`, `MCSemFs`, `MCConsole`, `MCSfs` | constants for TLC |

**Synch.** Variables are the fields of `struct lock` and `struct cv`, who holds
each spinlock, and each thread's place in the code (`pc`), the cv of the call it
is in (`arg`) and where `lock_release` returns to (`ret`), because `cv_wait`
calls it. Taking a spinlock is a step; the critical section up to its release,
or up to `wchan_sleep`, is the next one. `wchan_sleep` adds the thread to the
channel and drops the spinlock in one step because `thread_switch` does the
first while it holds the second. A woken thread goes for the spinlock again, as
`wchan_sleep` does before it returns. The `KASSERT`s on the holder are not
guards: `MutualExclusion` says they hold. `HANGMAN_*` calls are left out (they
touch the detector's own state only).

**Semaphore.** The count keeps its width (`MaxCount`): `V` adds one modulo
`MaxCount + 1`, and a count of 0 after it is the failed `KASSERT`, which stops
the kernel (`panicked`).

**ProcTable.** `mem` maps the addresses of `struct proc` to what is there;
`kfree` overwrites, so reading through a stale pointer gives `DEAD`, until
`kmalloc` gives the address to a new process. `entry` is the sequence of all
`pt_entry` records ever made (the code frees none); the table maps pids to
indices in it. What runs under `GPT_lock` is one step, as `Synch` justifies,
and everything outside it is steps of its own: the test of
`GLOBAL_PROC_COUNT`, the insertion, the two halves of the increment,
`thread_fork`, the store into `p_childs`, the read of the pid that fork returns.
`inst` and `passed` are history variables for the properties. Two races in the
code break most of what one would like to say: a child may exit before its
parent has stored it in `p_childs`, and creations that overlap may pass the
process limit together, so that one finds no slot. Nothing keeps them out of the
model. The history variable `raced` says that one of them has happened, and
`ProcInv`, `ExitsSafely` and `WaiterServed` are claimed up to that moment:
whatever else the calls do, in whatever order, they hold. The violation run and
further configurations show the damage afterwards; `WaiterNotForgotten` is
claimed for ever. A call that is refused
before it has changed anything (`ENPROC`, `EMPROC`, `ESRCH`, `ECHILD`,
`EINVAL`, no memory) is no step; its tests are the guards of the step it does
not take. Not in the model: address spaces and trap frames (failures of their
copying are), the working directory, pids beyond the table.

**FileTable.** A descriptor is a pointer to a `File_Desc`, which points to a
`File`, which points to a vnode; fork copies the pointers. The global table's
lock is a variable because `file_destroy` looks at `vn_refcount` and acts on it
in separate steps, between which `vfs_open`, fork, dup2 and the loader change the
count. The local table's lock is left out: only the process' own thread uses
the table. The three standard descriptors are one value `STD`, and the number
of their slots is a constant. Flags and offsets are left out. A reclaimed
vnode's address may be used again, which is `vn_refcount` 0 and then an open.
Device vnodes, which the device table keeps referenced, are a loader that never
closes. `TargetFds` says which descriptors programs close or `dup2` onto, the
standard ones among them. `local_table_copy` counts from slot 3 on, so a fork
after `close(0)` and `open`, or after a `dup2` onto a standard descriptor, copies
a file it does not count. (The children of `testbin/redirect` and `testbin/psort`
replace standard descriptors, but then run `cat`, which does not fork.) The history
variable `miscounted` says that this has happened; the properties are claimed up
to then. Afterwards a close may free what is in use. A step that follows a
pointer to what was freed and not allocated again is `use_freed`, and the
behaviour ends there: the code reads `0xdeadbeef` and faults, spins, or goes on
with a flag that happens to be set, which is not followed. Nor is a freed block
that becomes an object of another kind.

**SharedBuffer.** The lock and its two cvs are an instance of `Monitor`, whose
steps are what `Synch` implements: entering, waiting, signalling and leaving are
a step each, the lines between them one step, since they touch only what the
lock protects. Characters in a new ring are arbitrary. `shared_buffer_destroy`
needs nobody in a call, which is its caller's business (`test_teardown`). A
thread may produce in one call and consume in the next.

**Sched.** A step is what happens under one hold of a run queue lock.
`thread_switch` keeps the lock from where it puts the old thread away to where
the new one runs, except in the idle loop, so an idle processor is modelled as
still standing on the stack of the thread that left it (`curthread` stays, and
`c_isidle` is set). An interrupt can come wherever interrupts are on, between
the lock sections of `thread_consider_migration` too, whose locals are `mig`.
`wchan_wakeall` on `thread_count_wchan` moves its sleepers one by one from a
private list. A freed thread structure has `pc` `"none"` and may be used by the
next fork. `thread_exit` calls `proc_remthread`, and that calls `proc_destroy`
whatever the process, which asserts that it is not `kproc`. So the exit of a
thread of `kproc` stops the kernel (`thread_exit_kproc`, `panicked`), before
`thread_count` is touched: the first thread of a second processor, which ends
`cpu_hatch` with `thread_exit`, and every thread that a kernel test forks. With
more than one processor the kernel therefore does not survive long (the
simulator's configuration has one); what is claimed of two holds up to the
panic, and up to then the two processors interleave in every way. The other
threads are of user processes, and the menu's thread does not exit: `cmd_quit`
stops the machine.

**KMalloc.** Addresses are numbers, so that blocks can overlap if the arithmetic
is wrong. A pageref is a place on a page of pagerefs, the free list of a page
is a sequence of block numbers, `kmalloc_spinlock` is given up around
`alloc_kpages`, so a `kmalloc` is up to five steps. The contents of blocks
(`fill_deadbeef`; guard bands and labels, which are compiled out) are left
out. dumbvm's `free_kpages` does nothing, so pages are only ever used up.

**SemFs.** `open` is creat or lookup, `close` is `vnode_decref` and, in a step of
its own, reclaim. `File.lk` is a variable because `read_from_disk` and
`write_to_disk` hold it across the vnode operation; kernel threads
(`Threads \ UserThreads`) call the vnode operations directly. A count that
would wrap is refused, as the code does. `semfs_remove` and `semfs_reclaim` test
each other's flags under different locks: a last close that falls inside a
remove finds `sems_linked` false and destroys the semaphore whose `sems_lock` the
remove has, which `lock_destroy`'s assertion stops (`semfs_reclaim_busy`). A
creat that gets no directory entry returns 0 without a vnode, which `vfs_open`'s
assertion stops. Both are panics in the model. `getdirentry`, `stat` and the unmount
are left out.

**Console.** The device is external: it transmits one character at a time and
raises its interrupt, and characters are typed at any moment. `wirq` keeps the
three bits of the register, since polled printing clears one and forces
another. The handler's two calls after `ls_lock` is released are steps of their
own. A read ends after `LineLen` characters or a newline. A user may fail
(`user_fail`): a writer's copy from user space, a reader's copy to it after a
character has been taken, and on standard input the allocation of its buffer
before the first.

**Sfs.** Every vnode operation runs under `vfs_biglock`, so it is one action, but
inside it each read of the disk and each allocation may fail. The C functions
are therefore operators from a file system to the set of their outcomes,
chained as the code chains them. sfs's own panics are checks that must hold
(`Check`), the one about every loaded inode that each search of the vnode table
makes among them (`SearchVnodes`). `MaxErrors` is the number of calls during
which accesses may fail, any number of them in such a call. Contents are one
value per block and lengths are in blocks. The buffer of the free map and the
superblock are written at sync only, and the model does not crash: SFS
promises nothing about crashes. The refinement to `FlatFs` says that a call
takes effect at once or not at all, except for a write or truncation that an
error stops.

## Runs

| Run | Shows | Bounds |
|---|---|---|
| `synch` | refinement of `Monitor`, exclusion, no lost wakeup or signal, progress, the inductive invariant | 3 threads, 2 cvs: two sleepers on one cv, or one on each, and an active thread |
| `semaphore` | no unit of the count without a taker, count moves by one, progress, the inductive invariant | 4 threads, count wraps at 4 |
| `proc_table` | until one of fork's two races happens: the table names every running process, child arrays hold running children, the assertions of `_exit` hold, a waiter's slot stays its child's and it gets the code and gets out, dead orphans leave the table; and for ever: no waiter is forgotten | 3 addresses, 4 creations, 5 slots, 2 children: addresses and slots are used again, both limits are met and both races happen |
| `file_table` | until a fork miscounts: no descriptor dangles, every use of a vnode is counted, all descriptors of a vnode share one `File` in the global table, its count is exact, no freed memory is used | 2 processes, 2 vnodes of which one is loaded as a program too, 3 descriptors each, one of them standard and replaced like the others, 2 Files, 2 File_Descs: the global table is full and `open` fails with `ENFILE`, a fork miscounts and freed memory is used |
| `shared_buffer` | refinement of `BoundedFifo`, nobody stranded, never all asleep, progress, the inductive invariant | 4 threads, 2 characters, a ring of 2: indices wrap, waiters of both kinds at once, overtaking |
| `sched` | no thread lost or in two places, no stack shared or freed under a processor, states and `t_cpu` fit, no idle processor with work and no interrupt coming, migration finds what it counted, the menu waits for all it started | 2 processors, 4 thread structures: with the menu up to three others, so a processor has a thread to give away; the first thread of the second processor and others exit and stop the kernel |
| `kmalloc` | refinement of `Heap`, pages and free lists accounted for, pagerefs found again by `kfree`, its assertion on empty roots, no place lost before memory runs out | 2 threads, 5 pages, 2 block sizes that do not divide each other, 2 roots of 2 pagerefs: both roots fill, both threads get a root page at once, memory runs out |
| `semfs` | reference counts, no semaphore freed in use or orphaned, sleepers are those on the cv, only holders move a count, `File.lk` is given back by everyone who is not asleep in a read with it | 3 threads (two through `read` and `write`, so that `File.lk` is contended), 1 name, 2 places, counts to 2: a removed semaphore lives beside its successor, sums overflow, a last close meets a remove |
| `console` | the leave to write is always in one place, input in order, lines whole, nothing overwritten, printing ends | 2 writers and a reader, 1 polled printer, 4 characters typed into a ring of 2: it wraps and overflows |
| `sfs` | refinement of `FlatFs`, sfs's own checks never fail, blocks used once or free, link and reference counts | 2 threads, 2 names, 7 blocks (4 free), 1 direct and 2 indirect blocks per file, errors in one call: the disk fills up inside a call |

Properties that belong together are checked as one named conjunction, with the
type invariant: `SynchInv`, `SemInv` and `BufferInv` are inductive; so are
`ProcInv` with `WaiterServed`, `SemFsInv` with `SemOutlivesUsers` and `ConsoleInv`
with `LinesWhole`; `FileInv`, `SchedInv`, `KMallocInv` and `SfsInv` collect what the
state must agree on between any two steps. Every part has its own definition and comment in its module.

`MCSfs` uses a VIEW: states that differ only in what nothing reads count as one,
namely the inode on disk under a dirty vnode (`sfs_reclaim` and `fsync` write it
before anybody can load it) and inodes and indirect blocks left on free blocks
(`sfs_balloc` clears them). Data left on free blocks is kept apart, since
whether a new file shows it is one of the questions. Threads and names are
symmetric: directory entries are found by slot and names only compared.
`MCFileTable` uses one too: where a `File_Desc` that nobody has any more pointed
to (the next `open` overwrites it), and `num_open_files` of a table that is being
closed (the exit sets it to 0). After a miscount, when the invariants claim
nothing any more, states are told apart only by the processes' places and the
reference counts: what follows is sampled, enough to show that freed memory comes
to be used.

The bounds on counters are `MaxRef` (nobody opens a vnode that has so many
references: leaked ones pile up) and `MinOpen` (nobody closes when
`num_open_files`, which opens do not increment, is so low). Neither count takes
part in the properties beyond its first few values. `MAX_PROCS` bounds the
creations by itself, as in the code. Deadlock is not checked where the system
may stop: all threads waiting on a cv nobody signals or on a semaphore nobody
raises, a failed assertion or panic, all lines printed, memory used up, or the
process limit, which the code never takes back.

**Fairness.** `FairSpec` (`SemFairSpec` in `Semaphore`) says that a thread that can take the next step of a
call it is in eventually takes it: the run queue is round robin and the clock
makes the running thread yield. Nobody is obliged to make a call, to exit, or to
release a lock. Under it: a free lock that is wanted is taken (not by any
particular thread: woken threads can be overtaken for ever), spinlocks are
released, units of a semaphore and characters or places of the shared buffer do
not lie unused while threads sleep for them, and a
parent whose awaited child exits gets out of `waitpid`, or one of fork's races has
happened. In `SemFs` the same
holds of a thread in a call (a reader asleep on the cv is not obliged to
anything): `File.lk` is given back, unless its holder sleeps in a read or the
kernel has stopped. That a V returns is false as soon as two users share the
file: the violation run below. In `Console` the interrupt handler and the device's
transmission are fair too, as the hardware is, and neither typing nor a failing
copy is: printing ends. `Sched`, which is what justifies this fairness, is
checked for safety: that an idle processor with work has an interrupt coming,
and that no thread is lost.

Violation runs, each with a finding in `PROJECT.json`:

| Run | Shows |
|---|---|
| `proc_child_first` | a child that exits before `sys_fork` has stored it in `p_childs` leaves a pointer to freed memory there, and the parent's exit fails |
| `semfs_file_lock` | a read of a semaphore that blocks sleeps with `File.lk` held; the write that would wake it waits for that lock for ever |

**Further configurations.** These are kept beside the runs; TLC finds the named
property violated, unless it is said to hold.

| Configuration | Shows |
|---|---|
| `MCProcTableRaces.cfg` | after the races too `WaiterNotForgotten` and `EntryInOneSlot` hold (`WaitersNotForgotten` proves it) |
| `MCProcTableForkPid.cfg` | `ForkReturnsChild`: the child exits after `sys_fork` has stored it and is freed before its pid is read, so fork returns what the freed block holds |
| `MCProcTableCount.cfg` | `TableNamesProcess`: creations that overlap pass the process limit together; one process gets no slot and no pid |
| `MCProcTableWaitpid.cfg` | `WaitpidAfterExit`: `waitpid` answers `ECHILD` for a child that has exited already |
| `MCFileTableSingle.cfg` | one process that replaces its standard descriptor too: `NoDanglingDescriptor` and `RefsCounted` hold |
| `MCFileTableStd.cfg` | `RefsCounted`: `close(0)`, `open`, `fork`: the file in slot 0 is copied and not counted |
| `MCFileTableExec.cfg` | `GlobalFilesOpen`: a last close that meets the loader leaves a `File` without a vnode in the global table |
| `MCSemFsRemove.cfg` | `NeverPanics`: a last close inside a remove fails the assertion of `lock_destroy`. Only the kernel's file system tests call `vfs_remove` |
| `MCSemFsWakeup.cfg` | `UnitsHaveReaders`: `semfs_wakeup` is silent when the count is above 0, so two writes before the woken reader runs wake one of two readers, and the other sleeps on with a unit there |
| `MCSfsRetry.cfg` | `ImplementsFlatFs` when the device may refuse writes: `sfs_rwblock` (`sfs_io.c:82`) retries with a uio that `lhd_io` (`lhd.c:226`) has consumed already, writes nothing and returns success, so a creat returns a file without a name |

## Proofs

For every value of the constants: any sets of threads, cvs, processes, vnodes
and names, tables, rings and lines of any size. All but `TypedInOrder` need no
more than what the modules assume of their constants; none assumes an order of
events that the code does not enforce.

* `SynchInvariant`: `SynchInv` always holds. It is `TypeOK` with: the place of
  each thread determines whether it is the holder (`LockOwned`), which spinlocks
  it has (`SpinlocksOwned`), that everybody on a channel is asleep there, once
  (`SleepersAsleep`), and `NoLostWakeup`. Mutual exclusion alone is not
  inductive: that the critical section of `lock_acquire` is alone with the
  fields needs the spinlock's owner, and that a wakeup finds a thread that is
  really asleep needs the channels.
* `SynchMutualExclusion`, `SynchNoLostWakeup`: parts of it.
* `SynchNoMissedSignal`: a step argument. While a signaller has the cv's
  spinlock nobody is between freeing the lock and the channel
  (`NobodyInBetween`), so whoever counts as waiting is on the channel.
* `SynchImplementsMonitor`: the holder maps to `lk_holder`, the waiting threads
  to those on the channel and those inside `cv_wait` that have freed the lock.
  Taking the lock is `Enter`, the critical section of `lock_release` is `Exit`
  or `Wait`, those of signal and broadcast are `Signal` and `Broadcast`, all
  other steps stutter.
* `SemaphoreInvariant`, `SemaphoreUnitsHaveTakers`: while threads sleep there
  are at least as many contenders in `P` as units. `V` adds one of each; a `P`
  takes one of each. `Threads` is assumed finite, to count.
* `SemaphoreCountMovesByOne`: a step argument over the same invariant: `P` finds
  the count above 0 when it takes, and a `V` that would wrap stops the kernel.
* `SharedBufferInvariant`, `SharedBufferNotAllAsleep`: while consumers wait, the
  characters are at most as many as the awake consumers and the producers about
  to signal; dually for places. A signal moves one thread in for the one that
  leaves. If both kinds wait and nobody is awake the ring is empty and full,
  which a size of at least one excludes.
* `SharedBufferImplementsFifo`: the queue is the `count` slots from `out` on.
  Writing at `in`, which is `(out + count) % size` (`RingShape`), appends;
  moving `out` on is `Tail`.
* `ConsoleSafe`, `LinesKeptWhole`, `DeviceNotOverrun`: the leave to write exists
  once: in `cs_wsem`, with a user about to call `lser_write`, with the busy
  device, or with the handler before `con_start` (`OneLeaveToWrite`). That alone
  is not kept by a step: polled printing clears and forces bits of the register,
  so `DeviceAgrees` ties the device, `ls_wbusy` and the printer that has
  `ls_lock` together. `LinesWhole` needs the user locks (`TransfersLocked`) and
  that nobody of the same route printed since the user began (`LineUnderWay`).
* `SchedCorrect`, `IdleProcessorsTold`, `VictimsStay`, `MenuWaits`: any number of
  processors. None of `OnePlace`, `StackPrivate` and `StateFitsPlace` is kept by
  a step without the others, and the three together do not say where a thread
  is. The inductive invariant (`PlaceInv`) does: `t_state`, `pc` and `t_cpu` of
  a thread determine the one list it is on, or the processor it runs on
  (`Agree`), and a new thread has one creator (`ForkInv`). `Agree` is stated of
  values, not of the variables, so that it can speak of the middle of
  `thread_switch`: the old thread put away, the next not yet chosen, which is
  the state of an idle processor. Each way into a switch is shown to reach that
  state (`PutReadyLemma`, `PutSleepLemma`, `PutZombieLemma`) and the way out
  (`ResumeLemma`) is proved once. A migration keeps the victims and the run
  queue of a processor disjoint and together complete; that the thread a
  processor stands on is never given away is `PassOverLemma`. `VictimsAreThere`
  holds because only the processor itself takes threads off its queue.
  `thread_count` is one more than the threads between being counted in by their
  creator and counting themselves out (`Counted`), a set that only `thread_fork`
  adds to and `thread_exit` takes from: a thread that was never counted in is of
  `kproc`, and its exit stops the kernel before it counts. The menu forks when it
  is alone, so that the count it notes is 1, and when it sees 1 again nobody is
  left.
* `HeapRefined`, `HeapConsistent`, `PlacesNotLost`: any block sizes that grow and
  fit a page, any number of pages, roots and places. The inductive invariant
  (`IInv`) says what `checksubpages` does not: a page is described by at most
  one pageref and by none while a call still looks for one (`PagesApart`); what
  a client has is a block of a described page that is not free, or whole pages
  that nothing else is on, and different ones do not overlap (`OwnedInv`); a
  place marked in use is a listed pageref's or one call's (`PlacesInv`). The
  hard part is `allocpagerefpage`, which gives up the spinlock with a place
  taken in a root that has no page yet. That another call which finds the root
  filled still has its place there needs that roots get their pages in order
  and a page under way is no root's (`RootsInv`). That a root without a page is
  never passed over as full, so that `freepageref`'s assertion holds, is
  counting: its places belong to calls under way, and there are at most as many
  threads as places on a page (256 in the code; the module assumes it). The
  refinement follows from the invariant before and after a step: a step adds at
  most one block, and the new state says it is apart from all others.
* `WaitersNotForgotten`: after the races of the process table too. The target
  of a sleeper in `waitpid` has not `termed`, that of a woken one has, and an
  entry is in one slot. With the types and that a waiter has a target at all
  this is inductive (`RaceInv`): an exit sets `termed` and wakes in one hold of
  `GPT_lock`, and only a new entry is put into a slot.

The others are about parts in which the code has a race or a mistake. The model
has it too, and a history variable or a panic tells when it has happened. The
theorems are about all behaviours; what they say of one that meets the mistake is
about the time before it, and so that nothing but this one mistake can do the
damage:

* `ProcTableSafe`, `WaitersServed`, `ExitNeverPanics`: until `raced`. No theorem
  is about the pid fork returns: it may be stale (`MCProcTableForkPid.cfg`).
  `ProcInv` and `WaiterServed` are inductive together: that `waitpid` clears the
  right slot needs the child arrays and the table to agree, and that they still
  agree afterwards needs the slot to have been the waiter's own child's. Where a
  fork is between its steps is part of it (`ForkInProgress`).
* `VnodeRefsCounted`, `DescriptorsAlive`, `FileTableSafe`: until `miscounted`,
  that is until a fork while an ordinary file is in a standard slot; files may be
  put there before, and programs that do not fork afterwards are covered
  throughout. `MCFileTableStd.cfg` is what comes next. None of the three is
  inductive. That
  the last close frees nobody's `File` follows from the references of the vnode
  being at least its users (`RefsCounted`), which needs that files in use are in
  the global table, once, and two never stand for one vnode (`FilesListed`),
  that what a call read before it lost the lock is still there (`ArgsCurrent`),
  and that whoever is about to remove a `File` is alone with it (`CloserAlone`).
* `SemFsSafe`, `OpenSemaphoresLive`, `CountsAreHolders`: always, since a last
  close inside a remove stops the kernel before it has freed anything. `SemFsInv`
  alone is not inductive, since a last close decides by `sems_hasvnode` and
  `sems_linked` whether to free; `SemOutlivesUsers` alone says nothing of who is
  counted.
* `TypedInOrder`, when all readers come by one route (`OneReaderRoute`): readers
  of standard input and of `con:` hold different locks and `getch` takes none.
  The ring is compared with the history place by place (`StoredInOrder`), from
  which the sequence equation of `InputInOrder` follows.

Assumptions on constants: `NULL`, `DEAD`, `STD` and `FREED` differ from each
other and from threads, processes, files, numbers and codes; counts are
naturals, the initial one at most the maximal one; rings and tables have at
least one place, the console's ring two (it keeps one empty); writers, readers
and polled printers are different threads; threads, processes and users are
finitely many where they are counted; block sizes grow and are at most
`PAGE_SIZE`, and there are no more threads than pagerefs on a page.

Only model-checked: liveness (all `~>` and `<>` properties), and everything
about `Sfs`. Its operations are operators from a file system to the set of their
outcomes, chained by an operator that takes an operator (`Then`) and, for the
blocks of a write, by a recursive one (`WriteBlocks`): the provers can do
neither, and written out as steps a call would no longer be the one action it
is under `vfs_biglock`.

## Plan

Done: inventory; `Synch`, `Semaphore`, `ProcTable`, `FileTable`, `SharedBuffer`,
`Sched`, `KMalloc`, `SemFs`, `Console`, `Sfs`.
Theorems about `Synch`, `Semaphore`, `SharedBuffer`, `ProcTable`, `FileTable`,
`SemFs`, `Console`, `Sched` and `KMalloc`.

1. Lemmas on the outcomes of `Sfs`'s operations, once `WriteBlocks` is a recursive
   function, towards `BlocksUsedOnce`.
2. The file offset with `lseek`; `lhd`'s sector loop; hangman's graph.

## Not modelled

Sequential code without shared state: dumbvm's address spaces and faults,
`execv` and the loader beyond its references to vnodes, path parsing, boot and
menu beyond starting programs, user programs. The linked list: each of its
operations runs under `list->lock` from end to end, so a model would be its
pointer code again, which its own test exercises. The file offset and `lseek`:
fields under `desc->lk`. Hangman: compiled out by default. emufs, and devices
other than the console: register protocols of the simulator. Of SFS: mounting,
unmounting, `sfs_sync` and writing the superblock and free map. `whalemating.c`, `stoplight.c` and the
reader-writer lock are empty. Known and not claimed by any property: the limit
on children counts all forks ever made (`p_num_childs` is not decremented,
though `design/design-choices.md` says "already 32 children"), the limit on
processes counts all creations since boot, `num_open_files` of a local table is
not incremented by `open`, `waitpid` does not bound the pid it indexes the table
with, a fork that fails after `proc_create` leaves its entry in the table, `shared_buffer_destroy` keeps its two cvs allocated
(`shared_buffer.h` says "frees all allocated memory"), errors of
`global_table_open_file` leak the vnode's reference,
`sfs_itrunc` to a length that ends in or just before the indirect block keeps
the first block past it (`blocklen < baseblock+j`; the kernel only ever passes
0); `sfs_sync` ignores what `VOP_FSYNC` returns; lines printed through
`write_std` and through `con:` mix, as their locks differ.
