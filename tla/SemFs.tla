------------------------------- MODULE SemFs -------------------------------
(***************************************************************************)
(* The semaphore file system "sem:" (fs/semfs): a directory of names, a    *)
(* table of semaphores, and the vnodes through which the semaphores are    *)
(* used.  open is VOP_CREAT or VOP_LOOKUP, close is VOP_DECREF and, for    *)
(* the last reference, VOP_RECLAIM; read is P(), write is V().             *)
(*                                                                         *)
(* Three locks order the steps.  semfs_dirlock is held over a whole        *)
(* creat, remove or lookup, semfs_tablelock over each access to the two    *)
(* tables, sems_lock over each turn of read, write and truncate.  Every    *)
(* action is one stretch between two of these locks.  semfs_tablelock and  *)
(* vn_countlock are never held across a step, so they need no variable;    *)
(* sems_lock is held across a step by remove alone.                        *)
(*                                                                         *)
(* A semaphore object is named by its place in semfs_sems: it enters the   *)
(* table when it is made and leaves it when it is destroyed.  The root     *)
(* directory's own vnode, which vfs_lookup takes and drops around each     *)
(* call by the same code, is not represented.                              *)
(***************************************************************************)
EXTENDS Integers, FiniteSets, FiniteSetsExt, SequencesExt

CONSTANTS
  Threads,      \* kernel threads, each with at most one semaphore open
  UserThreads,  \* those that come through read() and write(), under File.lk
  Names,        \* file names in "sem:"
  MaxSems,      \* places the table may grow to
  CountMax,     \* the largest unsigned: sems_count wraps past it
  Amounts,      \* byte counts passed to read and write
  NoMemory,     \* allocations in creat that may fail: "vnode", "dent"
  NULL          \* no semaphore, no vnode

Semaphores == [count : 0 .. CountMax, hasvnode : BOOLEAN, linked : BOOLEAN]

ASSUME SemFsAssumption ==
  /\ IsFiniteSet(Threads) /\ UserThreads \subseteq Threads
  /\ MaxSems \in Nat \ {0} /\ CountMax \in Nat /\ Amounts \subseteq 0 .. CountMax
  /\ NoMemory \subseteq {"vnode", "dent"}
  /\ NULL \notin Nat \cup Threads \cup Semaphores

Nums == 0 .. MaxSems - 1

VARIABLES
  dents,    \* name -> place of its semaphore, or NULL
  sems,     \* place -> semaphore, or NULL
  refs,     \* place -> vn_refcount of its vnode, 0 when there is none
  cv,       \* place -> the readers asleep on sems_cv, first come first
  dirlock,  \* the thread holding semfs_dirlock, or NULL
  lk,       \* place -> the thread holding File.lk of the open file, or NULL
  pc,       \* thread -> the call it is in
  fd,       \* thread -> place of the semaphore it has open, or NULL
  num,      \* thread -> place that its creat or remove is working on
  resid     \* thread -> uio_resid of its read or write

vars == <<dents, sems, refs, cv, dirlock, lk, pc, fd, num, resid>>

Calls == {"ready", "creat", "remove", "reclaim", "lkread", "lkwrite",
          "read", "asleep", "write", "truncate", "panic"}

(* Every variable keeps its type. *)
TypeOK ==
  /\ dents \in [Names -> Nums \cup {NULL}]
  /\ sems \in [Nums -> Semaphores \cup {NULL}]
  /\ refs \in [Nums -> 0 .. Cardinality(Threads)]
  /\ cv \in [Nums -> Seq(Threads)]
  /\ dirlock \in Threads \cup {NULL}
  /\ lk \in [Nums -> UserThreads \cup {NULL}]
  /\ pc \in [Threads -> Calls]
  /\ fd \in [Threads -> Nums \cup {NULL}]
  /\ num \in [Threads -> Nums \cup {NULL}]
  /\ resid \in [Threads -> 0 .. CountMax]

Init ==
  /\ dents = [x \in Names |-> NULL]
  /\ sems = [n \in Nums |-> NULL]
  /\ refs = [n \in Nums |-> 0]
  /\ cv = [n \in Nums |-> <<>>]
  /\ dirlock = NULL
  /\ lk = [n \in Nums |-> NULL]
  /\ pc = [t \in Threads |-> "ready"]
  /\ fd = [t \in Threads |-> NULL]
  /\ num = [t \in Threads |-> NULL]
  /\ resid = [t \in Threads |-> 0]

----------------------------------------------------------------------------
(* Opening *)

FreeNums == {n \in Nums : sems[n] = NULL}

\* Mutant: a place is taken for empty when no name leads to it.
InsertPlace_unnamed == Min({n \in Nums : \A x \in Names : dents[x] # n})

\* semfs_sem_insert takes the first empty place of the table.
InsertPlace == Min(FreeNums)

\* The semaphore semfs_sem_create makes.
NewSemaphore == [count |-> 0, hasvnode |-> FALSE, linked |-> FALSE]

\* semfs_getvnode: one more reference to the vnode, or a new vnode.
semfs_getvnode(t, n, linked) ==
  /\ refs' = [refs EXCEPT ![n] = @ + 1]
  /\ sems' = [sems EXCEPT ![n].hasvnode = TRUE, ![n].linked = linked]
  /\ fd' = [fd EXCEPT ![t] = n]

\* vfs_open has its vnode: with O_TRUNC it goes on to VOP_TRUNCATE.
Opened(t) ==
  \E trunc \in BOOLEAN :
    pc' = [pc EXCEPT ![t] = IF trunc THEN "truncate" ELSE "ready"]

\* vfs_open of a name that is there: VOP_LOOKUP, or VOP_CREAT without excl.
semfs_lookup(t, x) ==
  /\ pc[t] = "ready" /\ fd[t] = NULL
  /\ dirlock = NULL /\ dents[x] # NULL
  /\ semfs_getvnode(t, dents[x], sems[dents[x]].linked)
  /\ Opened(t)
  /\ UNCHANGED <<dents, cv, dirlock, lk, num, resid>>

\* VOP_CREAT of a new name: under dirlock, the semaphore is made and put in
\* the table.  When that fails nothing has changed.
semfs_creat(t, x) ==
  /\ pc[t] = "ready" /\ fd[t] = NULL
  /\ dirlock = NULL /\ dents[x] = NULL
  /\ FreeNums # {}
  /\ dirlock' = t
  /\ sems' = [sems EXCEPT ![InsertPlace] = NewSemaphore]
  /\ num' = [num EXCEPT ![t] = InsertPlace]
  /\ dents' = [dents EXCEPT ![x] = InsertPlace]
  /\ pc' = [pc EXCEPT ![t] = "creat"]
  /\ UNCHANGED <<refs, cv, lk, fd, resid>>

\* The rest of VOP_CREAT: the vnode, sems_linked, and dirlock released.
semfs_creat_link(t) ==
  /\ pc[t] = "creat"
  /\ semfs_getvnode(t, num[t], TRUE)
  /\ Opened(t)
  /\ dirlock' = NULL
  /\ num' = [num EXCEPT ![t] = NULL]
  /\ UNCHANGED <<dents, cv, lk, resid>>

\* Or an allocation fails and everything is undone.  A missing directory
\* entry leaves result at 0: vfs_open then asserts that there is a vnode.
semfs_creat_fail(t, failed) ==
  /\ pc[t] = "creat"
  /\ sems' = [sems EXCEPT ![num[t]] = NULL]
  /\ dents' = [x \in Names |-> IF dents[x] = num[t] THEN NULL ELSE dents[x]]
  /\ dirlock' = NULL
  /\ num' = [num EXCEPT ![t] = NULL]
  /\ pc' = [pc EXCEPT ![t] = IF failed = "dent" THEN "panic" ELSE "ready"]
  /\ UNCHANGED <<refs, cv, lk, fd, resid>>

----------------------------------------------------------------------------
(* Closing and removing *)

\* VOP_DECREF: the last reference is passed on to VOP_RECLAIM.
vnode_decref(t) ==
  /\ pc[t] = "ready" /\ fd[t] # NULL
  /\ IF refs[fd[t]] > 1
       THEN /\ refs' = [refs EXCEPT ![fd[t]] = @ - 1]
            /\ fd' = [fd EXCEPT ![t] = NULL]
            /\ pc' = pc
       ELSE /\ pc' = [pc EXCEPT ![t] = "reclaim"]
            /\ UNCHANGED <<refs, fd>>
  /\ UNCHANGED <<dents, sems, cv, dirlock, lk, num, resid>>

\* Some remove is between clearing sems_linked and its test of hasvnode, and
\* has sems_lock.
BeingRemoved(n) == \E r \in Threads : pc[r] = "remove" /\ num[r] = n

\* Mutant: the count is not looked at again under semfs_tablelock.
semfs_reclaim_unchecked(t) ==
  LET n == fd[t] IN
  /\ pc[t] = "reclaim"
  /\ ~ (refs[n] = 1 /\ BeingRemoved(n))
  /\ refs' = [refs EXCEPT ![n] = @ - 1]
  /\ sems' = [sems EXCEPT ![n] =
                IF @.linked THEN [@ EXCEPT !.hasvnode = FALSE] ELSE NULL]
  /\ fd' = [fd EXCEPT ![t] = NULL]
  /\ pc' = [pc EXCEPT ![t] = "ready"]
  /\ UNCHANGED <<dents, cv, dirlock, lk, num, resid>>

\* Mutant: sems_linked is not tested, an unlinked semaphore stays.
semfs_reclaim_keeps(t) ==
  LET n == fd[t] IN
  /\ pc[t] = "reclaim"
  /\ ~ (refs[n] = 1 /\ BeingRemoved(n))
  /\ refs' = [refs EXCEPT ![n] = @ - 1]
  /\ sems' = [sems EXCEPT ![n] =
                IF refs[n] > 1 THEN @
                ELSE [@ EXCEPT !.hasvnode = FALSE]]
  /\ fd' = [fd EXCEPT ![t] = NULL]
  /\ pc' = [pc EXCEPT ![t] = "ready"]
  /\ UNCHANGED <<dents, cv, dirlock, lk, num, resid>>

\* VOP_RECLAIM: unless the vnode was found again meanwhile it goes, and with
\* it a semaphore that is in no directory.
semfs_reclaim(t) ==
  LET n == fd[t] IN
  /\ pc[t] = "reclaim"
  /\ ~ (refs[n] = 1 /\ BeingRemoved(n))
  /\ refs' = [refs EXCEPT ![n] = @ - 1]
  /\ sems' = [sems EXCEPT ![n] =
                IF refs[n] > 1 THEN @
                ELSE IF @.linked THEN [@ EXCEPT !.hasvnode = FALSE] ELSE NULL]
  /\ fd' = [fd EXCEPT ![t] = NULL]
  /\ pc' = [pc EXCEPT ![t] = "ready"]
  /\ UNCHANGED <<dents, cv, dirlock, lk, num, resid>>

\* The last close falls inside a remove: lock_destroy asserts that nobody has
\* sems_lock, and the kernel stops before it frees the semaphore.
semfs_reclaim_busy(t) ==
  /\ pc[t] = "reclaim"
  /\ refs[fd[t]] = 1 /\ BeingRemoved(fd[t])
  /\ pc' = [pc EXCEPT ![t] = "panic"]
  /\ UNCHANGED <<dents, sems, refs, cv, dirlock, lk, fd, num, resid>>

\* VOP_REMOVE up to its test of sems_hasvnode: sems_lock stays held.
semfs_remove(t, x) ==
  /\ pc[t] = "ready" /\ dirlock = NULL /\ dents[x] # NULL
  /\ dirlock' = t
  /\ sems' = [sems EXCEPT ![dents[x]].linked = FALSE]
  /\ num' = [num EXCEPT ![t] = dents[x]]
  /\ pc' = [pc EXCEPT ![t] = "remove"]
  /\ UNCHANGED <<dents, refs, cv, lk, fd, resid>>

\* The rest: without a vnode the semaphore goes at once; the name goes.
semfs_remove_finish(t) ==
  LET n == num[t] IN
  /\ pc[t] = "remove"
  /\ sems' = [sems EXCEPT ![n] = IF @.hasvnode THEN @ ELSE NULL]
  /\ dents' = [x \in Names |-> IF dents[x] = n THEN NULL ELSE dents[x]]
  /\ dirlock' = NULL
  /\ num' = [num EXCEPT ![t] = NULL]
  /\ pc' = [pc EXCEPT ![t] = "ready"]
  /\ UNCHANGED <<refs, cv, lk, fd, resid>>

----------------------------------------------------------------------------
(* P, V and truncate *)

\* A call of read() or write(): a user's thread first needs File.lk, which
\* all who have the semaphore open share; a kernel thread calls the VOP.
VopCall(t, user, kernel) ==
  /\ pc[t] = "ready" /\ fd[t] # NULL
  /\ \E size \in Amounts : resid' = [resid EXCEPT ![t] = size]
  /\ pc' = [pc EXCEPT ![t] = IF t \in UserThreads THEN user ELSE kernel]
  /\ UNCHANGED <<dents, sems, refs, cv, dirlock, lk, fd, num>>

sys_read(t) == VopCall(t, "lkread", "read")

sys_write(t) == VopCall(t, "lkwrite", "write")

\* lock_acquire(file->lk), then VOP_READ or VOP_WRITE fetches the semaphore.
lock_file(t) ==
  /\ pc[t] \in {"lkread", "lkwrite"}
  /\ lk[fd[t]] = NULL
  /\ lk' = [lk EXCEPT ![fd[t]] = t]
  /\ pc' = [pc EXCEPT ![t] = IF pc[t] = "lkread" THEN "read" ELSE "write"]
  /\ UNCHANGED <<dents, sems, refs, cv, dirlock, fd, num, resid>>

\* Mutant: a way out that forgets File.lk.
UnlockFile_forgets(t) == lk' = lk

\* The call returns, releasing File.lk if it was taken.
UnlockFile(t) == lk' = [n \in Nums |-> IF lk[n] = t THEN NULL ELSE lk[n]]

SemsLockFree(n) == ~BeingRemoved(n)

\* semfs_wakeup: the readers left asleep when the count of n is about to be
\* newcount, after cv_signal, cv_broadcast or neither.
semfs_wakeup(n, newcount) ==
  IF sems[n].count > 0 \/ newcount = 0 \/ cv[n] = <<>> THEN cv[n]
  ELSE IF newcount = 1 THEN Tail(cv[n]) ELSE <<>>

\* A new count for t's semaphore, the sleepers that are due woken; t returns.
SetCount(t, newcount) ==
  LET n == fd[t]
      asleep == semfs_wakeup(n, newcount)
      woken == Range(cv[n]) \ Range(asleep)
  IN /\ sems' = [sems EXCEPT ![n].count = newcount]
     /\ cv' = [cv EXCEPT ![n] = asleep]
     /\ pc' = [r \in Threads |-> IF r \in woken THEN "read"
                                 ELSE IF r = t THEN "ready" ELSE pc[r]]

\* One turn of semfs_read's loop: take what there is; if more is wanted the
\* count is now 0 and the thread sleeps.
semfs_read(t) ==
  LET n == fd[t]
      consume == Min({resid[t], sems[n].count})
  IN /\ pc[t] = "read" /\ SemsLockFree(n)
     /\ sems' = [sems EXCEPT ![n].count = @ - consume]
     /\ resid' = [resid EXCEPT ![t] = @ - consume]
     /\ IF resid[t] = consume
          THEN /\ pc' = [pc EXCEPT ![t] = "ready"]
               /\ UnlockFile(t)
               /\ cv' = cv
          ELSE /\ pc' = [pc EXCEPT ![t] = "asleep"]
               /\ cv' = [cv EXCEPT ![n] = Append(@, t)]
               /\ lk' = lk
     /\ UNCHANGED <<dents, refs, dirlock, fd, num>>

\* The sum semfs_write computes, in an unsigned.
NewCount(t) == (sems[fd[t]].count + resid[t]) % (CountMax + 1)

\* semfs_write: a sum that wraps is EFBIG and changes nothing.
semfs_write(t) ==
  /\ pc[t] = "write" /\ SemsLockFree(fd[t])
  /\ SetCount(t, IF resid[t] = 0 \/ NewCount(t) < sems[fd[t]].count
                   THEN sems[fd[t]].count ELSE NewCount(t))
  /\ resid' = [resid EXCEPT ![t] = 0]
  /\ UnlockFile(t)
  /\ UNCHANGED <<dents, refs, dirlock, fd, num>>

\* semfs_truncate, which vfs_open calls with length 0.
semfs_truncate(t) ==
  /\ pc[t] = "truncate" /\ SemsLockFree(fd[t])
  /\ SetCount(t, 0)
  /\ UNCHANGED <<dents, refs, dirlock, lk, fd, num, resid>>

----------------------------------------------------------------------------

\* An assertion has failed: the kernel has stopped.
Panicked == \E t \in Threads : pc[t] = "panic"

\* The steps of a call under way.
Continue(t) ==
  /\ ~ Panicked
  /\ \/ semfs_creat_link(t)
     \/ \E failed \in NoMemory : semfs_creat_fail(t, failed)
     \/ semfs_reclaim(t)
     \/ semfs_reclaim_busy(t)
     \/ semfs_remove_finish(t)
     \/ lock_file(t)
     \/ semfs_read(t)
     \/ semfs_write(t)
     \/ semfs_truncate(t)

\* The calls a thread may begin.
Begin(t) ==
  /\ ~ Panicked
  /\ \/ \E x \in Names :
          semfs_lookup(t, x) \/ semfs_creat(t, x) \/ semfs_remove(t, x)
     \/ vnode_decref(t)
     \/ sys_read(t)
     \/ sys_write(t)

Next == \E t \in Threads : Begin(t) \/ Continue(t)

Spec == Init /\ [][Next]_vars /\ \A t \in Threads : WF_vars(Continue(t))

----------------------------------------------------------------------------
(* Properties *)

(* The reference count of a vnode is the number of threads that have it     *)
(* open, the one about to reclaim it included: reclaim's second look at the *)
(* count, under semfs_tablelock, is what makes a lookup that comes between  *)
(* vnode_decref and semfs_reclaim safe.                                     *)
RefsCounted ==
  \A n \in Nums : refs[n] = Cardinality({t \in Threads : fd[t] = n})

(* "As with other files, it may not actually go away if it's currently      *)
(* open": every semaphore that a thread has open, or that a creat or remove *)
(* is working on, is still in the table, and sems_hasvnode says whether a   *)
(* vnode refers to it.                                                      *)
SemOutlivesUsers ==
  /\ \A t \in Threads :
       /\ fd[t] # NULL => sems[fd[t]] # NULL
       /\ num[t] # NULL => sems[num[t]] # NULL
  /\ \A n \in Nums : sems[n] # NULL => (sems[n].hasvnode <=> refs[n] > 0)

(* Names lead to live semaphores, linked except while a creat or a *)
(* remove is at work on them, and a semaphore without a name or a vnode is  *)
(* gone: neither a remove nor the last close leaves one behind, whichever   *)
(* of the two comes last.                                                   *)
NothingOrphaned ==
  /\ \A x \in Names : dents[x] # NULL =>
       /\ sems[dents[x]] # NULL
       /\ sems[dents[x]].linked \/ \E t \in Threads : num[t] = dents[x]
  /\ \A n \in Nums : sems[n] # NULL =>
       \/ \E x \in Names : dents[x] = n
       \/ refs[n] > 0 /\ ~sems[n].linked

(* The readers asleep on a semaphore are those its cv holds, each once: a   *)
(* reader that semfs_wakeup takes off the cv runs again, and one that goes  *)
(* to sleep with bytes still wanted found the count 0.                      *)
SleepersQueued ==
  \A n \in Nums :
    /\ Range(cv[n]) = {t \in Threads : pc[t] = "asleep" /\ fd[t] = n}
    /\ IsInjective(cv[n])
    /\ \A t \in Range(cv[n]) : resid[t] > 0

(* Only a thread that has the semaphore open moves its count: a creat that  *)
(* puts a new semaphore in the table never disturbs one that is still held  *)
(* open after its name was removed.                                         *)
HoldersMoveCount ==
  [][\A n \in Nums :
       (sems[n] # NULL /\ sems'[n] # NULL /\ sems'[n].count # sems[n].count)
         => \E t \in Threads : fd[t] = n /\ pc[t] \in {"read", "write", "truncate"}
    ]_vars

(* A V() ends: a write that has been called returns.  It does not hold of   *)
(* two user's threads, whose File.lk a reader keeps while it sleeps.        *)
WriteReturns ==
  \A t \in Threads : pc[t] \in {"lkwrite", "write"} ~> pc[t] = "ready" \/ Panicked

(* What does hold: whoever has File.lk gives it up, on every way out of     *)
(* read and write, except a reader that is asleep in P() with it.           *)
FileLockGivenUp ==
  \A n \in Nums :
    lk[n] # NULL ~>
      \/ lk[n] = NULL
      \/ \E t \in Threads : lk[n] = t /\ pc[t] = "asleep"
      \/ Panicked

(* No assertion fails.  It does not hold: the last close of a semaphore may *)
(* fall inside a remove of its name.                                        *)
NeverPanics == ~ Panicked

(* A reader blocks "until other concurrent write operations raise the count  *)
(* again" (man/misc/semfs.html): while readers sleep, as many are awake in   *)
(* read as there are units.  It does not hold, since semfs_wakeup is silent  *)
(* when the count is above 0 already.                                        *)
UnitsHaveReaders ==
  \A n \in Nums : cv[n] # <<>> =>
    sems[n].count <= Cardinality({t \in Threads : pc[t] = "read" /\ fd[t] = n})

(* What a call under way relies on while others run: creat and remove hold  *)
(* dirlock and the name of the semaphore they work on, which is not linked; *)
(* a semaphore that is being made is not open yet; the other calls still    *)
(* have theirs open.                                                        *)
CallsRelyOn ==
  \A t \in Threads :
    /\ dirlock = t <=> num[t] # NULL
    /\ num[t] # NULL <=> pc[t] \in {"creat", "remove"}
    /\ num[t] # NULL => /\ \E x \in Names : dents[x] = num[t]
                        /\ sems[num[t]] # NULL /\ ~ sems[num[t]].linked
    /\ pc[t] = "creat" => fd[t] = NULL /\ refs[num[t]] = 0
    /\ pc[t] \notin {"ready", "creat", "remove", "panic"} => fd[t] # NULL
    /\ pc[t] \in {"lkread", "lkwrite"} => t \in UserThreads

(* No two names lead to one semaphore. *)
NamesDistinct ==
  \A x, y \in Names : dents[x] = dents[y] /\ dents[x] # NULL => x = y

(* Taken together: names, semaphores, vnodes and sleepers agree between    *)
(* any two lock sections, while the last close races with a new open.      *)
SemFsInv ==
  /\ TypeOK /\ RefsCounted /\ NothingOrphaned /\ SleepersQueued
  /\ CallsRelyOn /\ NamesDistinct

============================================================================
