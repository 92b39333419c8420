------------------------------- MODULE Sched -------------------------------
(***************************************************************************)
(* Threads and the scheduler: kern/thread/thread.c and clock.c.  Every     *)
(* processor has a run queue, a current thread and a list of zombies.      *)
(* Threads fork, exit and wait for thread_count; the clock preempts them   *)
(* and moves them between processors.                                      *)
(*                                                                         *)
(* A step is what happens while one run queue lock is held.  Those locks   *)
(* are innermost and interrupts are off under them.  thread_switch keeps   *)
(* the lock from where it puts the old thread away to where the new one    *)
(* runs, except in the idle loop: an idle processor still stands on the    *)
(* stack of the thread that left it.                                       *)
(***************************************************************************)
EXTENDS Integers, FiniteSets, SequencesExt

CONSTANTS
  NumCpus,        (* cpuarray_num(&allcpus); processor 0 boots            *)
  Threads,        (* thread structures                                     *)
  Menu,           (* the thread that boots and then runs the menu          *)
  FirstThread,    (* the thread each processor starts with                 *)
  NULL

CPUs == 0 .. NumCpus - 1

ASSUME SchedConstants ==
  /\ NumCpus \in Nat \ {0}
  /\ FirstThread \in [CPUs -> Threads]
  /\ FirstThread[0] = Menu
  /\ \A c, d \in CPUs : FirstThread[c] = FirstThread[d] => c = d
  /\ IsFiniteSet(Threads)
  /\ NULL \notin Threads

VARIABLES
  curthread,      (* c_curthread                                           *)
  c_isidle,
  c_runqueue,
  c_zombies,
  c_ipi_pending,  (* IPI_UNIDLE is pending                                 *)
  cpu,            (* what each processor does                              *)
  mig,            (* the locals of thread_consider_migration               *)
  t_cpu,
  t_state,
  pc,             (* where each thread is in its code                      *)
  newthread,      (* the local of thread_fork                              *)
  waking,         (* the private list of wchan_wakeall                     *)
  thread_count,
  count_lock,     (* who holds thread_count_lock                           *)
  count_wchan,    (* thread_count_wchan                                    *)
  tc,             (* the menu's copy of thread_count                       *)
  panicked        (* an assertion has failed and the kernel has stopped    *)

cpuvars == <<curthread, c_isidle, c_runqueue, c_zombies, c_ipi_pending>>
threadvars == <<t_cpu, t_state>>
countvars == <<thread_count, count_lock, count_wchan, tc>>
localvars == <<pc, newthread, waking>>
stepvars == <<cpuvars, threadvars, countvars, localvars, mig, cpu>>
vars == <<stepvars, panicked>>

NoMigration == [i |-> 0, my |-> 0, total |-> 0, send |-> 0, victims |-> <<>>]

(* thread_bootstrap, and what cpu_create leaves for each other processor:  *)
(* a first thread about to run cpu_hatch.                                  *)
Init ==
  /\ curthread = FirstThread
  /\ c_isidle = [c \in CPUs |-> FALSE]
  /\ c_runqueue = [c \in CPUs |-> <<>>]
  /\ c_zombies = [c \in CPUs |-> {}]
  /\ c_ipi_pending = [c \in CPUs |-> FALSE]
  /\ cpu = [c \in CPUs |-> "thread"]
  /\ mig = [c \in CPUs |-> NoMigration]
  /\ t_cpu = [t \in Threads |-> IF t \in Range(FirstThread)
                                   THEN CHOOSE c \in CPUs : FirstThread[c] = t
                                   ELSE 0]
  /\ t_state = [t \in Threads |-> IF t \in Range(FirstThread) THEN "S_RUN"
                                                               ELSE "S_ZOMBIE"]
  /\ pc = [t \in Threads |-> IF t = Menu THEN "start_cpus"
                             ELSE IF t \in Range(FirstThread) THEN "hatch"
                             ELSE "none"]
  /\ newthread = [t \in Threads |-> NULL]
  /\ waking = <<>>
  /\ thread_count = 0 /\ tc = 0
  /\ count_lock = NULL
  /\ count_wchan = <<>>
  /\ panicked = FALSE

----------------------------------------------------------------------------
(* Switching.                                                              *)

(* Interrupts are off under spinlocks.                                     *)
InterruptsOn(c) ==
  \/ cpu[c] = "wait"
  \/ cpu[c] = "thread" /\ count_lock # curthread[c]

(* t runs on a processor, at l.                                            *)
At(c, t, l) == cpu[c] = "thread" /\ curthread[c] = t /\ pc[t] = l

Goto(t, l) == pc' = [pc EXCEPT ![t] = l]

(* Mutant: no interrupt for an idle processor.                             *)
thread_make_runnable_no_ipi(c, t) ==
  /\ c_runqueue' = [c_runqueue EXCEPT ![t_cpu[t]] = Append(@, t)]
  /\ t_state' = [t_state EXCEPT ![t] = "S_READY"]
  /\ UNCHANGED c_ipi_pending

(* thread_make_runnable by processor c, for a thread of any processor.     *)
thread_make_runnable(c, t) ==
  LET d == t_cpu[t]
  IN  /\ c_runqueue' = [c_runqueue EXCEPT ![d] = Append(@, t)]
      /\ t_state' = [t_state EXCEPT ![t] = "S_READY"]
      /\ c_ipi_pending' =
           [c_ipi_pending EXCEPT ![d] = @ \/ (c_isidle[d] /\ d # c)]

(* The rest of thread_switch once the old thread has been put away, the    *)
(* queue being q, the zombies z, thread states ts and locations l: run the *)
(* head of the queue, which then frees the zombies (exorcise; a freed      *)
(* thread has no t_cpu), or idle.                                          *)
switch_to_next(c, q, z, ts, l) ==
  IF q = <<>>
    THEN /\ c_isidle' = [c_isidle EXCEPT ![c] = TRUE]
         /\ cpu' = [cpu EXCEPT ![c] = "wait"]
         /\ c_runqueue' = [c_runqueue EXCEPT ![c] = q]
         /\ c_zombies' = [c_zombies EXCEPT ![c] = z]
         /\ t_state' = ts
         /\ pc' = l
         /\ UNCHANGED <<curthread, t_cpu>>
    ELSE /\ c_isidle' = [c_isidle EXCEPT ![c] = FALSE]
         /\ cpu' = [cpu EXCEPT ![c] = "thread"]
         /\ curthread' = [curthread EXCEPT ![c] = Head(q)]
         /\ c_runqueue' = [c_runqueue EXCEPT ![c] = Tail(q)]
         /\ c_zombies' = [c_zombies EXCEPT ![c] = {}]
         /\ t_state' = [ts EXCEPT ![Head(q)] = "S_RUN"]
         /\ pc' = [t \in Threads |-> IF t \in z THEN "none" ELSE l[t]]
         /\ t_cpu' = [t \in Threads |-> IF t \in z THEN 0 ELSE t_cpu[t]]

(* thread_yield, thread_switch(S_READY), with q on the run queue: the idle *)
(* loop goes on, and a thread with nobody behind it does.                  *)
thread_yield(c, q) ==
  IF c_isidle[c] \/ q = <<>>
    THEN /\ cpu' = [cpu EXCEPT ![c] = IF c_isidle[c] THEN "loop" ELSE "thread"]
         /\ c_runqueue' = [c_runqueue EXCEPT ![c] = q]
         /\ UNCHANGED <<curthread, c_isidle, c_zombies, threadvars, pc>>
    ELSE switch_to_next(c, Append(q, curthread[c]), c_zombies[c],
                        [t_state EXCEPT ![curthread[c]] = "S_READY"], pc)

(* A thread yields of its own accord.                                      *)
yield(t) ==
  /\ \E c \in CPUs : At(c, t, "work") /\ thread_yield(c, c_runqueue[c])
  /\ UNCHANGED <<c_ipi_pending, countvars, newthread, waking, mig>>

(* The idle loop after an interrupt: the queue is looked at again.         *)
unidle(c) ==
  /\ cpu[c] = "loop"
  /\ switch_to_next(c, c_runqueue[c], c_zombies[c], t_state, pc)
  /\ UNCHANGED <<c_ipi_pending, countvars, newthread, waking, mig>>

(* interprocessor_interrupt: IPI_UNIDLE has done its work by waking the    *)
(* processor.                                                              *)
interprocessor_interrupt(c) ==
  /\ InterruptsOn(c)
  /\ c_ipi_pending[c]
  /\ c_ipi_pending' = [c_ipi_pending EXCEPT ![c] = FALSE]
  /\ cpu' = [cpu EXCEPT ![c] = IF @ = "wait" THEN "loop" ELSE @]
  /\ UNCHANGED <<curthread, c_isidle, c_runqueue, c_zombies, threadvars,
                 countvars, localvars, mig>>

----------------------------------------------------------------------------
(* What threads do.                                                        *)

(* The calls that do not touch another processor or the queues.            *)
Local(t, from, to) ==
  /\ \E c \in CPUs : At(c, t, from)
  /\ Goto(t, to)
  /\ UNCHANGED <<cpuvars, threadvars, mig, cpu>>

(* cpu_hatch: V(cpu_startup_sem), then thread_exit.                        *)
cpu_hatch(t) ==
  /\ Local(t, "hatch", "exit")
  /\ UNCHANGED <<countvars, newthread, waking>>

(* thread_start_cpus: all have hatched; thread_count becomes 1.            *)
thread_start_cpus ==
  /\ Local(Menu, "start_cpus", "work")
  /\ \A c \in CPUs \ {0} : pc[FirstThread[c]] # "hatch"
  /\ thread_count' = 1
  /\ UNCHANGED <<count_lock, count_wchan, tc, newthread, waking>>

(* Mutant: the menu notes thread_count once the new thread is counted.     *)
fork_count_noted(t) ==
  /\ count_lock = NULL
  /\ Local(t, "fork_count", "wakeall")
  /\ count_lock' = t
  /\ thread_count' = thread_count + 1
  /\ tc' = IF t = Menu THEN thread_count + 1 ELSE tc
  /\ waking' = count_wchan
  /\ count_wchan' = <<>>
  /\ UNCHANGED newthread

(* thread_fork up to thread_count: the new thread is to start on the       *)
(* processor of the caller, who may be moved before it does.  The menu     *)
(* notes thread_count before it starts anything (common_prog).             *)
thread_fork(t) ==
  LET n == CHOOSE u \in Threads : pc[u] = "none"
  IN  /\ \E u \in Threads : pc[u] = "none"
      /\ \E c \in CPUs : At(c, t, "work")
      /\ pc' = [pc EXCEPT ![t] = "fork_count", ![n] = "new"]
      /\ newthread' = [newthread EXCEPT ![t] = n]
      /\ t_cpu' = [t_cpu EXCEPT ![n] = t_cpu[t]]
      /\ t_state' = [t_state EXCEPT ![n] = "S_READY"]
      /\ tc' = IF t = Menu THEN thread_count ELSE tc
      /\ UNCHANGED <<cpuvars, thread_count, count_lock, count_wchan, waking,
                     mig, cpu>>

(* thread_count changes and everybody who waits for it is taken off the    *)
(* channel.                                                                *)
change_count(t, from, n) ==
  /\ count_lock = NULL
  /\ Local(t, from, "wakeall")
  /\ count_lock' = t
  /\ thread_count' = n
  /\ waking' = count_wchan
  /\ count_wchan' = <<>>
  /\ UNCHANGED <<tc, newthread>>

fork_count(t) == change_count(t, "fork_count", thread_count + 1)

(* wchan_wakeall: one of them is made runnable.                            *)
wakeall_next(t) ==
  /\ waking # <<>>
  /\ \E c \in CPUs : /\ At(c, t, "wakeall")
                     /\ thread_make_runnable(c, Head(waking))
  /\ waking' = Tail(waking)
  /\ UNCHANGED <<curthread, c_isidle, c_zombies, t_cpu, countvars, pc,
                 newthread, mig, cpu>>

(* The lock is released: thread_fork, or thread_exit, goes on.             *)
wakeall_done(t) ==
  /\ waking = <<>>
  /\ Local(t, "wakeall", IF newthread[t] = NULL THEN "exit_switch" ELSE "fork_run")
  /\ count_lock' = NULL
  /\ UNCHANGED <<thread_count, count_wchan, tc, newthread, waking>>

fork_run(t) ==
  /\ \E c \in CPUs : /\ At(c, t, "fork_run")
                     /\ thread_make_runnable(c, newthread[t])
  /\ pc' = [pc EXCEPT ![t] = IF t = Menu THEN "wait_count" ELSE "work",
                      ![newthread[t]] = "work"]
  /\ newthread' = [newthread EXCEPT ![t] = NULL]
  /\ UNCHANGED <<curthread, c_isidle, c_zombies, t_cpu, countvars, waking,
                 mig, cpu>>

(* thread_exit by the thread of a user process: proc_remthread destroys    *)
(* the process, and thread_count is tested without its lock.  The menu     *)
(* never returns.                                                          *)
thread_exit(t) ==
  /\ t # Menu
  /\ Local(t, "work", IF thread_count = 0 THEN "exit_switch" ELSE "exit_count")
  /\ UNCHANGED <<countvars, newthread, waking>>

(* thread_exit by a thread of the kernel's process: proc_remthread hands   *)
(* kproc to proc_destroy, which asserts that it is another one.  Of that   *)
(* kind are the threads of cpu_hatch and any thread forked without a       *)
(* process of its own, as the kernel's tests do.                           *)
thread_exit_kproc(t) ==
  /\ t # Menu
  /\ \E c \in CPUs : At(c, t, "exit") \/ At(c, t, "work")
  /\ panicked' = TRUE
  /\ UNCHANGED stepvars

exit_count(t) == change_count(t, "exit_count", thread_count - 1)

(* thread_switch(S_ZOMBIE).                                                *)
exit_switch(t) ==
  /\ \E c \in CPUs :
       /\ At(c, t, "exit_switch")
       /\ switch_to_next(c, c_runqueue[c], c_zombies[c] \cup {t},
                         [t_state EXCEPT ![t] = "S_ZOMBIE"],
                         [pc EXCEPT ![t] = "zombie"])
  /\ UNCHANGED <<c_ipi_pending, countvars, newthread, waking, mig>>

(* thread_wait_for_count(tc), with which the menu waits for a program.     *)
wait_count_done ==
  /\ count_lock = NULL
  /\ thread_count = tc
  /\ Local(Menu, "wait_count", "work")
  /\ tc' = 0
  /\ UNCHANGED <<thread_count, count_lock, count_wchan, newthread, waking>>

(* wchan_sleep: on the channel, the lock released, and thread_switch.      *)
(* Awake again the menu is back at wait_count.                             *)
wait_count_sleep ==
  /\ count_lock = NULL
  /\ thread_count # tc
  /\ \E c \in CPUs :
       /\ At(c, Menu, "wait_count")
       /\ count_wchan' = Append(count_wchan, Menu)
       /\ switch_to_next(c, c_runqueue[c], c_zombies[c],
                         [t_state EXCEPT ![Menu] = "S_SLEEP"], pc)
  /\ UNCHANGED <<c_ipi_pending, thread_count, count_lock, tc, newthread,
                 waking, mig>>

----------------------------------------------------------------------------
(* The clock.                                                              *)

(* hardclock on c.  Every MIGRATE_HARDCLOCKS of them it thinks of          *)
(* migration first; here any of them may.                                  *)
hardclock(c) ==
  /\ InterruptsOn(c)
  /\ \/ thread_yield(c, c_runqueue[c]) /\ UNCHANGED mig
     \/ /\ cpu' = [cpu EXCEPT ![c] = "mig_count"]
        /\ UNCHANGED <<mig, curthread, c_isidle, c_runqueue, c_zombies, threadvars, pc>>
  /\ UNCHANGED <<c_ipi_pending, countvars, newthread, waking>>

DIVROUNDUP(a, b) == (a + b - 1) \div b
OneShare(c) == DIVROUNDUP(mig[c].total, Cardinality(CPUs))

(* Mutant: the processor's own threads and the one that runs are counted.  *)
migration_count_running(c) ==
  /\ cpu[c] = "mig_count"
  /\ mig[c].i < NumCpus
  /\ LET d == mig[c].i
         n == Len(c_runqueue[d]) + 1
     IN  mig' = [mig EXCEPT
           ![c].i = @ + 1, ![c].total = @ + n,
           ![c].my = IF c = d THEN n ELSE @]
  /\ UNCHANGED <<cpuvars, threadvars, countvars, localvars, cpu>>

(* The processor to give to, from number i on.                             *)
NextCpu(c, i) == IF i = c THEN i + 1 ELSE i

(* thread_consider_migration, first loop: one run queue is counted.        *)
migration_count(c) ==
  /\ cpu[c] = "mig_count"
  /\ mig[c].i < NumCpus
  /\ LET d == mig[c].i
     IN  mig' = [mig EXCEPT
           ![c].i = @ + 1, ![c].total = @ + Len(c_runqueue[d]),
           ![c].my = IF c = d THEN Len(c_runqueue[d]) ELSE @]
  /\ UNCHANGED <<cpuvars, threadvars, countvars, localvars, cpu>>

(* Victims are taken from the end of the processor's own queue, or, with   *)
(* no more than its share, hardclock goes on to thread_yield.              *)
migration_take(c) ==
  /\ cpu[c] = "mig_count"
  /\ mig[c].i = NumCpus
  /\ LET send == mig[c].my - OneShare(c)
         keep == Len(c_runqueue[c]) - send
     IN  IF mig[c].my <= OneShare(c)
           THEN /\ thread_yield(c, c_runqueue[c])
                /\ mig' = [mig EXCEPT ![c] = NoMigration]
           ELSE /\ c_runqueue' = [c_runqueue EXCEPT ![c] = SubSeq(@, 1, keep)]
                /\ mig' = [mig EXCEPT
                     ![c].i = NextCpu(c, 0), ![c].send = send,
                     ![c].victims = SubSeq(c_runqueue[c], keep + 1, Len(c_runqueue[c]))]
                /\ cpu' = [cpu EXCEPT ![c] = "mig_give"]
                /\ UNCHANGED <<curthread, c_isidle, c_zombies, threadvars, pc>>
  /\ UNCHANGED <<c_ipi_pending, countvars, newthread, waking>>

(* Mutant: the thread c stands on is given away like any other.            *)
migration_give_all(c) ==
  LET m == mig[c]
      d == m.i
      given == SubSeq(m.victims, 1, Min({OneShare(c) - Len(c_runqueue[d]), m.send}))
  IN  /\ cpu[c] = "mig_give"
      /\ d < NumCpus
      /\ mig' = [mig EXCEPT
           ![c].i = NextCpu(c, @ + 1), ![c].send = @ - Len(given),
           ![c].victims = SubSeq(@, Len(given) + 1, Len(@))]
      /\ c_runqueue' = [c_runqueue EXCEPT ![d] = @ \o given]
      /\ t_cpu' = [t \in Threads |-> IF t \in ToSet(given) THEN d ELSE t_cpu[t]]
      /\ c_ipi_pending' =
           [c_ipi_pending EXCEPT ![d] = @ \/ (given # <<>> /\ c_isidle[d])]
      /\ UNCHANGED <<curthread, c_isidle, c_zombies, t_state, countvars,
                     localvars, cpu>>

(* d gets victims up to its share; the thread c stands on is passed over   *)
(* and goes to the end of the list.                                        *)
migration_give(c) ==
  LET m == mig[c]
      d == m.i
      room == OneShare(c) - Len(c_runqueue[d])
      upto(n) == SubSeq(m.victims, 1, Min({n, m.send}))
      skips == \E i \in DOMAIN upto(room) : upto(room)[i] = curthread[c]
      seen == upto(IF skips THEN room + 1 ELSE room)
      given == RemoveFirst(seen, curthread[c])
  IN  /\ cpu[c] = "mig_give"
      /\ d < NumCpus
      /\ mig' = [mig EXCEPT
           ![c].i = NextCpu(c, @ + 1), ![c].send = @ - Len(seen),
           ![c].victims = SubSeq(@, Len(seen) + 1, Len(@))
                            \o (IF skips THEN <<curthread[c]>> ELSE <<>>)]
      /\ c_runqueue' = [c_runqueue EXCEPT ![d] = @ \o given]
      /\ t_cpu' = [t \in Threads |-> IF t \in ToSet(given) THEN d ELSE t_cpu[t]]
      /\ c_ipi_pending' =
           [c_ipi_pending EXCEPT ![d] = @ \/ (given # <<>> /\ c_isidle[d])]
      /\ UNCHANGED <<curthread, c_isidle, c_zombies, t_state, countvars,
                     localvars, cpu>>

(* What is left goes back to the processor's own queue; then thread_yield. *)
migration_put(c) ==
  /\ cpu[c] = "mig_give"
  /\ mig[c].i = NumCpus
  /\ mig' = [mig EXCEPT ![c] = NoMigration]
  /\ thread_yield(c, c_runqueue[c] \o mig[c].victims)
  /\ UNCHANGED <<c_ipi_pending, countvars, newthread, waking>>

----------------------------------------------------------------------------

(* Steps of the idle loop and of interrupt handlers.                       *)
Handler(c) ==
  \/ unidle(c) \/ interprocessor_interrupt(c)
  \/ migration_count(c) \/ migration_take(c)
  \/ migration_give(c) \/ migration_put(c)

(* The steps of a call a thread has begun.                                 *)
Run(t) ==
  \/ cpu_hatch(t) \/ (t = Menu /\ thread_start_cpus)
  \/ fork_count(t) \/ wakeall_next(t) \/ wakeall_done(t) \/ fork_run(t)
  \/ exit_count(t) \/ exit_switch(t)
  \/ (t = Menu /\ (wait_count_done \/ wait_count_sleep))

(* What a thread does of its own accord.                                   *)
Call(t) == thread_fork(t) \/ thread_exit(t) \/ yield(t)

Step ==
  \/ \E c \in CPUs : Handler(c) \/ hardclock(c)
  \/ \E t \in Threads : Run(t) \/ Call(t)

(* After a panic nothing runs.                                             *)
Next ==
  /\ ~ panicked
  /\ \/ Step /\ UNCHANGED panicked
     \/ \E t \in Threads : thread_exit_kproc(t)

Spec == Init /\ [][Next]_vars

----------------------------------------------------------------------------

TypeOK ==
  /\ curthread \in [CPUs -> Threads]
  /\ c_isidle \in [CPUs -> BOOLEAN]
  /\ c_runqueue \in [CPUs -> Seq(Threads)]
  /\ c_zombies \in [CPUs -> SUBSET Threads]
  /\ c_ipi_pending \in [CPUs -> BOOLEAN]
  /\ \A c \in CPUs : /\ cpu[c] \in {"thread", "wait", "loop", "mig_count",
                                     "mig_give"}
                     /\ mig[c].victims \in Seq(Threads)
                     /\ mig[c].send \in 0 .. Len(mig[c].victims)
  /\ t_cpu \in [Threads -> CPUs]
  /\ t_state \in [Threads -> {"S_RUN", "S_READY", "S_SLEEP", "S_ZOMBIE"}]
  /\ newthread \in [Threads -> Threads \cup {NULL}]
  /\ thread_count \in Nat
  /\ count_lock \in Threads \cup {NULL}
  /\ panicked \in BOOLEAN

(* Where t is: it runs, it is on a list, or its creator still has it.      *)
Places(t) ==
  {<<"run", c>> : c \in {d \in CPUs : curthread[d] = t /\ ~ c_isidle[d]}}
  \cup (UNION {{<<"queue", c, i>> : i \in {j \in DOMAIN c_runqueue[c] : c_runqueue[c][j] = t}}
                : c \in CPUs})
  \cup (UNION {{<<"victim", c, i>> : i \in {j \in DOMAIN mig[c].victims : mig[c].victims[j] = t}}
                : c \in CPUs})
  \cup {<<"wchan", i>> : i \in {j \in DOMAIN count_wchan : count_wchan[j] = t}}
  \cup {<<"waking", i>> : i \in {j \in DOMAIN waking : waking[j] = t}}
  \cup {<<"zombie", c>> : c \in {d \in CPUs : t \in c_zombies[d]}}
  \cup {<<"new", u>> : u \in {v \in Threads : newthread[v] = t}}

(* A thread that exists is in exactly one place, however a wakeup, the     *)
(* clock and a migration meet; one that has been freed is nowhere.         *)
OnePlace ==
  \A t \in Threads : Cardinality(Places(t)) = IF pc[t] = "none" THEN 0 ELSE 1

(* No other processor runs on, and nobody has freed, the stack a processor *)
(* stands on, that of a sleeping or dead thread under the idle loop        *)
(* included: the remark on curthread in thread_consider_migration.         *)
StackPrivate ==
  /\ \A c, d \in CPUs : curthread[c] = curthread[d] => c = d
  /\ \A c \in CPUs : pc[curthread[c]] # "none"

(* The assertions on t_cpu and t_state: a thread is where its t_cpu says,  *)
(* and its state is that of its place.                                     *)
StateFitsPlace ==
  /\ \A c \in CPUs :
       /\ t_cpu[curthread[c]] = c
       /\ ~ c_isidle[c] => t_state[curthread[c]] = "S_RUN"
       /\ \A t \in ToSet(c_runqueue[c]) : t_cpu[t] = c /\ t_state[t] = "S_READY"
       /\ \A t \in c_zombies[c] : t_state[t] = "S_ZOMBIE"
  /\ \A t \in ToSet(count_wchan) \cup ToSet(waking) : t_state[t] = "S_SLEEP"

(* A processor that waits for an interrupt with a thread on its queue has  *)
(* one coming, though it looked at the queue before it went idle and       *)
(* others add to it at any time.                                           *)
IdleIsTold ==
  \A c \in CPUs :
    cpu[c] = "wait" /\ c_runqueue[c] # <<>> => c_ipi_pending[c]

(* The queue still holds what was counted when victims are taken from it:  *)
(* threadlist_remtail never returns NULL to thread_consider_migration.     *)
VictimsAreThere ==
  \A c \in CPUs : cpu[c] = "mig_count" => Len(c_runqueue[c]) >= mig[c].my

(* Threads that thread_count counts, apart from the menu.                  *)
Others ==
  {t \in Threads \ {Menu} :
     pc[t] \notin {"none", "hatch", "exit", "exit_switch", "zombie"}}

(* "Wait for all threads to finish cleanup" (menu.c): when the menu is     *)
(* back from thread_wait_for_count, all it started have counted themselves *)
(* out.                                                                    *)
MenuWaitsForAll ==
  [][pc[Menu] = "wait_count" /\ pc'[Menu] = "work" => Others = {}]_vars

(* Taken together: lists, processors and stacks agree on where each thread *)
(* is, so that thread_switch, wchan_wakeall, exorcise and                  *)
(* thread_consider_migration never meet on one thread.                     *)
SchedInv == TypeOK /\ OnePlace /\ StackPrivate /\ StateFitsPlace

============================================================================
