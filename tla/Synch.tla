------------------------------- MODULE Synch -------------------------------
(***************************************************************************)
(* The sleep lock and the condition variables of kern/thread/synch.c, at   *)
(* the granularity of their spinlocks.                                     *)
(*                                                                         *)
(* One lock and the CVs used with it.  Every spinlock critical section is  *)
(* one step, taking the spinlock is a step of its own, and between steps   *)
(* any other thread may run: a superset of what preemption on one cpu, or  *)
(* several cpus, can do.  wchan_sleep puts the thread on the wait channel  *)
(* and drops the spinlock in one step because thread_switch does both with *)
(* the spinlock held; the sleeper takes the spinlock again when it wakes.  *)
(***************************************************************************)
EXTENDS Wchan

CONSTANT CVs    (* the condition variables used with it                    *)

ASSUME SynchConstants == NULL \notin Threads

VARIABLES
  available,    (* lock->available                                         *)
  lk_holder,    (* lock->lk_holder                                         *)
  lk_wchan,     (* lock->lk_wchan: the sleepers, first to be woken first   *)
  lk_spinlock,  (* who has lock->lk_spinlock                               *)
  cv_wchan,     (* for each cv, cv->cv_wchan                               *)
  cv_spinlock,  (* for each cv, who has cv->cv_spinlock                    *)
  pc,           (* where each thread is                                    *)
  arg,          (* the cv argument of the cv call a thread is in           *)
  ret           (* where lock_release returns to                           *)

lockVars == <<available, lk_holder, lk_wchan, lk_spinlock>>
cvVars == <<cv_wchan, cv_spinlock>>
vars == <<available, lk_holder, lk_wchan, lk_spinlock, cv_wchan, cv_spinlock,
          pc, arg, ret>>

(* "out": outside the monitor; "in": lock_acquire (or cv_wait) returned.   *)
(* acq_*, rel_*: in lock_acquire, lock_release; cvw_*: in cv_wait; sig_*,  *)
(* bc_*: in cv_signal, cv_broadcast.  *_spin: about to take a spinlock;    *)
(* *_body: has it; *_asleep: on a wait channel.                            *)
Locations == {"out", "in", "acq_spin", "acq_body", "acq_asleep",
              "rel_spin", "rel_body", "cvw_spin", "cvw_sleep", "cvw_asleep",
              "cvw_wake", "cvw_body", "sig_spin", "sig_body",
              "bc_spin", "bc_body"}

Init ==
  /\ available = TRUE
  /\ lk_holder = NULL
  /\ lk_wchan = <<>>
  /\ lk_spinlock = NULL
  /\ cv_wchan = [c \in CVs |-> <<>>]
  /\ cv_spinlock = [c \in CVs |-> NULL]
  /\ pc = [t \in Threads |-> "out"]
  /\ arg = [t \in Threads |-> NULL]
  /\ ret = [t \in Threads |-> "out"]

Goto(t, from, to) ==
  /\ pc[t] = from
  /\ pc' = [pc EXCEPT ![t] = to]

(* t moves to "to" and the threads of "woken", which slept on a wait       *)
(* channel, become runnable at the instruction after their thread_switch.  *)
GotoAndWake(t, from, to, woken, resume) ==
  /\ pc[t] = from
  /\ pc' = [u \in Threads |-> IF u = t THEN to
                              ELSE IF u \in woken THEN resume ELSE pc[u]]

----------------------------------------------------------------------------
(* lock_acquire *)

lock_acquire(t) ==
  /\ Goto(t, "out", "acq_spin")
  /\ UNCHANGED <<lockVars, cvVars, arg, ret>>

lock_acquire_spin(t) ==
  /\ lk_spinlock = NULL
  /\ lk_spinlock' = t
  /\ Goto(t, "acq_spin", "acq_body")
  /\ UNCHANGED <<available, lk_holder, lk_wchan, cvVars, arg, ret>>

(* Mutant: the lock is taken without looking at "available" again.         *)
lock_acquire_take_if_not_while(t) ==
  /\ available' = FALSE
  /\ lk_holder' = t
  /\ lk_spinlock' = NULL
  /\ Goto(t, "acq_body", "in")
  /\ UNCHANGED <<lk_wchan, cvVars, arg, ret>>

lock_acquire_take(t) ==
  /\ available
  /\ available' = FALSE
  /\ lk_holder' = t
  /\ lk_spinlock' = NULL
  /\ Goto(t, "acq_body", "in")
  /\ UNCHANGED <<lk_wchan, cvVars, arg, ret>>

lock_acquire_sleep(t) ==
  /\ ~ available
  /\ lk_wchan' = wchan_sleep(lk_wchan, t)
  /\ lk_spinlock' = NULL
  /\ Goto(t, "acq_body", "acq_asleep")
  /\ UNCHANGED <<available, lk_holder, cvVars, arg, ret>>

----------------------------------------------------------------------------
(* lock_release *)

lock_release(t) ==
  /\ Goto(t, "in", "rel_spin")
  /\ ret' = [ret EXCEPT ![t] = "out"]
  /\ UNCHANGED <<lockVars, cvVars, arg>>

lock_release_spin(t) ==
  /\ lk_spinlock = NULL
  /\ lk_spinlock' = t
  /\ Goto(t, "rel_spin", "rel_body")
  /\ UNCHANGED <<available, lk_holder, lk_wchan, cvVars, arg, ret>>

(* Mutant: the wakeup of the next thread is forgotten.                     *)
lock_release_body_no_wake(t) ==
  /\ available' = TRUE
  /\ lk_holder' = NULL
  /\ lk_spinlock' = NULL
  /\ Goto(t, "rel_body", ret[t])
  /\ UNCHANGED <<lk_wchan, cvVars, arg, ret>>

(* Mutant: the holder is not reset.                                        *)
lock_release_body_keeps_holder(t) ==
  /\ available' = TRUE
  /\ lk_wchan' = wchan_wakeone(lk_wchan)
  /\ GotoAndWake(t, "rel_body", ret[t], FirstSleeper(lk_wchan), "acq_spin")
  /\ lk_spinlock' = NULL
  /\ UNCHANGED <<lk_holder, cvVars, arg, ret>>

lock_release_body(t) ==
  /\ available' = TRUE
  /\ lk_holder' = NULL
  /\ lk_wchan' = wchan_wakeone(lk_wchan)
  /\ GotoAndWake(t, "rel_body", ret[t], FirstSleeper(lk_wchan), "acq_spin")
  /\ lk_spinlock' = NULL
  /\ UNCHANGED <<cvVars, arg, ret>>

----------------------------------------------------------------------------
(* cv_wait *)

cv_wait(t, c) ==
  /\ Goto(t, "in", "cvw_spin")
  /\ arg' = [arg EXCEPT ![t] = c]
  /\ UNCHANGED <<lockVars, cvVars, ret>>

(* Mutant: the lock is released before the cv's spinlock is taken.         *)
cv_wait_spin_unprotected(t) ==
  /\ Goto(t, "cvw_spin", "rel_spin")
  /\ ret' = [ret EXCEPT ![t] = "cvw_sleep"]
  /\ UNCHANGED <<lockVars, cvVars, arg>>

cv_wait_spin(t) ==
  /\ Goto(t, "cvw_spin", "rel_spin")
  /\ cv_spinlock[arg[t]] = NULL
  /\ cv_spinlock' = [cv_spinlock EXCEPT ![arg[t]] = t]
  /\ ret' = [ret EXCEPT ![t] = "cvw_sleep"]
  /\ UNCHANGED <<lockVars, cv_wchan, arg>>

cv_wait_sleep(t) ==
  /\ Goto(t, "cvw_sleep", "cvw_asleep")
  /\ cv_wchan' = [cv_wchan EXCEPT ![arg[t]] = wchan_sleep(@, t)]
  /\ cv_spinlock' = [cv_spinlock EXCEPT ![arg[t]] = NULL]
  /\ UNCHANGED <<lockVars, arg, ret>>

cv_wait_wake(t) ==
  /\ Goto(t, "cvw_wake", "cvw_body")
  /\ cv_spinlock[arg[t]] = NULL
  /\ cv_spinlock' = [cv_spinlock EXCEPT ![arg[t]] = t]
  /\ UNCHANGED <<lockVars, cv_wchan, arg, ret>>

(* Mutant: the cv's spinlock is kept while the lock is acquired again.     *)
cv_wait_reacquire_keeps_spinlock(t) ==
  /\ Goto(t, "cvw_body", "acq_spin")
  /\ UNCHANGED <<lockVars, cvVars, arg, ret>>

cv_wait_reacquire(t) ==
  /\ Goto(t, "cvw_body", "acq_spin")
  /\ cv_spinlock' = [cv_spinlock EXCEPT ![arg[t]] = NULL]
  /\ UNCHANGED <<lockVars, cv_wchan, arg, ret>>

----------------------------------------------------------------------------
(* cv_signal and cv_broadcast *)

cv_signal(t, c) ==
  /\ Goto(t, "in", "sig_spin")
  /\ arg' = [arg EXCEPT ![t] = c]
  /\ UNCHANGED <<lockVars, cvVars, ret>>

cv_signal_spin(t) ==
  /\ Goto(t, "sig_spin", "sig_body")
  /\ cv_spinlock[arg[t]] = NULL
  /\ cv_spinlock' = [cv_spinlock EXCEPT ![arg[t]] = t]
  /\ UNCHANGED <<lockVars, cv_wchan, arg, ret>>

cv_signal_body(t) ==
  /\ GotoAndWake(t, "sig_body", "in", FirstSleeper(cv_wchan[arg[t]]), "cvw_wake")
  /\ cv_wchan' = [cv_wchan EXCEPT ![arg[t]] = wchan_wakeone(@)]
  /\ cv_spinlock' = [cv_spinlock EXCEPT ![arg[t]] = NULL]
  /\ UNCHANGED <<lockVars, arg, ret>>

cv_broadcast(t, c) ==
  /\ Goto(t, "in", "bc_spin")
  /\ arg' = [arg EXCEPT ![t] = c]
  /\ UNCHANGED <<lockVars, cvVars, ret>>

cv_broadcast_spin(t) ==
  /\ Goto(t, "bc_spin", "bc_body")
  /\ cv_spinlock[arg[t]] = NULL
  /\ cv_spinlock' = [cv_spinlock EXCEPT ![arg[t]] = t]
  /\ UNCHANGED <<lockVars, cv_wchan, arg, ret>>

(* wchan_wakeall *)
cv_broadcast_body(t) ==
  /\ GotoAndWake(t, "bc_body", "in", Sleepers(cv_wchan[arg[t]]), "cvw_wake")
  /\ cv_wchan' = [cv_wchan EXCEPT ![arg[t]] = <<>>]
  /\ cv_spinlock' = [cv_spinlock EXCEPT ![arg[t]] = NULL]
  /\ UNCHANGED <<lockVars, arg, ret>>

----------------------------------------------------------------------------

(* The calls a thread chooses to make ...                                  *)
Call(t) ==
  \/ lock_acquire(t)
  \/ lock_release(t)
  \/ \E c \in CVs : cv_wait(t, c) \/ cv_signal(t, c) \/ cv_broadcast(t, c)

(* ... and the steps that carry a call out.                                *)
Run(t) ==
  \/ lock_acquire_spin(t)
  \/ lock_acquire_take(t)
  \/ lock_acquire_sleep(t)
  \/ lock_release_spin(t)
  \/ lock_release_body(t)
  \/ cv_wait_spin(t)
  \/ cv_wait_sleep(t)
  \/ cv_wait_wake(t)
  \/ cv_wait_reacquire(t)
  \/ cv_signal_spin(t)
  \/ cv_signal_body(t)
  \/ cv_broadcast_spin(t)
  \/ cv_broadcast_body(t)

Next == \E t \in Threads : Call(t) \/ Run(t)

Spec == Init /\ [][Next]_vars

(* Runnable threads run: hardclock() yields on every tick and the run      *)
(* queue is round robin.  Nothing obliges a thread to make a call.         *)
FairSpec == Spec /\ \A t \in Threads : WF_vars(Run(t))

----------------------------------------------------------------------------
(* Properties *)

TypeOK ==
  /\ available \in BOOLEAN
  /\ lk_holder \in Threads \cup {NULL}
  /\ lk_wchan \in Seq(Threads)
  /\ lk_spinlock \in Threads \cup {NULL}
  /\ cv_wchan \in [CVs -> Seq(Threads)]
  /\ cv_spinlock \in [CVs -> Threads \cup {NULL}]
  /\ pc \in [Threads -> Locations]
  /\ arg \in [Threads -> CVs \cup {NULL}]
  /\ ret \in [Threads -> {"out", "cvw_sleep"}]

(* Where a thread believes it has the lock: from the return of             *)
(* lock_acquire to the middle of lock_release, also when cv_wait calls it. *)
InLock == {"in", "rel_spin", "rel_body", "cvw_spin", "sig_spin", "sig_body",
           "bc_spin", "bc_body"}

Acquiring == {"acq_spin", "acq_body"}

(* At most one thread is between the return of lock_acquire and the store  *)
(* that frees the lock in lock_release, and it is the one the lock names,  *)
(* so none of the KASSERTs on lk_holder in lock_release and cv_* can fire. *)
MutualExclusion ==
  \A t \in Threads :
    /\ pc[t] \in InLock => lk_holder = t /\ ~ available
    /\ pc[t] = "acq_spin" => lk_holder # t

(* A lock that is free while threads sleep on it has a thread on its way   *)
(* to take it: lock_release's single wchan_wakeone is never lost, though a *)
(* thread that never slept may overtake the one it woke.                   *)
NoLostWakeup ==
  available /\ lk_wchan # <<>> => \E t \in Threads : pc[t] \in Acquiring

(* The detailed calls implement the atomic monitor.  A thread counts as    *)
(* waiting from the step in which cv_wait's lock_release frees the lock,   *)
(* before it is on the cv's wait channel: the cv's spinlock, taken before, *)
(* is what hides the difference from a signaller.                          *)
WaitingOn(c) ==
  Sleepers(cv_wchan[c]) \cup {t \in Threads : pc[t] = "cvw_sleep" /\ arg[t] = c}

Mon == INSTANCE Monitor WITH
  holder <- lk_holder,
  waiting <- [c \in CVs |-> WaitingOn(c)]

ImplementsMonitor == Mon!Spec

(* No signal is lost: cv_signal lets one of the waiting threads go, if     *)
(* there is any, and cv_broadcast all of them, the thread that has just    *)
(* freed the lock inside cv_wait and does not sleep yet included.          *)
SignalReachesWaiter(t) ==
  pc'[t] = "in" =>
    /\ pc[t] = "sig_body" =>
         \/ WaitingOn(arg[t]) = {}
         \/ \E u \in WaitingOn(arg[t]) :
              WaitingOn(arg[t])' = WaitingOn(arg[t]) \ {u}
    /\ pc[t] = "bc_body" => WaitingOn(arg[t])' = {}

NoMissedSignal == [][\A t \in Threads : SignalReachesWaiter(t)]_vars

(* Threads that want a free lock do not leave it free for ever: one of     *)
(* them gets it (not each of them: a thread that never slept may always    *)
(* overtake a woken one).                                                  *)
LockProgress ==
  (available /\ \E t \in Threads : pc[t] \in Acquiring \cup {"acq_asleep"})
    ~> ~ available

(* The order "cv spinlock, then lock spinlock" of cv_wait meets no         *)
(* opposite order: whoever has a spinlock lets it go again.                *)
SpinlocksReleased ==
  /\ lk_spinlock # NULL ~> lk_spinlock = NULL
  /\ \A c \in CVs : cv_spinlock[c] # NULL ~> cv_spinlock[c] = NULL

----------------------------------------------------------------------------
(* The inductive invariant behind the safety properties *)

(* Where a thread has the spinlock of cv arg[t]; in lock_release it depends *)
(* on the caller.                                                          *)
HasCvSpinlock(t) ==
  \/ pc[t] \in {"cvw_sleep", "cvw_body", "sig_body", "bc_body"}
  \/ pc[t] \in {"rel_spin", "rel_body"} /\ ret[t] = "cvw_sleep"

InCvCall(t) ==
  HasCvSpinlock(t) \/ pc[t] \in {"cvw_spin", "cvw_asleep", "cvw_wake",
                                "sig_spin", "bc_spin"}

LockOwned ==
  /\ available <=> lk_holder = NULL
  /\ \A t \in Threads : pc[t] \in InLock <=> lk_holder = t

SpinlocksOwned ==
  /\ \A t \in Threads : InCvCall(t) => arg[t] \in CVs
  /\ \A t \in Threads : pc[t] \in {"acq_body", "rel_body"} => lk_spinlock = t
  /\ \A t \in Threads : HasCvSpinlock(t) => cv_spinlock[arg[t]] = t

(* Who is on a wait channel is asleep, once.                               *)
SleepersAsleep ==
  /\ Distinct(lk_wchan)
  /\ \A t \in Sleepers(lk_wchan) : pc[t] = "acq_asleep"
  /\ \A c \in CVs :
       /\ Distinct(cv_wchan[c])
       /\ \A t \in Sleepers(cv_wchan[c]) : pc[t] = "cvw_asleep" /\ arg[t] = c

(* Taken together: each thread's place in the code agrees with the lock's  *)
(* fields, the owners of the spinlocks and the wait channels, so that the  *)
(* KASSERTs of lock_destroy (available, no holder) and of wchan_sleep      *)
(* (only its own spinlock held) hold whenever they are evaluated.          *)
SynchInv ==
  TypeOK /\ LockOwned /\ SpinlocksOwned /\ SleepersAsleep /\ NoLostWakeup

============================================================================
