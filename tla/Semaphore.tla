----------------------------- MODULE Semaphore -----------------------------
(***************************************************************************)
(* The counting semaphore of kern/thread/synch.c, at the granularity of    *)
(* its spinlock.  sem_count is an unsigned int: V adds one modulo          *)
(* MaxCount + 1 and its KASSERT stops the kernel when the count wraps.     *)
(* V is also called from interrupt handlers (device completion), which is  *)
(* one more caller here.                                                   *)
(* Names start with Sem where Synch, the rest of synch.c, has the same.    *)
(***************************************************************************)
EXTENDS Wchan, FiniteSets

CONSTANTS
  InitialCount,   (* initial_count of sem_create                           *)
  MaxCount        (* the largest unsigned                                  *)

ASSUME SemaphoreConstants ==
  /\ NULL \notin Threads
  /\ MaxCount \in Nat
  /\ InitialCount \in 0 .. MaxCount
  /\ IsFiniteSet(Threads)

VARIABLES
  sem_count,      (* sem->sem_count                                        *)
  sem_wchan,      (* sem->sem_wchan                                        *)
  sem_lock,       (* who has sem->sem_lock                                 *)
  sem_pc,         (* where each thread is: out of the calls, about to take *)
                  (* the spinlock, having it, or asleep                    *)
  panicked        (* a KASSERT failed and the kernel stopped               *)

semVars == <<sem_count, sem_wchan, sem_lock, sem_pc, panicked>>

SemLocations == {"out", "P_spin", "P_body", "P_asleep", "V_spin", "V_body"}

(* sem_create *)
SemInit ==
  /\ sem_count = InitialCount
  /\ sem_wchan = <<>>
  /\ sem_lock = NULL
  /\ sem_pc = [t \in Threads |-> "out"]
  /\ panicked = FALSE

SemGoto(t, from, to) ==
  /\ ~ panicked
  /\ sem_pc[t] = from
  /\ sem_pc' = [sem_pc EXCEPT ![t] = to]

Enter(t) ==
  /\ SemGoto(t, "out", "P_spin") \/ SemGoto(t, "out", "V_spin")
  /\ UNCHANGED <<sem_count, sem_wchan, sem_lock, panicked>>

(* spinlock_acquire, on entry and, in P, after a wakeup.                   *)
Spin(t) ==
  /\ sem_lock = NULL
  /\ sem_lock' = t
  /\ SemGoto(t, "P_spin", "P_body") \/ SemGoto(t, "V_spin", "V_body")
  /\ UNCHANGED <<sem_count, sem_wchan, panicked>>

(* Mutant: a woken thread does not look at the count again.                *)
P_take_if_not_while(t) ==
  /\ SemGoto(t, "P_body", "out")
  /\ sem_count' = (sem_count + MaxCount) % (MaxCount + 1)
  /\ sem_lock' = NULL
  /\ UNCHANGED <<sem_wchan, panicked>>

P_take(t) ==
  /\ SemGoto(t, "P_body", "out")
  /\ sem_count # 0
  /\ sem_count' = sem_count - 1
  /\ sem_lock' = NULL
  /\ UNCHANGED <<sem_wchan, panicked>>

(* Mutant: sleeps on a count read before the spinlock was taken.           *)
P_sleep_stale_count(t) ==
  /\ SemGoto(t, "P_body", "P_asleep")
  /\ sem_wchan' = wchan_sleep(sem_wchan, t)
  /\ sem_lock' = NULL
  /\ UNCHANGED <<sem_count, panicked>>

P_sleep(t) ==
  /\ SemGoto(t, "P_body", "P_asleep")
  /\ sem_count = 0
  /\ sem_wchan' = wchan_sleep(sem_wchan, t)
  /\ sem_lock' = NULL
  /\ UNCHANGED <<sem_count, panicked>>

(* V moves on and the thread it wakes goes for the spinlock again.         *)
Wake(t, woken) ==
  sem_pc' = [u \in Threads |-> IF u = t THEN "out"
                               ELSE IF u \in woken THEN "P_spin" ELSE sem_pc[u]]

(* Mutant: only the V that makes the count positive wakes somebody.        *)
V_body_wakes_at_one(t) ==
  /\ ~ panicked
  /\ sem_pc[t] = "V_body"
  /\ sem_count' = (sem_count + 1) % (MaxCount + 1)
  /\ sem_lock' = NULL
  /\ IF sem_count' = 0
     THEN panicked' = TRUE /\ UNCHANGED <<sem_wchan, sem_pc>>
     ELSE IF sem_count' = 1
     THEN /\ sem_wchan' = wchan_wakeone(sem_wchan)
          /\ Wake(t, FirstSleeper(sem_wchan))
          /\ UNCHANGED panicked
     ELSE /\ Wake(t, {})
          /\ UNCHANGED <<sem_wchan, panicked>>

V_body(t) ==
  /\ ~ panicked
  /\ sem_pc[t] = "V_body"
  /\ sem_count' = (sem_count + 1) % (MaxCount + 1)
  /\ IF sem_count' = 0
     THEN panicked' = TRUE /\ UNCHANGED <<sem_wchan, sem_lock, sem_pc>>
     ELSE /\ sem_lock' = NULL
          /\ sem_wchan' = wchan_wakeone(sem_wchan)
          /\ Wake(t, FirstSleeper(sem_wchan))
          /\ UNCHANGED panicked

SemRun(t) == Spin(t) \/ P_take(t) \/ P_sleep(t) \/ V_body(t)

SemNext == \E t \in Threads : Enter(t) \/ SemRun(t)

SemSpec == SemInit /\ [][SemNext]_semVars

(* Runnable threads run; nobody is obliged to call P or V.                 *)
SemFairSpec == SemSpec /\ \A t \in Threads : WF_semVars(SemRun(t))

----------------------------------------------------------------------------

SemTypeOK ==
  /\ sem_count \in 0 .. MaxCount
  /\ sem_wchan \in Seq(Threads)
  /\ sem_lock \in Threads \cup {NULL}
  /\ sem_pc \in [Threads -> SemLocations]
  /\ panicked \in BOOLEAN

(* The threads in P that will look at the count again without a V.         *)
Contenders == {t \in Threads : sem_pc[t] \in {"P_spin", "P_body"}}

(* While threads sleep, every unit of the count has a thread on its way to *)
(* take it.  V wakes one thread for each unit it adds, and a thread that   *)
(* overtakes the woken one leaves the sleepers no worse off.               *)
UnitsHaveTakers ==
  sem_wchan # <<>> /\ ~ panicked => Cardinality(Contenders) >= sem_count

(* The spinlock's owner is in a critical section, who is on the wait       *)
(* channel is asleep, once; with it the property above is inductive.       *)
SpinlockOwned ==
  \A t \in Threads : sem_pc[t] \in {"P_body", "V_body"} => sem_lock = t

SemSleepersAsleep ==
  /\ Distinct(sem_wchan)
  /\ \A t \in Sleepers(sem_wchan) : sem_pc[t] = "P_asleep"

SemInv == SemTypeOK /\ SpinlockOwned /\ SemSleepersAsleep /\ UnitsHaveTakers

(* The count only moves by one: down when a P returns, up when a V does.   *)
(* A V never wraps it to 0 without stopping the kernel, and a woken P      *)
(* never takes it below 0.                                                 *)
CountMovesByOne ==
  [][\/ panicked'
     \/ sem_count' = sem_count
     \/ /\ sem_count' = sem_count + 1
        /\ \E t \in Threads : sem_pc[t] = "V_body" /\ sem_pc'[t] = "out"
     \/ /\ sem_count = sem_count' + 1
        /\ \E t \in Threads : sem_pc[t] = "P_body" /\ sem_pc'[t] = "out"
    ]_semVars

(* A positive count does not leave threads asleep for ever: the count is   *)
(* used up or everybody has been woken.                                    *)
SemaphoreProgress ==
  (sem_count > 0 /\ sem_wchan # <<>>)
    ~> (sem_count = 0 \/ sem_wchan = <<>> \/ panicked)

============================================================================
