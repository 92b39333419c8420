---------------------------- MODULE SynchProofs ----------------------------
(***************************************************************************)
(* Proofs about synch.c: the lock and the condition variables, for any     *)
(* number of threads and CVs, and then the semaphore, for any width of its *)
(* count.                                                                  *)
(***************************************************************************)
EXTENDS Synch, Semaphore, FiniteSetTheorems, TLAPS

----------------------------------------------------------------------------
(* What the wait channel operations do to the set of sleepers.             *)

(* wchan_sleep adds the thread at the end, and nobody else.                *)
LEMMA SleepLemma ==
  ASSUME NEW w \in Seq(Threads), NEW t \in Threads
  PROVE  /\ wchan_sleep(w, t) \in Seq(Threads)
         /\ Sleepers(wchan_sleep(w, t)) = Sleepers(w) \cup {t}
         /\ Distinct(w) /\ t \notin Sleepers(w) => Distinct(wchan_sleep(w, t))
<1> DEFINE v == wchan_sleep(w, t)
<1>1. /\ v \in Seq(Threads)
      /\ DOMAIN v = 1 .. (Len(w) + 1)
      /\ DOMAIN w = 1 .. Len(w)
      /\ Len(w) \in Nat
      /\ \A i \in 1 .. Len(w) : v[i] = w[i]
      /\ v[Len(w) + 1] = t
  BY DEF wchan_sleep
<1> HIDE DEF v
<1>2. Sleepers(v) = Sleepers(w) \cup {t}
  BY <1>1 DEF Sleepers
<1>3. ASSUME Distinct(w), t \notin Sleepers(w)
      PROVE  Distinct(v)
  BY <1>1, <1>3 DEF Distinct, Sleepers
<1>4. QED
  BY <1>1, <1>2, <1>3 DEF v

(* wchan_wakeone takes the first sleeper off the channel, and nobody else. *)
LEMMA WakeoneLemma ==
  ASSUME NEW w \in Seq(Threads), Distinct(w)
  PROVE  /\ wchan_wakeone(w) \in Seq(Threads)
         /\ Distinct(wchan_wakeone(w))
         /\ Sleepers(wchan_wakeone(w)) = Sleepers(w) \ FirstSleeper(w)
         /\ FirstSleeper(w) \subseteq Sleepers(w)
         /\ w # <<>> => FirstSleeper(w) = {Head(w)} /\ Head(w) \in Sleepers(w)
         /\ w = <<>> => wchan_wakeone(w) = <<>> /\ Sleepers(w) = {}
<1>1. CASE w = <<>>
  BY <1>1 DEF wchan_wakeone, FirstSleeper, Sleepers, Distinct
<1>2. CASE w # <<>>
  <2> DEFINE v == Tail(w)
  <2>1. /\ wchan_wakeone(w) = v
        /\ FirstSleeper(w) = {Head(w)}
    BY <1>2 DEF wchan_wakeone, FirstSleeper
  <2>2. /\ v \in Seq(Threads)
        /\ Len(w) \in Nat \ {0}
        /\ DOMAIN v = 1 .. (Len(w) - 1)
        /\ DOMAIN w = 1 .. Len(w)
        /\ \A i \in 1 .. (Len(w) - 1) : v[i] = w[i + 1]
        /\ Head(w) = w[1]
    BY <1>2
  <2> HIDE DEF v
  <2>3. Distinct(v)
    <3>1. SUFFICES ASSUME NEW i \in DOMAIN v, NEW j \in DOMAIN v, v[i] = v[j]
                   PROVE  i = j
      BY DEF Distinct
    <3>2. /\ i + 1 \in DOMAIN w /\ j + 1 \in DOMAIN w
          /\ w[i + 1] = w[j + 1]
      BY <2>2, <3>1
    <3>3. i + 1 = j + 1
      BY <3>2 DEF Distinct
    <3>4. QED
      BY <2>2, <3>3
  <2>4. Head(w) \in Sleepers(w)
    BY <2>2 DEF Sleepers
  <2>5. Sleepers(v) = Sleepers(w) \ {Head(w)}
    <3>1. ASSUME NEW t \in Sleepers(v) PROVE t \in Sleepers(w) \ {Head(w)}
      <4>1. PICK i \in 1 .. (Len(w) - 1) : t = v[i]
        BY <2>2 DEF Sleepers
      <4>2. i + 1 \in 1 .. Len(w) /\ i + 1 # 1 /\ t = w[i + 1]
        BY <2>2, <4>1
      <4>3. t # Head(w)
        BY <2>2, <4>2 DEF Distinct
      <4>4. QED
        BY <2>2, <4>2, <4>3 DEF Sleepers
    <3>2. ASSUME NEW t \in Sleepers(w) \ {Head(w)} PROVE t \in Sleepers(v)
      <4>1. PICK i \in 1 .. Len(w) : t = w[i]
        BY <2>2 DEF Sleepers
      <4>2. i # 1 /\ i - 1 \in 1 .. (Len(w) - 1) /\ v[i - 1] = w[i]
        BY <2>2, <4>1
      <4>3. QED
        BY <2>2, <4>1, <4>2 DEF Sleepers
    <3>3. QED
      BY <3>1, <3>2
  <2>6. QED
    BY <1>2, <2>1, <2>2, <2>3, <2>4, <2>5
<1>3. QED
  BY <1>1, <1>2

(* After wchan_wakeall nobody is on the channel.                           *)
LEMMA WakeallLemma ==
  Sleepers(<<>>) = {} /\ Distinct(<<>>) /\ <<>> \in Seq(Threads)
BY DEF Sleepers, Distinct

(* Everybody on a wait channel is one of the threads that may sleep there. *)
LEMMA SleepersType ==
  ASSUME NEW w \in Seq(Threads)
  PROVE  Sleepers(w) \subseteq Threads
BY DEF Sleepers

----------------------------------------------------------------------------
(* The inductive invariant *)

(* Each thread's place in synch.c agrees with the lock's fields, the owners *)
(* of the spinlocks and the wait channels, in every reachable state.       *)
THEOREM SynchInvariant == Spec => []SynchInv
<1>1. Init => SynchInv
  BY SynchConstants
     DEF Init, SynchInv, TypeOK, Locations, LockOwned, InLock, SpinlocksOwned,
         HasCvSpinlock, InCvCall, SleepersAsleep, Distinct, Sleepers,
             NoLostWakeup
<1>2. SynchInv /\ [Next]_vars => SynchInv'
  <2> SUFFICES ASSUME SynchInv, [Next]_vars PROVE SynchInv'
    OBVIOUS
  <2> USE SynchConstants DEF SynchInv, TypeOK, Locations, LockOwned,
      InLock, SpinlocksOwned, HasCvSpinlock, InCvCall, SleepersAsleep,
      NoLostWakeup, Acquiring, Goto, lockVars, cvVars
  <2>1. ASSUME NEW t \in Threads, lock_acquire(t) PROVE SynchInv'
    BY <2>1 DEF lock_acquire
  <2>2. ASSUME NEW t \in Threads, lock_release(t) PROVE SynchInv'
    BY <2>2 DEF lock_release
  <2>3. ASSUME NEW t \in Threads, NEW c \in CVs, cv_wait(t, c) PROVE SynchInv'
    BY <2>3 DEF cv_wait
  <2>4. ASSUME NEW t \in Threads, NEW c \in CVs, cv_signal(t, c) PROVE SynchInv'
    BY <2>4 DEF cv_signal
  <2>5. ASSUME NEW t \in Threads, NEW c \in CVs, cv_broadcast(t, c) PROVE
      SynchInv'
    BY <2>5 DEF cv_broadcast
  <2>6. ASSUME NEW t \in Threads, lock_acquire_spin(t) PROVE SynchInv'
    BY <2>6 DEF lock_acquire_spin
  <2>7. ASSUME NEW t \in Threads, lock_acquire_take(t) PROVE SynchInv'
    <3>1. TypeOK'
      BY <2>7 DEF lock_acquire_take
    <3>6. SpinlocksOwned'
      <4>1. lk_spinlock = t
        BY <2>7 DEF lock_acquire_take
      <4>2. \A u \in Threads : /\ pc'[u] \notin {"acq_body", "rel_body"}
                               /\ HasCvSpinlock(u)' => HasCvSpinlock(u)
                               /\ InCvCall(u)' => InCvCall(u)
        BY <2>7, <4>1 DEF lock_acquire_take
      <4>3. QED
        BY <2>7, <4>2 DEF lock_acquire_take
    <3>5. SleepersAsleep'
      BY <2>7, SleepersType DEF lock_acquire_take
    <3>2. lk_holder = NULL /\ lk_holder' = t /\ available' = FALSE
      BY <2>7 DEF lock_acquire_take
    <3>3. LockOwned' /\ NoLostWakeup'
      BY <2>7, <3>2 DEF lock_acquire_take
    <3>4. QED
      BY <3>1, <3>3, <3>5, <3>6
  <2>8. ASSUME NEW t \in Threads, lock_acquire_sleep(t) PROVE SynchInv'
    <3>1. t \notin Sleepers(lk_wchan)
      BY <2>8 DEF lock_acquire_sleep
    <3>2. /\ lk_wchan' \in Seq(Threads)
          /\ Sleepers(lk_wchan') = Sleepers(lk_wchan) \cup {t}
          /\ Distinct(lk_wchan')
      <4>1. lk_wchan' = wchan_sleep(lk_wchan, t)
        BY <2>8 DEF lock_acquire_sleep
      <4>2. lk_wchan \in Seq(Threads) /\ Distinct(lk_wchan)
        OBVIOUS
      <4>3. /\ wchan_sleep(lk_wchan, t) \in Seq(Threads)
            /\ Sleepers(wchan_sleep(lk_wchan, t)) = Sleepers(lk_wchan) \cup {t}
            /\ Distinct(wchan_sleep(lk_wchan, t))
        <5> HIDE DEF SynchInv
        <5>1. QED
          BY <3>1, <4>2, SleepLemma
      <4>4. QED
        BY <4>1, <4>3, Zenon
    <3>3. TypeOK' /\ LockOwned' /\ SpinlocksOwned' /\ NoLostWakeup'
      <4>1. TypeOK'
        BY <2>8, <3>2 DEF lock_acquire_sleep
      <4>2. LockOwned' /\ NoLostWakeup'
        BY <2>8, <3>2 DEF lock_acquire_sleep
      <4>3. SpinlocksOwned'
        BY <2>8 DEF lock_acquire_sleep
      <4>4. QED
        BY <4>1, <4>2, <4>3
    <3>4. SleepersAsleep'
      BY <2>8, <3>2, SleepersType DEF lock_acquire_sleep
    <3>5. QED
      BY <3>3, <3>4
  <2>9. ASSUME NEW t \in Threads, lock_release_spin(t) PROVE SynchInv'
    BY <2>9 DEF lock_release_spin
  <2>10. ASSUME NEW t \in Threads, lock_release_body(t) PROVE SynchInv'
    <3> DEFINE woken == FirstSleeper(lk_wchan)
    <3>1. /\ lk_wchan' \in Seq(Threads)
          /\ Distinct(lk_wchan')
          /\ Sleepers(lk_wchan') = Sleepers(lk_wchan) \ woken
          /\ woken \subseteq Sleepers(lk_wchan)
          /\ lk_wchan # <<>> => woken = {Head(lk_wchan)} /\ Head(lk_wchan)
              \in Threads
          /\ lk_wchan = <<>> => lk_wchan' = <<>>
      BY <2>10, WakeoneLemma, SleepersType DEF lock_release_body
    <3>2. \A u \in woken : u \in Threads /\ u # t /\ pc[u] = "acq_asleep"
      BY <2>10, <3>1, SleepersType DEF lock_release_body, GotoAndWake
    <3> HIDE DEF woken
    <3>3. /\ pc[t] = "rel_body" /\ pc'[t] = ret[t]
          /\ \A u \in Threads : u # t => pc'[u] = IF u \in woken THEN
              "acq_spin" ELSE pc[u]
          /\ pc' \in [Threads -> Locations]
      BY <2>10 DEF lock_release_body, GotoAndWake, woken
    <3>4. /\ lk_holder' = NULL /\ available' = TRUE /\ lk_spinlock' = NULL
          /\ UNCHANGED <<cv_wchan, cv_spinlock, arg, ret>>
          /\ lk_holder = t
      BY <2>10, <3>3 DEF lock_release_body
    <3>5. TypeOK'
      BY <3>1, <3>3, <3>4
    <3>6. LockOwned'
      BY <3>2, <3>3, <3>4
    <3>7. SpinlocksOwned'
      <4>1. lk_spinlock = t
        BY <3>3
      <4>2. \A u \in Threads : pc'[u] \notin {"acq_body", "rel_body"}
        BY <3>2, <3>3, <4>1
      <4>3. \A u \in Threads : (HasCvSpinlock(u)' => HasCvSpinlock(u))
                            /\ (InCvCall(u)' => InCvCall(u))
        BY <3>2, <3>3, <3>4
      <4>4. QED
        BY <3>4, <4>2, <4>3
    <3>8. SleepersAsleep'
      BY <3>1, <3>2, <3>3, <3>4, SleepersType
    <3>9. NoLostWakeup'
      BY <3>1, <3>2, <3>3, <3>4
    <3>10. QED
      BY <3>5, <3>6, <3>7, <3>8, <3>9
  <2>11. ASSUME NEW t \in Threads, cv_wait_spin(t) PROVE SynchInv'
    BY <2>11 DEF cv_wait_spin
  <2>12. ASSUME NEW t \in Threads, cv_wait_sleep(t) PROVE SynchInv'
    <3> DEFINE c == arg[t]
    <3>1. c \in CVs /\ t \notin Sleepers(cv_wchan[c])
      BY <2>12 DEF cv_wait_sleep
    <3>2. /\ cv_wchan'[c] \in Seq(Threads)
          /\ Sleepers(cv_wchan'[c]) = Sleepers(cv_wchan[c]) \cup {t}
          /\ Distinct(cv_wchan'[c])
          /\ \A d \in CVs : d # c => cv_wchan'[d] = cv_wchan[d]
          /\ cv_wchan' \in [CVs -> Seq(Threads)]
      <4> DEFINE w == cv_wchan[c]
      <4>1. /\ w \in Seq(Threads) /\ Distinct(w) /\ t \notin Sleepers(w)
            /\ cv_wchan' = [cv_wchan EXCEPT ![c] = wchan_sleep(w, t)]
        BY <2>12, <3>1 DEF cv_wait_sleep
      <4>2. /\ Sleepers(w) = Sleepers(cv_wchan[c])
            /\ cv_wchan'[c] = wchan_sleep(w, t)
        BY <3>1, <4>1
      <4> HIDE DEF w, c
      <4>3. /\ wchan_sleep(w, t) \in Seq(Threads)
            /\ Sleepers(wchan_sleep(w, t)) = Sleepers(w) \cup {t}
            /\ Distinct(wchan_sleep(w, t))
        BY <4>1, SleepLemma
      <4>4. QED
        BY <3>1, <4>1, <4>2, <4>3
    <3>3. TypeOK' /\ LockOwned' /\ SpinlocksOwned' /\ NoLostWakeup'
      BY <2>12, <3>1, <3>2 DEF cv_wait_sleep
    <3>4. SleepersAsleep'
      BY <2>12, <3>1, <3>2, SleepersType DEF cv_wait_sleep
    <3>5. QED
      BY <3>3, <3>4
  <2>13. ASSUME NEW t \in Threads, cv_wait_wake(t) PROVE SynchInv'
    BY <2>13 DEF cv_wait_wake
  <2>14. ASSUME NEW t \in Threads, cv_wait_reacquire(t) PROVE SynchInv'
    BY <2>14 DEF cv_wait_reacquire
  <2>15. ASSUME NEW t \in Threads, cv_signal_spin(t) PROVE SynchInv'
    BY <2>15 DEF cv_signal_spin
  <2>16. ASSUME NEW t \in Threads, cv_signal_body(t) PROVE SynchInv'
    <3> DEFINE c == arg[t]
               woken == FirstSleeper(cv_wchan[c])
    <3>1. c \in CVs /\ pc[t] = "sig_body"
      BY <2>16 DEF cv_signal_body, GotoAndWake
    <3>2. /\ cv_wchan'[c] \in Seq(Threads)
          /\ Distinct(cv_wchan'[c])
          /\ Sleepers(cv_wchan'[c]) = Sleepers(cv_wchan[c]) \ woken
          /\ \A d \in CVs : d # c => cv_wchan'[d] = cv_wchan[d]
          /\ cv_wchan' \in [CVs -> Seq(Threads)]
      BY <2>16, <3>1, WakeoneLemma DEF cv_signal_body
    <3>3. \A u \in woken : u \in Threads /\ u # t /\ pc[u] = "cvw_asleep"
        /\ arg[u] = c
      <4>1. woken \subseteq Sleepers(cv_wchan[c])
        BY <3>1, WakeoneLemma
      <4>2. QED
        BY <3>1, <4>1, SleepersType
    <3>4. /\ pc'[t] = "in"
          /\ \A u \in Threads : u # t => pc'[u] = IF u \in woken THEN
              "cvw_wake" ELSE pc[u]
          /\ pc' \in [Threads -> Locations]
          /\ cv_spinlock' = [cv_spinlock EXCEPT ![c] = NULL]
          /\ UNCHANGED <<lockVars, arg, ret>>
      BY <2>16 DEF cv_signal_body, GotoAndWake
    <3> HIDE DEF c, woken
    <3>5. TypeOK' /\ LockOwned'
      BY <3>1, <3>2, <3>3, <3>4
    <3>6. SpinlocksOwned'
      <4>1. \A u \in Threads : (HasCvSpinlock(u)' => u # t /\ HasCvSpinlock(u))
                            /\ (InCvCall(u)' => InCvCall(u))
        BY <3>1, <3>3, <3>4
      <4>2. cv_spinlock[c] = t
        BY <3>1 DEF c
      <4>3. QED
        BY <3>1, <3>3, <3>4, <4>1, <4>2
    <3>7. SleepersAsleep'
      <4>1. ASSUME NEW u \in Sleepers(lk_wchan) PROVE pc'[u] = "acq_asleep"
        <5>1. u \in Threads /\ pc[u] = "acq_asleep"
          BY SleepersType
        <5>2. u # t /\ u \notin woken
          BY <3>1, <3>3, <5>1
        <5>3. QED
          BY <3>4, <5>1, <5>2
      <4>2. ASSUME NEW d \in CVs, NEW u \in Sleepers(cv_wchan'[d])
            PROVE  pc'[u] = "cvw_asleep" /\ arg[u] = d
        <5>1. u \in Sleepers(cv_wchan[d]) /\ u \notin woken
          BY <3>2, <3>3, <4>2
        <5>2. u \in Threads /\ pc[u] = "cvw_asleep" /\ arg[u] = d
          BY <5>1, SleepersType
        <5>3. QED
          BY <3>1, <3>4, <5>1, <5>2
      <4>3. QED
        BY <3>2, <3>4, <4>1, <4>2
    <3>8. NoLostWakeup'
      BY <3>1, <3>3, <3>4
    <3>9. QED
      BY <3>5, <3>6, <3>7, <3>8
  <2>17. ASSUME NEW t \in Threads, cv_broadcast_spin(t) PROVE SynchInv'
    BY <2>17 DEF cv_broadcast_spin
  <2>18. ASSUME NEW t \in Threads, cv_broadcast_body(t) PROVE SynchInv'
    <3> DEFINE c == arg[t]
               woken == Sleepers(cv_wchan[c])
    <3>1. c \in CVs /\ pc[t] = "bc_body"
      BY <2>18 DEF cv_broadcast_body, GotoAndWake
    <3>2. /\ cv_wchan'[c] \in Seq(Threads)
          /\ Distinct(cv_wchan'[c])
          /\ Sleepers(cv_wchan'[c]) = Sleepers(cv_wchan[c]) \ woken
          /\ \A d \in CVs : d # c => cv_wchan'[d] = cv_wchan[d]
          /\ cv_wchan' \in [CVs -> Seq(Threads)]
      BY <2>18, <3>1, WakeallLemma DEF cv_broadcast_body
    <3>3. \A u \in woken : u \in Threads /\ u # t /\ pc[u] = "cvw_asleep"
        /\ arg[u] = c
      <4>1. woken \subseteq Sleepers(cv_wchan[c])
        BY <3>1, WakeoneLemma
      <4>2. QED
        BY <3>1, <4>1, SleepersType
    <3>4. /\ pc'[t] = "in"
          /\ \A u \in Threads : u # t => pc'[u] = IF u \in woken THEN
              "cvw_wake" ELSE pc[u]
          /\ pc' \in [Threads -> Locations]
          /\ cv_spinlock' = [cv_spinlock EXCEPT ![c] = NULL]
          /\ UNCHANGED <<lockVars, arg, ret>>
      BY <2>18 DEF cv_broadcast_body, GotoAndWake
    <3> HIDE DEF c, woken
    <3>5. TypeOK' /\ LockOwned'
      BY <3>1, <3>2, <3>3, <3>4
    <3>6. SpinlocksOwned'
      <4>1. \A u \in Threads : (HasCvSpinlock(u)' => u # t /\ HasCvSpinlock(u))
                            /\ (InCvCall(u)' => InCvCall(u))
        BY <3>1, <3>3, <3>4
      <4>2. cv_spinlock[c] = t
        BY <3>1 DEF c
      <4>3. QED
        BY <3>1, <3>3, <3>4, <4>1, <4>2
    <3>7. SleepersAsleep'
      <4>1. ASSUME NEW u \in Sleepers(lk_wchan) PROVE pc'[u] = "acq_asleep"
        <5>1. u \in Threads /\ pc[u] = "acq_asleep"
          BY SleepersType
        <5>2. u # t /\ u \notin woken
          BY <3>1, <3>3, <5>1
        <5>3. QED
          BY <3>4, <5>1, <5>2
      <4>2. ASSUME NEW d \in CVs, NEW u \in Sleepers(cv_wchan'[d])
            PROVE  pc'[u] = "cvw_asleep" /\ arg[u] = d
        <5>1. u \in Sleepers(cv_wchan[d]) /\ u \notin woken
          BY <3>2, <3>3, <4>2
        <5>2. u \in Threads /\ pc[u] = "cvw_asleep" /\ arg[u] = d
          BY <5>1, SleepersType
        <5>3. QED
          BY <3>1, <3>4, <5>1, <5>2
      <4>3. QED
        BY <3>2, <3>4, <4>1, <4>2
    <3>8. NoLostWakeup'
      BY <3>1, <3>3, <3>4
    <3>9. QED
      BY <3>5, <3>6, <3>7, <3>8
  <2>19. CASE UNCHANGED vars
    BY <2>19 DEF vars, Distinct, Sleepers
  <2>20. QED
    BY <2>1, <2>2, <2>3, <2>4, <2>5, <2>6, <2>7, <2>8, <2>9, <2>10, <2>11,
        <2>12, <2>13, <2>14, <2>15, <2>16, <2>17, <2>18, <2>19 DEF Next, Call,
        Run
<1>3. QED
  BY <1>1, <1>2, PTL DEF Spec


(* The lock excludes, and the KASSERTs on its holder never fire.           *)
THEOREM SynchMutualExclusion == Spec => []MutualExclusion
<1>1. SynchInv => MutualExclusion
  BY SynchConstants
     DEF SynchInv, TypeOK, LockOwned, MutualExclusion, InLock
<1>2. QED
  BY <1>1, SynchInvariant, PTL

(* lock_release never leaves the lock free with sleepers and nobody coming. *)
THEOREM SynchNoLostWakeup == Spec => []NoLostWakeup
<1>1. SynchInv => NoLostWakeup
  BY DEF SynchInv
<1>2. QED
  BY <1>1, SynchInvariant, PTL

----------------------------------------------------------------------------
(* The monitor *)

(* Who is waiting on a cv, seen through the steps that matter: asleep on   *)
(* its channel, or about to be.                                            *)
LEMMA WaitingType ==
  ASSUME SynchInv, NEW c \in CVs
  PROVE  /\ WaitingOn(c) \subseteq Threads
         /\ \A u \in WaitingOn(c) : pc[u] \in {"cvw_sleep", "cvw_asleep"}
             /\ arg[u] = c
BY SleepersType DEF SynchInv, TypeOK, SleepersAsleep, WaitingOn

(* While a thread has a cv's spinlock in cv_signal or cv_broadcast nobody  *)
(* is between freeing the lock and sleeping on that cv.                    *)
LEMMA NobodyInBetween ==
  ASSUME SynchInv, NEW t \in Threads, pc[t] \in {"sig_body", "bc_body"}
  PROVE  /\ arg[t] \in CVs
         /\ lk_holder = t
         /\ WaitingOn(arg[t]) = Sleepers(cv_wchan[arg[t]])
         /\ \A u \in Threads : pc[u] = "cvw_sleep" => arg[u] # arg[t]
BY DEF SynchInv, SpinlocksOwned, LockOwned, InLock, HasCvSpinlock,
    InCvCall, WaitingOn

(* What cv_signal's and cv_broadcast's critical sections do to the waiting *)
(* threads.                                                                *)
LEMMA WakeStep ==
  ASSUME SynchInv, NEW t \in Threads, NEW woken, NEW p,
         pc[t] = p, p \in {"sig_body", "bc_body"},
         woken \subseteq Sleepers(cv_wchan[arg[t]]),
         GotoAndWake(t, p, "in", woken, "cvw_wake"),
         NEW w \in Seq(Threads),
         Sleepers(w) = Sleepers(cv_wchan[arg[t]]) \ woken,
         cv_wchan' = [cv_wchan EXCEPT ![arg[t]] = w],
         arg' = arg
  PROVE  /\ WaitingOn(arg[t])' = WaitingOn(arg[t]) \ woken
         /\ \A d \in CVs : d # arg[t] => WaitingOn(d)' = WaitingOn(d)
<1> DEFINE c == arg[t]
<1>1. /\ c \in CVs
      /\ WaitingOn(c) = Sleepers(cv_wchan[c])
      /\ \A u \in Threads : pc[u] = "cvw_sleep" => arg[u] # c
  BY NobodyInBetween
<1>2. /\ cv_wchan'[c] = w
      /\ \A d \in CVs : d # c => cv_wchan'[d] = cv_wchan[d]
  BY <1>1 DEF SynchInv, TypeOK
<1>3. \A u \in woken : pc[u] = "cvw_asleep"
  BY <1>1 DEF SynchInv, SleepersAsleep
<1>4. \A u \in Threads : pc'[u] = "cvw_sleep" <=> pc[u] = "cvw_sleep"
  BY <1>3 DEF GotoAndWake
<1> HIDE DEF c
<1>5. \A d \in CVs : WaitingOn(d)' = Sleepers(cv_wchan'[d]) \cup {u \in
    Threads : pc[u] = "cvw_sleep" /\ arg[u] = d}
  BY <1>4 DEF WaitingOn
<1>6. WaitingOn(c)' = WaitingOn(c) \ woken
  BY <1>1, <1>2, <1>5 DEF c
<1>7. \A d \in CVs : d # c => WaitingOn(d)' = WaitingOn(d)
  BY <1>2, <1>5 DEF WaitingOn
<1>8. QED
  BY <1>6, <1>7 DEF c


(* The critical section of cv_signal lets one waiting thread go.           *)
LEMMA SignalStep ==
  ASSUME SynchInv, NEW t \in Threads, cv_signal_body(t)
  PROVE  /\ arg[t] \in CVs /\ lk_holder = t
         /\ \/ WaitingOn(arg[t]) = {} /\ WaitingOn(arg[t])' = {}
            \/ \E u \in WaitingOn(arg[t]) :
                 WaitingOn(arg[t])' = WaitingOn(arg[t]) \ {u}
         /\ \A d \in CVs : d # arg[t] => WaitingOn(d)' = WaitingOn(d)
<1> DEFINE w == cv_wchan[arg[t]]
<1>1. /\ pc[t] = "sig_body"
      /\ GotoAndWake(t, "sig_body", "in", FirstSleeper(w), "cvw_wake")
      /\ cv_wchan' = [cv_wchan EXCEPT ![arg[t]] = wchan_wakeone(w)]
      /\ arg' = arg
  BY DEF cv_signal_body, GotoAndWake, SynchInv, TypeOK
<1>2. /\ arg[t] \in CVs /\ lk_holder = t
      /\ WaitingOn(arg[t]) = Sleepers(w)
  BY <1>1, NobodyInBetween
<1>3. w \in Seq(Threads) /\ Distinct(w)
  BY <1>2 DEF SynchInv, TypeOK, SleepersAsleep
<1> HIDE DEF w
<1>4. /\ wchan_wakeone(w) \in Seq(Threads)
      /\ Sleepers(wchan_wakeone(w)) = Sleepers(w) \ FirstSleeper(w)
      /\ FirstSleeper(w) \subseteq Sleepers(w)
      /\ w # <<>> => FirstSleeper(w) = {Head(w)} /\ Head(w) \in Sleepers(w)
      /\ w = <<>> => Sleepers(w) = {}
  BY <1>3, WakeoneLemma
<1>5. /\ WaitingOn(arg[t])' = WaitingOn(arg[t]) \ FirstSleeper(w)
      /\ \A d \in CVs : d # arg[t] => WaitingOn(d)' = WaitingOn(d)
  BY <1>1, <1>4, WakeStep DEF w
<1>6. QED
  BY <1>2, <1>4, <1>5

(* The critical section of cv_broadcast lets every waiting thread go.      *)
LEMMA BroadcastStep ==
  ASSUME SynchInv, NEW t \in Threads, cv_broadcast_body(t)
  PROVE  /\ arg[t] \in CVs /\ lk_holder = t
         /\ WaitingOn(arg[t])' = {}
         /\ \A d \in CVs : d # arg[t] => WaitingOn(d)' = WaitingOn(d)
<1> DEFINE w == cv_wchan[arg[t]]
<1>1. /\ pc[t] = "bc_body"
      /\ GotoAndWake(t, "bc_body", "in", Sleepers(w), "cvw_wake")
      /\ cv_wchan' = [cv_wchan EXCEPT ![arg[t]] = <<>>]
      /\ arg' = arg
  BY DEF cv_broadcast_body, GotoAndWake
<1>2. /\ arg[t] \in CVs /\ lk_holder = t
      /\ WaitingOn(arg[t]) = Sleepers(w)
  BY <1>1, NobodyInBetween
<1>3. <<>> \in Seq(Threads) /\ Sleepers(<<>>) = Sleepers(w) \ Sleepers(w)
  BY WakeallLemma
<1>4. /\ WaitingOn(arg[t])' = WaitingOn(arg[t]) \ Sleepers(w)
      /\ \A d \in CVs : d # arg[t] => WaitingOn(d)' = WaitingOn(d)
  BY <1>1, <1>3, WakeStep
<1>5. QED
  BY <1>2, <1>4

(* cv_signal and cv_broadcast reach the threads waiting on the cv.         *)
THEOREM SynchNoMissedSignal == Spec => NoMissedSignal
<1>1. SynchInv /\ [Next]_vars => [\A t \in Threads :
    SignalReachesWaiter(t)]_vars
  <2> SUFFICES ASSUME SynchInv, Next, NEW t \in Threads, pc'[t] = "in"
               PROVE  /\ pc[t] = "sig_body" =>
                           \/ WaitingOn(arg[t]) = {}
                           \/ \E u \in WaitingOn(arg[t]) :
                                WaitingOn(arg[t])' = WaitingOn(arg[t]) \ {u}
                      /\ pc[t] = "bc_body" => WaitingOn(arg[t])' = {}
    BY DEF SignalReachesWaiter
  <2>1. ASSUME pc[t] = "sig_body" PROVE cv_signal_body(t)
    BY <2>1 DEF Next, Call, Run, SynchInv, TypeOK, SleepersAsleep,
        Locations, Goto, GotoAndWake, lock_acquire, lock_release, cv_wait,
        cv_signal, cv_broadcast, lock_acquire_spin, lock_acquire_take,
        lock_acquire_sleep, lock_release_spin, lock_release_body,
        cv_wait_spin, cv_wait_sleep, cv_wait_wake, cv_wait_reacquire,
        cv_signal_spin, cv_broadcast_spin, cv_broadcast_body, cv_signal_body
  <2>2. ASSUME pc[t] = "bc_body" PROVE cv_broadcast_body(t)
    BY <2>2 DEF Next, Call, Run, SynchInv, TypeOK, SleepersAsleep,
        Locations, Goto, GotoAndWake, lock_acquire, lock_release, cv_wait,
        cv_signal, cv_broadcast, lock_acquire_spin, lock_acquire_take,
        lock_acquire_sleep, lock_release_spin, lock_release_body,
        cv_wait_spin, cv_wait_sleep, cv_wait_wake, cv_wait_reacquire,
        cv_signal_spin, cv_broadcast_spin, cv_broadcast_body, cv_signal_body
  <2>3. QED
    BY <2>1, <2>2, SignalStep, BroadcastStep
<1>2. QED
  BY <1>1, SynchInvariant, PTL DEF Spec, NoMissedSignal

(* lock_acquire, lock_release, cv_wait, cv_signal and cv_broadcast, at the *)
(* granularity of their spinlocks, implement the monitor's atomic steps.   *)
THEOREM SynchImplementsMonitor == Spec => ImplementsMonitor
<1>1. Init => Mon!Init
  BY DEF Init, Mon!Init, WaitingOn, Sleepers
<1>2. SynchInv /\ [Next]_vars => [Mon!Next]_(Mon!vars)
  <2> SUFFICES ASSUME SynchInv, [Next]_vars
               PROVE  Mon!Next \/ UNCHANGED Mon!vars
    OBVIOUS
  <2> DEFINE waiting == [c \in CVs |-> WaitingOn(c)]
  <2>1. ASSUME NEW t \in Threads, lock_acquire(t) PROVE UNCHANGED Mon!vars
    BY <2>1 DEF lock_acquire, Goto, lockVars, cvVars, Mon!vars, WaitingOn,
        SynchInv, TypeOK, SpinlocksOwned, HasCvSpinlock, InCvCall
  <2>2. ASSUME NEW t \in Threads, lock_release(t) PROVE UNCHANGED Mon!vars
    BY <2>2 DEF lock_release, Goto, lockVars, cvVars, Mon!vars, WaitingOn,
        SynchInv, TypeOK, SpinlocksOwned, HasCvSpinlock, InCvCall
  <2>3. ASSUME NEW t \in Threads, NEW c \in CVs, cv_wait(t, c) PROVE
      UNCHANGED Mon!vars
    BY <2>3 DEF cv_wait, Goto, lockVars, cvVars, Mon!vars, WaitingOn,
        SynchInv, TypeOK, SpinlocksOwned, HasCvSpinlock, InCvCall
  <2>4. ASSUME NEW t \in Threads, NEW c \in CVs, cv_signal(t, c) PROVE
      UNCHANGED Mon!vars
    BY <2>4 DEF cv_signal, Goto, lockVars, cvVars, Mon!vars, WaitingOn,
        SynchInv, TypeOK, SpinlocksOwned, HasCvSpinlock, InCvCall
  <2>5. ASSUME NEW t \in Threads, NEW c \in CVs, cv_broadcast(t, c) PROVE
      UNCHANGED Mon!vars
    BY <2>5 DEF cv_broadcast, Goto, lockVars, cvVars, Mon!vars, WaitingOn,
        SynchInv, TypeOK, SpinlocksOwned, HasCvSpinlock, InCvCall
  <2>6. ASSUME NEW t \in Threads, lock_acquire_spin(t) PROVE UNCHANGED Mon!vars
    BY <2>6 DEF lock_acquire_spin, Goto, lockVars, cvVars, Mon!vars,
        WaitingOn, SynchInv, TypeOK, SpinlocksOwned, HasCvSpinlock, InCvCall
  <2>7. ASSUME NEW t \in Threads, lock_acquire_sleep(t) PROVE UNCHANGED Mon!vars
    BY <2>7 DEF lock_acquire_sleep, Goto, lockVars, cvVars, Mon!vars,
        WaitingOn, SynchInv, TypeOK, SpinlocksOwned, HasCvSpinlock, InCvCall
  <2>8. ASSUME NEW t \in Threads, lock_release_spin(t) PROVE UNCHANGED Mon!vars
    BY <2>8 DEF lock_release_spin, Goto, lockVars, cvVars, Mon!vars,
        WaitingOn, SynchInv, TypeOK, SpinlocksOwned, HasCvSpinlock, InCvCall
  <2>9. ASSUME NEW t \in Threads, cv_wait_spin(t) PROVE UNCHANGED Mon!vars
    BY <2>9 DEF cv_wait_spin, Goto, lockVars, cvVars, Mon!vars, WaitingOn,
        SynchInv, TypeOK, SpinlocksOwned, HasCvSpinlock, InCvCall
  <2>10. ASSUME NEW t \in Threads, cv_wait_wake(t) PROVE UNCHANGED Mon!vars
    BY <2>10 DEF cv_wait_wake, Goto, lockVars, cvVars, Mon!vars,
        WaitingOn, SynchInv, TypeOK, SpinlocksOwned, HasCvSpinlock, InCvCall
  <2>11. ASSUME NEW t \in Threads, cv_wait_reacquire(t) PROVE UNCHANGED Mon!vars
    BY <2>11 DEF cv_wait_reacquire, Goto, lockVars, cvVars, Mon!vars,
        WaitingOn, SynchInv, TypeOK, SpinlocksOwned, HasCvSpinlock, InCvCall
  <2>12. ASSUME NEW t \in Threads, cv_signal_spin(t) PROVE UNCHANGED Mon!vars
    BY <2>12 DEF cv_signal_spin, Goto, lockVars, cvVars, Mon!vars,
        WaitingOn, SynchInv, TypeOK, SpinlocksOwned, HasCvSpinlock, InCvCall
  <2>13. ASSUME NEW t \in Threads, cv_broadcast_spin(t) PROVE UNCHANGED Mon!vars
    BY <2>13 DEF cv_broadcast_spin, Goto, lockVars, cvVars, Mon!vars,
        WaitingOn, SynchInv, TypeOK, SpinlocksOwned, HasCvSpinlock, InCvCall
  <2>14. ASSUME NEW t \in Threads, lock_acquire_take(t) PROVE Mon!Enter(t)
    <3>1. lk_holder = NULL /\ lk_holder' = t /\ pc[t] = "acq_body"
      BY <2>14 DEF lock_acquire_take, Goto, SynchInv, LockOwned
    <3>2. \A c \in CVs : t \notin WaitingOn(c) /\ WaitingOn(c)' = WaitingOn(c)
      BY <2>14, <3>1, WaitingType DEF lock_acquire_take, Goto, cvVars,
          WaitingOn, SynchInv, TypeOK
    <3>3. QED
      BY <3>1, <3>2 DEF Mon!Enter, Mon!IsWaiting
  <2>15. ASSUME NEW t \in Threads, lock_release_body(t)
        PROVE  Mon!Exit(t) \/ \E c \in CVs : Mon!Wait(t, c)
    <3>1. /\ pc[t] = "rel_body" /\ pc'[t] = ret[t]
          /\ lk_holder = t /\ lk_holder' = NULL
          /\ UNCHANGED <<cv_wchan, arg>>
      BY <2>15 DEF lock_release_body, GotoAndWake, cvVars, SynchInv,
          LockOwned, InLock
    <3>2. \A u \in Threads : u # t => (pc'[u] = "cvw_sleep" <=> pc[u] =
        "cvw_sleep")
      <4>1. \A u \in FirstSleeper(lk_wchan) : pc[u] = "acq_asleep"
        BY WakeoneLemma DEF SynchInv, TypeOK, SleepersAsleep
      <4>2. QED
        BY <2>15, <4>1 DEF lock_release_body, GotoAndWake
    <3>3. CASE ret[t] = "out"
      <4>1. \A c \in CVs : WaitingOn(c)' = WaitingOn(c)
        BY <3>1, <3>2, <3>3 DEF WaitingOn
      <4>2. QED
        BY <3>1, <4>1 DEF Mon!Exit
    <3>4. CASE ret[t] = "cvw_sleep"
      <4>1. arg[t] \in CVs
        BY <3>1, <3>4 DEF SynchInv, SpinlocksOwned, InCvCall, HasCvSpinlock
      <4>2. WaitingOn(arg[t])' = WaitingOn(arg[t]) \cup {t}
        BY <3>1, <3>2, <3>4 DEF WaitingOn
      <4>3. \A d \in CVs : d # arg[t] => WaitingOn(d)' = WaitingOn(d)
        BY <3>1, <3>2, <3>4 DEF WaitingOn
      <4>4. waiting' = [waiting EXCEPT ![arg[t]] = waiting[arg[t]] \cup {t}]
        BY <3>1, <4>1, <4>2, <4>3
      <4>5. QED
        BY <3>1, <4>1, <4>4 DEF Mon!Wait
    <3>5. QED
      BY <3>3, <3>4 DEF SynchInv, TypeOK
  <2>16. ASSUME NEW t \in Threads, cv_wait_sleep(t) PROVE UNCHANGED Mon!vars
    <3> DEFINE c == arg[t]
    <3>1. c \in CVs /\ cv_wchan[c] \in Seq(Threads) /\ pc[t] = "cvw_sleep"
      BY <2>16 DEF cv_wait_sleep, Goto, SynchInv, TypeOK, SpinlocksOwned,
          InCvCall, HasCvSpinlock
    <3>2. Sleepers(wchan_sleep(cv_wchan[c], t)) = Sleepers(cv_wchan[c]) \cup {t}
      BY <3>1, SleepLemma
    <3>3. /\ Sleepers(cv_wchan'[c]) = Sleepers(cv_wchan[c]) \cup {t}
          /\ \A d \in CVs : d # c => cv_wchan'[d] = cv_wchan[d]
          /\ \A u \in Threads : pc'[u] = IF u = t THEN "cvw_asleep" ELSE pc[u]
          /\ UNCHANGED <<arg, lk_holder>>
      BY <2>16, <3>1, <3>2 DEF cv_wait_sleep, Goto, lockVars, SynchInv, TypeOK
    <3>4. \A d \in CVs : WaitingOn(d)' = WaitingOn(d)
      BY <3>1, <3>3 DEF WaitingOn
    <3>5. QED
      BY <3>3, <3>4 DEF Mon!vars
  <2>17. ASSUME NEW t \in Threads, cv_signal_body(t)
        PROVE  (\E c \in CVs : Mon!Signal(t, c)) \/ UNCHANGED Mon!vars
    <3>1. lk_holder' = lk_holder /\ arg' = arg
      BY <2>17 DEF cv_signal_body, lockVars
    <3>2. CASE WaitingOn(arg[t]) = {} /\ WaitingOn(arg[t])' = {}
      <4>1. \A d \in CVs : WaitingOn(d)' = WaitingOn(d)
        BY <2>17, <3>1, <3>2, SignalStep
      <4>2. QED
        BY <3>1, <4>1 DEF Mon!vars
    <3>3. ASSUME NEW u \in WaitingOn(arg[t]),
                 WaitingOn(arg[t])' = WaitingOn(arg[t]) \ {u}
          PROVE  \E c \in CVs : Mon!Signal(t, c)
      <4>1. /\ arg[t] \in CVs /\ lk_holder = t
            /\ \A d \in CVs : d # arg[t] => WaitingOn(d)' = WaitingOn(d)
        BY <2>17, SignalStep
      <4>2. waiting' = [waiting EXCEPT ![arg[t]] = waiting[arg[t]] \ {u}]
        BY <3>1, <3>3, <4>1
      <4>3. QED
        BY <3>1, <4>1, <4>2 DEF Mon!Signal
    <3>4. QED
      BY <2>17, <3>2, <3>3, SignalStep
  <2>18. ASSUME NEW t \in Threads, cv_broadcast_body(t)
        PROVE  \E c \in CVs : Mon!Broadcast(t, c)
    <3>1. lk_holder' = lk_holder /\ arg' = arg
      BY <2>18 DEF cv_broadcast_body, lockVars
    <3>2. /\ arg[t] \in CVs /\ lk_holder = t
          /\ WaitingOn(arg[t])' = {}
          /\ \A d \in CVs : d # arg[t] => WaitingOn(d)' = WaitingOn(d)
      BY <2>18, BroadcastStep
    <3>3. waiting' = [waiting EXCEPT ![arg[t]] = {}]
      BY <3>1, <3>2
    <3>4. QED
      BY <3>1, <3>2, <3>3 DEF Mon!Broadcast
  <2>19. CASE UNCHANGED vars
    BY <2>19 DEF vars, Mon!vars, WaitingOn
  <2>20. QED
    BY <2>1, <2>2, <2>3, <2>4, <2>5, <2>6, <2>7, <2>8, <2>9, <2>10, <2>11,
        <2>12, <2>13, <2>14, <2>15, <2>16, <2>17, <2>18, <2>19
       DEF Next, Call, Run, Mon!Next
<1>3. QED
  BY <1>1, <1>2, SynchInvariant, PTL DEF Spec, ImplementsMonitor, Mon!Spec

----------------------------------------------------------------------------
(* The semaphore.                                                          *)

(* A thread that starts, or goes back to, competing for the count is one   *)
(* contender more; a thread that stops is one less.                        *)
LEMMA ContenderCount ==
  ASSUME NEW C, IsFiniteSet(C), NEW t
  PROVE  /\ IsFiniteSet(C \cup {t}) /\ IsFiniteSet(C \ {t})
         /\ Cardinality(C) \in Nat
         /\ t \notin C => Cardinality(C \cup {t}) = Cardinality(C) + 1
         /\ t \in C => Cardinality(C \ {t}) = Cardinality(C) - 1
         /\ Cardinality(C) <= Cardinality(C \cup {t})
<1>1. IsFiniteSet(C \cup {t}) /\ IsFiniteSet(C \ {t})
  BY FS_AddElement, FS_RemoveElement
<1>2. Cardinality(C) \in Nat
  BY FS_CardinalityType
<1>3. t \notin C => Cardinality(C \cup {t}) = Cardinality(C) + 1
  BY FS_AddElement
<1>4. t \in C => Cardinality(C \ {t}) = Cardinality(C) - 1
  BY FS_RemoveElement
<1>5. t \in C => C \cup {t} = C
  OBVIOUS
<1>6. Cardinality(C) <= Cardinality(C \cup {t})
  <2>1. CASE t \in C
    <3>1. Cardinality(C \cup {t}) = Cardinality(C)
      BY <1>5, <2>1, Zenon
    <3>2. QED
      BY <1>2, <3>1
  <2>2. CASE t \notin C
    BY <1>2, <1>3, <2>2
  <2>3. QED
    BY <2>1, <2>2
<1>7. QED
  BY <1>1, <1>2, <1>3, <1>4, <1>6

(* So they can be counted.                                                *)
LEMMA ContendersFinite == IsFiniteSet(Contenders)
<1>1. Contenders \subseteq Threads
  BY DEF Contenders
<1>2. QED
  BY <1>1, FS_Subset, SemaphoreConstants

(* The inductive step, with the number of contenders of P as the measure   *)
(* that pays for the count.                                                *)
LEMMA SemStep == SemInv /\ [SemNext]_semVars => SemInv'
<1> SUFFICES ASSUME SemInv, [SemNext]_semVars PROVE SemInv'
  OBVIOUS
<1> USE SemaphoreConstants
      DEF SemInv, SemTypeOK, SemLocations, SpinlockOwned, SemSleepersAsleep
<1> DEFINE n == Cardinality(Contenders)
<1>0. IsFiniteSet(Contenders) /\ n \in Nat
  BY ContendersFinite, ContenderCount
<1>1. ASSUME NEW t \in Threads, Enter(t) PROVE SemInv'
  <2>1. SemTypeOK' /\ SpinlockOwned' /\ SemSleepersAsleep'
    BY <1>1, SleepersType DEF Enter, SemGoto
  <2>2. Contenders' = Contenders \/ Contenders' = Contenders \cup {t}
    BY <1>1 DEF Enter, SemGoto, Contenders
  <2>3. n' \in Nat /\ n <= n'
    <3>1. CASE Contenders' = Contenders
      BY <1>0, <3>1
    <3>2. CASE Contenders' = Contenders \cup {t}
      <4>1. /\ Cardinality(Contenders \cup {t}) \in Nat
            /\ n <= Cardinality(Contenders \cup {t})
        BY <1>0, ContenderCount
      <4>2. QED
        BY <3>2, <4>1
    <3>3. QED
      BY <2>2, <3>1, <3>2
  <2>4. UnitsHaveTakers'
    BY <1>0, <1>1, <2>3 DEF Enter, UnitsHaveTakers
  <2>5. QED
    BY <2>1, <2>4
<1>2. ASSUME NEW t \in Threads, Spin(t) PROVE SemInv'
  <2>1. SemTypeOK' /\ SpinlockOwned' /\ SemSleepersAsleep'
    BY <1>2, SleepersType DEF Spin, SemGoto
  <2>2. Contenders' = Contenders
    BY <1>2 DEF Spin, SemGoto, Contenders
  <2>3. UnitsHaveTakers'
    BY <1>2, <2>2 DEF Spin, UnitsHaveTakers
  <2>4. QED
    BY <2>1, <2>3
<1>3. ASSUME NEW t \in Threads, P_take(t) PROVE SemInv'
  <2>1. SemTypeOK' /\ SpinlockOwned' /\ SemSleepersAsleep'
    BY <1>3, SleepersType DEF P_take, SemGoto
  <2>2. t \in Contenders /\ Contenders' = Contenders \ {t}
    BY <1>3 DEF P_take, SemGoto, Contenders
  <2>3. n' = n - 1
    BY <1>0, <2>2, ContenderCount
  <2>4. UnitsHaveTakers'
    BY <1>0, <1>3, <2>3 DEF P_take, UnitsHaveTakers
  <2>5. QED
    BY <2>1, <2>4
<1>4. ASSUME NEW t \in Threads, P_sleep(t) PROVE SemInv'
  <2>1. t \notin Sleepers(sem_wchan)
    BY <1>4 DEF P_sleep, SemGoto
  <2>2. /\ sem_wchan' \in Seq(Threads) /\ Distinct(sem_wchan')
        /\ Sleepers(sem_wchan') = Sleepers(sem_wchan) \cup {t}
    BY <1>4, <2>1, SleepLemma DEF P_sleep
  <2>3. SemTypeOK' /\ SpinlockOwned' /\ SemSleepersAsleep'
    BY <1>4, <2>2, SleepersType DEF P_sleep, SemGoto
  <2>4. n' \in Nat
    <3>1. Contenders' = Contenders \ {t}
      BY <1>4 DEF P_sleep, SemGoto, Contenders
    <3>2. QED
      BY <1>0, <3>1, ContenderCount
  <2>5. UnitsHaveTakers'
    BY <1>4, <2>4 DEF P_sleep, UnitsHaveTakers
  <2>6. QED
    BY <2>3, <2>5
<1>5. ASSUME NEW t \in Threads, V_body(t) PROVE SemInv'
  <2>1. CASE sem_count' = 0
    <3>1. /\ panicked' = TRUE /\ UNCHANGED <<sem_wchan, sem_lock, sem_pc>>
          /\ sem_count' \in 0 .. MaxCount
      BY <1>5, <2>1 DEF V_body
    <3>2. QED
      BY <3>1 DEF UnitsHaveTakers, Distinct, Sleepers
  <2>2. CASE sem_count' # 0
    <3> DEFINE woken == FirstSleeper(sem_wchan)
    <3>1. /\ sem_pc[t] = "V_body" /\ ~ panicked /\ panicked' = panicked
          /\ sem_lock' = NULL
          /\ Wake(t, woken)
          /\ sem_wchan' = wchan_wakeone(sem_wchan)
      BY <1>5, <2>2 DEF V_body
    <3>2. sem_count' = sem_count + 1 /\ sem_count' \in 0 .. MaxCount
      BY <1>5, <2>2 DEF V_body
    <3>3. /\ sem_wchan' \in Seq(Threads) /\ Distinct(sem_wchan')
          /\ Sleepers(sem_wchan') = Sleepers(sem_wchan) \ woken
          /\ woken \subseteq Sleepers(sem_wchan)
          /\ sem_wchan # <<>> => woken = {Head(sem_wchan)}
          /\ sem_wchan = <<>> => sem_wchan' = <<>>
      BY <3>1, WakeoneLemma
    <3>4. \A u \in woken : u \in Threads /\ u # t /\ sem_pc[u] = "P_asleep"
      BY <3>1, <3>3, SleepersType
    <3> HIDE DEF woken
    <3>5. SemTypeOK' /\ SpinlockOwned'
      <4>1. SemTypeOK'
        BY <3>1, <3>2, <3>3 DEF Wake
      <4>2. sem_lock = t
        BY <3>1
      <4>3. \A u \in Threads : sem_pc'[u] \notin {"P_body", "V_body"}
        BY <3>1, <3>4, <4>2 DEF Wake
      <4>4. QED
        BY <4>1, <4>3
    <3>6. SemSleepersAsleep'
      BY <3>1, <3>3, <3>4, SleepersType DEF Wake
    <3>7. ASSUME sem_wchan' # <<>> PROVE n' = n + 1
      <4>1. PICK h : woken = {h}
        BY <3>3, <3>7
      <4>2. h \notin Contenders /\ Contenders' = Contenders \cup {h}
        BY <3>1, <3>4, <4>1 DEF Wake, Contenders
      <4>3. QED
        BY <1>0, <4>2, ContenderCount
    <3>8. UnitsHaveTakers'
      BY <1>0, <3>1, <3>2, <3>3, <3>7 DEF UnitsHaveTakers
    <3>9. QED
      BY <3>5, <3>6, <3>8
  <2>3. QED
    BY <2>1, <2>2
<1>6. CASE UNCHANGED semVars
  BY <1>6 DEF semVars, UnitsHaveTakers, Contenders, Distinct, Sleepers
<1>7. QED
  BY <1>1, <1>2, <1>3, <1>4, <1>5, <1>6 DEF SemNext, SemRun

(* The threads' places in P and V agree with the semaphore's spinlock and  *)
(* its wait channel, and a unit that was counted while threads slept has   *)
(* a thread on its way to take it.                                         *)
THEOREM SemaphoreInvariant == SemSpec => []SemInv
<1>1. SemInit => SemInv
  <2>1. SemInit => SemTypeOK /\ SpinlockOwned
    <3> SUFFICES ASSUME SemInit PROVE SemTypeOK /\ SpinlockOwned
      OBVIOUS
    <3>1. sem_count \in 0 .. MaxCount /\ sem_lock \in Threads \cup {NULL}
      BY SemaphoreConstants DEF SemInit
    <3>2. sem_pc \in [Threads -> SemLocations] /\ \A t \in Threads : sem_pc[t] = "out"
      BY DEF SemInit, SemLocations
    <3>3. sem_wchan \in Seq(Threads) /\ panicked \in BOOLEAN
      BY WakeallLemma DEF SemInit
    <3>4. QED
      BY <3>1, <3>2, <3>3 DEF SemTypeOK, SpinlockOwned
  <2>4. SemInit => SemSleepersAsleep
    BY WakeallLemma DEF SemInit, SemSleepersAsleep
  <2>2. SemInit => UnitsHaveTakers
    BY DEF SemInit, UnitsHaveTakers
  <2>3. QED
    BY <2>1, <2>2, <2>4 DEF SemInv
<1>2. QED
  BY <1>1, SemStep, PTL DEF SemSpec

(* Every unit of the count has a taker while threads sleep: no V is lost.  *)
THEOREM SemaphoreUnitsHaveTakers == SemSpec => []UnitsHaveTakers
<1>1. SemInv => UnitsHaveTakers
  BY DEF SemInv
<1>2. QED
  BY <1>1, SemaphoreInvariant, PTL

(* sem_count moves by one at a time, when a P takes a unit or a V adds     *)
(* one; the V that would wrap it to 0 stops the kernel instead.            *)
THEOREM SemaphoreCountMovesByOne == SemSpec => CountMovesByOne
<1> DEFINE Moved == \/ panicked'
                    \/ sem_count' = sem_count
                    \/ /\ sem_count' = sem_count + 1
                       /\ \E t \in Threads : sem_pc[t] = "V_body" /\ sem_pc'[t] = "out"
                    \/ /\ sem_count = sem_count' + 1
                       /\ \E t \in Threads : sem_pc[t] = "P_body" /\ sem_pc'[t] = "out"
<1>1. SemInv /\ [SemNext]_semVars => [Moved]_semVars
  <2>1. SUFFICES ASSUME SemInv, SemNext PROVE Moved
    OBVIOUS
  <2>2. sem_count \in 0 .. MaxCount /\ MaxCount \in Nat /\ sem_pc \in [Threads -> SemLocations]
    BY <2>1, SemaphoreConstants DEF SemInv, SemTypeOK
  <2>3. ASSUME NEW t \in Threads, Enter(t) \/ Spin(t) \/ P_sleep(t) PROVE Moved
    BY <2>3 DEF Enter, Spin, P_sleep
  <2>4. ASSUME NEW t \in Threads, P_take(t) PROVE Moved
    <3>1. sem_pc[t] = "P_body" /\ sem_pc'[t] = "out"
      BY <2>2, <2>4 DEF P_take, SemGoto
    <3>2. sem_count = sem_count' + 1
      BY <2>2, <2>4 DEF P_take
    <3>3. QED
      BY <3>1, <3>2
  <2>5. ASSUME NEW t \in Threads, V_body(t) PROVE Moved
    <3>1. CASE sem_count' = 0
      BY <2>5, <3>1 DEF V_body
    <3>2. CASE sem_count' # 0
      <4>1. sem_pc[t] = "V_body" /\ sem_pc'[t] = "out"
        BY <2>2, <2>5, <3>2 DEF V_body, Wake
      <4>2. sem_count' = sem_count + 1
        BY <2>2, <2>5, <3>2 DEF V_body
      <4>3. QED
        BY <4>1, <4>2
    <3>3. QED
      BY <3>1, <3>2
  <2>6. QED
    BY <2>1, <2>3, <2>4, <2>5 DEF SemNext, SemRun
<1>2. QED
  BY <1>1, SemaphoreInvariant, PTL DEF SemSpec, CountMovesByOne

============================================================================
