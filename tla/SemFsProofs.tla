---------------------------- MODULE SemFsProofs ----------------------------
(* Proofs about the semaphore file system, for any number of threads,      *)
(* names, places and units, as long as no last close falls inside a        *)
(* remove.                                                                 *)
EXTENDS SemFs, FiniteSetTheorems, NaturalsInduction, WellFoundedInduction, TLAPS

(* The inductive invariant: SemFsInv alone is not kept, since a last close *)
(* that cannot tell from sems_hasvnode whether others have the semaphore   *)
(* open would leave their descriptors dangling; SemOutlivesUsers alone is  *)
(* not either, since it says nothing of who is counted.                    *)
IInv == SemFsInv /\ SemOutlivesUsers

(* A set of numbers that is not empty has a least one.                     *)
LEMMA MinLemma ==
  ASSUME NEW S \in SUBSET Nat, S # {}
  PROVE  Min(S) \in S /\ \A j \in S : Min(S) <= j
<1> DEFINE R == {ss \in Nat \X Nat : ss[1] < ss[2]}
<1>1. IsWellFoundedOn(R, Nat)
  BY NatLessThanWellFounded, Zenon DEF OpToRel
<1>2. PICK i \in S : \A j \in S : ~ (<<j, i>> \in R)
  <2> HIDE DEF R
  <2>1. QED
    BY <1>1, WFMin
<1>3. ASSUME NEW j \in S PROVE i <= j
  <2>1. i \in Nat /\ j \in Nat
    OBVIOUS
  <2>2. j < i => <<j, i>> \in R
    BY <2>1
  <2>3. QED
    BY <1>2, <2>1, <2>2
<1>4. \E k \in S : \A j \in S : k <= j
  BY <1>3
<1>5. QED
  BY <1>4, Zenon DEF Min

(* One more or one less in a finite set.                                   *)
LEMMA CountOne ==
  ASSUME NEW S, IsFiniteSet(S), NEW x
  PROVE  /\ IsFiniteSet(S \cup {x}) /\ IsFiniteSet(S \ {x})
         /\ Cardinality(S) \in Nat
         /\ x \notin S => Cardinality(S \cup {x}) = Cardinality(S) + 1
         /\ x \in S => Cardinality(S \ {x}) = Cardinality(S) - 1
         /\ x \in S => Cardinality(S) >= 1
<1>1. IsFiniteSet(S \cup {x}) /\ IsFiniteSet(S \ {x})
  BY FS_AddElement, FS_RemoveElement
<1>2. /\ Cardinality(S) \in Nat
      /\ Cardinality(S \ {x}) \in Nat
  BY <1>1, FS_CardinalityType
<1>3. Cardinality(S \cup {x}) = IF x \in S THEN Cardinality(S) ELSE Cardinality(S) + 1
  BY FS_AddElement
<1>4. Cardinality(S \ {x}) = IF x \in S THEN Cardinality(S) - 1 ELSE Cardinality(S)
  BY FS_RemoveElement
<1>5. QED
  BY <1>1, <1>2, <1>3, <1>4

----------------------------------------------------------------------------
(* References *)

(* The threads that have the semaphore at place n open.                    *)
Openers(n) == {t \in Threads : fd[t] = n}

(* There are finitely many of them, before and after a step.              *)
LEMMA OpenersFinite ==
  ASSUME NEW n
  PROVE  /\ IsFiniteSet(Openers(n)) /\ Cardinality(Openers(n)) \in Nat
         /\ IsFiniteSet(Openers(n)') /\ Cardinality(Openers(n)') \in 0 .. Cardinality(Threads)
<1>1. Openers(n) \subseteq Threads /\ Openers(n)' \subseteq Threads
  BY DEF Openers
<1>2. IsFiniteSet(Threads) /\ Cardinality(Threads) \in Nat
  BY SemFsAssumption, FS_CardinalityType
<1>3. IsFiniteSet(Openers(n)) /\ IsFiniteSet(Openers(n)')
  BY <1>1, <1>2, FS_Subset
<1>4. Cardinality(Openers(n)) \in Nat /\ Cardinality(Openers(n)') \in Nat
  BY <1>3, FS_CardinalityType
<1>5. Cardinality(Openers(n)') <= Cardinality(Threads)
  BY <1>1, <1>2, FS_Subset
<1>6. QED
  BY <1>2, <1>3, <1>4, <1>5

(* A reference is taken for one more thread ...                            *)
LEMMA RefsUp ==
  ASSUME TypeOK, RefsCounted, NEW t \in Threads, NEW n \in Nums,
         fd[t] = NULL, fd' = [fd EXCEPT ![t] = n], refs' = [refs EXCEPT ![n] = @ + 1]
  PROVE  /\ RefsCounted' /\ refs' \in [Nums -> 0 .. Cardinality(Threads)]
         /\ fd' \in [Threads -> Nums \cup {NULL}]
<1> USE SemFsAssumption
<1>1. ASSUME NEW m \in Nums
      PROVE  /\ refs'[m] = Cardinality(Openers(m)')
             /\ refs'[m] \in 0 .. Cardinality(Threads)
  <2>1. refs[m] = Cardinality(Openers(m)) /\ refs[m] \in Int
    BY DEF RefsCounted, TypeOK, Openers
  <2>2. CASE m # n
    <3>1. Openers(m)' = Openers(m)
      BY <2>2 DEF Openers, TypeOK, Nums
    <3>2. refs'[m] = refs[m]
      BY <2>2 DEF TypeOK
    <3>3. QED
      BY <2>1, <3>1, <3>2, OpenersFinite
  <2>3. CASE m = n
    <3>1. Openers(m)' = Openers(m) \cup {t} /\ t \notin Openers(m)
      BY <2>3 DEF Openers, TypeOK, Nums
    <3>2. Cardinality(Openers(m)') = Cardinality(Openers(m)) + 1
      BY <3>1, OpenersFinite, CountOne
    <3>3. refs'[m] = refs[m] + 1
      BY <2>3 DEF TypeOK
    <3>4. QED
      BY <2>1, <3>2, <3>3, OpenersFinite
  <2>4. QED
    BY <2>2, <2>3
<1>2. RefsCounted'
  BY <1>1 DEF RefsCounted, Openers
<1>3. QED
  BY <1>1, <1>2 DEF TypeOK

(* ... or given up by the thread that had it.                              *)
LEMMA RefsDown ==
  ASSUME TypeOK, RefsCounted, NEW t \in Threads, NEW n \in Nums,
         fd[t] = n, fd' = [fd EXCEPT ![t] = NULL], refs' = [refs EXCEPT ![n] = @ - 1]
  PROVE  /\ RefsCounted' /\ refs' \in [Nums -> 0 .. Cardinality(Threads)]
         /\ fd' \in [Threads -> Nums \cup {NULL}]
<1> USE SemFsAssumption
<1>1. ASSUME NEW m \in Nums
      PROVE  /\ refs'[m] = Cardinality(Openers(m)')
             /\ refs'[m] \in 0 .. Cardinality(Threads)
  <2>1. refs[m] = Cardinality(Openers(m)) /\ refs[m] \in Int
    BY DEF RefsCounted, TypeOK, Openers
  <2>2. CASE m # n
    <3>1. Openers(m)' = Openers(m)
      <4>1. m # NULL
        BY DEF Nums
      <4>2. ASSUME NEW u \in Threads PROVE fd'[u] = m <=> fd[u] = m
        BY <2>2, <4>1 DEF TypeOK
      <4>3. QED
        BY <4>2 DEF Openers
    <3>2. refs'[m] = refs[m]
      BY <2>2 DEF TypeOK
    <3>3. QED
      BY <2>1, <3>1, <3>2, OpenersFinite
  <2>3. CASE m = n
    <3>1. Openers(m)' = Openers(m) \ {t} /\ t \in Openers(m)
      BY <2>3 DEF Openers, TypeOK, Nums
    <3>2. Cardinality(Openers(m)') = Cardinality(Openers(m)) - 1
      BY <3>1, OpenersFinite, CountOne
    <3>3. refs'[m] = refs[m] - 1
      BY <2>3 DEF TypeOK
    <3>4. QED
      BY <2>1, <3>2, <3>3, OpenersFinite
  <2>4. QED
    BY <2>2, <2>3
<1>2. RefsCounted'
  BY <1>1 DEF RefsCounted, Openers
<1>3. QED
  BY <1>1, <1>2 DEF TypeOK

(* Who has a semaphore open is counted; with one reference it is alone.    *)
LEMMA RefsPositive ==
  ASSUME TypeOK, RefsCounted, NEW n \in Nums, NEW t \in Threads, fd[t] = n
  PROVE  refs[n] >= 1 /\ (refs[n] <= 1 => \A u \in Threads : fd[u] = n => u = t)
<1>1. refs[n] = Cardinality(Openers(n)) /\ t \in Openers(n)
  BY DEF RefsCounted, Openers
<1>2. refs[n] >= 1
  BY <1>1, OpenersFinite, CountOne
<1>3. ASSUME refs[n] <= 1, NEW u \in Threads, fd[u] = n PROVE u = t
  <2>1. Cardinality(Openers(n)) = 1
    BY <1>1, <1>2, <1>3, OpenersFinite
  <2>2. PICK x : Openers(n) = {x}
    BY <2>1, OpenersFinite, FS_Singleton
  <2>3. QED
    BY <1>3, <1>1, <2>2 DEF Openers
<1>4. QED
  BY <1>2, <1>3

(* What nobody has open has no references.                                 *)
LEMMA RefsZero ==
  ASSUME TypeOK, RefsCounted, NEW n \in Nums, \A t \in Threads : fd[t] # n
  PROVE  refs[n] = 0
<1>1. Openers(n) = {}
  BY DEF Openers
<1>2. QED
  BY <1>1, FS_EmptySet DEF RefsCounted, Openers

----------------------------------------------------------------------------
(* Steps that leave the sleepers alone *)

(* Nobody goes to sleep or is woken: the queues stay right.                *)
LEMMA SleepersSame ==
  ASSUME SleepersQueued, cv' = cv,
         \A u \in Threads : /\ pc'[u] = "asleep" <=> pc[u] = "asleep"
                            /\ pc[u] = "asleep" => fd'[u] = fd[u] /\ resid'[u] = resid[u]
  PROVE  SleepersQueued'
<1> SUFFICES ASSUME NEW n \in Nums
             PROVE  /\ Range(cv'[n]) = {t \in Threads : pc'[t] = "asleep" /\ fd'[t] = n}
                    /\ IsInjective(cv'[n])
                    /\ \A t \in Range(cv'[n]) : resid'[t] > 0
  BY DEF SleepersQueued
<1>1. {t \in Threads : pc'[t] = "asleep" /\ fd'[t] = n}
        = {t \in Threads : pc[t] = "asleep" /\ fd[t] = n}
  OBVIOUS
<1>2. QED
  BY <1>1 DEF SleepersQueued

(* A vnode with one more reference: what semfs_getvnode changes.           *)
LEMMA GetVnode ==
  ASSUME IInv, NEW t \in Threads, NEW n \in Nums, NEW s \in Semaphores, s.hasvnode,
         fd[t] = NULL, sems' = [sems EXCEPT ![n] = s],
         refs' = [refs EXCEPT ![n] = @ + 1], fd' = [fd EXCEPT ![t] = n]
  PROVE  /\ RefsCounted' /\ refs' \in [Nums -> 0 .. Cardinality(Threads)]
         /\ fd' \in [Threads -> Nums \cup {NULL}]
         /\ sems' \in [Nums -> Semaphores \cup {NULL}]
         /\ \A m \in Nums : m # n => sems'[m] = sems[m] /\ refs'[m] = refs[m]
         /\ sems'[n] # NULL /\ sems'[n].hasvnode /\ sems'[n] = s
         /\ refs'[n] > 0
         /\ \A u \in Threads : u # t => fd'[u] = fd[u]
         /\ fd'[t] = n
<1> USE SemFsAssumption DEF IInv, SemFsInv
<1>1. /\ RefsCounted' /\ refs' \in [Nums -> 0 .. Cardinality(Threads)]
      /\ fd' \in [Threads -> Nums \cup {NULL}]
  BY RefsUp
<1>2. s # NULL
  OBVIOUS
<1>3. /\ sems' \in [Nums -> Semaphores \cup {NULL}]
      /\ \A m \in Nums : m # n => sems'[m] = sems[m]
      /\ sems'[n] = s
  BY DEF TypeOK
<1>4. /\ \A m \in Nums : m # n => refs'[m] = refs[m]
      /\ \A u \in Threads : u # t => fd'[u] = fd[u]
      /\ refs'[n] = refs[n] + 1 /\ fd'[t] = n
  BY DEF TypeOK
<1>5. refs[n] \in Nat
  BY FS_CardinalityType DEF TypeOK
<1>6. QED
  BY <1>1, <1>2, <1>3, <1>4, <1>5

(* A name that is there is opened.                                         *)
LEMMA LookupStep ==
  ASSUME IInv, NEW t \in Threads, NEW x \in Names, semfs_lookup(t, x)
  PROVE  IInv'
<1> USE SemFsAssumption DEF IInv, SemFsInv
<1>0. PICK n \in Nums : n = dents[x] /\ sems[n] # NULL
  BY DEF TypeOK, NothingOrphaned, semfs_lookup
<1>1. PICK w \in {"truncate", "ready"} : pc' = [pc EXCEPT ![t] = w]
  BY DEF Opened, semfs_lookup
<1>2. PICK s \in Semaphores : s = sems[n]
  BY <1>0 DEF TypeOK
<1>3. /\ pc[t] = "ready" /\ fd[t] = NULL
      /\ dirlock = NULL /\ UNCHANGED <<dents, cv, dirlock, lk, num, resid>>
  BY DEF semfs_lookup
<1>4. PICK s2 \in Semaphores : s2 = [s EXCEPT !.hasvnode = TRUE, !.linked = s.linked]
  <2>1. s.linked \in BOOLEAN /\ [s EXCEPT !.hasvnode = TRUE, !.linked = s.linked] \in Semaphores
    BY DEF Semaphores
  <2>2. QED
    BY <2>1
<1>5. s2.hasvnode /\ (s2.linked <=> s.linked)
  BY <1>4 DEF Semaphores
<1>6. /\ sems' = [sems EXCEPT ![n] = s2]
      /\ refs' = [refs EXCEPT ![n] = @ + 1] /\ fd' = [fd EXCEPT ![t] = n]
  BY <1>0, <1>2, <1>4 DEF semfs_lookup, semfs_getvnode, TypeOK
<1>7. /\ RefsCounted' /\ refs' \in [Nums -> 0 .. Cardinality(Threads)]
      /\ fd' \in [Threads -> Nums \cup {NULL}]
      /\ sems' \in [Nums -> Semaphores \cup {NULL}]
      /\ \A m \in Nums : m # n => sems'[m] = sems[m] /\ refs'[m] = refs[m]
      /\ sems'[n] # NULL /\ sems'[n].hasvnode /\ sems'[n] = s2
      /\ refs'[n] > 0
      /\ \A u \in Threads : u # t => fd'[u] = fd[u]
      /\ fd'[t] = n
  BY <1>3, <1>6, <1>5, GetVnode
<1>8. TypeOK'
  BY <1>1, <1>3, <1>7 DEF TypeOK, Calls
<1>9. /\ \A u \in Threads : u # t => pc'[u] = pc[u]
      /\ pc'[t] = w
  BY <1>1 DEF TypeOK
<1>10. SleepersQueued'
  BY <1>3, <1>7, <1>9, SleepersSame
<1>11. \A u \in Threads : num[u] = NULL
  BY <1>3 DEF CallsRelyOn
<1>12. CallsRelyOn'
  <2>1. ASSUME NEW u \in Threads
        PROVE  /\ num'[u] = NULL /\ dirlock' # u
               /\ pc'[u] \notin {"creat", "remove"}
               /\ pc'[u] \notin {"ready", "creat", "remove", "panic"} => fd'[u] # NULL
               /\ pc'[u] \in {"lkread", "lkwrite"} => u \in UserThreads
    <3>1. CASE u = t
      BY <3>1, <1>3, <1>7, <1>9, <1>11 DEF Nums
    <3>2. CASE u # t
      BY <3>2, <1>3, <1>7, <1>9, <1>11 DEF CallsRelyOn
    <3>3. QED
      BY <3>1, <3>2
  <2>2. QED
    BY <2>1 DEF CallsRelyOn
<1>13. NamesDistinct'
  BY <1>3 DEF NamesDistinct
<1>14. NothingOrphaned'
  <2>1. ASSUME NEW y \in Names, dents[y] # NULL
        PROVE  sems'[dents[y]] # NULL /\ sems'[dents[y]].linked
    <3>1. dents[y] \in Nums /\ sems[dents[y]] # NULL /\ sems[dents[y]].linked
      BY <2>1, <1>11 DEF NothingOrphaned, TypeOK
    <3>2. QED
      BY <3>1, <1>2, <1>5, <1>7
  <2>2. ASSUME NEW m \in Nums, sems'[m] # NULL
        PROVE  (\E y \in Names : dents[y] = m) \/ (refs'[m] > 0 /\ ~ sems'[m].linked)
    BY <2>2, <1>0, <1>7 DEF NothingOrphaned
  <2>3. QED
    BY <1>3, <2>1, <2>2 DEF NothingOrphaned
<1>15. SemOutlivesUsers'
  <2>1. ASSUME NEW u \in Threads, fd'[u] # NULL
        PROVE  sems'[fd'[u]] # NULL
    <3>1. u # t => fd[u] \in Nums /\ sems[fd[u]] # NULL
      BY <2>1, <1>7 DEF SemOutlivesUsers, TypeOK
    <3>2. QED
      BY <3>1, <1>7
  <2>2. ASSUME NEW m \in Nums, sems'[m] # NULL
        PROVE  sems'[m].hasvnode <=> refs'[m] > 0
    BY <2>2, <1>7 DEF SemOutlivesUsers
  <2>3. \A u \in Threads : num'[u] = NULL
    BY <1>3, <1>11
  <2>4. QED
    BY <2>1, <2>2, <2>3 DEF SemOutlivesUsers
<1>16. QED
  BY <1>7, <1>8, <1>10, <1>12, <1>13, <1>14, <1>15

(* A new semaphore goes to a place that nothing leads to.                  *)
LEMMA CreatStep ==
  ASSUME IInv, NEW t \in Threads, NEW x \in Names, semfs_creat(t, x)
  PROVE  IInv' /\ sems[InsertPlace] = NULL /\ InsertPlace \in Nums
<1> USE SemFsAssumption DEF IInv, SemFsInv, semfs_creat
<1>0. PICK n : n = InsertPlace
  OBVIOUS
<1>1. n \in Nums /\ sems[n] = NULL
  <2>1. FreeNums \in SUBSET Nat
    BY DEF FreeNums, Nums
  <2>2. InsertPlace \in FreeNums
    BY <2>1, MinLemma DEF InsertPlace
  <2>3. QED
    BY <1>0, <2>2 DEF FreeNums
<1>2. PICK s \in Semaphores : s = NewSemaphore
  <2>1. NewSemaphore \in Semaphores
    <3> HIDE DEF semfs_creat
    <3>1. QED
      BY DEF NewSemaphore, Semaphores
  <2>2. QED
    BY <2>1
<1>3. s.hasvnode = FALSE /\ s.linked = FALSE /\ s # NULL
  BY <1>2 DEF NewSemaphore
<1>4. /\ sems' = [sems EXCEPT ![n] = s] /\ num' = [num EXCEPT ![t] = n]
      /\ dents' = [dents EXCEPT ![x] = n]
  BY <1>0, <1>2
<1>5. TypeOK'
  BY <1>1, <1>4 DEF TypeOK, Calls
<1>6. RefsCounted'
  BY DEF RefsCounted
<1>7. /\ \A u \in Threads : u # t => pc'[u] = pc[u] /\ num'[u] = num[u]
      /\ pc'[t] = "creat" /\ num'[t] = n /\ pc[t] = "ready"
  BY <1>4 DEF TypeOK
<1>8. SleepersQueued'
  BY <1>7, SleepersSame
<1>9. /\ \A u \in Threads : num[u] = NULL /\ fd[u] # n
      /\ \A y \in Names : dents[y] # n
  BY <1>1 DEF CallsRelyOn, SemOutlivesUsers, NothingOrphaned, Nums
<1>10. refs[n] = 0
  BY <1>1, <1>9, RefsZero
<1>11. /\ \A m \in Nums : m # n => sems'[m] = sems[m]
       /\ sems'[n] = s
       /\ \A y \in Names : dents'[y] = IF y = x THEN n ELSE dents[y]
  BY <1>1, <1>4 DEF TypeOK
<1>12. CallsRelyOn'
  BY <1>1, <1>3, <1>7, <1>9, <1>10, <1>11 DEF CallsRelyOn, Nums
<1>13. NamesDistinct'
  BY <1>9, <1>11 DEF NamesDistinct
<1>14. NothingOrphaned'
  <2>1. \A y \in Names : dents[y] # NULL => sems[dents[y]].linked
    BY <1>9 DEF NothingOrphaned
  <2>2. \A y \in Names : dents[y] \in Nums \cup {NULL}
    BY DEF TypeOK
  <2>3. ASSUME NEW y \in Names, dents'[y] # NULL
        PROVE  /\ sems'[dents'[y]] # NULL
               /\ sems'[dents'[y]].linked \/ \E u \in Threads : num'[u] = dents'[y]
    BY <1>3, <1>7, <1>9, <1>11, <2>1, <2>2, <2>3 DEF NothingOrphaned
  <2>4. ASSUME NEW m \in Nums, sems'[m] # NULL
        PROVE  \/ \E y \in Names : dents'[y] = m
               \/ refs'[m] > 0 /\ ~ sems'[m].linked
    BY <1>1, <1>11, <2>4 DEF NothingOrphaned, Nums
  <2>5. QED
    BY <2>3, <2>4 DEF NothingOrphaned
<1>15. SemOutlivesUsers'
  BY <1>1, <1>3, <1>7, <1>9, <1>10, <1>11 DEF SemOutlivesUsers, TypeOK, Nums
<1>16. QED
  BY <1>0, <1>1, <1>5, <1>6, <1>8, <1>12, <1>13, <1>14, <1>15

(* The vnode of a new semaphore.                                           *)
LEMMA CreatLinkStep ==
  ASSUME IInv, NEW t \in Threads, semfs_creat_link(t)
  PROVE  IInv'
<1> USE SemFsAssumption DEF IInv, SemFsInv
<1>0. PICK n \in Nums : n = num[t] /\ sems[n] # NULL
  BY DEF TypeOK, CallsRelyOn, semfs_creat_link
<1>1. PICK w \in {"truncate", "ready"} : pc' = [pc EXCEPT ![t] = w]
  BY DEF Opened, semfs_creat_link
<1>2. PICK s \in Semaphores : s = sems[n]
  BY <1>0 DEF TypeOK
<1>3. /\ pc[t] = "creat" /\ fd[t] = NULL
      /\ dirlock = t /\ dirlock' = NULL /\ num' = [num EXCEPT ![t] = NULL]
      /\ UNCHANGED <<dents, cv, lk, resid>>
  BY <1>0 DEF semfs_creat_link, CallsRelyOn
<1>4. PICK s2 \in Semaphores : s2 = [s EXCEPT !.hasvnode = TRUE, !.linked = TRUE]
  <2>1. s.linked \in BOOLEAN /\ [s EXCEPT !.hasvnode = TRUE, !.linked = TRUE] \in Semaphores
    BY DEF Semaphores
  <2>2. QED
    BY <2>1
<1>5. s2.hasvnode /\ (s2.linked <=> TRUE)
  BY <1>4 DEF Semaphores
<1>6. /\ sems' = [sems EXCEPT ![n] = s2]
      /\ refs' = [refs EXCEPT ![n] = @ + 1] /\ fd' = [fd EXCEPT ![t] = n]
  BY <1>0, <1>2, <1>4 DEF semfs_creat_link, semfs_getvnode, TypeOK
<1>7. /\ RefsCounted' /\ refs' \in [Nums -> 0 .. Cardinality(Threads)]
      /\ fd' \in [Threads -> Nums \cup {NULL}]
      /\ sems' \in [Nums -> Semaphores \cup {NULL}]
      /\ \A m \in Nums : m # n => sems'[m] = sems[m] /\ refs'[m] = refs[m]
      /\ sems'[n] # NULL /\ sems'[n].hasvnode /\ sems'[n] = s2
      /\ refs'[n] > 0
      /\ \A u \in Threads : u # t => fd'[u] = fd[u]
      /\ fd'[t] = n
  BY <1>3, <1>6, <1>5, GetVnode
<1>8. TypeOK'
  BY <1>1, <1>3, <1>7 DEF TypeOK, Calls
<1>9. /\ \A u \in Threads : u # t => pc'[u] = pc[u] /\ num'[u] = num[u]
      /\ pc'[t] = w /\ num'[t] = NULL
  BY <1>1, <1>3 DEF TypeOK
<1>10. SleepersQueued'
  BY <1>3, <1>7, <1>9, SleepersSame
<1>11. \A u \in Threads : u # t => num[u] = NULL
  BY <1>3 DEF CallsRelyOn
<1>12. CallsRelyOn'
  <2>1. ASSUME NEW u \in Threads
        PROVE  /\ num'[u] = NULL /\ dirlock' # u
               /\ pc'[u] \notin {"creat", "remove"}
               /\ pc'[u] \notin {"ready", "creat", "remove", "panic"} => fd'[u] # NULL
               /\ pc'[u] \in {"lkread", "lkwrite"} => u \in UserThreads
    <3>1. CASE u = t
      BY <3>1, <1>3, <1>7, <1>9, <1>11 DEF Nums
    <3>2. CASE u # t
      BY <3>2, <1>3, <1>7, <1>9, <1>11 DEF CallsRelyOn
    <3>3. QED
      BY <3>1, <3>2
  <2>2. QED
    BY <2>1 DEF CallsRelyOn
<1>13. NamesDistinct'
  BY <1>3 DEF NamesDistinct
<1>14. NothingOrphaned'
  <2>1. ASSUME NEW y \in Names, dents[y] # NULL
        PROVE  sems'[dents[y]] # NULL /\ sems'[dents[y]].linked
    <3>1. /\ dents[y] \in Nums /\ sems[dents[y]] # NULL
          /\ dents[y] # n => sems[dents[y]].linked
      BY <2>1, <1>0, <1>11 DEF NothingOrphaned, TypeOK
    <3>2. QED
      BY <3>1, <1>5, <1>7
  <2>2. \E y \in Names : dents[y] = n
    BY <1>0 DEF CallsRelyOn, Nums
  <2>3. ASSUME NEW m \in Nums, sems'[m] # NULL
        PROVE  (\E y \in Names : dents[y] = m) \/ (refs'[m] > 0 /\ ~ sems'[m].linked)
    BY <2>2, <2>3, <1>7 DEF NothingOrphaned
  <2>4. QED
    BY <1>3, <2>1, <2>3 DEF NothingOrphaned
<1>15. SemOutlivesUsers'
  <2>1. ASSUME NEW u \in Threads, fd'[u] # NULL
        PROVE  sems'[fd'[u]] # NULL
    <3>1. u # t => fd[u] \in Nums /\ sems[fd[u]] # NULL
      BY <2>1, <1>7 DEF SemOutlivesUsers, TypeOK
    <3>2. QED
      BY <3>1, <1>7
  <2>2. ASSUME NEW m \in Nums, sems'[m] # NULL
        PROVE  sems'[m].hasvnode <=> refs'[m] > 0
    BY <2>2, <1>7 DEF SemOutlivesUsers
  <2>3. \A u \in Threads : num'[u] = NULL
    BY <1>3, <1>9, <1>11
  <2>4. QED
    BY <2>1, <2>2, <2>3 DEF SemOutlivesUsers
<1>16. QED
  BY <1>7, <1>8, <1>10, <1>12, <1>13, <1>14, <1>15

(* A creat that fails takes everything back.                               *)
LEMMA CreatFailStep ==
  ASSUME IInv, NEW t \in Threads, NEW failed \in NoMemory, semfs_creat_fail(t, failed)
  PROVE  IInv'
<1> USE SemFsAssumption DEF IInv, SemFsInv, semfs_creat_fail
<1>0. PICK n \in Nums : n = num[t] /\ fd[t] = NULL /\ refs[n] = 0
  BY DEF TypeOK, CallsRelyOn
<1>1. PICK w \in {"panic", "ready"} : pc' = [pc EXCEPT ![t] = w]
  OBVIOUS
<1>2. TypeOK'
  BY <1>0, <1>1 DEF TypeOK, Calls
<1>3. RefsCounted'
  BY DEF RefsCounted
<1>4. /\ \A u \in Threads : u # t => pc'[u] = pc[u] /\ num'[u] = num[u]
      /\ pc'[t] = w /\ pc[t] = "creat" /\ num'[t] = NULL
  BY <1>1 DEF TypeOK
<1>5. SleepersQueued'
  BY <1>4, SleepersSame
<1>6. \A u \in Threads : u # t => num[u] = NULL
  BY <1>0 DEF CallsRelyOn, Nums
<1>7. /\ \A m \in Nums : m # n => sems'[m] = sems[m]
      /\ sems'[n] = NULL
      /\ \A y \in Names : dents'[y] = IF dents[y] = n THEN NULL ELSE dents[y]
  BY <1>0 DEF TypeOK
<1>8. \A u \in Threads : fd[u] # n
  BY <1>0, RefsPositive
<1>9. CallsRelyOn'
  BY <1>0, <1>4, <1>6, <1>7 DEF CallsRelyOn
<1>10. NamesDistinct'
  BY <1>7 DEF NamesDistinct
<1>11. NothingOrphaned'
  BY <1>0, <1>6, <1>7 DEF NothingOrphaned, TypeOK
<1>12. SemOutlivesUsers'
  BY <1>4, <1>6, <1>7, <1>8 DEF SemOutlivesUsers, TypeOK
<1>13. QED
  BY <1>2, <1>3, <1>5, <1>9, <1>10, <1>11, <1>12

----------------------------------------------------------------------------
(* Closing and removing *)

(* Steps that leave the tables alone but for the counts of semaphores, and *)
(* take threads only from one call on an open semaphore to another.        *)
LEMMA TablesSame ==
  ASSUME IInv, UNCHANGED <<dents, refs, dirlock, fd, num>>,
         \A n \in Nums : /\ sems'[n] # NULL <=> sems[n] # NULL
                         /\ sems[n] # NULL => /\ sems'[n].hasvnode <=> sems[n].hasvnode
                                              /\ sems'[n].linked <=> sems[n].linked,
         \A u \in Threads :
           \/ pc'[u] = pc[u]
           \/ /\ pc[u] \notin {"creat", "remove"}
              /\ pc'[u] \notin {"creat", "remove"}
              /\ pc'[u] # "ready" => fd[u] # NULL
              /\ pc'[u] \in {"lkread", "lkwrite"} => u \in UserThreads
  PROVE  RefsCounted' /\ NothingOrphaned' /\ SemOutlivesUsers' /\ NamesDistinct' /\ CallsRelyOn'
<1> USE DEF IInv, SemFsInv
<1>1. RefsCounted'
  BY DEF RefsCounted
<1>2. NamesDistinct'
  BY DEF NamesDistinct
<1>3. /\ \A x \in Names : dents[x] # NULL => dents[x] \in Nums
      /\ \A u \in Threads : /\ fd[u] # NULL => fd[u] \in Nums
                            /\ num[u] # NULL => num[u] \in Nums
  BY DEF TypeOK
<1>4. NothingOrphaned'
  BY <1>3 DEF NothingOrphaned
<1>5. SemOutlivesUsers'
  BY <1>3 DEF SemOutlivesUsers
<1>6. ASSUME NEW u \in Threads
      PROVE  /\ dirlock' = u <=> num'[u] # NULL
             /\ num'[u] # NULL <=> pc'[u] \in {"creat", "remove"}
             /\ num'[u] # NULL => /\ \E x \in Names : dents'[x] = num'[u]
                                  /\ sems'[num'[u]] # NULL /\ ~ sems'[num'[u]].linked
             /\ pc'[u] = "creat" => fd'[u] = NULL /\ refs'[num'[u]] = 0
             /\ pc'[u] \notin {"ready", "creat", "remove", "panic"} => fd'[u] # NULL
             /\ pc'[u] \in {"lkread", "lkwrite"} => u \in UserThreads
  <2>1. num[u] # NULL => /\ \E x \in Names : dents[x] = num[u]
                         /\ sems'[num[u]] # NULL /\ ~ sems'[num[u]].linked
    BY <1>3 DEF CallsRelyOn
  <2>2. CASE pc'[u] = pc[u]
    BY <2>1, <2>2 DEF CallsRelyOn
  <2>3. CASE pc'[u] # pc[u]
    BY <2>1, <2>3 DEF CallsRelyOn
  <2>4. QED
    BY <2>2, <2>3
<1>7. CallsRelyOn'
  BY <1>6 DEF CallsRelyOn
<1>8. QED
  BY <1>1, <1>2, <1>4, <1>5, <1>7

(* A reference that is not the last is given up; the last one is passed on *)
(* to semfs_reclaim, still counted.                                        *)
LEMMA DecrefStep ==
  ASSUME IInv, NEW t \in Threads, vnode_decref(t)
  PROVE  IInv'
<1> USE SemFsAssumption DEF IInv, SemFsInv
<1>1. PICK n \in Nums : fd[t] = n
  BY DEF vnode_decref, TypeOK
<1>2. pc[t] = "ready" /\ UNCHANGED <<dents, sems, cv, dirlock, lk, num, resid>>
  BY DEF vnode_decref
<1>3. refs[n] \in Nat
  BY FS_CardinalityType DEF TypeOK
<1>4. CASE refs[n] > 1
  <2>1. refs' = [refs EXCEPT ![n] = @ - 1] /\ fd' = [fd EXCEPT ![t] = NULL] /\ pc' = pc
    BY <1>1, <1>4 DEF vnode_decref
  <2>2. /\ RefsCounted' /\ refs' \in [Nums -> 0 .. Cardinality(Threads)]
        /\ fd' \in [Threads -> Nums \cup {NULL}]
    BY <1>1, <2>1, RefsDown
  <2>3. /\ \A m \in Nums : m # n => refs'[m] = refs[m]
        /\ refs'[n] = refs[n] - 1
        /\ \A u \in Threads : u # t => fd'[u] = fd[u]
        /\ fd'[t] = NULL
    BY <2>1 DEF TypeOK
  <2>4. refs'[n] > 0 /\ refs[n] > 0
    BY <1>3, <1>4, <2>3
  <2>5. TypeOK'
    BY <1>2, <2>1, <2>2 DEF TypeOK
  <2>6. SleepersQueued'
    BY <1>2, <2>1, <2>3, SleepersSame
  <2>7. NamesDistinct'
    BY <1>2 DEF NamesDistinct
  <2>8. CallsRelyOn'
    <3>1. \A u \in Threads : pc[u] = "creat" => num[u] # n /\ num[u] \in Nums
      BY <2>4 DEF CallsRelyOn, TypeOK
    <3>2. QED
      BY <1>2, <2>1, <2>3, <3>1 DEF CallsRelyOn
  <2>9. NothingOrphaned'
    BY <1>2, <2>3, <2>4 DEF NothingOrphaned
  <2>10. SemOutlivesUsers'
    BY <1>2, <2>3, <2>4 DEF SemOutlivesUsers
  <2>11. QED
    BY <2>2, <2>5, <2>6, <2>7, <2>8, <2>9, <2>10
<1>5. CASE ~ (refs[n] > 1)
  <2>1. pc' = [pc EXCEPT ![t] = "reclaim"] /\ UNCHANGED <<refs, fd>>
    BY <1>1, <1>5 DEF vnode_decref
  <2>2. (\A u \in Threads : u # t => pc'[u] = pc[u]) /\ pc'[t] = "reclaim"
    BY <2>1 DEF TypeOK
  <2>3. TypeOK'
    BY <1>2, <2>1 DEF TypeOK, Calls
  <2>4. SleepersQueued'
    BY <1>2, <2>1, <2>2, SleepersSame
  <2>5. fd[t] # NULL
    BY <1>1 DEF Nums
  <2>6. RefsCounted' /\ NothingOrphaned' /\ SemOutlivesUsers' /\ NamesDistinct' /\ CallsRelyOn'
    BY <1>2, <2>1, <2>2, <2>5, TablesSame
  <2>7. QED
    BY <2>3, <2>4, <2>6
<1>6. QED
  BY <1>4, <1>5

(* The last close takes a semaphore away only when no name leads to it.    *)
LEMMA ReclaimStep ==
  ASSUME IInv, NEW t \in Threads, semfs_reclaim(t)
  PROVE  IInv'
<1> USE SemFsAssumption DEF IInv, SemFsInv
<1>1. PICK n \in Nums : fd[t] = n
  BY DEF semfs_reclaim, TypeOK, CallsRelyOn
<1>2. /\ pc[t] = "reclaim" /\ UNCHANGED <<dents, cv, dirlock, lk, num, resid>>
      /\ refs[n] # 1 \/ \A r \in Threads : ~ (pc[r] = "remove" /\ num[r] = n)
      /\ refs' = [refs EXCEPT ![n] = @ - 1] /\ fd' = [fd EXCEPT ![t] = NULL]
      /\ pc' = [pc EXCEPT ![t] = "ready"]
  BY <1>1 DEF semfs_reclaim, BeingRemoved
<1>3. refs[n] \in Nat /\ refs[n] >= 1 /\ (refs[n] <= 1 => \A u \in Threads : fd[u] = n => u = t)
  BY <1>1, RefsPositive, FS_CardinalityType DEF TypeOK
<1>4. PICK s \in Semaphores : s = sems[n] /\ s # NULL
  <2>1. n # NULL
    BY DEF Nums
  <2>2. sems[n] # NULL
    BY <1>1, <2>1 DEF SemOutlivesUsers
  <2>3. QED
    BY <2>2 DEF TypeOK
<1>5. PICK s2 \in Semaphores : s2 = [s EXCEPT !.hasvnode = FALSE]
  BY DEF Semaphores
<1>6. ~ s2.hasvnode /\ (s2.linked <=> s.linked) /\ s2 # NULL
  BY <1>5 DEF Semaphores
<1>7. PICK v \in Semaphores \cup {NULL} :
        v = IF refs[n] > 1 THEN s ELSE IF s.linked THEN s2 ELSE NULL
  OBVIOUS
<1>8. sems' = [sems EXCEPT ![n] = v]
  BY <1>1, <1>4, <1>5, <1>7 DEF semfs_reclaim
<1>9. /\ RefsCounted' /\ refs' \in [Nums -> 0 .. Cardinality(Threads)]
      /\ fd' \in [Threads -> Nums \cup {NULL}]
  BY <1>1, <1>2, RefsDown
<1>10. /\ sems' \in [Nums -> Semaphores \cup {NULL}]
       /\ \A m \in Nums : m # n => sems'[m] = sems[m]
       /\ sems'[n] = v
  BY <1>8 DEF TypeOK
<1>11. /\ \A m \in Nums : m # n => refs'[m] = refs[m]
       /\ refs'[n] = refs[n] - 1
       /\ \A u \in Threads : u # t => fd'[u] = fd[u] /\ pc'[u] = pc[u]
       /\ fd'[t] = NULL /\ pc'[t] = "ready"
  BY <1>2 DEF TypeOK
<1>12. TypeOK'
  BY <1>2, <1>9, <1>10 DEF TypeOK, Calls
<1>13. SleepersQueued'
  BY <1>2, <1>11, SleepersSame
<1>14. NamesDistinct'
  BY <1>2 DEF NamesDistinct
<1>15. \A u \in Threads : num[u] = n => refs[n] > 1 /\ v = s /\ pc[u] # "creat"
  BY <1>2, <1>3, <1>7 DEF CallsRelyOn, Nums
<1>16. \A u \in Threads : num[u] \in Nums \cup {NULL} /\ fd[u] \in Nums \cup {NULL}
  BY DEF TypeOK
<1>17. CallsRelyOn'
  <2>1. ASSUME NEW u \in Threads, num[u] # NULL
        PROVE  /\ sems'[num[u]] = sems[num[u]]
               /\ pc[u] = "creat" => refs'[num[u]] = refs[num[u]]
    BY <1>4, <1>10, <1>11, <1>15, <1>16, <2>1
  <2>2. num[t] = NULL
    BY <1>2 DEF CallsRelyOn
  <2>3. ASSUME NEW u \in Threads, u # t
        PROVE  /\ dirlock' = u <=> num'[u] # NULL
               /\ num'[u] # NULL <=> pc'[u] \in {"creat", "remove"}
               /\ num'[u] # NULL => /\ \E x \in Names : dents'[x] = num'[u]
                                    /\ sems'[num'[u]] # NULL /\ ~ sems'[num'[u]].linked
               /\ pc'[u] = "creat" => fd'[u] = NULL /\ refs'[num'[u]] = 0
               /\ pc'[u] \notin {"ready", "creat", "remove", "panic"} => fd'[u] # NULL
               /\ pc'[u] \in {"lkread", "lkwrite"} => u \in UserThreads
    BY <1>2, <1>11, <2>1, <2>3 DEF CallsRelyOn
  <2>4. dirlock' # t /\ num'[t] = NULL /\ pc'[t] = "ready"
    BY <1>2, <1>11, <2>2 DEF CallsRelyOn
  <2>5. QED
    BY <2>3, <2>4 DEF CallsRelyOn
<1>18. NothingOrphaned'
  <2>1. ASSUME NEW x \in Names, dents[x] # NULL
        PROVE  /\ sems'[dents[x]] # NULL
               /\ sems'[dents[x]].linked \/ \E u \in Threads : num[u] = dents[x]
    <3>1. /\ dents[x] \in Nums /\ sems[dents[x]] # NULL
          /\ sems[dents[x]].linked \/ \E u \in Threads : num[u] = dents[x]
      BY <2>1 DEF NothingOrphaned, TypeOK
    <3>2. CASE dents[x] = n
      <4>1. s.linked \/ v = s
        BY <1>4, <1>15, <3>1, <3>2
      <4>2. QED
        BY <1>4, <1>6, <1>7, <1>10, <3>1, <3>2, <4>1
    <3>3. CASE dents[x] # n
      BY <1>10, <3>1, <3>3
    <3>4. QED
      BY <3>2, <3>3
  <2>2. ASSUME NEW m \in Nums, sems'[m] # NULL
        PROVE  (\E x \in Names : dents[x] = m) \/ (refs'[m] > 0 /\ ~ sems'[m].linked)
    <3>1. CASE m = n
      <4>1. (\E x \in Names : dents[x] = n) \/ ~ s.linked
        BY <1>4 DEF NothingOrphaned
      <4>2. refs[n] > 1 => refs'[n] > 0
        BY <1>3, <1>11
      <4>3. ~ s.linked => refs[n] > 1 /\ sems'[n] = s
        BY <1>7, <1>10, <2>2, <3>1
      <4>4. QED
        BY <3>1, <4>1, <4>2, <4>3
    <3>2. CASE m # n
      BY <1>10, <1>11, <2>2, <3>2 DEF NothingOrphaned
    <3>3. QED
      BY <3>1, <3>2
  <2>3. QED
    BY <1>2, <2>1, <2>2 DEF NothingOrphaned
<1>19. SemOutlivesUsers'
  <2>1. ASSUME NEW u \in Threads, fd'[u] # NULL
        PROVE  sems'[fd'[u]] # NULL
    <3>1. u # t /\ fd'[u] = fd[u] /\ fd[u] \in Nums /\ sems[fd[u]] # NULL
      BY <1>11, <1>16, <2>1 DEF SemOutlivesUsers
    <3>2. fd[u] = n => refs[n] > 1
      BY <1>3, <3>1
    <3>3. QED
      BY <1>4, <1>7, <1>10, <3>1, <3>2
  <2>2. ASSUME NEW u \in Threads, num'[u] # NULL
        PROVE  sems'[num'[u]] # NULL
    BY <1>2, <1>4, <1>10, <1>15, <1>16, <2>2 DEF SemOutlivesUsers
  <2>3. ASSUME NEW m \in Nums, sems'[m] # NULL
        PROVE  sems'[m].hasvnode <=> refs'[m] > 0
    <3>1. CASE m # n
      BY <1>10, <1>11, <2>3, <3>1 DEF SemOutlivesUsers
    <3>2. CASE m = n /\ refs[n] > 1
      <4>1. s.hasvnode
        <5>1. refs[n] > 0
          BY <1>3
        <5>2. QED
          BY <1>4, <5>1 DEF SemOutlivesUsers
      <4>2. refs'[n] > 0
        BY <1>3, <1>11, <3>2
      <4>3. QED
        BY <1>7, <1>10, <3>2, <4>1, <4>2
    <3>3. CASE m = n /\ ~ (refs[n] > 1)
      <4>1. refs'[n] = 0
        BY <1>3, <1>11, <3>3
      <4>2. sems'[n] = s2
        BY <1>7, <1>10, <2>3, <3>3
      <4>3. QED
        BY <1>6, <3>3, <4>1, <4>2
    <3>4. QED
      BY <3>1, <3>2, <3>3
  <2>4. QED
    BY <2>1, <2>2, <2>3 DEF SemOutlivesUsers
<1>20. QED
  BY <1>9, <1>12, <1>13, <1>14, <1>17, <1>18, <1>19

(* A last close that falls inside a remove stops the kernel, and changes   *)
(* nothing else.                                                           *)
LEMMA ReclaimBusyStep ==
  ASSUME IInv, NEW t \in Threads, semfs_reclaim_busy(t)
  PROVE  IInv'
<1> USE SemFsAssumption DEF IInv, SemFsInv
<1>1. /\ pc[t] = "reclaim" /\ pc' = [pc EXCEPT ![t] = "panic"]
      /\ UNCHANGED <<dents, sems, refs, cv, dirlock, lk, fd, num, resid>>
  BY DEF semfs_reclaim_busy
<1>2. (\A u \in Threads : u # t => pc'[u] = pc[u]) /\ pc'[t] = "panic"
  BY <1>1 DEF TypeOK
<1>3. TypeOK'
  BY <1>1 DEF TypeOK, Calls
<1>4. SleepersQueued'
  BY <1>1, <1>2, SleepersSame
<1>5. fd[t] # NULL
  BY <1>1 DEF CallsRelyOn
<1>6. RefsCounted' /\ NothingOrphaned' /\ SemOutlivesUsers' /\ NamesDistinct' /\ CallsRelyOn'
  BY <1>1, <1>2, <1>5, TablesSame
<1>7. QED
  BY <1>3, <1>4, <1>6

(* A name is unlinked under dirlock; the semaphore keeps its place.        *)
LEMMA RemoveStep ==
  ASSUME IInv, NEW t \in Threads, NEW x \in Names, semfs_remove(t, x)
  PROVE  IInv'
<1> USE SemFsAssumption DEF IInv, SemFsInv
<1>1. PICK n \in Nums : dents[x] = n /\ sems[n] # NULL
  BY DEF semfs_remove, TypeOK, NothingOrphaned
<1>2. PICK s \in Semaphores : s = sems[n]
  BY <1>1 DEF TypeOK
<1>3. PICK s2 \in Semaphores : s2 = [s EXCEPT !.linked = FALSE]
  BY DEF Semaphores
<1>4. ~ s2.linked /\ (s2.hasvnode <=> s.hasvnode) /\ s2 # NULL
  BY <1>3 DEF Semaphores
<1>5. /\ pc[t] = "ready" /\ dirlock = NULL /\ dirlock' = t
      /\ num' = [num EXCEPT ![t] = n] /\ pc' = [pc EXCEPT ![t] = "remove"]
      /\ UNCHANGED <<dents, refs, cv, lk, fd, resid>>
  BY <1>1 DEF semfs_remove
<1>6. sems' = [sems EXCEPT ![n] = s2]
  BY <1>1, <1>2, <1>3 DEF semfs_remove, TypeOK
<1>7. /\ sems' \in [Nums -> Semaphores \cup {NULL}]
      /\ \A m \in Nums : m # n => sems'[m] = sems[m]
      /\ sems'[n] = s2
  BY <1>6 DEF TypeOK
<1>8. /\ \A u \in Threads : u # t => num'[u] = num[u] /\ pc'[u] = pc[u]
      /\ num'[t] = n /\ pc'[t] = "remove"
  BY <1>5 DEF TypeOK
<1>9. TypeOK'
  BY <1>5, <1>7 DEF TypeOK, Calls
<1>10. RefsCounted'
  BY <1>5 DEF RefsCounted
<1>11. SleepersQueued'
  BY <1>5, <1>8, SleepersSame
<1>12. NamesDistinct'
  BY <1>5 DEF NamesDistinct
<1>13. \A u \in Threads : num[u] = NULL
  BY <1>5 DEF CallsRelyOn
<1>14. CallsRelyOn'
  <2>1. ASSUME NEW u \in Threads, u # t
        PROVE  /\ num'[u] = NULL /\ dirlock' # u
               /\ pc'[u] \notin {"creat", "remove"}
               /\ pc'[u] \notin {"ready", "creat", "remove", "panic"} => fd'[u] # NULL
               /\ pc'[u] \in {"lkread", "lkwrite"} => u \in UserThreads
    BY <1>5, <1>8, <1>13, <2>1 DEF CallsRelyOn
  <2>2. n # NULL
    BY DEF Nums
  <2>3. QED
    BY <1>1, <1>4, <1>5, <1>7, <1>8, <2>1, <2>2 DEF CallsRelyOn
<1>15. NothingOrphaned'
  <2>1. ASSUME NEW y \in Names, dents[y] # NULL
        PROVE  /\ sems'[dents[y]] # NULL
               /\ sems'[dents[y]].linked \/ \E u \in Threads : num'[u] = dents[y]
    <3>1. dents[y] \in Nums /\ sems[dents[y]] # NULL /\ sems[dents[y]].linked
      BY <1>13, <2>1 DEF NothingOrphaned, TypeOK
    <3>2. QED
      BY <1>4, <1>7, <1>8, <3>1
  <2>2. ASSUME NEW m \in Nums, sems'[m] # NULL
        PROVE  (\E y \in Names : dents[y] = m) \/ (refs[m] > 0 /\ ~ sems'[m].linked)
    BY <1>1, <1>7, <2>2 DEF NothingOrphaned
  <2>3. QED
    BY <1>5, <2>1, <2>2 DEF NothingOrphaned
<1>16. SemOutlivesUsers'
  <2>1. ASSUME NEW m \in Nums
        PROVE  /\ sems'[m] # NULL <=> sems[m] # NULL
               /\ sems'[m] # NULL => (sems'[m].hasvnode <=> refs[m] > 0)
    BY <1>1, <1>2, <1>4, <1>7 DEF SemOutlivesUsers
  <2>2. ASSUME NEW u \in Threads
        PROVE  /\ fd[u] # NULL => sems'[fd[u]] # NULL
               /\ num'[u] # NULL => sems'[num'[u]] # NULL
    <3>1. fd[u] \in Nums \cup {NULL}
      BY DEF TypeOK
    <3>2. fd[u] # NULL => sems'[fd[u]] # NULL
      BY <2>1, <3>1 DEF SemOutlivesUsers
    <3>3. num'[u] # NULL => sems'[num'[u]] # NULL
      BY <1>4, <1>7, <1>8, <1>13
    <3>4. QED
      BY <3>2, <3>3
  <2>3. QED
    BY <1>5, <2>1, <2>2 DEF SemOutlivesUsers
<1>17. QED
  BY <1>9, <1>10, <1>11, <1>12, <1>14, <1>15, <1>16

(* The name goes, and with it a semaphore that nobody has open.            *)
LEMMA RemoveFinishStep ==
  ASSUME IInv, NEW t \in Threads, semfs_remove_finish(t)
  PROVE  IInv'
<1> USE SemFsAssumption DEF IInv, SemFsInv
<1>1. PICK n \in Nums : num[t] = n /\ sems[n] # NULL /\ ~ sems[n].linked
  BY DEF semfs_remove_finish, TypeOK, CallsRelyOn
<1>2. PICK s \in Semaphores : s = sems[n] /\ s # NULL
  BY <1>1 DEF TypeOK
<1>3. PICK v \in Semaphores \cup {NULL} : v = IF s.hasvnode THEN s ELSE NULL
  OBVIOUS
<1>4. /\ pc[t] = "remove" /\ dirlock = t /\ dirlock' = NULL
      /\ num' = [num EXCEPT ![t] = NULL] /\ pc' = [pc EXCEPT ![t] = "ready"]
      /\ dents' = [x \in Names |-> IF dents[x] = n THEN NULL ELSE dents[x]]
      /\ UNCHANGED <<refs, cv, lk, fd, resid>>
  BY <1>1 DEF semfs_remove_finish, CallsRelyOn
<1>5. sems' = [sems EXCEPT ![n] = v]
  BY <1>1, <1>2, <1>3 DEF semfs_remove_finish, TypeOK
<1>6. /\ sems' \in [Nums -> Semaphores \cup {NULL}]
      /\ \A m \in Nums : m # n => sems'[m] = sems[m]
      /\ sems'[n] = v
  BY <1>5 DEF TypeOK
<1>7. /\ \A u \in Threads : u # t => num'[u] = num[u] /\ pc'[u] = pc[u]
      /\ num'[t] = NULL /\ pc'[t] = "ready"
  BY <1>4 DEF TypeOK
<1>8. TypeOK'
  BY <1>4, <1>6 DEF TypeOK, Calls
<1>9. RefsCounted'
  BY <1>4 DEF RefsCounted
<1>10. SleepersQueued'
  BY <1>4, <1>7, SleepersSame
<1>11. \A x \in Names : dents'[x] = IF dents[x] = n THEN NULL ELSE dents[x]
  BY <1>4
<1>12. NamesDistinct'
  BY <1>11 DEF NamesDistinct
<1>13. \A u \in Threads : u # t => num[u] = NULL
  BY <1>4 DEF CallsRelyOn
<1>14. CallsRelyOn'
  <2>1. ASSUME NEW u \in Threads
        PROVE  /\ num'[u] = NULL /\ dirlock' # u
               /\ pc'[u] \notin {"creat", "remove"}
               /\ pc'[u] \notin {"ready", "creat", "remove", "panic"} => fd'[u] # NULL
               /\ pc'[u] \in {"lkread", "lkwrite"} => u \in UserThreads
    <3>1. CASE u = t
      BY <1>4, <1>7, <3>1
    <3>2. CASE u # t
      BY <1>4, <1>7, <1>13, <3>2 DEF CallsRelyOn
    <3>3. QED
      BY <3>1, <3>2
  <2>2. QED
    BY <2>1 DEF CallsRelyOn
<1>15. s.hasvnode <=> refs[n] > 0
  BY <1>2 DEF SemOutlivesUsers
<1>16. NothingOrphaned'
  <2>1. ASSUME NEW y \in Names, dents'[y] # NULL
        PROVE  sems'[dents'[y]] # NULL /\ sems'[dents'[y]].linked
    <3>1. dents'[y] = dents[y] /\ dents[y] # n /\ dents[y] # NULL
      BY <1>11, <2>1
    <3>2. dents[y] \in Nums /\ sems[dents[y]] # NULL /\ sems[dents[y]].linked
      BY <1>1, <1>13, <3>1 DEF NothingOrphaned, TypeOK
    <3>3. QED
      BY <1>6, <3>1, <3>2
  <2>2. ASSUME NEW m \in Nums, sems'[m] # NULL
        PROVE  (\E y \in Names : dents'[y] = m) \/ (refs[m] > 0 /\ ~ sems'[m].linked)
    <3>1. CASE m = n
      BY <1>1, <1>2, <1>3, <1>6, <1>15, <2>2, <3>1
    <3>2. CASE m # n
      BY <1>6, <1>11, <2>2, <3>2 DEF NothingOrphaned
    <3>3. QED
      BY <3>1, <3>2
  <2>3. QED
    BY <1>4, <2>1, <2>2 DEF NothingOrphaned
<1>17. SemOutlivesUsers'
  <2>1. ASSUME NEW u \in Threads, fd[u] # NULL
        PROVE  sems'[fd[u]] # NULL
    <3>1. fd[u] \in Nums /\ sems[fd[u]] # NULL
      BY <2>1 DEF TypeOK, SemOutlivesUsers
    <3>2. CASE fd[u] = n
      <4>1. refs[n] >= 1
        BY <3>2, RefsPositive
      <4>2. refs[n] > 0
        BY <4>1, FS_CardinalityType DEF TypeOK
      <4>3. QED
        BY <1>2, <1>3, <1>6, <1>15, <3>2, <4>2
    <3>3. CASE fd[u] # n
      BY <1>6, <3>1, <3>3
    <3>4. QED
      BY <3>2, <3>3
  <2>2. ASSUME NEW m \in Nums, sems'[m] # NULL
        PROVE  sems'[m].hasvnode <=> refs[m] > 0
    <3>1. sems'[m] = sems[m]
      BY <1>2, <1>3, <1>6, <2>2
    <3>2. QED
      BY <2>2, <3>1 DEF SemOutlivesUsers
  <2>3. \A u \in Threads : num'[u] = NULL
    BY <1>7, <1>13
  <2>4. QED
    BY <1>4, <2>1, <2>2, <2>3 DEF SemOutlivesUsers
<1>18. QED
  BY <1>8, <1>9, <1>10, <1>12, <1>14, <1>16, <1>17

----------------------------------------------------------------------------
(* P, V and truncate *)

(* A call of read() or write() begins.                                     *)
LEMMA VopCallStep ==
  ASSUME IInv, NEW t \in Threads, sys_read(t) \/ sys_write(t)
  PROVE  IInv'
<1> USE SemFsAssumption DEF IInv, SemFsInv
<1>1. PICK w \in {"lkread", "read", "lkwrite", "write"}, size \in 0 .. CountMax :
        /\ pc' = [pc EXCEPT ![t] = w] /\ resid' = [resid EXCEPT ![t] = size]
        /\ w \in {"lkread", "lkwrite"} => t \in UserThreads
  <2>1. CASE sys_read(t)
    BY <2>1 DEF sys_read, VopCall
  <2>2. CASE sys_write(t)
    BY <2>2 DEF sys_write, VopCall
  <2>3. QED
    BY <2>1, <2>2
<1>2. /\ pc[t] = "ready" /\ fd[t] # NULL
      /\ UNCHANGED <<dents, sems, refs, cv, dirlock, lk, fd, num>>
  BY DEF sys_read, sys_write, VopCall
<1>3. /\ \A u \in Threads : u # t => pc'[u] = pc[u] /\ resid'[u] = resid[u]
      /\ pc'[t] = w
  BY <1>1 DEF TypeOK
<1>4. TypeOK'
  BY <1>1, <1>2 DEF TypeOK, Calls
<1>5. SleepersQueued'
  BY <1>2, <1>3, SleepersSame
<1>6. RefsCounted' /\ NothingOrphaned' /\ SemOutlivesUsers' /\ NamesDistinct' /\ CallsRelyOn'
  BY <1>1, <1>2, <1>3, TablesSame
<1>7. QED
  BY <1>4, <1>5, <1>6

(* File.lk is taken.                                                       *)
LEMMA LockFileStep ==
  ASSUME IInv, NEW t \in Threads, lock_file(t)
  PROVE  IInv'
<1> USE SemFsAssumption DEF IInv, SemFsInv
<1>1. PICK w \in {"read", "write"} : pc' = [pc EXCEPT ![t] = w]
  BY DEF lock_file
<1>2. /\ pc[t] \in {"lkread", "lkwrite"} /\ lk' = [lk EXCEPT ![fd[t]] = t]
      /\ UNCHANGED <<dents, sems, refs, cv, dirlock, fd, num, resid>>
  BY DEF lock_file
<1>3. (\A u \in Threads : u # t => pc'[u] = pc[u]) /\ pc'[t] = w
  BY <1>1 DEF TypeOK
<1>4. t \in UserThreads /\ fd[t] # NULL
  BY <1>2 DEF CallsRelyOn
<1>5. TypeOK'
  BY <1>1, <1>2, <1>4 DEF TypeOK, Calls
<1>6. SleepersQueued'
  BY <1>2, <1>3, SleepersSame
<1>7. RefsCounted' /\ NothingOrphaned' /\ SemOutlivesUsers' /\ NamesDistinct' /\ CallsRelyOn'
  BY <1>1, <1>2, <1>3, <1>4, TablesSame
<1>8. QED
  BY <1>5, <1>6, <1>7

(* A new count changes nothing else of a semaphore.                        *)
LEMMA NewCountSame ==
  ASSUME TypeOK, NEW n \in Nums, sems[n] # NULL, NEW c \in 0 .. CountMax,
         sems' = [sems EXCEPT ![n].count = c]
  PROVE  /\ sems' \in [Nums -> Semaphores \cup {NULL}]
         /\ \A m \in Nums :
              /\ m # n => sems'[m] = sems[m]
              /\ sems'[m] # NULL <=> sems[m] # NULL
              /\ sems[m] # NULL => /\ sems'[m].hasvnode <=> sems[m].hasvnode
                                   /\ sems'[m].linked <=> sems[m].linked
<1> USE SemFsAssumption
<1>1. PICK s \in Semaphores : s = sems[n]
  BY DEF TypeOK
<1>2. PICK s2 \in Semaphores : s2 = [s EXCEPT !.count = c]
  BY DEF Semaphores
<1>3. (s2.hasvnode <=> s.hasvnode) /\ (s2.linked <=> s.linked) /\ s2 # NULL
  BY <1>2 DEF Semaphores
<1>4. sems' = [sems EXCEPT ![n] = s2]
  BY <1>1, <1>2 DEF TypeOK
<1>5. /\ sems' \in [Nums -> Semaphores \cup {NULL}]
      /\ \A m \in Nums : m # n => sems'[m] = sems[m]
      /\ sems'[n] = s2
  <2>1. sems \in [Nums -> Semaphores \cup {NULL}]
    BY DEF TypeOK
  <2>2. [sems EXCEPT ![n] = s2] \in [Nums -> Semaphores \cup {NULL}]
    BY <2>1, Zenon
  <2>3. \A m \in Nums : m # n => sems'[m] = sems[m]
    BY <1>4, <2>1, Zenon
  <2>4. sems'[n] = s2
    BY <1>4, <2>1, Zenon
  <2>5. QED
    BY <1>4, <2>2, <2>3, <2>4, Zenon
<1>6. QED
  BY <1>1, <1>3, <1>5

(* The sleepers left by semfs_wakeup are some of those that were there.    *)
LEMMA WakeupLeaves ==
  ASSUME TypeOK, SleepersQueued, NEW n \in Nums, NEW c
  PROVE  /\ semfs_wakeup(n, c) \in Seq(Threads)
         /\ Range(semfs_wakeup(n, c)) \subseteq Range(cv[n])
         /\ IsInjective(semfs_wakeup(n, c))
<1>1. PICK q \in Seq(Threads) : q = cv[n]
  BY DEF TypeOK
<1>2. IsInjective(q)
  BY <1>1 DEF SleepersQueued
<1>3. ASSUME q # <<>>
      PROVE  /\ Tail(q) \in Seq(Threads) /\ Range(Tail(q)) \subseteq Range(q)
             /\ IsInjective(Tail(q))
  <2>1. /\ Tail(q) \in Seq(Threads) /\ Len(q) \in Nat /\ Len(q) > 0
        /\ Len(Tail(q)) = Len(q) - 1
        /\ DOMAIN q = 1 .. Len(q) /\ DOMAIN Tail(q) = 1 .. Len(q) - 1
    BY <1>3
  <2>2. ASSUME NEW i \in DOMAIN Tail(q)
        PROVE  i + 1 \in DOMAIN q /\ Tail(q)[i] = q[i + 1] /\ i \in Int
    BY <1>3, <2>1
  <2>3. Range(Tail(q)) \subseteq Range(q)
    BY <2>2 DEF Range
  <2>4. ASSUME NEW i \in DOMAIN Tail(q), NEW j \in DOMAIN Tail(q), Tail(q)[i] = Tail(q)[j]
        PROVE  i = j
    <3>1. q[i + 1] = q[j + 1] /\ i + 1 \in DOMAIN q /\ j + 1 \in DOMAIN q
      BY <2>2, <2>4
    <3>2. i + 1 = j + 1
      BY <1>2, <3>1, Zenon DEF IsInjective
    <3>3. QED
      BY <2>2, <3>2
  <2>5. QED
    BY <2>1, <2>3, <2>4 DEF IsInjective
<1>4. << >> \in Seq(Threads) /\ Range(<< >>) = {} /\ IsInjective(<< >>)
  BY DEF Range, IsInjective
<1>5. semfs_wakeup(n, c) \in {q, << >>} \/ (q # << >> /\ semfs_wakeup(n, c) = Tail(q))
  BY <1>1 DEF semfs_wakeup
<1>6. QED
  BY <1>1, <1>2, <1>3, <1>4, <1>5

(* A new count, by a thread that is not asleep itself, and the wakeup.     *)
LEMMA SetCountStep ==
  ASSUME IInv, NEW t \in Threads, NEW n \in Nums, fd[t] = n, pc[t] \in {"write", "truncate"},
         NEW c \in 0 .. CountMax, SetCount(t, c), fd' = fd,
         \A u \in Threads : u # t => resid'[u] = resid[u]
  PROVE  /\ sems' \in [Nums -> Semaphores \cup {NULL}]
         /\ cv' \in [Nums -> Seq(Threads)] /\ pc' \in [Threads -> Calls]
         /\ \A m \in Nums :
              /\ m # n => sems'[m] = sems[m]
              /\ sems'[m] # NULL <=> sems[m] # NULL
              /\ sems[m] # NULL => /\ sems'[m].hasvnode <=> sems[m].hasvnode
                                   /\ sems'[m].linked <=> sems[m].linked
         /\ \A u \in Threads :
              \/ pc'[u] = pc[u]
              \/ pc'[u] = "ready" /\ u = t
              \/ pc'[u] = "read" /\ pc[u] = "asleep" /\ fd[u] = n
         /\ SleepersQueued'
<1> USE SemFsAssumption DEF IInv, SemFsInv
<1>1. sems[n] # NULL
  BY DEF SemOutlivesUsers, Nums
<1>2. PICK q : q = semfs_wakeup(n, c)
  OBVIOUS
<1>3. q \in Seq(Threads) /\ Range(q) \subseteq Range(cv[n]) /\ IsInjective(q)
  BY <1>2, WakeupLeaves
<1>4. PICK woken : woken = Range(cv[n]) \ Range(q)
  OBVIOUS
<1>5. /\ sems' = [sems EXCEPT ![n].count = c]
      /\ cv' = [cv EXCEPT ![n] = q]
      /\ pc' = [r \in Threads |-> IF r \in woken THEN "read"
                                  ELSE IF r = t THEN "ready" ELSE pc[r]]
  BY <1>2, <1>4 DEF SetCount
<1>6. Range(cv[n]) = {u \in Threads : pc[u] = "asleep" /\ fd[u] = n}
  BY DEF SleepersQueued
<1>7. /\ sems' \in [Nums -> Semaphores \cup {NULL}]
      /\ \A m \in Nums :
           /\ m # n => sems'[m] = sems[m]
           /\ sems'[m] # NULL <=> sems[m] # NULL
           /\ sems[m] # NULL => /\ sems'[m].hasvnode <=> sems[m].hasvnode
                                /\ sems'[m].linked <=> sems[m].linked
  BY <1>1, <1>5, NewCountSame
<1>8. /\ cv' \in [Nums -> Seq(Threads)]
      /\ \A m \in Nums : m # n => cv'[m] = cv[m]
      /\ cv'[n] = q
  BY <1>3, <1>5 DEF TypeOK
<1>9. pc' \in [Threads -> Calls]
  BY <1>5 DEF TypeOK, Calls
<1>10. \A u \in Threads : pc'[u] = IF u \in woken THEN "read"
                                   ELSE IF u = t THEN "ready" ELSE pc[u]
  BY <1>5
<1>11. woken \subseteq Range(cv[n]) /\ t \notin Range(cv[n])
  BY <1>4, <1>6
<1>12. ASSUME NEW m \in Nums
       PROVE  /\ Range(cv'[m]) = {u \in Threads : pc'[u] = "asleep" /\ fd'[u] = m}
              /\ IsInjective(cv'[m])
              /\ \A u \in Range(cv'[m]) : resid'[u] > 0
  <2>1. CASE m = n
    <3>1. Range(q) = {u \in Threads : pc'[u] = "asleep" /\ fd[u] = n}
      BY <1>3, <1>4, <1>6, <1>10, <1>11
    <3>2. \A u \in Range(q) : u \in Threads /\ u # t /\ resid[u] > 0
      BY <1>3, <1>6, <1>11 DEF SleepersQueued
    <3>3. QED
      BY <1>3, <1>8, <2>1, <3>1, <3>2
  <2>2. CASE m # n
    <3>1. Range(cv[m]) = {u \in Threads : pc[u] = "asleep" /\ fd[u] = m}
      BY DEF SleepersQueued
    <3>2. ASSUME NEW u \in Threads, fd[u] = m
          PROVE  u # t /\ u \notin woken /\ pc'[u] = pc[u]
      BY <1>6, <1>10, <1>11, <2>2, <3>2
    <3>3. {u \in Threads : pc'[u] = "asleep" /\ fd[u] = m} = Range(cv[m])
      BY <3>1, <3>2
    <3>4. \A u \in Range(cv[m]) : u \in Threads /\ u # t /\ resid[u] > 0
      BY <3>1, <3>2 DEF SleepersQueued
    <3>5. IsInjective(cv[m])
      BY DEF SleepersQueued
    <3>6. QED
      BY <1>8, <2>2, <3>3, <3>4, <3>5
  <2>3. QED
    BY <2>1, <2>2
<1>13. SleepersQueued'
  BY <1>12 DEF SleepersQueued
<1>14. QED
  BY <1>6, <1>7, <1>8, <1>9, <1>10, <1>11, <1>13

(* V(): the sum, or nothing when it would wrap.                            *)
LEMMA WriteStep ==
  ASSUME IInv, NEW t \in Threads, semfs_write(t)
  PROVE  IInv'
<1> USE SemFsAssumption DEF IInv, SemFsInv
<1>1. /\ pc[t] = "write" /\ resid' = [resid EXCEPT ![t] = 0] /\ UnlockFile(t)
      /\ UNCHANGED <<dents, refs, dirlock, fd, num>>
  BY DEF semfs_write
<1>2. PICK n \in Nums : fd[t] = n
  BY <1>1 DEF CallsRelyOn, TypeOK
<1>3. PICK s \in Semaphores : s = sems[n]
  <2>1. n # NULL
    BY DEF Nums
  <2>2. sems[n] # NULL
    BY <1>2, <2>1 DEF SemOutlivesUsers
  <2>3. QED
    BY <2>2 DEF TypeOK
<1>4. PICK c \in 0 .. CountMax : SetCount(t, c)
  <2>1. s.count \in 0 .. CountMax /\ resid[t] \in 0 .. CountMax
    BY DEF Semaphores, TypeOK
  <2>2. NewCount(t) \in 0 .. CountMax
    <3>1. NewCount(t) = (s.count + resid[t]) % (CountMax + 1)
      BY <1>2, <1>3 DEF NewCount
    <3>2. \A i \in Nat, d \in Nat : i % (d + 1) \in 0 .. d
      OBVIOUS
    <3>3. s.count + resid[t] \in Nat
      BY <2>1
    <3>4. QED
      BY <3>1, <3>2, <3>3
  <2>3. PICK c : c = IF resid[t] = 0 \/ NewCount(t) < sems[fd[t]].count
                       THEN sems[fd[t]].count ELSE NewCount(t)
    OBVIOUS
  <2>4. c \in 0 .. CountMax
    BY <1>2, <1>3, <2>1, <2>2, <2>3
  <2>5. SetCount(t, c)
    BY <2>3 DEF semfs_write, SetCount
  <2>6. QED
    BY <2>4, <2>5
<1>5. \A u \in Threads : u # t => resid'[u] = resid[u]
  BY <1>1 DEF TypeOK
<1>6. /\ sems' \in [Nums -> Semaphores \cup {NULL}]
      /\ cv' \in [Nums -> Seq(Threads)] /\ pc' \in [Threads -> Calls]
      /\ \A m \in Nums :
           /\ m # n => sems'[m] = sems[m]
           /\ sems'[m] # NULL <=> sems[m] # NULL
           /\ sems[m] # NULL => /\ sems'[m].hasvnode <=> sems[m].hasvnode
                                /\ sems'[m].linked <=> sems[m].linked
      /\ \A u \in Threads :
           \/ pc'[u] = pc[u]
           \/ pc'[u] = "ready" /\ u = t
           \/ pc'[u] = "read" /\ pc[u] = "asleep" /\ fd[u] = n
      /\ SleepersQueued'
  BY <1>1, <1>2, <1>4, <1>5, SetCountStep
<1>7. TypeOK'
  <2>1. lk' \in [Nums -> UserThreads \cup {NULL}]
    BY <1>1 DEF UnlockFile, TypeOK
  <2>2. resid' \in [Threads -> 0 .. CountMax]
    BY <1>1 DEF TypeOK
  <2>3. QED
    BY <1>1, <1>6, <2>1, <2>2 DEF TypeOK
<1>8. RefsCounted' /\ NothingOrphaned' /\ SemOutlivesUsers' /\ NamesDistinct' /\ CallsRelyOn'
  <2>1. n # NULL
    BY DEF Nums
  <2>2. QED
    BY <1>1, <1>6, <2>1, TablesSame
<1>9. QED
  BY <1>6, <1>7, <1>8

(* truncate to nothing.                                                    *)
LEMMA TruncateStep ==
  ASSUME IInv, NEW t \in Threads, semfs_truncate(t)
  PROVE  IInv'
<1> USE SemFsAssumption DEF IInv, SemFsInv
<1>1. /\ pc[t] = "truncate" /\ SetCount(t, 0)
      /\ UNCHANGED <<dents, refs, dirlock, lk, fd, num, resid>>
  BY DEF semfs_truncate
<1>2. PICK n \in Nums : fd[t] = n
  BY <1>1 DEF CallsRelyOn, TypeOK
<1>3. /\ sems' \in [Nums -> Semaphores \cup {NULL}]
      /\ cv' \in [Nums -> Seq(Threads)] /\ pc' \in [Threads -> Calls]
      /\ \A m \in Nums :
           /\ m # n => sems'[m] = sems[m]
           /\ sems'[m] # NULL <=> sems[m] # NULL
           /\ sems[m] # NULL => /\ sems'[m].hasvnode <=> sems[m].hasvnode
                                /\ sems'[m].linked <=> sems[m].linked
      /\ \A u \in Threads :
           \/ pc'[u] = pc[u]
           \/ pc'[u] = "ready" /\ u = t
           \/ pc'[u] = "read" /\ pc[u] = "asleep" /\ fd[u] = n
      /\ SleepersQueued'
  <2>1. 0 \in 0 .. CountMax
    OBVIOUS
  <2>2. QED
    BY <1>1, <1>2, <2>1, SetCountStep
<1>4. TypeOK'
  BY <1>1, <1>3 DEF TypeOK
<1>5. RefsCounted' /\ NothingOrphaned' /\ SemOutlivesUsers' /\ NamesDistinct' /\ CallsRelyOn'
  <2>1. n # NULL
    BY DEF Nums
  <2>2. QED
    BY <1>1, <1>3, <2>1, TablesSame
<1>6. QED
  BY <1>3, <1>4, <1>5

(* P(): what there is is taken, and a thread that wants more sleeps last.  *)
LEMMA ReadStep ==
  ASSUME IInv, NEW t \in Threads, semfs_read(t)
  PROVE  IInv'
<1> USE SemFsAssumption DEF IInv, SemFsInv
<1>1. pc[t] = "read" /\ UNCHANGED <<dents, refs, dirlock, fd, num>>
  BY DEF semfs_read
<1>2. PICK n \in Nums : fd[t] = n /\ n # NULL
  BY <1>1 DEF CallsRelyOn, TypeOK
<1>3. PICK s \in Semaphores : s = sems[n] /\ sems[n] # NULL
  BY <1>2 DEF TypeOK, SemOutlivesUsers
<1>4. s.count \in 0 .. CountMax /\ resid[t] \in 0 .. CountMax
  BY DEF Semaphores, TypeOK
<1>5. PICK consume : consume = Min({resid[t], sems[fd[t]].count})
  OBVIOUS
<1>6. consume \in {resid[t], s.count} /\ consume <= resid[t] /\ consume <= s.count
  <2>1. {resid[t], s.count} \in SUBSET Nat /\ {resid[t], s.count} # {}
    BY <1>4
  <2>2. QED
    BY <1>2, <1>3, <1>5, <2>1, MinLemma
<1>7. PICK c \in 0 .. CountMax, left \in 0 .. CountMax :
        c = s.count - consume /\ left = resid[t] - consume
  BY <1>4, <1>6
<1>8. sems' = [sems EXCEPT ![n].count = c]
  <2>1. sems' = [sems EXCEPT ![n].count = @ - consume]
    BY <1>2, <1>5 DEF semfs_read
  <2>2. QED
    BY <1>3, <1>7, <2>1
<1>9. resid' = [resid EXCEPT ![t] = left]
  BY <1>5, <1>7 DEF semfs_read
<1>10. /\ sems' \in [Nums -> Semaphores \cup {NULL}]
       /\ \A m \in Nums :
            /\ m # n => sems'[m] = sems[m]
            /\ sems'[m] # NULL <=> sems[m] # NULL
            /\ sems[m] # NULL => /\ sems'[m].hasvnode <=> sems[m].hasvnode
                                 /\ sems'[m].linked <=> sems[m].linked
  BY <1>3, <1>8, NewCountSame
<1>11. /\ resid' \in [Threads -> 0 .. CountMax]
       /\ \A u \in Threads : u # t => resid'[u] = resid[u]
       /\ resid'[t] = left
  BY <1>9 DEF TypeOK
<1>12. CASE resid[t] = consume
  <2>1. pc' = [pc EXCEPT ![t] = "ready"] /\ UnlockFile(t) /\ cv' = cv
    BY <1>5, <1>12 DEF semfs_read
  <2>2. (\A u \in Threads : u # t => pc'[u] = pc[u]) /\ pc'[t] = "ready"
    BY <2>1 DEF TypeOK
  <2>3. lk' \in [Nums -> UserThreads \cup {NULL}]
    BY <2>1 DEF UnlockFile, TypeOK
  <2>4. TypeOK'
    BY <1>1, <1>10, <1>11, <2>1, <2>3 DEF TypeOK, Calls
  <2>5. SleepersQueued'
    BY <1>1, <1>11, <2>1, <2>2, SleepersSame
  <2>6. RefsCounted' /\ NothingOrphaned' /\ SemOutlivesUsers' /\ NamesDistinct' /\ CallsRelyOn'
    BY <1>1, <1>10, <2>2, TablesSame
  <2>7. QED
    BY <2>4, <2>5, <2>6
<1>13. CASE resid[t] # consume
  <2>1. /\ pc' = [pc EXCEPT ![t] = "asleep"] /\ lk' = lk
        /\ cv' = [cv EXCEPT ![n] = Append(@, t)]
    BY <1>2, <1>5, <1>13 DEF semfs_read
  <2>2. (\A u \in Threads : u # t => pc'[u] = pc[u]) /\ pc'[t] = "asleep"
    BY <2>1 DEF TypeOK
  <2>3. PICK q \in Seq(Threads) : q = cv[n]
    BY DEF TypeOK
  <2>4. /\ Range(q) = {u \in Threads : pc[u] = "asleep" /\ fd[u] = n}
        /\ IsInjective(q)
        /\ \A u \in Range(q) : resid[u] > 0
    BY <2>3 DEF SleepersQueued
  <2>5. t \notin Range(q)
    BY <1>1, <2>4
  <2>6. PICK q2 \in Seq(Threads) : q2 = Append(q, t)
    <3>1. Append(q, t) \in Seq(Threads)
      BY <2>3
    <3>2. QED
      BY <3>1
  <2>7. Range(q2) = Range(q) \cup {t} /\ IsInjective(q2)
    <3>1. /\ Len(q) \in Nat /\ DOMAIN q = 1 .. Len(q) /\ DOMAIN q2 = 1 .. Len(q) + 1
          /\ \A i \in 1 .. Len(q) : q2[i] = q[i]
          /\ q2[Len(q) + 1] = t
      BY <2>6
    <3>2. \A i \in DOMAIN q2 : i = Len(q) + 1 \/ i \in DOMAIN q
      BY <3>1
    <3>3. \A i \in DOMAIN q : q[i] # t
      BY <2>5 DEF Range
    <3>4. IsInjective(q2)
      BY <2>4, <3>1, <3>2, <3>3 DEF IsInjective
    <3>5. Range(q2) \subseteq Range(q) \cup {t}
      BY <3>1, <3>2 DEF Range
    <3>6. Range(q) \cup {t} \subseteq Range(q2)
      <4>1. \A i \in DOMAIN q : i \in DOMAIN q2
        BY <3>1
      <4>2. Len(q) + 1 \in DOMAIN q2
        BY <3>1
      <4>3. QED
        BY <3>1, <4>1, <4>2 DEF Range
    <3>7. QED
      BY <3>4, <3>5, <3>6
  <2>8. /\ cv' \in [Nums -> Seq(Threads)]
        /\ \A m \in Nums : m # n => cv'[m] = cv[m]
        /\ cv'[n] = q2
    BY <2>1, <2>3, <2>6 DEF TypeOK
  <2>9. left > 0
    BY <1>4, <1>6, <1>7, <1>13
  <2>10. TypeOK'
    BY <1>1, <1>10, <1>11, <2>1, <2>8 DEF TypeOK, Calls
  <2>11. ASSUME NEW m \in Nums
         PROVE  /\ Range(cv'[m]) = {u \in Threads : pc'[u] = "asleep" /\ fd'[u] = m}
                /\ IsInjective(cv'[m])
                /\ \A u \in Range(cv'[m]) : resid'[u] > 0
    <3>1. CASE m = n
      <4>1. {u \in Threads : pc'[u] = "asleep" /\ fd[u] = n} = Range(q2)
        BY <1>2, <2>2, <2>4, <2>7
      <4>2. \A u \in Range(q2) : resid'[u] > 0
        BY <1>11, <2>4, <2>7, <2>9
      <4>3. QED
        BY <1>1, <2>7, <2>8, <3>1, <4>1, <4>2
    <3>2. CASE m # n
      <4>1. /\ Range(cv[m]) = {u \in Threads : pc[u] = "asleep" /\ fd[u] = m}
            /\ IsInjective(cv[m]) /\ \A u \in Range(cv[m]) : resid[u] > 0
        BY DEF SleepersQueued
      <4>2. {u \in Threads : pc'[u] = "asleep" /\ fd[u] = m}
              = {u \in Threads : pc[u] = "asleep" /\ fd[u] = m}
        BY <1>2, <2>2, <3>2
      <4>3. \A u \in Range(cv[m]) : u \in Threads /\ u # t
        BY <1>2, <3>2, <4>1
      <4>4. QED
        BY <1>1, <1>11, <2>8, <3>2, <4>1, <4>2, <4>3
    <3>3. QED
      BY <3>1, <3>2
  <2>12. SleepersQueued'
    BY <2>11 DEF SleepersQueued
  <2>13. fd[t] # NULL
    BY <1>2
  <2>14. RefsCounted' /\ NothingOrphaned' /\ SemOutlivesUsers' /\ NamesDistinct' /\ CallsRelyOn'
    BY <1>1, <1>10, <2>2, <2>13, TablesSame
  <2>15. QED
    BY <2>10, <2>12, <2>14
<1>14. QED
  BY <1>12, <1>13

----------------------------------------------------------------------------
(* The theorems *)

(* Nothing is open and nothing is named at first.                          *)
LEMMA InitIInv == Init => IInv
<1> SUFFICES ASSUME Init PROVE IInv
  OBVIOUS
<1> USE SemFsAssumption DEF Init
<1>1. TypeOK
  <2>1. Cardinality(Threads) \in Nat
    BY FS_CardinalityType
  <2>2. << >> \in Seq(Threads)
    OBVIOUS
  <2>3. QED
    BY <2>1, <2>2 DEF TypeOK, Calls
<1>2. RefsCounted
  <2>1. ASSUME NEW n \in Nums PROVE refs[n] = Cardinality({t \in Threads : fd[t] = n})
    <3>1. {t \in Threads : fd[t] = n} = {} /\ refs[n] = 0
      BY DEF Nums
    <3>2. QED
      BY <3>1, FS_EmptySet
  <2>2. QED
    BY <2>1 DEF RefsCounted
<1>3. NothingOrphaned /\ SemOutlivesUsers /\ NamesDistinct
  BY DEF NothingOrphaned, SemOutlivesUsers, NamesDistinct
<1>4. CallsRelyOn
  BY DEF CallsRelyOn
<1>5. SleepersQueued
  <2>1. Range(<< >>) = {} /\ IsInjective(<< >>)
    BY DEF Range, IsInjective
  <2>2. QED
    BY <2>1 DEF SleepersQueued
<1>6. QED
  BY <1>1, <1>2, <1>3, <1>4, <1>5 DEF IInv, SemFsInv

(* Every step keeps the invariant.                                         *)
LEMMA StepIInv ==
  ASSUME IInv, [Next]_vars
  PROVE  IInv'
<1>1. CASE UNCHANGED vars
  BY <1>1 DEF vars, IInv, SemFsInv, TypeOK, RefsCounted, NothingOrphaned, SleepersQueued,
              CallsRelyOn, NamesDistinct, SemOutlivesUsers
<1>2. ASSUME NEW t \in Threads, Begin(t) PROVE IInv'
  <2>1. CASE \E x \in Names : semfs_lookup(t, x) \/ semfs_creat(t, x) \/ semfs_remove(t, x)
    BY <2>1, LookupStep, CreatStep, RemoveStep
  <2>2. CASE vnode_decref(t)
    BY <2>2, DecrefStep
  <2>3. CASE sys_read(t) \/ sys_write(t)
    BY <2>3, VopCallStep
  <2>4. QED
    BY <1>2, <2>1, <2>2, <2>3 DEF Begin
<1>3. ASSUME NEW t \in Threads, Continue(t) PROVE IInv'
  <2>1. CASE semfs_creat_link(t)
    BY <2>1, CreatLinkStep
  <2>2. CASE \E failed \in NoMemory : semfs_creat_fail(t, failed)
    BY <2>2, CreatFailStep
  <2>3. CASE semfs_reclaim(t)
    BY <2>3, ReclaimStep
  <2>4. CASE semfs_remove_finish(t)
    BY <2>4, RemoveFinishStep
  <2>5. CASE lock_file(t)
    BY <2>5, LockFileStep
  <2>6. CASE semfs_read(t)
    BY <2>6, ReadStep
  <2>7. CASE semfs_write(t)
    BY <2>7, WriteStep
  <2>8. CASE semfs_truncate(t)
    BY <2>8, TruncateStep
  <2>9. CASE semfs_reclaim_busy(t)
    BY <2>9, ReclaimBusyStep
  <2>10. QED
    BY <1>3, <2>1, <2>2, <2>3, <2>4, <2>5, <2>6, <2>7, <2>8, <2>9 DEF Continue
<1>4. QED
  BY <1>1, <1>2, <1>3 DEF Next

(* The invariant holds throughout.                                         *)
LEMMA IInvAlways == Spec => []IInv
<1>1. IInv /\ [Next]_vars => IInv'
  BY StepIInv
<1>2. QED
  BY <1>1, InitIInv, PTL DEF Spec

(* Between any two lock sections of semfs, the names, the table, the       *)
(* vnodes' reference counts and the cv queues agree: open, close, remove,  *)
(* P and V of any number of threads leave nothing behind and lose nobody.  *)
(* A last close that falls inside a remove stops the kernel, and leaves    *)
(* them so.                                                                *)
THEOREM SemFsSafe == Spec => []SemFsInv
<1>1. IInv => SemFsInv
  BY DEF IInv
<1>2. QED
  BY <1>1, IInvAlways, PTL

(* A semaphore that is open, or that creat or remove works on, stays in    *)
(* the table, and sems_hasvnode is true exactly while somebody has it      *)
(* open.                                                                   *)
THEOREM OpenSemaphoresLive == Spec => []SemOutlivesUsers
<1>1. IInv => SemOutlivesUsers
  BY DEF IInv
<1>2. QED
  BY <1>1, IInvAlways, PTL

(* Only one who has a semaphore open moves its count: semfs_sem_insert     *)
(* never puts a new semaphore over one that is open and has lost its name. *)
THEOREM CountsAreHolders == Spec => HoldersMoveCount
<1> DEFINE Moved(n) == sems[n] # NULL /\ sems'[n] # NULL /\ sems'[n].count # sems[n].count
           Holder(n) == \E t \in Threads : fd[t] = n /\ pc[t] \in {"read", "write", "truncate"}
<1>1. ASSUME IInv, Next, NEW m \in Nums, sems[m] # NULL, sems'[m] # NULL,
             sems'[m].count # sems[m].count
      PROVE  Holder(m)
  <2> USE SemFsAssumption DEF IInv, SemFsInv
  <2>0. PICK t \in Threads : Begin(t) \/ Continue(t)
    BY <1>1 DEF Next
  <2>1. ASSUME NEW x \in Names, semfs_lookup(t, x) PROVE FALSE
    <3>1. PICK n \in Nums : n = dents[x] /\ sems[n] # NULL
      BY <1>1, <2>1 DEF semfs_lookup, NothingOrphaned, TypeOK
    <3>2. sems' = [sems EXCEPT ![n].hasvnode = TRUE, ![n].linked = sems[n].linked]
      BY <2>1, <3>1 DEF semfs_lookup, semfs_getvnode
    <3>3. sems[n] \in Semaphores /\ sems \in [Nums -> Semaphores \cup {NULL}]
      BY <1>1, <3>1 DEF TypeOK
    <3>4. QED
      BY <1>1, <3>2, <3>3 DEF Semaphores
  <2>2. ASSUME NEW x \in Names, semfs_creat(t, x) PROVE FALSE
    <3>1. sems[InsertPlace] = NULL /\ InsertPlace \in Nums
      BY <1>1, <2>2, CreatStep
    <3>2. sems' = [sems EXCEPT ![InsertPlace] = NewSemaphore]
      BY <2>2 DEF semfs_creat
    <3>3. QED
      BY <1>1, <3>1, <3>2 DEF TypeOK
  <2>3. ASSUME NEW x \in Names, semfs_remove(t, x) PROVE FALSE
    <3>1. PICK n \in Nums : n = dents[x] /\ sems[n] # NULL
      BY <1>1, <2>3 DEF semfs_remove, NothingOrphaned, TypeOK
    <3>2. sems' = [sems EXCEPT ![n].linked = FALSE]
      BY <2>3, <3>1 DEF semfs_remove
    <3>3. sems[n] \in Semaphores /\ sems \in [Nums -> Semaphores \cup {NULL}]
      BY <1>1, <3>1 DEF TypeOK
    <3>4. QED
      BY <1>1, <3>2, <3>3 DEF Semaphores
  <2>4. ASSUME \/ vnode_decref(t) \/ sys_read(t) \/ sys_write(t) \/ lock_file(t)
               \/ semfs_reclaim_busy(t)
        PROVE  FALSE
    <3>1. sems' = sems
      BY <2>4 DEF vnode_decref, sys_read, sys_write, VopCall, lock_file, semfs_reclaim_busy
    <3>2. QED
      BY <1>1, <3>1
  <2>5. ASSUME semfs_creat_link(t) PROVE FALSE
    <3>1. PICK n \in Nums : n = num[t] /\ sems[n] # NULL
      BY <1>1, <2>5 DEF semfs_creat_link, CallsRelyOn, TypeOK
    <3>2. sems' = [sems EXCEPT ![n].hasvnode = TRUE, ![n].linked = TRUE]
      BY <2>5, <3>1 DEF semfs_creat_link, semfs_getvnode
    <3>3. sems[n] \in Semaphores /\ sems \in [Nums -> Semaphores \cup {NULL}]
      BY <1>1, <3>1 DEF TypeOK
    <3>4. QED
      BY <1>1, <3>2, <3>3 DEF Semaphores
  <2>6. ASSUME NEW failed \in NoMemory, semfs_creat_fail(t, failed) PROVE FALSE
    <3>1. PICK n \in Nums : n = num[t]
      BY <1>1, <2>6 DEF semfs_creat_fail, CallsRelyOn, TypeOK
    <3>2. sems' = [sems EXCEPT ![n] = NULL]
      BY <2>6, <3>1 DEF semfs_creat_fail
    <3>3. QED
      BY <1>1, <3>2 DEF TypeOK
  <2>7. ASSUME semfs_reclaim(t) PROVE FALSE
    <3>1. PICK n \in Nums : n = fd[t]
      BY <1>1, <2>7 DEF semfs_reclaim, CallsRelyOn, TypeOK
    <3>2. PICK s : s = sems[n]
      OBVIOUS
    <3>3. s \in Semaphores
      BY <1>1, <3>1, <3>2 DEF TypeOK, SemOutlivesUsers, Nums
    <3>4. [s EXCEPT !.hasvnode = FALSE].count = s.count
      BY <3>3 DEF Semaphores
    <3>5. PICK v : v = IF refs[n] > 1 THEN s
                       ELSE IF s.linked THEN [s EXCEPT !.hasvnode = FALSE] ELSE NULL
      OBVIOUS
    <3>6. sems' = [sems EXCEPT ![n] = v]
      BY <2>7, <3>1, <3>2, <3>5 DEF semfs_reclaim
    <3>7. sems'[m] = IF m = n THEN v ELSE sems[m]
      BY <1>1, <3>6 DEF TypeOK
    <3>8. QED
      BY <1>1, <3>2, <3>4, <3>5, <3>7
  <2>8. ASSUME semfs_remove_finish(t) PROVE FALSE
    <3>1. PICK n \in Nums : n = num[t]
      BY <1>1, <2>8 DEF semfs_remove_finish, CallsRelyOn, TypeOK
    <3>2. sems' = [sems EXCEPT ![n] = IF sems[n].hasvnode THEN sems[n] ELSE NULL]
      BY <2>8, <3>1 DEF semfs_remove_finish
    <3>3. QED
      BY <1>1, <3>2 DEF TypeOK
  <2>9. ASSUME semfs_read(t) \/ semfs_write(t) \/ semfs_truncate(t) PROVE Holder(m)
    <3>1. pc[t] \in {"read", "write", "truncate"}
      BY <2>9 DEF semfs_read, semfs_write, semfs_truncate
    <3>2. PICK n \in Nums : n = fd[t]
      <4>1. fd[t] # NULL
        BY <1>1, <3>1 DEF CallsRelyOn
      <4>2. fd[t] \in Nums \cup {NULL}
        BY <1>1 DEF TypeOK
      <4>3. QED
        BY <4>1, <4>2
    <3>3. \E c : sems' = [sems EXCEPT ![n].count = c]
      <4>1. CASE semfs_read(t)
        BY <3>2, <4>1 DEF semfs_read, SetCount
      <4>2. CASE semfs_write(t)
        BY <3>2, <4>2 DEF semfs_write, SetCount
      <4>3. CASE semfs_truncate(t)
        BY <3>2, <4>3 DEF semfs_truncate, SetCount
      <4>4. QED
        BY <2>9, <4>1, <4>2, <4>3
    <3>4. m # n => sems'[m] = sems[m]
      BY <3>3, <1>1 DEF TypeOK
    <3>5. QED
      BY <1>1, <3>1, <3>2, <3>4
  <2>10. QED
    BY <2>0, <2>1, <2>2, <2>3, <2>4, <2>5, <2>6, <2>7, <2>8, <2>9 DEF Begin, Continue
<1>2. IInv /\ [Next]_vars
        => [\A n \in Nums : Moved(n) => Holder(n)]_vars
  BY <1>1
<1>3. QED
  BY <1>2, IInvAlways, PTL DEF Spec, HoldersMoveCount

============================================================================
