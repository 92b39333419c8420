---------------------------- MODULE SchedProofs ----------------------------
(* Proofs about Sched: what its lists hold, where each thread is, and what *)
(* thread_count counts.                                                    *)
EXTENDS Sched, FiniteSetTheorems, TLAPS

----------------------------------------------------------------------------
(* Threadlists.                                                            *)

(* Nothing is twice on the list.                                           *)
NoDup(s) == \A i, j \in DOMAIN s : s[i] = s[j] => i = j

(* The empty list.                                                         *)
LEMMA EmptyLemma ==
  /\ <<>> \in Seq(Threads)
  /\ ToSet(<<>>) = {}
  /\ NoDup(<<>>)
  /\ Len(<<>>) = 0
BY DEF ToSet, NoDup

(* What is on a list of threads is a thread, and only the empty list holds *)
(* nothing.                                                                *)
LEMMA ListLemma ==
  ASSUME NEW s \in Seq(Threads)
  PROVE  /\ ToSet(s) \subseteq Threads
         /\ Len(s) \in Nat
         /\ DOMAIN s = 1 .. Len(s)
         /\ \A t : t \in ToSet(s) <=> \E i \in 1 .. Len(s) : s[i] = t
         /\ s = <<>> <=> ToSet(s) = {}
         /\ s = <<>> <=> Len(s) = 0
<1>1. /\ Len(s) \in Nat
      /\ DOMAIN s = 1 .. Len(s)
      /\ s = <<>> <=> Len(s) = 0
  OBVIOUS
<1>2. \A t : t \in ToSet(s) <=> \E i \in 1 .. Len(s) : s[i] = t
  BY <1>1 DEF ToSet
<1>3. ToSet(s) \subseteq Threads
  BY <1>2
<1>4. s = <<>> <=> ToSet(s) = {}
  <2>1. ASSUME s # <<>> PROVE ToSet(s) # {}
    <3>1. 1 \in 1 .. Len(s)
      BY <1>1, <2>1
    <3>2. QED
      BY <1>2, <3>1
  <2>2. QED
    BY <2>1, EmptyLemma
<1>5. QED
  BY <1>1, <1>2, <1>3, <1>4

(* threadlist_addtail.                                                     *)
LEMMA AddtailLemma ==
  ASSUME NEW s \in Seq(Threads), NEW t \in Threads
  PROVE  /\ Append(s, t) \in Seq(Threads)
         /\ Append(s, t) # <<>>
         /\ Len(Append(s, t)) = Len(s) + 1
         /\ ToSet(Append(s, t)) = ToSet(s) \cup {t}
         /\ NoDup(s) /\ t \notin ToSet(s) => NoDup(Append(s, t))
<1> DEFINE v == Append(s, t)
<1>1. /\ v \in Seq(Threads)
      /\ Len(v) = Len(s) + 1
      /\ DOMAIN v = 1 .. (Len(s) + 1)
      /\ DOMAIN s = 1 .. Len(s)
      /\ Len(s) \in Nat
      /\ \A i \in 1 .. Len(s) : v[i] = s[i]
      /\ v[Len(s) + 1] = t
  OBVIOUS
<1> HIDE DEF v
<1>2. ToSet(v) = ToSet(s) \cup {t}
  BY <1>1 DEF ToSet
<1>3. ASSUME NoDup(s), t \notin ToSet(s)
      PROVE  NoDup(v)
  BY <1>1, <1>3 DEF NoDup, ToSet
<1>4. v # <<>>
  BY <1>1
<1>5. QED
  BY <1>1, <1>2, <1>3, <1>4 DEF v

(* A list is cut in two: what is taken off one end and what is left.       *)
LEMMA SplitLemma ==
  ASSUME NEW s \in Seq(Threads), NEW k \in 0 .. Len(s)
  PROVE  LET a == SubSeq(s, 1, k)
             b == SubSeq(s, k + 1, Len(s))
         IN  /\ a \in Seq(Threads) /\ b \in Seq(Threads)
             /\ Len(a) = k /\ Len(b) = Len(s) - k
             /\ ToSet(s) = ToSet(a) \cup ToSet(b)
             /\ NoDup(s) => NoDup(a) /\ NoDup(b) /\ ToSet(a) \cap ToSet(b) = {}
<1> DEFINE a == SubSeq(s, 1, k)
           b == SubSeq(s, k + 1, Len(s))
<1>1. /\ Len(s) \in Nat /\ DOMAIN s = 1 .. Len(s) /\ k \in Nat /\ k <= Len(s)
  OBVIOUS
<1>2. /\ a \in Seq(Threads) /\ Len(a) = k /\ DOMAIN a = 1 .. k
      /\ \A i \in 1 .. k : a[i] = s[i]
  BY <1>1
<1>3. /\ b \in Seq(Threads) /\ Len(b) = Len(s) - k /\ DOMAIN b = 1 .. (Len(s) - k)
      /\ \A i \in 1 .. (Len(s) - k) : b[i] = s[i + k]
  <2>1. b \in Seq(Threads)
    BY <1>1
  <2>2. Len(b) = Len(s) - k
    <3>1. Len(b) = IF k + 1 <= Len(s) THEN Len(s) - (k + 1) + 1 ELSE 0
      OBVIOUS
    <3> HIDE DEF a, b
    <3>2. CASE k = Len(s)
      BY <1>1, <3>1, <3>2
    <3>3. CASE k + 1 <= Len(s)
      <4>1. Len(b) = Len(s) - (k + 1) + 1
        BY <3>1, <3>3
      <4>2. QED
        BY <1>1, <4>1
    <3>4. \A m, n \in Nat : m <= n => m = n \/ m + 1 <= n
      OBVIOUS
    <3>5. k = Len(s) \/ k + 1 <= Len(s)
      BY <1>1, <3>4
    <3>6. QED
      BY <3>2, <3>3, <3>5
  <2>3. DOMAIN b = 1 .. Len(b)
    BY <2>1
  <2>4. ASSUME NEW i \in 1 .. (Len(s) - k) PROVE b[i] = s[i + k]
    BY <1>1
  <2>5. QED
    BY <2>1, <2>2, <2>3, <2>4
<1> HIDE DEF a, b
<1>4. ToSet(s) \subseteq ToSet(a) \cup ToSet(b)
  <2>1. SUFFICES ASSUME NEW i \in 1 .. Len(s)
                 PROVE  s[i] \in ToSet(a) \cup ToSet(b)
    BY <1>1 DEF ToSet
  <2>2. CASE i <= k
    BY <1>1, <1>2, <2>2 DEF ToSet
  <2>3. CASE i > k
    <3>1. i - k \in 1 .. (Len(s) - k) /\ (i - k) + k = i
      BY <1>1, <2>3
    <3>2. b[i - k] = s[i]
      BY <1>3, <3>1
    <3>3. QED
      BY <1>3, <3>1, <3>2 DEF ToSet
  <2>4. QED
    BY <1>1, <2>2, <2>3
<1>5. \A i \in 1 .. (Len(s) - k) : i + k \in 1 .. Len(s)
  BY <1>1
<1>6. ToSet(a) \subseteq ToSet(s) /\ ToSet(b) \subseteq ToSet(s)
  <2>1. ASSUME NEW i \in 1 .. k PROVE a[i] \in ToSet(s)
    BY <1>1, <1>2 DEF ToSet
  <2>2. ASSUME NEW i \in 1 .. (Len(s) - k) PROVE b[i] \in ToSet(s)
    <3>1. b[i] = s[i + k] /\ i + k \in DOMAIN s
      BY <1>1, <1>3, <1>5
    <3>2. QED
      BY <3>1 DEF ToSet
  <2>3. QED
    BY <1>2, <1>3, <2>1, <2>2 DEF ToSet
<1>7. ASSUME NoDup(s)
      PROVE  NoDup(a) /\ NoDup(b) /\ ToSet(a) \cap ToSet(b) = {}
  <2>1. NoDup(a)
    BY <1>1, <1>2, <1>7 DEF NoDup
  <2>2. NoDup(b)
    <3>1. SUFFICES ASSUME NEW i \in 1 .. (Len(s) - k), NEW j \in 1 .. (Len(s) - k),
                          b[i] = b[j]
                   PROVE  i = j
      BY <1>3 DEF NoDup
    <3>2. s[i + k] = s[j + k] /\ i + k \in DOMAIN s /\ j + k \in DOMAIN s
      BY <1>1, <1>3, <1>5, <3>1
    <3>3. i + k = j + k
      BY <1>7, <3>2 DEF NoDup
    <3>4. QED
      BY <1>1, <3>3
  <2>3. ASSUME NEW t \in ToSet(a), t \in ToSet(b) PROVE FALSE
    <3>1. PICK i \in 1 .. k : t = s[i]
      BY <1>2 DEF ToSet
    <3>2. PICK j \in 1 .. (Len(s) - k) : t = s[j + k]
      BY <1>3, <2>3 DEF ToSet
    <3>3. i \in DOMAIN s /\ j + k \in DOMAIN s /\ i # j + k
      BY <1>1, <1>5
    <3>4. QED
      BY <1>7, <3>1, <3>2, <3>3 DEF NoDup
  <2>4. QED
    BY <2>1, <2>2, <2>3
<1>8. QED
  BY <1>2, <1>3, <1>4, <1>6, <1>7 DEF a, b

(* threadlist_remhead.                                                     *)
LEMMA RemheadLemma ==
  ASSUME NEW s \in Seq(Threads), s # <<>>, NoDup(s)
  PROVE  /\ Head(s) \in Threads
         /\ Head(s) \in ToSet(s)
         /\ Tail(s) \in Seq(Threads)
         /\ NoDup(Tail(s))
         /\ ToSet(Tail(s)) = ToSet(s) \ {Head(s)}
<1> DEFINE v == Tail(s)
<1>1. /\ v \in Seq(Threads)
      /\ Len(s) \in Nat \ {0}
      /\ DOMAIN v = 1 .. (Len(s) - 1)
      /\ DOMAIN s = 1 .. Len(s)
      /\ \A i \in 1 .. (Len(s) - 1) : v[i] = s[i + 1]
      /\ Head(s) = s[1]
  OBVIOUS
<1> HIDE DEF v
<1>2. NoDup(v)
  <2>1. SUFFICES ASSUME NEW i \in DOMAIN v, NEW j \in DOMAIN v, v[i] = v[j]
                 PROVE  i = j
    BY DEF NoDup
  <2>2. /\ i + 1 \in DOMAIN s /\ j + 1 \in DOMAIN s
        /\ s[i + 1] = s[j + 1]
    BY <1>1, <2>1
  <2>3. i + 1 = j + 1
    BY <2>2 DEF NoDup
  <2>4. QED
    BY <1>1, <2>3
<1>3. 1 \in DOMAIN s /\ Head(s) \in ToSet(s) /\ Head(s) \in Threads
  BY <1>1 DEF ToSet
<1>4. ASSUME NEW t \in ToSet(v) PROVE t \in ToSet(s) \ {Head(s)}
  <2>1. PICK i \in 1 .. (Len(s) - 1) : t = v[i]
    BY <1>1 DEF ToSet
  <2>2. i + 1 \in DOMAIN s /\ i + 1 # 1 /\ t = s[i + 1]
    BY <1>1, <2>1
  <2>3. t # s[1]
    BY <1>3, <2>2 DEF NoDup
  <2>4. QED
    BY <1>1, <2>2, <2>3 DEF ToSet
<1>5. ASSUME NEW t \in ToSet(s) \ {Head(s)} PROVE t \in ToSet(v)
  <2>1. PICK i \in 1 .. Len(s) : t = s[i]
    BY <1>1 DEF ToSet
  <2>2. i # 1 /\ i - 1 \in 1 .. (Len(s) - 1) /\ v[i - 1] = s[i]
    BY <1>1, <2>1
  <2>3. QED
    BY <1>1, <2>1, <2>2 DEF ToSet
<1>6. ToSet(v) = ToSet(s) \ {Head(s)}
  BY <1>4, <1>5
<1>7. QED
  BY <1>1, <1>2, <1>3, <1>6 DEF v

(* One list is put behind another.                                         *)
LEMMA ConcatLemma ==
  ASSUME NEW a \in Seq(Threads), NEW b \in Seq(Threads)
  PROVE  /\ a \o b \in Seq(Threads)
         /\ Len(a \o b) = Len(a) + Len(b)
         /\ ToSet(a \o b) = ToSet(a) \cup ToSet(b)
         /\ NoDup(a) /\ NoDup(b) /\ ToSet(a) \cap ToSet(b) = {} => NoDup(a \o b)
<1> DEFINE v == a \o b
<1>1. /\ v \in Seq(Threads)
      /\ Len(a) \in Nat /\ Len(b) \in Nat
      /\ Len(v) = Len(a) + Len(b)
      /\ DOMAIN v = 1 .. (Len(a) + Len(b))
      /\ DOMAIN a = 1 .. Len(a) /\ DOMAIN b = 1 .. Len(b)
      /\ \A i \in 1 .. (Len(a) + Len(b)) :
           v[i] = IF i <= Len(a) THEN a[i] ELSE b[i - Len(a)]
  OBVIOUS
<1> HIDE DEF v
<1>2. ASSUME NEW t \in ToSet(v) PROVE t \in ToSet(a) \cup ToSet(b)
  <2>1. PICK i \in 1 .. (Len(a) + Len(b)) : t = v[i]
    BY <1>1 DEF ToSet
  <2>2. CASE i <= Len(a)
    BY <1>1, <2>1, <2>2 DEF ToSet
  <2>3. CASE i > Len(a)
    <3>1. i - Len(a) \in 1 .. Len(b) /\ t = b[i - Len(a)]
      BY <1>1, <2>1, <2>3
    <3>2. QED
      BY <1>1, <3>1 DEF ToSet
  <2>4. QED
    BY <1>1, <2>2, <2>3
<1>3. ToSet(a) \subseteq ToSet(v)
  BY <1>1 DEF ToSet
<1>4. ASSUME NEW t \in ToSet(b) PROVE t \in ToSet(v)
  <2>1. PICK i \in 1 .. Len(b) : t = b[i]
    BY <1>1 DEF ToSet
  <2>2. /\ i + Len(a) \in 1 .. (Len(a) + Len(b))
        /\ ~ (i + Len(a) <= Len(a)) /\ (i + Len(a)) - Len(a) = i
    BY <1>1
  <2>3. v[i + Len(a)] = b[i]
    BY <1>1, <2>2
  <2>4. QED
    BY <1>1, <2>1, <2>2, <2>3 DEF ToSet
<1>5. ASSUME NoDup(a), NoDup(b), ToSet(a) \cap ToSet(b) = {} PROVE NoDup(v)
  <2>1. SUFFICES ASSUME NEW i \in 1 .. (Len(a) + Len(b)), NEW j \in 1 .. (Len(a) + Len(b)),
                        v[i] = v[j]
                 PROVE  i = j
    BY <1>1 DEF NoDup
  <2>2. ASSUME NEW k \in 1 .. (Len(a) + Len(b))
        PROVE  \/ k \in DOMAIN a /\ v[k] = a[k] /\ v[k] \in ToSet(a)
               \/ k - Len(a) \in DOMAIN b /\ v[k] = b[k - Len(a)] /\ v[k] \in ToSet(b)
    <3>1. CASE k <= Len(a)
      BY <1>1, <3>1 DEF ToSet
    <3>2. CASE k > Len(a)
      <4>1. k - Len(a) \in DOMAIN b /\ v[k] = b[k - Len(a)]
        BY <1>1, <3>2
      <4>2. QED
        BY <4>1 DEF ToSet
    <3>3. QED
      BY <1>1, <3>1, <3>2
  <2>3. CASE i \in DOMAIN a /\ v[i] = a[i] /\ v[i] \in ToSet(a)
    <3>1. j \in DOMAIN a /\ v[j] = a[j]
      BY <1>5, <2>1, <2>2, <2>3
    <3>2. QED
      BY <1>5, <2>1, <2>3, <3>1 DEF NoDup
  <2>4. CASE i - Len(a) \in DOMAIN b /\ v[i] = b[i - Len(a)] /\ v[i] \in ToSet(b)
    <3>1. j - Len(a) \in DOMAIN b /\ v[j] = b[j - Len(a)]
      BY <1>5, <2>1, <2>2, <2>4
    <3>2. i - Len(a) = j - Len(a)
      BY <1>5, <2>1, <2>4, <3>1 DEF NoDup
    <3>3. QED
      BY <1>1, <3>2
  <2>5. QED
    BY <2>2, <2>3, <2>4
<1>6. ToSet(v) = ToSet(a) \cup ToSet(b)
  BY <1>2, <1>3, <1>4
<1>7. QED
  BY <1>1, <1>5, <1>6 DEF v

(* One thread is taken out of the middle of a list.                        *)
LEMMA RemoveLemma ==
  ASSUME NEW s \in Seq(Threads), NEW t, NoDup(s)
  PROVE  /\ RemoveFirst(s, t) \in Seq(Threads)
         /\ NoDup(RemoveFirst(s, t))
         /\ ToSet(RemoveFirst(s, t)) = ToSet(s) \ {t}
         /\ Len(RemoveFirst(s, t)) <= Len(s)
<1>1. /\ Len(s) \in Nat
      /\ DOMAIN s = 1 .. Len(s)
  OBVIOUS
<1>2. CASE \E i \in 1 .. Len(s) : s[i] = t
  <2>1. PICK k \in 1 .. Len(s) : s[k] = t
    BY <1>2
  <2>2. {i \in 1 .. Len(s) : s[i] = t} = {k}
    BY <1>1, <2>1 DEF NoDup
  <2>3. Min({k}) = k
    BY DEF Min
  <2>4. RemoveFirst(s, t) = RemoveAt(s, k)
    BY <1>2, <2>2, <2>3 DEF RemoveFirst, SelectInSeq
  <2> DEFINE a == SubSeq(s, 1, k - 1)
             r == SubSeq(s, k, Len(s))
             b == SubSeq(s, k + 1, Len(s))
  <2>5. k - 1 \in 0 .. Len(s) /\ (k - 1) + 1 = k
    BY <1>1
  <2>6. /\ a \in Seq(Threads) /\ r \in Seq(Threads)
        /\ Len(a) = k - 1 /\ Len(r) = Len(s) - (k - 1)
        /\ ToSet(s) = ToSet(a) \cup ToSet(r)
        /\ NoDup(a) /\ NoDup(r) /\ ToSet(a) \cap ToSet(r) = {}
    BY <2>5, SplitLemma
  <2>7. /\ Len(r) \in Nat \ {0}
        /\ r # <<>>
        /\ Head(r) = t
        /\ Tail(r) = b
    <3>1. Len(r) \in Nat \ {0} /\ r # <<>>
      BY <1>1, <2>6
    <3>2. Head(r) = t
      BY <1>1, <2>1, <3>1
    <3>3. Tail(r) = b
      BY <1>1, <2>1, <3>1
    <3>4. QED
      BY <3>1, <3>2, <3>3
  <2> HIDE DEF a, r, b
  <2>8. /\ b \in Seq(Threads) /\ NoDup(b)
        /\ ToSet(b) = ToSet(r) \ {t}
        /\ t \in ToSet(r)
    BY <2>6, <2>7, RemheadLemma
  <2>9. Len(b) = Len(r) - 1
    <3>1. Len(Tail(r)) = Len(r) - 1
      BY <2>6, <2>7
    <3>2. QED
      BY <2>7, <3>1
  <2>10. ToSet(a) \cap ToSet(b) = {}
    BY <2>6, <2>8
  <2>11. /\ a \o b \in Seq(Threads)
         /\ Len(a \o b) = Len(a) + Len(b)
         /\ ToSet(a \o b) = ToSet(a) \cup ToSet(b)
         /\ NoDup(a \o b)
    BY <2>6, <2>8, <2>10, ConcatLemma
  <2>12. ToSet(a) \cup ToSet(b) = ToSet(s) \ {t}
    BY <2>6, <2>8
  <2>13. Len(a \o b) <= Len(s)
    BY <1>1, <2>6, <2>9, <2>11
  <2>14. RemoveFirst(s, t) = a \o b
    BY <2>4 DEF RemoveAt, a, b
  <2>15. QED
    BY <2>11, <2>12, <2>13, <2>14
<1>3. CASE ~ \E i \in 1 .. Len(s) : s[i] = t
  <2>1. RemoveFirst(s, t) = s
    BY <1>3 DEF RemoveFirst
  <2>2. t \notin ToSet(s)
    BY <1>1, <1>3 DEF ToSet
  <2>3. QED
    BY <1>1, <2>1, <2>2
<1>4. QED
  BY <1>2, <1>3

----------------------------------------------------------------------------
(* The inductive invariant: where each thread is.                          *)

Locations ==
  {"start_cpus", "hatch", "exit", "exit_count", "exit_switch", "zombie",
   "none", "new", "work", "fork_count", "wakeall", "fork_run", "wait_count"}

States == {"S_RUN", "S_READY", "S_SLEEP", "S_ZOMBIE"}

Doings == {"thread", "wait", "loop", "mig_count", "mig_give"}

Migrations ==
  [i : 0 .. NumCpus, my : Nat, total : Nat, send : Nat, victims : Seq(Threads)]

Types ==
  /\ curthread \in [CPUs -> Threads]
  /\ c_isidle \in [CPUs -> BOOLEAN]
  /\ c_runqueue \in [CPUs -> Seq(Threads)]
  /\ c_zombies \in [CPUs -> SUBSET Threads]
  /\ c_ipi_pending \in [CPUs -> BOOLEAN]
  /\ cpu \in [CPUs -> Doings]
  /\ mig \in [CPUs -> Migrations]
  /\ t_cpu \in [Threads -> CPUs]
  /\ t_state \in [Threads -> States]
  /\ pc \in [Threads -> Locations]
  /\ newthread \in [Threads -> Threads \cup {NULL}]
  /\ waking \in {<<>>, <<Menu>>}
  /\ count_wchan \in {<<>>, <<Menu>>}
  /\ count_lock \in Threads \cup {NULL}
  /\ thread_count \in Int
  /\ tc \in Int

(* A processor that is not idle runs its thread, and nobody else is in     *)
(* S_RUN; idle, it still has the stack of one of its own threads.          *)
RunAgrees(cur, idle, ts, l, home) ==
  /\ \A c \in CPUs : /\ home[cur[c]] = c
                     /\ ts[cur[c]] = "S_RUN" <=> ~ idle[c]
                     /\ l[cur[c]] # "none"
  /\ \A t \in Threads : ts[t] = "S_RUN" => cur[home[t]] = t

(* The state of a thread that is dead, or not yet started.                 *)
StateAgrees(ts, l) ==
  \A t \in Threads : /\ ts[t] = "S_ZOMBIE" <=> l[t] \in {"zombie", "none"}
                     /\ l[t] = "new" => ts[t] = "S_READY"

(* The run queue of a processor and the victims it has taken off it hold   *)
(* its ready threads, each once.                                           *)
QueuesAgree(rq, vic, ts, l, home) ==
  \A c \in CPUs :
    /\ NoDup(rq[c]) /\ NoDup(vic[c])
    /\ \A t \in Threads :
         /\ ~ (t \in ToSet(rq[c]) /\ t \in ToSet(vic[c]))
         /\ t \in ToSet(rq[c]) \/ t \in ToSet(vic[c])
              <=> ts[t] = "S_READY" /\ l[t] # "new" /\ home[t] = c

(* c_zombies holds the threads that died on the processor.                 *)
ZombiesAgree(zs, l, home) ==
  \A c \in CPUs, t \in Threads : t \in zs[c] <=> l[t] = "zombie" /\ home[t] = c

Agree(cur, idle, rq, vic, zs, ts, l, home) ==
  /\ RunAgrees(cur, idle, ts, l, home)
  /\ StateAgrees(ts, l)
  /\ QueuesAgree(rq, vic, ts, l, home)
  /\ ZombiesAgree(zs, l, home)

Victims == [c \in CPUs |-> mig[c].victims]

PlacesAgree ==
  Agree(curthread, c_isidle, c_runqueue, Victims, c_zombies, t_state, pc, t_cpu)

(* Every new thread has one creator, who is on its way to start it.        *)
ForkInv ==
  /\ \A t \in Threads :
       newthread[t] # NULL => /\ pc[t] \in {"fork_count", "wakeall", "fork_run"}
                              /\ pc[newthread[t]] = "new"
  /\ \A t \in Threads : pc[t] \in {"fork_count", "fork_run"} => newthread[t] # NULL
  /\ \A t, u \in Threads : newthread[t] # NULL /\ newthread[t] = newthread[u] => t = u
  /\ \A t \in Threads : pc[t] = "new" => \E u \in Threads : newthread[u] = t

(* The menu boots, forks and waits; it never exits.                        *)
MenuInv ==
  /\ pc[Menu] \in {"start_cpus", "work", "fork_count", "wakeall", "fork_run",
                   "wait_count"}
  /\ pc[Menu] = "wakeall" => newthread[Menu] # NULL
  /\ \A t \in Threads \ {Menu} : pc[t] \notin {"start_cpus", "wait_count"}

(* Only the menu sleeps, on the channel or on the list of the thread that  *)
(* wakes it, which holds thread_count_lock.                                *)
SleepInv ==
  /\ \A t \in Threads : t_state[t] = "S_SLEEP" => t = Menu /\ pc[t] = "wait_count"
  /\ t_state[Menu] = "S_SLEEP" <=> count_wchan # <<>> \/ waking # <<>>
  /\ waking # <<>> => count_wchan = <<>> /\ count_lock # NULL
  /\ \A t \in Threads : count_lock = t <=> pc[t] = "wakeall"

(* What a processor does, and the locals of thread_consider_migration.     *)
CpuInv ==
  \A c \in CPUs :
    /\ cpu[c] = "thread" => ~ c_isidle[c]
    /\ cpu[c] \in {"wait", "loop"} => c_isidle[c]
    /\ cpu[c] \notin {"mig_count", "mig_give"} => mig[c] = NoMigration
    /\ cpu[c] = "mig_count" =>
         /\ mig[c].victims = <<>> /\ mig[c].send = 0
         /\ mig[c].i <= c => mig[c].my = 0
         /\ mig[c].my <= Len(c_runqueue[c])
    /\ cpu[c] = "mig_give" => mig[c].i # c /\ mig[c].send <= Len(mig[c].victims)

PlaceInv ==
  /\ Types /\ PlacesAgree
  /\ ForkInv /\ MenuInv /\ SleepInv /\ CpuInv /\ IdleIsTold

----------------------------------------------------------------------------
(* Switching.                                                              *)

(* The constants.                                                          *)
LEMMA Constants ==
  /\ Menu \in Threads
  /\ 0 \in CPUs
  /\ \A c \in CPUs : c \in Nat /\ c < NumCpus
  /\ \A n \in Nat : n < NumCpus => n \in CPUs
  /\ NULL \notin Threads
  /\ NumCpus \in Nat \ {0}
BY SchedConstants DEF CPUs

(* The head of the queue runs and the zombies are freed.                   *)
Resumes(c, idle, rq, zs, ts, l) ==
  /\ curthread' = [curthread EXCEPT ![c] = Head(rq[c])]
  /\ c_isidle' = [idle EXCEPT ![c] = FALSE]
  /\ c_runqueue' = [rq EXCEPT ![c] = Tail(rq[c])]
  /\ c_zombies' = [zs EXCEPT ![c] = {}]
  /\ t_state' = [ts EXCEPT ![Head(rq[c])] = "S_RUN"]
  /\ pc' = [t \in Threads |-> IF t \in zs[c] THEN "none" ELSE l[t]]
  /\ t_cpu' = [t \in Threads |-> IF t \in zs[c] THEN 0 ELSE t_cpu[t]]

(* A processor that has put its thread away takes the head of its queue    *)
(* and frees its zombies: everybody is still where his state says.         *)
LEMMA ResumeLemma ==
  ASSUME curthread \in [CPUs -> Threads], NEW idle \in [CPUs -> BOOLEAN],
         NEW rq \in [CPUs -> Seq(Threads)], NEW vic \in [CPUs -> Seq(Threads)],
         NEW zs \in [CPUs -> SUBSET Threads], NEW ts \in [Threads -> States],
         NEW l \in [Threads -> Locations], t_cpu \in [Threads -> CPUs],
         Agree(curthread, idle, rq, vic, zs, ts, l, t_cpu),
         NEW c \in CPUs, idle[c], rq[c] # <<>>,
         Resumes(c, idle, rq, zs, ts, l)
  PROVE  Agree(curthread', c_isidle', c_runqueue', vic, c_zombies', t_state', pc', t_cpu')
<1> DEFINE h == Head(rq[c])
<1>1. /\ h \in Threads /\ h \in ToSet(rq[c])
      /\ Tail(rq[c]) \in Seq(Threads) /\ NoDup(Tail(rq[c]))
      /\ ToSet(Tail(rq[c])) = ToSet(rq[c]) \ {h}
  BY RemheadLemma DEF Agree, QueuesAgree
<1>2. /\ ts[h] = "S_READY" /\ l[h] # "new" /\ t_cpu[h] = c
      /\ l[h] \notin {"zombie", "none"} /\ h \notin zs[c]
  <2>1. ts[h] = "S_READY" /\ l[h] # "new" /\ t_cpu[h] = c
    BY <1>1 DEF Agree, QueuesAgree
  <2>2. l[h] \notin {"zombie", "none"}
    BY <1>1, <2>1 DEF Agree, StateAgrees
  <2>3. h \notin zs[c]
    BY <1>1, <2>2 DEF Agree, ZombiesAgree
  <2>4. QED
    BY <2>1, <2>2, <2>3
<1>3. \A t \in Threads : t \in zs[c] <=> l[t] = "zombie" /\ t_cpu[t] = c
  BY DEF Agree, ZombiesAgree
<1>4. /\ \A d \in CPUs : /\ curthread'[d] = IF d = c THEN h ELSE curthread[d]
                         /\ c_isidle'[d] = IF d = c THEN FALSE ELSE idle[d]
                         /\ c_runqueue'[d] = IF d = c THEN Tail(rq[c]) ELSE rq[d]
                         /\ c_zombies'[d] = IF d = c THEN {} ELSE zs[d]
      /\ \A t \in Threads : /\ t_state'[t] = IF t = h THEN "S_RUN" ELSE ts[t]
                            /\ pc'[t] = IF t \in zs[c] THEN "none" ELSE l[t]
                            /\ t_cpu'[t] = IF t \in zs[c] THEN 0 ELSE t_cpu[t]
  BY <1>1 DEF Resumes
<1> HIDE DEF h
<1>5. RunAgrees(curthread', c_isidle', t_state', pc', t_cpu')
  <2>1. ASSUME NEW d \in CPUs
        PROVE  /\ t_cpu'[curthread'[d]] = d
               /\ t_state'[curthread'[d]] = "S_RUN" <=> ~ c_isidle'[d]
               /\ pc'[curthread'[d]] # "none"
    <3>1. CASE d = c
      BY <1>1, <1>2, <1>4, <3>1
    <3>2. CASE d # c
      <4>1. /\ curthread'[d] = curthread[d] /\ c_isidle'[d] = idle[d]
            /\ t_cpu[curthread[d]] = d /\ curthread[d] \in Threads
            /\ l[curthread[d]] # "none"
            /\ ts[curthread[d]] = "S_RUN" <=> ~ idle[d]
        BY <1>4, <3>2 DEF Agree, RunAgrees
      <4>2. curthread[d] \notin zs[c] /\ curthread[d] # h
        BY <1>2, <1>3, <3>2, <4>1
      <4>3. ASSUME NEW t \in Threads, t \notin zs[c], t # h
            PROVE  t_cpu'[t] = t_cpu[t] /\ t_state'[t] = ts[t] /\ pc'[t] = l[t]
        BY <1>4, <4>3
      <4>4. /\ t_cpu'[curthread[d]] = d /\ pc'[curthread[d]] # "none"
            /\ t_state'[curthread[d]] = ts[curthread[d]]
        BY <4>1, <4>2, <4>3
      <4>5. QED
        BY <4>1, <4>4
    <3>3. QED
      BY <3>1, <3>2
  <2>2. ASSUME NEW t \in Threads, t_state'[t] = "S_RUN"
        PROVE  curthread'[t_cpu'[t]] = t
    <3>1. CASE t = h
      BY <1>1, <1>2, <1>4, <3>1
    <3>2. CASE t # h
      <4>1. ts[t] = "S_RUN" /\ curthread[t_cpu[t]] = t /\ t_cpu[t] \in CPUs
        BY <1>4, <2>2, <3>2 DEF Agree, RunAgrees
      <4>2. t_cpu[t] # c
        BY <4>1 DEF Agree, RunAgrees
      <4>3. t_cpu'[t] = t_cpu[t]
        BY <1>3, <1>4, <4>2
      <4>4. QED
        BY <1>4, <4>1, <4>2, <4>3
    <3>3. QED
      BY <3>1, <3>2
  <2>3. QED
    BY <2>1, <2>2 DEF RunAgrees
<1>6. StateAgrees(t_state', pc')
  <2>1. SUFFICES ASSUME NEW t \in Threads
                 PROVE  /\ t_state'[t] = "S_ZOMBIE" <=> pc'[t] \in {"zombie", "none"}
                        /\ pc'[t] = "new" => t_state'[t] = "S_READY"
    BY DEF StateAgrees
  <2>2. /\ ts[t] = "S_ZOMBIE" <=> l[t] \in {"zombie", "none"}
        /\ l[t] = "new" => ts[t] = "S_READY"
    BY DEF Agree, StateAgrees
  <2>3. CASE t = h
    BY <1>2, <1>4, <2>3
  <2>4. CASE t \in zs[c]
    BY <1>2, <1>3, <1>4, <2>2, <2>4
  <2>5. CASE t # h /\ t \notin zs[c]
    BY <1>4, <2>2, <2>5
  <2>6. QED
    BY <2>3, <2>4, <2>5
<1>7. \A t \in Threads : ts[t] = "S_READY" => t \notin zs[c]
  BY <1>3 DEF Agree, StateAgrees
<1>8. QueuesAgree(c_runqueue', vic, t_state', pc', t_cpu')
  <2>1. SUFFICES ASSUME NEW d \in CPUs
                 PROVE  /\ NoDup(c_runqueue'[d]) /\ NoDup(vic[d])
                        /\ \A t \in Threads :
                             /\ ~ (t \in ToSet(c_runqueue'[d]) /\ t \in ToSet(vic[d]))
                             /\ t \in ToSet(c_runqueue'[d]) \/ t \in ToSet(vic[d])
                                  <=> t_state'[t] = "S_READY" /\ pc'[t] # "new" /\ t_cpu'[t] = d
    BY DEF QueuesAgree
  <2>2. /\ NoDup(rq[d]) /\ NoDup(vic[d])
        /\ \A t \in Threads :
             /\ ~ (t \in ToSet(rq[d]) /\ t \in ToSet(vic[d]))
             /\ t \in ToSet(rq[d]) \/ t \in ToSet(vic[d])
                  <=> ts[t] = "S_READY" /\ l[t] # "new" /\ t_cpu[t] = d
    BY DEF Agree, QueuesAgree
  <2>3. /\ NoDup(c_runqueue'[d])
        /\ ToSet(c_runqueue'[d]) = ToSet(rq[d]) \ {h}
    <3>1. CASE d = c
      BY <1>1, <1>4, <3>1
    <3>2. CASE d # c
      <4>1. h \notin ToSet(rq[d])
        BY <1>1, <1>2, <2>2, <3>2
      <4>2. c_runqueue'[d] = rq[d]
        BY <1>4, <3>2
      <4>3. QED
        BY <2>2, <4>1, <4>2
    <3>3. QED
      BY <3>1, <3>2
  <2>4. h \notin ToSet(vic[d])
    <3>1. CASE d = c
      BY <1>1, <2>2, <3>1
    <3>2. CASE d # c
      BY <1>1, <1>2, <2>2, <3>2
    <3>3. QED
      BY <3>1, <3>2
  <2>5. \A t \in Threads : t_state'[t] = "S_READY" /\ pc'[t] # "new" /\ t_cpu'[t] = d
                           <=> t # h /\ ts[t] = "S_READY" /\ l[t] # "new" /\ t_cpu[t] = d
    <3>1. ASSUME NEW t \in Threads, t_state'[t] = "S_READY"
          PROVE  t # h /\ ts[t] = "S_READY" /\ pc'[t] = l[t] /\ t_cpu'[t] = t_cpu[t]
      BY <1>4, <1>7, <3>1
    <3>2. ASSUME NEW t \in Threads, ts[t] = "S_READY", t # h
          PROVE  t_state'[t] = "S_READY" /\ pc'[t] = l[t] /\ t_cpu'[t] = t_cpu[t]
      BY <1>4, <1>7, <3>2
    <3>3. QED
      BY <3>1, <3>2
  <2>6. QED
    BY <2>2, <2>3, <2>4, <2>5
<1>9. ZombiesAgree(c_zombies', pc', t_cpu')
  <2>1. SUFFICES ASSUME NEW d \in CPUs, NEW t \in Threads
                 PROVE  t \in c_zombies'[d] <=> pc'[t] = "zombie" /\ t_cpu'[t] = d
    BY DEF ZombiesAgree
  <2>2. t \in zs[d] <=> l[t] = "zombie" /\ t_cpu[t] = d
    BY DEF Agree, ZombiesAgree
  <2>3. CASE d = c
    BY <1>3, <1>4, <2>2, <2>3
  <2>4. CASE d # c
    BY <1>3, <1>4, <2>2, <2>4
  <2>5. QED
    BY <2>3, <2>4
<1>10. QED
  BY <1>5, <1>6, <1>8, <1>9 DEF Agree

Plain == Locations \ {"new", "none", "zombie"}

(* A thread goes from one place in its code to another.                    *)
LEMMA StepLemma ==
  ASSUME NEW cur \in [CPUs -> Threads], NEW idle \in [CPUs -> BOOLEAN],
         NEW rq \in [CPUs -> Seq(Threads)], NEW vic \in [CPUs -> Seq(Threads)],
         NEW zs \in [CPUs -> SUBSET Threads], NEW ts \in [Threads -> States],
         NEW l \in [Threads -> Locations], NEW home \in [Threads -> CPUs],
         Agree(cur, idle, rq, vic, zs, ts, l, home),
         NEW m \in [Threads -> Locations],
         \A t \in Threads : m[t] = l[t] \/ (l[t] \in Plain /\ m[t] \in Plain)
  PROVE  Agree(cur, idle, rq, vic, zs, ts, m, home)
<1>1. \A t \in Threads : /\ l[t] = "new" <=> m[t] = "new"
                         /\ l[t] = "none" <=> m[t] = "none"
                         /\ l[t] = "zombie" <=> m[t] = "zombie"
  BY DEF Plain, Locations
<1>2. RunAgrees(cur, idle, ts, m, home)
  BY <1>1 DEF Agree, RunAgrees
<1>3. StateAgrees(ts, m)
  BY <1>1 DEF Agree, StateAgrees
<1>4. QueuesAgree(rq, vic, ts, m, home)
  BY <1>1 DEF Agree, QueuesAgree
<1>5. ZombiesAgree(zs, m, home)
  BY <1>1 DEF Agree, ZombiesAgree
<1>6. QED
  BY <1>2, <1>3, <1>4, <1>5 DEF Agree

(* Threads move between the run queue of a processor and its victims.      *)
LEMMA RequeueLemma ==
  ASSUME NEW cur \in [CPUs -> Threads], NEW idle \in [CPUs -> BOOLEAN],
         NEW rq \in [CPUs -> Seq(Threads)], NEW vic \in [CPUs -> Seq(Threads)],
         NEW zs \in [CPUs -> SUBSET Threads], NEW ts \in [Threads -> States],
         NEW l \in [Threads -> Locations], NEW home \in [Threads -> CPUs],
         Agree(cur, idle, rq, vic, zs, ts, l, home),
         NEW c \in CPUs, NEW q \in Seq(Threads), NEW v \in Seq(Threads),
         NoDup(q), NoDup(v), ToSet(q) \cap ToSet(v) = {},
         ToSet(q) \cup ToSet(v) = ToSet(rq[c]) \cup ToSet(vic[c])
  PROVE  Agree(cur, idle, [rq EXCEPT ![c] = q], [vic EXCEPT ![c] = v],
               zs, ts, l, home)
<1> DEFINE rq2 == [rq EXCEPT ![c] = q]
           vic2 == [vic EXCEPT ![c] = v]
<1>1. \A d \in CPUs : /\ rq2[d] = IF d = c THEN q ELSE rq[d]
                      /\ vic2[d] = IF d = c THEN v ELSE vic[d]
  OBVIOUS
<1> HIDE DEF rq2, vic2
<1>2. QueuesAgree(rq2, vic2, ts, l, home)
  <2>1. SUFFICES ASSUME NEW d \in CPUs
                 PROVE  /\ NoDup(rq2[d]) /\ NoDup(vic2[d])
                        /\ \A t \in Threads :
                             /\ ~ (t \in ToSet(rq2[d]) /\ t \in ToSet(vic2[d]))
                             /\ t \in ToSet(rq2[d]) \/ t \in ToSet(vic2[d])
                                  <=> ts[t] = "S_READY" /\ l[t] # "new" /\ home[t] = d
    BY DEF QueuesAgree
  <2>2. /\ NoDup(rq[d]) /\ NoDup(vic[d])
        /\ \A t \in Threads :
             /\ ~ (t \in ToSet(rq[d]) /\ t \in ToSet(vic[d]))
             /\ t \in ToSet(rq[d]) \/ t \in ToSet(vic[d])
                  <=> ts[t] = "S_READY" /\ l[t] # "new" /\ home[t] = d
    BY DEF Agree, QueuesAgree
  <2>3. CASE d # c
    <3>1. rq2[d] = rq[d] /\ vic2[d] = vic[d]
      BY <1>1, <2>3
    <3>2. QED
      BY <2>2, <3>1
  <2>4. CASE d = c
    <3>1. rq2[d] = q /\ vic2[d] = v
      BY <1>1, <2>4
    <3>2. ASSUME NEW t \in Threads
          PROVE  /\ ~ (t \in ToSet(q) /\ t \in ToSet(v))
                 /\ t \in ToSet(q) \/ t \in ToSet(v)
                      <=> t \in ToSet(rq[d]) \/ t \in ToSet(vic[d])
      BY <2>4
    <3>3. QED
      BY <2>2, <3>1, <3>2
  <2>5. QED
    BY <2>3, <2>4
<1>3. QED
  BY <1>2 DEF Agree, rq2, vic2

(* A processor puts its thread away and is idle.                           *)
LEMMA ParkLemma ==
  ASSUME NEW cur \in [CPUs -> Threads], NEW idle \in [CPUs -> BOOLEAN],
         NEW ts \in [Threads -> States], NEW l \in [Threads -> Locations],
         NEW home \in [Threads -> CPUs],
         RunAgrees(cur, idle, ts, l, home),
         NEW c \in CPUs,
         NEW ts2 \in [Threads -> States], NEW l2 \in [Threads -> Locations],
         ts2[cur[c]] # "S_RUN", l2[cur[c]] # "none",
         \A t \in Threads : t # cur[c] => ts2[t] = ts[t] /\ l2[t] = l[t]
  PROVE  RunAgrees(cur, [idle EXCEPT ![c] = TRUE], ts2, l2, home)
<1> DEFINE idle2 == [idle EXCEPT ![c] = TRUE]
<1>1. idle2[c] = TRUE /\ \A d \in CPUs : d # c => idle2[d] = idle[d]
  OBVIOUS
<1> HIDE DEF idle2
<1>2. ASSUME NEW d \in CPUs
      PROVE  /\ home[cur[d]] = d
             /\ ts2[cur[d]] = "S_RUN" <=> ~ idle2[d]
             /\ l2[cur[d]] # "none"
  <2>1. CASE d = c
    BY <1>1, <2>1 DEF RunAgrees
  <2>2. CASE d # c
    <3>1. cur[d] # cur[c] /\ cur[d] \in Threads
      BY <2>2 DEF RunAgrees
    <3>2. ts2[cur[d]] = ts[cur[d]] /\ l2[cur[d]] = l[cur[d]] /\ idle2[d] = idle[d]
      BY <1>1, <2>2, <3>1
    <3>3. QED
      BY <3>2 DEF RunAgrees
  <2>3. QED
    BY <2>1, <2>2
<1>3. ASSUME NEW t \in Threads, ts2[t] = "S_RUN" PROVE cur[home[t]] = t
  <2>1. t # cur[c] /\ ts[t] = "S_RUN"
    BY <1>3
  <2>2. QED
    BY <2>1 DEF RunAgrees
<1>4. QED
  BY <1>2, <1>3 DEF RunAgrees, idle2

(* thread_yield puts the thread at the end of its queue.                   *)
LEMMA PutReadyLemma ==
  ASSUME NEW cur \in [CPUs -> Threads], NEW idle \in [CPUs -> BOOLEAN],
         NEW rq \in [CPUs -> Seq(Threads)], NEW vic \in [CPUs -> Seq(Threads)],
         NEW zs \in [CPUs -> SUBSET Threads], NEW ts \in [Threads -> States],
         NEW l \in [Threads -> Locations], NEW home \in [Threads -> CPUs],
         Agree(cur, idle, rq, vic, zs, ts, l, home),
         NEW c \in CPUs, ~ idle[c]
  PROVE  Agree(cur, [idle EXCEPT ![c] = TRUE],
               [rq EXCEPT ![c] = Append(rq[c], cur[c])], vic, zs,
               [ts EXCEPT ![cur[c]] = "S_READY"], l, home)
<1> DEFINE h == cur[c]
           idle2 == [idle EXCEPT ![c] = TRUE]
           rq2 == [rq EXCEPT ![c] = Append(rq[c], h)]
           ts2 == [ts EXCEPT ![h] = "S_READY"]
<1>1. /\ \A d \in CPUs : /\ rq2[d] = IF d = c THEN Append(rq[c], h) ELSE rq[d]
                         /\ idle2[d] = IF d = c THEN TRUE ELSE idle[d]
      /\ \A t \in Threads : ts2[t] = IF t = h THEN "S_READY" ELSE ts[t]
  OBVIOUS
<1>2. h \in Threads /\ home[h] = c /\ ts[h] = "S_RUN" /\ l[h] \notin {"new", "zombie", "none"}
  BY DEF Agree, RunAgrees, StateAgrees
<1> HIDE DEF h, idle2, rq2, ts2
<1>4. RunAgrees(cur, idle2, ts2, l, home)
  <2>1. /\ ts2 \in [Threads -> States] /\ ts2[h] # "S_RUN" /\ l[h] # "none"
        /\ \A t \in Threads : t # h => ts2[t] = ts[t]
    BY <1>1, <1>2 DEF ts2, States
  <2>2. QED
    BY <2>1, ParkLemma DEF Agree, h, idle2
<1>5. StateAgrees(ts2, l)
  BY <1>1, <1>2 DEF Agree, StateAgrees
<1>6. QueuesAgree(rq2, vic, ts2, l, home)
  <2>1. SUFFICES ASSUME NEW d \in CPUs
                 PROVE  /\ NoDup(rq2[d]) /\ NoDup(vic[d])
                        /\ \A t \in Threads :
                             /\ ~ (t \in ToSet(rq2[d]) /\ t \in ToSet(vic[d]))
                             /\ t \in ToSet(rq2[d]) \/ t \in ToSet(vic[d])
                                  <=> ts2[t] = "S_READY" /\ l[t] # "new" /\ home[t] = d
    BY DEF QueuesAgree
  <2>2. /\ NoDup(rq[d]) /\ NoDup(vic[d])
        /\ \A t \in Threads :
             /\ ~ (t \in ToSet(rq[d]) /\ t \in ToSet(vic[d]))
             /\ t \in ToSet(rq[d]) \/ t \in ToSet(vic[d])
                  <=> ts[t] = "S_READY" /\ l[t] # "new" /\ home[t] = d
    BY DEF Agree, QueuesAgree
  <2>3. h \notin ToSet(rq[d]) /\ h \notin ToSet(vic[d])
    BY <1>2, <2>2
  <2>4. CASE d # c
    <3>1. rq2[d] = rq[d]
      BY <1>1, <2>4
    <3>2. QED
      BY <1>1, <1>2, <2>2, <2>4, <3>1
  <2>5. CASE d = c
    <3>1. NoDup(rq2[d]) /\ ToSet(rq2[d]) = ToSet(rq[d]) \cup {h}
      <4>1. rq2[d] = Append(rq[d], h) /\ rq[d] \in Seq(Threads)
        BY <1>1, <2>5
      <4>2. QED
        BY <1>2, <2>2, <2>3, <4>1, AddtailLemma
    <3>2. QED
      BY <1>1, <1>2, <2>2, <2>3, <2>5, <3>1
  <2>6. QED
    BY <2>4, <2>5
<1>7. QED
  BY <1>4, <1>5, <1>6 DEF Agree, h, idle2, rq2, ts2

(* wchan_sleep: the thread leaves its processor and is on no queue.        *)
LEMMA PutSleepLemma ==
  ASSUME NEW cur \in [CPUs -> Threads], NEW idle \in [CPUs -> BOOLEAN],
         NEW rq \in [CPUs -> Seq(Threads)], NEW vic \in [CPUs -> Seq(Threads)],
         NEW zs \in [CPUs -> SUBSET Threads], NEW ts \in [Threads -> States],
         NEW l \in [Threads -> Locations], NEW home \in [Threads -> CPUs],
         Agree(cur, idle, rq, vic, zs, ts, l, home),
         NEW c \in CPUs, ~ idle[c]
  PROVE  Agree(cur, [idle EXCEPT ![c] = TRUE], rq, vic, zs,
               [ts EXCEPT ![cur[c]] = "S_SLEEP"], l, home)
<1> DEFINE h == cur[c]
           idle2 == [idle EXCEPT ![c] = TRUE]
           ts2 == [ts EXCEPT ![h] = "S_SLEEP"]
<1>1. /\ \A d \in CPUs : idle2[d] = IF d = c THEN TRUE ELSE idle[d]
      /\ \A t \in Threads : ts2[t] = IF t = h THEN "S_SLEEP" ELSE ts[t]
  OBVIOUS
<1>2. h \in Threads /\ home[h] = c /\ ts[h] = "S_RUN" /\ l[h] \notin {"new", "zombie", "none"}
  BY DEF Agree, RunAgrees, StateAgrees
<1> HIDE DEF h, idle2, ts2
<1>4. RunAgrees(cur, idle2, ts2, l, home)
  <2>1. /\ ts2 \in [Threads -> States] /\ ts2[h] # "S_RUN" /\ l[h] # "none"
        /\ \A t \in Threads : t # h => ts2[t] = ts[t]
    BY <1>1, <1>2 DEF ts2, States
  <2>2. QED
    BY <2>1, ParkLemma DEF Agree, h, idle2
<1>5. StateAgrees(ts2, l)
  BY <1>1, <1>2 DEF Agree, StateAgrees
<1>6. QueuesAgree(rq, vic, ts2, l, home)
  <2>1. \A t \in Threads : ts2[t] = "S_READY" <=> ts[t] = "S_READY"
    BY <1>1, <1>2
  <2>2. QED
    BY <2>1 DEF Agree, QueuesAgree
<1>7. QED
  BY <1>4, <1>5, <1>6 DEF Agree, h, idle2, ts2

(* thread_switch(S_ZOMBIE): the thread is on the list of zombies, and its  *)
(* processor still stands on its stack.                                    *)
LEMMA PutZombieLemma ==
  ASSUME NEW cur \in [CPUs -> Threads], NEW idle \in [CPUs -> BOOLEAN],
         NEW rq \in [CPUs -> Seq(Threads)], NEW vic \in [CPUs -> Seq(Threads)],
         NEW zs \in [CPUs -> SUBSET Threads], NEW ts \in [Threads -> States],
         NEW l \in [Threads -> Locations], NEW home \in [Threads -> CPUs],
         Agree(cur, idle, rq, vic, zs, ts, l, home),
         NEW c \in CPUs, ~ idle[c]
  PROVE  Agree(cur, [idle EXCEPT ![c] = TRUE], rq, vic,
               [zs EXCEPT ![c] = zs[c] \cup {cur[c]}],
               [ts EXCEPT ![cur[c]] = "S_ZOMBIE"],
               [l EXCEPT ![cur[c]] = "zombie"], home)
<1> DEFINE h == cur[c]
           idle2 == [idle EXCEPT ![c] = TRUE]
           zs2 == [zs EXCEPT ![c] = zs[c] \cup {h}]
           ts2 == [ts EXCEPT ![h] = "S_ZOMBIE"]
           l2 == [l EXCEPT ![h] = "zombie"]
<1>1. /\ \A d \in CPUs : /\ idle2[d] = IF d = c THEN TRUE ELSE idle[d]
                         /\ zs2[d] = IF d = c THEN zs[c] \cup {h} ELSE zs[d]
      /\ \A t \in Threads : /\ ts2[t] = IF t = h THEN "S_ZOMBIE" ELSE ts[t]
                            /\ l2[t] = IF t = h THEN "zombie" ELSE l[t]
  OBVIOUS
<1>2. h \in Threads /\ home[h] = c /\ ts[h] = "S_RUN" /\ l[h] \notin {"new", "zombie", "none"}
  BY DEF Agree, RunAgrees, StateAgrees
<1> HIDE DEF h, idle2, zs2, ts2, l2
<1>4. RunAgrees(cur, idle2, ts2, l2, home)
  <2>1. /\ ts2 \in [Threads -> States] /\ l2 \in [Threads -> Locations]
        /\ ts2[h] # "S_RUN" /\ l2[h] # "none"
        /\ \A t \in Threads : t # h => ts2[t] = ts[t] /\ l2[t] = l[t]
    BY <1>1, <1>2 DEF ts2, l2, States, Locations
  <2>2. QED
    BY <2>1, ParkLemma DEF Agree, h, idle2
<1>5. StateAgrees(ts2, l2)
  BY <1>1, <1>2 DEF Agree, StateAgrees
<1>6. QueuesAgree(rq, vic, ts2, l2, home)
  <2>1. \A t \in Threads : /\ ts2[t] = "S_READY" <=> ts[t] = "S_READY"
                           /\ ts[t] = "S_READY" => l2[t] = l[t]
    BY <1>1, <1>2
  <2>2. QED
    BY <2>1 DEF Agree, QueuesAgree
<1>7. ZombiesAgree(zs2, l2, home)
  <2>1. SUFFICES ASSUME NEW d \in CPUs, NEW t \in Threads
                 PROVE  t \in zs2[d] <=> l2[t] = "zombie" /\ home[t] = d
    BY DEF ZombiesAgree
  <2>2. t \in zs[d] <=> l[t] = "zombie" /\ home[t] = d
    BY DEF Agree, ZombiesAgree
  <2>3. CASE t = h
    BY <1>1, <1>2, <2>2, <2>3
  <2>4. CASE t # h
    BY <1>1, <2>2, <2>4
  <2>5. QED
    BY <2>3, <2>4
<1>8. QED
  BY <1>4, <1>5, <1>6, <1>7 DEF Agree, h, idle2, zs2, ts2, l2

(* What a switch of processor c does to the processors.                    *)
CpuMoves(c) ==
  /\ \A d \in CPUs : d # c => /\ c_isidle'[d] = c_isidle[d]
                              /\ cpu'[d] = cpu[d]
                              /\ c_runqueue'[d] = c_runqueue[d]
  /\ \/ cpu'[c] = "thread" /\ ~ c_isidle'[c]
     \/ cpu'[c] = "loop" /\ c_isidle'[c]
     \/ cpu'[c] = "wait" /\ c_isidle'[c] /\ c_runqueue'[c] = <<>>

(* What it does to threads with states ts at l: some start or stop running *)
(* and zombies are freed.                                                  *)
ThreadMoves(ts, l) ==
  \A t \in Threads :
    /\ t_state'[t] = ts[t] \/ {ts[t], t_state'[t]} \subseteq {"S_RUN", "S_READY"}
    /\ pc'[t] = l[t] \/ (l[t] = "zombie" /\ pc'[t] = "none")

(* The variables that a switch assigns keep their types.                   *)
SwitchTypes ==
  /\ curthread \in [CPUs -> Threads]
  /\ c_isidle \in [CPUs -> BOOLEAN]
  /\ c_runqueue \in [CPUs -> Seq(Threads)]
  /\ c_zombies \in [CPUs -> SUBSET Threads]
  /\ cpu \in [CPUs -> Doings]
  /\ t_cpu \in [Threads -> CPUs]
  /\ t_state \in [Threads -> States]
  /\ pc \in [Threads -> Locations]

(* thread_switch, once the old thread is away.                             *)
LEMMA SwitchLemma ==
  ASSUME SwitchTypes, NEW c \in CPUs, NEW q \in Seq(Threads), NEW z \in SUBSET Threads,
         NEW ts \in [Threads -> States], NEW l \in [Threads -> Locations],
         NEW vic \in [CPUs -> Seq(Threads)],
         Agree(curthread, [c_isidle EXCEPT ![c] = TRUE], [c_runqueue EXCEPT ![c] = q],
               vic, [c_zombies EXCEPT ![c] = z], ts, l, t_cpu),
         switch_to_next(c, q, z, ts, l)
  PROVE  /\ SwitchTypes'
         /\ Agree(curthread', c_isidle', c_runqueue', vic, c_zombies', t_state', pc', t_cpu')
         /\ CpuMoves(c)
         /\ ThreadMoves(ts, l)
<1> DEFINE idle == [c_isidle EXCEPT ![c] = TRUE]
           rq == [c_runqueue EXCEPT ![c] = q]
           zs == [c_zombies EXCEPT ![c] = z]
<1>1. /\ idle \in [CPUs -> BOOLEAN] /\ idle[c]
      /\ rq \in [CPUs -> Seq(Threads)] /\ rq[c] = q
      /\ zs \in [CPUs -> SUBSET Threads] /\ zs[c] = z
  BY DEF SwitchTypes
<1>2. CASE q = <<>>
  <2>1. /\ c_isidle' = idle /\ c_runqueue' = rq /\ c_zombies' = zs
        /\ cpu' = [cpu EXCEPT ![c] = "wait"]
        /\ t_state' = ts /\ pc' = l
        /\ curthread' = curthread /\ t_cpu' = t_cpu
    BY <1>2 DEF switch_to_next
  <2>2. SwitchTypes'
    BY <1>1, <2>1 DEF SwitchTypes, Doings
  <2>3. CpuMoves(c)
    BY <1>1, <1>2, <2>1 DEF CpuMoves, SwitchTypes
  <2>4. ThreadMoves(ts, l)
    BY <2>1 DEF ThreadMoves
  <2>5. Agree(curthread', c_isidle', c_runqueue', vic, c_zombies', t_state', pc', t_cpu')
    BY <2>1
  <2>6. QED
    BY <2>2, <2>3, <2>4, <2>5
<1>3. CASE q # <<>>
  <2> DEFINE h == Head(q)
  <2>1. /\ c_isidle' = [idle EXCEPT ![c] = FALSE]
        /\ c_runqueue' = [rq EXCEPT ![c] = Tail(q)]
        /\ c_zombies' = [zs EXCEPT ![c] = {}]
        /\ cpu' = [cpu EXCEPT ![c] = "thread"]
        /\ curthread' = [curthread EXCEPT ![c] = h]
        /\ t_state' = [ts EXCEPT ![h] = "S_RUN"]
        /\ pc' = [t \in Threads |-> IF t \in z THEN "none" ELSE l[t]]
        /\ t_cpu' = [t \in Threads |-> IF t \in z THEN 0 ELSE t_cpu[t]]
    BY <1>3 DEF switch_to_next, SwitchTypes
  <2>2. Agree(curthread', c_isidle', c_runqueue', vic, c_zombies', t_state', pc', t_cpu')
    <3>1. Agree(curthread, idle, rq, vic, zs, ts, l, t_cpu)
      OBVIOUS
    <3> HIDE DEF idle, rq, zs
    <3>2. /\ curthread \in [CPUs -> Threads] /\ t_cpu \in [Threads -> CPUs]
          /\ rq[c] # <<>>
      BY <1>1, <1>3 DEF SwitchTypes
    <3>3. Resumes(c, idle, rq, zs, ts, l)
      BY <1>1, <2>1 DEF Resumes
    <3>4. QED
      BY <1>1, <3>1, <3>2, <3>3, ResumeLemma
  <2>3. /\ NoDup(q)
        /\ \A t \in Threads : t \in ToSet(q) => ts[t] = "S_READY"
        /\ \A t \in Threads : t \in z => l[t] = "zombie"
    <3>1. /\ NoDup(rq[c])
          /\ \A t \in Threads : t \in ToSet(rq[c]) => ts[t] = "S_READY"
      BY DEF Agree, QueuesAgree
    <3>2. \A t \in Threads : t \in zs[c] => l[t] = "zombie"
      BY DEF Agree, ZombiesAgree
    <3>3. QED
      BY <1>1, <3>1, <3>2
  <2>4. h \in Threads /\ h \in ToSet(q) /\ Tail(q) \in Seq(Threads)
    BY <1>3, <2>3, RemheadLemma
  <2>5. SwitchTypes'
    BY <1>1, <2>1, <2>4, Constants DEF SwitchTypes, Doings, States, Locations
  <2>6. CpuMoves(c)
    BY <1>1, <2>1 DEF CpuMoves, SwitchTypes
  <2>7. ThreadMoves(ts, l)
    BY <2>1, <2>3, <2>4 DEF ThreadMoves
  <2>8. QED
    BY <2>2, <2>5, <2>6, <2>7
<1>4. QED
  BY <1>2, <1>3

(* thread_yield, with q on the run queue.                                  *)
LEMMA YieldLemma ==
  ASSUME SwitchTypes, NEW c \in CPUs, NEW q \in Seq(Threads),
         NEW vic \in [CPUs -> Seq(Threads)],
         Agree(curthread, c_isidle, [c_runqueue EXCEPT ![c] = q], vic, c_zombies,
               t_state, pc, t_cpu),
         thread_yield(c, q)
  PROVE  /\ SwitchTypes'
         /\ Agree(curthread', c_isidle', c_runqueue', vic, c_zombies', t_state', pc', t_cpu')
         /\ CpuMoves(c)
         /\ ThreadMoves(t_state, pc)
<1> DEFINE rq == [c_runqueue EXCEPT ![c] = q]
<1>1. rq \in [CPUs -> Seq(Threads)] /\ rq[c] = q
  BY DEF SwitchTypes
<1>2. CASE c_isidle[c] \/ q = <<>>
  <2>1. /\ cpu' = [cpu EXCEPT ![c] = IF c_isidle[c] THEN "loop" ELSE "thread"]
        /\ c_runqueue' = rq
        /\ UNCHANGED <<curthread, c_isidle, c_zombies, threadvars, pc>>
    BY <1>2 DEF thread_yield
  <2>2. SwitchTypes'
    BY <1>1, <2>1 DEF SwitchTypes, threadvars, Doings
  <2>3. CpuMoves(c)
    BY <1>1, <2>1 DEF CpuMoves, SwitchTypes
  <2>4. ThreadMoves(t_state, pc)
    BY <2>1 DEF ThreadMoves, threadvars
  <2>5. Agree(curthread', c_isidle', c_runqueue', vic, c_zombies', t_state', pc', t_cpu')
    BY <2>1 DEF threadvars
  <2>6. QED
    BY <2>2, <2>3, <2>4, <2>5
<1>3. CASE ~ c_isidle[c] /\ q # <<>>
  <2> DEFINE h == curthread[c]
             q2 == Append(q, h)
             ts == [t_state EXCEPT ![h] = "S_READY"]
  <2>1. switch_to_next(c, q2, c_zombies[c], ts, pc)
    BY <1>3 DEF thread_yield
  <2>2. h \in Threads /\ ts \in [Threads -> States] /\ q2 \in Seq(Threads)
    BY AddtailLemma DEF SwitchTypes, States
  <2>3. Agree(curthread, [c_isidle EXCEPT ![c] = TRUE], [rq EXCEPT ![c] = Append(rq[c], h)],
              vic, c_zombies, ts, pc, t_cpu)
    <3>1. Agree(curthread, c_isidle, rq, vic, c_zombies, t_state, pc, t_cpu)
      OBVIOUS
    <3> HIDE DEF rq
    <3>2. QED
      BY <1>1, <1>3, <3>1, PutReadyLemma DEF SwitchTypes
  <2>4. /\ [rq EXCEPT ![c] = Append(rq[c], h)] = [c_runqueue EXCEPT ![c] = q2]
        /\ [c_zombies EXCEPT ![c] = c_zombies[c]] = c_zombies
    BY DEF SwitchTypes
  <2>5. Agree(curthread, [c_isidle EXCEPT ![c] = TRUE], [c_runqueue EXCEPT ![c] = q2],
              vic, [c_zombies EXCEPT ![c] = c_zombies[c]], ts, pc, t_cpu)
    BY <2>3, <2>4
  <2>6. c_zombies[c] \in SUBSET Threads /\ pc \in [Threads -> Locations]
    BY DEF SwitchTypes
  <2> HIDE DEF q2, ts
  <2>7. /\ SwitchTypes'
        /\ Agree(curthread', c_isidle', c_runqueue', vic, c_zombies', t_state', pc', t_cpu')
        /\ CpuMoves(c)
        /\ ThreadMoves(ts, pc)
    BY <2>1, <2>2, <2>5, <2>6, SwitchLemma
  <2>8. ThreadMoves(t_state, pc)
    <3>1. t_state[h] = "S_RUN"
      BY <1>3 DEF Agree, RunAgrees
    <3>2. \A t \in Threads : ts[t] = IF t = h THEN "S_READY" ELSE t_state[t]
      BY DEF ts, SwitchTypes
    <3>3. QED
      BY <2>7, <3>1, <3>2 DEF ThreadMoves
  <2>9. QED
    BY <2>7, <2>8
<1>4. QED
  BY <1>2, <1>3

(* thread_make_runnable puts h, asleep or new, at the end of the queue of  *)
(* its processor.                                                          *)
LEMMA WakeLemma ==
  ASSUME SwitchTypes, NEW vic \in [CPUs -> Seq(Threads)],
         Agree(curthread, c_isidle, c_runqueue, vic, c_zombies, t_state, pc, t_cpu),
         NEW h \in Threads, t_state[h] = "S_SLEEP" \/ pc[h] = "new",
         c_runqueue' = [c_runqueue EXCEPT ![t_cpu[h]] = Append(@, h)],
         t_state' = [t_state EXCEPT ![h] = "S_READY"],
         pc'[h] \in Plain,
         \A t \in Threads : t # h => pc'[t] = pc[t] \/ (pc[t] \in Plain /\ pc'[t] \in Plain)
  PROVE  /\ c_runqueue' \in [CPUs -> Seq(Threads)]
         /\ t_state' \in [Threads -> States]
         /\ Agree(curthread, c_isidle, c_runqueue', vic, c_zombies, t_state', pc', t_cpu)
<1> DEFINE e == t_cpu[h]
<1>1. /\ e \in CPUs
      /\ c_runqueue'[e] = Append(c_runqueue[e], h)
      /\ c_runqueue[e] \in Seq(Threads)
      /\ \A d \in CPUs : d # e => c_runqueue'[d] = c_runqueue[d]
      /\ \A t \in Threads : t_state'[t] = IF t = h THEN "S_READY" ELSE t_state[t]
  BY DEF SwitchTypes
<1>2. c_runqueue' \in [CPUs -> Seq(Threads)] /\ t_state' \in [Threads -> States]
  BY <1>1, AddtailLemma DEF SwitchTypes, States
<1>3. t_state[h] # "S_RUN" /\ pc[h] \notin {"none", "zombie"}
      /\ ~ (t_state[h] = "S_READY" /\ pc[h] # "new")
  BY DEF Agree, StateAgrees
<1>4. /\ pc'[h] \notin {"new", "none", "zombie"}
      /\ \A t \in Threads : t # h => /\ pc'[t] = "new" <=> pc[t] = "new"
                                     /\ pc'[t] = "none" <=> pc[t] = "none"
                                     /\ pc'[t] = "zombie" <=> pc[t] = "zombie"
  BY DEF Plain
<1> HIDE DEF e
<1>5. RunAgrees(curthread, c_isidle, t_state', pc', t_cpu)
  <2>1. ASSUME NEW d \in CPUs
        PROVE  /\ t_cpu[curthread[d]] = d
               /\ t_state'[curthread[d]] = "S_RUN" <=> ~ c_isidle[d]
               /\ pc'[curthread[d]] # "none"
    <3>1. /\ curthread[d] \in Threads
          /\ t_cpu[curthread[d]] = d
          /\ t_state[curthread[d]] = "S_RUN" <=> ~ c_isidle[d]
          /\ pc[curthread[d]] # "none"
      BY DEF Agree, RunAgrees, SwitchTypes
    <3>2. QED
      BY <1>1, <1>3, <1>4, <3>1
  <2>2. ASSUME NEW t \in Threads, t_state'[t] = "S_RUN"
        PROVE  curthread[t_cpu[t]] = t
    BY <1>1, <2>2 DEF Agree, RunAgrees
  <2>3. QED
    BY <2>1, <2>2 DEF RunAgrees
<1>6. StateAgrees(t_state', pc')
  <2>1. SUFFICES ASSUME NEW t \in Threads
                 PROVE  /\ t_state'[t] = "S_ZOMBIE" <=> pc'[t] \in {"zombie", "none"}
                        /\ pc'[t] = "new" => t_state'[t] = "S_READY"
    BY DEF StateAgrees
  <2>2. /\ t_state[t] = "S_ZOMBIE" <=> pc[t] \in {"zombie", "none"}
        /\ pc[t] = "new" => t_state[t] = "S_READY"
    BY DEF Agree, StateAgrees
  <2>3. QED
    BY <1>1, <1>4, <2>2
<1>7. QueuesAgree(c_runqueue', vic, t_state', pc', t_cpu)
  <2>1. SUFFICES ASSUME NEW d \in CPUs
                 PROVE  /\ NoDup(c_runqueue'[d]) /\ NoDup(vic[d])
                        /\ \A t \in Threads :
                             /\ ~ (t \in ToSet(c_runqueue'[d]) /\ t \in ToSet(vic[d]))
                             /\ t \in ToSet(c_runqueue'[d]) \/ t \in ToSet(vic[d])
                                  <=> /\ t_state'[t] = "S_READY" /\ pc'[t] # "new"
                                      /\ t_cpu[t] = d
    BY DEF QueuesAgree
  <2>2. /\ NoDup(c_runqueue[d]) /\ NoDup(vic[d])
        /\ \A t \in Threads :
             /\ ~ (t \in ToSet(c_runqueue[d]) /\ t \in ToSet(vic[d]))
             /\ t \in ToSet(c_runqueue[d]) \/ t \in ToSet(vic[d])
                  <=> t_state[t] = "S_READY" /\ pc[t] # "new" /\ t_cpu[t] = d
    BY DEF Agree, QueuesAgree
  <2>3. h \notin ToSet(c_runqueue[d]) /\ h \notin ToSet(vic[d])
    BY <1>3, <2>2
  <2>4. \A t \in Threads : t # h =>
          (/\ t_state'[t] = "S_READY" /\ pc'[t] # "new" /\ t_cpu[t] = d
           <=> t_state[t] = "S_READY" /\ pc[t] # "new" /\ t_cpu[t] = d)
    BY <1>1, <1>4
  <2>5. CASE d # e
    <3>1. c_runqueue'[d] = c_runqueue[d]
      BY <1>1, <2>5
    <3>2. t_cpu[h] # d
      BY <2>5 DEF e
    <3>3. QED
      BY <2>2, <2>3, <2>4, <3>1, <3>2
  <2>6. CASE d = e
    <3>1. NoDup(c_runqueue'[d]) /\ ToSet(c_runqueue'[d]) = ToSet(c_runqueue[d]) \cup {h}
      <4>1. c_runqueue'[d] = Append(c_runqueue[d], h) /\ c_runqueue[d] \in Seq(Threads)
        BY <1>1, <2>6
      <4>2. QED
        BY <2>2, <2>3, <4>1, AddtailLemma
    <3>2. t_state'[h] = "S_READY" /\ pc'[h] # "new" /\ t_cpu[h] = d
      BY <1>1, <1>4, <2>6 DEF e
    <3>3. QED
      BY <2>2, <2>3, <2>4, <3>1, <3>2
  <2>7. QED
    BY <2>5, <2>6
<1>8. ZombiesAgree(c_zombies, pc', t_cpu)
  <2>1. \A t \in Threads : pc'[t] = "zombie" <=> pc[t] = "zombie"
    BY <1>3, <1>4
  <2>2. QED
    BY <2>1 DEF Agree, ZombiesAgree
<1>9. QED
  BY <1>2, <1>5, <1>6, <1>7, <1>8 DEF Agree

(* thread_create, called by thread_fork: a thread structure that was free  *)
(* is now that of a thread which is ready, and on no list.                 *)
LEMMA CreateLemma ==
  ASSUME SwitchTypes, NEW vic \in [CPUs -> Seq(Threads)],
         Agree(curthread, c_isidle, c_runqueue, vic, c_zombies, t_state, pc, t_cpu),
         NEW n \in Threads, pc[n] = "none", pc'[n] = "new",
         NEW e \in CPUs, t_cpu' = [t_cpu EXCEPT ![n] = e],
         t_state' = [t_state EXCEPT ![n] = "S_READY"],
         \A t \in Threads : t # n => pc'[t] = pc[t] \/ (pc[t] \in Plain /\ pc'[t] \in Plain)
  PROVE  /\ t_cpu' \in [Threads -> CPUs]
         /\ t_state' \in [Threads -> States]
         /\ Agree(curthread, c_isidle, c_runqueue, vic, c_zombies, t_state', pc', t_cpu')
<1>1. /\ t_state'[n] = "S_READY"
      /\ \A t \in Threads : t # n => t_cpu'[t] = t_cpu[t] /\ t_state'[t] = t_state[t]
  BY DEF SwitchTypes
<1>2. t_cpu' \in [Threads -> CPUs] /\ t_state' \in [Threads -> States]
  BY DEF SwitchTypes, States
<1>3. \A t \in Threads : t # n => /\ pc'[t] = "new" <=> pc[t] = "new"
                                  /\ pc'[t] = "none" <=> pc[t] = "none"
                                  /\ pc'[t] = "zombie" <=> pc[t] = "zombie"
  BY DEF Plain
<1>4. t_state[n] = "S_ZOMBIE"
  BY DEF Agree, StateAgrees
<1>5. RunAgrees(curthread, c_isidle, t_state', pc', t_cpu')
  <2>1. ASSUME NEW d \in CPUs
        PROVE  /\ t_cpu'[curthread[d]] = d
               /\ t_state'[curthread[d]] = "S_RUN" <=> ~ c_isidle[d]
               /\ pc'[curthread[d]] # "none"
    <3>1. /\ curthread[d] \in Threads
          /\ t_cpu[curthread[d]] = d
          /\ t_state[curthread[d]] = "S_RUN" <=> ~ c_isidle[d]
          /\ pc[curthread[d]] # "none"
      BY DEF Agree, RunAgrees, SwitchTypes
    <3>2. QED
      BY <1>1, <1>3, <3>1
  <2>2. ASSUME NEW t \in Threads, t_state'[t] = "S_RUN"
        PROVE  curthread[t_cpu'[t]] = t
    BY <1>1, <2>2 DEF Agree, RunAgrees
  <2>3. QED
    BY <2>1, <2>2 DEF RunAgrees
<1>6. StateAgrees(t_state', pc')
  BY <1>1, <1>3 DEF Agree, StateAgrees
<1>7. QueuesAgree(c_runqueue, vic, t_state', pc', t_cpu')
  <2>1. \A d \in CPUs, t \in Threads :
          t_state'[t] = "S_READY" /\ pc'[t] # "new" /\ t_cpu'[t] = d
          <=> t_state[t] = "S_READY" /\ pc[t] # "new" /\ t_cpu[t] = d
    BY <1>1, <1>3, <1>4
  <2>2. QED
    BY <2>1 DEF Agree, QueuesAgree
<1>8. ZombiesAgree(c_zombies, pc', t_cpu')
  <2>1. \A d \in CPUs, t \in Threads :
          pc'[t] = "zombie" /\ t_cpu'[t] = d <=> pc[t] = "zombie" /\ t_cpu[t] = d
    BY <1>1, <1>3
  <2>2. QED
    BY <2>1 DEF Agree, ZombiesAgree
<1>9. QED
  BY <1>2, <1>5, <1>6, <1>7, <1>8 DEF Agree

(* thread_consider_migration gives g of the victims of c to d and has v    *)
(* left.  It never gives the thread it stands on.                          *)
LEMMA GiveLemma ==
  ASSUME SwitchTypes, NEW vic \in [CPUs -> Seq(Threads)],
         Agree(curthread, c_isidle, c_runqueue, vic, c_zombies, t_state, pc, t_cpu),
         NEW c \in CPUs, NEW d \in CPUs, d # c,
         NEW g \in Seq(Threads), NEW v \in Seq(Threads), NoDup(g), NoDup(v),
         ToSet(g) \cap ToSet(v) = {}, ToSet(g) \cup ToSet(v) = ToSet(vic[c]),
         curthread[c] \notin ToSet(g),
         c_runqueue' = [c_runqueue EXCEPT ![d] = @ \o g],
         t_cpu' = [t \in Threads |-> IF t \in ToSet(g) THEN d ELSE t_cpu[t]]
  PROVE  /\ c_runqueue' \in [CPUs -> Seq(Threads)]
         /\ t_cpu' \in [Threads -> CPUs]
         /\ Agree(curthread, c_isidle, c_runqueue', [vic EXCEPT ![c] = v], c_zombies,
                  t_state, pc, t_cpu')
<1> DEFINE vic2 == [vic EXCEPT ![c] = v]
<1>1. /\ c_runqueue'[d] = c_runqueue[d] \o g
      /\ c_runqueue[d] \in Seq(Threads)
      /\ \A e \in CPUs : e # d => c_runqueue'[e] = c_runqueue[e]
      /\ vic2[c] = v
      /\ \A e \in CPUs : e # c => vic2[e] = vic[e]
      /\ \A t \in Threads : t_cpu'[t] = IF t \in ToSet(g) THEN d ELSE t_cpu[t]
  BY DEF SwitchTypes
<1>2. c_runqueue' \in [CPUs -> Seq(Threads)] /\ t_cpu' \in [Threads -> CPUs]
  BY <1>1, ConcatLemma DEF SwitchTypes
<1> HIDE DEF vic2
<1>3. \A t \in Threads : t \in ToSet(g) =>
        /\ t_state[t] = "S_READY" /\ pc[t] # "new" /\ t_cpu[t] = c
        /\ t \in ToSet(vic[c])
  <2>1. ASSUME NEW t \in Threads, t \in ToSet(g) PROVE t \in ToSet(vic[c])
    BY <2>1
  <2>2. QED
    BY <2>1 DEF Agree, QueuesAgree
<1>4. RunAgrees(curthread, c_isidle, t_state, pc, t_cpu')
  <2>1. ASSUME NEW e \in CPUs
        PROVE  /\ t_cpu'[curthread[e]] = e
               /\ t_state[curthread[e]] = "S_RUN" <=> ~ c_isidle[e]
               /\ pc[curthread[e]] # "none"
    <3>1. /\ curthread[e] \in Threads
          /\ t_cpu[curthread[e]] = e
          /\ t_state[curthread[e]] = "S_RUN" <=> ~ c_isidle[e]
          /\ pc[curthread[e]] # "none"
      BY DEF Agree, RunAgrees, SwitchTypes
    <3>2. curthread[e] \notin ToSet(g)
      BY <1>3, <3>1
    <3>3. QED
      BY <1>1, <3>1, <3>2
  <2>2. ASSUME NEW t \in Threads, t_state[t] = "S_RUN"
        PROVE  curthread[t_cpu'[t]] = t
    <3>1. t \notin ToSet(g)
      BY <1>3, <2>2
    <3>2. QED
      BY <1>1, <2>2, <3>1 DEF Agree, RunAgrees
  <2>3. QED
    BY <2>1, <2>2 DEF RunAgrees
<1>5. QueuesAgree(c_runqueue', vic2, t_state, pc, t_cpu')
  <2>1. SUFFICES ASSUME NEW e \in CPUs
                 PROVE  /\ NoDup(c_runqueue'[e]) /\ NoDup(vic2[e])
                        /\ \A t \in Threads :
                             /\ ~ (t \in ToSet(c_runqueue'[e]) /\ t \in ToSet(vic2[e]))
                             /\ t \in ToSet(c_runqueue'[e]) \/ t \in ToSet(vic2[e])
                                  <=> /\ t_state[t] = "S_READY" /\ pc[t] # "new"
                                      /\ t_cpu'[t] = e
    BY DEF QueuesAgree
  <2>2. /\ NoDup(c_runqueue[e]) /\ NoDup(vic[e])
        /\ \A t \in Threads :
             /\ ~ (t \in ToSet(c_runqueue[e]) /\ t \in ToSet(vic[e]))
             /\ t \in ToSet(c_runqueue[e]) \/ t \in ToSet(vic[e])
                  <=> t_state[t] = "S_READY" /\ pc[t] # "new" /\ t_cpu[t] = e
    BY DEF Agree, QueuesAgree
  <2>3. CASE e = c
    <3>1. c_runqueue'[e] = c_runqueue[e] /\ vic2[e] = v
      BY <1>1, <2>3
    <3>2. \A t \in Threads : t \in ToSet(v) <=> t \in ToSet(vic[e]) /\ t \notin ToSet(g)
      BY <2>3
    <3>3. \A t \in Threads : t_cpu'[t] = e <=> t_cpu[t] = e /\ t \notin ToSet(g)
      BY <1>1, <1>3, <2>3
    <3>4. \A t \in Threads : t \in ToSet(g) => t \in ToSet(vic[e])
      BY <1>3, <2>3
    <3>5. QED
      BY <2>2, <3>1, <3>2, <3>3, <3>4
  <2>4. CASE e = d
    <3>1. vic2[e] = vic[e]
      BY <1>1, <2>4
    <3>2. \A t \in Threads : t \in ToSet(g) => /\ t \notin ToSet(c_runqueue[e])
                                                /\ t \notin ToSet(vic[e])
      <4>1. e # c
        BY <2>4
      <4>2. QED
        BY <1>3, <2>2, <4>1
    <3>3. NoDup(c_runqueue'[e]) /\ ToSet(c_runqueue'[e]) = ToSet(c_runqueue[e]) \cup ToSet(g)
      <4>1. ToSet(c_runqueue[e]) \cap ToSet(g) = {}
        BY <2>4, <3>2, ListLemma
      <4>2. c_runqueue'[e] = c_runqueue[e] \o g /\ c_runqueue[e] \in Seq(Threads)
        BY <1>1, <2>4
      <4> DEFINE q == c_runqueue[e]
      <4>3. q \in Seq(Threads) /\ NoDup(q) /\ ToSet(q) \cap ToSet(g) = {}
        BY <2>2, <4>1, <4>2
      <4> HIDE DEF q
      <4>4. NoDup(q \o g) /\ ToSet(q \o g) = ToSet(q) \cup ToSet(g)
        BY <4>3, ConcatLemma
      <4>5. QED
        BY <4>2, <4>4 DEF q
    <3>4. \A t \in Threads : t_cpu'[t] = e <=> t_cpu[t] = e \/ t \in ToSet(g)
      BY <1>1, <2>4
    <3>5. QED
      BY <1>3, <2>2, <3>1, <3>2, <3>3, <3>4
  <2>5. CASE e # c /\ e # d
    <3>1. c_runqueue'[e] = c_runqueue[e] /\ vic2[e] = vic[e]
      BY <1>1, <2>5
    <3>2. \A t \in Threads : t_cpu'[t] = e <=> t_cpu[t] = e
      BY <1>1, <1>3, <2>5
    <3>3. QED
      BY <2>2, <3>1, <3>2
  <2>6. QED
    BY <2>3, <2>4, <2>5
<1>6. ZombiesAgree(c_zombies, pc, t_cpu')
  <2>1. \A t \in Threads : pc[t] = "zombie" => t_cpu'[t] = t_cpu[t]
    BY <1>1, <1>3 DEF Agree, StateAgrees
  <2>2. QED
    BY <2>1 DEF Agree, ZombiesAgree
<1>7. QED
  BY <1>2, <1>4, <1>5, <1>6 DEF Agree, vic2

----------------------------------------------------------------------------
(* What the steps keep of the invariant.                                   *)

(* The thread that runs on a processor.                                    *)
LEMMA AtLemma ==
  ASSUME PlaceInv, NEW c \in CPUs, NEW t \in Threads, NEW l, At(c, t, l)
  PROVE  /\ t_state[t] = "S_RUN" /\ t_cpu[t] = c /\ pc[t] = l
         /\ ~ c_isidle[c] /\ mig[c] = NoMigration /\ cpu[c] = "thread"
         /\ curthread[c] = t
BY DEF PlaceInv, At, PlacesAgree, Agree, RunAgrees, CpuInv

(* PlaceInv gives what the lemmas above ask for.                           *)
LEMMA PlaceTypes ==
  ASSUME PlaceInv
  PROVE  /\ SwitchTypes
         /\ Victims \in [CPUs -> Seq(Threads)]
         /\ \A c \in CPUs : Victims[c] = mig[c].victims
         /\ Agree(curthread, c_isidle, c_runqueue, Victims, c_zombies, t_state, pc, t_cpu)
BY DEF PlaceInv, Types, SwitchTypes, Victims, Migrations, PlacesAgree

(* Victims after a step that leaves the migrations alone.                  *)
LEMMA VictimsFrame ==
  ASSUME mig' = mig
  PROVE  Victims' = Victims
BY DEF Victims

(* A thread dies, or is freed.                                             *)
Dies(t) == pc[t] \in {"exit_switch", "zombie"} /\ pc'[t] \in {"zombie", "none"}

LEMMA DeathFrame ==
  ASSUME PlaceInv, newthread' = newthread, pc' \in [Threads -> Locations],
         \A t \in Threads : pc'[t] = pc[t] \/ Dies(t)
  PROVE  ForkInv' /\ MenuInv'
<1>1. ForkInv /\ MenuInv /\ newthread \in [Threads -> Threads \cup {NULL}]
  BY DEF PlaceInv, Types
<1>2. ForkInv'
  <2>1. ASSUME NEW t \in Threads, newthread[t] # NULL
        PROVE  pc'[t] \in {"fork_count", "wakeall", "fork_run"} /\ pc'[newthread[t]] = "new"
    <3>1. /\ pc[t] \in {"fork_count", "wakeall", "fork_run"} /\ pc[newthread[t]] = "new"
          /\ newthread[t] \in Threads
      BY <1>1, <2>1 DEF ForkInv
    <3>2. QED
      BY <3>1 DEF Dies
  <2>2. ASSUME NEW t \in Threads, pc'[t] \in {"fork_count", "fork_run"}
        PROVE  newthread[t] # NULL
    BY <1>1, <2>2 DEF ForkInv, Dies
  <2>3. ASSUME NEW t \in Threads, pc'[t] = "new"
        PROVE  \E u \in Threads : newthread[u] = t
    BY <1>1, <2>3 DEF ForkInv, Dies
  <2>4. \A t, u \in Threads : newthread[t] # NULL /\ newthread[t] = newthread[u] => t = u
    BY <1>1 DEF ForkInv
  <2>5. QED
    BY <2>1, <2>2, <2>3, <2>4 DEF ForkInv
<1>3. MenuInv'
  <2>1. pc'[Menu] = pc[Menu]
    BY <1>1, Constants DEF MenuInv, Dies
  <2>2. \A t \in Threads \ {Menu} : pc'[t] \notin {"start_cpus", "wait_count"}
    BY <1>1 DEF MenuInv, Dies
  <2>3. QED
    BY <1>1, <2>1, <2>2 DEF MenuInv
<1>4. QED
  BY <1>2, <1>3

(* Nobody goes to sleep or wakes.                                          *)
LEMMA SleepFrame ==
  ASSUME PlaceInv, UNCHANGED <<count_wchan, waking, count_lock>>,
         \A t \in Threads : t_state'[t] = "S_SLEEP" <=> t_state[t] = "S_SLEEP",
         \A t \in Threads : pc'[t] = pc[t] \/ Dies(t)
  PROVE  SleepInv'
<1>1. SleepInv
  BY DEF PlaceInv
<1>2. \A t \in Threads : /\ pc'[t] = "wakeall" <=> pc[t] = "wakeall"
                         /\ pc'[t] = "wait_count" <=> pc[t] = "wait_count"
  BY DEF Dies
<1>3. QED
  BY <1>1, <1>2, Constants DEF SleepInv

(* A processor switches.                                                   *)
LEMMA CpuFrame ==
  ASSUME PlaceInv, NEW c \in CPUs, CpuMoves(c), mig'[c] = NoMigration,
         \A d \in CPUs : d # c => mig'[d] = mig[d],
         c_ipi_pending' = c_ipi_pending
  PROVE  CpuInv' /\ IdleIsTold'
<1>1. CpuInv /\ IdleIsTold
  BY DEF PlaceInv
<1>2. CpuInv'
  <2>1. SUFFICES ASSUME NEW d \in CPUs
                 PROVE  /\ cpu'[d] = "thread" => ~ c_isidle'[d]
                        /\ cpu'[d] \in {"wait", "loop"} => c_isidle'[d]
                        /\ cpu'[d] \notin {"mig_count", "mig_give"} => mig'[d] = NoMigration
                        /\ cpu'[d] = "mig_count" =>
                             /\ mig'[d].victims = <<>> /\ mig'[d].send = 0
                             /\ mig'[d].i <= d => mig'[d].my = 0
                             /\ mig'[d].my <= Len(c_runqueue'[d])
                        /\ cpu'[d] = "mig_give" =>
                             mig'[d].i # d /\ mig'[d].send <= Len(mig'[d].victims)
    BY DEF CpuInv, NoMigration
  <2>2. CASE d = c
    BY <2>2 DEF CpuMoves
  <2>3. CASE d # c
    <3>1. /\ c_isidle'[d] = c_isidle[d] /\ cpu'[d] = cpu[d] /\ mig'[d] = mig[d]
          /\ c_runqueue'[d] = c_runqueue[d]
      BY <2>3 DEF CpuMoves
    <3>2. QED
      BY <1>1, <3>1 DEF CpuInv
  <2>4. QED
    BY <2>2, <2>3
<1>3. IdleIsTold'
  <2>1. SUFFICES ASSUME NEW d \in CPUs, cpu'[d] = "wait", c_runqueue'[d] # <<>>
                 PROVE  c_ipi_pending[d]
    BY DEF IdleIsTold
  <2>2. d # c
    BY <2>1 DEF CpuMoves
  <2>3. QED
    BY <1>1, <2>1, <2>2 DEF IdleIsTold, CpuMoves
<1>4. QED
  BY <1>2, <1>3

(* A switch of processor c, with threads in states ts at l, where the      *)
(* lists of thread_count_wchan and the locals of thread_fork stay.         *)
LEMMA SwitchFrame ==
  ASSUME PlaceInv, NEW c \in CPUs, CpuMoves(c), SwitchTypes', PlacesAgree',
         mig' \in [CPUs -> Migrations], mig'[c] = NoMigration,
         \A d \in CPUs : d # c => mig'[d] = mig[d],
         \A t \in Threads : t_state'[t] = "S_SLEEP" <=> t_state[t] = "S_SLEEP",
         \A t \in Threads : pc'[t] = pc[t] \/ Dies(t),
         UNCHANGED <<c_ipi_pending, countvars, newthread, waking>>
  PROVE  PlaceInv'
<1>1. CpuInv' /\ IdleIsTold'
  BY CpuFrame
<1>2. ForkInv' /\ MenuInv'
  BY DeathFrame DEF SwitchTypes
<1>3. SleepInv'
  BY SleepFrame DEF countvars
<1>4. Types'
  BY DEF PlaceInv, Types, SwitchTypes, countvars
<1>5. QED
  BY <1>1, <1>2, <1>3, <1>4 DEF PlaceInv

(* A thread takes a step of its own.                                       *)
LEMMA LocalLemma ==
  ASSUME PlaceInv, NEW t \in Threads, NEW l \in Plain, NEW m \in Plain, Local(t, l, m)
  PROVE  /\ SwitchTypes' /\ PlacesAgree' /\ CpuInv' /\ IdleIsTold'
         /\ t_state[t] = "S_RUN" /\ pc[t] = l
         /\ t_state' = t_state
         /\ pc' = [pc EXCEPT ![t] = m] /\ pc' \in [Threads -> Locations]
         /\ \A u \in Threads : pc'[u] = IF u = t THEN m ELSE pc[u]
<1>1. PICK c \in CPUs : At(c, t, l)
  BY DEF Local
<1>2. t_state[t] = "S_RUN" /\ pc[t] = l
  BY <1>1, AtLemma
<1>3. /\ UNCHANGED <<curthread, c_isidle, c_runqueue, c_zombies, c_ipi_pending,
                     t_cpu, t_state, mig, cpu>>
      /\ pc' = [pc EXCEPT ![t] = m]
  BY DEF Local, Goto, cpuvars, threadvars
<1>4. pc \in [Threads -> Locations]
  BY DEF PlaceInv, Types
<1>5. /\ pc' \in [Threads -> Locations]
      /\ \A u \in Threads : pc'[u] = IF u = t THEN m ELSE pc[u]
  BY <1>3, <1>4 DEF Plain
<1>6. SwitchTypes'
  BY <1>3, <1>5, PlaceTypes DEF SwitchTypes
<1>7. PlacesAgree'
  <2>1. \A u \in Threads : pc'[u] = pc[u] \/ (pc[u] \in Plain /\ pc'[u] \in Plain)
    BY <1>2, <1>5
  <2>2. Agree(curthread, c_isidle, c_runqueue, Victims, c_zombies, t_state, pc', t_cpu)
    BY <1>4, <1>5, <2>1, PlaceTypes, StepLemma DEF SwitchTypes
  <2>3. QED
    BY <1>3, <2>2, VictimsFrame DEF PlacesAgree
<1>8. CpuInv' /\ IdleIsTold'
  BY <1>3 DEF PlaceInv, CpuInv, IdleIsTold
<1>9. QED
  BY <1>2, <1>3, <1>5, <1>6, <1>7, <1>8

(* The creators of new threads when one thread goes from l to m.           *)
LEMMA LocalFork ==
  ASSUME PlaceInv, NEW t \in Threads, NEW l \in Plain, NEW m \in Plain,
         pc[t] = l, newthread' = newthread,
         \A u \in Threads : pc'[u] = IF u = t THEN m ELSE pc[u],
         newthread[t] # NULL <=> m \in {"fork_count", "fork_run"}
                                 \/ (m = "wakeall" /\ newthread[t] # NULL)
  PROVE  ForkInv'
<1>1. ForkInv /\ newthread \in [Threads -> Threads \cup {NULL}]
  BY DEF PlaceInv, Types
<1>2. l # "new" /\ m # "new"
  BY DEF Plain
<1>3. ASSUME NEW u \in Threads, newthread[u] # NULL
      PROVE  pc'[u] \in {"fork_count", "wakeall", "fork_run"} /\ pc'[newthread[u]] = "new"
  <2>1. /\ pc[u] \in {"fork_count", "wakeall", "fork_run"} /\ pc[newthread[u]] = "new"
        /\ newthread[u] \in Threads
    BY <1>1, <1>3 DEF ForkInv
  <2>2. newthread[u] # t
    BY <1>2, <2>1
  <2>3. QED
    BY <1>3, <2>1, <2>2
<1>4. ASSUME NEW u \in Threads, pc'[u] \in {"fork_count", "fork_run"}
      PROVE  newthread[u] # NULL
  BY <1>1, <1>4 DEF ForkInv
<1>5. ASSUME NEW u \in Threads, pc'[u] = "new"
      PROVE  \E v \in Threads : newthread[v] = u
  BY <1>1, <1>2, <1>5 DEF ForkInv
<1>6. \A u, v \in Threads : newthread[u] # NULL /\ newthread[u] = newthread[v] => u = v
  BY <1>1 DEF ForkInv
<1>7. QED
  BY <1>3, <1>4, <1>5, <1>6 DEF ForkInv

(* A thread that does not fork, is not the menu and has nothing to do with *)
(* thread_count_lock takes a step of its own.                              *)
LEMMA QuietStep ==
  ASSUME PlaceInv, NEW t \in Threads \ {Menu}, NEW l, NEW m,
         l \in {"hatch", "exit", "work"}, m \in {"exit", "exit_count", "exit_switch"},
         Local(t, l, m), UNCHANGED <<countvars, newthread, waking>>
  PROVE  PlaceInv'
<1>1. l \in Plain /\ m \in Plain
  BY DEF Plain, Locations
<1>2. /\ SwitchTypes' /\ PlacesAgree' /\ CpuInv' /\ IdleIsTold'
      /\ t_state[t] = "S_RUN" /\ pc[t] = l /\ t_state' = t_state
      /\ \A u \in Threads : pc'[u] = IF u = t THEN m ELSE pc[u]
  BY <1>1, LocalLemma
<1>3. newthread[t] = NULL
  BY <1>2 DEF PlaceInv, ForkInv
<1>4. ForkInv'
  BY <1>1, <1>2, <1>3, LocalFork
<1>5. MenuInv'
  BY <1>2, Constants DEF PlaceInv, MenuInv
<1>6. SleepInv'
  BY <1>2, Constants DEF PlaceInv, SleepInv, countvars
<1>7. Types'
  BY <1>2 DEF PlaceInv, Types, SwitchTypes, countvars, Local, cpuvars
<1>8. QED
  BY <1>2, <1>4, <1>5, <1>6, <1>7 DEF PlaceInv

LEMMA HatchStep ==
  ASSUME PlaceInv, NEW t \in Threads, cpu_hatch(t)
  PROVE  PlaceInv'
<1>1. Local(t, "hatch", "exit") /\ UNCHANGED <<countvars, newthread, waking>>
  BY DEF cpu_hatch
<1>2. t # Menu
  <2>1. pc[t] = "hatch"
    BY <1>1 DEF Local, At
  <2>2. QED
    BY <2>1 DEF PlaceInv, MenuInv
<1>3. QED
  BY <1>1, <1>2, QuietStep

LEMMA ExitStep ==
  ASSUME PlaceInv, NEW t \in Threads, thread_exit(t)
  PROVE  PlaceInv'
<1> DEFINE m == IF thread_count = 0 THEN "exit_switch" ELSE "exit_count"
<1>1. t # Menu /\ Local(t, "work", m) /\ UNCHANGED <<countvars, newthread, waking>>
  BY DEF thread_exit
<1>2. m \in {"exit", "exit_count", "exit_switch"}
  OBVIOUS
<1> HIDE DEF m
<1>3. QED
  BY <1>1, <1>2, QuietStep

(* The menu comes back to its prompt.                                      *)
LEMMA MenuStep ==
  ASSUME PlaceInv, NEW l, l \in {"start_cpus", "wait_count"}, Local(Menu, l, "work"),
         UNCHANGED <<count_lock, count_wchan, newthread, waking>>,
         thread_count' \in Int, tc' \in Int
  PROVE  PlaceInv'
<1>1. l \in Plain /\ "work" \in Plain /\ Menu \in Threads
  BY Constants DEF Plain, Locations
<1>2. /\ SwitchTypes' /\ PlacesAgree' /\ CpuInv' /\ IdleIsTold'
      /\ t_state[Menu] = "S_RUN" /\ pc[Menu] = l /\ t_state' = t_state
      /\ \A u \in Threads : pc'[u] = IF u = Menu THEN "work" ELSE pc[u]
  BY <1>1, LocalLemma
<1>3. newthread[Menu] = NULL
  BY <1>1, <1>2 DEF PlaceInv, ForkInv
<1>4. ForkInv'
  BY <1>1, <1>2, <1>3, LocalFork
<1>5. MenuInv'
  BY <1>1, <1>2 DEF PlaceInv, MenuInv
<1>6. SleepInv'
  BY <1>1, <1>2 DEF PlaceInv, SleepInv
<1>7. Types'
  BY <1>2 DEF PlaceInv, Types, SwitchTypes, Local, cpuvars
<1>8. QED
  BY <1>2, <1>4, <1>5, <1>6, <1>7 DEF PlaceInv

LEMMA StartCpusStep ==
  ASSUME PlaceInv, thread_start_cpus
  PROVE  PlaceInv'
<1>1. thread_count' \in Int /\ tc' \in Int
  BY DEF thread_start_cpus, PlaceInv, Types
<1>2. QED
  BY <1>1, MenuStep DEF thread_start_cpus

LEMMA WaitDoneStep ==
  ASSUME PlaceInv, wait_count_done
  PROVE  PlaceInv'
<1>1. thread_count' \in Int /\ tc' \in Int
  BY DEF wait_count_done, PlaceInv, Types
<1>2. QED
  BY <1>1, MenuStep DEF wait_count_done

(* thread_count changes, under its lock.                                   *)
LEMMA ChangeStep ==
  ASSUME PlaceInv, NEW t \in Threads, NEW l, l \in {"fork_count", "exit_count"},
         NEW n \in Int, change_count(t, l, n)
  PROVE  PlaceInv'
<1>1. l \in Plain /\ "wakeall" \in Plain
  BY DEF Plain, Locations
<1>2. /\ count_lock = NULL /\ Local(t, l, "wakeall") /\ count_lock' = t
      /\ waking' = count_wchan /\ count_wchan' = <<>> /\ thread_count' = n
      /\ UNCHANGED <<tc, newthread>>
  BY DEF change_count
<1>3. /\ SwitchTypes' /\ PlacesAgree' /\ CpuInv' /\ IdleIsTold'
      /\ t_state[t] = "S_RUN" /\ pc[t] = l /\ t_state' = t_state
      /\ \A u \in Threads : pc'[u] = IF u = t THEN "wakeall" ELSE pc[u]
  BY <1>1, <1>2, LocalLemma
<1>4. ForkInv'
  BY <1>1, <1>2, <1>3, LocalFork
<1>5. MenuInv'
  <2>1. t = Menu => newthread[t] # NULL
    BY <1>3 DEF PlaceInv, MenuInv, ForkInv
  <2>2. QED
    BY <1>2, <1>3, <2>1, Constants DEF PlaceInv, MenuInv
<1>6. SleepInv'
  <2>1. \A u \in Threads : pc[u] # "wakeall"
    BY <1>2, Constants DEF PlaceInv, SleepInv
  <2>2. waking = <<>>
    BY <1>2 DEF PlaceInv, SleepInv
  <2>3. t # NULL
    BY Constants
  <2>4. QED
    BY <1>2, <1>3, <2>1, <2>2, <2>3, Constants DEF PlaceInv, SleepInv
<1>7. Types'
  BY <1>2, <1>3 DEF PlaceInv, Types, SwitchTypes, Local, cpuvars
<1>8. QED
  BY <1>3, <1>4, <1>5, <1>6, <1>7 DEF PlaceInv

LEMMA ForkCountStep ==
  ASSUME PlaceInv, NEW t \in Threads, fork_count(t)
  PROVE  PlaceInv'
<1>1. thread_count + 1 \in Int
  BY DEF PlaceInv, Types
<1>2. QED
  BY <1>1, ChangeStep DEF fork_count

LEMMA ExitCountStep ==
  ASSUME PlaceInv, NEW t \in Threads, exit_count(t)
  PROVE  PlaceInv'
<1>1. thread_count - 1 \in Int
  BY DEF PlaceInv, Types
<1>2. QED
  BY <1>1, ChangeStep DEF exit_count

LEMMA WakeallDoneStep ==
  ASSUME PlaceInv, NEW t \in Threads, wakeall_done(t)
  PROVE  PlaceInv'
<1> DEFINE m == IF newthread[t] = NULL THEN "exit_switch" ELSE "fork_run"
<1>1. m \in Plain /\ "wakeall" \in Plain
  BY DEF Plain, Locations
<1>2. /\ newthread[t] = NULL => m = "exit_switch"
      /\ newthread[t] # NULL => m = "fork_run"
  OBVIOUS
<1>3. /\ waking = <<>> /\ Local(t, "wakeall", m) /\ count_lock' = NULL
      /\ UNCHANGED <<thread_count, count_wchan, tc, newthread, waking>>
  BY DEF wakeall_done
<1> HIDE DEF m
<1>4. /\ SwitchTypes' /\ PlacesAgree' /\ CpuInv' /\ IdleIsTold'
      /\ t_state[t] = "S_RUN" /\ pc[t] = "wakeall" /\ t_state' = t_state
      /\ \A u \in Threads : pc'[u] = IF u = t THEN m ELSE pc[u]
  BY <1>1, <1>3, LocalLemma
<1>5. ForkInv'
  BY <1>1, <1>2, <1>3, <1>4, LocalFork
<1>6. MenuInv'
  BY <1>2, <1>3, <1>4, Constants DEF PlaceInv, MenuInv
<1>7. SleepInv'
  <2>1. \A u \in Threads : u # t => pc[u] # "wakeall"
    BY <1>4 DEF PlaceInv, SleepInv
  <2>2. QED
    BY <1>2, <1>3, <1>4, <2>1, Constants DEF PlaceInv, SleepInv
<1>8. Types'
  BY <1>3, <1>4 DEF PlaceInv, Types, SwitchTypes, Local, cpuvars
<1>9. QED
  BY <1>4, <1>5, <1>6, <1>7, <1>8 DEF PlaceInv

(* thread_fork: its new thread is on no list and has one creator.          *)
LEMMA ForkStep ==
  ASSUME PlaceInv, NEW t \in Threads, thread_fork(t)
  PROVE  PlaceInv'
<1> DEFINE n == CHOOSE u \in Threads : pc[u] = "none"
<1>1. n \in Threads /\ pc[n] = "none"
  BY DEF thread_fork
<1>2. PICK c \in CPUs : At(c, t, "work")
  BY DEF thread_fork
<1>3. /\ pc' = [pc EXCEPT ![t] = "fork_count", ![n] = "new"]
      /\ newthread' = [newthread EXCEPT ![t] = n]
      /\ t_cpu' = [t_cpu EXCEPT ![n] = t_cpu[t]]
      /\ t_state' = [t_state EXCEPT ![n] = "S_READY"]
      /\ tc' = IF t = Menu THEN thread_count ELSE tc
      /\ UNCHANGED <<cpuvars, thread_count, count_lock, count_wchan, waking, mig, cpu>>
  BY DEF thread_fork
<1> HIDE DEF n
<1>4. t_state[t] = "S_RUN" /\ pc[t] = "work" /\ t # n
  BY <1>1, <1>2, AtLemma
<1>5. /\ pc \in [Threads -> Locations] /\ t_cpu \in [Threads -> CPUs]
      /\ newthread \in [Threads -> Threads \cup {NULL}]
      /\ t_state \in [Threads -> States]
  BY DEF PlaceInv, Types
<1>6. /\ \A u \in Threads : pc'[u] = IF u = n THEN "new" ELSE IF u = t THEN "fork_count"
                                     ELSE pc[u]
      /\ \A u \in Threads : newthread'[u] = IF u = t THEN n ELSE newthread[u]
      /\ \A u \in Threads : t_state'[u] = IF u = n THEN "S_READY" ELSE t_state[u]
      /\ newthread' \in [Threads -> Threads \cup {NULL}]
      /\ pc' \in [Threads -> Locations]
  BY <1>1, <1>3, <1>4, <1>5 DEF Locations
<1>7. /\ t_cpu' \in [Threads -> CPUs]
      /\ t_state' \in [Threads -> States]
      /\ Agree(curthread, c_isidle, c_runqueue, Victims, c_zombies, t_state', pc', t_cpu')
  <2>1. "work" \in Plain /\ "fork_count" \in Plain
    BY DEF Plain, Locations
  <2>2. /\ pc'[n] = "new"
        /\ \A u \in Threads : u # n => pc'[u] = pc[u] \/ (pc[u] \in Plain /\ pc'[u] \in Plain)
    BY <1>1, <1>4, <1>6, <2>1
  <2>3. t_cpu[t] \in CPUs
    BY <1>5
  <2>4. QED
    BY <1>1, <1>3, <2>2, <2>3, PlaceTypes, CreateLemma
<1>8. PlacesAgree'
  BY <1>3, <1>7, VictimsFrame DEF PlacesAgree, cpuvars
<1>9. ForkInv /\ MenuInv /\ SleepInv
  BY DEF PlaceInv
<1>10. ForkInv'
  <2>1. \A u \in Threads : newthread[u] # n
    BY <1>1, <1>9, Constants DEF ForkInv
  <2>2. newthread[t] = NULL
    BY <1>4, <1>9 DEF ForkInv
  <2>3. ASSUME NEW u \in Threads, newthread'[u] # NULL
        PROVE  pc'[u] \in {"fork_count", "wakeall", "fork_run"} /\ pc'[newthread'[u]] = "new"
    <3>1. CASE u = t
      BY <1>1, <1>4, <1>6, <3>1
    <3>2. CASE u # t
      <4>1. /\ newthread'[u] = newthread[u] /\ newthread[u] \in Threads
            /\ pc[u] \in {"fork_count", "wakeall", "fork_run"} /\ pc[newthread[u]] = "new"
        BY <1>5, <1>6, <1>9, <2>3, <3>2 DEF ForkInv
      <4>2. QED
        BY <1>1, <1>4, <1>6, <3>2, <4>1
    <3>3. QED
      BY <3>1, <3>2
  <2>4. ASSUME NEW u \in Threads, pc'[u] \in {"fork_count", "fork_run"}
        PROVE  newthread'[u] # NULL
    BY <1>1, <1>6, <1>9, <2>4, Constants DEF ForkInv
  <2>5. ASSUME NEW u \in Threads, NEW v \in Threads, newthread'[u] # NULL,
               newthread'[u] = newthread'[v]
        PROVE  u = v
    BY <1>6, <1>9, <2>1, <2>5 DEF ForkInv
  <2>6. ASSUME NEW u \in Threads, pc'[u] = "new"
        PROVE  \E v \in Threads : newthread'[v] = u
    <3>1. CASE u = n
      BY <1>6, <3>1
    <3>2. CASE u # n
      <4>1. PICK v \in Threads : newthread[v] = u
        BY <1>6, <1>9, <2>6, <3>2 DEF ForkInv
      <4>2. v # t
        BY <2>2, <4>1, Constants
      <4>3. QED
        BY <1>6, <4>1, <4>2
    <3>3. QED
      BY <3>1, <3>2
  <2>7. QED
    BY <2>3, <2>4, <2>5, <2>6 DEF ForkInv
<1>11. n # Menu
  BY <1>1, <1>9 DEF MenuInv
<1>12. MenuInv'
  BY <1>4, <1>6, <1>9, <1>11, Constants DEF MenuInv
<1>13. SleepInv'
  BY <1>1, <1>3, <1>4, <1>6, <1>9, <1>11, Constants DEF SleepInv
<1>14. CpuInv' /\ IdleIsTold'
  BY <1>3 DEF PlaceInv, CpuInv, IdleIsTold, cpuvars
<1>15. Types'
  BY <1>3, <1>6, <1>7 DEF PlaceInv, Types, cpuvars
<1>16. QED
  BY <1>8, <1>10, <1>12, <1>13, <1>14, <1>15 DEF PlaceInv

(* thread_make_runnable adds to a queue, and tells its processor if that   *)
(* is idle.                                                                *)
LEMMA RunnableFrame ==
  ASSUME PlaceInv, NEW c \in CPUs, cpu[c] = "thread", NEW h \in Threads,
         thread_make_runnable(c, h), UNCHANGED <<c_isidle, mig, cpu>>
  PROVE  CpuInv' /\ IdleIsTold' /\ c_ipi_pending' \in [CPUs -> BOOLEAN]
<1> DEFINE e == t_cpu[h]
<1>1. e \in CPUs /\ c_runqueue[e] \in Seq(Threads)
  BY DEF PlaceInv, Types
<1>2. /\ c_runqueue'[e] = Append(c_runqueue[e], h)
      /\ \A d \in CPUs : d # e => /\ c_runqueue'[d] = c_runqueue[d]
                                  /\ c_ipi_pending'[d] = c_ipi_pending[d]
      /\ c_isidle[e] /\ e # c => c_ipi_pending'[e] = TRUE
      /\ c_ipi_pending' \in [CPUs -> BOOLEAN]
  BY <1>1 DEF PlaceInv, Types, thread_make_runnable
<1>3. \A d \in CPUs : /\ Len(c_runqueue[d]) \in Nat
                      /\ Len(c_runqueue'[d]) \in Nat
                      /\ Len(c_runqueue[d]) <= Len(c_runqueue'[d])
  <2>1. SUFFICES ASSUME NEW d \in CPUs
                 PROVE  /\ Len(c_runqueue[d]) \in Nat
                        /\ Len(c_runqueue'[d]) \in Nat
                        /\ Len(c_runqueue[d]) <= Len(c_runqueue'[d])
    OBVIOUS
  <2>2. c_runqueue[d] \in Seq(Threads) /\ Len(c_runqueue[d]) \in Nat
    BY DEF PlaceInv, Types
  <2>3. CASE d = e
    <3>1. Len(c_runqueue'[d]) = Len(c_runqueue[d]) + 1
      BY <1>1, <1>2, <2>3, AddtailLemma
    <3>2. QED
      BY <2>2, <3>1
  <2>4. CASE d # e
    BY <1>2, <2>2, <2>4
  <2>5. QED
    BY <2>3, <2>4
<1> HIDE DEF e
<1>4. CpuInv'
  <2>1. \A d \in CPUs : mig[d].my \in Nat
    BY DEF PlaceInv, Types, Migrations
  <2>2. ASSUME NEW d \in CPUs, mig[d].my <= Len(c_runqueue[d])
        PROVE  mig[d].my <= Len(c_runqueue'[d])
    BY <1>3, <2>1, <2>2
  <2>3. QED
    BY <2>2 DEF PlaceInv, CpuInv
<1>5. IdleIsTold'
  <2>1. SUFFICES ASSUME NEW d \in CPUs, cpu[d] = "wait", c_runqueue'[d] # <<>>
                 PROVE  c_ipi_pending'[d]
    BY DEF IdleIsTold
  <2>2. c_isidle[d] /\ d # c
    BY <2>1 DEF PlaceInv, CpuInv
  <2>3. QED
    BY <1>1, <1>2, <2>1, <2>2 DEF PlaceInv, IdleIsTold
<1>6. QED
  BY <1>2, <1>4, <1>5

(* wchan_wakeall wakes the menu.                                           *)
LEMMA WakeallNextStep ==
  ASSUME PlaceInv, NEW t \in Threads, wakeall_next(t)
  PROVE  PlaceInv'
<1>1. /\ waking # <<>> /\ waking' = Tail(waking)
      /\ UNCHANGED <<curthread, c_isidle, c_zombies, t_cpu, countvars, pc,
                     newthread, mig, cpu>>
  BY DEF wakeall_next
<1>2. PICK c \in CPUs : At(c, t, "wakeall") /\ thread_make_runnable(c, Head(waking))
  BY DEF wakeall_next
<1>3. waking = <<Menu>> /\ Head(waking) = Menu /\ waking' = <<>> /\ Menu \in Threads
  <2>1. waking = <<Menu>> /\ Menu \in Threads
    BY <1>1, Constants DEF PlaceInv, Types
  <2>2. Head(<<Menu>>) = Menu
    OBVIOUS
  <2>3. Tail(<<Menu>>) = <<>>
    OBVIOUS
  <2>4. QED
    BY <1>1, <2>1, <2>2, <2>3
<1>4. t_state[t] = "S_RUN" /\ pc[t] = "wakeall" /\ cpu[c] = "thread"
  BY <1>2, AtLemma
<1>5. /\ t_state[Menu] = "S_SLEEP" /\ pc[Menu] = "wait_count" /\ count_wchan = <<>>
  BY <1>3 DEF PlaceInv, SleepInv
<1>6. /\ c_runqueue' = [c_runqueue EXCEPT ![t_cpu[Menu]] = Append(@, Menu)]
      /\ t_state' = [t_state EXCEPT ![Menu] = "S_READY"]
  BY <1>2, <1>3 DEF thread_make_runnable
<1>7. /\ c_runqueue' \in [CPUs -> Seq(Threads)]
      /\ t_state' \in [Threads -> States]
      /\ Agree(curthread, c_isidle, c_runqueue', Victims, c_zombies, t_state', pc', t_cpu)
  <2>1. pc'[Menu] \in Plain /\ \A u \in Threads : pc'[u] = pc[u]
    BY <1>1, <1>5 DEF Plain, Locations
  <2>2. QED
    BY <1>3, <1>5, <1>6, <2>1, PlaceTypes, WakeLemma
<1>8. PlacesAgree'
  BY <1>1, <1>7, VictimsFrame DEF PlacesAgree
<1>9. CpuInv' /\ IdleIsTold' /\ c_ipi_pending' \in [CPUs -> BOOLEAN]
  BY <1>1, <1>2, <1>3, <1>4, RunnableFrame
<1>10. ForkInv' /\ MenuInv'
  BY <1>1 DEF PlaceInv, ForkInv, MenuInv
<1>11. SleepInv'
  <2>1. \A u \in Threads : t_state'[u] = IF u = Menu THEN "S_READY" ELSE t_state[u]
    BY <1>3, <1>6 DEF PlaceInv, Types
  <2>2. QED
    BY <1>1, <1>3, <1>5, <2>1 DEF PlaceInv, SleepInv, countvars
<1>12. Types'
  BY <1>1, <1>3, <1>7, <1>9 DEF PlaceInv, Types, countvars
<1>13. QED
  BY <1>8, <1>9, <1>10, <1>11, <1>12 DEF PlaceInv

(* thread_fork starts its new thread.                                      *)
LEMMA ForkRunStep ==
  ASSUME PlaceInv, NEW t \in Threads, fork_run(t)
  PROVE  PlaceInv'
<1> DEFINE h == newthread[t]
           m == IF t = Menu THEN "wait_count" ELSE "work"
<1>1. /\ pc' = [pc EXCEPT ![t] = m, ![h] = "work"]
      /\ newthread' = [newthread EXCEPT ![t] = NULL]
      /\ UNCHANGED <<curthread, c_isidle, c_zombies, t_cpu, countvars, waking, mig, cpu>>
  BY DEF fork_run
<1>2. PICK c \in CPUs : At(c, t, "fork_run") /\ thread_make_runnable(c, h)
  BY DEF fork_run
<1>3. t_state[t] = "S_RUN" /\ pc[t] = "fork_run" /\ cpu[c] = "thread"
  BY <1>2, AtLemma
<1>4. h \in Threads /\ pc[h] = "new" /\ h # t
  BY <1>3 DEF PlaceInv, ForkInv, Types
<1>5. m \in {"wait_count", "work"} /\ (t = Menu <=> m = "wait_count")
  OBVIOUS
<1> HIDE DEF m, h
<1>6. /\ c_runqueue' = [c_runqueue EXCEPT ![t_cpu[h]] = Append(@, h)]
      /\ t_state' = [t_state EXCEPT ![h] = "S_READY"]
  BY <1>2 DEF thread_make_runnable
<1>7. /\ \A u \in Threads : pc'[u] = IF u = h THEN "work" ELSE IF u = t THEN m ELSE pc[u]
      /\ \A u \in Threads : newthread'[u] = IF u = t THEN NULL ELSE newthread[u]
      /\ \A u \in Threads : t_state'[u] = IF u = h THEN "S_READY" ELSE t_state[u]
      /\ newthread' \in [Threads -> Threads \cup {NULL}]
      /\ pc' \in [Threads -> Locations]
  BY <1>1, <1>4, <1>5, <1>6 DEF PlaceInv, Types, Locations
<1>8. /\ c_runqueue' \in [CPUs -> Seq(Threads)]
      /\ t_state' \in [Threads -> States]
      /\ Agree(curthread, c_isidle, c_runqueue', Victims, c_zombies, t_state', pc', t_cpu)
  <2>1. "work" \in Plain /\ "fork_run" \in Plain /\ m \in Plain
    BY <1>5 DEF Plain, Locations
  <2>2. /\ pc'[h] \in Plain
        /\ \A u \in Threads : u # h => pc'[u] = pc[u] \/ (pc[u] \in Plain /\ pc'[u] \in Plain)
    BY <1>3, <1>4, <1>7, <2>1
  <2>3. QED
    BY <1>4, <1>6, <2>2, PlaceTypes, WakeLemma
<1>9. PlacesAgree'
  BY <1>1, <1>8, VictimsFrame DEF PlacesAgree
<1>10. CpuInv' /\ IdleIsTold' /\ c_ipi_pending' \in [CPUs -> BOOLEAN]
  BY <1>1, <1>2, <1>3, <1>4, RunnableFrame
<1>11. ForkInv /\ MenuInv /\ SleepInv
  BY DEF PlaceInv
<1>12. ForkInv'
  <2>1. \A u \in Threads : newthread[u] = h => u = t
    BY <1>4, <1>11, Constants DEF ForkInv, h
  <2>2. ASSUME NEW u \in Threads, newthread'[u] # NULL
        PROVE  pc'[u] \in {"fork_count", "wakeall", "fork_run"} /\ pc'[newthread'[u]] = "new"
    <3>1. /\ u # t /\ newthread'[u] = newthread[u] /\ newthread[u] \in Threads
          /\ pc[u] \in {"fork_count", "wakeall", "fork_run"} /\ pc[newthread[u]] = "new"
      BY <1>7, <1>11, <2>2 DEF ForkInv, PlaceInv, Types
    <3>2. newthread[u] # h /\ newthread[u] # t /\ u # h
      BY <1>3, <1>4, <2>1, <3>1
    <3>3. QED
      BY <1>7, <3>1, <3>2
  <2>3. ASSUME NEW u \in Threads, pc'[u] \in {"fork_count", "fork_run"}
        PROVE  newthread'[u] # NULL
    BY <1>4, <1>5, <1>7, <1>11, <2>3 DEF ForkInv
  <2>4. ASSUME NEW u \in Threads, NEW v \in Threads, newthread'[u] # NULL,
               newthread'[u] = newthread'[v]
        PROVE  u = v
    BY <1>7, <1>11, <2>4 DEF ForkInv
  <2>5. ASSUME NEW u \in Threads, pc'[u] = "new"
        PROVE  \E v \in Threads : newthread'[v] = u
    <3>1. u # h /\ u # t /\ pc[u] = "new"
      BY <1>4, <1>5, <1>7, <2>5
    <3>2. PICK v \in Threads : newthread[v] = u
      BY <1>11, <3>1 DEF ForkInv
    <3>3. v # t
      BY <3>1, <3>2 DEF h
    <3>4. QED
      BY <1>7, <3>2, <3>3
  <2>6. QED
    BY <2>2, <2>3, <2>4, <2>5 DEF ForkInv
<1>13. h # Menu
  BY <1>4, <1>11 DEF MenuInv
<1>14. MenuInv'
  BY <1>4, <1>5, <1>7, <1>11, <1>13, Constants DEF MenuInv
<1>15. t_state[h] = "S_READY"
  BY <1>4 DEF PlaceInv, PlacesAgree, Agree, StateAgrees
<1>16. SleepInv'
  BY <1>1, <1>3, <1>4, <1>5, <1>7, <1>11, <1>13, <1>15, Constants DEF SleepInv, countvars
<1>17. Types'
  BY <1>1, <1>7, <1>8, <1>10 DEF PlaceInv, Types, countvars
<1>18. QED
  BY <1>9, <1>10, <1>12, <1>14, <1>16, <1>17 DEF PlaceInv

(* thread_exit leaves the processor.                                       *)
LEMMA ExitSwitchStep ==
  ASSUME PlaceInv, NEW t \in Threads, exit_switch(t)
  PROVE  PlaceInv'
<1> DEFINE ts == [t_state EXCEPT ![t] = "S_ZOMBIE"]
           l == [pc EXCEPT ![t] = "zombie"]
<1>1. UNCHANGED <<c_ipi_pending, countvars, newthread, waking, mig>>
  BY DEF exit_switch
<1>2. PICK c \in CPUs : /\ At(c, t, "exit_switch")
                        /\ switch_to_next(c, c_runqueue[c], c_zombies[c] \cup {t}, ts, l)
  BY DEF exit_switch
<1>3. /\ t_state[t] = "S_RUN" /\ pc[t] = "exit_switch" /\ curthread[c] = t
      /\ ~ c_isidle[c] /\ mig[c] = NoMigration
  BY <1>2, AtLemma
<1>4. /\ SwitchTypes /\ Victims \in [CPUs -> Seq(Threads)]
      /\ Agree(curthread, c_isidle, c_runqueue, Victims, c_zombies, t_state, pc, t_cpu)
  BY PlaceTypes
<1>5. Agree(curthread, [c_isidle EXCEPT ![c] = TRUE], c_runqueue, Victims,
            [c_zombies EXCEPT ![c] = c_zombies[c] \cup {t}], ts, l, t_cpu)
  BY <1>3, <1>4, PutZombieLemma DEF SwitchTypes
<1>6. /\ [c_runqueue EXCEPT ![c] = c_runqueue[c]] = c_runqueue
      /\ c_runqueue[c] \in Seq(Threads)
      /\ c_zombies[c] \cup {t} \in SUBSET Threads
      /\ ts \in [Threads -> States] /\ l \in [Threads -> Locations]
      /\ \A u \in Threads : /\ ts[u] = IF u = t THEN "S_ZOMBIE" ELSE t_state[u]
                            /\ l[u] = IF u = t THEN "zombie" ELSE pc[u]
  BY <1>4 DEF SwitchTypes, States, Locations
<1> HIDE DEF ts, l
<1>7. /\ SwitchTypes'
      /\ Agree(curthread', c_isidle', c_runqueue', Victims, c_zombies', t_state', pc', t_cpu')
      /\ CpuMoves(c)
      /\ ThreadMoves(ts, l)
  BY <1>2, <1>4, <1>5, <1>6, SwitchLemma
<1>8. PlacesAgree'
  BY <1>1, <1>7, VictimsFrame DEF PlacesAgree
<1>9. \A u \in Threads : t_state'[u] = "S_SLEEP" <=> t_state[u] = "S_SLEEP"
  BY <1>3, <1>6, <1>7 DEF ThreadMoves
<1>10. \A u \in Threads : pc'[u] = pc[u] \/ Dies(u)
  BY <1>3, <1>6, <1>7 DEF ThreadMoves, Dies
<1>11. mig' \in [CPUs -> Migrations]
  BY <1>1 DEF PlaceInv, Types
<1>12. QED
  BY <1>1, <1>3, <1>7, <1>8, <1>9, <1>10, <1>11, SwitchFrame

(* The menu goes to sleep on thread_count_wchan.                           *)
LEMMA WaitSleepStep ==
  ASSUME PlaceInv, wait_count_sleep
  PROVE  PlaceInv'
<1> DEFINE ts == [t_state EXCEPT ![Menu] = "S_SLEEP"]
<1>1. /\ count_lock = NULL
      /\ UNCHANGED <<c_ipi_pending, thread_count, count_lock, tc, newthread, waking, mig>>
  BY DEF wait_count_sleep
<1>2. PICK c \in CPUs : /\ At(c, Menu, "wait_count")
                        /\ count_wchan' = Append(count_wchan, Menu)
                        /\ switch_to_next(c, c_runqueue[c], c_zombies[c], ts, pc)
  BY DEF wait_count_sleep
<1>3. /\ t_state[Menu] = "S_RUN" /\ pc[Menu] = "wait_count" /\ curthread[c] = Menu
      /\ ~ c_isidle[c] /\ mig[c] = NoMigration
  BY <1>2, AtLemma, Constants
<1>4. /\ SwitchTypes /\ Victims \in [CPUs -> Seq(Threads)]
      /\ Agree(curthread, c_isidle, c_runqueue, Victims, c_zombies, t_state, pc, t_cpu)
  BY PlaceTypes
<1>5. Agree(curthread, [c_isidle EXCEPT ![c] = TRUE], c_runqueue, Victims, c_zombies,
            ts, pc, t_cpu)
  BY <1>3, <1>4, PutSleepLemma DEF SwitchTypes
<1>6. /\ [c_runqueue EXCEPT ![c] = c_runqueue[c]] = c_runqueue
      /\ [c_zombies EXCEPT ![c] = c_zombies[c]] = c_zombies
      /\ c_runqueue[c] \in Seq(Threads)
      /\ c_zombies[c] \in SUBSET Threads
      /\ ts \in [Threads -> States] /\ pc \in [Threads -> Locations]
      /\ \A u \in Threads : ts[u] = IF u = Menu THEN "S_SLEEP" ELSE t_state[u]
  BY <1>4, Constants DEF SwitchTypes, States
<1> HIDE DEF ts
<1>7. /\ SwitchTypes'
      /\ Agree(curthread', c_isidle', c_runqueue', Victims, c_zombies', t_state', pc', t_cpu')
      /\ CpuMoves(c)
      /\ ThreadMoves(ts, pc)
  BY <1>2, <1>4, <1>5, <1>6, SwitchLemma
<1>8. PlacesAgree'
  BY <1>1, <1>7, VictimsFrame DEF PlacesAgree
<1>9. SleepInv /\ count_wchan = <<>> /\ waking = <<>>
  BY <1>3 DEF PlaceInv, SleepInv
<1>10. count_wchan' = <<Menu>>
  <2>1. Append(<<>>, Menu) = <<Menu>>
    OBVIOUS
  <2>2. QED
    BY <1>2, <1>9, <2>1
<1>11. \A u \in Threads : pc'[u] = pc[u] \/ Dies(u)
  BY <1>7 DEF ThreadMoves, Dies
<1>12. SleepInv'
  <2>1. \A u \in Threads : t_state'[u] = "S_SLEEP" <=> u = Menu
    BY <1>3, <1>6, <1>7, <1>9 DEF ThreadMoves, SleepInv
  <2>2. pc'[Menu] = "wait_count"
    BY <1>3, <1>11, Constants DEF Dies
  <2>3. \A u \in Threads : pc'[u] = "wakeall" <=> pc[u] = "wakeall"
    BY <1>11 DEF Dies
  <2>4. count_wchan' # <<>>
    BY <1>10
  <2>5. QED
    BY <1>1, <1>9, <2>1, <2>2, <2>3, <2>4, Constants DEF SleepInv
<1>13. CpuInv' /\ IdleIsTold'
  BY <1>1, <1>3, <1>7, CpuFrame
<1>14. ForkInv' /\ MenuInv'
  BY <1>1, <1>7, <1>11, DeathFrame DEF SwitchTypes
<1>15. Types'
  BY <1>1, <1>7, <1>10 DEF PlaceInv, Types, SwitchTypes
<1>16. QED
  BY <1>8, <1>12, <1>13, <1>14, <1>15 DEF PlaceInv

(* A processor that takes no part in a migration yields.                   *)
LEMMA PlainYield ==
  ASSUME PlaceInv, NEW c \in CPUs, mig[c] = NoMigration,
         thread_yield(c, c_runqueue[c]),
         UNCHANGED <<c_ipi_pending, countvars, newthread, waking, mig>>
  PROVE  PlaceInv'
<1>1. /\ SwitchTypes /\ Victims \in [CPUs -> Seq(Threads)]
      /\ Agree(curthread, c_isidle, c_runqueue, Victims, c_zombies, t_state, pc, t_cpu)
  BY PlaceTypes
<1>2. /\ [c_runqueue EXCEPT ![c] = c_runqueue[c]] = c_runqueue
      /\ c_runqueue[c] \in Seq(Threads)
  BY <1>1 DEF SwitchTypes
<1>3. /\ SwitchTypes'
      /\ Agree(curthread', c_isidle', c_runqueue', Victims, c_zombies', t_state', pc', t_cpu')
      /\ CpuMoves(c)
      /\ ThreadMoves(t_state, pc)
  BY <1>1, <1>2, YieldLemma
<1>4. PlacesAgree'
  BY <1>3, VictimsFrame DEF PlacesAgree
<1>5. \A u \in Threads : t_state'[u] = "S_SLEEP" <=> t_state[u] = "S_SLEEP"
  BY <1>3 DEF ThreadMoves
<1>6. \A u \in Threads : pc'[u] = pc[u] \/ Dies(u)
  BY <1>3 DEF ThreadMoves, Dies
<1>7. mig' \in [CPUs -> Migrations]
  BY DEF PlaceInv, Types
<1>8. QED
  BY <1>3, <1>4, <1>5, <1>6, <1>7, SwitchFrame

LEMMA YieldStep ==
  ASSUME PlaceInv, NEW t \in Threads, yield(t)
  PROVE  PlaceInv'
<1>1. PICK c \in CPUs : At(c, t, "work") /\ thread_yield(c, c_runqueue[c])
  BY DEF yield
<1>2. mig[c] = NoMigration
  BY <1>1, AtLemma
<1>3. QED
  BY <1>1, <1>2, PlainYield DEF yield

(* The idle loop looks at its queue.                                       *)
LEMMA UnidleStep ==
  ASSUME PlaceInv, NEW c \in CPUs, unidle(c)
  PROVE  PlaceInv'
<1>1. /\ cpu[c] = "loop"
      /\ switch_to_next(c, c_runqueue[c], c_zombies[c], t_state, pc)
      /\ UNCHANGED <<c_ipi_pending, countvars, newthread, waking, mig>>
  BY DEF unidle
<1>2. /\ SwitchTypes /\ Victims \in [CPUs -> Seq(Threads)]
      /\ Agree(curthread, c_isidle, c_runqueue, Victims, c_zombies, t_state, pc, t_cpu)
  BY PlaceTypes
<1>3. c_isidle[c] = TRUE /\ mig[c] = NoMigration
  BY <1>1, <1>2 DEF PlaceInv, CpuInv, SwitchTypes
<1>4. /\ [c_runqueue EXCEPT ![c] = c_runqueue[c]] = c_runqueue
      /\ [c_zombies EXCEPT ![c] = c_zombies[c]] = c_zombies
      /\ [c_isidle EXCEPT ![c] = TRUE] = c_isidle
      /\ c_runqueue[c] \in Seq(Threads)
      /\ c_zombies[c] \in SUBSET Threads
      /\ t_state \in [Threads -> States] /\ pc \in [Threads -> Locations]
  BY <1>2, <1>3 DEF SwitchTypes
<1>5. /\ SwitchTypes'
      /\ Agree(curthread', c_isidle', c_runqueue', Victims, c_zombies', t_state', pc', t_cpu')
      /\ CpuMoves(c)
      /\ ThreadMoves(t_state, pc)
  BY <1>1, <1>2, <1>4, SwitchLemma
<1>6. PlacesAgree'
  BY <1>1, <1>5, VictimsFrame DEF PlacesAgree
<1>7. \A u \in Threads : t_state'[u] = "S_SLEEP" <=> t_state[u] = "S_SLEEP"
  BY <1>5 DEF ThreadMoves
<1>8. \A u \in Threads : pc'[u] = pc[u] \/ Dies(u)
  BY <1>5 DEF ThreadMoves, Dies
<1>9. mig' \in [CPUs -> Migrations]
  BY <1>1 DEF PlaceInv, Types
<1>10. QED
  BY <1>1, <1>3, <1>5, <1>6, <1>7, <1>8, <1>9, SwitchFrame

(* A step that changes only what a processor does, its interrupt and its   *)
(* migration, but not its victims, leaves every thread where it is.        *)
LEMMA ProcessorFrame ==
  ASSUME PlaceInv, Victims' = Victims,
         UNCHANGED <<curthread, c_isidle, c_runqueue, c_zombies, threadvars,
                     countvars, localvars>>
  PROVE  PlacesAgree' /\ ForkInv' /\ MenuInv' /\ SleepInv'
<1>1. PlacesAgree'
  BY DEF PlaceInv, PlacesAgree, threadvars, localvars
<1>2. ForkInv' /\ MenuInv'
  BY DEF PlaceInv, ForkInv, MenuInv, localvars
<1>3. SleepInv'
  BY DEF PlaceInv, SleepInv, threadvars, localvars, countvars
<1>4. QED
  BY <1>1, <1>2, <1>3

LEMMA InterruptStep ==
  ASSUME PlaceInv, NEW c \in CPUs, interprocessor_interrupt(c)
  PROVE  PlaceInv'
<1>1. /\ InterruptsOn(c)
      /\ c_ipi_pending' = [c_ipi_pending EXCEPT ![c] = FALSE]
      /\ cpu' = [cpu EXCEPT ![c] = IF @ = "wait" THEN "loop" ELSE @]
      /\ UNCHANGED <<curthread, c_isidle, c_runqueue, c_zombies, threadvars,
                     countvars, localvars, mig>>
  BY DEF interprocessor_interrupt
<1>2. PlacesAgree' /\ ForkInv' /\ MenuInv' /\ SleepInv'
  BY <1>1, ProcessorFrame, VictimsFrame
<1>3. cpu \in [CPUs -> Doings] /\ c_ipi_pending \in [CPUs -> BOOLEAN]
  BY DEF PlaceInv, Types
<1>4. \/ cpu[c] = "wait" /\ cpu'[c] = "loop"
      \/ cpu[c] = "thread" /\ cpu'[c] = "thread"
  BY <1>1, <1>3 DEF InterruptsOn
<1>5. \A d \in CPUs : d # c => cpu'[d] = cpu[d] /\ c_ipi_pending'[d] = c_ipi_pending[d]
  BY <1>1, <1>3
<1>6. CpuInv'
  <2>1. \A d \in CPUs : d # c => cpu'[d] = cpu[d]
    BY <1>5
  <2>2. QED
    BY <1>1, <1>4, <2>1 DEF PlaceInv, CpuInv
<1>7. IdleIsTold'
  BY <1>1, <1>4, <1>5 DEF PlaceInv, IdleIsTold
<1>8. Types'
  BY <1>1, <1>3, <1>4 DEF PlaceInv, Types, Doings, threadvars, countvars, localvars
<1>9. QED
  BY <1>2, <1>6, <1>7, <1>8 DEF PlaceInv

(* The clock: a processor yields, or thinks of migration.                  *)
LEMMA HardclockStep ==
  ASSUME PlaceInv, NEW c \in CPUs, hardclock(c)
  PROVE  PlaceInv'
<1>1. /\ InterruptsOn(c)
      /\ UNCHANGED <<c_ipi_pending, countvars, newthread, waking>>
  BY DEF hardclock
<1>2. cpu[c] \in {"wait", "thread"} /\ mig[c] = NoMigration
  BY <1>1 DEF InterruptsOn, PlaceInv, CpuInv
<1>3. CASE thread_yield(c, c_runqueue[c]) /\ mig' = mig
  BY <1>1, <1>2, <1>3, PlainYield
<1>4. CASE /\ cpu' = [cpu EXCEPT ![c] = "mig_count"]
           /\ UNCHANGED <<mig, curthread, c_isidle, c_runqueue, c_zombies, threadvars, pc>>
  <2>1. PlacesAgree' /\ ForkInv' /\ MenuInv' /\ SleepInv'
    BY <1>1, <1>4, ProcessorFrame, VictimsFrame DEF localvars
  <2>2. cpu'[c] = "mig_count" /\ \A d \in CPUs : d # c => cpu'[d] = cpu[d]
    BY <1>4 DEF PlaceInv, Types
  <2>3. CpuInv'
    <3>1. /\ mig[c].victims = <<>> /\ mig[c].send = 0 /\ mig[c].my = 0
          /\ 0 <= Len(c_runqueue[c])
      BY <1>2 DEF NoMigration, PlaceInv, Types
    <3>2. QED
      BY <1>4, <2>2, <3>1 DEF PlaceInv, CpuInv
  <2>4. IdleIsTold'
    BY <1>1, <1>4, <2>2 DEF PlaceInv, IdleIsTold
  <2>5. Types'
    BY <1>1, <1>4 DEF PlaceInv, Types, Doings, threadvars, countvars
  <2>6. QED
    BY <2>1, <2>3, <2>4, <2>5 DEF PlaceInv
<1>5. QED
  BY <1>3, <1>4 DEF hardclock

----------------------------------------------------------------------------
(* Migration.                                                              *)

(* one_share is a count.                                                   *)
LEMMA ShareLemma ==
  ASSUME PlaceInv, NEW c \in CPUs
  PROVE  OneShare(c) \in Nat
<1>1. mig[c].total \in Nat
  BY DEF PlaceInv, Types, Migrations
<1>2. Cardinality(CPUs) = NumCpus /\ NumCpus \in Nat \ {0}
  <2>1. 0 \in Int /\ NumCpus - 1 \in Int /\ NumCpus \in Nat \ {0}
    BY Constants
  <2>2. Cardinality(0 .. NumCpus - 1) = IF 0 > NumCpus - 1 THEN 0 ELSE (NumCpus - 1) - 0 + 1
    BY <2>1, FS_Interval
  <2>3. QED
    BY <2>1, <2>2 DEF CPUs
<1>3. \A a \in Nat, b \in Nat \ {0} : (a + b - 1) \div b \in Nat
  OBVIOUS
<1>4. QED
  BY <1>1, <1>2, <1>3 DEF OneShare, DIVROUNDUP

(* The smaller of two numbers.                                             *)
LEMMA MinLemma ==
  ASSUME NEW a \in Int, NEW b \in Int
  PROVE  Min({a, b}) = IF a <= b THEN a ELSE b
<1>1. CASE a <= b
  <2>1. \A x \in {a, b} : (\A y \in {a, b} : x <= y) <=> x = a
    BY <1>1
  <2>2. QED
    BY <1>1, <2>1 DEF Min
<1>2. CASE ~ a <= b
  <2>1. \A x \in {a, b} : (\A y \in {a, b} : x <= y) <=> x = b
    BY <1>2
  <2>2. QED
    BY <1>2, <2>1 DEF Min
<1>3. QED
  BY <1>1, <1>2

(* thread_consider_migration counts a queue.                               *)
LEMMA CountQueueStep ==
  ASSUME PlaceInv, NEW c \in CPUs, migration_count(c)
  PROVE  PlaceInv'
<1> DEFINE d == mig[c].i
           n == Len(c_runqueue[d])
<1>1. /\ cpu[c] = "mig_count" /\ d < NumCpus
      /\ mig' = [mig EXCEPT ![c].i = @ + 1, ![c].total = @ + n,
                            ![c].my = IF c = d THEN n ELSE @]
      /\ UNCHANGED <<cpuvars, threadvars, countvars, localvars, cpu>>
  BY DEF migration_count
<1>2. mig \in [CPUs -> Migrations] /\ mig[c] \in Migrations /\ c \in Nat
  BY Constants DEF PlaceInv, Types
<1>3. d \in CPUs /\ n \in Nat /\ d \in Nat /\ NumCpus \in Nat
  BY <1>1, <1>2, Constants DEF Migrations, PlaceInv, Types
<1> HIDE DEF d, n
<1>4. /\ mig'[c].i = mig[c].i + 1 /\ mig'[c].total = mig[c].total + n
      /\ mig'[c].my = IF c = d THEN n ELSE mig[c].my
      /\ mig'[c].send = mig[c].send /\ mig'[c].victims = mig[c].victims
      /\ \A e \in CPUs : e # c => mig'[e] = mig[e]
  BY <1>1, <1>2 DEF Migrations
<1>5. mig' \in [CPUs -> Migrations]
  <2>1. d + 1 \in 0 .. NumCpus /\ mig[c].total + n \in Nat
    <3>1. mig[c].total \in Nat
      BY <1>2 DEF Migrations
    <3>2. d < NumCpus
      BY <1>1
    <3>3. QED
      BY <1>3, <3>1, <3>2
  <2>2. (IF c = d THEN n ELSE mig[c].my) \in Nat
    BY <1>2, <1>3 DEF Migrations
  <2>3. [mig[c] EXCEPT !.i = d + 1, !.total = mig[c].total + n,
                       !.my = IF c = d THEN n ELSE mig[c].my] \in Migrations
    BY <1>2, <2>1, <2>2 DEF Migrations
  <2>4. QED
    BY <1>1, <1>2, <2>3 DEF d
<1>6. Victims' = Victims
  BY <1>4 DEF Victims
<1>7. PlacesAgree' /\ ForkInv' /\ MenuInv' /\ SleepInv'
  BY <1>1, <1>6, ProcessorFrame DEF cpuvars
<1>8. CpuInv'
  <2>1. SUFFICES ASSUME NEW e \in CPUs
                 PROVE  /\ cpu[e] = "thread" => ~ c_isidle[e]
                        /\ cpu[e] \in {"wait", "loop"} => c_isidle[e]
                        /\ cpu[e] \notin {"mig_count", "mig_give"} => mig'[e] = NoMigration
                        /\ cpu[e] = "mig_count" =>
                             /\ mig'[e].victims = <<>> /\ mig'[e].send = 0
                             /\ mig'[e].i <= e => mig'[e].my = 0
                             /\ mig'[e].my <= Len(c_runqueue[e])
                        /\ cpu[e] = "mig_give" =>
                             mig'[e].i # e /\ mig'[e].send <= Len(mig'[e].victims)
    BY <1>1 DEF CpuInv, NoMigration, cpuvars
  <2>2. CASE e # c
    <3>1. mig'[e] = mig[e]
      BY <1>4, <2>2
    <3>2. QED
      BY <3>1 DEF PlaceInv, CpuInv
  <2>3. CASE e = c
    <3>1. /\ mig[c].victims = <<>> /\ mig[c].send = 0
          /\ mig[c].i <= c => mig[c].my = 0
          /\ mig[c].my <= Len(c_runqueue[c])
      BY <1>1 DEF PlaceInv, CpuInv
    <3>2. CASE c = d
      BY <1>1, <1>2, <1>3, <1>4, <2>3, <3>1, <3>2 DEF d, n
    <3>3. CASE c # d
      BY <1>1, <1>2, <1>3, <1>4, <2>3, <3>1, <3>3 DEF d
    <3>4. QED
      BY <3>2, <3>3
  <2>4. QED
    BY <2>2, <2>3
<1>9. IdleIsTold'
  BY <1>1 DEF PlaceInv, IdleIsTold, cpuvars
<1>10. Types'
  BY <1>1, <1>5 DEF PlaceInv, Types, cpuvars, threadvars, countvars, localvars
<1>11. QED
  BY <1>7, <1>8, <1>9, <1>10 DEF PlaceInv

(* A processor ends its migration, q being on its queue and no victims     *)
(* left, and yields.                                                       *)
LEMMA MigrationEnds ==
  ASSUME PlaceInv, NEW c \in CPUs, NEW q \in Seq(Threads), NoDup(q),
         ToSet(q) = ToSet(c_runqueue[c]) \cup ToSet(mig[c].victims),
         mig' = [mig EXCEPT ![c] = NoMigration], thread_yield(c, q),
         UNCHANGED <<c_ipi_pending, countvars, newthread, waking>>
  PROVE  PlaceInv'
<1>1. /\ SwitchTypes /\ Victims \in [CPUs -> Seq(Threads)]
      /\ Victims[c] = mig[c].victims
      /\ Agree(curthread, c_isidle, c_runqueue, Victims, c_zombies, t_state, pc, t_cpu)
  BY PlaceTypes
<1>2. NoMigration \in Migrations /\ NoMigration.victims = <<>>
  BY EmptyLemma, Constants DEF NoMigration, Migrations
<1>3. mig \in [CPUs -> Migrations]
  BY DEF PlaceInv, Types
<1>4. /\ mig' \in [CPUs -> Migrations] /\ mig'[c] = NoMigration
      /\ \A d \in CPUs : d # c => mig'[d] = mig[d]
  BY <1>2, <1>3
<1>5. Victims' = [Victims EXCEPT ![c] = <<>>]
  BY <1>2, <1>4 DEF Victims
<1>6. Agree(curthread, c_isidle, [c_runqueue EXCEPT ![c] = q], [Victims EXCEPT ![c] = <<>>],
            c_zombies, t_state, pc, t_cpu)
  <2>1. /\ ToSet(q) \cap ToSet(<<>>) = {}
        /\ ToSet(q) \cup ToSet(<<>>) = ToSet(c_runqueue[c]) \cup ToSet(Victims[c])
        /\ <<>> \in Seq(Threads) /\ NoDup(<<>>)
    BY <1>1, EmptyLemma
  <2>2. QED
    BY <1>1, <2>1, RequeueLemma DEF SwitchTypes
<1>7. [Victims EXCEPT ![c] = <<>>] \in [CPUs -> Seq(Threads)]
  BY <1>1, EmptyLemma
<1>8. /\ SwitchTypes'
      /\ Agree(curthread', c_isidle', c_runqueue', Victims', c_zombies', t_state', pc', t_cpu')
      /\ CpuMoves(c)
      /\ ThreadMoves(t_state, pc)
  <2>1. Victims' \in [CPUs -> Seq(Threads)]
    BY <1>5, <1>7
  <2>2. Agree(curthread, c_isidle, [c_runqueue EXCEPT ![c] = q], Victims', c_zombies,
              t_state, pc, t_cpu)
    BY <1>5, <1>6
  <2>3. QED
    BY <1>1, <2>1, <2>2, YieldLemma
<1>9. PlacesAgree'
  BY <1>8 DEF PlacesAgree
<1>10. \A u \in Threads : t_state'[u] = "S_SLEEP" <=> t_state[u] = "S_SLEEP"
  BY <1>8 DEF ThreadMoves
<1>11. \A u \in Threads : pc'[u] = pc[u] \/ Dies(u)
  BY <1>8 DEF ThreadMoves, Dies
<1>12. QED
  BY <1>4, <1>8, <1>9, <1>10, <1>11, SwitchFrame

(* What is left of the victims goes back.                                  *)
LEMMA PutStep ==
  ASSUME PlaceInv, NEW c \in CPUs, migration_put(c)
  PROVE  PlaceInv'
<1> DEFINE a == c_runqueue[c]
           b == mig[c].victims
<1>1. /\ SwitchTypes /\ Victims \in [CPUs -> Seq(Threads)]
      /\ Victims[c] = b
      /\ QueuesAgree(c_runqueue, Victims, t_state, pc, t_cpu)
  BY PlaceTypes DEF Agree
<1>2. a \in Seq(Threads) /\ b \in Seq(Threads)
  BY <1>1 DEF SwitchTypes
<1>3. /\ NoDup(a) /\ NoDup(b)
      /\ \A t \in Threads : ~ (t \in ToSet(a) /\ t \in ToSet(b))
  BY <1>1 DEF QueuesAgree
<1>4. ToSet(a) \cap ToSet(b) = {}
  BY <1>2, <1>3, ListLemma
<1>5. a \o b \in Seq(Threads) /\ NoDup(a \o b) /\ ToSet(a \o b) = ToSet(a) \cup ToSet(b)
  BY <1>2, <1>3, <1>4, ConcatLemma
<1>6. QED
  BY <1>5, MigrationEnds DEF migration_put

(* Victims are taken from the end of the queue.                            *)
LEMMA TakeStep ==
  ASSUME PlaceInv, NEW c \in CPUs, migration_take(c)
  PROVE  PlaceInv'
<1> DEFINE q == c_runqueue[c]
           send == mig[c].my - OneShare(c)
           keep == Len(q) - send
           a == SubSeq(q, 1, keep)
           b == SubSeq(q, keep + 1, Len(q))
<1>1. /\ SwitchTypes /\ Victims \in [CPUs -> Seq(Threads)]
      /\ Victims[c] = mig[c].victims
      /\ Agree(curthread, c_isidle, c_runqueue, Victims, c_zombies, t_state, pc, t_cpu)
  BY PlaceTypes
<1>2. /\ cpu[c] = "mig_count"
      /\ UNCHANGED <<c_ipi_pending, countvars, newthread, waking>>
  BY DEF migration_take
<1>3. /\ mig[c].victims = <<>> /\ mig[c].my <= Len(q)
  BY <1>2 DEF PlaceInv, CpuInv
<1>4. q \in Seq(Threads) /\ NoDup(q) /\ Len(q) \in Nat
  BY <1>1 DEF SwitchTypes, Agree, QueuesAgree
<1>5. mig \in [CPUs -> Migrations] /\ mig[c] \in Migrations /\ mig[c].my \in Nat
  BY DEF PlaceInv, Types, Migrations
<1>6. OneShare(c) \in Nat
  BY ShareLemma
<1>7. CASE mig[c].my <= OneShare(c)
  <2>1. thread_yield(c, q) /\ mig' = [mig EXCEPT ![c] = NoMigration]
    BY <1>7 DEF migration_take
  <2>2. ToSet(q) = ToSet(q) \cup ToSet(mig[c].victims)
    BY <1>3, EmptyLemma
  <2>3. QED
    BY <1>2, <1>4, <2>1, <2>2, MigrationEnds
<1>8. CASE ~ mig[c].my <= OneShare(c)
  <2>1. /\ c_runqueue' = [c_runqueue EXCEPT ![c] = a]
        /\ mig' = [mig EXCEPT ![c].i = NextCpu(c, 0), ![c].send = send, ![c].victims = b]
        /\ cpu' = [cpu EXCEPT ![c] = "mig_give"]
        /\ UNCHANGED <<curthread, c_isidle, c_zombies, threadvars, pc>>
    BY <1>8, <1>1 DEF migration_take, SwitchTypes
  <2>2. send \in Nat /\ keep \in 0 .. Len(q) /\ Len(q) - keep = send
    BY <1>3, <1>4, <1>5, <1>6, <1>8
  <2> HIDE DEF send, keep
  <2>3. /\ a \in Seq(Threads) /\ b \in Seq(Threads)
        /\ Len(b) = send
        /\ ToSet(q) = ToSet(a) \cup ToSet(b)
        /\ NoDup(a) /\ NoDup(b) /\ ToSet(a) \cap ToSet(b) = {}
    BY <1>4, <2>2, SplitLemma
  <2> HIDE DEF a, b
  <2>4. NextCpu(c, 0) \in 0 .. NumCpus /\ NextCpu(c, 0) # c
    BY Constants DEF NextCpu
  <2>5. /\ mig'[c].i = NextCpu(c, 0) /\ mig'[c].send = send /\ mig'[c].victims = b
        /\ \A d \in CPUs : d # c => mig'[d] = mig[d]
        /\ mig' \in [CPUs -> Migrations]
    BY <1>5, <2>1, <2>2, <2>3, <2>4 DEF Migrations
  <2>6. Victims' = [Victims EXCEPT ![c] = b]
    BY <2>5 DEF Victims
  <2>7. Agree(curthread, c_isidle, [c_runqueue EXCEPT ![c] = a], [Victims EXCEPT ![c] = b],
              c_zombies, t_state, pc, t_cpu)
    <3>1. ToSet(a) \cup ToSet(b) = ToSet(c_runqueue[c]) \cup ToSet(Victims[c])
      BY <1>1, <1>3, <2>3, EmptyLemma
    <3>2. QED
      BY <1>1, <2>3, <3>1, RequeueLemma DEF SwitchTypes
  <2>8. PlacesAgree'
    BY <2>1, <2>6, <2>7 DEF PlacesAgree, threadvars
  <2>9. ForkInv' /\ MenuInv' /\ SleepInv'
    BY <1>2, <2>1 DEF PlaceInv, ForkInv, MenuInv, SleepInv, threadvars, countvars
  <2>10. /\ cpu'[c] = "mig_give"
         /\ \A d \in CPUs : d # c => cpu'[d] = cpu[d] /\ c_runqueue'[d] = c_runqueue[d]
    BY <1>1, <2>1 DEF SwitchTypes
  <2>11. CpuInv'
    <3>1. SUFFICES ASSUME NEW e \in CPUs
                   PROVE  /\ cpu'[e] = "thread" => ~ c_isidle[e]
                          /\ cpu'[e] \in {"wait", "loop"} => c_isidle[e]
                          /\ cpu'[e] \notin {"mig_count", "mig_give"} => mig'[e] = NoMigration
                          /\ cpu'[e] = "mig_count" =>
                               /\ mig'[e].victims = <<>> /\ mig'[e].send = 0
                               /\ mig'[e].i <= e => mig'[e].my = 0
                               /\ mig'[e].my <= Len(c_runqueue'[e])
                          /\ cpu'[e] = "mig_give" =>
                               mig'[e].i # e /\ mig'[e].send <= Len(mig'[e].victims)
      BY <2>1 DEF CpuInv, NoMigration
    <3>2. CASE e # c
      <4>1. mig'[e] = mig[e] /\ cpu'[e] = cpu[e] /\ c_runqueue'[e] = c_runqueue[e]
        BY <2>5, <2>10, <3>2
      <4>2. QED
        BY <4>1 DEF PlaceInv, CpuInv
    <3>3. CASE e = c
      BY <2>2, <2>3, <2>4, <2>5, <2>10, <3>3
    <3>4. QED
      BY <3>2, <3>3
  <2>12. IdleIsTold'
    BY <1>2, <2>10 DEF PlaceInv, IdleIsTold
  <2>13. Types'
    <3>1. c_runqueue' \in [CPUs -> Seq(Threads)] /\ cpu' \in [CPUs -> Doings]
      BY <1>1, <2>1, <2>3 DEF SwitchTypes, Doings
    <3>2. QED
      BY <1>2, <2>1, <2>5, <3>1 DEF PlaceInv, Types, threadvars, countvars
  <2>14. QED
    BY <2>8, <2>9, <2>11, <2>12, <2>13 DEF PlaceInv
<1>9. QED
  BY <1>7, <1>8

(* The first n threads of a list, or none when n is not positive.          *)
LEMMA PrefixLemma ==
  ASSUME NEW s \in Seq(Threads), NEW n \in Int, n <= Len(s)
  PROVE  LET k == IF n < 0 THEN 0 ELSE n
         IN  /\ k \in 0 .. Len(s)
             /\ SubSeq(s, 1, n) = SubSeq(s, 1, k)
             /\ Len(SubSeq(s, 1, n)) = k
<1> DEFINE k == IF n < 0 THEN 0 ELSE n
<1>1. Len(s) \in Nat
  OBVIOUS
<1>2. CASE n < 0
  <2>1. SubSeq(s, 1, n) = <<>> /\ SubSeq(s, 1, 0) = <<>>
    BY <1>1, <1>2
  <2>2. QED
    BY <1>1, <1>2, <2>1
<1>3. CASE ~ n < 0
  <2>1. n \in 0 .. Len(s)
    BY <1>1, <1>3
  <2>2. Len(SubSeq(s, 1, n)) = n
    BY <2>1, SplitLemma
  <2>3. QED
    BY <1>3, <2>1, <2>2
<1>4. QED
  BY <1>2, <1>3

(* The threads of s that migrate when cur, if it is met among the first n, *)
(* is passed over: what is given, and what stays with cur at its end, are  *)
(* the threads of s, each once.                                            *)
LEMMA PassOverLemma ==
  ASSUME NEW s \in Seq(Threads), NoDup(s), NEW cur \in Threads,
         NEW send \in Nat, send <= Len(s), NEW room \in Int
  PROVE  LET upto(n) == SubSeq(s, 1, Min({n, send}))
             skips == \E i \in DOMAIN upto(room) : upto(room)[i] = cur
             seen == upto(IF skips THEN room + 1 ELSE room)
             given == RemoveFirst(seen, cur)
             left == SubSeq(s, Len(seen) + 1, Len(s)) \o (IF skips THEN <<cur>> ELSE <<>>)
         IN  /\ given \in Seq(Threads) /\ left \in Seq(Threads)
             /\ NoDup(given) /\ NoDup(left)
             /\ ToSet(given) \cap ToSet(left) = {}
             /\ ToSet(given) \cup ToSet(left) = ToSet(s)
             /\ cur \notin ToSet(given)
             /\ Len(seen) \in Nat /\ Len(seen) <= send
             /\ send - Len(seen) <= Len(left)
<1> DEFINE upto(n) == SubSeq(s, 1, Min({n, send}))
           skips == \E i \in DOMAIN upto(room) : upto(room)[i] = cur
           n0 == IF skips THEN room + 1 ELSE room
           seen == upto(n0)
           given == RemoveFirst(seen, cur)
           rest == SubSeq(s, Len(seen) + 1, Len(s))
           last == IF skips THEN <<cur>> ELSE <<>>
           left == rest \o last
<1>1. Len(s) \in Nat
  OBVIOUS
<1>2. ASSUME NEW n \in Int
      PROVE  \E k \in 0 .. Len(s) : /\ upto(n) = SubSeq(s, 1, k)
                                    /\ k <= send /\ k <= (IF n < 0 THEN 0 ELSE n)
                                    /\ k = send \/ n <= k
  <2> DEFINE m == Min({n, send})
             k == IF m < 0 THEN 0 ELSE m
  <2>1. m = IF n <= send THEN n ELSE send
    BY MinLemma
  <2>2. m \in Int /\ m <= Len(s)
    BY <1>1, <2>1
  <2> HIDE DEF m
  <2>3. k \in 0 .. Len(s) /\ SubSeq(s, 1, m) = SubSeq(s, 1, k)
    BY <2>2, PrefixLemma
  <2>4. /\ k <= send /\ k <= (IF n < 0 THEN 0 ELSE n)
        /\ k = send \/ n <= k
    BY <2>1, <2>2
  <2>5. QED
    BY <2>3, <2>4 DEF m
<1>3. PICK j \in 0 .. Len(s) : /\ upto(room) = SubSeq(s, 1, j)
                               /\ j <= send /\ j <= (IF room < 0 THEN 0 ELSE room)
                               /\ j = send \/ room <= j
  BY <1>2
<1>4. PICK k \in 0 .. Len(s) : /\ seen = SubSeq(s, 1, k)
                               /\ k <= send /\ k <= (IF n0 < 0 THEN 0 ELSE n0)
                               /\ k = send \/ n0 <= k
  <2>1. n0 \in Int
    OBVIOUS
  <2> HIDE DEF n0
  <2>2. QED
    BY <1>2, <2>1
<1>5. j <= k /\ (~ skips => seen = upto(room))
  <2>1. n0 = room \/ n0 = room + 1
    OBVIOUS
  <2>2. ~ skips => seen = upto(room)
    OBVIOUS
  <2> HIDE DEF n0, seen
  <2>3. j <= k
    BY <1>1, <1>3, <1>4, <2>1
  <2>4. QED
    BY <2>2, <2>3
<1>6. /\ seen \in Seq(Threads) /\ Len(seen) = k
      /\ ToSet(s) = ToSet(seen) \cup ToSet(rest)
      /\ NoDup(seen) /\ NoDup(rest) /\ ToSet(seen) \cap ToSet(rest) = {}
      /\ rest \in Seq(Threads) /\ Len(rest) = Len(s) - k
  <2>1. Len(SubSeq(s, 1, k)) = k
    BY SplitLemma
  <2>2. Len(seen) = k
    BY <1>4, <2>1
  <2>3. rest = SubSeq(s, k + 1, Len(s))
    BY <2>2
  <2> HIDE DEF seen, rest
  <2>4. QED
    BY <1>4, <2>2, <2>3, SplitLemma
<1>7. skips <=> cur \in ToSet(upto(room))
  BY DEF ToSet
<1>8. skips <=> cur \in ToSet(seen)
  <2>1. ToSet(SubSeq(s, 1, j)) \subseteq ToSet(SubSeq(s, 1, k))
    <3>1. ASSUME NEW i \in 1 .. j PROVE SubSeq(s, 1, j)[i] \in ToSet(SubSeq(s, 1, k))
      <4>1. /\ i \in 1 .. k
            /\ SubSeq(s, 1, j)[i] = s[i] /\ SubSeq(s, 1, k)[i] = s[i]
            /\ DOMAIN SubSeq(s, 1, k) = 1 .. k
        BY <1>1, <1>5
      <4>2. QED
        BY <4>1 DEF ToSet
    <3>2. DOMAIN SubSeq(s, 1, j) = 1 .. j
      BY <1>1
    <3>3. QED
      BY <3>1, <3>2 DEF ToSet
  <2> HIDE DEF skips, seen, upto
  <2>2. QED
    BY <1>3, <1>4, <1>5, <1>7, <2>1
<1>9. /\ skips => last = <<cur>>
      /\ ~ skips => last = <<>>
  OBVIOUS
<1> HIDE DEF skips, seen, upto, rest, last, n0
<1>10. /\ last \in Seq(Threads) /\ NoDup(last) /\ Len(last) \in Nat
       /\ skips => ToSet(last) = {cur}
       /\ ~ skips => ToSet(last) = {}
  <2>1. /\ <<cur>> \in Seq(Threads) /\ NoDup(<<cur>>) /\ ToSet(<<cur>>) = {cur}
        /\ Len(<<cur>>) = 1
    <3>1. Append(<<>>, cur) = <<cur>>
      OBVIOUS
    <3>2. cur \notin ToSet(<<>>)
      BY EmptyLemma
    <3>3. <<>> \in Seq(Threads) /\ NoDup(<<>>) /\ Len(<<>>) = 0
      BY EmptyLemma
    <3>4. /\ Append(<<>>, cur) \in Seq(Threads) /\ NoDup(Append(<<>>, cur))
          /\ ToSet(Append(<<>>, cur)) = ToSet(<<>>) \cup {cur}
          /\ Len(Append(<<>>, cur)) = Len(<<>>) + 1
      BY <3>2, <3>3, AddtailLemma
    <3>5. QED
      BY <3>1, <3>3, <3>4, EmptyLemma
  <2>2. CASE skips
    BY <1>9, <2>1, <2>2
  <2>3. CASE ~ skips
    BY <1>9, <2>3, EmptyLemma
  <2>4. QED
    BY <2>2, <2>3
<1>11. /\ given \in Seq(Threads) /\ NoDup(given) /\ ToSet(given) = ToSet(seen) \ {cur}
  BY <1>6, RemoveLemma
<1> HIDE DEF given
<1>12. ToSet(rest) \cap ToSet(last) = {}
  BY <1>6, <1>8, <1>10
<1>13. /\ left \in Seq(Threads) /\ NoDup(left) /\ Len(left) = Len(rest) + Len(last)
       /\ ToSet(left) = ToSet(rest) \cup ToSet(last)
  BY <1>6, <1>10, <1>12, ConcatLemma
<1> HIDE DEF left
<1>14. ToSet(given) \cap ToSet(left) = {}
  BY <1>6, <1>10, <1>11, <1>13
<1>15. ToSet(given) \cup ToSet(left) = ToSet(s)
  BY <1>6, <1>8, <1>10, <1>11, <1>13
<1>16. Len(seen) \in Nat /\ Len(seen) <= send /\ send - Len(seen) <= Len(left)
  BY <1>1, <1>4, <1>6, <1>10, <1>13
<1>17. cur \notin ToSet(given)
  BY <1>11
<1>18. QED
  BY <1>11, <1>13, <1>14, <1>15, <1>16, <1>17
     DEF given, left, rest, last, seen, n0, skips, upto

(* Victims are given to another processor.                                 *)
LEMMA GiveStep ==
  ASSUME PlaceInv, NEW c \in CPUs, migration_give(c)
  PROVE  PlaceInv'
<1> DEFINE m == mig[c]
           d == m.i
           room == OneShare(c) - Len(c_runqueue[d])
           upto(n) == SubSeq(m.victims, 1, Min({n, m.send}))
           skips == \E i \in DOMAIN upto(room) : upto(room)[i] = curthread[c]
           seen == upto(IF skips THEN room + 1 ELSE room)
           given == RemoveFirst(seen, curthread[c])
           left == SubSeq(m.victims, Len(seen) + 1, Len(m.victims))
                     \o (IF skips THEN <<curthread[c]>> ELSE <<>>)
<1>1. /\ SwitchTypes /\ Victims \in [CPUs -> Seq(Threads)]
      /\ Victims[c] = m.victims
      /\ Agree(curthread, c_isidle, c_runqueue, Victims, c_zombies, t_state, pc, t_cpu)
  BY PlaceTypes
<1>2. mig \in [CPUs -> Migrations] /\ m \in Migrations
  BY DEF PlaceInv, Types
<1>3. /\ cpu[c] = "mig_give" /\ d < NumCpus
      /\ mig' = [mig EXCEPT ![c].i = NextCpu(c, d + 1), ![c].send = m.send - Len(seen),
                            ![c].victims = left]
      /\ c_runqueue' = [c_runqueue EXCEPT ![d] = @ \o given]
      /\ t_cpu' = [t \in Threads |-> IF t \in ToSet(given) THEN d ELSE t_cpu[t]]
      /\ c_ipi_pending' = [c_ipi_pending EXCEPT ![d] = @ \/ (given # <<>> /\ c_isidle[d])]
      /\ UNCHANGED <<curthread, c_isidle, c_zombies, t_state, countvars, localvars, cpu>>
  BY <1>2 DEF migration_give
<1>4. d # c /\ m.send <= Len(m.victims)
  BY <1>3 DEF PlaceInv, CpuInv
<1>5. /\ d \in CPUs /\ d \in Nat /\ c \in Nat /\ c < NumCpus /\ NumCpus \in Nat
      /\ m.victims \in Seq(Threads) /\ m.send \in Nat
      /\ curthread[c] \in Threads /\ c_runqueue[d] \in Seq(Threads)
  <2>1. d \in 0 .. NumCpus /\ m.victims \in Seq(Threads) /\ m.send \in Nat
    BY <1>2 DEF Migrations
  <2>2. d < NumCpus
    BY <1>3
  <2>3. d \in CPUs /\ d \in Nat /\ c \in Nat /\ c < NumCpus /\ NumCpus \in Nat
    BY <2>1, <2>2, Constants
  <2>4. QED
    BY <1>1, <2>1, <2>3 DEF SwitchTypes
<1>6. room \in Int
  <2>1. OneShare(c) \in Nat /\ Len(c_runqueue[d]) \in Nat
    BY <1>5, ShareLemma
  <2>2. \A a, b \in Nat : a - b \in Int
    OBVIOUS
  <2>3. QED
    BY <2>1, <2>2, Zenon
<1>7. NoDup(m.victims)
  BY <1>1 DEF Agree, QueuesAgree
<1> HIDE DEF room, m, d
<1>8. /\ given \in Seq(Threads) /\ left \in Seq(Threads)
      /\ NoDup(given) /\ NoDup(left)
      /\ ToSet(given) \cap ToSet(left) = {}
      /\ ToSet(given) \cup ToSet(left) = ToSet(m.victims)
      /\ curthread[c] \notin ToSet(given)
      /\ Len(seen) \in Nat /\ Len(seen) <= m.send
      /\ m.send - Len(seen) <= Len(left)
  BY <1>4, <1>5, <1>6, <1>7, PassOverLemma
<1> HIDE DEF upto, skips, seen, given, left
<1>9. /\ NextCpu(c, d + 1) \in 0 .. NumCpus /\ NextCpu(c, d + 1) # c
      /\ m.send - Len(seen) \in Nat
  <2>1. d < NumCpus
    BY <1>3
  <2>2. NextCpu(c, d + 1) \in 0 .. NumCpus /\ NextCpu(c, d + 1) # c
    BY <1>5, <2>1 DEF NextCpu
  <2>3. QED
    BY <1>5, <1>8, <2>2
<1>10. /\ mig'[c].i = NextCpu(c, d + 1) /\ mig'[c].send = m.send - Len(seen)
       /\ mig'[c].victims = left
       /\ \A e \in CPUs : e # c => mig'[e] = mig[e]
       /\ mig' \in [CPUs -> Migrations]
  BY <1>2, <1>3, <1>8, <1>9 DEF Migrations
<1>11. Victims' = [Victims EXCEPT ![c] = left]
  BY <1>10 DEF Victims
<1>12. /\ c_runqueue' \in [CPUs -> Seq(Threads)]
       /\ t_cpu' \in [Threads -> CPUs]
       /\ Agree(curthread, c_isidle, c_runqueue', [Victims EXCEPT ![c] = left], c_zombies,
                t_state, pc, t_cpu')
  BY <1>1, <1>3, <1>4, <1>5, <1>8, GiveLemma
<1>13. PlacesAgree'
  BY <1>3, <1>11, <1>12 DEF PlacesAgree, localvars
<1>14. ForkInv' /\ MenuInv' /\ SleepInv'
  BY <1>3 DEF PlaceInv, ForkInv, MenuInv, SleepInv, localvars, countvars
<1>15. /\ c_runqueue'[d] = c_runqueue[d] \o given
       /\ \A e \in CPUs : e # d => /\ c_runqueue'[e] = c_runqueue[e]
                                   /\ c_ipi_pending'[e] = c_ipi_pending[e]
       /\ c_ipi_pending'[d] = (c_ipi_pending[d] \/ (given # <<>> /\ c_isidle[d]))
       /\ c_ipi_pending' \in [CPUs -> BOOLEAN]
  BY <1>1, <1>3, <1>5 DEF SwitchTypes, PlaceInv, Types
<1>16. CpuInv'
  <2>1. SUFFICES ASSUME NEW e \in CPUs
                 PROVE  /\ cpu[e] = "thread" => ~ c_isidle[e]
                        /\ cpu[e] \in {"wait", "loop"} => c_isidle[e]
                        /\ cpu[e] \notin {"mig_count", "mig_give"} => mig'[e] = NoMigration
                        /\ cpu[e] = "mig_count" =>
                             /\ mig'[e].victims = <<>> /\ mig'[e].send = 0
                             /\ mig'[e].i <= e => mig'[e].my = 0
                             /\ mig'[e].my <= Len(c_runqueue'[e])
                        /\ cpu[e] = "mig_give" =>
                             mig'[e].i # e /\ mig'[e].send <= Len(mig'[e].victims)
    BY <1>3 DEF CpuInv, NoMigration
  <2>2. CASE e = c
    BY <1>3, <1>8, <1>9, <1>10, <2>2
  <2>3. CASE e # c
    <3>1. mig'[e] = mig[e] /\ mig[e].my \in Nat
      BY <1>2, <1>10, <2>3 DEF Migrations
    <3>2. mig[e].my <= Len(c_runqueue[e]) => mig[e].my <= Len(c_runqueue'[e])
      <4>1. CASE e = d
        <5>1. Len(c_runqueue'[d]) = Len(c_runqueue[d]) + Len(given)
          BY <1>5, <1>8, <1>15, ConcatLemma
        <5>2. Len(c_runqueue[d]) \in Nat /\ Len(given) \in Nat
          BY <1>5, <1>8
        <5>3. QED
          BY <3>1, <4>1, <5>1, <5>2
      <4>2. CASE e # d
        BY <1>15, <4>2
      <4>3. QED
        BY <4>1, <4>2
    <3>3. QED
      BY <3>1, <3>2 DEF PlaceInv, CpuInv
  <2>4. QED
    BY <2>2, <2>3
<1>17. IdleIsTold'
  <2>1. SUFFICES ASSUME NEW e \in CPUs, cpu[e] = "wait", c_runqueue'[e] # <<>>
                 PROVE  c_ipi_pending'[e]
    BY <1>3 DEF IdleIsTold
  <2>2. c_isidle[e] /\ (c_runqueue[e] # <<>> => c_ipi_pending[e])
    BY <2>1 DEF PlaceInv, CpuInv, IdleIsTold
  <2>3. CASE e # d
    BY <1>15, <2>1, <2>2, <2>3
  <2>4. CASE e = d /\ given # <<>>
    BY <1>15, <2>2, <2>4
  <2>5. CASE e = d /\ given = <<>>
    <3>1. c_runqueue'[e] = c_runqueue[e]
      BY <1>5, <1>15, <2>5
    <3>2. QED
      BY <1>15, <2>1, <2>2, <2>5, <3>1
  <2>6. QED
    BY <2>3, <2>4, <2>5
<1>18. Types'
  BY <1>3, <1>10, <1>12, <1>15 DEF PlaceInv, Types, localvars, countvars
<1>19. QED
  BY <1>13, <1>14, <1>16, <1>17, <1>18 DEF PlaceInv

----------------------------------------------------------------------------
(* Every step.                                                             *)

LEMMA PlaceInit == Init => PlaceInv
<1> SUFFICES ASSUME Init PROVE PlaceInv
  OBVIOUS
<1> DEFINE first == Range(FirstThread)
<1>1. /\ FirstThread \in [CPUs -> Threads] /\ FirstThread[0] = Menu
      /\ \A c, d \in CPUs : FirstThread[c] = FirstThread[d] => c = d
  BY SchedConstants
<1>2. /\ first \subseteq Threads
      /\ \A c \in CPUs : FirstThread[c] \in first
      /\ \A t \in first : \E c \in CPUs : FirstThread[c] = t
      /\ Menu \in first
  BY <1>1, Constants DEF Range
<1> HIDE DEF first
<1>3. NoMigration \in Migrations /\ NoMigration.victims = <<>>
  BY EmptyLemma, Constants DEF NoMigration, Migrations
<1>4. /\ t_cpu \in [Threads -> CPUs]
      /\ \A t \in first : FirstThread[t_cpu[t]] = t
  <2>1. \A t \in first : /\ (CHOOSE c \in CPUs : FirstThread[c] = t) \in CPUs
                         /\ FirstThread[CHOOSE c \in CPUs : FirstThread[c] = t] = t
    BY <1>2
  <2>2. t_cpu = [t \in Threads |-> IF t \in first
                                     THEN CHOOSE c \in CPUs : FirstThread[c] = t
                                     ELSE 0]
    BY DEF Init, first
  <2>3. QED
    BY <1>2, <2>1, <2>2, Constants
<1>5. /\ t_state = [t \in Threads |-> IF t \in first THEN "S_RUN" ELSE "S_ZOMBIE"]
      /\ pc = [t \in Threads |-> IF t = Menu THEN "start_cpus"
                                 ELSE IF t \in first THEN "hatch" ELSE "none"]
  BY DEF Init, first
<1>6. /\ t_state \in [Threads -> States] /\ pc \in [Threads -> Locations]
      /\ \A t \in first : t_state[t] = "S_RUN" /\ pc[t] \in {"start_cpus", "hatch"}
      /\ \A t \in Threads : t \notin first => t_state[t] = "S_ZOMBIE" /\ pc[t] = "none"
      /\ pc[Menu] = "start_cpus"
      /\ \A t \in Threads : t # Menu => pc[t] # "start_cpus"
  BY <1>2, <1>5, Constants DEF States, Locations
<1>7. /\ curthread = FirstThread
      /\ c_isidle = [c \in CPUs |-> FALSE]
      /\ c_runqueue = [c \in CPUs |-> <<>>]
      /\ c_zombies = [c \in CPUs |-> {}]
      /\ c_ipi_pending = [c \in CPUs |-> FALSE]
      /\ cpu = [c \in CPUs |-> "thread"]
      /\ mig = [c \in CPUs |-> NoMigration]
      /\ newthread = [t \in Threads |-> NULL]
      /\ waking = <<>> /\ count_wchan = <<>> /\ count_lock = NULL
      /\ thread_count = 0 /\ tc = 0
  BY DEF Init
<1>8. Types
  BY <1>1, <1>3, <1>4, <1>6, <1>7, EmptyLemma DEF Types, Doings
<1>9. PlacesAgree
  <2>1. \A c \in CPUs : c_runqueue[c] = <<>> /\ Victims[c] = <<>> /\ c_zombies[c] = {}
    BY <1>3, <1>7 DEF Victims
  <2>2. RunAgrees(curthread, c_isidle, t_state, pc, t_cpu)
    <3>1. ASSUME NEW c \in CPUs
          PROVE  t_cpu[curthread[c]] = c /\ curthread[c] \in first
      BY <1>1, <1>2, <1>4, <1>7
    <3>2. QED
      BY <1>4, <1>6, <1>7, <3>1 DEF RunAgrees
  <2>3. StateAgrees(t_state, pc)
    BY <1>6 DEF StateAgrees
  <2>4. QueuesAgree(c_runqueue, Victims, t_state, pc, t_cpu)
    BY <1>6, <2>1, EmptyLemma DEF QueuesAgree
  <2>5. ZombiesAgree(c_zombies, pc, t_cpu)
    BY <1>6, <2>1 DEF ZombiesAgree
  <2>6. QED
    BY <2>2, <2>3, <2>4, <2>5 DEF PlacesAgree, Agree
<1>10. ForkInv /\ MenuInv
  BY <1>6, <1>7, Constants DEF ForkInv, MenuInv
<1>11. SleepInv
  BY <1>6, <1>7, Constants DEF SleepInv
<1>12. CpuInv /\ IdleIsTold
  BY <1>7 DEF CpuInv, IdleIsTold
<1>13. QED
  BY <1>8, <1>9, <1>10, <1>11, <1>12 DEF PlaceInv

(* A panic moves nothing.                                                  *)
LEMMA NextSteps == [Next]_vars => Step \/ UNCHANGED stepvars
BY DEF Next, vars, thread_exit_kproc

LEMMA PlaceNext == PlaceInv /\ [Next]_vars => PlaceInv'
<1> SUFFICES ASSUME PlaceInv, Step \/ UNCHANGED stepvars PROVE PlaceInv'
  BY NextSteps
<1>1. ASSUME NEW c \in CPUs, Handler(c) \/ hardclock(c) PROVE PlaceInv'
  BY <1>1, UnidleStep, InterruptStep, CountQueueStep, TakeStep, GiveStep, PutStep,
     HardclockStep DEF Handler
<1>2. ASSUME NEW t \in Threads, Run(t) PROVE PlaceInv'
  BY <1>2, HatchStep, StartCpusStep, ForkCountStep, WakeallNextStep, WakeallDoneStep,
     ForkRunStep, ExitCountStep, ExitSwitchStep, ExitStep, WaitDoneStep, WaitSleepStep
     DEF Run
<1>3. ASSUME NEW t \in Threads, Call(t) PROVE PlaceInv'
  BY <1>3, ForkStep, ExitStep, YieldStep DEF Call
<1>4. CASE UNCHANGED stepvars
  <2>1. /\ UNCHANGED <<curthread, c_isidle, c_runqueue, c_zombies, c_ipi_pending>>
        /\ UNCHANGED <<t_cpu, t_state, pc, newthread, waking, mig, cpu>>
        /\ UNCHANGED <<thread_count, count_lock, count_wchan, tc>>
    BY <1>4 DEF stepvars, cpuvars, threadvars, countvars, localvars
  <2>2. Types'
    BY <2>1 DEF PlaceInv, Types
  <2>3. PlacesAgree' /\ ForkInv' /\ MenuInv' /\ SleepInv'
    BY <2>1, ProcessorFrame, VictimsFrame DEF threadvars, countvars, localvars
  <2>4. CpuInv' /\ IdleIsTold'
    BY <2>1 DEF PlaceInv, CpuInv, IdleIsTold
  <2>5. QED
    BY <2>2, <2>3, <2>4 DEF PlaceInv
<1>5. QED
  BY <1>1, <1>2, <1>3, <1>4 DEF Step

LEMMA PlaceAlways == Spec => []PlaceInv
<1>1. QED
  BY PlaceInit, PlaceNext, PTL DEF Spec

----------------------------------------------------------------------------
(* One place.                                                              *)

(* Where t is on the lists f of the processors, under the name n.          *)
Spots(n, f, t) ==
  UNION {{<<n, c, i>> : i \in {j \in DOMAIN f[c] : f[c][j] = t}} : c \in CPUs}

(* A thread on none of the lists has no spot there.                        *)
LEMMA NoSpot ==
  ASSUME NEW f \in [CPUs -> Seq(Threads)], NEW t \in Threads, NEW n,
         \A c \in CPUs : t \notin ToSet(f[c])
  PROVE  Spots(n, f, t) = {}
<1>1. \A c \in CPUs : {j \in DOMAIN f[c] : f[c][j] = t} = {}
  BY DEF ToSet
<1>2. \A c \in CPUs : {<<n, c, i>> : i \in {j \in DOMAIN f[c] : f[c][j] = t}} = {}
  BY <1>1
<1>3. QED
  BY <1>2 DEF Spots

(* A thread once on one of them has one.                                   *)
LEMMA OneSpot ==
  ASSUME NEW f \in [CPUs -> Seq(Threads)], NEW t \in Threads, NEW n,
         NEW e \in CPUs, NoDup(f[e]), t \in ToSet(f[e]),
         \A c \in CPUs : t \in ToSet(f[c]) => c = e
  PROVE  \E x : Spots(n, f, t) = {x}
<1>1. PICK k \in DOMAIN f[e] : f[e][k] = t
  BY DEF ToSet
<1>2. \A j \in DOMAIN f[e] : f[e][j] = t <=> j = k
  BY <1>1 DEF NoDup
<1>3. {<<n, e, i>> : i \in {j \in DOMAIN f[e] : f[e][j] = t}} = {<<n, e, k>>}
  BY <1>2
<1>4. ASSUME NEW c \in CPUs, c # e
      PROVE  {<<n, c, i>> : i \in {j \in DOMAIN f[c] : f[c][j] = t}} = {}
  BY <1>4 DEF ToSet
<1>5. Spots(n, f, t) = {<<n, e, k>>}
  BY <1>3, <1>4 DEF Spots
<1>6. QED
  BY <1>5

(* Where t is, place by place.                                             *)
LEMMA PlacesSplit ==
  ASSUME PlaceInv, NEW t \in Threads
  PROVE  Places(t) =
           {<<"run", c>> : c \in {d \in CPUs : curthread[d] = t /\ ~ c_isidle[d]}}
           \cup Spots("queue", c_runqueue, t)
           \cup Spots("victim", Victims, t)
           \cup {<<"wchan", i>> : i \in {j \in DOMAIN count_wchan : count_wchan[j] = t}}
           \cup {<<"waking", i>> : i \in {j \in DOMAIN waking : waking[j] = t}}
           \cup {<<"zombie", c>> : c \in {d \in CPUs : t \in c_zombies[d]}}
           \cup {<<"new", u>> : u \in {v \in Threads : newthread[v] = t}}
<1> DEFINE R == {<<"run", c>> : c \in {d \in CPUs : curthread[d] = t /\ ~ c_isidle[d]}}
           Q == UNION {{<<"queue", c, i>> :
                          i \in {j \in DOMAIN c_runqueue[c] : c_runqueue[c][j] = t}} : c \in CPUs}
           V == UNION {{<<"victim", c, i>> :
                          i \in {j \in DOMAIN mig[c].victims : mig[c].victims[j] = t}} : c \in CPUs}
           W == {<<"wchan", i>> : i \in {j \in DOMAIN count_wchan : count_wchan[j] = t}}
           K == {<<"waking", i>> : i \in {j \in DOMAIN waking : waking[j] = t}}
           Z == {<<"zombie", c>> : c \in {d \in CPUs : t \in c_zombies[d]}}
           N == {<<"new", u>> : u \in {v \in Threads : newthread[v] = t}}
<1>1. Spots("victim", Victims, t) = V
  BY DEF Spots, Victims
<1>2. Spots("queue", c_runqueue, t) = Q
  BY DEF Spots
<1>3. Places(t) = R \cup Q \cup V \cup W \cup K \cup Z \cup N
  BY DEF Places
<1> HIDE DEF Q, V
<1>4. QED
  BY <1>1, <1>2, <1>3

(* A thread is in one place, or nowhere once it has been freed.            *)
LEMMA PlaceOfThread ==
  ASSUME PlaceInv, NEW t \in Threads
  PROVE  IF pc[t] = "none" THEN Places(t) = {} ELSE \E x : Places(t) = {x}
<1> DEFINE R == {<<"run", c>> : c \in {d \in CPUs : curthread[d] = t /\ ~ c_isidle[d]}}
           Q == Spots("queue", c_runqueue, t)
           V == Spots("victim", Victims, t)
           W == {<<"wchan", i>> : i \in {j \in DOMAIN count_wchan : count_wchan[j] = t}}
           K == {<<"waking", i>> : i \in {j \in DOMAIN waking : waking[j] = t}}
           Z == {<<"zombie", c>> : c \in {d \in CPUs : t \in c_zombies[d]}}
           N == {<<"new", u>> : u \in {v \in Threads : newthread[v] = t}}
<1>1. Places(t) = R \cup Q \cup V \cup W \cup K \cup Z \cup N
  BY PlacesSplit
<1>2. /\ c_runqueue \in [CPUs -> Seq(Threads)] /\ Victims \in [CPUs -> Seq(Threads)]
      /\ RunAgrees(curthread, c_isidle, t_state, pc, t_cpu)
      /\ StateAgrees(t_state, pc)
      /\ QueuesAgree(c_runqueue, Victims, t_state, pc, t_cpu)
      /\ ZombiesAgree(c_zombies, pc, t_cpu)
      /\ t_cpu[t] \in CPUs /\ t_state[t] \in States
  BY PlaceTypes DEF Agree, SwitchTypes
<1>3. IF t_state[t] = "S_RUN" THEN \E x : R = {x} ELSE R = {}
  <2>1. \A d \in CPUs : curthread[d] = t /\ ~ c_isidle[d] <=> t_state[t] = "S_RUN" /\ d = t_cpu[t]
    BY <1>2 DEF RunAgrees
  <2>2. CASE t_state[t] = "S_RUN"
    <3>1. {d \in CPUs : curthread[d] = t /\ ~ c_isidle[d]} = {t_cpu[t]}
      BY <1>2, <2>1, <2>2
    <3>2. R = {<<"run", t_cpu[t]>>}
      BY <3>1
    <3>3. QED
      BY <2>2, <3>2
  <2>3. CASE t_state[t] # "S_RUN"
    BY <2>1, <2>3
  <2>4. QED
    BY <2>2, <2>3
<1>4. IF t_state[t] = "S_READY" /\ pc[t] # "new"
        THEN (Q = {} /\ \E x : V = {x}) \/ (V = {} /\ \E x : Q = {x})
        ELSE Q = {} /\ V = {}
  <2>1. \A c \in CPUs :
          /\ NoDup(c_runqueue[c]) /\ NoDup(Victims[c])
          /\ ~ (t \in ToSet(c_runqueue[c]) /\ t \in ToSet(Victims[c]))
          /\ t \in ToSet(c_runqueue[c]) \/ t \in ToSet(Victims[c])
               <=> t_state[t] = "S_READY" /\ pc[t] # "new" /\ t_cpu[t] = c
    BY <1>2 DEF QueuesAgree
  <2>2. CASE ~ (t_state[t] = "S_READY" /\ pc[t] # "new")
    BY <1>2, <2>1, <2>2, NoSpot
  <2>3. CASE t_state[t] = "S_READY" /\ pc[t] # "new"
    <3> DEFINE e == t_cpu[t]
    <3>1. e \in CPUs
      BY <1>2
    <3>2. CASE t \in ToSet(c_runqueue[e])
      <4>1. /\ \A c \in CPUs : t \notin ToSet(Victims[c])
            /\ \A c \in CPUs : t \in ToSet(c_runqueue[c]) => c = e
        BY <2>1, <3>2
      <4>2. NoDup(c_runqueue[e])
        BY <2>1, <3>1
      <4> HIDE DEF e
      <4>3. \E x : Q = {x}
        <5>1. c_runqueue \in [CPUs -> Seq(Threads)]
          BY <1>2
        <5>2. \E x : Spots("queue", c_runqueue, t) = {x}
          BY <3>1, <3>2, <4>1, <4>2, <5>1, OneSpot
        <5>3. QED
          BY <5>2
      <4>4. V = {}
        BY <1>2, <4>1, NoSpot
      <4>5. QED
        BY <2>3, <4>3, <4>4
    <3>3. CASE t \notin ToSet(c_runqueue[e])
      <4>1. /\ \A c \in CPUs : t \notin ToSet(c_runqueue[c])
            /\ \A c \in CPUs : t \in ToSet(Victims[c]) => c = e
            /\ t \in ToSet(Victims[e])
        BY <2>1, <2>3, <3>1, <3>3
      <4>2. NoDup(Victims[e])
        BY <2>1, <3>1
      <4> HIDE DEF e
      <4>3. \E x : V = {x}
        <5>1. Victims \in [CPUs -> Seq(Threads)]
          BY <1>2
        <5>2. \E x : Spots("victim", Victims, t) = {x}
          BY <3>1, <4>1, <4>2, <5>1, OneSpot
        <5>3. QED
          BY <5>2
      <4>4. Q = {}
        BY <1>2, <4>1, NoSpot
      <4>5. QED
        BY <2>3, <4>3, <4>4
    <3>4. QED
      BY <3>2, <3>3
  <2>4. QED
    BY <2>2, <2>3
<1>5. IF t_state[t] = "S_SLEEP"
        THEN (W = {} /\ \E x : K = {x}) \/ (K = {} /\ \E x : W = {x})
        ELSE W = {} /\ K = {}
  <2>1. /\ waking \in {<<>>, <<Menu>>} /\ count_wchan \in {<<>>, <<Menu>>} /\ SleepInv
    BY DEF PlaceInv, Types
  <2>2. /\ {j \in DOMAIN <<>> : <<>>[j] = t} = {}
        /\ t = Menu => {j \in DOMAIN <<Menu>> : <<Menu>>[j] = t} = {1}
        /\ t # Menu => {j \in DOMAIN <<Menu>> : <<Menu>>[j] = t} = {}
    OBVIOUS
  <2>3. /\ waking = <<>> => K = {}
        /\ waking # <<>> => K = IF t = Menu THEN {<<"waking", 1>>} ELSE {}
    BY <2>1, <2>2
  <2>4. /\ count_wchan = <<>> => W = {}
        /\ count_wchan # <<>> => W = IF t = Menu THEN {<<"wchan", 1>>} ELSE {}
    BY <2>1, <2>2
  <2> HIDE DEF W, K
  <2>5. CASE t # Menu
    <3>1. t_state[t] # "S_SLEEP"
      BY <2>1, <2>5 DEF SleepInv
    <3>2. QED
      BY <2>3, <2>4, <2>5, <3>1
  <2>6. CASE t = Menu
    BY <2>1, <2>3, <2>4, <2>6 DEF SleepInv
  <2>7. QED
    BY <2>5, <2>6
<1>6. IF pc[t] = "zombie" THEN \E x : Z = {x} ELSE Z = {}
  <2>1. \A d \in CPUs : t \in c_zombies[d] <=> pc[t] = "zombie" /\ d = t_cpu[t]
    BY <1>2 DEF ZombiesAgree
  <2>2. CASE pc[t] = "zombie"
    <3>1. {d \in CPUs : t \in c_zombies[d]} = {t_cpu[t]}
      BY <1>2, <2>1, <2>2
    <3>2. Z = {<<"zombie", t_cpu[t]>>}
      BY <3>1
    <3>3. QED
      BY <2>2, <3>2
  <2>3. CASE pc[t] # "zombie"
    BY <2>1, <2>3
  <2>4. QED
    BY <2>2, <2>3
<1>7. IF pc[t] = "new" THEN \E x : N = {x} ELSE N = {}
  <2>1. ForkInv
    BY DEF PlaceInv
  <2>2. CASE pc[t] = "new"
    <3>1. PICK u \in Threads : newthread[u] = t
      BY <2>1, <2>2 DEF ForkInv
    <3>2. {v \in Threads : newthread[v] = t} = {u}
      BY <2>1, <3>1, Constants DEF ForkInv
    <3>3. N = {<<"new", u>>}
      BY <3>2
    <3>4. QED
      BY <2>2, <3>3
  <2>3. CASE pc[t] # "new"
    <3>1. {v \in Threads : newthread[v] = t} = {}
      BY <2>1, <2>3, Constants DEF ForkInv
    <3>2. QED
      BY <2>3, <3>1
  <2>4. QED
    BY <2>2, <2>3
<1> HIDE DEF R, Q, V, W, K, Z, N
<1>8. /\ t_state[t] \in {"S_RUN", "S_READY", "S_SLEEP", "S_ZOMBIE"}
      /\ t_state[t] = "S_ZOMBIE" <=> pc[t] \in {"zombie", "none"}
      /\ pc[t] = "new" => t_state[t] = "S_READY"
  BY <1>2 DEF StateAgrees, States
<1>9. CASE t_state[t] = "S_RUN"
  BY <1>1, <1>3, <1>4, <1>5, <1>6, <1>7, <1>8, <1>9
<1>10. CASE t_state[t] = "S_READY"
  <2>1. R = {} /\ W = {} /\ K = {} /\ Z = {} /\ pc[t] # "none"
    BY <1>3, <1>5, <1>6, <1>8, <1>10
  <2>2. CASE pc[t] = "new"
    BY <1>1, <1>4, <1>7, <2>1, <2>2
  <2>3. CASE pc[t] # "new"
    <3>1. N = {}
      BY <1>7, <2>3
    <3>2. \/ Q = {} /\ \E x : V = {x}
          \/ V = {} /\ \E x : Q = {x}
      BY <1>4, <1>10, <2>3
    <3>3. QED
      BY <1>1, <2>1, <3>1, <3>2
  <2>4. QED
    BY <2>2, <2>3
<1>11. CASE t_state[t] = "S_SLEEP"
  <2>1. R = {} /\ Q = {} /\ V = {} /\ Z = {} /\ N = {} /\ pc[t] # "none"
    BY <1>3, <1>4, <1>6, <1>7, <1>8, <1>11
  <2>2. \/ W = {} /\ \E x : K = {x}
        \/ K = {} /\ \E x : W = {x}
    BY <1>5, <1>11
  <2>3. QED
    BY <1>1, <2>1, <2>2
<1>12. CASE t_state[t] = "S_ZOMBIE"
  <2>1. R = {} /\ Q = {} /\ V = {} /\ W = {} /\ K = {} /\ N = {}
    BY <1>3, <1>4, <1>5, <1>7, <1>8, <1>12
  <2>2. QED
    BY <1>1, <1>6, <1>8, <1>12, <2>1
<1>13. QED
  BY <1>8, <1>9, <1>10, <1>11, <1>12

LEMMA PlacesFollow ==
  ASSUME PlaceInv
  PROVE  OnePlace /\ StackPrivate /\ StateFitsPlace /\ VictimsAreThere /\ IdleIsTold
<1>1. OnePlace
  <2>1. SUFFICES ASSUME NEW t \in Threads
                 PROVE  Cardinality(Places(t)) = IF pc[t] = "none" THEN 0 ELSE 1
    BY DEF OnePlace
  <2>2. CASE pc[t] = "none"
    <3>1. Places(t) = {}
      BY <2>2, PlaceOfThread
    <3>2. QED
      BY <2>2, <3>1, FS_EmptySet
  <2>3. CASE pc[t] # "none"
    <3>1. PICK x : Places(t) = {x}
      BY <2>3, PlaceOfThread
    <3>2. QED
      BY <2>3, <3>1, FS_Singleton
  <2>4. QED
    BY <2>2, <2>3
<1>2. /\ RunAgrees(curthread, c_isidle, t_state, pc, t_cpu)
      /\ StateAgrees(t_state, pc)
      /\ QueuesAgree(c_runqueue, Victims, t_state, pc, t_cpu)
      /\ ZombiesAgree(c_zombies, pc, t_cpu)
      /\ SwitchTypes
  BY PlaceTypes DEF Agree
<1>3. StackPrivate
  BY <1>2 DEF StackPrivate, RunAgrees
<1>4. StateFitsPlace
  <2>1. ASSUME NEW c \in CPUs
        PROVE  /\ t_cpu[curthread[c]] = c
               /\ ~ c_isidle[c] => t_state[curthread[c]] = "S_RUN"
               /\ \A t \in ToSet(c_runqueue[c]) : t_cpu[t] = c /\ t_state[t] = "S_READY"
               /\ \A t \in c_zombies[c] : t_state[t] = "S_ZOMBIE"
    <3>1. ToSet(c_runqueue[c]) \subseteq Threads /\ c_zombies[c] \subseteq Threads
      BY <1>2, ListLemma DEF SwitchTypes
    <3>2. QED
      BY <1>2, <3>1 DEF RunAgrees, QueuesAgree, ZombiesAgree, StateAgrees
  <2>2. \A t \in ToSet(count_wchan) \cup ToSet(waking) : t_state[t] = "S_SLEEP"
    <3>1. waking \in {<<>>, <<Menu>>} /\ count_wchan \in {<<>>, <<Menu>>} /\ SleepInv
      BY DEF PlaceInv, Types
    <3>2. ToSet(<<>>) = {} /\ ToSet(<<Menu>>) = {Menu}
      BY DEF ToSet
    <3>3. count_wchan = <<>> => ToSet(count_wchan) = {}
      BY <3>2
    <3>4. waking = <<>> => ToSet(waking) = {}
      BY <3>2
    <3>5. ToSet(count_wchan) \subseteq {Menu} /\ ToSet(waking) \subseteq {Menu}
      BY <3>1, <3>2
    <3>6. QED
      BY <3>1, <3>3, <3>4, <3>5 DEF SleepInv
  <2>3. QED
    BY <2>1, <2>2 DEF StateFitsPlace
<1>5. VictimsAreThere
  <2>1. SUFFICES ASSUME NEW c \in CPUs, cpu[c] = "mig_count"
                 PROVE  Len(c_runqueue[c]) >= mig[c].my
    BY DEF VictimsAreThere
  <2>2. c_runqueue[c] \in Seq(Threads) /\ mig[c].my \in Nat
    BY DEF PlaceInv, Types, Migrations
  <2>3. Len(c_runqueue[c]) \in Nat /\ mig[c].my <= Len(c_runqueue[c])
    BY <2>1, <2>2 DEF PlaceInv, CpuInv
  <2>4. QED
    BY <2>2, <2>3
<1>6. QED
  BY <1>1, <1>3, <1>4, <1>5 DEF PlaceInv

(* thread_make_runnable and thread_consider_migration never leave an idle  *)
(* processor with work and no interrupt to tell it.                        *)
THEOREM IdleProcessorsTold == Spec => []IdleIsTold
<1>1. PlaceInv => IdleIsTold
  BY PlacesFollow
<1>2. QED
  BY <1>1, PlaceAlways, PTL

(* What thread_consider_migration has counted is still on its queue when   *)
(* it takes victims, though the locks were released in between.            *)
THEOREM VictimsStay == Spec => []VictimsAreThere
<1>1. PlaceInv => VictimsAreThere
  BY PlacesFollow
<1>2. QED
  BY <1>1, PlaceAlways, PTL

----------------------------------------------------------------------------
(* Counting.                                                               *)

(* t is a thread thread_count stands for: from where its creator counts it *)
(* to where it counts itself out.                                          *)
Counts(t) ==
  \/ pc[t] \in {"work", "fork_count", "exit_count"}
  \/ pc[t] \in {"wakeall", "fork_run"} /\ newthread[t] # NULL
  \/ pc[t] = "new" /\ \E u \in Threads : newthread[u] = t /\ pc[u] # "fork_count"

Counted == {t \in Threads \ {Menu} : Counts(t)}

(* Before thread_start_cpus there are the menu and the threads of          *)
(* cpu_hatch, and nobody is counted; after it those threads have hatched   *)
(* and can only panic, and thread_count is the menu and the counted.  The  *)
(* menu forks alone.                                                       *)
CountInv ==
  /\ pc[Menu] = "start_cpus" =>
       /\ thread_count = 0
       /\ \A t \in Threads \ {Menu} : pc[t] \in {"hatch", "exit", "none"}
       /\ \A t \in Threads : t \notin Range(FirstThread) => pc[t] = "none"
  /\ pc[Menu] # "start_cpus" =>
       /\ thread_count = 1 + Cardinality(Counted)
       /\ \A t \in Threads \ {Menu} : pc[t] # "hatch"
  /\ pc[Menu] = "work" => Counted = {}
  /\ pc[Menu] \in {"fork_count", "wakeall", "fork_run", "wait_count"} => tc = 1

(* The counted are finitely many.                                          *)
LEMMA CountedFinite ==
  /\ IsFiniteSet(Counted) /\ Cardinality(Counted) \in Nat
  /\ Cardinality(Counted) = 0 <=> Counted = {}
<1>1. Counted \subseteq Threads /\ IsFiniteSet(Threads)
  BY SchedConstants DEF Counted
<1>2. QED
  BY <1>1, FS_Subset, FS_CardinalityType, FS_EmptySet

LEMMA SameCounted ==
  ASSUME \A t \in Threads \ {Menu} : Counts(t)' <=> Counts(t)
  PROVE  Counted' = Counted
BY DEF Counted

(* What the steps that do not fork, exit or wait do to the threads: one    *)
(* may die, and zombies are freed.                                         *)
Bystands ==
  /\ UNCHANGED <<thread_count, tc, newthread>>
  /\ \A t \in Threads : pc'[t] = pc[t] \/ Dies(t)

LEMMA BystandCounts ==
  ASSUME PlaceInv, CountInv, Bystands
  PROVE  CountInv' /\ pc'[Menu] = pc[Menu]
<1>1. /\ pc'[Menu] = pc[Menu] /\ Menu \in Threads
      /\ UNCHANGED <<thread_count, tc, newthread>>
  BY Constants DEF Bystands, Dies, PlaceInv, MenuInv
<1>2. \A t \in Threads : /\ pc'[t] = pc[t] \/ Dies(t)
                         /\ pc[t] = "none" => pc'[t] = "none"
  BY DEF Bystands, Dies
<1>3. Counted' = Counted
  <2>1. ASSUME NEW t \in Threads
        PROVE  Counts(t)' <=> Counts(t)
    <3>1. \A u \in Threads : pc'[u] # "fork_count" <=> pc[u] # "fork_count"
      BY <1>2 DEF Dies
    <3>2. /\ pc'[t] = "new" <=> pc[t] = "new"
          /\ pc'[t] \in {"work", "fork_count", "exit_count"}
               <=> pc[t] \in {"work", "fork_count", "exit_count"}
          /\ pc'[t] \in {"wakeall", "fork_run"} <=> pc[t] \in {"wakeall", "fork_run"}
      BY <1>2 DEF Dies
    <3>3. QED
      BY <1>1, <3>1, <3>2 DEF Counts
  <2>2. QED
    BY <2>1, SameCounted
<1>4. pc[Menu] = "start_cpus" =>
        /\ \A t \in Threads \ {Menu} : pc'[t] \in {"hatch", "exit", "none"}
        /\ \A t \in Threads : t \notin Range(FirstThread) => pc'[t] = "none"
  BY <1>2 DEF CountInv, Dies
<1>5. pc[Menu] # "start_cpus" => \A t \in Threads \ {Menu} : pc'[t] # "hatch"
  BY <1>2 DEF CountInv, Dies
<1>6. QED
  BY <1>1, <1>3, <1>4, <1>5 DEF CountInv

(* thread_switch is such a step.                                           *)
LEMMA SwitchBystands ==
  ASSUME PlaceInv, NEW c \in CPUs, NEW q, NEW z \in SUBSET Threads, NEW ts, NEW l,
         switch_to_next(c, q, z, ts, l), UNCHANGED <<countvars, newthread>>,
         \A t \in Threads : l[t] = pc[t] \/ (pc[t] = "exit_switch" /\ l[t] = "zombie"),
         \A t \in z : l[t] = "zombie"
  PROVE  Bystands
<1>1. \/ pc' = l
      \/ pc' = [t \in Threads |-> IF t \in z THEN "none" ELSE l[t]]
  BY DEF switch_to_next
<1>2. ASSUME NEW t \in Threads PROVE pc'[t] = pc[t] \/ Dies(t)
  BY <1>1 DEF Dies
<1>3. QED
  BY <1>2 DEF Bystands, countvars

LEMMA ZombiesAreDead ==
  ASSUME PlaceInv, NEW c \in CPUs
  PROVE  /\ c_zombies[c] \in SUBSET Threads
         /\ \A t \in c_zombies[c] : pc[t] = "zombie"
BY DEF PlaceInv, Types, PlacesAgree, Agree, ZombiesAgree

LEMMA YieldBystands ==
  ASSUME PlaceInv, NEW c \in CPUs, NEW q, thread_yield(c, q),
         UNCHANGED <<countvars, newthread>>
  PROVE  Bystands
<1>1. CASE pc' = pc
  BY <1>1 DEF Bystands, countvars
<1>2. CASE switch_to_next(c, Append(q, curthread[c]), c_zombies[c],
                          [t_state EXCEPT ![curthread[c]] = "S_READY"], pc)
  BY <1>2, ZombiesAreDead, SwitchBystands
<1>3. QED
  BY <1>1, <1>2 DEF thread_yield

(* So are the steps of the idle loop and of the interrupt handlers.        *)
LEMMA ProcessorBystands ==
  ASSUME PlaceInv, NEW c \in CPUs, Handler(c) \/ hardclock(c)
  PROVE  Bystands
<1>1. CASE unidle(c)
  BY <1>1, ZombiesAreDead, SwitchBystands DEF unidle
<1>2. CASE interprocessor_interrupt(c)
  BY <1>2 DEF interprocessor_interrupt, Bystands, countvars, localvars
<1>3. CASE migration_count(c)
  BY <1>3 DEF migration_count, Bystands, countvars, localvars
<1>4. CASE migration_take(c)
  <2>1. UNCHANGED <<countvars, newthread>>
    BY <1>4 DEF migration_take
  <2>2. thread_yield(c, c_runqueue[c]) \/ pc' = pc
    BY <1>4 DEF migration_take
  <2>3. QED
    BY <2>1, <2>2, YieldBystands DEF Bystands, countvars
<1>5. CASE migration_give(c)
  BY <1>5 DEF migration_give, Bystands, countvars, localvars
<1>6. CASE migration_put(c)
  BY <1>6, YieldBystands DEF migration_put
<1>7. CASE hardclock(c)
  <2>1. UNCHANGED <<countvars, newthread>>
    BY <1>7 DEF hardclock
  <2>2. thread_yield(c, c_runqueue[c]) \/ pc' = pc
    BY <1>7 DEF hardclock
  <2>3. QED
    BY <2>1, <2>2, YieldBystands DEF Bystands, countvars
<1>8. QED
  BY <1>1, <1>2, <1>3, <1>4, <1>5, <1>6, <1>7 DEF Handler

(* And of threads that yield, fall asleep, die or wake the menu.           *)
LEMMA ThreadBystands ==
  ASSUME PlaceInv, NEW t \in Threads,
         \/ yield(t) \/ wakeall_next(t) \/ exit_switch(t) \/ wait_count_sleep
  PROVE  Bystands
<1>1. CASE yield(t)
  BY <1>1, YieldBystands DEF yield
<1>2. CASE wakeall_next(t)
  BY <1>2 DEF wakeall_next, Bystands, countvars
<1>3. CASE exit_switch(t)
  <2>1. PICK c \in CPUs :
          /\ At(c, t, "exit_switch")
          /\ switch_to_next(c, c_runqueue[c], c_zombies[c] \cup {t},
                            [t_state EXCEPT ![t] = "S_ZOMBIE"], [pc EXCEPT ![t] = "zombie"])
    BY <1>3 DEF exit_switch
  <2>2. pc \in [Threads -> Locations] /\ pc[t] = "exit_switch"
    BY <2>1 DEF PlaceInv, Types, At
  <2>3. /\ \A u \in Threads :
             \/ [pc EXCEPT ![t] = "zombie"][u] = pc[u]
             \/ pc[u] = "exit_switch" /\ [pc EXCEPT ![t] = "zombie"][u] = "zombie"
        /\ c_zombies[c] \cup {t} \in SUBSET Threads
        /\ \A u \in c_zombies[c] \cup {t} : [pc EXCEPT ![t] = "zombie"][u] = "zombie"
    BY <2>2, ZombiesAreDead
  <2>4. UNCHANGED <<countvars, newthread>>
    BY <1>3 DEF exit_switch
  <2> DEFINE z == c_zombies[c] \cup {t}
             ts == [t_state EXCEPT ![t] = "S_ZOMBIE"]
             l == [pc EXCEPT ![t] = "zombie"]
  <2>5. /\ switch_to_next(c, c_runqueue[c], z, ts, l)
        /\ \A u \in Threads : l[u] = pc[u] \/ (pc[u] = "exit_switch" /\ l[u] = "zombie")
        /\ z \in SUBSET Threads /\ \A u \in z : l[u] = "zombie"
    BY <2>1, <2>3
  <2> HIDE DEF z, ts, l
  <2>6. QED
    BY <2>4, <2>5, SwitchBystands
<1>4. CASE wait_count_sleep
  <2>1. PICK c \in CPUs : switch_to_next(c, c_runqueue[c], c_zombies[c],
                                         [t_state EXCEPT ![Menu] = "S_SLEEP"], pc)
    BY <1>4 DEF wait_count_sleep
  <2>2. \/ pc' = pc
        \/ pc' = [u \in Threads |-> IF u \in c_zombies[c] THEN "none" ELSE pc[u]]
    BY <2>1 DEF switch_to_next
  <2>3. ASSUME NEW u \in Threads PROVE pc'[u] = pc[u] \/ Dies(u)
    BY <2>2, ZombiesAreDead DEF Dies
  <2>4. QED
    BY <1>4, <2>3 DEF wait_count_sleep, Bystands
<1>5. QED
  BY <1>1, <1>2, <1>3, <1>4

(* What a step of thread t on its own does to the threads.                 *)
LEMMA LocalMoves ==
  ASSUME PlaceInv, NEW t \in Threads, NEW l, NEW m, Local(t, l, m)
  PROVE  /\ pc[t] = l
         /\ \A u \in Threads : pc'[u] = IF u = t THEN m ELSE pc[u]
BY DEF PlaceInv, Types, Local, At, Goto

LEMMA HatchCounts ==
  ASSUME PlaceInv, CountInv, NEW t \in Threads, cpu_hatch(t)
  PROVE  CountInv' /\ pc'[Menu] = pc[Menu]
<1>1. /\ pc[t] = "hatch" /\ UNCHANGED <<countvars, newthread>>
      /\ \A u \in Threads : pc'[u] = IF u = t THEN "exit" ELSE pc[u]
  BY LocalMoves DEF cpu_hatch
<1>2. t # Menu /\ Menu \in Threads
  BY <1>1, Constants DEF PlaceInv, MenuInv
<1>3. pc[Menu] = "start_cpus" /\ pc'[Menu] = "start_cpus"
  BY <1>1, <1>2 DEF CountInv
<1>4. QED
  BY <1>1, <1>2, <1>3 DEF CountInv, countvars

(* All the threads of cpu_hatch have hatched, and they are not counted.    *)
LEMMA StartCpusCounts ==
  ASSUME PlaceInv, CountInv, thread_start_cpus
  PROVE  CountInv'
<1>1. /\ Menu \in Threads /\ pc[Menu] = "start_cpus" /\ thread_count' = 1
      /\ \A u \in Threads : pc'[u] = IF u = Menu THEN "work" ELSE pc[u]
  BY Constants, LocalMoves DEF thread_start_cpus
<1>2. ASSUME NEW t \in Threads \ {Menu}
      PROVE  pc'[t] \in {"exit", "none"}
  <2>1. CASE t \in Range(FirstThread)
    <3>1. PICK c \in CPUs : FirstThread[c] = t
      BY <2>1, SchedConstants DEF Range
    <3>2. c # 0
      BY <1>2, <3>1, SchedConstants
    <3>3. pc[t] # "hatch"
      BY <3>1, <3>2 DEF thread_start_cpus
    <3>4. QED
      BY <1>1, <1>2, <3>3 DEF CountInv
  <2>2. CASE t \notin Range(FirstThread)
    BY <1>1, <1>2, <2>2 DEF CountInv
  <2>3. QED
    BY <2>1, <2>2
<1>3. Counted' = {}
  <2>1. \A t \in Threads \ {Menu} : ~ Counts(t)'
    BY <1>2 DEF Counts
  <2>2. QED
    BY <2>1 DEF Counted
<1>4. Cardinality(Counted') = 0
  BY <1>3, FS_EmptySet
<1>5. thread_count' = 1 + Cardinality(Counted')
  BY <1>1, <1>4
<1>6. \A t \in Threads \ {Menu} : pc'[t] # "hatch"
  BY <1>2
<1>7. QED
  BY <1>1, <1>3, <1>5, <1>6 DEF CountInv

(* A new thread is not counted yet.  The menu, alone, notes 1.             *)
LEMMA ForkCounts ==
  ASSUME PlaceInv, CountInv, NEW t \in Threads, thread_fork(t)
  PROVE  CountInv' /\ pc'[Menu] # "work"
<1>1. PICK n \in Threads :
        /\ pc[n] = "none" /\ pc[t] = "work"
        /\ pc' = [pc EXCEPT ![t] = "fork_count", ![n] = "new"]
        /\ newthread' = [newthread EXCEPT ![t] = n]
        /\ tc' = IF t = Menu THEN thread_count ELSE tc
        /\ thread_count' = thread_count
  BY DEF thread_fork, At
<1>2. /\ pc \in [Threads -> Locations]
      /\ newthread \in [Threads -> Threads \cup {NULL}]
      /\ MenuInv /\ ForkInv
  BY DEF PlaceInv, Types
<1>3. /\ n # t /\ n # Menu /\ Menu \in Threads
      /\ \A u \in Threads : /\ pc'[u] = IF u = n THEN "new"
                                        ELSE IF u = t THEN "fork_count" ELSE pc[u]
                            /\ newthread'[u] = IF u = t THEN n ELSE newthread[u]
  BY <1>1, <1>2, Constants DEF MenuInv
<1>4. newthread[t] = NULL
  BY <1>1, <1>2 DEF ForkInv
<1>5. Counted' = Counted
  <2>1. ASSUME NEW u \in Threads
        PROVE  Counts(u)' <=> Counts(u)
    <3>1. CASE u = n
      <4>1. \A v \in Threads : newthread'[v] = n => v = t
        BY <1>1, <1>2, <1>3, Constants DEF ForkInv
      <4>2. ~ Counts(n)
        BY <1>1 DEF Counts
      <4>3. pc'[n] = "new" /\ pc'[t] = "fork_count"
        BY <1>3
      <4>4. ~ Counts(n)'
        BY <4>1, <4>3 DEF Counts
      <4>5. QED
        BY <3>1, <4>2, <4>4
    <3>2. CASE u = t
      BY <1>1, <1>3, <3>2 DEF Counts
    <3>3. CASE u # n /\ u # t
      <4>1. \A v \in Threads : /\ newthread'[v] = u <=> newthread[v] = u
                               /\ newthread[v] = u => v # n
        BY <1>1, <1>2, <1>3, <1>4, <3>3, Constants DEF ForkInv
      <4>2. \A v \in Threads : newthread[v] = u => pc'[v] = pc[v]
        BY <1>3, <1>4, <4>1, Constants
      <4>3. pc'[u] = pc[u] /\ newthread'[u] = newthread[u]
        BY <1>3, <3>3
      <4>4. QED
        BY <4>1, <4>2, <4>3 DEF Counts
    <3>4. QED
      BY <3>1, <3>2, <3>3
  <2>2. QED
    BY <2>1, SameCounted
<1>6. pc[Menu] # "start_cpus" /\ pc'[Menu] # "start_cpus"
  <2>1. pc[Menu] # "start_cpus"
    <3>1. CASE t = Menu
      BY <1>1, <3>1
    <3>2. CASE t # Menu
      BY <1>1, <3>2 DEF CountInv
    <3>3. QED
      BY <3>1, <3>2
  <2>2. QED
    BY <1>3, <2>1
<1>7. pc'[Menu] # "work"
  <2>1. CASE t = Menu
    BY <1>3, <2>1
  <2>2. CASE t # Menu
    <3>1. t \in Counted
      BY <1>1, <2>2 DEF Counted, Counts
    <3>2. QED
      BY <1>3, <2>2, <3>1 DEF CountInv
  <2>3. QED
    BY <2>1, <2>2
<1>8. tc' = 1
  <2>1. CASE t = Menu
    <3>1. Cardinality(Counted) = 0 /\ thread_count = 1 + Cardinality(Counted)
      BY <1>1, <2>1, CountedFinite DEF CountInv
    <3>2. QED
      BY <1>1, <2>1, <3>1
  <2>2. CASE t # Menu
    <3>1. t \in Counted
      BY <1>1, <2>2 DEF Counted, Counts
    <3>2. pc[Menu] # "work"
      BY <3>1 DEF CountInv
    <3>3. pc[Menu] \in {"fork_count", "wakeall", "fork_run", "wait_count"}
      BY <1>2, <1>6, <3>2 DEF MenuInv
    <3>4. QED
      BY <1>1, <2>2, <3>3 DEF CountInv
  <2>3. QED
    BY <2>1, <2>2
<1>9. thread_count' = 1 + Cardinality(Counted')
  BY <1>1, <1>5, <1>6 DEF CountInv
<1>10. \A u \in Threads \ {Menu} : pc'[u] # "hatch"
  BY <1>3, <1>6 DEF CountInv
<1>11. QED
  BY <1>6, <1>7, <1>8, <1>9, <1>10 DEF CountInv

(* thread_fork counts the new thread before it can run.                    *)
LEMMA ForkCountCounts ==
  ASSUME PlaceInv, CountInv, NEW t \in Threads, fork_count(t)
  PROVE  CountInv' /\ pc'[Menu] # "work"
<1>1. /\ pc[t] = "fork_count" /\ thread_count' = thread_count + 1
      /\ UNCHANGED <<tc, newthread>>
      /\ \A u \in Threads : pc'[u] = IF u = t THEN "wakeall" ELSE pc[u]
  BY LocalMoves DEF fork_count, change_count
<1>2. ForkInv /\ MenuInv /\ newthread \in [Threads -> Threads \cup {NULL}]
  BY DEF PlaceInv, Types
<1>3. PICK n \in Threads :
        /\ newthread[t] = n /\ n # NULL /\ pc[n] = "new" /\ n # t /\ n # Menu
        /\ Menu \in Threads
        /\ \A v \in Threads : newthread[v] = n => v = t
  BY <1>1, <1>2, Constants DEF ForkInv, MenuInv
<1>4. n \notin Counted
  <2>1. ~ Counts(n)
    BY <1>1, <1>3 DEF Counts
  <2>2. QED
    BY <2>1 DEF Counted
<1>5. Counted' = Counted \cup {n}
  <2>1. Counts(n)'
    BY <1>1, <1>3 DEF Counts
  <2>2. ASSUME NEW u \in Threads, u # n
        PROVE  Counts(u)' <=> Counts(u)
    <3>1. CASE u = t
      BY <1>1, <1>3, <3>1 DEF Counts
    <3>2. CASE u # t
      <4>1. pc'[u] = pc[u] /\ newthread'[u] = newthread[u]
        BY <1>1, <3>2
      <4>2. \A v \in Threads : newthread[v] = u => pc'[v] = pc[v]
        BY <1>1, <1>3, <2>2
      <4>3. QED
        BY <1>1, <4>1, <4>2 DEF Counts
    <3>3. QED
      BY <3>1, <3>2
  <2>3. QED
    BY <1>3, <2>1, <2>2 DEF Counted
<1>6. pc[Menu] # "start_cpus" /\ pc[Menu] # "work"
  <2>1. CASE t = Menu
    BY <1>1, <2>1
  <2>2. CASE t # Menu
    <3>1. t \in Counted
      BY <1>1, <2>2 DEF Counted, Counts
    <3>2. QED
      BY <1>1, <2>2, <3>1 DEF CountInv
  <2>3. QED
    BY <2>1, <2>2
<1>7. pc'[Menu] # "start_cpus" /\ pc'[Menu] # "work"
  BY <1>1, <1>3, <1>6
<1>8. thread_count' = 1 + Cardinality(Counted')
  <2>1. Cardinality(Counted \cup {n}) = Cardinality(Counted) + 1
    BY <1>4, CountedFinite, FS_AddElement
  <2>2. thread_count = 1 + Cardinality(Counted)
    BY <1>6 DEF CountInv
  <2>3. QED
    BY <1>1, <1>5, <2>1, <2>2, CountedFinite
<1>9. tc' = 1
  BY <1>1, <1>2, <1>6 DEF CountInv, MenuInv
<1>10. \A u \in Threads \ {Menu} : pc'[u] # "hatch"
  BY <1>1, <1>6 DEF CountInv
<1>11. QED
  BY <1>7, <1>8, <1>9, <1>10 DEF CountInv

(* thread_exit counts its thread out, once.                                *)
LEMMA ExitCountCounts ==
  ASSUME PlaceInv, CountInv, NEW t \in Threads, exit_count(t)
  PROVE  CountInv' /\ pc'[Menu] = pc[Menu]
<1>1. /\ pc[t] = "exit_count" /\ thread_count' = thread_count - 1
      /\ UNCHANGED <<tc, newthread>>
      /\ \A u \in Threads : pc'[u] = IF u = t THEN "wakeall" ELSE pc[u]
  BY LocalMoves DEF exit_count, change_count
<1>2. ForkInv /\ MenuInv
  BY DEF PlaceInv
<1>3. t # Menu /\ Menu \in Threads /\ newthread[t] = NULL
  BY <1>1, <1>2, Constants DEF ForkInv, MenuInv
<1>4. t \in Counted
  BY <1>1, <1>3 DEF Counted, Counts
<1>5. Counted' = Counted \ {t}
  <2>1. ~ Counts(t)'
    BY <1>1, <1>3 DEF Counts
  <2>2. ASSUME NEW u \in Threads, u # t
        PROVE  Counts(u)' <=> Counts(u)
    <3>1. pc'[u] = pc[u] /\ newthread'[u] = newthread[u]
      BY <1>1, <2>2
    <3>2. \A v \in Threads : newthread[v] = u => pc'[v] = pc[v]
      BY <1>1, <1>3, Constants
    <3>3. QED
      BY <1>1, <3>1, <3>2 DEF Counts
  <2>3. QED
    BY <2>1, <2>2 DEF Counted
<1>6. pc[Menu] # "start_cpus" /\ pc[Menu] # "work" /\ pc'[Menu] = pc[Menu]
  BY <1>1, <1>3, <1>4 DEF CountInv
<1>7. thread_count' = 1 + Cardinality(Counted')
  <2>1. Cardinality(Counted \ {t}) = Cardinality(Counted) - 1
    BY <1>4, CountedFinite, FS_RemoveElement
  <2>2. thread_count = 1 + Cardinality(Counted)
    BY <1>6 DEF CountInv
  <2>3. QED
    BY <1>1, <1>5, <2>1, <2>2, CountedFinite
<1>8. tc' = 1
  BY <1>1, <1>2, <1>6 DEF CountInv, MenuInv
<1>9. \A u \in Threads \ {Menu} : pc'[u] # "hatch"
  BY <1>1, <1>6 DEF CountInv
<1>10. QED
  BY <1>6, <1>7, <1>8, <1>9 DEF CountInv

(* The lock is released: nobody's count changes.                           *)
LEMMA WakeallDoneCounts ==
  ASSUME PlaceInv, CountInv, NEW t \in Threads, wakeall_done(t)
  PROVE  CountInv' /\ (pc[Menu] = "wait_count" => pc'[Menu] = "wait_count")
<1> DEFINE m == IF newthread[t] = NULL THEN "exit_switch" ELSE "fork_run"
<1>1. /\ pc[t] = "wakeall" /\ UNCHANGED <<thread_count, tc, newthread>>
      /\ \A u \in Threads : pc'[u] = IF u = t THEN m ELSE pc[u]
  <2>1. Local(t, "wakeall", m) /\ UNCHANGED <<thread_count, tc, newthread>>
    BY DEF wakeall_done
  <2> HIDE DEF m
  <2>2. QED
    BY <2>1, LocalMoves
<1>2. MenuInv /\ Menu \in Threads
  BY Constants DEF PlaceInv
<1>3. /\ newthread[t] = NULL => m = "exit_switch" /\ t # Menu
      /\ newthread[t] # NULL => m = "fork_run"
  BY <1>1, <1>2 DEF MenuInv
<1> HIDE DEF m
<1>4. Counted' = Counted
  <2>1. ASSUME NEW u \in Threads
        PROVE  Counts(u)' <=> Counts(u)
    <3>1. \A v \in Threads : pc'[v] # "fork_count" <=> pc[v] # "fork_count"
      BY <1>1, <1>3
    <3>2. CASE u = t
      BY <1>1, <1>3, <3>2 DEF Counts
    <3>3. CASE u # t
      BY <1>1, <3>1, <3>3 DEF Counts
    <3>4. QED
      BY <3>2, <3>3
  <2>2. QED
    BY <2>1, SameCounted
<1>5. pc[Menu] # "start_cpus"
  <2>1. CASE t = Menu
    BY <1>1, <2>1
  <2>2. CASE t # Menu
    BY <1>1, <2>2 DEF CountInv
  <2>3. QED
    BY <2>1, <2>2
<1>6. /\ t = Menu => pc'[Menu] = "fork_run"
      /\ t # Menu => pc'[Menu] = pc[Menu]
  BY <1>1, <1>2, <1>3
<1>7. \A u \in Threads \ {Menu} : pc'[u] # "hatch"
  BY <1>1, <1>3, <1>5 DEF CountInv
<1>8. CASE t = Menu
  BY <1>1, <1>4, <1>5, <1>6, <1>7, <1>8 DEF CountInv
<1>9. CASE t # Menu
  BY <1>1, <1>4, <1>5, <1>6, <1>7, <1>9 DEF CountInv
<1>10. QED
  BY <1>8, <1>9

(* The new thread is on its way: it was counted, and it still is.          *)
LEMMA ForkRunCounts ==
  ASSUME PlaceInv, CountInv, NEW t \in Threads, fork_run(t)
  PROVE  CountInv' /\ (pc[Menu] = "wait_count" => pc'[Menu] = "wait_count")
<1>1. /\ pc[t] = "fork_run" /\ UNCHANGED <<thread_count, tc>>
      /\ pc' = [pc EXCEPT ![t] = IF t = Menu THEN "wait_count" ELSE "work",
                          ![newthread[t]] = "work"]
      /\ newthread' = [newthread EXCEPT ![t] = NULL]
  BY DEF fork_run, At, countvars
<1>2. /\ ForkInv /\ MenuInv /\ newthread \in [Threads -> Threads \cup {NULL}]
      /\ pc \in [Threads -> Locations]
  BY DEF PlaceInv, Types
<1>3. PICK n \in Threads :
        /\ newthread[t] = n /\ n # NULL /\ pc[n] = "new" /\ n # t /\ n # Menu
        /\ Menu \in Threads
        /\ \A v \in Threads : newthread[v] = n => v = t
  BY <1>1, <1>2, Constants DEF ForkInv, MenuInv
<1>4. \A u \in Threads :
        /\ pc'[u] = IF u = n THEN "work"
                    ELSE IF u = t THEN IF t = Menu THEN "wait_count" ELSE "work"
                    ELSE pc[u]
        /\ newthread'[u] = IF u = t THEN NULL ELSE newthread[u]
  BY <1>1, <1>2, <1>3
<1>5. Counted' = Counted
  <2>1. ASSUME NEW u \in Threads \ {Menu}
        PROVE  Counts(u)' <=> Counts(u)
    <3>1. CASE u = n
      <4>1. Counts(n)
        BY <1>1, <1>3 DEF Counts
      <4>2. Counts(n)'
        BY <1>4 DEF Counts
      <4>3. QED
        BY <3>1, <4>1, <4>2
    <3>2. CASE u = t
      <4>1. Counts(t)
        BY <1>1, <1>3 DEF Counts
      <4>2. Counts(t)'
        BY <1>3, <1>4, <2>1, <3>2 DEF Counts
      <4>3. QED
        BY <3>2, <4>1, <4>2
    <3>3. CASE u # n /\ u # t
      <4>1. pc'[u] = pc[u] /\ newthread'[u] = newthread[u]
        BY <1>4, <3>3
      <4>2. \A v \in Threads : newthread'[v] = u <=> newthread[v] = u
        BY <1>3, <1>4, <3>3, Constants
      <4>3. \A v \in Threads : newthread[v] = u => pc'[v] = pc[v]
        BY <1>2, <1>3, <1>4, <3>3, Constants DEF ForkInv
      <4>4. QED
        BY <4>1, <4>2, <4>3 DEF Counts
    <3>4. QED
      BY <3>1, <3>2, <3>3
  <2>2. QED
    BY <2>1, SameCounted
<1>6. pc[Menu] # "start_cpus" /\ pc[Menu] # "work"
  <2>1. CASE t = Menu
    BY <1>1, <2>1
  <2>2. CASE t # Menu
    <3>1. t \in Counted
      BY <1>1, <1>3, <2>2 DEF Counted, Counts
    <3>2. QED
      BY <1>1, <2>2, <3>1 DEF CountInv
  <2>3. QED
    BY <2>1, <2>2
<1>7. /\ pc'[Menu] # "start_cpus" /\ pc'[Menu] # "work"
      /\ pc[Menu] = "wait_count" => pc'[Menu] = "wait_count"
  <2>1. CASE t = Menu
    <3>1. pc'[Menu] = "wait_count"
      BY <1>3, <1>4, <2>1
    <3>2. QED
      BY <3>1
  <2>2. CASE t # Menu
    <3>1. pc'[Menu] = pc[Menu]
      BY <1>3, <1>4, <2>2
    <3>2. QED
      BY <1>6, <3>1
  <2>3. QED
    BY <2>1, <2>2
<1>8. tc' = 1
  BY <1>1, <1>2, <1>6 DEF CountInv, MenuInv
<1>9. \A u \in Threads \ {Menu} : pc'[u] # "hatch"
  BY <1>4, <1>6 DEF CountInv
<1>10. thread_count' = 1 + Cardinality(Counted')
  BY <1>1, <1>5, <1>6 DEF CountInv
<1>11. QED
  BY <1>7, <1>8, <1>9, <1>10 DEF CountInv

(* thread_exit: a counted thread finds thread_count above 0 and goes on to *)
(* count itself out.                                                       *)
LEMMA ExitCounts ==
  ASSUME PlaceInv, CountInv, NEW t \in Threads, thread_exit(t)
  PROVE  CountInv' /\ pc'[Menu] = pc[Menu]
<1> DEFINE m == IF thread_count = 0 THEN "exit_switch" ELSE "exit_count"
<1>1. /\ t # Menu /\ pc[t] = "work"
      /\ UNCHANGED <<thread_count, tc, newthread>>
      /\ \A u \in Threads : pc'[u] = IF u = t THEN m ELSE pc[u]
  <2>1. /\ t # Menu /\ Local(t, "work", m)
        /\ UNCHANGED <<thread_count, tc, newthread>>
    BY DEF thread_exit, countvars
  <2> HIDE DEF m
  <2>2. QED
    BY <2>1, LocalMoves
<1>2. t # Menu /\ Menu \in Threads
  BY <1>1, Constants
<1>3. pc'[Menu] = pc[Menu]
  BY <1>1, <1>2
<1>4. pc[Menu] # "start_cpus"
  BY <1>1, <1>2 DEF CountInv
<1>5. CountInv'
  <2>1. pc[t] = "work" /\ thread_count = 1 + Cardinality(Counted)
    BY <1>1, <1>2, <1>4 DEF CountInv
  <2>2. m = "exit_count"
    BY <2>1, CountedFinite
  <2>3. Counted' = Counted
    <3>1. ASSUME NEW u \in Threads
          PROVE  Counts(u)' <=> Counts(u)
      <4>1. \A v \in Threads : pc'[v] # "fork_count" <=> pc[v] # "fork_count"
        BY <1>1, <2>1, <2>2
      <4>2. CASE u = t
        BY <1>1, <2>1, <2>2, <4>2 DEF Counts
      <4>3. CASE u # t
        BY <1>1, <4>1, <4>3 DEF Counts
      <4>4. QED
        BY <4>2, <4>3
    <3>2. QED
      BY <3>1, SameCounted
  <2>4. \A u \in Threads \ {Menu} : pc'[u] # "hatch"
    BY <1>1, <1>4, <2>2 DEF CountInv
  <2>5. QED
    BY <1>1, <1>2, <1>3, <1>4, <2>1, <2>3, <2>4 DEF CountInv
<1>6. QED
  BY <1>3, <1>5

(* The menu is back: only it is counted, and nobody holds the lock, so all *)
(* others have counted themselves out.                                     *)
LEMMA WaitDoneCounts ==
  ASSUME PlaceInv, CountInv, wait_count_done
  PROVE  CountInv' /\ Others = {}
<1>1. /\ pc[Menu] = "wait_count" /\ Menu \in Threads
      /\ count_lock = NULL /\ thread_count = tc
      /\ UNCHANGED <<thread_count, newthread>>
      /\ \A u \in Threads : pc'[u] = IF u = Menu THEN "work" ELSE pc[u]
  BY Constants, LocalMoves DEF wait_count_done
<1>2. Counted = {}
  <2>1. thread_count = 1 + Cardinality(Counted) /\ tc = 1
    BY <1>1 DEF CountInv
  <2>2. Cardinality(Counted) \in Nat /\ (Cardinality(Counted) = 0 => Counted = {})
    BY CountedFinite
  <2>3. 1 + Cardinality(Counted) = 1
    BY <1>1, <2>1, Zenon
  <2>4. Cardinality(Counted) = 0
    BY <2>2, <2>3
  <2>5. QED
    BY <2>2, <2>4
<1>3. Counted' = Counted
  <2>1. ASSUME NEW u \in Threads \ {Menu}
        PROVE  Counts(u)' <=> Counts(u)
    BY <1>1 DEF Counts
  <2>2. QED
    BY <2>1, SameCounted
<1>4. CountInv'
  BY <1>1, <1>2, <1>3 DEF CountInv
<1>5. Others = {}
  <2>1. SUFFICES ASSUME NEW t \in Others PROVE FALSE
    OBVIOUS
  <2>2. /\ t \in Threads \ {Menu} /\ pc[t] \in Locations
        /\ pc[t] \notin {"none", "hatch", "exit", "exit_switch", "zombie"}
        /\ ForkInv /\ MenuInv /\ SleepInv
    BY DEF Others, PlaceInv, Types
  <2>3. \A u \in Threads \ {Menu} : ~ Counts(u)
    BY <1>2 DEF Counted
  <2>4. pc[t] \notin {"start_cpus", "wait_count"}
    BY <2>2 DEF MenuInv
  <2>5. \A u \in Threads : pc[u] # "wakeall"
    BY <1>1, <2>2, Constants DEF SleepInv
  <2>6. pc[t] # "fork_run"
    BY <2>2, <2>3 DEF Counts, ForkInv
  <2>7. pc[t] = "new"
    BY <2>2, <2>3, <2>4, <2>5, <2>6 DEF Counts, Locations
  <2>8. PICK u \in Threads : newthread[u] = t
    BY <2>2, <2>7 DEF ForkInv
  <2>9. pc[u] = "fork_count"
    BY <2>2, <2>3, <2>7, <2>8 DEF Counts
  <2>10. u # Menu
    BY <1>1, <2>9
  <2>11. QED
    BY <2>3, <2>9, <2>10 DEF Counts
<1>6. QED
  BY <1>4, <1>5

LEMMA CountInit == Init => CountInv
<1> SUFFICES ASSUME Init PROVE CountInv
  OBVIOUS
<1>1. Menu \in Threads
  BY Constants
<1>2. /\ pc = [t \in Threads |-> IF t = Menu THEN "start_cpus"
                                 ELSE IF t \in Range(FirstThread) THEN "hatch" ELSE "none"]
      /\ thread_count = 0
  BY DEF Init
<1>3. Menu \in Range(FirstThread)
  BY SchedConstants, Constants DEF Range
<1>4. QED
  BY <1>1, <1>2, <1>3 DEF CountInv

(* Every step keeps the count; the one that ends the menu's wait finds it  *)
(* alone.                                                                  *)
LEMMA CountStep ==
  ASSUME PlaceInv, CountInv, Step
  PROVE  /\ CountInv'
         /\ pc[Menu] = "wait_count" /\ pc'[Menu] = "work" => Others = {}
<1>1. ASSUME NEW c \in CPUs, Handler(c) \/ hardclock(c)
      PROVE  CountInv' /\ pc'[Menu] = pc[Menu]
  BY <1>1, ProcessorBystands, BystandCounts
<1>2. ASSUME NEW t \in Threads, Run(t)
      PROVE  /\ CountInv'
             /\ pc[Menu] = "wait_count" /\ pc'[Menu] = "work" => Others = {}
  <2>1. CASE cpu_hatch(t) \/ exit_count(t)
    BY <2>1, HatchCounts, ExitCountCounts
  <2>2. CASE thread_start_cpus
    <3>1. pc[Menu] = "start_cpus"
      BY <2>2 DEF thread_start_cpus, Local, At
    <3>2. QED
      BY <2>2, <3>1, StartCpusCounts
  <2>3. CASE fork_count(t) \/ wakeall_done(t) \/ fork_run(t)
    BY <2>3, ForkCountCounts, WakeallDoneCounts, ForkRunCounts
  <2>4. CASE wakeall_next(t) \/ exit_switch(t) \/ wait_count_sleep
    BY <2>4, ThreadBystands, BystandCounts
  <2>5. CASE wait_count_done
    BY <2>5, WaitDoneCounts
  <2>6. QED
    BY <1>2, <2>1, <2>2, <2>3, <2>4, <2>5 DEF Run
<1>3. ASSUME NEW t \in Threads, Call(t)
      PROVE  /\ CountInv'
             /\ pc[Menu] = "wait_count" /\ pc'[Menu] = "work" => Others = {}
  <2>1. CASE thread_fork(t)
    BY <2>1, ForkCounts
  <2>2. CASE thread_exit(t)
    BY <2>2, ExitCounts
  <2>3. CASE yield(t)
    BY <2>3, ThreadBystands, BystandCounts
  <2>4. QED
    BY <1>3, <2>1, <2>2, <2>3 DEF Call
<1>4. QED
  BY <1>1, <1>2, <1>3 DEF Step

LEMMA CountNext == PlaceInv /\ CountInv /\ [Next]_vars => CountInv'
<1> SUFFICES ASSUME PlaceInv, CountInv, Step \/ UNCHANGED stepvars PROVE CountInv'
  BY NextSteps
<1>1. CASE Step
  BY <1>1, CountStep
<1>2. CASE UNCHANGED stepvars
  <2>1. Bystands
    BY <1>2 DEF Bystands, stepvars, countvars, localvars
  <2>2. QED
    BY <2>1, BystandCounts
<1>3. QED
  BY <1>1, <1>2

LEMMA CountAlways == Spec => []CountInv
<1>1. QED
  BY CountInit, CountNext, PlaceAlways, PTL DEF Spec

Stoppable == panicked \in BOOLEAN

LEMMA StoppableAlways == Spec => []Stoppable
<1>1. Init => Stoppable
  BY DEF Init, Stoppable
<1>2. Stoppable /\ [Next]_vars => Stoppable'
  BY DEF Next, vars, thread_exit_kproc, Stoppable
<1>3. QED
  BY <1>1, <1>2, PTL DEF Spec

(* However clock, wakeup, fork, exit and migration interleave on any       *)
(* number of processors, thread_count never falls below 0, and lists,      *)
(* processors and stacks agree on where each thread is: it is in exactly   *)
(* one place, no two processors stand on one stack, none stands on a freed *)
(* one, and t_cpu and t_state say where the thread is.                     *)
THEOREM SchedCorrect == Spec => []SchedInv
<1>1. PlaceInv /\ CountInv /\ Stoppable => SchedInv
  <2> SUFFICES ASSUME PlaceInv, CountInv, Stoppable PROVE SchedInv
    OBVIOUS
  <2>1. thread_count \in Nat
    <3>1. CASE pc[Menu] = "start_cpus"
      BY <3>1 DEF CountInv
    <3>2. CASE pc[Menu] # "start_cpus"
      BY <3>2, CountedFinite DEF CountInv
    <3>3. QED
      BY <3>1, <3>2
  <2>2. ASSUME NEW c \in CPUs
        PROVE  /\ cpu[c] \in {"thread", "wait", "loop", "mig_count", "mig_give"}
               /\ mig[c].victims \in Seq(Threads)
               /\ mig[c].send \in 0 .. Len(mig[c].victims)
    <3>1. cpu[c] \in Doings /\ mig[c] \in Migrations
      BY DEF PlaceInv, Types
    <3>2. mig[c].victims \in Seq(Threads) /\ mig[c].send \in Nat
      BY <3>1 DEF Migrations
    <3>3. mig[c].send <= Len(mig[c].victims)
      <4>1. NoMigration.send = 0 /\ Len(mig[c].victims) \in Nat
        BY <3>2 DEF NoMigration
      <4>2. QED
        BY <3>1, <4>1 DEF PlaceInv, CpuInv, Doings
    <3>4. QED
      BY <3>1, <3>2, <3>3 DEF Doings
  <2>3. TypeOK
    BY <2>1, <2>2 DEF TypeOK, PlaceInv, Types, States, Stoppable
  <2>4. QED
    BY <2>3, PlacesFollow DEF SchedInv
<1>2. QED
  BY <1>1, PlaceAlways, CountAlways, StoppableAlways, PTL

(* thread_wait_for_count keeps its promise: the menu comes back only when  *)
(* all the threads it started, and those they started, have counted        *)
(* themselves out.                                                         *)
THEOREM MenuWaits == Spec => MenuWaitsForAll
<1>1. PlaceInv /\ CountInv /\ [Next]_vars =>
        [pc[Menu] = "wait_count" /\ pc'[Menu] = "work" => Others = {}]_vars
  <2> SUFFICES ASSUME PlaceInv, CountInv, Step \/ UNCHANGED stepvars
               PROVE  pc[Menu] = "wait_count" /\ pc'[Menu] = "work" => Others = {}
    BY NextSteps
  <2>1. CASE Step
    BY <2>1, CountStep
  <2>2. CASE UNCHANGED stepvars
    BY <2>2 DEF stepvars, localvars
  <2>3. QED
    BY <2>1, <2>2
<1>2. QED
  BY <1>1, PlaceAlways, CountAlways, PTL DEF Spec, MenuWaitsForAll

============================================================================
