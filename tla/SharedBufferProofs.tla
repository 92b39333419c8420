------------------------- MODULE SharedBufferProofs ------------------------
(* Proofs about the shared buffer, for any number of threads, any set of   *)
(* characters and any size of the ring.                                    *)
EXTENDS SharedBuffer, FiniteSetTheorems, SequenceTheorems, TLAPS

(* The place after the last character, and the ring without its first one. *)
LEMMA RingNext ==
  ASSUME NEW n \in Nat \ {0}, NEW o \in 0 .. n - 1, NEW k \in 0 .. n - 1
  PROVE  (((o + k) % n) + 1) % n = (o + (k + 1)) % n
<1>1. PICK i \in 0 .. n - 1 : i = (o + k) % n
  OBVIOUS
<1>2. i = IF o + k < n THEN o + k ELSE o + k - n
  BY <1>1
<1>3. PICK l \in 1 .. n : l = k + 1
  OBVIOUS
<1>4. (o + l) % n = IF o + l < n THEN o + l ELSE o + l - n
  OBVIOUS
<1>5. (i + 1) % n = IF i + 1 < n THEN i + 1 ELSE i + 1 - n
  OBVIOUS
<1>6. (i + 1) % n = (o + l) % n
  BY <1>2, <1>3, <1>4, <1>5
<1>7. QED
  BY <1>1, <1>3, <1>6

LEMMA RingFirst ==
  ASSUME NEW n \in Nat \ {0}, NEW o \in 0 .. n - 1, NEW k \in 1 .. n
  PROVE  (((o + 1) % n) + (k - 1)) % n = (o + k) % n
<1>1. PICK i \in 0 .. n - 1 : i = (o + 1) % n
  OBVIOUS
<1>2. i = IF o + 1 < n THEN o + 1 ELSE o + 1 - n
  BY <1>1
<1>3. PICK l \in 0 .. n - 1 : l = k - 1
  OBVIOUS
<1>4. (o + k) % n = IF o + k < n THEN o + k ELSE o + k - n
  OBVIOUS
<1>5. (i + l) % n = IF i + l < n THEN i + l ELSE i + l - n
  OBVIOUS
<1>6. (i + l) % n = (o + k) % n
  BY <1>2, <1>3, <1>4, <1>5
<1>7. QED
  BY <1>1, <1>3, <1>6

(* One thread more or less in a finite set.                                *)
LEMMA CountOne ==
  ASSUME NEW S, IsFiniteSet(S), NEW t
  PROVE  /\ Cardinality(S) \in Nat
         /\ IsFiniteSet(S \cup {t}) /\ IsFiniteSet(S \ {t})
         /\ t \notin S => Cardinality(S \cup {t}) = Cardinality(S) + 1
         /\ t \in S => Cardinality(S \ {t}) = Cardinality(S) - 1
  BY FS_CardinalityType, FS_AddElement, FS_RemoveElement

LEMMA TakersFinite == IsFiniteSet(Takers) /\ IsFiniteSet(Fillers)
<1>1. Takers \subseteq Threads /\ Fillers \subseteq Threads
  BY DEF Takers, Fillers
<1>2. QED
  BY <1>1, FS_Subset, SharedBufferConstants

----------------------------------------------------------------------------
(* The inductive invariant *)

(* What the threads do to the ring and to the monitor, without counting.   *)
ShapeInv == TypeOK /\ LockHeld /\ WaitersMatch /\ CallsNeedBuffer /\ RingShape

LEMMA ShapeStep == ShapeInv /\ [Next]_vars => ShapeInv'
<1> SUFFICES ASSUME ShapeInv, [Next]_vars PROVE ShapeInv'
  OBVIOUS
<1> USE SharedBufferConstants
    DEF ShapeInv, TypeOK, Locations, CVs, LockHeld, WaitersMatch,
        CallsNeedBuffer, M!IsWaiting, ring, monitor, Goto
<1>1. ASSUME shared_buffer_create PROVE ShapeInv'
  <2>1. 0 % Size = 0 /\ 0 \in Slots
    BY DEF Slots
  <2>2. QED
    BY <1>1, <2>1 DEF shared_buffer_create, RingShape
<1>2. ASSUME shared_buffer_destroy PROVE ShapeInv'
  BY <1>2 DEF shared_buffer_destroy, RingShape
<1>3. ASSUME NEW t \in Threads, call(t) PROVE ShapeInv'
  BY <1>3 DEF call, RingShape
<1>4. ASSUME NEW t \in Threads, acquire(t) PROVE ShapeInv'
  BY <1>4 DEF acquire, M!Enter, RingShape
<1>5. ASSUME NEW t \in Threads, produce_wait(t) PROVE ShapeInv'
  BY <1>5 DEF produce_wait, M!Wait, RingShape
<1>6. ASSUME NEW t \in Threads, produce_put(t) PROVE ShapeInv'
  <2>1. in' \in Slots /\ count' \in 0 .. Size
    BY <1>6 DEF produce_put, Slots
  <2>2. RingShape'
    <3>1. (in + 1) % Size = (out + (count + 1)) % Size
      <4>1. count \in 0 .. Size - 1 /\ out \in 0 .. Size - 1
        BY <1>6 DEF produce_put, Slots
      <4>2. (((out + count) % Size) + 1) % Size = (out + (count + 1)) % Size
        BY <4>1, RingNext
      <4>3. QED
        BY <4>2 DEF RingShape
    <3>2. QED
      BY <1>6, <3>1 DEF produce_put, RingShape
  <2>3. QED
    BY <1>6, <2>1, <2>2 DEF produce_put
<1>7. ASSUME NEW t \in Threads, produce_signal(t) PROVE ShapeInv'
  BY <1>7 DEF produce_signal, signal, M!Signal, RingShape
<1>8. ASSUME NEW t \in Threads, consume_wait(t) PROVE ShapeInv'
  BY <1>8 DEF consume_wait, M!Wait, RingShape
<1>9. ASSUME NEW t \in Threads, consume_take(t) PROVE ShapeInv'
  <2>1. out' \in Slots /\ count' \in 0 .. Size
    BY <1>9 DEF consume_take, Slots
  <2>2. RingShape'
    <3>1. (((out + 1) % Size) + (count - 1)) % Size = (out + count) % Size
      <4>1. count \in 1 .. Size /\ out \in 0 .. Size - 1
        BY <1>9 DEF consume_take, Slots
      <4>2. QED
        BY <4>1, RingFirst
    <3>2. QED
      BY <1>9, <3>1 DEF consume_take, RingShape
  <2>3. QED
    BY <1>9, <2>1, <2>2 DEF consume_take
<1>10. ASSUME NEW t \in Threads, consume_signal(t) PROVE ShapeInv'
  BY <1>10 DEF consume_signal, signal, M!Signal, RingShape
<1>11. ASSUME NEW t \in Threads, release(t) PROVE ShapeInv'
  BY <1>11 DEF release, M!Exit, RingShape
<1>12. CASE UNCHANGED vars
  BY <1>12 DEF vars, RingShape
<1>13. QED
  BY <1>1, <1>2, <1>3, <1>4, <1>5, <1>6, <1>7, <1>8, <1>9, <1>10, <1>11,
     <1>12 DEF Next, Run

(* How a step changes the sets that pay for characters and places.         *)
LEMMA StrandedStep == BufferInv /\ [Next]_vars => NobodyStranded'
<1> SUFFICES ASSUME BufferInv, [Next]_vars PROVE NobodyStranded'
  OBVIOUS
<1> USE SharedBufferConstants
    DEF BufferInv, TypeOK, Locations, CVs, LockHeld, WaitersMatch,
        M!IsWaiting, ring, monitor, Goto
<1> DEFINE k == Cardinality(Takers)
           l == Cardinality(Fillers)
<1>0. /\ IsFiniteSet(Takers) /\ IsFiniteSet(Fillers)
      /\ k \in Nat /\ l \in Nat
  BY TakersFinite, CountOne
<1>1. ASSUME shared_buffer_create PROVE NobodyStranded'
  <2>1. waiting["cv_consumer"] = {} /\ waiting["cv_producer"] = {}
    BY <1>1 DEF shared_buffer_create, CallsNeedBuffer
  <2>2. QED
    BY <1>1, <2>1 DEF shared_buffer_create, NobodyStranded
<1>2. ASSUME shared_buffer_destroy PROVE NobodyStranded'
  BY <1>2 DEF shared_buffer_destroy, NobodyStranded, Takers, Fillers
<1>3. ASSUME NEW t \in Threads, call(t) PROVE NobodyStranded'
  <2>1. \/ Takers' = Takers \cup {t} /\ Fillers' = Fillers
        \/ Takers' = Takers /\ Fillers' = Fillers \cup {t}
    BY <1>3 DEF call, Takers, Fillers
  <2>2. t \notin Takers /\ t \notin Fillers
    BY <1>3 DEF call, Takers, Fillers
  <2>3. k' \in Nat /\ k <= k' /\ l' \in Nat /\ l <= l'
    <3>1. /\ Cardinality(Takers \cup {t}) = k + 1
          /\ Cardinality(Fillers \cup {t}) = l + 1
      BY <1>0, <2>2, CountOne
    <3>2. k' = k \/ k' = k + 1
      BY <2>1, <3>1
    <3>3. l' = l \/ l' = l + 1
      BY <2>1, <3>1
    <3>4. QED
      BY <1>0, <3>2, <3>3
  <2>4. QED
    BY <1>0, <1>3, <2>3 DEF call, NobodyStranded
<1>4. ASSUME NEW t \in Threads, acquire(t) PROVE NobodyStranded'
  BY <1>4 DEF acquire, M!Enter, NobodyStranded, Takers, Fillers
<1>5. ASSUME NEW t \in Threads, produce_wait(t) PROVE NobodyStranded'
  <2>1. Takers' = Takers /\ Fillers' = Fillers \ {t}
    BY <1>5 DEF produce_wait, M!Wait, Takers, Fillers
  <2>2. k' = k /\ l' \in Nat
    BY <1>0, <2>1, CountOne
  <2>3. QED
    BY <1>0, <1>5, <2>2 DEF produce_wait, M!Wait, NobodyStranded
<1>6. ASSUME NEW t \in Threads, produce_put(t) PROVE NobodyStranded'
  <2>1. /\ t \notin Takers /\ Takers' = Takers \cup {t}
        /\ t \in Fillers /\ Fillers' = Fillers \ {t}
    BY <1>6 DEF produce_put, Takers, Fillers
  <2>2. k' = k + 1 /\ l' = l - 1
    BY <1>0, <2>1, CountOne
  <2>3. QED
    BY <1>0, <1>6, <2>2 DEF produce_put, NobodyStranded
<1>7. ASSUME NEW t \in Threads, produce_signal(t) PROVE NobodyStranded'
  <2>1. t \in Takers
    BY <1>7 DEF produce_signal, Takers
  <2>2. CASE waiting["cv_consumer"] = {} /\ UNCHANGED monitor
    <3>1. Fillers' = Fillers
      BY <1>7, <2>2 DEF produce_signal, Fillers
    <3>2. QED
      BY <1>7, <2>2, <3>1 DEF produce_signal, NobodyStranded
  <2>3. CASE M!Signal(t, "cv_consumer")
    <3>1. PICK u \in waiting["cv_consumer"] :
            waiting' = [waiting EXCEPT !["cv_consumer"] = @ \ {u}]
      BY <2>3 DEF M!Signal
    <3>2. u \in Threads /\ pc[u] = "consume" /\ u # t
      BY <1>7, <3>1 DEF produce_signal
    <3>3. u \notin Takers \ {t} /\ Takers' = (Takers \ {t}) \cup {u}
      BY <1>7, <3>1, <3>2 DEF produce_signal, Takers
    <3>4. Fillers' = Fillers
      BY <1>7, <3>1, <3>2 DEF produce_signal, Fillers
    <3>5. k' = k
      <4>1. IsFiniteSet(Takers \ {t}) /\ Cardinality(Takers \ {t}) = k - 1
        BY <1>0, <2>1, CountOne
      <4>2. Cardinality((Takers \ {t}) \cup {u}) = Cardinality(Takers \ {t}) + 1
        BY <3>3, <4>1, CountOne
      <4>3. QED
        BY <1>0, <3>3, <4>1, <4>2
    <3>6. QED
      BY <1>7, <3>1, <3>4, <3>5 DEF produce_signal, NobodyStranded
  <2>4. QED
    BY <1>7, <2>2, <2>3 DEF produce_signal, signal
<1>8. ASSUME NEW t \in Threads, consume_wait(t) PROVE NobodyStranded'
  <2>1. Fillers' = Fillers /\ Takers' = Takers \ {t}
    BY <1>8 DEF consume_wait, M!Wait, Takers, Fillers
  <2>2. l' = l /\ k' \in Nat
    BY <1>0, <2>1, CountOne
  <2>3. QED
    BY <1>0, <1>8, <2>2 DEF consume_wait, M!Wait, NobodyStranded
<1>9. ASSUME NEW t \in Threads, consume_take(t) PROVE NobodyStranded'
  <2>1. /\ t \in Takers /\ Takers' = Takers \ {t}
        /\ t \notin Fillers /\ Fillers' = Fillers \cup {t}
    BY <1>9 DEF consume_take, Takers, Fillers
  <2>2. k' = k - 1 /\ l' = l + 1
    BY <1>0, <2>1, CountOne
  <2>3. QED
    BY <1>0, <1>9, <2>2 DEF consume_take, NobodyStranded
<1>10. ASSUME NEW t \in Threads, consume_signal(t) PROVE NobodyStranded'
  <2>1. t \in Fillers
    BY <1>10 DEF consume_signal, Fillers
  <2>2. CASE waiting["cv_producer"] = {} /\ UNCHANGED monitor
    <3>1. Takers' = Takers
      BY <1>10, <2>2 DEF consume_signal, Takers
    <3>2. QED
      BY <1>10, <2>2, <3>1 DEF consume_signal, NobodyStranded
  <2>3. CASE M!Signal(t, "cv_producer")
    <3>1. PICK u \in waiting["cv_producer"] :
            waiting' = [waiting EXCEPT !["cv_producer"] = @ \ {u}]
      BY <2>3 DEF M!Signal
    <3>2. u \in Threads /\ pc[u] = "produce" /\ u # t
      BY <1>10, <3>1 DEF consume_signal
    <3>3. u \notin Fillers \ {t} /\ Fillers' = (Fillers \ {t}) \cup {u}
      BY <1>10, <3>1, <3>2 DEF consume_signal, Fillers
    <3>4. Takers' = Takers
      BY <1>10, <3>1, <3>2 DEF consume_signal, Takers
    <3>5. l' = l
      <4>1. IsFiniteSet(Fillers \ {t}) /\ Cardinality(Fillers \ {t}) = l - 1
        BY <1>0, <2>1, CountOne
      <4>2. Cardinality((Fillers \ {t}) \cup {u}) = Cardinality(Fillers \ {t}) + 1
        BY <3>3, <4>1, CountOne
      <4>3. QED
        BY <1>0, <3>3, <4>1, <4>2
    <3>6. QED
      BY <1>10, <3>1, <3>4, <3>5 DEF consume_signal, NobodyStranded
  <2>4. QED
    BY <1>10, <2>2, <2>3 DEF consume_signal, signal
<1>11. ASSUME NEW t \in Threads, release(t) PROVE NobodyStranded'
  BY <1>11 DEF release, M!Exit, NobodyStranded, Takers, Fillers
<1>12. CASE UNCHANGED vars
  BY <1>12 DEF vars, NobodyStranded, Takers, Fillers
<1>13. QED
  BY <1>1, <1>2, <1>3, <1>4, <1>5, <1>6, <1>7, <1>8, <1>9, <1>10, <1>11,
     <1>12 DEF Next, Run

(* The ring's indices agree, the lock protects them, and nobody is left    *)
(* waiting for a character or a place that no awake thread will take.      *)
THEOREM SharedBufferInvariant == Spec => []BufferInv
<1>1. Init => BufferInv
  <2>1. ASSUME Init PROVE BufferInv
    <3>1. 0 % Size = 0 /\ 0 \in Slots
      BY SharedBufferConstants DEF Slots
    <3>2. TypeOK
      <4>1. created \in BOOLEAN /\ buffer \in [Slots -> Values]
        BY <2>1 DEF Init
      <4>2. in \in Slots /\ out \in Slots /\ count \in 0 .. Size
        BY <2>1, <3>1, SharedBufferConstants DEF Init
      <4>3. holder \in Threads \cup {NULL} /\ waiting \in [CVs -> SUBSET Threads]
        BY <2>1 DEF Init, M!Init
      <4>4. pc \in [Threads -> Locations] /\ char \in [Threads -> Values]
        BY <2>1 DEF Init, Locations
      <4>5. QED
        BY <4>1, <4>2, <4>3, <4>4 DEF TypeOK
    <3>3. LockHeld /\ WaitersMatch /\ CallsNeedBuffer /\ NobodyStranded
      BY <2>1 DEF Init, M!Init, CVs, LockHeld, WaitersMatch,
                  CallsNeedBuffer, NobodyStranded
    <3>4. RingShape
      BY <2>1, <3>1 DEF Init, RingShape
    <3>5. QED
      BY <3>2, <3>3, <3>4 DEF BufferInv
  <2>2. QED
    BY <2>1
<1>2. BufferInv /\ [Next]_vars => BufferInv'
  BY ShapeStep, StrandedStep DEF BufferInv, ShapeInv
<1>3. QED
  BY <1>1, <1>2, PTL DEF Spec

(* Producers and consumers never all sleep, some of each kind: both would  *)
(* need somebody awake to take what is there and to fill what is free, and *)
(* a ring of at least one place has one or the other.                      *)
THEOREM SharedBufferNotAllAsleep == Spec => []NotAllAsleep
<1>1. BufferInv => NotAllAsleep
  <2> SUFFICES ASSUME BufferInv,
                      waiting["cv_producer"] # {}, waiting["cv_consumer"] # {}
               PROVE  \E t \in Threads : pc[t] # "out" /\ ~ M!IsWaiting(t)
    BY DEF NotAllAsleep
  <2>1. /\ Cardinality(Takers) \in Nat /\ Cardinality(Fillers) \in Nat
        /\ count <= Cardinality(Takers) /\ Size - count <= Cardinality(Fillers)
    BY TakersFinite, FS_CardinalityType DEF BufferInv, NobodyStranded
  <2>2. Cardinality(Takers) # 0 \/ Cardinality(Fillers) # 0
    BY <2>1, SharedBufferConstants DEF BufferInv, TypeOK
  <2>3. PICK t : t \in Takers \/ t \in Fillers
    BY <2>2, TakersFinite, FS_EmptySet
  <2>4. QED
    BY <2>3 DEF Takers, Fillers, BufferInv, WaitersMatch, M!IsWaiting, CVs
<1>2. QED
  BY <1>1, SharedBufferInvariant, PTL

----------------------------------------------------------------------------
(* The ring as a queue *)

(* n characters of the ring r from place o on.                             *)
RingSeq(r, o, n) == [i \in 1 .. n |-> r[(o + i - 1) % Size]]

LEMMA RingSeqType ==
  ASSUME NEW r \in [Slots -> Values], NEW o \in Slots, NEW n \in 0 .. Size
  PROVE  /\ RingSeq(r, o, n) \in Seq(Values)
         /\ Len(RingSeq(r, o, n)) = n
         /\ \A i \in 1 .. n : RingSeq(r, o, n)[i] = r[(o + i - 1) % Size]
<1>1. ASSUME NEW i \in 1 .. n PROVE (o + i - 1) % Size \in Slots
  BY SharedBufferConstants DEF Slots
<1>2. RingSeq(r, o, n) \in [1 .. n -> Values]
  BY <1>1 DEF RingSeq
<1>3. n \in Nat
  BY SharedBufferConstants
<1>4. RingSeq(r, o, n) \in Seq(Values)
  BY <1>2, <1>3, SeqDef
<1>5. Len(RingSeq(r, o, n)) = n
  BY <1>2, <1>3, <1>4, LenProperties
<1>6. QED
  BY <1>4, <1>5 DEF RingSeq

(* Different places of a ring that is not full are different slots.        *)
LEMMA RingDistinct ==
  ASSUME NEW n \in Nat \ {0}, NEW o \in 0 .. n - 1, NEW k \in 0 .. n - 1,
         NEW i \in 1 .. k
  PROVE  (o + i - 1) % n # (o + k) % n
<1>1. (o + k) % n = IF o + k < n THEN o + k ELSE o + k - n
  OBVIOUS
<1>2. (o + i - 1) % n = IF o + i - 1 < n THEN o + i - 1 ELSE o + i - 1 - n
  OBVIOUS
<1>3. QED
  BY <1>1, <1>2

(* Writing behind the last character, in r2, appends it.                   *)
LEMMA RingAppend ==
  ASSUME NEW r \in [Slots -> Values], NEW r2 \in [Slots -> Values],
         NEW o \in Slots, NEW n \in 0 .. Size - 1, NEW m, NEW j,
         m = n + 1, j = (o + n) % Size,
         \A s \in Slots : s # j => r2[s] = r[s]
  PROVE  RingSeq(r2, o, m) = Append(RingSeq(r, o, n), r2[j])
<1> DEFINE q == RingSeq(r, o, n)
           q2 == RingSeq(r2, o, m)
           v == r2[j]
<1>1. n \in 0 .. Size /\ m \in 0 .. Size
  BY SharedBufferConstants
<1>2. /\ q \in Seq(Values) /\ Len(q) = n
      /\ \A i \in 1 .. n : q[i] = r[(o + i - 1) % Size]
  BY <1>1, RingSeqType
<1>3. /\ q2 \in Seq(Values) /\ Len(q2) = m
      /\ \A i \in 1 .. m : q2[i] = r2[(o + i - 1) % Size]
  BY <1>1, RingSeqType
<1> HIDE DEF q, q2
<1>4. j \in Slots /\ v \in Values
  BY SharedBufferConstants DEF Slots
<1>5. ASSUME NEW i \in 1 .. n PROVE q2[i] = q[i]
  <2>1. (o + i - 1) % Size \in Slots /\ (o + i - 1) % Size # j
    BY RingDistinct, SharedBufferConstants DEF Slots
  <2>2. r2[(o + i - 1) % Size] = r[(o + i - 1) % Size]
    BY <2>1
  <2>3. i \in 1 .. m
    OBVIOUS
  <2>4. QED
    BY <1>2, <1>3, <2>2, <2>3
<1>6. q2[m] = v
  <2>1. o + m - 1 = o + n /\ m \in 1 .. m
    BY DEF Slots
  <2>2. QED
    BY <1>3, <2>1
<1> HIDE DEF v
<1>7. q2 = Append(q, v)
  <2>1. /\ Append(q, v) \in Seq(Values) /\ Len(Append(q, v)) = m
        /\ \A i \in 1 .. n : Append(q, v)[i] = q[i]
        /\ Append(q, v)[m] = v
    BY <1>2, <1>4
  <2>2. ASSUME NEW i \in 1 .. m PROVE q2[i] = Append(q, v)[i]
    BY <1>5, <1>6, <2>1
  <2>3. QED
    BY <1>3, <2>1, <2>2, SeqEqual
<1>8. QED
  BY <1>7 DEF q, q2, v

(* Moving out one place on takes the first character off.                  *)
LEMMA RingTail ==
  ASSUME NEW r \in [Slots -> Values], NEW o \in Slots, NEW n \in 1 .. Size
  PROVE  /\ RingSeq(r, o, n) # <<>>
         /\ Head(RingSeq(r, o, n)) = r[o]
         /\ RingSeq(r, (o + 1) % Size, n - 1) = Tail(RingSeq(r, o, n))
<1> DEFINE o2 == (o + 1) % Size
           q == RingSeq(r, o, n)
           q2 == RingSeq(r, o2, n - 1)
<1>1. o2 \in Slots /\ n \in 0 .. Size /\ n - 1 \in 0 .. Size
  BY SharedBufferConstants DEF Slots
<1>2. /\ q \in Seq(Values) /\ Len(q) = n
      /\ \A i \in 1 .. n : q[i] = r[(o + i - 1) % Size]
  BY <1>1, RingSeqType
<1>3. /\ q2 \in Seq(Values) /\ Len(q2) = n - 1
      /\ \A i \in 1 .. n - 1 : q2[i] = r[(o2 + i - 1) % Size]
  BY <1>1, RingSeqType
<1> HIDE DEF q, q2
<1>4. q # <<>>
  BY <1>2
<1>5. Head(q) = r[o]
  <2>1. (o + 1 - 1) % Size = o
    BY SharedBufferConstants DEF Slots
  <2>2. q[1] = r[o]
    BY <1>2, <2>1
  <2>3. QED
    BY <1>2, <1>4, <2>2
<1>6. q2 = Tail(q)
  <2>1. /\ Tail(q) \in Seq(Values) /\ Len(Tail(q)) = n - 1
        /\ \A i \in 1 .. n - 1 : Tail(q)[i] = q[i + 1]
    BY <1>2, <1>4, HeadTailProperties
  <2>2. ASSUME NEW i \in 1 .. n - 1 PROVE q2[i] = Tail(q)[i]
    <3>1. PICK j \in 1 .. Size : j = i
      BY SharedBufferConstants
    <3>2. (o2 + (j - 1)) % Size = (o + j) % Size
      BY RingFirst, SharedBufferConstants DEF Slots
    <3>3. o2 + i - 1 = o2 + (j - 1) /\ o + (i + 1) - 1 = o + j
      BY <1>1, <3>1 DEF Slots
    <3>4. q2[i] = r[(o + j) % Size]
      BY <1>3, <3>2, <3>3
    <3>5. q[i + 1] = r[(o + j) % Size]
      BY <1>2, <3>3
    <3>6. QED
      BY <2>1, <3>4, <3>5
  <2>3. QED
    BY <1>3, <2>1, <2>2, SeqEqual
<1>7. QED
  BY <1>4, <1>5, <1>6 DEF q, q2

(* The characters of a buffer that exists, as the lemmas speak of them.    *)
LEMMA QueueIsRing ==
  /\ created => Queue = RingSeq(buffer, out, count)
  /\ ~ created => Queue = <<>>
  BY DEF Queue, RingSeq

LEMMA FifoStep == BufferInv /\ [Next]_vars => [Fifo!Next]_(Fifo!vars)
<1> SUFFICES ASSUME BufferInv, [Next]_vars PROVE [Fifo!Next]_(Fifo!vars)
  OBVIOUS
<1> USE SharedBufferConstants
    DEF BufferInv, TypeOK, Locations, CallsNeedBuffer, ring, monitor, Goto
<1>1. ASSUME shared_buffer_create PROVE UNCHANGED Fifo!vars
  <2>1. Queue = <<>> /\ Queue' = <<>>
    BY <1>1 DEF shared_buffer_create, Queue
  <2>2. QED
    BY <1>1, <2>1 DEF shared_buffer_create, Fifo!vars, Op
<1>2. ASSUME shared_buffer_destroy PROVE Fifo!Destroy
  BY <1>2 DEF shared_buffer_destroy, Fifo!Destroy, Queue, Op
<1>3. ASSUME NEW t \in Threads, call(t) PROVE Fifo!Call(t)
  <2>1. Queue' = Queue
    BY <1>3 DEF call, Queue
  <2>2. Op[t] = "none"
    BY <1>3 DEF call, Op
  <2>3. CASE Goto(t, "out", "produce")
    <3>1. Op' = [Op EXCEPT ![t] = "produce"]
      BY <2>3 DEF Op
    <3>2. QED
      BY <1>3, <2>1, <2>2, <2>3, <3>1 DEF call, Fifo!Call
  <2>4. CASE Goto(t, "out", "consume")
    <3>1. Op' = [Op EXCEPT ![t] = "consume"]
      BY <2>4 DEF Op
    <3>2. QED
      BY <1>3, <2>1, <2>2, <2>4, <3>1 DEF call, Fifo!Call
  <2>5. QED
    BY <1>3, <2>3, <2>4 DEF call
<1>4. ASSUME NEW t \in Threads, acquire(t) PROVE UNCHANGED Fifo!vars
  BY <1>4 DEF acquire, Fifo!vars, Queue, Op
<1>5. ASSUME NEW t \in Threads, produce_wait(t) PROVE UNCHANGED Fifo!vars
  BY <1>5 DEF produce_wait, Fifo!vars, Queue, Op
<1>6. ASSUME NEW t \in Threads, produce_put(t) PROVE Fifo!Put(t)
  <2>1. created /\ created' /\ count \in 0 .. Size - 1
    BY <1>6 DEF produce_put
  <2>2. Len(Queue) < Size
    <3>1. Len(RingSeq(buffer, out, count)) = count
      BY RingSeqType
    <3>2. QED
      BY <2>1, <3>1, QueueIsRing
  <2>3. Queue' = Append(Queue, char[t])
    <3>1. /\ buffer' = [buffer EXCEPT ![in] = char[t]]
          /\ in = (out + count) % Size
          /\ out' = out /\ count' = count + 1
      BY <1>6 DEF produce_put, RingShape
    <3>2. Queue' = RingSeq(buffer', out, count')
      BY <2>1, <3>1 DEF Queue, RingSeq
    <3>3. /\ buffer \in [Slots -> Values] /\ buffer' \in [Slots -> Values]
          /\ buffer'[in] = char[t]
          /\ \A s \in Slots : s # in => buffer'[s] = buffer[s]
      BY <3>1
    <3>4. RingSeq(buffer', out, count') = Append(RingSeq(buffer, out, count), buffer'[in])
      <4>1. out \in Slots /\ count' = count + 1 /\ in = (out + count) % Size
        BY <3>1
      <4>2. QED
        BY ONLY <2>1, <3>3, <4>1, RingAppend
    <3>5. QED
      BY <2>1, <3>2, <3>3, <3>4, QueueIsRing
  <2>4. Op[t] = "produce" /\ Op' = [Op EXCEPT ![t] = "done"]
    BY <1>6 DEF produce_put, Op
  <2>5. QED
    BY <1>6, <2>2, <2>3, <2>4 DEF produce_put, Fifo!Put
<1>7. ASSUME NEW t \in Threads, produce_signal(t) PROVE UNCHANGED Fifo!vars
  BY <1>7 DEF produce_signal, Fifo!vars, Queue, Op
<1>8. ASSUME NEW t \in Threads, consume_wait(t) PROVE UNCHANGED Fifo!vars
  BY <1>8 DEF consume_wait, Fifo!vars, Queue, Op
<1>9. ASSUME NEW t \in Threads, consume_take(t) PROVE Fifo!Get(t)
  <2>1. created /\ created' /\ count \in 1 .. Size
    BY <1>9 DEF consume_take
  <2>2. Queue = RingSeq(buffer, out, count)
    BY <2>1, QueueIsRing
  <2>3. Queue # <<>> /\ Head(Queue) = buffer[out]
    BY <2>1, <2>2, RingTail
  <2>4. Queue' = Tail(Queue)
    <3>1. RingSeq(buffer, (out + 1) % Size, count - 1) = Tail(Queue)
      BY <2>1, <2>2, RingTail
    <3>2. Queue' = RingSeq(buffer', out', count')
      BY <2>1 DEF Queue, RingSeq
    <3>3. buffer' = buffer /\ out' = (out + 1) % Size /\ count' = count - 1
      BY <1>9 DEF consume_take
    <3>4. QED
      BY <3>1, <3>2, <3>3
  <2>5. Op[t] = "consume" /\ Op' = [Op EXCEPT ![t] = "done"]
    BY <1>9 DEF consume_take, Op
  <2>6. QED
    BY <1>9, <2>3, <2>4, <2>5 DEF consume_take, Fifo!Get
<1>10. ASSUME NEW t \in Threads, consume_signal(t) PROVE UNCHANGED Fifo!vars
  BY <1>10 DEF consume_signal, Fifo!vars, Queue, Op
<1>11. ASSUME NEW t \in Threads, release(t) PROVE Fifo!Return(t)
  BY <1>11 DEF release, Fifo!Return, Queue, Op
<1>12. CASE UNCHANGED vars
  BY <1>12 DEF vars, Fifo!vars, Queue, Op
<1>13. QED
  BY <1>1, <1>2, <1>3, <1>4, <1>5, <1>6, <1>7, <1>8, <1>9, <1>10, <1>11,
     <1>12 DEF Next, Run, Fifo!Next

(* Whatever the size and however many threads: the ring implements the     *)
(* bounded queue of shared_buffer.h, each call taking effect once, in      *)
(* order.                                                                  *)
THEOREM SharedBufferImplementsFifo == Spec => ImplementsFifo
<1>1. Init => Fifo!Init
  BY DEF Init, Fifo!Init, Queue, Op
<1>2. QED
  BY <1>1, FifoStep, SharedBufferInvariant, PTL DEF Spec, Fifo!Spec, ImplementsFifo

============================================================================
