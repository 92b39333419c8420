---------------------------- MODULE ConsoleProofs --------------------------
(* Proofs about the console, for any number of users, routes and polled    *)
(* printers, lines of any length and a ring buffer of any size.            *)
EXTENDS Console, FiniteSetTheorems, SequenceTheorems, TLAPS

----------------------------------------------------------------------------
(* Arithmetic of the ring *)

(* How far h is ahead of t on a ring of n places.                          *)
LEMMA RingAhead ==
  ASSUME NEW n \in Nat \ {0}, NEW h \in 0 .. n - 1, NEW t \in 0 .. n - 1
  PROVE  (h - t) % n = IF h >= t THEN h - t ELSE h - t + n
OBVIOUS

(* The next place.                                                         *)
LEMMA RingNext ==
  ASSUME NEW n \in Nat \ {0}, NEW h \in 0 .. n - 1
  PROVE  (h + 1) % n = IF h + 1 < n THEN h + 1 ELSE 0
OBVIOUS

(* k places on.                                                            *)
LEMMA RingOn ==
  ASSUME NEW n \in Nat \ {0}, NEW t \in 0 .. n - 1, NEW k \in 0 .. n
  PROVE  (t + k) % n = IF t + k < n THEN t + k ELSE t + k - n
OBVIOUS

(* One place more for the head, while that does not meet the tail.         *)
LEMMA RingIn ==
  ASSUME NEW n \in Nat \ {0}, NEW h \in 0 .. n - 1, NEW t \in 0 .. n - 1,
         (h + 1) % n # t
  PROVE  /\ (((h + 1) % n) - t) % n = ((h - t) % n) + 1
         /\ (h + 1) % n \in 0 .. n - 1
<1>0. (h + 1) % n \in 0 .. n - 1
  OBVIOUS
<1>1. PICK k \in 0 .. n - 1 : k = (h + 1) % n
  BY <1>0
<1>2. (k - t) % n = IF k >= t THEN k - t ELSE k - t + n
  BY RingAhead
<1>3. k = IF h + 1 < n THEN h + 1 ELSE 0
  BY <1>1, RingNext
<1>4. (k - t) % n = ((h - t) % n) + 1
  BY <1>1, <1>2, <1>3, RingAhead
<1>5. QED
  BY <1>1, <1>4

(* One place more for the tail, while there is one.                        *)
LEMMA RingOut ==
  ASSUME NEW n \in Nat \ {0}, NEW h \in 0 .. n - 1, NEW t \in 0 .. n - 1,
         (h - t) % n >= 1
  PROVE  /\ (h - ((t + 1) % n)) % n = ((h - t) % n) - 1
         /\ (t + 1) % n \in 0 .. n - 1
<1>1. PICK k \in 0 .. n - 1 : k = (t + 1) % n
  BY RingNext
<1>2. (h - k) % n = IF h >= k THEN h - k ELSE h - k + n
  BY RingAhead
<1>3. k = IF t + 1 < n THEN t + 1 ELSE 0
  BY <1>1, RingNext
<1>4. (h - k) % n = ((h - t) % n) - 1
  <2>1. PICK d \in Nat : d = (h - t) % n /\ d >= 1
    OBVIOUS
  <2>2. d = IF h >= t THEN h - t ELSE h - t + n
    BY <2>1, RingAhead
  <2>3. CASE t + 1 < n
    <3>1. k = t + 1
      BY <1>3, <2>3
    <3>2. (h - k) % n = d - 1
      BY <1>2, <2>1, <2>2, <3>1
    <3>3. QED
      BY <2>1, <3>2
  <2>4. CASE t + 1 = n
    <3>1. k = 0 /\ h <= t
      BY <1>3, <2>4
    <3>2. (h - k) % n = d - 1
      BY <1>2, <2>1, <2>2, <2>4, <3>1
    <3>3. QED
      BY <2>1, <3>2
  <2>5. QED
    BY <2>3, <2>4
<1>5. QED
  BY <1>1, <1>4

----------------------------------------------------------------------------
(* Counting users *)

(* One more or one less in a finite set.                                   *)
LEMMA CountOne ==
  ASSUME NEW S, IsFiniteSet(S), NEW x
  PROVE  /\ Cardinality(S) \in Nat
         /\ x \notin S => Cardinality(S \cup {x}) = Cardinality(S) + 1
         /\ x \in S => Cardinality(S \ {x}) = Cardinality(S) - 1
         /\ x \in S => Cardinality(S) >= 1
<1>1. IsFiniteSet(S \cup {x}) /\ IsFiniteSet(S \ {x})
  BY FS_AddElement, FS_RemoveElement
<1>2. Cardinality(S) \in Nat /\ Cardinality(S \ {x}) \in Nat
  BY <1>1, FS_CardinalityType
<1>3. Cardinality(S \cup {x}) = IF x \in S THEN Cardinality(S) ELSE Cardinality(S) + 1
  BY FS_AddElement
<1>4. Cardinality(S \ {x}) = IF x \in S THEN Cardinality(S) - 1 ELSE Cardinality(S)
  BY FS_RemoveElement
<1>5. QED
  BY <1>2, <1>3, <1>4

(* The sets counted are finite.                                            *)
LEMMA UsersFinite ==
  /\ IsFiniteSet(Senders) /\ Cardinality(Senders) \in Nat
  /\ IsFiniteSet(Takers) /\ Cardinality(Takers) \in Nat
<1>1. Senders \subseteq Users /\ Takers \subseteq Users
  BY DEF Senders, Takers
<1>2. QED
  BY <1>1, FS_Subset, FS_CardinalityType, ConsoleAssumption DEF Users

(* A user goes from one place to another: who has leave to write or was    *)
(* promised a character.                                                   *)
LEMMA UserMoves ==
  ASSUME TypeOK, NEW u \in Users, NEW l \in Locations, pc' = [pc EXCEPT ![u] = l]
  PROVE  /\ l = "send" /\ pc[u] # "send" => Cardinality(Senders') = Cardinality(Senders) + 1
         /\ l # "send" /\ pc[u] = "send" => Cardinality(Senders') = Cardinality(Senders) - 1
         /\ (l = "send" <=> pc[u] = "send") => Cardinality(Senders') = Cardinality(Senders)
         /\ l \in {"take", "advance"} /\ pc[u] \notin {"take", "advance"}
              => Cardinality(Takers') = Cardinality(Takers) + 1
         /\ l \notin {"take", "advance"} /\ pc[u] \in {"take", "advance"}
              => Cardinality(Takers') = Cardinality(Takers) - 1
         /\ (l \in {"take", "advance"} <=> pc[u] \in {"take", "advance"})
              => Cardinality(Takers') = Cardinality(Takers)
<1>1. pc'[u] = l /\ \A v \in Users : v # u => pc'[v] = pc[v]
  BY DEF TypeOK, Threads
<1>2. ASSUME l = "send", pc[u] # "send" PROVE Cardinality(Senders') = Cardinality(Senders) + 1
  <2>1. Senders' = Senders \cup {u} /\ u \notin Senders
    BY <1>1, <1>2 DEF Senders
  <2>2. QED
    BY <2>1, UsersFinite, CountOne
<1>3. ASSUME l # "send", pc[u] = "send" PROVE Cardinality(Senders') = Cardinality(Senders) - 1
  <2>1. Senders' = Senders \ {u} /\ u \in Senders
    BY <1>1, <1>3 DEF Senders
  <2>2. QED
    BY <2>1, UsersFinite, CountOne
<1>4. ASSUME l = "send" <=> pc[u] = "send" PROVE Cardinality(Senders') = Cardinality(Senders)
  <2>1. Senders' = Senders
    BY <1>1, <1>4 DEF Senders
  <2>2. QED
    BY <2>1
<1>5. ASSUME l \in {"take", "advance"}, pc[u] \notin {"take", "advance"} PROVE Cardinality(Takers') = Cardinality(Takers) + 1
  <2>1. Takers' = Takers \cup {u} /\ u \notin Takers
    BY <1>1, <1>5 DEF Takers
  <2>2. QED
    BY <2>1, UsersFinite, CountOne
<1>6. ASSUME l \notin {"take", "advance"}, pc[u] \in {"take", "advance"} PROVE Cardinality(Takers') = Cardinality(Takers) - 1
  <2>1. Takers' = Takers \ {u} /\ u \in Takers
    BY <1>1, <1>6 DEF Takers
  <2>2. QED
    BY <2>1, UsersFinite, CountOne
<1>7. ASSUME l \in {"take", "advance"} <=> pc[u] \in {"take", "advance"} PROVE Cardinality(Takers') = Cardinality(Takers)
  <2>1. Takers' = Takers
    BY <1>1, <1>7 DEF Takers
  <2>2. QED
    BY <2>1
<1>8. QED
  BY <1>2, <1>3, <1>4, <1>5, <1>6, <1>7

(* A polled printer's steps, or the handler's, move no user.               *)
LEMMA NoUserMoves ==
  ASSUME TypeOK, \/ pc' = pc
                 \/ \E p \in Polled, l \in Locations : pc' = [pc EXCEPT ![p] = l]
  PROVE  Senders' = Senders /\ Takers' = Takers /\ InHand' = InHand
<1>1. \A v \in Users : pc'[v] = pc[v]
  BY ConsoleAssumption DEF TypeOK, Threads, Users
<1>2. QED
  BY <1>1 DEF Senders, Takers, InHand

----------------------------------------------------------------------------
(* Types *)

(* What TypeOK says but for the bounds of the semaphores, which follow     *)
(* from what is counted.                                                   *)
Shape ==
  /\ pc \in [Threads -> Locations]
  /\ left \in [Users -> 0 .. LineLen]
  /\ userlock \in [Routes -> Users \cup {NULL}]
  /\ cs_wsem \in Nat /\ cs_rsem \in Nat
  /\ cs_gotchars \in [Slots -> 0 .. MaxInput]
  /\ cs_gotchars_head \in Slots /\ cs_gotchars_tail \in Slots
  /\ ls_lock \in Polled \cup {NULL} /\ ls_wbusy \in BOOLEAN
  /\ wirq \in [enable : BOOLEAN, ready : BOOLEAN, force : BOOLEAN]
  /\ sending \in BOOLEAN /\ typed \in 0 .. MaxInput
  /\ rchar \in 1 .. MaxInput \cup {NULL}
  /\ irq \in [start : BOOLEAN, input : 1 .. MaxInput \cup {NULL}, v : BOOLEAN]
  /\ out \in Seq(Threads)
  /\ kept \in Seq(0 .. MaxInput) /\ got \in Seq(0 .. MaxInput)

(* TypeOK says all of it.                                                  *)
LEMMA ShapeOfType == TypeOK => Shape
  BY ConsoleAssumption DEF TypeOK, Shape

(* Every step keeps the shape.                                             *)
LEMMA ShapeStep ==
  ASSUME Shape, TransfersLocked, Next
  PROVE  Shape'
<1> USE ConsoleAssumption DEF Shape, user, output, input, Goto
<1>1. ASSUME NEW u \in Users, user_lock(u) PROVE Shape'
  BY <1>1 DEF user_lock, Locations, Threads, Routes
<1>2. ASSUME NEW u \in Users, user_unlock(u) PROVE Shape'
  BY <1>2 DEF user_unlock, Locations, Threads, Routes
<1>3. ASSUME NEW u \in Users, putch_intr(u) PROVE Shape'
  BY <1>3 DEF putch_intr, Locations, Threads
<1>4. ASSUME NEW u \in Users, lser_write(u) PROVE Shape'
  <2>1. u \in Threads /\ left[u] - 1 \in 0 .. LineLen
    BY <1>4 DEF lser_write, TransfersLocked, Threads
  <2>2. Append(out, u) \in Seq(Threads)
    BY <2>1
  <2>3. pc' \in [Threads -> Locations]
    <3>1. PICK l \in {"panic", "putch"} : pc' = [pc EXCEPT ![u] = l]
      BY <1>4 DEF lser_write
    <3>2. l \in Locations
      BY DEF Locations
    <3>3. QED
      BY <2>1, <3>1, <3>2
  <2>4. CASE ls_wbusy
    BY <1>4, <2>3, <2>4 DEF lser_write
  <2>5. CASE ~ ls_wbusy
    <3>1. left' \in [Users -> 0 .. LineLen]
      BY <1>4, <2>1, <2>5 DEF lser_write
    <3>2. QED
      BY <1>4, <2>2, <2>3, <2>5, <3>1 DEF lser_write, SendChar
  <2>6. QED
    BY <2>4, <2>5
<1>5. ASSUME NEW u \in Users, getch_intr(u) PROVE Shape'
  BY <1>5 DEF getch_intr, Locations, Threads
<1>6. ASSUME NEW u \in Users, getch_take(u) PROVE Shape'
  <2>1. Append(got, cs_gotchars[cs_gotchars_tail]) \in Seq(0 .. MaxInput)
    OBVIOUS
  <2>2. QED
    BY <1>6, <2>1 DEF getch_take, Locations, Threads
<1>7. ASSUME NEW u \in Users, getch_advance(u) PROVE Shape'
  <2>1. left[u] - 1 \in 0 .. LineLen
    BY <1>7 DEF getch_advance, TransfersLocked
  <2>2. Next1(cs_gotchars_tail) \in Slots
    BY DEF Next1, Slots
  <2>3. left' \in [Users -> 0 .. LineLen]
    <3>1. PICK k : /\ left' = [left EXCEPT ![u] = k]
                   /\ k \in {0, 1, left[u] - 1}
      BY <1>7 DEF getch_advance
    <3>2. k \in 0 .. LineLen
      BY <2>1, <3>1
    <3>3. QED
      BY <3>1, <3>2
  <2>4. pc' \in [Threads -> Locations]
    BY <1>7 DEF getch_advance, Locations, Threads
  <2>5. QED
    BY <1>7, <2>2, <2>3, <2>4 DEF getch_advance
<1>8. ASSUME NEW u \in Users, user_fail(u) PROVE Shape'
  BY <1>8 DEF user_fail
<1>9. ASSUME NEW p \in Polled, PolledStep(p) PROVE Shape'
  <2>1. p \in Threads /\ Append(out, p) \in Seq(Threads)
    BY DEF Threads
  <2>2. CASE writepolled_idle(p)
    BY <2>1, <2>2 DEF writepolled_idle, SendChar, WIRQ, Locations
  <2>3. CASE writepolled_busy(p)
    BY <2>1, <2>3 DEF writepolled_busy, Locations
  <2>4. CASE writepolled_drain(p)
    BY <2>1, <2>4 DEF writepolled_drain, SendChar, WIRQ, Locations
  <2>5. CASE writepolled_done(p)
    BY <2>1, <2>5 DEF writepolled_done, WIRQ, Locations
  <2>6. QED
    BY <1>9, <2>2, <2>3, <2>4, <2>5 DEF PolledStep
<1>10. ASSUME lser_irq PROVE Shape'
  BY <1>10 DEF lser_irq, WIRQ
<1>11. ASSUME con_start PROVE Shape'
  <2>1. irq' \in [start : BOOLEAN, input : 1 .. MaxInput \cup {NULL}, v : BOOLEAN]
    BY <1>11 DEF con_start
  <2>2. cs_wsem' \in Nat
    BY <1>11 DEF con_start
  <2>3. QED
    BY <1>11, <2>1, <2>2 DEF con_start
<1>12. ASSUME con_input PROVE Shape'
  <2>1. irq.input \in 1 .. MaxInput /\ irq.input \in 0 .. MaxInput
    BY <1>12 DEF con_input
  <2>2. Append(kept, irq.input) \in Seq(0 .. MaxInput)
    BY <2>1
  <2>3. Next1(cs_gotchars_head) \in Slots
    BY DEF Next1, Slots
  <2>4. BufferFull \in BOOLEAN
    BY DEF BufferFull
  <2>5. irq' \in [start : BOOLEAN, input : 1 .. MaxInput \cup {NULL}, v : BOOLEAN]
    BY <1>12, <2>4 DEF con_input
  <2>6. CASE BufferFull
    BY <1>12, <2>5, <2>6 DEF con_input
  <2>7. CASE ~ BufferFull
    BY <1>12, <2>1, <2>2, <2>3, <2>5, <2>7 DEF con_input
  <2>8. QED
    BY <2>6, <2>7
<1>13. ASSUME con_input_v PROVE Shape'
  <2>1. irq' \in [start : BOOLEAN, input : 1 .. MaxInput \cup {NULL}, v : BOOLEAN]
    BY <1>13 DEF con_input_v
  <2>2. cs_rsem' \in Nat
    BY <1>13 DEF con_input_v
  <2>3. QED
    BY <1>13, <2>1, <2>2 DEF con_input_v
<1>14. ASSUME DeviceSent PROVE Shape'
  BY <1>14 DEF DeviceSent
<1>15. ASSUME DeviceTyped PROVE Shape'
  BY <1>15 DEF DeviceTyped
<1>16. QED
  BY <1>1, <1>2, <1>3, <1>4, <1>5, <1>6, <1>7, <1>8, <1>9, <1>10, <1>11, <1>12, <1>13,
     <1>14, <1>15
     DEF Next, UserStep, Handler

----------------------------------------------------------------------------
(* Locks *)

(* Who has leave to write finds the device free.                           *)
LEMMA LeaveMeansFree ==
  ASSUME Shape, OneLeaveToWrite, NEW u \in Users, pc[u] = "send"
  PROVE  ~ ls_wbusy /\ ~ irq.start /\ cs_wsem = 0 /\ Cardinality(Senders) = 1
<1>1. u \in Senders
  BY DEF Senders
<1>2. Cardinality(Senders) \in Nat /\ Cardinality(Senders) >= 1
  BY <1>1, UsersFinite, CountOne
<1>3. /\ cs_wsem \in Nat
      /\ cs_wsem + Cardinality(Senders) + Count(ls_wbusy) + Count(irq.start) = 1
      /\ Count(ls_wbusy) \in {0, 1} /\ Count(irq.start) \in {0, 1}
      /\ Count(ls_wbusy) = 0 => ~ ls_wbusy
      /\ Count(irq.start) = 0 => ~ irq.start
  BY DEF Shape, OneLeaveToWrite, Count
<1>4. QED
  BY <1>2, <1>3

(* A step inside a transfer.                                               *)
LEMMA TransferGoesOn ==
  ASSUME TransfersLocked, userlock' = userlock, NEW u \in Users,
         \A v \in Users : v # u => pc'[v] = pc[v] /\ left'[v] = left[v],
         pc[u] \in Transferring, pc'[u] \in Transferring,
         pc'[u] \in {"send", "take", "advance"} => left'[u] > 0,
         pc'[u] \in {"getch", "take", "advance"} => u \in Readers
  PROVE  TransfersLocked'
<1>1. ASSUME NEW v \in Users
      PROVE  /\ pc'[v] \in Transferring \cup {"start", "done"}
             /\ pc'[v] \in Transferring <=> userlock'[Route[v]] = v
             /\ pc'[v] \in {"send", "take", "advance"} => left'[v] > 0
             /\ pc'[v] \in {"getch", "take", "advance"} => v \in Readers
  <2>1. CASE v = u
    BY <2>1 DEF TransfersLocked
  <2>2. CASE v # u
    BY <2>2 DEF TransfersLocked
  <2>3. QED
    BY <2>1, <2>2
<1>2. QED
  BY <1>1 DEF TransfersLocked

(* Every step keeps to the locks.                                          *)
LEMMA LockedStep ==
  ASSUME Shape, TransfersLocked, OneLeaveToWrite, Next
  PROVE  TransfersLocked'
<1> USE ConsoleAssumption DEF Goto
<1>0. ASSUME NEW u \in Users PROVE Route[u] \in Routes /\ u \in Threads /\ u # NULL
  BY DEF Routes, Threads, Users
<1>1. ASSUME NEW u \in Users, user_lock(u) PROVE TransfersLocked'
  <2>1. /\ pc[u] = "start" /\ userlock[Route[u]] = NULL /\ left' = left
        /\ pc'[u] \in {"putch", "getch"} /\ (pc'[u] = "getch" => u \in Readers)
        /\ \A v \in Users : v # u => pc'[v] = pc[v]
        /\ \A r \in Routes : userlock'[r] = IF r = Route[u] THEN u ELSE userlock[r]
    BY <1>1, <1>0 DEF user_lock, Shape, Users
  <2>2. QED
    BY <1>0, <2>1 DEF TransfersLocked, Transferring
<1>2. ASSUME NEW u \in Users, user_unlock(u) PROVE TransfersLocked'
  <2>1. /\ pc[u] \in {"putch", "getch"} /\ left' = left /\ pc'[u] = "done"
        /\ \A v \in Users : v # u => pc'[v] = pc[v]
        /\ \A r \in Routes : userlock'[r] = IF r = Route[u] THEN NULL ELSE userlock[r]
    BY <1>2, <1>0 DEF user_unlock, Shape
  <2>2. userlock[Route[u]] = u
    BY <2>1 DEF TransfersLocked, Transferring
  <2>3. QED
    BY <1>0, <2>1, <2>2 DEF TransfersLocked, Transferring
<1>3. ASSUME NEW u \in Users, putch_intr(u) PROVE TransfersLocked'
  <2>1. /\ pc[u] = "putch" /\ pc'[u] = "send" /\ left' = left /\ left[u] > 0 /\ userlock' = userlock
        /\ \A v \in Users : v # u => pc'[v] = pc[v]
    BY <1>3, <1>0 DEF putch_intr, Shape
  <2>2. QED
    BY <2>1, TransferGoesOn DEF Transferring
<1>4. ASSUME NEW u \in Users, lser_write(u) PROVE TransfersLocked'
  <2>1. ~ ls_wbusy
    BY <1>4, LeaveMeansFree DEF lser_write
  <2>2. /\ pc[u] = "send" /\ pc'[u] = "putch" /\ userlock' = userlock
        /\ \A v \in Users : v # u => pc'[v] = pc[v] /\ left'[v] = left[v]
    BY <1>4, <1>0, <2>1 DEF lser_write, Shape
  <2>3. QED
    BY <2>2, TransferGoesOn DEF Transferring
<1>5. ASSUME NEW u \in Users, getch_intr(u) PROVE TransfersLocked'
  <2>1. /\ pc[u] = "getch" /\ pc'[u] = "take" /\ left' = left /\ left[u] > 0 /\ userlock' = userlock
        /\ \A v \in Users : v # u => pc'[v] = pc[v]
    BY <1>5, <1>0 DEF getch_intr, Shape
  <2>2. u \in Readers
    BY <2>1 DEF TransfersLocked
  <2>3. QED
    BY <2>1, <2>2, TransferGoesOn DEF Transferring
<1>6. ASSUME NEW u \in Users, getch_take(u) PROVE TransfersLocked'
  <2>1. /\ pc[u] = "take" /\ pc'[u] = "advance" /\ left' = left /\ userlock' = userlock
        /\ \A v \in Users : v # u => pc'[v] = pc[v]
    BY <1>6, <1>0 DEF getch_take, Shape
  <2>2. u \in Readers /\ left[u] > 0
    BY <2>1 DEF TransfersLocked
  <2>3. QED
    BY <2>1, <2>2, TransferGoesOn DEF Transferring
<1>7. ASSUME NEW u \in Users, getch_advance(u) PROVE TransfersLocked'
  <2>1. /\ pc[u] = "advance" /\ pc'[u] \in {"putch", "getch"} /\ userlock' = userlock
        /\ \A v \in Users : v # u => pc'[v] = pc[v] /\ left'[v] = left[v]
    BY <1>7, <1>0 DEF getch_advance, Shape
  <2>2. u \in Readers
    BY <2>1 DEF TransfersLocked
  <2>3. QED
    BY <2>1, <2>2, TransferGoesOn DEF Transferring
<1>8. ASSUME NEW u \in Users, user_fail(u) PROVE TransfersLocked'
  <2>1. /\ pc[u] \in {"putch", "getch"} /\ pc' = pc /\ userlock' = userlock
        /\ \A v \in Users : v # u => left'[v] = left[v]
    BY <1>8 DEF user_fail, Shape
  <2>2. pc[u] = "getch" => u \in Readers
    BY DEF TransfersLocked
  <2>3. QED
    BY <2>1, <2>2, TransferGoesOn DEF Transferring
<1>9. ASSUME left' = left, userlock' = userlock, \A v \in Users : pc'[v] = pc[v]
      PROVE  TransfersLocked'
  BY <1>9 DEF TransfersLocked
<1>10. ASSUME NEW p \in Polled, PolledStep(p) PROVE TransfersLocked'
  <2>1. p \notin Users /\ p \in Threads
    BY DEF Users, Threads
  <2>2. left' = left /\ userlock' = userlock /\ \E l : pc' = [pc EXCEPT ![p] = l]
    BY <1>10 DEF PolledStep, writepolled_idle, writepolled_busy, writepolled_drain, writepolled_done
  <2>3. \A v \in Users : pc'[v] = pc[v]
    BY <1>0, <2>1, <2>2 DEF Shape
  <2>4. QED
    BY <1>9, <2>2, <2>3
<1>11. ASSUME Handler \/ DeviceSent \/ DeviceTyped PROVE TransfersLocked'
  <2>1. UNCHANGED <<pc, left, userlock>>
    BY <1>11 DEF Handler, lser_irq, con_start, con_input, con_input_v, DeviceSent, DeviceTyped, user
  <2>2. QED
    BY <1>9, <2>1
<1>12. QED
  BY <1>1, <1>2, <1>3, <1>4, <1>5, <1>6, <1>7, <1>8, <1>10, <1>11 DEF Next, UserStep

----------------------------------------------------------------------------
(* The device *)

(* Users' steps other than lser_write leave the device alone.              *)
LEMMA DeviceSame ==
  ASSUME DeviceAgrees, UNCHANGED <<ls_lock, ls_wbusy, wirq, sending>>,
         \A p \in Polled : pc'[p] = pc[p],
         irq'.v => irq'.input = NULL /\ ~ irq'.start
  PROVE  DeviceAgrees'
BY DEF DeviceAgrees

(* Every step leaves the device and the printers agreed.                   *)
LEMMA DeviceStep ==
  ASSUME Shape, DeviceAgrees, OneLeaveToWrite, Next
  PROVE  DeviceAgrees'
<1> USE ConsoleAssumption
<1>0. ASSUME NEW u \in Users PROVE u \in Threads /\ u \notin Polled
  BY DEF Threads, Users
<1>1. ASSUME NEW u \in Users, UserStep(u) \/ user_fail(u), ~ lser_write(u) PROVE DeviceAgrees'
  <2>1. UNCHANGED <<ls_lock, ls_wbusy, wirq, sending, irq>>
    BY <1>1 DEF UserStep, user_fail, user_lock, user_unlock, putch_intr, getch_intr, getch_take,
                getch_advance, output
  <2>2. pc' = pc \/ \E l : pc' = [pc EXCEPT ![u] = l]
    BY <1>1 DEF UserStep, user_fail, user_lock, user_unlock, putch_intr, getch_intr, getch_take,
                getch_advance, Goto
  <2>3. \A p \in Polled : pc'[p] = pc[p]
    BY <1>0, <2>2 DEF Shape, Threads
  <2>4. irq'.v => irq'.input = NULL /\ ~ irq'.start
    BY <2>1 DEF DeviceAgrees
  <2>5. QED
    BY <2>1, <2>3, <2>4, DeviceSame
<1>2. ASSUME NEW u \in Users, lser_write(u) PROVE DeviceAgrees'
  <2>1. ~ ls_wbusy
    BY <1>2, LeaveMeansFree DEF lser_write
  <2>2. /\ ls_lock = NULL /\ ls_lock' = NULL /\ ls_wbusy' = TRUE /\ sending' = TRUE
        /\ wirq' = wirq /\ irq' = irq /\ pc' = [pc EXCEPT ![u] = "putch"]
    BY <1>2, <2>1 DEF lser_write, SendChar, Goto
  <2>3. \A p \in Polled : pc'[p] = pc[p]
    BY <1>0, <2>2 DEF Shape, Threads
  <2>4. QED
    BY <2>1, <2>2, <2>3 DEF DeviceAgrees
<1>3. ASSUME NEW p \in Polled, NEW l, pc' = [pc EXCEPT ![p] = l]
      PROVE  pc'[p] = l /\ \A q \in Polled : q # p => pc'[q] = pc[q]
  BY <1>3 DEF Shape, Threads
<1>4. ASSUME NEW p \in Polled, writepolled_idle(p) PROVE DeviceAgrees'
  <2>1. /\ pc[p] = "start" /\ ls_lock = NULL /\ ~ ls_wbusy /\ ls_lock' = p /\ ls_wbusy' = ls_wbusy
        /\ sending' = TRUE /\ irq' = irq /\ pc' = [pc EXCEPT ![p] = "wait"]
        /\ ~ wirq'.ready
    BY <1>4 DEF writepolled_idle, SendChar, Goto, WIRQ
  <2>2. pc'[p] = "wait" /\ \A q \in Polled : q # p => pc'[q] = pc[q]
    BY <1>3, <2>1
  <2>3. p # NULL
    OBVIOUS
  <2>4. QED
    BY <2>1, <2>2, <2>3 DEF DeviceAgrees
<1>5. ASSUME NEW p \in Polled, writepolled_busy(p) PROVE DeviceAgrees'
  <2>1. /\ pc[p] = "start" /\ ls_lock = NULL /\ ls_wbusy /\ ls_lock' = p /\ ls_wbusy' = ls_wbusy
        /\ sending' = sending /\ irq' = irq /\ wirq' = wirq /\ pc' = [pc EXCEPT ![p] = "drain"]
    BY <1>5 DEF writepolled_busy, Goto
  <2>2. pc'[p] = "drain" /\ \A q \in Polled : q # p => pc'[q] = pc[q]
    BY <1>3, <2>1
  <2>3. p # NULL
    OBVIOUS
  <2>4. QED
    BY <2>1, <2>2, <2>3 DEF DeviceAgrees
<1>6. ASSUME NEW p \in Polled, writepolled_drain(p) PROVE DeviceAgrees'
  <2>1. /\ pc[p] = "drain" /\ wirq.ready /\ ls_lock' = ls_lock /\ ls_wbusy' = ls_wbusy
        /\ sending' = TRUE /\ irq' = irq /\ pc' = [pc EXCEPT ![p] = "wait"]
        /\ ~ wirq'.ready /\ wirq'.enable
    BY <1>6 DEF writepolled_drain, SendChar, Goto, WIRQ
  <2>2. pc'[p] = "wait" /\ \A q \in Polled : q # p => pc'[q] = pc[q]
    BY <1>3, <2>1
  <2>3. ls_lock = p /\ p # NULL
    BY <2>1 DEF DeviceAgrees
  <2>4. QED
    BY <2>1, <2>2, <2>3 DEF DeviceAgrees
<1>7. ASSUME NEW p \in Polled, writepolled_done(p) PROVE DeviceAgrees'
  <2>1. /\ pc[p] = "wait" /\ wirq.ready /\ ls_lock' = NULL /\ ls_wbusy' = ls_wbusy
        /\ sending' = sending /\ irq' = irq /\ pc' = [pc EXCEPT ![p] = "done"]
        /\ ls_wbusy => wirq' = wirq
        /\ ~ ls_wbusy => wirq'.enable /\ ~ wirq'.ready
    BY <1>7 DEF writepolled_done, Goto, WIRQ
  <2>2. pc'[p] = "done" /\ \A q \in Polled : q # p => pc'[q] = pc[q]
    BY <1>3, <2>1
  <2>3. ls_lock = p /\ p # NULL
    BY <2>1 DEF DeviceAgrees
  <2>4. QED
    BY <2>1, <2>2, <2>3 DEF DeviceAgrees
<1>8. ASSUME lser_irq PROVE DeviceAgrees'
  <2>1. /\ ls_lock = NULL /\ ls_lock' = NULL /\ ls_wbusy' = (ls_wbusy /\ ~ wirq.ready)
        /\ sending' = sending /\ pc' = pc /\ ~ irq'.v
        /\ wirq.ready => ~ wirq'.ready /\ wirq'.enable
        /\ ~ wirq.ready => wirq' = wirq
    BY <1>8 DEF lser_irq, WIRQ, user
  <2>2. QED
    BY <2>1 DEF DeviceAgrees
<1>9. ASSUME con_start \/ con_input \/ con_input_v PROVE DeviceAgrees'
  <2>1. UNCHANGED <<pc, ls_lock, ls_wbusy, wirq, sending>>
    BY <1>9 DEF con_start, con_input, con_input_v, user, output
  <2>2. irq'.v => irq'.input = NULL /\ ~ irq'.start
    <3>1. irq \in [start : BOOLEAN, input : 1 .. MaxInput \cup {NULL}, v : BOOLEAN]
      BY DEF Shape
    <3>2. CASE con_start
      <4>1. irq.start /\ irq'.v = irq.v
        BY <3>1, <3>2 DEF con_start
      <4>2. QED
        BY <4>1 DEF DeviceAgrees
    <3>3. CASE con_input
      <4>1. ~ irq.start /\ irq'.start = irq.start /\ irq'.input = NULL
        BY <3>1, <3>3 DEF con_input
      <4>2. QED
        BY <4>1
    <3>4. CASE con_input_v
      <4>1. irq'.v = FALSE
        BY <3>1, <3>4 DEF con_input_v
      <4>2. QED
        BY <4>1
    <3>5. QED
      BY <1>9, <3>2, <3>3, <3>4
  <2>3. QED
    BY <2>1, <2>2, DeviceSame
<1>10. ASSUME DeviceSent PROVE DeviceAgrees'
  <2>1. /\ sending /\ sending' = FALSE /\ UNCHANGED <<pc, ls_lock, ls_wbusy, irq>>
        /\ wirq'.ready /\ (wirq'.enable <=> wirq.enable)
    BY <1>10 DEF DeviceSent, user, Shape
  <2>2. QED
    BY <2>1 DEF DeviceAgrees
<1>11. ASSUME DeviceTyped PROVE DeviceAgrees'
  BY <1>11 DEF DeviceTyped, user, output, DeviceAgrees
<1>12. QED
  BY <1>1, <1>2, <1>4, <1>5, <1>6, <1>7, <1>8, <1>9, <1>10, <1>11 DEF Next, PolledStep, Handler

----------------------------------------------------------------------------
(* The two semaphores *)

(* The head moves on: one character more.                                  *)
LEMMA HeadMoves ==
  ASSUME Shape, ~ BufferFull, cs_gotchars_tail' = cs_gotchars_tail,
         cs_gotchars_head' = Next1(cs_gotchars_head)
  PROVE  Unread' = Unread + 1
BY RingIn, ConsoleAssumption DEF Shape, Unread, Next1, Slots, BufferFull

(* The tail moves on: one character less.                                  *)
LEMMA TailMoves ==
  ASSUME Shape, Unread >= 1, cs_gotchars_head' = cs_gotchars_head,
         cs_gotchars_tail' = Next1(cs_gotchars_tail)
  PROVE  Unread' = Unread - 1
<1>1. /\ cs_gotchars_head \in 0 .. CONSOLE_INPUT_BUFFER_SIZE - 1
      /\ cs_gotchars_tail \in 0 .. CONSOLE_INPUT_BUFFER_SIZE - 1
      /\ CONSOLE_INPUT_BUFFER_SIZE \in Nat \ {0}
  BY ConsoleAssumption DEF Shape, Slots
<1>2. (cs_gotchars_head - cs_gotchars_tail) % CONSOLE_INPUT_BUFFER_SIZE >= 1
  BY DEF Unread
<1>3. (cs_gotchars_head - ((cs_gotchars_tail + 1) % CONSOLE_INPUT_BUFFER_SIZE))
          % CONSOLE_INPUT_BUFFER_SIZE
        = ((cs_gotchars_head - cs_gotchars_tail) % CONSOLE_INPUT_BUFFER_SIZE) - 1
  BY <1>1, <1>2, RingOut, Zenon
<1>4. cs_gotchars_tail' = (cs_gotchars_tail + 1) % CONSOLE_INPUT_BUFFER_SIZE
  BY DEF Next1
<1>5. Unread' = (cs_gotchars_head' - cs_gotchars_tail') % CONSOLE_INPUT_BUFFER_SIZE
  BY DEF Unread
<1>6. Unread' = (cs_gotchars_head - ((cs_gotchars_tail + 1) % CONSOLE_INPUT_BUFFER_SIZE))
                  % CONSOLE_INPUT_BUFFER_SIZE
  BY <1>1, <1>4, <1>5
<1>7. Unread = (cs_gotchars_head - cs_gotchars_tail) % CONSOLE_INPUT_BUFFER_SIZE
  BY DEF Unread
<1>8. QED
  BY <1>3, <1>6, <1>7

(* Every step leaves the leave to write in one place, and cs_rsem right.   *)
LEMMA CountsStep ==
  ASSUME TypeOK, OneLeaveToWrite, CharsCounted, DeviceAgrees, TransfersLocked, Next
  PROVE  OneLeaveToWrite' /\ CharsCounted'
<1> DEFINE S == Cardinality(Senders)
           T == Cardinality(Takers)
           S2 == Cardinality(Senders')
           T2 == Cardinality(Takers')
           B == Count(ls_wbusy)
           B2 == Count(ls_wbusy')
           I == Count(irq.start)
           I2 == Count(irq'.start)
           V == Count(irq.v)
           V2 == Count(irq'.v)
<1>1. /\ S \in Nat /\ T \in Nat /\ cs_wsem \in Nat /\ cs_rsem \in Nat
      /\ B \in {0, 1} /\ I \in {0, 1} /\ V \in {0, 1}
      /\ cs_wsem + S + B + I = 1 /\ Unread = cs_rsem + V + T
  BY UsersFinite, ConsoleAssumption
     DEF TypeOK, OneLeaveToWrite, CharsCounted, Count
<1>2. \A u \in Users : pc'[u] # "panic"
  <2>1. TransfersLocked'
    BY ShapeOfType, LockedStep
  <2>2. QED
    BY <2>1 DEF TransfersLocked, Transferring
<1>3. SUFFICES cs_wsem' + S2 + B2 + I2 = 1 /\ Unread' = cs_rsem' + V2 + T2
  BY <1>2 DEF OneLeaveToWrite, CharsCounted
<1>4. Unread \in Nat
  BY ConsoleAssumption DEF TypeOK, Unread, Slots
<1> HIDE DEF S, T, S2, T2, B, B2, I, I2, V, V2
<1>6. UNCHANGED irq => I2 = I /\ V2 = V
  BY DEF I, I2, V, V2
<1>7. UNCHANGED ls_wbusy => B2 = B
  BY DEF B, B2
<1>8. UNCHANGED <<cs_gotchars_head, cs_gotchars_tail>> => Unread' = Unread
  BY DEF Unread
<1>10. ASSUME NEW u \in Users, user_lock(u) \/ user_unlock(u)
       PROVE  cs_wsem' + S2 + B2 + I2 = 1 /\ Unread' = cs_rsem' + V2 + T2
  <2>1. PICK l \in {"putch", "getch", "done"} : pc' = [pc EXCEPT ![u] = l]
    BY <1>10 DEF user_lock, user_unlock, Goto
  <2>2. pc[u] \in {"start", "putch", "getch"}
        /\ UNCHANGED <<cs_wsem, ls_wbusy, irq, cs_rsem, cs_gotchars_head, cs_gotchars_tail>>
    BY <1>10 DEF user_lock, user_unlock, output, input
  <2>3. S2 = S /\ T2 = T
    BY <2>1, <2>2, UserMoves DEF S, S2, T, T2, Locations
  <2>4. QED
    BY <1>1, <1>6, <1>7, <1>8, <2>2, <2>3
<1>11. ASSUME NEW u \in Users, putch_intr(u)
       PROVE  cs_wsem' + S2 + B2 + I2 = 1 /\ Unread' = cs_rsem' + V2 + T2
  <2>1. /\ pc[u] = "putch" /\ pc' = [pc EXCEPT ![u] = "send"] /\ cs_wsem' = cs_wsem - 1
        /\ UNCHANGED <<ls_wbusy, irq, cs_rsem, cs_gotchars_head, cs_gotchars_tail>>
    BY <1>11 DEF putch_intr, input, Goto
  <2>2. S2 = S + 1 /\ T2 = T
    BY <2>1, UserMoves DEF S, S2, T, T2, Locations
  <2>3. QED
    BY <1>1, <1>6, <1>7, <1>8, <2>1, <2>2
<1>12. ASSUME NEW u \in Users, lser_write(u)
       PROVE  cs_wsem' + S2 + B2 + I2 = 1 /\ Unread' = cs_rsem' + V2 + T2
  <2>1. ~ ls_wbusy
    BY <1>12, LeaveMeansFree, ShapeOfType DEF lser_write
  <2>2. /\ pc[u] = "send" /\ pc' = [pc EXCEPT ![u] = "putch"] /\ ls_wbusy' = TRUE
        /\ UNCHANGED <<cs_wsem, irq, cs_rsem, cs_gotchars_head, cs_gotchars_tail>>
    BY <1>12, <2>1 DEF lser_write, input, Goto
  <2>3. S2 = S - 1 /\ T2 = T
    BY <2>2, UserMoves DEF S, S2, T, T2, Locations
  <2>4. B = 0 /\ B2 = 1
    BY <2>1, <2>2 DEF B, B2, Count
  <2>5. QED
    BY <1>1, <1>6, <1>8, <2>2, <2>3, <2>4
<1>13. ASSUME NEW u \in Users, getch_intr(u)
       PROVE  cs_wsem' + S2 + B2 + I2 = 1 /\ Unread' = cs_rsem' + V2 + T2
  <2>1. /\ pc[u] = "getch" /\ pc' = [pc EXCEPT ![u] = "take"] /\ cs_rsem' = cs_rsem - 1
        /\ UNCHANGED <<ls_wbusy, irq, cs_wsem, cs_gotchars_head, cs_gotchars_tail>>
    BY <1>13 DEF getch_intr, output, Goto
  <2>2. S2 = S /\ T2 = T + 1
    BY <2>1, UserMoves DEF S, S2, T, T2, Locations
  <2>3. QED
    BY <1>1, <1>6, <1>7, <1>8, <2>1, <2>2
<1>14. ASSUME NEW u \in Users, getch_take(u)
       PROVE  cs_wsem' + S2 + B2 + I2 = 1 /\ Unread' = cs_rsem' + V2 + T2
  <2>1. /\ pc[u] = "take" /\ pc' = [pc EXCEPT ![u] = "advance"]
        /\ UNCHANGED <<ls_wbusy, irq, cs_wsem, cs_rsem, cs_gotchars_head, cs_gotchars_tail>>
    BY <1>14 DEF getch_take, output, Goto
  <2>2. S2 = S /\ T2 = T
    BY <2>1, UserMoves DEF S, S2, T, T2, Locations
  <2>3. QED
    BY <1>1, <1>6, <1>7, <1>8, <2>1, <2>2
<1>15. ASSUME NEW u \in Users, getch_advance(u)
       PROVE  cs_wsem' + S2 + B2 + I2 = 1 /\ Unread' = cs_rsem' + V2 + T2
  <2>1. /\ pc[u] = "advance" /\ cs_gotchars_tail' = Next1(cs_gotchars_tail)
        /\ UNCHANGED <<ls_wbusy, irq, cs_wsem, cs_rsem, cs_gotchars_head>>
    BY <1>15 DEF getch_advance, output
  <2>2. PICK l \in {"putch", "getch"} : pc' = [pc EXCEPT ![u] = l]
    BY <1>15 DEF getch_advance, Goto
  <2>3. S2 = S /\ T2 = T - 1
    BY <2>1, <2>2, UserMoves DEF S, S2, T, T2, Locations
  <2>4. T >= 1
    <3>1. u \in Takers
      BY <2>1 DEF Takers
    <3>2. QED
      BY <3>1, UsersFinite, CountOne DEF T
  <2>5. Unread' = Unread - 1
    <3>1. Unread >= 1
      BY <1>1, <1>4, <2>4
    <3>2. QED
      BY <2>1, <3>1, ShapeOfType, TailMoves
  <2>6. QED
    BY <1>1, <1>4, <1>6, <1>7, <2>1, <2>3, <2>5
<1>16. ASSUME NEW u \in Users, user_fail(u)
       PROVE  cs_wsem' + S2 + B2 + I2 = 1 /\ Unread' = cs_rsem' + V2 + T2
  <2>1. UNCHANGED <<pc, ls_wbusy, irq, cs_wsem, cs_rsem, cs_gotchars_head, cs_gotchars_tail>>
    BY <1>16 DEF user_fail, output, input
  <2>2. S2 = S /\ T2 = T
    BY <2>1, NoUserMoves DEF S, S2, T, T2
  <2>3. QED
    BY <1>1, <1>6, <1>7, <1>8, <2>1, <2>2
<1>17. ASSUME NEW p \in Polled, PolledStep(p)
       PROVE  cs_wsem' + S2 + B2 + I2 = 1 /\ Unread' = cs_rsem' + V2 + T2
  <2>1. UNCHANGED <<ls_wbusy, irq, cs_wsem, cs_rsem, cs_gotchars_head, cs_gotchars_tail>>
    BY <1>17 DEF PolledStep, writepolled_idle, writepolled_busy, writepolled_drain,
                 writepolled_done, input
  <2>2. \E l \in Locations : pc' = [pc EXCEPT ![p] = l]
    BY <1>17 DEF PolledStep, writepolled_idle, writepolled_busy, writepolled_drain,
                 writepolled_done, Goto, Locations
  <2>3. S2 = S /\ T2 = T
    BY <2>2, NoUserMoves DEF S, S2, T, T2
  <2>4. QED
    BY <1>1, <1>6, <1>7, <1>8, <2>1, <2>3
<1>18. ASSUME UNCHANGED pc PROVE S2 = S /\ T2 = T
  BY <1>18, NoUserMoves DEF S, S2, T, T2
<1>19. ASSUME lser_irq
       PROVE  cs_wsem' + S2 + B2 + I2 = 1 /\ Unread' = cs_rsem' + V2 + T2
  <2>1. /\ UNCHANGED <<pc, cs_wsem, cs_rsem, cs_gotchars_head, cs_gotchars_tail>>
        /\ ~ irq.start /\ ~ irq.v /\ ls_lock = NULL
        /\ ls_wbusy' = (ls_wbusy /\ ~ wirq.ready) /\ irq'.start = wirq.ready /\ irq'.v = FALSE
    BY <1>19 DEF lser_irq, HandlerIdle, user, input
  <2>2. I = 0 /\ V = 0 /\ V2 = 0
    BY <2>1 DEF I, V, V2, Count
  <2>3. B2 + I2 = B
    <3>1. wirq.ready => ls_wbusy
      BY <2>1 DEF DeviceAgrees
    <3>2. CASE wirq.ready
      <4>1. ls_wbusy /\ ~ ls_wbusy' /\ irq'.start
        BY <2>1, <3>1, <3>2
      <4>2. QED
        BY <4>1 DEF B, B2, I2, Count
    <3>3. CASE ~ wirq.ready
      <4>1. ls_wbusy' <=> ls_wbusy
        BY <2>1, <3>3
      <4>2. ~ irq'.start
        BY <2>1, <3>3
      <4>3. QED
        BY <4>1, <4>2 DEF B, B2, I2, Count
    <3>4. QED
      BY <3>2, <3>3
  <2>4. B2 \in {0, 1} /\ I2 \in {0, 1}
    BY DEF B2, I2, Count
  <2>5. QED
    BY <1>1, <1>8, <1>18, <2>1, <2>2, <2>3, <2>4
<1>20. irq \in [start : BOOLEAN, input : 1 .. MaxInput \cup {NULL}, v : BOOLEAN]
  BY DEF TypeOK
<1>21. ASSUME con_start
       PROVE  cs_wsem' + S2 + B2 + I2 = 1 /\ Unread' = cs_rsem' + V2 + T2
  <2>1. /\ UNCHANGED <<pc, ls_wbusy, cs_rsem, cs_gotchars_head, cs_gotchars_tail>>
        /\ irq.start /\ cs_wsem' = cs_wsem + 1
        /\ irq'.start = FALSE /\ irq'.v = irq.v
    BY <1>20, <1>21 DEF con_start, user, input
  <2>2. I = 1 /\ I2 = 0 /\ V2 = V
    BY <2>1 DEF I, I2, V, V2, Count
  <2>3. QED
    BY <1>1, <1>7, <1>8, <1>18, <2>1, <2>2
<1>22. ASSUME con_input
       PROVE  cs_wsem' + S2 + B2 + I2 = 1 /\ Unread' = cs_rsem' + V2 + T2
  <2>1. /\ UNCHANGED <<pc, ls_wbusy, cs_wsem, cs_rsem, cs_gotchars_tail>>
        /\ irq.input # NULL /\ irq'.start = irq.start /\ irq'.v = ~ BufferFull
    BY <1>20, <1>22 DEF con_input, user, output
  <2>2. ~ irq.v
    BY <2>1 DEF DeviceAgrees
  <2>3. V = 0 /\ I2 = I
    BY <2>1, <2>2 DEF V, I, I2, Count
  <2>4. CASE BufferFull
    <3>1. Unread' = Unread
      BY <1>8, <1>22, <2>1, <2>4 DEF con_input
    <3>2. V2 = 0
      BY <2>1, <2>4 DEF V2, Count
    <3>3. QED
      BY <1>1, <1>7, <1>18, <2>1, <2>3, <3>1, <3>2
  <2>5. CASE ~ BufferFull
    <3>1. cs_gotchars_head' = Next1(cs_gotchars_head)
      BY <1>22, <2>5 DEF con_input
    <3>2. Unread' = Unread + 1
      BY <2>1, <2>5, <3>1, ShapeOfType, HeadMoves
    <3>3. V2 = 1
      BY <2>1, <2>5 DEF V2, Count
    <3>4. QED
      BY <1>1, <1>4, <1>7, <1>18, <2>1, <2>3, <3>2, <3>3
  <2>6. QED
    BY <2>4, <2>5
<1>23. ASSUME con_input_v
       PROVE  cs_wsem' + S2 + B2 + I2 = 1 /\ Unread' = cs_rsem' + V2 + T2
  <2>1. /\ UNCHANGED <<pc, ls_wbusy, cs_wsem, cs_gotchars_head, cs_gotchars_tail>>
        /\ irq.v /\ cs_rsem' = cs_rsem + 1
        /\ irq'.v = FALSE /\ irq'.start = irq.start
    BY <1>20, <1>23 DEF con_input_v, user, output
  <2>2. V = 1 /\ V2 = 0 /\ I2 = I
    BY <2>1 DEF I, I2, V, V2, Count
  <2>3. QED
    BY <1>1, <1>7, <1>8, <1>18, <2>1, <2>2
<1>24. ASSUME DeviceSent \/ DeviceTyped
       PROVE  cs_wsem' + S2 + B2 + I2 = 1 /\ Unread' = cs_rsem' + V2 + T2
  <2>1. UNCHANGED <<pc, ls_wbusy, irq, cs_wsem, cs_rsem, cs_gotchars_head, cs_gotchars_tail>>
    BY <1>24 DEF DeviceSent, DeviceTyped, user, output, input
  <2>2. QED
    BY <1>1, <1>6, <1>7, <1>8, <1>18, <2>1
<1>25. QED
  BY <1>10, <1>11, <1>12, <1>13, <1>14, <1>15, <1>16, <1>17, <1>19, <1>21, <1>22, <1>23, <1>24
     DEF Next, UserStep, Handler

----------------------------------------------------------------------------
(* Lines *)

(* Every step keeps the lines of a route apart.                            *)
LEMMA LinesStep ==
  ASSUME Shape, TransfersLocked, OneLeaveToWrite, LineUnderWay, LinesWhole, Next
  PROVE  LineUnderWay' /\ LinesWhole'
<1> USE ConsoleAssumption
<1>0. ASSUME NEW u \in Users PROVE Route[u] \in Routes /\ u \in Threads /\ u \notin Polled
  BY DEF Routes, Threads, Users
<1>1. ASSUME out' = out,
             \A v \in Users : /\ pc'[v] = "start" => pc[v] = "start"
                              /\ pc'[v] \in Transferring => pc[v] \in Transferring
      PROVE  LineUnderWay' /\ LinesWhole'
  BY <1>1 DEF LineUnderWay, LinesWhole
<1>2. ASSUME NEW x \in Threads, out' = Append(out, x)
      PROVE  /\ Len(out) \in Nat /\ Len(out') = Len(out) + 1
             /\ \A i \in 1 .. Len(out) : out'[i] = out[i]
             /\ out'[Len(out) + 1] = x
             /\ \A i \in 1 .. Len(out') : i \in 1 .. Len(out) \/ i = Len(out) + 1
  BY <1>2 DEF Shape
<1>3. ASSUME NEW u \in Users, user_lock(u) PROVE LineUnderWay' /\ LinesWhole'
  <2>1. /\ out' = out /\ pc[u] = "start" /\ pc'[u] # "start"
        /\ \A v \in Users : v # u => pc'[v] = pc[v]
    BY <1>0, <1>3 DEF user_lock, output, Goto, Shape
  <2>2. QED
    BY <2>1 DEF LineUnderWay, LinesWhole
<1>4. ASSUME NEW u \in Users, lser_write(u) PROVE LineUnderWay' /\ LinesWhole'
  <2>1. ~ ls_wbusy
    BY <1>4, LeaveMeansFree DEF lser_write
  <2>2. /\ out' = Append(out, u) /\ pc[u] = "send" /\ pc'[u] = "putch"
        /\ \A v \in Users : v # u => pc'[v] = pc[v]
    BY <1>0, <1>4, <2>1 DEF lser_write, SendChar, Goto, Shape
  <2>3. /\ Len(out) \in Nat /\ Len(out') = Len(out) + 1
        /\ \A i \in 1 .. Len(out) : out'[i] = out[i]
        /\ out'[Len(out) + 1] = u
        /\ \A i \in 1 .. Len(out') : i \in 1 .. Len(out) \/ i = Len(out) + 1
    BY <1>0, <1>2, <2>2
  <2>4. \A v \in Users : v # u /\ pc[v] \in Transferring => Route[v] # Route[u]
    BY <2>2 DEF TransfersLocked, Transferring
  <2>5. \A i, j \in 1 .. Len(out) :
          (i < j /\ out[i] = u /\ out[j] \in Users /\ Route[out[j]] = Route[u]) => out[j] = u
    BY <2>2 DEF LineUnderWay, Transferring
  <2>6. LinesWhole'
    <3>1. ASSUME NEW i \in 1 .. Len(out'), NEW j \in 1 .. Len(out'), NEW k \in 1 .. Len(out'),
                 i < j, j < k, out'[i] = out'[k], {out'[i], out'[j]} \subseteq Users,
                 Route[out'[j]] = Route[out'[i]]
          PROVE  out'[j] = out'[i]
      <4>1. i \in 1 .. Len(out) /\ j \in 1 .. Len(out)
        BY <2>3, <3>1
      <4>2. out'[i] = out[i] /\ out'[j] = out[j]
        BY <2>3, <4>1
      <4>3. CASE k \in 1 .. Len(out)
        <5>1. out'[k] = out[k]
          BY <2>3, <4>3
        <5>2. (i < j /\ j < k /\ out[i] = out[k] /\ {out[i], out[j]} \subseteq Users
                 /\ Route[out[j]] = Route[out[i]]) => out[j] = out[i]
          BY <4>1, <4>3 DEF LinesWhole
        <5>3. QED
          BY <3>1, <4>2, <5>1, <5>2
      <4>4. CASE k = Len(out) + 1
        BY <2>3, <2>5, <3>1, <4>1, <4>2, <4>4
      <4>5. QED
        BY <2>3, <4>3, <4>4
    <3>2. QED
      BY <3>1 DEF LinesWhole
  <2>7. ASSUME NEW v \in Users, pc'[v] = "start", NEW i \in 1 .. Len(out') PROVE out'[i] # v
    <3>1. v # u /\ pc[v] = "start"
      BY <2>2, <2>7
    <3>2. QED
      BY <2>3, <3>1 DEF LineUnderWay
  <2>8. ASSUME NEW v \in Users, pc'[v] \in Transferring,
               NEW i \in 1 .. Len(out'), NEW j \in 1 .. Len(out'),
               i < j, out'[i] = v, out'[j] \in Users, Route[out'[j]] = Route[v]
        PROVE  out'[j] = v
    <3>1. i \in 1 .. Len(out) /\ out'[i] = out[i]
      BY <2>3, <2>8
    <3>2. CASE v = u
      BY <2>3, <2>5, <2>8, <3>1, <3>2
    <3>3. CASE v # u
      <4>1. pc[v] \in Transferring /\ Route[v] # Route[u]
        BY <2>2, <2>4, <2>8, <3>3
      <4>2. j \in 1 .. Len(out) /\ out'[j] = out[j]
        BY <2>3, <2>8, <4>1
      <4>3. QED
        BY <2>8, <3>1, <4>1, <4>2 DEF LineUnderWay
    <3>4. QED
      BY <3>2, <3>3
  <2>9. QED
    BY <2>6, <2>7, <2>8 DEF LineUnderWay
<1>5. ASSUME NEW p \in Polled, out' = Append(out, p), \A v \in Users : pc'[v] = pc[v]
      PROVE  LineUnderWay' /\ LinesWhole'
  <2>1. p \in Threads /\ p \notin Users
    BY DEF Threads, Users
  <2>2. /\ Len(out) \in Nat /\ Len(out') = Len(out) + 1
        /\ \A i \in 1 .. Len(out) : out'[i] = out[i]
        /\ out'[Len(out) + 1] = p
        /\ \A i \in 1 .. Len(out') : i \in 1 .. Len(out) \/ i = Len(out) + 1
    BY <1>2, <1>5, <2>1
  <2>3. ASSUME NEW i \in 1 .. Len(out'), out'[i] \in Users
        PROVE  i \in 1 .. Len(out) /\ out'[i] = out[i]
    BY <2>1, <2>2, <2>3
  <2>4. LineUnderWay'
    BY <1>5, <2>3 DEF LineUnderWay
  <2>5. LinesWhole'
    BY <2>3 DEF LinesWhole
  <2>6. QED
    BY <2>4, <2>5
<1>6. ASSUME NEW p \in Polled, PolledStep(p) PROVE LineUnderWay' /\ LinesWhole'
  <2>1. \E l : pc' = [pc EXCEPT ![p] = l]
    BY <1>6 DEF PolledStep, writepolled_idle, writepolled_busy, writepolled_drain,
                writepolled_done, Goto
  <2>2. \A v \in Users : pc'[v] = pc[v]
    BY <1>0, <2>1 DEF Shape
  <2>3. out' = out \/ out' = Append(out, p)
    BY <1>6 DEF PolledStep, writepolled_idle, writepolled_busy, writepolled_drain,
                writepolled_done, SendChar
  <2>4. QED
    BY <1>1, <1>5, <2>2, <2>3
<1>7. ASSUME NEW u \in Users, user_unlock(u) \/ putch_intr(u) \/ getch_intr(u) \/ getch_take(u)
                                \/ getch_advance(u) \/ user_fail(u)
      PROVE  LineUnderWay' /\ LinesWhole'
  <2>1. out' = out
    BY <1>7 DEF user_unlock, putch_intr, getch_intr, getch_take, getch_advance, user_fail, output
  <2>2. pc' = pc \/ \E l : l # "start" /\ pc' = [pc EXCEPT ![u] = l]
    BY <1>7 DEF user_unlock, putch_intr, getch_intr, getch_take, getch_advance, user_fail, Goto
  <2>3. pc[u] \in Transferring
    BY <1>7 DEF user_unlock, putch_intr, getch_intr, getch_take, getch_advance, user_fail,
                Transferring
  <2>4. \A v \in Users : /\ pc'[v] = "start" => pc[v] = "start"
                         /\ pc'[v] \in Transferring => pc[v] \in Transferring
    BY <1>0, <2>2, <2>3 DEF Shape
  <2>5. QED
    BY <1>1, <2>1, <2>4
<1>8. ASSUME Handler \/ DeviceSent \/ DeviceTyped PROVE LineUnderWay' /\ LinesWhole'
  <2>1. pc' = pc /\ out' = out
    BY <1>8 DEF Handler, lser_irq, con_start, con_input, con_input_v, DeviceSent, DeviceTyped,
                user, output
  <2>2. QED
    BY <1>1, <2>1
<1>9. QED
  BY <1>3, <1>4, <1>6, <1>7, <1>8 DEF Next, UserStep

----------------------------------------------------------------------------
(* The invariant *)

(* ConsoleInv carries over from state to state together with LinesWhole.   *)
IInv == ConsoleInv /\ LinesWhole

(* It holds when the console has been configured.                          *)
LEMMA InitIInv == Init => IInv
<1> SUFFICES ASSUME Init PROVE IInv
  OBVIOUS
<1> USE ConsoleAssumption DEF Init
<1>1. TypeOK
  <2>1. << >> \in Seq(Threads) /\ << >> \in Seq(0 .. MaxInput)
    OBVIOUS
  <2>2. 0 \in Slots
    BY DEF Slots
  <2>3. wirq \in [enable : BOOLEAN, ready : BOOLEAN, force : BOOLEAN]
    BY DEF WIRQ
  <2>4. irq \in [start : BOOLEAN, input : 1 .. MaxInput \cup {NULL}, v : BOOLEAN]
    OBVIOUS
  <2>5. /\ pc \in [Threads -> Locations] /\ left \in [Users -> 0 .. LineLen]
        /\ userlock \in [Routes -> Users \cup {NULL}]
    BY DEF Locations
  <2>6. cs_gotchars \in [Slots -> 0 .. MaxInput]
    OBVIOUS
  <2>7. /\ cs_wsem \in 0 .. 1 /\ cs_rsem \in 0 .. CONSOLE_INPUT_BUFFER_SIZE - 1
        /\ typed \in 0 .. MaxInput
    OBVIOUS
  <2>8. QED
    BY <2>1, <2>2, <2>3, <2>4, <2>5, <2>6, <2>7 DEF TypeOK
<1>2. ~ irq.start /\ ~ irq.v
  OBVIOUS
<1>3. \A u \in Users : pc[u] = "start"
  BY DEF Threads
<1>4. Senders = {} /\ Takers = {}
  BY <1>3 DEF Senders, Takers
<1>5. OneLeaveToWrite
  BY <1>2, <1>3, <1>4, FS_EmptySet DEF OneLeaveToWrite, Count
<1>6. CharsCounted
  <2>1. Unread = 0
    BY DEF Unread
  <2>2. QED
    BY <1>2, <1>4, <2>1, FS_EmptySet DEF CharsCounted, Count
<1>7. DeviceAgrees
  BY <1>2 DEF DeviceAgrees, WIRQ, Threads
<1>8. TransfersLocked
  <2>1. \A u \in Users : userlock[Route[u]] = NULL /\ u # NULL
    BY DEF Routes, Users
  <2>2. QED
    BY <1>3, <2>1 DEF TransfersLocked, Transferring
<1>9. LineUnderWay /\ LinesWhole
  BY DEF LineUnderWay, LinesWhole
<1>10. QED
  BY <1>1, <1>5, <1>6, <1>7, <1>8, <1>9 DEF IInv, ConsoleInv

(* The bounds of the semaphores follow from the counts.                    *)
LEMMA TypeOfShape == Shape /\ OneLeaveToWrite /\ CharsCounted => TypeOK
<1> SUFFICES ASSUME Shape, OneLeaveToWrite, CharsCounted PROVE TypeOK
  OBVIOUS
<1>1. /\ cs_wsem \in Nat /\ cs_rsem \in Nat
      /\ Count(ls_wbusy) \in {0, 1} /\ Count(irq.start) \in {0, 1} /\ Count(irq.v) \in {0, 1}
      /\ cs_wsem + Cardinality(Senders) + Count(ls_wbusy) + Count(irq.start) = 1
      /\ Unread = cs_rsem + Count(irq.v) + Cardinality(Takers)
  BY DEF Shape, Count, OneLeaveToWrite, CharsCounted
<1>2. Unread \in 0 .. CONSOLE_INPUT_BUFFER_SIZE - 1
  BY ConsoleAssumption DEF Shape, Slots, Unread
<1>3. Cardinality(Senders) \in Nat /\ Cardinality(Takers) \in Nat
  BY UsersFinite
<1>4. cs_wsem \in 0 .. 1 /\ cs_rsem \in 0 .. CONSOLE_INPUT_BUFFER_SIZE - 1
  BY <1>1, <1>2, <1>3, ConsoleAssumption
<1>5. QED
  BY <1>4 DEF Shape, TypeOK

(* Every step keeps the invariant.                                         *)
LEMMA StepIInv == IInv /\ [Next]_vars => IInv'
<1> SUFFICES ASSUME IInv, [Next]_vars PROVE IInv'
  OBVIOUS
<1>1. CASE UNCHANGED vars
  <2>1. UNCHANGED Unread /\ UNCHANGED Senders /\ UNCHANGED Takers
    BY <1>1 DEF vars, user, input, Unread, Senders, Takers
  <2>2. OneLeaveToWrite' /\ CharsCounted'
    BY <1>1, <2>1 DEF IInv, ConsoleInv, OneLeaveToWrite, CharsCounted, vars, user, output, input
  <2>3. TypeOK'
    BY <1>1 DEF IInv, ConsoleInv, TypeOK, vars, user, output, input
  <2>4. DeviceAgrees' /\ TransfersLocked'
    BY <1>1 DEF IInv, ConsoleInv, DeviceAgrees, TransfersLocked, vars, user, output, input
  <2>5. LineUnderWay' /\ LinesWhole'
    BY <1>1 DEF IInv, ConsoleInv, LineUnderWay, LinesWhole, vars, user, output
  <2>6. QED
    BY <2>2, <2>3, <2>4, <2>5 DEF IInv, ConsoleInv
<1>2. CASE Next
  <2>1. /\ TypeOK /\ OneLeaveToWrite /\ DeviceAgrees /\ TransfersLocked
        /\ CharsCounted /\ LineUnderWay /\ LinesWhole
    BY DEF IInv, ConsoleInv
  <2>2. Shape
    BY <2>1, ShapeOfType
  <2>3. Shape'
    BY <1>2, <2>1, <2>2, ShapeStep
  <2>4. TransfersLocked'
    BY <1>2, <2>1, <2>2, LockedStep
  <2>5. DeviceAgrees'
    BY <1>2, <2>1, <2>2, DeviceStep
  <2>6. OneLeaveToWrite' /\ CharsCounted'
    BY <1>2, <2>1, CountsStep
  <2>7. LineUnderWay' /\ LinesWhole'
    BY <1>2, <2>1, <2>2, LinesStep
  <2>8. TypeOK'
    BY <2>3, <2>6, TypeOfShape, PTL
  <2>9. QED
    BY <2>4, <2>5, <2>6, <2>7, <2>8 DEF IInv, ConsoleInv
<1>3. QED
  BY <1>1, <1>2

(* IInv holds in every reachable state.                                    *)
LEMMA IInvAlways == Spec => []IInv
BY InitIInv, StepIInv, PTL DEF Spec

(* Whatever users, polled printers, the handler and the device do, exactly *)
(* one place has the leave to write, lser_write never panics, the device   *)
(* is busy only while somebody waits for it, users transfer under their    *)
(* locks, and cs_rsem counts what the ring buffer holds.                   *)
THEOREM ConsoleSafe == Spec => []ConsoleInv
<1>1. IInv => ConsoleInv
  BY DEF IInv
<1>2. QED
  BY <1>1, IInvAlways, PTL

(* "Lock so user I/Os are atomic", for lines of any length and any number  *)
(* of users and routes.                                                    *)
THEOREM LinesKeptWhole == Spec => []LinesWhole
<1>1. IInv => LinesWhole
  BY DEF IInv
<1>2. QED
  BY <1>1, IInvAlways, PTL

(* Who hands the device a character finds it done with the one before: a   *)
(* user because it has the only leave to write, a polled printer because   *)
(* it looked at ls_wbusy under ls_lock or waited for the ready bit.        *)
THEOREM DeviceNotOverrun == Spec => NothingOverwritten
<1>1. ASSUME IInv, [Next]_vars PROVE [out' # out => ~ sending]_vars
  <2> SUFFICES ASSUME Next, out' # out PROVE ~ sending
    BY <1>1
  <2>1. Shape /\ OneLeaveToWrite /\ DeviceAgrees
    BY <1>1, ShapeOfType DEF IInv, ConsoleInv
  <2>2. ASSUME NEW u \in Users, lser_write(u) PROVE ~ sending
    <3>1. ls_lock = NULL /\ ~ ls_wbusy
      BY <2>1, <2>2, LeaveMeansFree DEF lser_write
    <3>2. QED
      BY <2>1, <3>1 DEF DeviceAgrees
  <2>3. ASSUME NEW p \in Polled, writepolled_idle(p) PROVE ~ sending
    BY <2>1, <2>3 DEF writepolled_idle, DeviceAgrees
  <2>4. ASSUME NEW p \in Polled, writepolled_drain(p) PROVE ~ sending
    BY <2>1, <2>4 DEF writepolled_drain, DeviceAgrees
  <2>5. QED
    BY <2>2, <2>3, <2>4
       DEF Next, UserStep, PolledStep, Handler, user_lock, user_unlock, user_fail, putch_intr,
           getch_intr, getch_take, getch_advance, writepolled_busy, writepolled_done, lser_irq,
           con_start, con_input, con_input_v, DeviceSent, DeviceTyped, output
<1>2. QED
  BY <1>1, IInvAlways, PTL DEF Spec, NothingOverwritten

----------------------------------------------------------------------------
(* The order of the input *)

(* All readers take turns under one lock.  The code has two, File.lk for   *)
(* standard input and con_userlock for the device con:, and getch_intr     *)
(* itself takes none: readers on both routes at once share the tail.       *)
OneReaderRoute == \A u, v \in Readers : Route[u] = Route[v]

(* The slot i places from slot t.                                          *)
Place(t, i) == (t + i - 1) % CONSOLE_INPUT_BUFFER_SIZE

(* Characters whose slots were given up.                                   *)
Given == Len(got) - (IF InHand = {} THEN 0 ELSE 1)

(* What was read is what was stored first, and what was stored since is in *)
(* the ring, place by place; the character in hand is in both.             *)
StoredInOrder ==
  /\ Given \in Nat
  /\ Len(kept) = Given + Unread
  /\ \A i \in 1 .. Len(got) : kept[i] = got[i]
  /\ \A i \in 1 .. Unread : kept[Given + i] = cs_gotchars[Place(cs_gotchars_tail, i)]

(* Places are slots, the first one is where it starts, and the place that  *)
(* follows the unread characters is the head's.                            *)
LEMMA PlaceIsSlot ==
  ASSUME Shape
  PROVE  /\ Unread \in 0 .. CONSOLE_INPUT_BUFFER_SIZE - 1
         /\ \A i \in 1 .. CONSOLE_INPUT_BUFFER_SIZE : Place(cs_gotchars_tail, i) \in Slots
         /\ Place(cs_gotchars_tail, 1) = cs_gotchars_tail
         /\ Place(cs_gotchars_tail, Unread + 1) = cs_gotchars_head
         /\ \A i \in 1 .. Unread : Place(cs_gotchars_tail, i) # cs_gotchars_head
<1> DEFINE n == CONSOLE_INPUT_BUFFER_SIZE
           h == cs_gotchars_head
           t == cs_gotchars_tail
<1>1. n \in Nat \ {0} /\ h \in 0 .. n - 1 /\ t \in 0 .. n - 1
  BY ConsoleAssumption DEF Shape, Slots
<1>2. Unread = IF h >= t THEN h - t ELSE h - t + n
  BY <1>1, RingAhead DEF Unread
<1>3. ASSUME NEW i \in 1 .. n PROVE Place(t, i) = IF t + i - 1 < n THEN t + i - 1 ELSE t + i - 1 - n
  <2>1. PICK k \in 0 .. n : k = i - 1
    BY <1>1
  <2>2. (t + k) % n = IF t + k < n THEN t + k ELSE t + k - n
    BY <1>1, RingOn
  <2>3. t + i - 1 = t + k
    BY <1>1, <2>1
  <2>4. Place(t, i) = (t + k) % n
    BY <2>3 DEF Place
  <2>5. QED
    BY <1>1, <2>1, <2>2, <2>4
<1> HIDE DEF n, h, t
<1>4. Unread \in 0 .. n - 1 /\ Unread + 1 \in 1 .. n /\ 1 \in 1 .. n /\ 1 .. Unread \subseteq 1 .. n
  BY <1>1, <1>2
<1>5. ASSUME NEW i \in 1 .. n PROVE Place(t, i) \in 0 .. n - 1
  BY <1>1, <1>3
<1>6. Place(t, 1) = t
  BY <1>1, <1>3, <1>4
<1>7. PICK k \in 1 .. n : k = Unread + 1
  BY <1>4
<1>8. Place(t, k) = h
  <2>1. Place(t, k) = IF t + k - 1 < n THEN t + k - 1 ELSE t + k - 1 - n
    BY <1>3
  <2>2. QED
    BY <1>1, <1>2, <1>7, <2>1
<1>9. ASSUME NEW i \in 1 .. Unread PROVE Place(t, i) # h
  <2>1. Place(t, i) = IF t + i - 1 < n THEN t + i - 1 ELSE t + i - 1 - n
    BY <1>3, <1>4
  <2>2. QED
    BY <1>1, <1>2, <2>1
<1>10. QED
  BY <1>4, <1>5, <1>6, <1>7, <1>8, <1>9 DEF n, h, t, Slots

(* From the next slot, the places are one less.                            *)
LEMMA PlaceShift ==
  ASSUME NEW t \in Slots, NEW i \in 1 .. CONSOLE_INPUT_BUFFER_SIZE - 1
  PROVE  Place(Next1(t), i) = Place(t, i + 1)
<1> DEFINE n == CONSOLE_INPUT_BUFFER_SIZE
<1>1. n \in Nat \ {0} /\ t \in 0 .. n - 1
  BY ConsoleAssumption DEF Slots
<1>2. PICK k \in 0 .. n - 1 : k = (t + 1) % n
  BY <1>1, RingNext
<1>3. k = IF t + 1 < n THEN t + 1 ELSE 0
  BY <1>1, <1>2, RingNext
<1>4. PICK j \in 0 .. n : j = i - 1
  BY <1>1
<1>5. (k + j) % n = IF k + j < n THEN k + j ELSE k + j - n
  BY <1>1, RingOn
<1>6. (t + i) % n = IF t + i < n THEN t + i ELSE t + i - n
  <2>1. i \in 0 .. n
    BY <1>1
  <2>2. QED
    BY <1>1, <2>1, RingOn
<1>7. (k + j) % n = (t + i) % n
  BY <1>1, <1>3, <1>4, <1>5, <1>6
<1>8. k + i - 1 = k + j /\ t + (i + 1) - 1 = t + i
  BY <1>1, <1>4
<1>9. QED
  BY <1>2, <1>7, <1>8 DEF Place, Next1

(* There is one reader at a time between P(cs_rsem) and giving up the slot. *)
LEMMA OneTaker ==
  ASSUME OneReaderRoute, TransfersLocked, NEW u \in Takers, NEW v \in Takers
  PROVE  u = v
<1>1. u \in Users /\ v \in Users /\ u \in Readers /\ v \in Readers
  BY DEF Takers, TransfersLocked
<1>2. userlock[Route[u]] = u /\ userlock[Route[v]] = v
  BY <1>1 DEF Takers, TransfersLocked, Transferring
<1>3. QED
  BY <1>1, <1>2 DEF OneReaderRoute

(* A step that leaves the ring, what was stored and what was read alone.   *)
LEMMA OrderSame ==
  ASSUME StoredInOrder, InHand' = InHand,
         UNCHANGED <<kept, got, cs_gotchars, cs_gotchars_head, cs_gotchars_tail>>
  PROVE  StoredInOrder'
<1>1. UNCHANGED Unread /\ UNCHANGED Given
  BY DEF Unread, Given
<1>2. QED
  BY <1>1 DEF StoredInOrder

(* The reader takes the oldest character ...                               *)
LEMMA OrderTake ==
  ASSUME Shape, TransfersLocked, CharsCounted, OneReaderRoute, StoredInOrder,
         NEW u \in Users, getch_take(u)
  PROVE  StoredInOrder'
<1>1. /\ pc[u] = "take" /\ pc'[u] = "advance" /\ got' = Append(got, cs_gotchars[cs_gotchars_tail])
      /\ \A v \in Users : v # u => pc'[v] = pc[v]
      /\ UNCHANGED <<kept, cs_gotchars, cs_gotchars_head, cs_gotchars_tail>>
  BY DEF getch_take, Goto, Shape, Threads
<1>2. InHand = {} /\ InHand' # {}
  <2>1. ASSUME NEW v \in InHand PROVE FALSE
    <3>1. u \in Takers /\ v \in Takers /\ pc[v] = "advance"
      BY <1>1, <2>1 DEF InHand, Takers
    <3>2. QED
      BY <1>1, <3>1, OneTaker
  <2>2. u \in InHand'
    BY <1>1 DEF InHand
  <2>3. QED
    BY <2>1, <2>2
<1>3. /\ Len(got) \in Nat /\ Len(got') = Len(got) + 1
      /\ \A i \in 1 .. Len(got) : got'[i] = got[i]
      /\ got'[Len(got) + 1] = cs_gotchars[cs_gotchars_tail]
  BY <1>1 DEF Shape
<1>4. Given = Len(got) /\ Given' = Len(got) /\ Unread' = Unread
  <2>1. Given = Len(got)
    BY <1>2, <1>3 DEF Given
  <2>2. Given' = Len(got') - 1
    BY <1>2 DEF Given
  <2>3. Unread' = Unread
    BY <1>1 DEF Unread
  <2>4. QED
    BY <1>3, <2>1, <2>2, <2>3
<1>5. Unread \in Nat /\ Unread >= 1
  <2>1. u \in Takers
    BY <1>1 DEF Takers
  <2>2. Cardinality(Takers) \in Nat /\ Cardinality(Takers) >= 1
    BY <2>1, UsersFinite, CountOne
  <2>3. cs_rsem \in Nat /\ Count(irq.v) \in {0, 1}
    BY DEF Shape, Count
  <2>4. QED
    BY <2>2, <2>3 DEF CharsCounted
<1>6. kept[Len(got) + 1] = cs_gotchars[cs_gotchars_tail]
  <2>1. 1 \in 1 .. Unread
    BY <1>5
  <2>2. kept[Given + 1] = cs_gotchars[Place(cs_gotchars_tail, 1)]
    BY <2>1 DEF StoredInOrder
  <2>3. QED
    BY <1>4, <2>2, PlaceIsSlot
<1>7. ASSUME NEW i \in 1 .. Len(got') PROVE kept'[i] = got'[i]
  <2>1. CASE i \in 1 .. Len(got)
    BY <1>1, <1>3, <2>1 DEF StoredInOrder
  <2>2. CASE i = Len(got) + 1
    BY <1>1, <1>3, <1>6, <2>2
  <2>3. QED
    BY <1>3, <2>1, <2>2
<1>8. ASSUME NEW i \in 1 .. Unread'
      PROVE  kept'[Given' + i] = cs_gotchars'[Place(cs_gotchars_tail', i)]
  BY <1>1, <1>4 DEF StoredInOrder
<1>9. Given' \in Nat /\ Len(kept') = Given' + Unread'
  BY <1>1, <1>3, <1>4 DEF StoredInOrder
<1>10. QED
  BY <1>7, <1>8, <1>9 DEF StoredInOrder

(* ... and gives up its slot.                                              *)
LEMMA OrderAdvance ==
  ASSUME Shape, TransfersLocked, CharsCounted, OneReaderRoute, StoredInOrder,
         NEW u \in Users, getch_advance(u)
  PROVE  StoredInOrder'
<1>1. /\ pc[u] = "advance" /\ pc'[u] # "advance"
      /\ \A v \in Users : v # u => pc'[v] = pc[v]
      /\ cs_gotchars_tail' = Next1(cs_gotchars_tail)
      /\ UNCHANGED <<kept, got, cs_gotchars, cs_gotchars_head>>
  BY DEF getch_advance, Goto, Shape, Threads
<1>2. InHand # {} /\ InHand' = {}
  <2>1. ASSUME NEW v \in InHand' PROVE FALSE
    <3>1. v # u /\ v \in Users /\ pc[v] = "advance"
      BY <1>1, <2>1 DEF InHand
    <3>2. u \in Takers /\ v \in Takers
      BY <1>1, <3>1 DEF Takers
    <3>3. QED
      BY <3>1, <3>2, OneTaker
  <2>2. u \in InHand
    BY <1>1 DEF InHand
  <2>3. QED
    BY <2>1, <2>2
<1>3. Len(got) \in Nat
  BY DEF Shape
<1>4. Given' = Given + 1
  <2>1. Given = Len(got) - 1
    BY <1>2 DEF Given
  <2>2. Given' = Len(got')
    BY <1>1, <1>2, <1>3 DEF Given
  <2>3. QED
    BY <1>1, <1>3, <2>1, <2>2
<1>5. Unread \in 0 .. CONSOLE_INPUT_BUFFER_SIZE - 1 /\ Unread >= 1
  <2>1. u \in Takers
    BY <1>1 DEF Takers
  <2>2. Cardinality(Takers) \in Nat /\ Cardinality(Takers) >= 1
    BY <2>1, UsersFinite, CountOne
  <2>3. cs_rsem \in Nat /\ Count(irq.v) \in {0, 1}
    BY DEF Shape, Count
  <2>4. QED
    BY <2>2, <2>3, PlaceIsSlot DEF CharsCounted
<1>6. Unread' = Unread - 1
  BY <1>1, <1>5, TailMoves
<1>7. CONSOLE_INPUT_BUFFER_SIZE \in Nat /\ cs_gotchars_tail \in Slots
  BY ConsoleAssumption DEF Shape
<1>8. ASSUME NEW i \in 1 .. Unread'
      PROVE  kept'[Given' + i] = cs_gotchars'[Place(cs_gotchars_tail', i)]
  <2>1. i \in 1 .. CONSOLE_INPUT_BUFFER_SIZE - 1 /\ i + 1 \in 1 .. Unread
    BY <1>5, <1>6, <1>7
  <2>2. kept[Given + (i + 1)] = cs_gotchars[Place(cs_gotchars_tail, i + 1)]
    BY <2>1 DEF StoredInOrder
  <2>3. Place(Next1(cs_gotchars_tail), i) = Place(cs_gotchars_tail, i + 1)
    BY <1>7, <2>1, PlaceShift
  <2>4. Given \in Nat /\ Given' + i = Given + (i + 1)
    BY <1>4, <2>1 DEF StoredInOrder
  <2>5. QED
    BY <1>1, <2>2, <2>3, <2>4
<1>9. ASSUME NEW i \in 1 .. Len(got') PROVE kept'[i] = got'[i]
  BY <1>1 DEF StoredInOrder
<1>10. Given' \in Nat /\ Len(kept') = Given' + Unread'
  BY <1>1, <1>4, <1>5, <1>6, <1>7 DEF StoredInOrder
<1>11. QED
  BY <1>8, <1>9, <1>10 DEF StoredInOrder

(* con_input stores behind the newest character, in a slot of its own.     *)
LEMMA OrderStore ==
  ASSUME Shape, StoredInOrder, CharsCounted, con_input, ~ BufferFull
  PROVE  StoredInOrder'
<1>1. /\ pc' = pc /\ UNCHANGED <<got, cs_gotchars_tail>>
      /\ cs_gotchars' = [cs_gotchars EXCEPT ![cs_gotchars_head] = irq.input]
      /\ cs_gotchars_head' = Next1(cs_gotchars_head)
      /\ kept' = Append(kept, irq.input)
  BY DEF con_input, user
<1>2. irq.input \in 0 .. MaxInput
  BY ConsoleAssumption DEF con_input, Shape
<1>3. /\ Len(kept) \in Nat /\ Len(kept') = Len(kept) + 1
      /\ \A i \in 1 .. Len(kept) : kept'[i] = kept[i]
      /\ kept'[Len(kept) + 1] = irq.input
  BY <1>1, <1>2 DEF Shape
<1>4. InHand' = InHand
  BY <1>1 DEF InHand
<1>5. Given' = Given /\ Given \in Nat /\ Len(kept) = Given + Unread
  BY <1>1, <1>4 DEF Given, StoredInOrder
<1>6. Unread' = Unread + 1
  BY <1>1, HeadMoves
<1>7. Unread \in 0 .. CONSOLE_INPUT_BUFFER_SIZE - 1 /\ Unread \in Nat
  BY PlaceIsSlot, ConsoleAssumption
<1>8. Len(got) \in Nat /\ Len(got) <= Len(kept)
  <2>1. Len(got) \in Nat /\ cs_rsem \in Nat /\ Count(irq.v) \in {0, 1}
    BY DEF Shape, Count
  <2>2. CASE InHand = {}
    BY <1>5, <1>7, <2>1, <2>2 DEF Given
  <2>3. CASE InHand # {}
    <3>1. PICK u \in InHand : u \in Takers
      BY <2>3 DEF InHand, Takers
    <3>2. Cardinality(Takers) \in Nat /\ Cardinality(Takers) >= 1
      BY <3>1, UsersFinite, CountOne
    <3>3. Unread >= 1
      BY <2>1, <3>2 DEF CharsCounted
    <3>4. Given = Len(got) - 1
      BY <2>3 DEF Given
    <3>5. QED
      BY <1>5, <1>7, <2>1, <3>3, <3>4
  <2>4. QED
    BY <2>2, <2>3
<1>9. ASSUME NEW i \in 1 .. Len(got') PROVE kept'[i] = got'[i]
  BY <1>1, <1>3, <1>8 DEF StoredInOrder
<1>10. ASSUME NEW i \in 1 .. Unread'
       PROVE  kept'[Given' + i] = cs_gotchars'[Place(cs_gotchars_tail', i)]
  <2>1. CASE i \in 1 .. Unread
    <3>1. kept'[Given + i] = kept[Given + i]
      BY <1>3, <1>5, <1>7, <2>1
    <3>2. kept[Given + i] = cs_gotchars[Place(cs_gotchars_tail, i)]
      BY <2>1 DEF StoredInOrder
    <3>3. i \in 1 .. CONSOLE_INPUT_BUFFER_SIZE
      BY <1>7, <2>1, ConsoleAssumption
    <3>4. Place(cs_gotchars_tail, i) \in Slots /\ Place(cs_gotchars_tail, i) # cs_gotchars_head
      BY <2>1, <3>3, PlaceIsSlot
    <3>5. cs_gotchars'[Place(cs_gotchars_tail, i)] = cs_gotchars[Place(cs_gotchars_tail, i)]
      BY <1>1, <3>4 DEF Shape
    <3>6. QED
      BY <1>1, <1>5, <3>1, <3>2, <3>5
  <2>2. CASE i = Unread + 1
    <3>1. Place(cs_gotchars_tail, i) = cs_gotchars_head
      BY <2>2, PlaceIsSlot
    <3>2. cs_gotchars'[cs_gotchars_head] = irq.input
      BY <1>1 DEF Shape
    <3>3. Given' + i = Len(kept) + 1
      BY <1>5, <1>7, <2>2
    <3>4. QED
      BY <1>1, <1>3, <3>1, <3>2, <3>3
  <2>3. QED
    BY <1>6, <1>7, <2>1, <2>2
<1>11. Given' \in Nat /\ Len(kept') = Given' + Unread'
  BY <1>3, <1>5, <1>6, <1>7
<1>12. QED
  BY <1>9, <1>10, <1>11 DEF StoredInOrder

(* Every step keeps the order.                                             *)
LEMMA OrderStep ==
  ASSUME OneReaderRoute, IInv, StoredInOrder, [Next]_vars
  PROVE  StoredInOrder'
<1>1. Shape /\ TransfersLocked /\ CharsCounted
  BY ShapeOfType DEF IInv, ConsoleInv
<1>2. CASE UNCHANGED vars
  BY <1>2, OrderSame DEF vars, user, input, InHand
<1>3. ASSUME NEW u \in Users, user_lock(u) \/ user_unlock(u) \/ putch_intr(u) \/ lser_write(u)
                                \/ getch_intr(u) \/ user_fail(u)
      PROVE  StoredInOrder'
  <2>1. UNCHANGED input \/ UNCHANGED <<kept, got, cs_gotchars, cs_gotchars_head, cs_gotchars_tail>>
    BY <1>3 DEF user_lock, user_unlock, putch_intr, lser_write, getch_intr, user_fail
  <2>2. pc' = pc \/ \E l : l # "advance" /\ pc' = [pc EXCEPT ![u] = l]
    BY <1>3 DEF user_lock, user_unlock, putch_intr, lser_write, getch_intr, user_fail, Goto
  <2>3. pc[u] # "advance"
    BY <1>3 DEF user_lock, user_unlock, putch_intr, lser_write, getch_intr, user_fail
  <2>4. InHand' = InHand
    BY <1>1, <2>2, <2>3 DEF InHand, Shape, Threads
  <2>5. QED
    BY <2>1, <2>4, OrderSame DEF input
<1>4. ASSUME NEW u \in Users, getch_take(u) PROVE StoredInOrder'
  BY <1>1, <1>4, OrderTake
<1>5. ASSUME NEW u \in Users, getch_advance(u) PROVE StoredInOrder'
  BY <1>1, <1>5, OrderAdvance
<1>6. ASSUME NEW p \in Polled, PolledStep(p) PROVE StoredInOrder'
  <2>1. UNCHANGED input
    BY <1>6 DEF PolledStep, writepolled_idle, writepolled_busy, writepolled_drain,
                writepolled_done
  <2>2. \E l \in Locations : pc' = [pc EXCEPT ![p] = l]
    BY <1>6 DEF PolledStep, writepolled_idle, writepolled_busy, writepolled_drain,
                writepolled_done, Goto, Locations
  <2>3. InHand' = InHand
    BY <2>2, NoUserMoves DEF IInv, ConsoleInv
  <2>4. QED
    BY <2>1, <2>3, OrderSame DEF input
<1>7. ASSUME lser_irq \/ con_start \/ con_input_v \/ DeviceSent \/ DeviceTyped
      PROVE  StoredInOrder'
  <2>1. /\ pc' = pc
        /\ UNCHANGED <<kept, got, cs_gotchars, cs_gotchars_head, cs_gotchars_tail>>
    BY <1>7 DEF lser_irq, con_start, con_input_v, DeviceSent, DeviceTyped, user, input
  <2>2. QED
    BY <2>1, OrderSame DEF InHand
<1>8. ASSUME con_input PROVE StoredInOrder'
  <2>1. CASE BufferFull
    <3>1. /\ pc' = pc
          /\ UNCHANGED <<kept, got, cs_gotchars, cs_gotchars_head, cs_gotchars_tail>>
      BY <1>8, <2>1 DEF con_input, user
    <3>2. QED
      BY <3>1, OrderSame DEF InHand
  <2>2. CASE ~ BufferFull
    BY <1>1, <1>8, <2>2, OrderStore
  <2>3. QED
    BY <2>1, <2>2
<1>9. QED
  BY <1>2, <1>3, <1>4, <1>5, <1>6, <1>7, <1>8 DEF Next, UserStep, Handler

(* Place by place is what InputInOrder says of the sequences.              *)
LEMMA OrderOfPlaces ==
  ASSUME IInv, StoredInOrder
  PROVE  InputInOrder
<1>1. Shape /\ CharsCounted
  BY ShapeOfType DEF IInv, ConsoleInv
<1>2. PICK n \in Nat : n = Unread /\ n \in 0 .. CONSOLE_INPUT_BUFFER_SIZE - 1
  BY <1>1, PlaceIsSlot, ConsoleAssumption
<1>3. PICK b : b = Buffered
  OBVIOUS
<1>4. b \in Seq(0 .. MaxInput) /\ Len(b) = n
  <2>1. ASSUME NEW i \in 1 .. n PROVE Place(cs_gotchars_tail, i) \in Slots
    BY <1>1, <1>2, PlaceIsSlot, ConsoleAssumption
  <2>2. b = [i \in 1 .. n |-> cs_gotchars[Place(cs_gotchars_tail, i)]]
    BY <1>2, <1>3 DEF Buffered, Place
  <2>3. b \in [1 .. n -> 0 .. MaxInput]
    BY <1>1, <2>1, <2>2 DEF Shape
  <2>4. b \in Seq(0 .. MaxInput)
    BY <2>3, SeqDef
  <2>5. QED
    BY <2>3, <2>4, LenProperties
<1>5. ASSUME NEW i \in 1 .. n PROVE b[i] = kept[Given + i]
  <2>1. b[i] = cs_gotchars[Place(cs_gotchars_tail, i)]
    BY <1>2, <1>3 DEF Buffered, Place
  <2>2. QED
    BY <1>2, <2>1 DEF StoredInOrder
<1>6. /\ got \in Seq(0 .. MaxInput) /\ kept \in Seq(0 .. MaxInput)
      /\ Len(got) \in Nat /\ Len(kept) \in Nat
  BY <1>1 DEF Shape
<1>7. /\ Given \in Nat /\ Len(kept) = Given + n
      /\ \A i \in 1 .. Len(got) : kept[i] = got[i]
  BY <1>2 DEF StoredInOrder
<1>8. ASSUME NEW q \in Seq(0 .. MaxInput), Len(kept) = Len(got) + Len(q),
             \A i \in 1 .. Len(q) : q[i] = kept[Len(got) + i]
      PROVE  kept = got \o q
  <2>1. Len(q) \in Nat
    BY <1>8
  <2>2. /\ got \o q \in Seq(0 .. MaxInput)
        /\ Len(got \o q) = Len(got) + Len(q)
        /\ \A i \in 1 .. Len(got) + Len(q) :
              (got \o q)[i] = IF i <= Len(got) THEN got[i] ELSE q[i - Len(got)]
    BY <1>6, ConcatProperties
  <2>3. ASSUME NEW i \in 1 .. Len(kept) PROVE kept[i] = (got \o q)[i]
    <3>1. CASE i <= Len(got)
      BY <1>6, <1>7, <1>8, <2>1, <2>2, <2>3, <3>1
    <3>2. CASE i > Len(got)
      <4>0. i \in Int /\ i - Len(got) \in 1 .. Len(q) /\ i = Len(got) + (i - Len(got))
        <5>1. PICK g \in Nat, m \in Nat : g = Len(got) /\ m = Len(q)
          BY <1>6, <2>1
        <5>2. i \in 1 .. g + m /\ i > g
          BY <1>8, <2>3, <3>2, <5>1
        <5>3. i - g \in 1 .. m /\ i = g + (i - g)
          BY <5>2
        <5>4. QED
          BY <5>1, <5>2, <5>3
      <4>1. PICK j \in 1 .. Len(q) : j = i - Len(got) /\ i = Len(got) + j
        BY <4>0
      <4>2. (got \o q)[i] = q[j]
        BY <1>6, <1>8, <2>1, <2>2, <2>3, <3>2, <4>1
      <4>3. QED
        BY <1>8, <4>1, <4>2
    <3>3. i <= Len(got) \/ i > Len(got)
      <4>1. i \in Int
        BY <1>6, <2>3
      <4>2. QED
        BY <1>6, <4>1
    <3>4. QED
      BY <3>1, <3>2, <3>3
  <2>4. QED
    BY <1>6, <1>8, <2>2, <2>3, SeqEqual
<1>9. CASE InHand = {}
  <2>1. Given = Len(got)
    BY <1>6, <1>9 DEF Given
  <2>2. kept = got \o b
    BY <1>4, <1>5, <1>7, <1>8, <2>1
  <2>3. QED
    BY <1>1, <1>3, <1>9, <2>2 DEF InputInOrder
<1>10. CASE InHand # {}
  <2>1. Given = Len(got) - 1
    BY <1>10 DEF Given
  <2>2. n >= 1
    <3>1. PICK u \in InHand : u \in Takers
      BY <1>10 DEF InHand, Takers
    <3>2. Cardinality(Takers) \in Nat /\ Cardinality(Takers) >= 1
      BY <3>1, UsersFinite, CountOne
    <3>3. cs_rsem \in Nat /\ Count(irq.v) \in {0, 1}
      BY <1>1 DEF Shape, Count
    <3>4. QED
      BY <1>1, <1>2, <3>2, <3>3 DEF CharsCounted
  <2>3. PICK q \in Seq(0 .. MaxInput) : /\ q = Tail(b) /\ Len(q) = n - 1
                                        /\ \A i \in 1 .. n - 1 : q[i] = b[i + 1]
    <3>1. b # << >>
      BY <1>4, <2>2
    <3>2. /\ Tail(b) \in Seq(0 .. MaxInput) /\ Len(Tail(b)) = n - 1
          /\ \A i \in 1 .. n - 1 : Tail(b)[i] = b[i + 1]
      BY <1>4, <3>1, HeadTailProperties
    <3>3. QED
      BY <3>2
  <2>4. ASSUME NEW i \in 1 .. Len(q) PROVE q[i] = kept[Len(got) + i]
    <3>1. i \in 1 .. n - 1 /\ i + 1 \in 1 .. n
      BY <2>3, <2>4
    <3>2. q[i] = b[i + 1] /\ b[i + 1] = kept[Given + (i + 1)]
      BY <1>5, <2>3, <3>1
    <3>3. Given + (i + 1) = Len(got) + i
      BY <1>6, <2>1, <3>1
    <3>4. QED
      BY <3>2, <3>3
  <2>5. kept = got \o q
    <3>1. Len(kept) = Len(got) + Len(q)
      BY <1>6, <1>7, <2>1, <2>3
    <3>2. QED
      BY <1>8, <2>4, <3>1
  <2>6. QED
    BY <1>1, <1>3, <1>10, <2>3, <2>5 DEF InputInOrder
<1>11. QED
  BY <1>9, <1>10

(* While readers take turns under one lock, getch returns the characters   *)
(* con_input stored, each once and in the order of typing, although the    *)
(* handler fills the ring buffer without any lock.                         *)
THEOREM TypedInOrder == ASSUME OneReaderRoute PROVE Spec => []InputInOrder
<1>1. Init => StoredInOrder
  <2> SUFFICES ASSUME Init PROVE StoredInOrder
    OBVIOUS
  <2>1. InHand = {}
    BY DEF Init, InHand, Threads
  <2>2. Unread = 0
    BY ConsoleAssumption DEF Init, Unread
  <2>3. kept = << >> /\ got = << >> /\ Len(got) = 0 /\ Len(kept) = 0
    BY DEF Init
  <2>4. Given = 0
    BY <2>1, <2>3 DEF Given
  <2>5. QED
    BY <2>2, <2>3, <2>4 DEF StoredInOrder
<1>2. IInv /\ StoredInOrder /\ [Next]_vars => StoredInOrder'
  BY OrderStep
<1>3. IInv /\ StoredInOrder => InputInOrder
  BY OrderOfPlaces
<1>4. QED
  BY <1>1, <1>2, <1>3, IInvAlways, PTL DEF Spec

============================================================================
