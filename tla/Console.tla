------------------------------ MODULE Console ------------------------------
(***************************************************************************)
(* The system console: dev/generic/console.c on the serial device of       *)
(* dev/lamebus/lser.c, and the users' ways to it, write_std and read_stdin *)
(* of the file system calls and con_io of the "con:" device.               *)
(*                                                                         *)
(* Three kinds of actor run concurrently: users, who print and read under  *)
(* a lock and sleep on the two semaphores; polled printers, who must not   *)
(* sleep (in an interrupt handler, or holding a spinlock) and wait for the *)
(* device with ls_lock held; and the interrupt handler.  lamebus.c routes  *)
(* all interrupts to the boot cpu, so there is one handler at a time; it   *)
(* calls con_start and con_input after it released ls_lock.                *)
(*                                                                         *)
(* The semaphores are counters here: Semaphore.tla shows what P and V do.  *)
(***************************************************************************)
EXTENDS Integers, FiniteSets, SequencesExt

CONSTANTS
  Writers,      \* users that print one line each
  Readers,      \* users that read one line each
  Polled,       \* contexts that print one character each by polling
  Route,        \* user -> the lock it goes through: File.lk or con_userlock
  Standard,     \* routes of write_std and read_stdin; the others are con_io
  LineLen,      \* characters of a written line, and asked for by a read
  MaxInput,     \* characters typed, numbered in the order of typing
  NewLines,     \* those of them that are newlines
  CONSOLE_INPUT_BUFFER_SIZE,
  NULL

ASSUME ConsoleAssumption ==
  /\ LineLen \in Nat \ {0} /\ MaxInput \in Nat /\ NewLines \subseteq 1 .. MaxInput
  /\ CONSOLE_INPUT_BUFFER_SIZE \in Nat \ {0, 1}
  /\ Writers \cap Readers = {} /\ (Writers \cup Readers) \cap Polled = {}
  /\ IsFiniteSet(Writers \cup Readers)
  /\ NULL \notin Writers \cup Readers \cup Polled \cup Nat

Users == Writers \cup Readers
Threads == Users \cup Polled
Routes == {Route[u] : u \in Users}
Slots == 0 .. CONSOLE_INPUT_BUFFER_SIZE - 1

VARIABLES
  pc,        \* thread -> where it is
  left,      \* user -> characters it still wants to print or read
  userlock,  \* route -> the user holding its lock, or NULL
  cs_wsem, cs_rsem,
  cs_gotchars, cs_gotchars_head, cs_gotchars_tail,
  ls_lock,   \* the polled printer holding it across steps, or NULL
  ls_wbusy,
  wirq,      \* the register LSER_REG_WIRQ: enable, ready and force bits
  sending,   \* the device is transmitting a character
  rchar,     \* a typed character waiting in LSER_REG_CHAR, or NULL
  typed,     \* how many were typed so far
  irq,       \* what the interrupt handler still has to call, and with what
  out,       \* who wrote each character the device was given
  kept, got  \* characters con_input stored, and getch returned, in order

user == <<pc, left, userlock>>
output == <<cs_wsem, ls_lock, ls_wbusy, wirq, sending, out>>
input == <<cs_rsem, cs_gotchars, cs_gotchars_head, cs_gotchars_tail, kept, got>>
vars == <<user, output, input, rchar, typed, irq>>

Locations == {"start", "putch", "send", "getch", "take", "advance",
              "drain", "wait", "done", "panic"}

(* Every variable keeps its type. *)
TypeOK ==
  /\ pc \in [Threads -> Locations]
  /\ left \in [Users -> 0 .. LineLen]
  /\ userlock \in [Routes -> Users \cup {NULL}]
  /\ cs_wsem \in 0 .. 1 /\ cs_rsem \in 0 .. CONSOLE_INPUT_BUFFER_SIZE - 1
  /\ cs_gotchars \in [Slots -> 0 .. MaxInput]
  /\ cs_gotchars_head \in Slots /\ cs_gotchars_tail \in Slots
  /\ ls_lock \in Polled \cup {NULL} /\ ls_wbusy \in BOOLEAN
  /\ wirq \in [enable : BOOLEAN, ready : BOOLEAN, force : BOOLEAN]
  /\ sending \in BOOLEAN /\ typed \in 0 .. MaxInput
  /\ rchar \in 1 .. MaxInput \cup {NULL}
  /\ irq \in [start : BOOLEAN, input : 1 .. MaxInput \cup {NULL}, v : BOOLEAN]
  /\ out \in Seq(Threads)
  /\ kept \in Seq(0 .. MaxInput) /\ got \in Seq(0 .. MaxInput)

WIRQ(enable, ready, force) == [enable |-> enable, ready |-> ready, force |-> force]

\* config_lser and config_con
Init ==
  /\ pc = [t \in Threads |-> "start"]
  /\ left = [u \in Users |-> LineLen]
  /\ userlock = [r \in Routes |-> NULL]
  /\ cs_wsem = 1 /\ cs_rsem = 0
  /\ cs_gotchars = [i \in Slots |-> 0]
  /\ cs_gotchars_head = 0 /\ cs_gotchars_tail = 0
  /\ ls_lock = NULL /\ ls_wbusy = FALSE
  /\ wirq = WIRQ(TRUE, FALSE, FALSE)
  /\ sending = FALSE /\ rchar = NULL /\ typed = 0
  /\ irq = [start |-> FALSE, input |-> NULL, v |-> FALSE]
  /\ out = <<>> /\ kept = <<>> /\ got = <<>>

Goto(t, l) == pc' = [pc EXCEPT ![t] = l]

----------------------------------------------------------------------------
(* Users *)

\* Mutant: no lock, each character is printed on its own.
user_lock_none(u) ==
  /\ pc[u] = "start"
  /\ Goto(u, IF u \in Writers THEN "putch" ELSE "getch")
  /\ UNCHANGED <<left, userlock, output, input, rchar, typed, irq>>

\* write_std, read_stdin and con_io take their lock for the whole transfer.
user_lock(u) ==
  /\ pc[u] = "start"
  /\ userlock[Route[u]] = NULL
  /\ userlock' = [userlock EXCEPT ![Route[u]] = u]
  /\ Goto(u, IF u \in Writers THEN "putch" ELSE "getch")
  /\ UNCHANGED <<left, output, input, rchar, typed, irq>>

\* All characters are through.
user_unlock(u) ==
  /\ pc[u] \in {"putch", "getch"} /\ left[u] = 0
  /\ userlock' = [userlock EXCEPT ![Route[u]] = NULL]
  /\ Goto(u, "done")
  /\ UNCHANGED <<left, output, input, rchar, typed, irq>>

\* The transfer fails.  A writer's characters are fetched before they are
\* printed: by con_io one by one, by write_std the whole line.  A reader of
\* con: cannot store the character it was given; on standard input there is
\* no memory for the line before the first one (a copyout that fails comes
\* after the last and changes nothing here).
user_fail(u) ==
  /\ left[u] > 0
  /\ \/ /\ pc[u] = "putch" /\ u \in Writers
        /\ left[u] = LineLen \/ Route[u] \notin Standard
     \/ /\ pc[u] = "getch"
        /\ (left[u] = LineLen) <=> (Route[u] \in Standard)
  /\ left' = [left EXCEPT ![u] = 0]
  /\ UNCHANGED <<pc, userlock, output, input, rchar, typed, irq>>

\* putch_intr: P(cs_wsem).
putch_intr(u) ==
  /\ pc[u] = "putch" /\ left[u] > 0
  /\ cs_wsem > 0
  /\ cs_wsem' = cs_wsem - 1
  /\ Goto(u, "send")
  /\ UNCHANGED <<left, userlock, ls_lock, ls_wbusy, wirq, sending, out,
                 input, rchar, typed, irq>>

\* The character goes to the device.
SendChar(t) == sending' = TRUE /\ out' = Append(out, t)

\* lser_write panics when the device is busy.
lser_write(u) ==
  /\ pc[u] = "send" /\ ls_lock = NULL
  /\ IF ls_wbusy
       THEN Goto(u, "panic") /\ UNCHANGED <<left, ls_wbusy, sending, out>>
       ELSE /\ ls_wbusy' = TRUE
            /\ SendChar(u)
            /\ left' = [left EXCEPT ![u] = @ - 1]
            /\ Goto(u, "putch")
  /\ UNCHANGED <<userlock, cs_wsem, ls_lock, wirq, input, rchar, typed, irq>>

\* getch_intr: P(cs_rsem).
getch_intr(u) ==
  /\ pc[u] = "getch" /\ left[u] > 0
  /\ cs_rsem > 0
  /\ cs_rsem' = cs_rsem - 1
  /\ Goto(u, "take")
  /\ UNCHANGED <<left, userlock, output, cs_gotchars, cs_gotchars_head,
                 cs_gotchars_tail, kept, got, rchar, typed, irq>>

\* The character at the tail is read ...
getch_take(u) ==
  /\ pc[u] = "take"
  /\ got' = Append(got, cs_gotchars[cs_gotchars_tail])
  /\ Goto(u, "advance")
  /\ UNCHANGED <<left, userlock, output, cs_rsem, cs_gotchars,
                 cs_gotchars_head, cs_gotchars_tail, kept, rchar, typed, irq>>

Next1(slot) == (slot + 1) % CONSOLE_INPUT_BUFFER_SIZE

\* ... and its slot given up, without a lock.  A newline ends the read; one
\* from standard input is echoed first.
getch_advance(u) ==
  /\ pc[u] = "advance"
  /\ cs_gotchars_tail' = Next1(cs_gotchars_tail)
  /\ LET newline == Last(got) \in NewLines
         echo == newline /\ Route[u] \in Standard
     IN /\ left' = [left EXCEPT ![u] = IF echo THEN 1 ELSE
                                       IF newline THEN 0 ELSE @ - 1]
        /\ Goto(u, IF echo THEN "putch" ELSE "getch")
  /\ UNCHANGED <<userlock, output, cs_rsem, cs_gotchars, cs_gotchars_head,
                 kept, got, rchar, typed, irq>>

----------------------------------------------------------------------------
(* Polled printing *)

\* lser_writepolled when the last character is done: interrupts off, send.
writepolled_idle(p) ==
  /\ pc[p] = "start" /\ ls_lock = NULL /\ ~ls_wbusy
  /\ ls_lock' = p
  /\ wirq' = WIRQ(FALSE, FALSE, FALSE)
  /\ SendChar(p)
  /\ Goto(p, "wait")
  /\ UNCHANGED <<left, userlock, cs_wsem, ls_wbusy, input, rchar, typed, irq>>

\* When it is not: wait for it first.
writepolled_busy(p) ==
  /\ pc[p] = "start" /\ ls_lock = NULL /\ ls_wbusy
  /\ ls_lock' = p
  /\ Goto(p, "drain")
  /\ UNCHANGED <<left, userlock, cs_wsem, ls_wbusy, wirq, sending, out,
                 input, rchar, typed, irq>>

\* Mutant: the character is sent without waiting for the one before.
writepolled_drain_no_wait(p) ==
  /\ pc[p] = "drain"
  /\ wirq' = WIRQ(TRUE, FALSE, TRUE)
  /\ SendChar(p)
  /\ Goto(p, "wait")
  /\ UNCHANGED <<left, userlock, cs_wsem, ls_lock, ls_wbusy, input, rchar, typed, irq>>

\* The ready bit is cleared and the interrupt kept pending by the force bit.
writepolled_drain(p) ==
  /\ pc[p] = "drain" /\ wirq.ready
  /\ wirq' = WIRQ(TRUE, FALSE, TRUE)
  /\ SendChar(p)
  /\ Goto(p, "wait")
  /\ UNCHANGED <<left, userlock, cs_wsem, ls_lock, ls_wbusy, input, rchar, typed, irq>>

\* Mutant: the register is always reset, and a pending interrupt is lost.
writepolled_done_resets(p) ==
  /\ pc[p] = "wait" /\ wirq.ready
  /\ wirq' = WIRQ(TRUE, FALSE, FALSE)
  /\ ls_lock' = NULL
  /\ Goto(p, "done")
  /\ UNCHANGED <<left, userlock, cs_wsem, ls_wbusy, sending, out, input, rchar, typed, irq>>

\* Its own character is done.  An interrupt that was pending (irqpending, the
\* value ls_wbusy still has) is left to the handler.
writepolled_done(p) ==
  /\ pc[p] = "wait" /\ wirq.ready
  /\ wirq' = IF ls_wbusy THEN wirq ELSE WIRQ(TRUE, FALSE, FALSE)
  /\ ls_lock' = NULL
  /\ Goto(p, "done")
  /\ UNCHANGED <<left, userlock, cs_wsem, ls_wbusy, sending, out, input, rchar, typed, irq>>

----------------------------------------------------------------------------
(* The interrupt handler *)

HandlerIdle == ~irq.start /\ irq.input = NULL /\ ~irq.v

\* Mutant: the handler calls ls_start for every write interrupt condition
\* it finds enabled, ready or not.
lser_irq_always_starts ==
  /\ HandlerIdle /\ ls_lock = NULL
  /\ rchar # NULL \/ (wirq.enable /\ (wirq.ready \/ wirq.force))
  /\ ls_wbusy' = FALSE
  /\ wirq' = WIRQ(TRUE, FALSE, FALSE)
  /\ irq' = [start |-> TRUE, input |-> rchar, v |-> FALSE]
  /\ rchar' = NULL
  /\ UNCHANGED <<user, cs_wsem, ls_lock, sending, out, input, typed>>

\* lser_irq: under ls_lock, see what is ready and acknowledge it.
lser_irq ==
  /\ HandlerIdle /\ ls_lock = NULL
  /\ rchar # NULL \/ (wirq.enable /\ (wirq.ready \/ wirq.force))
  /\ ls_wbusy' = (ls_wbusy /\ ~wirq.ready)
  /\ wirq' = IF wirq.ready THEN WIRQ(TRUE, FALSE, FALSE) ELSE wirq
  /\ irq' = [start |-> wirq.ready, input |-> rchar, v |-> FALSE]
  /\ rchar' = NULL
  /\ UNCHANGED <<user, cs_wsem, ls_lock, sending, out, input, typed>>

\* con_start: V(cs_wsem).
con_start ==
  /\ irq.start
  /\ cs_wsem' = cs_wsem + 1
  /\ irq' = [irq EXCEPT !.start = FALSE]
  /\ UNCHANGED <<user, ls_lock, ls_wbusy, wirq, sending, out, input, rchar, typed>>

\* con_input's test for a full buffer, which wastes a slot.
BufferFull == Next1(cs_gotchars_head) = cs_gotchars_tail

\* Mutant: V(cs_rsem) for a dropped character too.
con_input_v_always ==
  /\ ~irq.start /\ irq.input # NULL
  /\ irq' = [irq EXCEPT !.input = NULL, !.v = TRUE]
  /\ IF BufferFull
       THEN UNCHANGED <<cs_gotchars, cs_gotchars_head, kept>>
       ELSE /\ cs_gotchars' = [cs_gotchars EXCEPT ![cs_gotchars_head] = irq.input]
            /\ cs_gotchars_head' = Next1(cs_gotchars_head)
            /\ kept' = Append(kept, irq.input)
  /\ UNCHANGED <<user, output, cs_rsem, cs_gotchars_tail, got, rchar, typed>>

\* con_input: the character is dropped when the buffer is full, or stored.
con_input ==
  /\ ~irq.start /\ irq.input # NULL
  /\ irq' = [irq EXCEPT !.input = NULL, !.v = ~BufferFull]
  /\ IF BufferFull
       THEN UNCHANGED <<cs_gotchars, cs_gotchars_head, kept>>
       ELSE /\ cs_gotchars' = [cs_gotchars EXCEPT ![cs_gotchars_head] = irq.input]
            /\ cs_gotchars_head' = Next1(cs_gotchars_head)
            /\ kept' = Append(kept, irq.input)
  /\ UNCHANGED <<user, output, cs_rsem, cs_gotchars_tail, got, rchar, typed>>

\* V(cs_rsem).
con_input_v ==
  /\ irq.v
  /\ cs_rsem' = cs_rsem + 1
  /\ irq' = [irq EXCEPT !.v = FALSE]
  /\ UNCHANGED <<user, output, cs_gotchars, cs_gotchars_head,
                 cs_gotchars_tail, kept, got, rchar, typed>>

----------------------------------------------------------------------------
(* The device *)

\* A character has been transmitted: the ready bit comes on.
DeviceSent ==
  /\ sending
  /\ sending' = FALSE
  /\ wirq' = [wirq EXCEPT !.ready = TRUE]
  /\ UNCHANGED <<user, cs_wsem, ls_lock, ls_wbusy, out, input, rchar, typed, irq>>

\* Somebody types.
DeviceTyped ==
  /\ rchar = NULL /\ typed < MaxInput
  /\ typed' = typed + 1
  /\ rchar' = typed + 1
  /\ UNCHANGED <<user, output, input, irq>>

----------------------------------------------------------------------------

UserStep(u) ==
  \/ user_lock(u)
  \/ user_unlock(u)
  \/ putch_intr(u)
  \/ lser_write(u)
  \/ getch_intr(u)
  \/ getch_take(u)
  \/ getch_advance(u)

PolledStep(p) ==
  \/ writepolled_idle(p)
  \/ writepolled_busy(p)
  \/ writepolled_drain(p)
  \/ writepolled_done(p)

Handler == lser_irq \/ con_start \/ con_input \/ con_input_v

Next ==
  \/ \E u \in Users : UserStep(u) \/ user_fail(u)
  \/ \E p \in Polled : PolledStep(p)
  \/ Handler
  \/ DeviceSent
  \/ DeviceTyped

Spec ==
  /\ Init /\ [][Next]_vars
  /\ \A u \in Users : WF_vars(UserStep(u))
  /\ \A p \in Polled : WF_vars(PolledStep(p))
  /\ WF_vars(Handler) /\ WF_vars(DeviceSent)

----------------------------------------------------------------------------
(* Properties *)

Count(b) == IF b THEN 1 ELSE 0

\* Users that P(cs_wsem) has given leave to write.
Senders == {u \in Users : pc[u] = "send"}

(* There is one leave to write, and it is always somewhere: in cs_wsem, with *)
(* the user about to call lser_write, with the busy device, or with the      *)
(* handler between releasing ls_lock and con_start.  So lser_write never     *)
(* finds the device busy ("This should not happen"), whatever the polled     *)
(* printers do to the register in between.                                   *)
OneLeaveToWrite ==
  /\ cs_wsem + Cardinality(Senders) + Count(ls_wbusy) + Count(irq.start) = 1
  /\ \A u \in Users : pc[u] # "panic"

(* A character is handed to the device only when the one before has been     *)
(* transmitted.                                                              *)
NothingOverwritten == [][out' # out => ~sending]_vars

\* How many characters are in the ring buffer, and which, oldest first.
Unread == (cs_gotchars_head - cs_gotchars_tail) % CONSOLE_INPUT_BUFFER_SIZE

Buffered ==
  [i \in 1 .. Unread |-> cs_gotchars[(cs_gotchars_tail + i - 1) % CONSOLE_INPUT_BUFFER_SIZE]]

\* Users whom P(cs_rsem) has promised a character, and those between reading
\* it and giving up its slot.
Takers == {u \in Users : pc[u] \in {"take", "advance"}}
InHand == {u \in Users : pc[u] = "advance"}

(* cs_rsem counts the characters not yet promised to a reader, a V() that    *)
(* is still to come included.                                                *)
CharsCounted == Unread = cs_rsem + Count(irq.v) + Cardinality(Takers)

(* getch returns the characters that con_input stored, each once and in the  *)
(* order of typing, though reader and handler share the ring buffer without  *)
(* a lock; and none is promised that is not there.                           *)
InputInOrder ==
  /\ kept = got \o (IF InHand = {} THEN Buffered ELSE Tail(Buffered))
  /\ CharsCounted

(* "Lock so user I/Os are atomic": no character of another user of the same  *)
(* route comes between two of one user's line.                               *)
LinesWhole ==
  \A i, j, k \in 1 .. Len(out) :
    (i < j /\ j < k /\ out[i] = out[k] /\ {out[i], out[j]} \subseteq Users
       /\ Route[out[j]] = Route[out[i]]) => out[j] = out[i]

(* Printing ends: every user and every polled printer gets its characters    *)
(* out and returns.                                                          *)
PrintingEnds == \A t \in Writers \cup Polled : <>(pc[t] = "done")

(* The device is transmitting, or done and unacknowledged, exactly while     *)
(* somebody waits for it: the user's character (ls_wbusy) or the polled      *)
(* printer that holds ls_lock.  The interrupt a user waits for is enabled.   *)
DeviceAgrees ==
  /\ ~ (sending /\ wirq.ready)
  /\ (sending \/ wirq.ready) <=> (ls_wbusy \/ ls_lock # NULL)
  /\ ls_wbusy \/ ls_lock = NULL => wirq.enable
  /\ \A p \in Polled : /\ pc[p] \in {"start", "drain", "wait", "done"}
                       /\ ls_lock = p <=> pc[p] \in {"drain", "wait"}
                       /\ pc[p] = "drain" => ls_wbusy
  /\ irq.v => irq.input = NULL /\ ~ irq.start

Transferring == {"putch", "send", "getch", "take", "advance"}

(* A user transfers characters only under the lock of its route, and has     *)
(* one to go when it has leave to write or to read.                          *)
TransfersLocked ==
  \A u \in Users :
    /\ pc[u] \in Transferring \cup {"start", "done"}
    /\ pc[u] \in Transferring <=> userlock[Route[u]] = u
    /\ pc[u] \in {"send", "take", "advance"} => left[u] > 0
    /\ pc[u] \in {"getch", "take", "advance"} => u \in Readers

(* A user that has not begun has printed nothing, and nobody else of its     *)
(* route prints after it while it is at it.                                  *)
LineUnderWay ==
  \A u \in Users :
    /\ pc[u] = "start" => \A i \in 1 .. Len(out) : out[i] # u
    /\ pc[u] \in Transferring =>
         \A i, j \in 1 .. Len(out) :
           (i < j /\ out[i] = u /\ out[j] \in Users /\ Route[out[j]] = Route[u])
             => out[j] = u

(* Taken together: while users, polled printers and the handler use the    *)
(* device, exactly one of them may write, nobody waits for an interrupt    *)
(* that will not come, and the semaphores, the ring and the locks agree.   *)
ConsoleInv ==
  /\ TypeOK /\ OneLeaveToWrite /\ DeviceAgrees /\ TransfersLocked
  /\ CharsCounted /\ LineUnderWay

============================================================================
