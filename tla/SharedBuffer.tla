---------------------------- MODULE SharedBuffer ---------------------------
(***************************************************************************)
(* The bounded buffer of kern/shared_buffer/shared_buffer.c: a ring of     *)
(* characters behind a lock, with one condition variable for producers and *)
(* one for consumers.  The lock and the condition variables are a Monitor, *)
(* which Synch is shown to implement.  Any thread may produce and consume. *)
(***************************************************************************)
EXTENDS Naturals, FiniteSets

CONSTANTS
  Threads,
  Values,         (* the characters                                        *)
  Size,           (* buffer->size                                          *)
  NULL            (* nobody has the lock                                   *)

ASSUME SharedBufferConstants ==
  /\ NULL \notin Threads
  /\ IsFiniteSet(Threads)
  /\ Size \in Nat \ {0}

CVs == {"cv_producer", "cv_consumer"}

VARIABLES
  created,        (* the buffer exists                                     *)
  buffer,         (* buffer->buffer                                        *)
  in,             (* buffer->in                                            *)
  out,            (* buffer->out                                           *)
  count,          (* buffer->count                                         *)
  holder,         (* who has buffer->lock                                  *)
  waiting,        (* who waits on which condition variable                 *)
  pc,             (* where each thread is                                  *)
  char            (* the input of a produce, the result of a consume       *)

ring == <<created, buffer, in, out, count>>
monitor == <<holder, waiting>>
vars == <<ring, monitor, pc, char>>

M == INSTANCE Monitor

Locations ==
  {"out", "produce", "produce_signal", "consume", "consume_signal", "release"}

Slots == 0 .. Size - 1

Init ==
  /\ created = FALSE
  /\ buffer \in [Slots -> Values]
  /\ in = 0 /\ out = 0 /\ count = 0
  /\ M!Init
  /\ pc = [t \in Threads |-> "out"]
  /\ char \in [Threads -> Values]

Goto(t, from, to) ==
  /\ pc[t] = from
  /\ pc' = [pc EXCEPT ![t] = to]

(* kmalloc leaves anything in the characters.                              *)
shared_buffer_create ==
  /\ ~ created
  /\ created' = TRUE
  /\ buffer' \in [Slots -> Values]
  /\ in' = 0 /\ out' = 0 /\ count' = 0
  /\ UNCHANGED <<monitor, pc, char>>

(* The caller sees to it that nobody is in a call (test_teardown).         *)
shared_buffer_destroy ==
  /\ created
  /\ \A t \in Threads : pc[t] = "out"
  /\ created' = FALSE
  /\ UNCHANGED <<buffer, in, out, count, monitor, pc, char>>

(* A thread calls one of the two operations.                               *)
call(t) ==
  /\ created
  /\ \/ /\ Goto(t, "out", "produce")
        /\ \E input \in Values : char' = [char EXCEPT ![t] = input]
     \/ /\ Goto(t, "out", "consume")
        /\ UNCHANGED char
  /\ UNCHANGED <<ring, monitor>>

(* lock_acquire, on entry and inside cv_wait after a wakeup.               *)
acquire(t) ==
  /\ pc[t] \in {"produce", "consume"}
  /\ M!Enter(t)
  /\ UNCHANGED <<ring, pc, char>>

produce_wait(t) ==
  /\ pc[t] = "produce"
  /\ count = Size
  /\ M!Wait(t, "cv_producer")
  /\ UNCHANGED <<ring, pc, char>>

(* Mutant: the two indices are confused.                                   *)
produce_put_at_out(t) ==
  /\ Goto(t, "produce", "produce_signal")
  /\ holder = t
  /\ count # Size
  /\ buffer' = [buffer EXCEPT ![out] = char[t]]
  /\ in' = (in + 1) % Size
  /\ count' = count + 1
  /\ UNCHANGED <<created, out, monitor, char>>

produce_put(t) ==
  /\ Goto(t, "produce", "produce_signal")
  /\ holder = t
  /\ count # Size
  /\ buffer' = [buffer EXCEPT ![in] = char[t]]
  /\ in' = (in + 1) % Size
  /\ count' = count + 1
  /\ UNCHANGED <<created, out, monitor, char>>

(* cv_signal: one waiter goes for the lock again, if there is one.         *)
signal(t, c) ==
  \/ M!Signal(t, c)
  \/ holder = t /\ waiting[c] = {} /\ UNCHANGED monitor

(* Mutant: a consumer is only told when the buffer was empty.              *)
produce_signal_at_one(t) ==
  /\ Goto(t, "produce_signal", "release")
  /\ IF count = 1 THEN signal(t, "cv_consumer") ELSE UNCHANGED monitor
  /\ UNCHANGED <<ring, char>>

produce_signal(t) ==
  /\ Goto(t, "produce_signal", "release")
  /\ signal(t, "cv_consumer")
  /\ UNCHANGED <<ring, char>>

consume_wait(t) ==
  /\ pc[t] = "consume"
  /\ count = 0
  /\ M!Wait(t, "cv_consumer")
  /\ UNCHANGED <<ring, pc, char>>

consume_take(t) ==
  /\ Goto(t, "consume", "consume_signal")
  /\ holder = t
  /\ count # 0
  /\ char' = [char EXCEPT ![t] = buffer[out]]
  /\ out' = (out + 1) % Size
  /\ count' = count - 1
  /\ UNCHANGED <<created, buffer, in, monitor>>

(* Mutant: a producer is only told when the buffer was full.               *)
consume_signal_was_full(t) ==
  /\ Goto(t, "consume_signal", "release")
  /\ IF count = Size - 1 THEN signal(t, "cv_producer") ELSE UNCHANGED monitor
  /\ UNCHANGED <<ring, char>>

(* Mutant: no producer is told.                                            *)
consume_signal_none(t) ==
  /\ Goto(t, "consume_signal", "release")
  /\ UNCHANGED <<ring, monitor, char>>

consume_signal(t) ==
  /\ Goto(t, "consume_signal", "release")
  /\ signal(t, "cv_producer")
  /\ UNCHANGED <<ring, char>>

release(t) ==
  /\ Goto(t, "release", "out")
  /\ M!Exit(t)
  /\ UNCHANGED <<ring, char>>

Run(t) ==
  \/ acquire(t)
  \/ produce_wait(t) \/ produce_put(t) \/ produce_signal(t)
  \/ consume_wait(t) \/ consume_take(t) \/ consume_signal(t)
  \/ release(t)

Next ==
  \/ shared_buffer_create
  \/ shared_buffer_destroy
  \/ \E t \in Threads : call(t) \/ Run(t)

Spec == Init /\ [][Next]_vars

(* Runnable threads run; nobody is obliged to make a call.                 *)
FairSpec == Spec /\ \A t \in Threads : WF_vars(Run(t))

----------------------------------------------------------------------------

TypeOK ==
  /\ created \in BOOLEAN
  /\ buffer \in [Slots -> Values]
  /\ in \in Slots /\ out \in Slots /\ count \in 0 .. Size
  /\ holder \in Threads \cup {NULL}
  /\ waiting \in [CVs -> SUBSET Threads]
  /\ pc \in [Threads -> Locations]
  /\ char \in [Threads -> Values]

(* Threads past the lock hold it, and waiting threads do not.              *)
LockHeld ==
  /\ \A t \in Threads :
       pc[t] \in {"produce_signal", "consume_signal", "release"} => holder = t
  /\ holder # NULL => pc[holder] # "out" /\ ~ M!IsWaiting(holder)

(* Producers wait with producers and consumers with consumers.             *)
WaitersMatch ==
  /\ \A t \in waiting["cv_producer"] : pc[t] = "produce"
  /\ \A t \in waiting["cv_consumer"] : pc[t] = "consume"

(* Nobody is in a call before the buffer is created or after it is gone.   *)
CallsNeedBuffer == created \/ \A t \in Threads : pc[t] = "out"

(* in is where the ring that starts at out ends.                           *)
RingShape == in = (out + count) % Size

(* Who will take a character, or a place, without being told again: those  *)
(* in the call and awake, and whoever is about to be signalled.            *)
Takers ==
  {t \in Threads : /\ pc[t] \in {"consume", "produce_signal"}
                   /\ t \notin waiting["cv_consumer"]}

Fillers ==
  {t \in Threads : /\ pc[t] \in {"produce", "consume_signal"}
                   /\ t \notin waiting["cv_producer"]}

(* While consumers wait, every character in the buffer has a taker; while  *)
(* producers wait, every free place has a filler.  A thread that overtakes *)
(* a woken one takes its character, never the wakeup of a third.           *)
NobodyStranded ==
  /\ waiting["cv_consumer"] # {} => count <= Cardinality(Takers)
  /\ waiting["cv_producer"] # {} => Size - count <= Cardinality(Fillers)

BufferInv ==
  /\ TypeOK /\ LockHeld /\ WaitersMatch /\ CallsNeedBuffer /\ RingShape
  /\ NobodyStranded

(* Producers and consumers do not wait for each other: when some of both   *)
(* wait, a thread in one of the calls is awake.                            *)
NotAllAsleep ==
  waiting["cv_producer"] # {} /\ waiting["cv_consumer"] # {}
    => \E t \in Threads : pc[t] # "out" /\ ~ M!IsWaiting(t)

(* The characters in the ring, oldest first.                               *)
Queue ==
  IF created THEN [i \in 1 .. count |-> buffer[(out + i - 1) % Size]] ELSE <<>>

Op ==
  [t \in Threads |->
    CASE pc[t] = "out" -> "none"
      [] pc[t] \in {"produce", "consume"} -> pc[t]
      [] OTHER -> "done"]

Fifo == INSTANCE BoundedFifo WITH queue <- Queue, op <- Op

(* The ring behaves as the queue that shared_buffer.h describes, each call *)
(* taking effect once.                                                     *)
ImplementsFifo == Fifo!Spec

(* A consumer asleep does not stay so while there are characters: they are *)
(* all taken, or everybody has been woken.  The same for free places.      *)
BufferProgress ==
  /\ (count > 0 /\ waiting["cv_consumer"] # {})
       ~> (count = 0 \/ waiting["cv_consumer"] = {})
  /\ (count < Size /\ waiting["cv_producer"] # {})
       ~> (count = Size \/ waiting["cv_producer"] = {})

============================================================================
