---------------------------- MODULE BoundedFifo ----------------------------
(***************************************************************************)
(* What kern/include/shared_buffer.h promises: a queue of at most Size     *)
(* characters.  A call takes effect once, at one moment between its        *)
(* beginning and its return; characters come out in the order they went    *)
(* in.                                                                     *)
(***************************************************************************)
EXTENDS Naturals, Sequences

CONSTANTS
  Threads,   (* the callers                                                *)
  Values,    (* the characters                                             *)
  Size       (* size of shared_buffer_create                               *)

VARIABLES
  queue,     (* what the buffer holds, oldest first                        *)
  op,        (* the call each thread is in, "done" once it took effect     *)
  char       (* its input before a produce, its result after a consume     *)

vars == <<queue, op, char>>

Init ==
  /\ queue = <<>>
  /\ op = [t \in Threads |-> "none"]
  /\ char \in [Threads -> Values]

Call(t) ==
  /\ op[t] = "none"
  /\ \/ /\ op' = [op EXCEPT ![t] = "produce"]
        /\ \E v \in Values : char' = [char EXCEPT ![t] = v]
     \/ /\ op' = [op EXCEPT ![t] = "consume"]
        /\ UNCHANGED char
  /\ UNCHANGED queue

Put(t) ==
  /\ op[t] = "produce"
  /\ Len(queue) < Size
  /\ queue' = Append(queue, char[t])
  /\ op' = [op EXCEPT ![t] = "done"]
  /\ UNCHANGED char

Get(t) ==
  /\ op[t] = "consume"
  /\ queue # <<>>
  /\ char' = [char EXCEPT ![t] = Head(queue)]
  /\ queue' = Tail(queue)
  /\ op' = [op EXCEPT ![t] = "done"]

Return(t) ==
  /\ op[t] = "done"
  /\ op' = [op EXCEPT ![t] = "none"]
  /\ UNCHANGED <<queue, char>>

(* The buffer is destroyed while nobody uses it.                           *)
Destroy ==
  /\ \A t \in Threads : op[t] = "none"
  /\ queue' = <<>>
  /\ UNCHANGED <<op, char>>

Next ==
  \/ \E t \in Threads : Call(t) \/ Put(t) \/ Get(t) \/ Return(t)
  \/ Destroy

Spec == Init /\ [][Next]_vars

============================================================================
