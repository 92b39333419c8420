------------------------------ MODULE Monitor ------------------------------
(***************************************************************************)
(* What kern/include/synch.h promises of one sleep lock and the condition  *)
(* variables used with it: a monitor with Mesa semantics.  "These          *)
(* operations must be atomic" (synch.h) is taken literally: entering,      *)
(* leaving, waiting, signalling and broadcasting are one step each, and    *)
(* nothing is said about which thread gets the lock next.                  *)
(***************************************************************************)

CONSTANTS
  Threads,   (* the threads that use the monitor                           *)
  CVs,       (* the condition variables used with the lock                 *)
  NULL       (* the null pointer: nobody holds the lock                    *)

VARIABLES
  holder,    (* the thread in the monitor, or NULL                         *)
  waiting    (* for each condition variable, the threads waiting on it     *)

vars == <<holder, waiting>>

IsWaiting(t) == \E c \in CVs : t \in waiting[c]

Init ==
  /\ holder = NULL
  /\ waiting = [c \in CVs |-> {}]

Enter(t) ==
  /\ holder = NULL
  /\ ~ IsWaiting(t)
  /\ holder' = t
  /\ UNCHANGED waiting

Exit(t) ==
  /\ holder = t
  /\ holder' = NULL
  /\ UNCHANGED waiting

(* Release the lock and start waiting, as one step: no signal can fall in  *)
(* between.                                                                *)
Wait(t, c) ==
  /\ holder = t
  /\ holder' = NULL
  /\ waiting' = [waiting EXCEPT ![c] = @ \cup {t}]

(* Wake one waiter, if there is one; it still has to Enter again.          *)
Signal(t, c) ==
  /\ holder = t
  /\ \E u \in waiting[c] : waiting' = [waiting EXCEPT ![c] = @ \ {u}]
  /\ UNCHANGED holder

Broadcast(t, c) ==
  /\ holder = t
  /\ waiting' = [waiting EXCEPT ![c] = {}]
  /\ UNCHANGED holder

Next ==
  \E t \in Threads :
    \/ Enter(t)
    \/ Exit(t)
    \/ \E c \in CVs : Wait(t, c) \/ Signal(t, c) \/ Broadcast(t, c)

Spec == Init /\ [][Next]_vars

============================================================================
