------------------------------- MODULE Wchan -------------------------------
(***************************************************************************)
(* Wait channels of kern/thread/thread.c: the list wc_threads of a         *)
(* channel, first to be woken first.  Every call is made with the spinlock *)
(* that protects the channel held, so each is one step of its caller.      *)
(***************************************************************************)
EXTENDS Naturals, Sequences

CONSTANTS
  Threads,      (* the threads that may sleep                              *)
  NULL          (* the null pointer: nobody has the lock                   *)

Sleepers(wchan) == {wchan[i] : i \in DOMAIN wchan}

(* wchan_sleep up to thread_switch: threadlist_addtail on wc_threads.      *)
wchan_sleep(wchan, t) == Append(wchan, t)

(* wchan_wakeone: the thread it makes runnable, and what is left.          *)
FirstSleeper(wchan) == IF wchan = <<>> THEN {} ELSE {Head(wchan)}
wchan_wakeone(wchan) == IF wchan = <<>> THEN <<>> ELSE Tail(wchan)

(* No thread is on the channel twice.                                      *)
Distinct(wchan) == \A i, j \in DOMAIN wchan : wchan[i] = wchan[j] => i = j

============================================================================
