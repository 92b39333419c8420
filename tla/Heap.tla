-------------------------------- MODULE Heap -------------------------------
(***************************************************************************)
(* What kmalloc and kfree promise (kern/include/lib.h): a block of memory  *)
(* that nobody else has, until it is given back.  A block is the set of    *)
(* its addresses.                                                          *)
(***************************************************************************)

VARIABLE owned         (* the blocks that clients have                     *)

Init == owned = {}

(* Any block that is clear of those that clients have.                     *)
kmalloc ==
  \E b \in owned' \ owned :
    /\ owned' = owned \cup {b}
    /\ \A o \in owned : o \cap b = {}

kfree == \E b \in owned : owned' = owned \ {b}

Next == kmalloc \/ kfree

Spec == Init /\ [][Next]_owned

============================================================================
