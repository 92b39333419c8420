----------------------------- MODULE MCConsole -----------------------------
(* The console on a small instance. *)
EXTENDS Console, TLC

CONSTANTS w1, w2, r1, p1, con, stdin

\* Two writers share the device con:; a reader is on standard input.
MCRoute == w1 :> con @@ w2 :> con @@ r1 :> stdin

============================================================================
