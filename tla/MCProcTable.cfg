\* 5 slots: 4 creations, so that the 3 addresses are used
\* again, slots are freed and taken again, and both limits are met.  Once
\* GLOBAL_PROC_COUNT has reached its limit the system stops.
SPECIFICATION FairSpec
CONSTANTS
  p1 = p1
  p2 = p2
  p3 = p3
  p4 = p4
  p5 = p5
  p6 = p6
  Procs = {p1, p2, p3}
  KPROC = KPROC
  NULL = NULL
  DEAD = DEAD
  MAX_PROCS = 5
  MAX_CHILDS = 2
  Codes = {7}
CHECK_DEADLOCK FALSE
INVARIANTS
  ProcInv
  ExitsSafely
  WaiterServed
  WaiterNotForgotten
PROPERTIES
  WaiterReturns
