\* Both races may happen; the kernel may panic, or stop at the process limit.
SPECIFICATION Spec
CONSTANTS
  p1 = p1
  p2 = p2
  p3 = p3
  p4 = p4
  p5 = p5
  p6 = p6
  Procs = {p1, p2, p3}
  KPROC = KPROC
  NULL = NULL
  DEAD = DEAD
  MAX_PROCS = 6
  MAX_CHILDS = 2
  Codes = {7}
INVARIANTS
  WaiterNotForgotten
  EntryInOneSlot
SYMMETRY Symmetry
CHECK_DEADLOCK FALSE
