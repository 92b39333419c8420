\* A child that its parent has noted may exit and be freed before fork reads
\* the pid it returns.
SPECIFICATION Spec
CONSTANTS
  p1 = p1
  p2 = p2
  p3 = p3
  p4 = p4
  p5 = p5
  p6 = p6
  Procs = {p1, p2, p3}
  KPROC = KPROC
  NULL = NULL
  DEAD = DEAD
  MAX_PROCS = 4
  MAX_CHILDS = 2
  Codes = {7}
PROPERTY
  ForkReturnsChild
CHECK_DEADLOCK FALSE
