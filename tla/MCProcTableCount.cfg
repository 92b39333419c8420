\* Creations overlap between the test of the count and its increment, near
\* the limit.  No program exits here (no exit codes): the shortest way to it.
\* No deadlock check: once the limit is reached only refused calls are left.
SPECIFICATION Spec
CONSTANTS
  p1 = p1
  p2 = p2
  p3 = p3
  p4 = p4
  p5 = p5
  p6 = p6
  Procs = {p1, p2, p3, p4, p5, p6}
  KPROC = KPROC
  NULL = NULL
  DEAD = DEAD
  MAX_PROCS = 5
  MAX_CHILDS = 3
  Codes = {}
INVARIANT
  TableNamesProcess
SYMMETRY Symmetry
CHECK_DEADLOCK FALSE
