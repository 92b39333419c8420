\* 4 threads: two sleepers and two callers of V; a count that wraps at 4.
\* Everybody may end up asleep, or the kernel stopped: no deadlock check.
SPECIFICATION SemFairSpec
CONSTANTS
  t1 = t1
  t2 = t2
  t3 = t3
  t4 = t4
  NULL = NULL
  Threads = {t1, t2, t3, t4}
  InitialCount = 0
  MaxCount = 3
CHECK_DEADLOCK FALSE
INVARIANTS
  SemInv
PROPERTIES
  CountMovesByOne
  SemaphoreProgress
