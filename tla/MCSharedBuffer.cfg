\* 4 threads and 2 places: two waiters of a kind, one that fills or empties
\* the buffer and one that overtakes.  Everybody may end up waiting for a
\* character nobody produces: no deadlock check.
SPECIFICATION FairSpec
CONSTANTS
  t1 = t1
  t2 = t2
  t3 = t3
  t4 = t4
  a = a
  b = b
  NULL = NULL
  Threads = {t1, t2, t3, t4}
  Values = {a, b}
  Size = 2
INVARIANTS
  BufferInv
  NotAllAsleep
PROPERTIES
  ImplementsFifo
  BufferProgress
CHECK_DEADLOCK FALSE
