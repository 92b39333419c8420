\* 3 threads and 2 cvs: two threads can sleep on a cv, or one on each, while the
\* third has the lock.  All threads may end up waiting on a cv nobody will signal,
\* so a deadlock is no error.
SPECIFICATION FairSpec
CONSTANTS
  t1 = t1
  t2 = t2
  t3 = t3
  c1 = c1
  c2 = c2
  NULL = NULL
  Threads = {t1, t2, t3}
  CVs = {c1, c2}
CHECK_DEADLOCK FALSE
INVARIANTS
  SynchInv
PROPERTIES
  ImplementsMonitor
  NoMissedSignal
  LockProgress
  SpinlocksReleased
