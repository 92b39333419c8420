\* Two processors and 4 threads: the menu, the second processor's first thread
\* and two others.  A panic ends a behaviour.
CHECK_DEADLOCK FALSE
SPECIFICATION Spec
CONSTANTS
  menu = menu
  h1 = h1
  t1 = t1
  t2 = t2
  NULL = NULL
  NumCpus = 2
  Threads = {menu, h1, t1, t2}
  Menu = menu
  FirstThread <- MCFirstThread
INVARIANTS
  SchedInv
  IdleIsTold
  VictimsAreThere
PROPERTIES
  MenuWaitsForAll
