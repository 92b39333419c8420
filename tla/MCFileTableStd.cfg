\* Programs may also close their standard descriptor, so that open puts an ordinary
\* file in its slot; fork does not count that one.
SPECIFICATION Spec
CONSTANTS
  p1 = p1
  p2 = p2
  n1 = n1
  n2 = n2
  f1 = f1
  f2 = f2
  d1 = d1
  d2 = d2
  d3 = d3
  NULL = NULL
  STD = STD
  FREED = FREED
  StdSlots = 1
  MAX_LOCAL_TABLE_SIZE = 3
  Procs = {p1, p2}
  Nodes = {n1}
  Files = {f1, f2}
  Descs = {d1, d2, d3}
  MAX_GLOBAL_TABLE_SIZE = 2
  TargetFds = {0, 1, 2}
  ExecNodes = {}
  MaxRef = 3
  MinOpen <- MCMinOpen
INVARIANT RefsCounted
