\* One process that may also close and replace its standard descriptor, two
\* vnodes and a global table for one File, so that opens fail with ENFILE.
SPECIFICATION Spec
CONSTANTS
  p1 = p1
  p2 = p2
  n1 = n1
  n2 = n2
  f1 = f1
  f2 = f2
  d1 = d1
  d2 = d2
  d3 = d3
  NULL = NULL
  STD = STD
  FREED = FREED
  StdSlots = 1
  MAX_LOCAL_TABLE_SIZE = 3
  Procs = {p1}
  Nodes = {n1, n2}
  Files = {f1, f2}
  Descs = {d1, d2, d3}
  MAX_GLOBAL_TABLE_SIZE = 1
  TargetFds = {0, 1, 2}
  ExecNodes = {n1}
  MaxRef = 4
  MinOpen <- MCMinOpen
INVARIANTS
  NoDanglingDescriptor
  RefsCounted
SYMMETRY Symmetry
