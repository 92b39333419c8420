\* Two processes and two vnodes, one of which is also loaded as a program;
\* tables of 3 descriptors (one standard) and 2 Files, so that opens fail with
\* ENFILE.  Programs close or replace their standard descriptor and one of the
\* others, so that a fork may leave a file uncounted.  Behaviours
\* end where freed memory is used.
SPECIFICATION Spec
CONSTANTS
  p1 = p1
  p2 = p2
  n1 = n1
  n2 = n2
  f1 = f1
  f2 = f2
  d1 = d1
  d2 = d2
  d3 = d3
  Procs = {p1, p2}
  Nodes = {n1, n2}
  Files = {f1, f2}
  Descs = {d1, d2}
  StdSlots = 1
  MAX_LOCAL_TABLE_SIZE = 3
  MAX_GLOBAL_TABLE_SIZE = 2
  TargetFds = {0, 1}
  ExecNodes = {n1}
  MaxRef = 2
  MinOpen = 0
  NULL = NULL
  STD = STD
  FREED = FREED
SYMMETRY Symmetry
VIEW View
INVARIANTS
  FileInv
  NoneDangles
  UsesCounted
CHECK_DEADLOCK FALSE
