\* Two writers, one reader and one polled printer; four characters typed, the
\* second and the fourth a newline; a ring buffer that holds two.
\* Deadlock is not an error: everything is printed and nobody types any more.
SPECIFICATION Spec
CONSTANTS
  w1 = w1
  w2 = w2
  r1 = r1
  p1 = p1
  con = con
  stdin = stdin
  NULL = NULL
  Writers = {w1, w2}
  Readers = {r1}
  Polled = {p1}
  Route <- MCRoute
  Standard = {stdin}
  LineLen = 2
  MaxInput = 4
  NewLines = {2, 4}
  CONSOLE_INPUT_BUFFER_SIZE = 3
CHECK_DEADLOCK FALSE
INVARIANTS
  ConsoleInv
  InputInOrder
  LinesWhole
PROPERTIES
  NothingOverwritten
  PrintingEnds
