\* Five pages of twelve bytes, block sizes 4 and 6, two root pages of two
\* pagerefs each: a request of each size and one larger than a page.
\* Deadlock is not an error: dumbvm takes no page back, so memory runs out.
SPECIFICATION Spec
CONSTANTS
  t1 = t1
  t2 = t2
  t3 = t3
  Threads = {t1, t2}
  NumPages = 5
  PAGE_SIZE = 12
  sizes <- MCsizes
  NumRoots = 2
  PerPage = 2
  Requests = {4, 5, 13}
SYMMETRY Symmetry
CHECK_DEADLOCK FALSE
INVARIANTS
  KMallocInv
  NoPlaceLost
PROPERTIES
  ImplementsHeap
