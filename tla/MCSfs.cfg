\* Seven blocks, four of them free at first: the directory's block, a file's
\* inode, its indirect block and one data block fill the disk, or two files
\* with a data block.  One direct block and two entries in the indirect one.
\* Deadlock is not an error: the kernel panics when rename cannot recover.
SPECIFICATION Spec
CONSTANTS
  NULL = NULL
  Threads = {t1, t2}
  Names = {a, b}
  NBlocks = 7
  SFS_NDIRECT = 1
  SFS_DBPERIDB = 2
  MaxBlocks = 2
  Values = {1}
  MaxErrors = 1
  WriteErrors = FALSE
SYMMETRY Symmetry
VIEW View
CHECK_DEADLOCK FALSE
INVARIANTS
  SfsInv
  BlocksUsedOnce
  LinksCounted
PROPERTIES
  ImplementsFlatFs
