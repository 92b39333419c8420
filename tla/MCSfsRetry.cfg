\* The disk of MCSfs.cfg, and one call whose writes the device may refuse.
SPECIFICATION Spec
CONSTANTS
  NULL = NULL
  Threads = {t1}
  Names = {a, b}
  NBlocks = 7
  SFS_NDIRECT = 1
  SFS_DBPERIDB = 1
  MaxBlocks = 1
  Values = {1}
  MaxErrors = 1
  WriteErrors = TRUE
CHECK_DEADLOCK FALSE
PROPERTIES
  ImplementsFlatFs
