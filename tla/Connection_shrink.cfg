SPECIFICATION Spec
CONSTANTS
  NULL = NULL
  DATA_BUFFER_SIZE = 2
  READ_BUFFER_HIGHWAT = 2
  ReallocMayFail = TRUE
  Managed = FALSE
  DataUnits = 2
  GetUnits = 2
  OutCap = 3
  MaxCmds = 3
  MaxConns = 1
CHECK_DEADLOCK FALSE
INVARIANTS RcurrInsideRbuf
