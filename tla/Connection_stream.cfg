SPECIFICATION FairSpec
CONSTANTS
  NULL = NULL
  DATA_BUFFER_SIZE = 2
  READ_BUFFER_HIGHWAT = 100
  ReallocMayFail = TRUE
  Managed = FALSE
  DataUnits = 2
  GetUnits = 2
  OutCap = 2
  MaxCmds = 2
  MaxConns = 2
CHECK_DEADLOCK FALSE
INVARIANTS TypeOK InStep RepliesInOrder RcurrInsideRbuf
PROPERTIES CommandsAnswered
