SPECIFICATION FairSpec
CONSTANTS
  NULL = NULL
  DATA_BUFFER_SIZE = 2
  READ_BUFFER_HIGHWAT = 100
  ReallocMayFail = TRUE
  Managed = FALSE
  DataUnits = 2
  GetUnits = 2
  OutCap = 1
  MaxCmds = 1
  MaxConns = 1
CHECK_DEADLOCK FALSE
PROPERTIES BlockedResponseResumes
