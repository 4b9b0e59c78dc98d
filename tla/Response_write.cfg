SPECIFICATION Spec
CONSTANTS
  IOV_MAX = 3
  UDP_MAX_PAYLOAD_SIZE = 4
  IOV_LIST_INITIAL = 2
  MSG_LIST_INITIAL = 1
  IOV_LIST_HIGHWAT = 4
  MSG_LIST_HIGHWAT = 2
  ReallocMayFail = TRUE
  DataLens = {1, 3, 6}
  MaxHits = 3
  MaxIov = 16
INVARIANTS ResponseExact MessagesSendable ListsInsideArrays
