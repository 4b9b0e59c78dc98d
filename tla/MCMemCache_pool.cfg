SPECIFICATION Spec
CONSTANTS
  NULL = NULL
  power_largest = 2
  chunk_number_per_page <- MCPerPage
  page_size = 8
  mem_limit = 18
  pre_alloc = TRUE
  FreeListFirst = 1
  CallocMayFail = TRUE
  ReallocMayFail = FALSE
  MaxPages = 3
INVARIANTS
  EachChunkOnce NoChunkLost ListInsideArray EndPageAgrees
PROPERTIES
  ImplementsPool
