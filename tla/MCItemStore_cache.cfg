SPECIFICATION Spec
CONSTANTS
  NULL = NULL
  k1 = k1  k2 = k2  c1 = c1  c2 = c2
  i1 = i1  i2 = i2  i3 = i3  i4 = i4  i5 = i5
  p1 = p1  p2 = p2  q1 = q1  q2 = q2
  PageOf <- MCPageOf
  ItemTimes <- TimeRange
  REALTIME_MAXDELTA = 3
  Started = 4
  RelTimeMod = 16
  Prealloc = {p1}
  Pages = {p1, p2, q1}
  Chunks = {i1, i2, i3, i4}
  Classes = {1, 2}
  PageClass <- TwoClasses
  Lens = {1, 2}
  ClsId <- TwoClsId
  MemLimit = 1
  CallocMayFail = FALSE
  EvictToFree = TRUE
  Tries = 50
  Keys = {k1, k2}
  Conns = {c1, c2}
  ValMod = 2
  Vals = {0, 1}
  DataLen <- UnaryLen
  Deltas = {1}
  RefMod = 16
  SetTimes <- Signs
  DelTimes = {1}
  FlushTimes = {}
  SetBack = FALSE
  MaxTime = 1
  MaxIList = 1
  MaxDel = 1
SYMMETRY Symmetry
VIEW View
INVARIANTS
  TypeOK
  ListsAgree
  StatsAgree
  LruSortedByTime
  ResponseIntact
PROPERTIES
  ImplementsCache
  EvictionSparesReferenced
