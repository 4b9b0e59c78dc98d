SPECIFICATION Spec
CONSTANTS
  NULL = NULL
  k1 = k1  k2 = k2  c1 = c1  c2 = c2
  i1 = i1  i2 = i2  i3 = i3  i4 = i4  i5 = i5
  p1 = p1  p2 = p2  q1 = q1  q2 = q2
  PageOf <- MCPageOf
  ItemTimes <- TimeRange
  REALTIME_MAXDELTA = 3
  Started = 4
  RelTimeMod = 16
  Prealloc = {p1}
  Pages = {p1, p2}
  Chunks = {i1, i2, i3}
  Classes = {1}
  PageClass <- OneClass
  Lens = {1, 2}
  ClsId <- OneClsId
  MemLimit = 1
  CallocMayFail = TRUE
  EvictToFree = TRUE
  Tries = 50
  Keys = {k1, k2}
  Conns = {c1}
  ValMod = 2
  Vals = {0, 1}
  DataLen <- UnaryLen
  Deltas = {1}
  RefMod = 16
  SetTimes = {0}
  DelTimes = {0, 1}
  FlushTimes = {}
  SetBack = FALSE
  MaxTime = 0
  MaxIList = 0
  MaxDel = 0
SYMMETRY Symmetry
VIEW View
INVARIANTS
  LinkedIsNotSlabbed
