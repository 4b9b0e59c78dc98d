SPECIFICATION Spec
CONSTANTS
  NULL = NULL
  k1 = k1  k2 = k2  s1 = s1  s2 = s2
  Clients = {k1, k2}
  Structs = {s1, s2}
  MAX_BUCKETS = 2
  Numbers <- Around
  Generations <- Signed
SYMMETRY Symmetry
INVARIANTS
  TypeOK
  BucketAsHeard
  OnlyOwnersServed
