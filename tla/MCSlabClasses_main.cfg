SPECIFICATION Spec
CONSTANTS
  base_chunk_size = 48
  FactorNum = 5
  FactorDen = 4
  power_largest = 40
  power_block = 1048576
  CHUNK_ALIGN_BYTES = 8
  Sizes <- MCSizes
INVARIANTS
  SmallestFit ClassesGrow
