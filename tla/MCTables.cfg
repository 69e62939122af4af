SPECIFICATION MCSpec
CONSTANTS
  Parts = {"mem", "block", "table", "tables", "snappy", "cache", "arena", "levels", "snapshots", "zero"}
  Key = {k1, k2}
  Value = {v1}
  None = None
  Reader = {r1}
  MaxSequence = 4
  MaxBatch = 2
  Thread = {t1, t2}
  kBlockSize = 16
  Align = 4
  Sizes = {1, 3, 4, 5, 14}
  MaxPieces = 5
INVARIANTS
  BatchesAreWhole
  BlockIterStands
  TableIsRight
  SnappyIsRight
  CacheIsRight
  MemoryIsRight
  LevelsAreRight
