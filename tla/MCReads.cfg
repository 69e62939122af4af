SPECIFICATION MCFairSpec
CONSTANTS
  Parts = {"list", "cursor", "turns"}
  Key = {1, 2, 3, 4}
  Nil = 5
  kMaxHeight = 2
  Garbage = {1}
  Reader = {r1}
INVARIANTS
  IInv
PROPERTIES
  IsOrderedSet
  SearchEnds
  CursorIsRight
