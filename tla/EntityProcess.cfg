SPECIFICATION Spec
CONSTANTS
  Address = {a1, a2, a3}
  Coinbase = Coinbase
  Vectors <- ShortVectors
INVARIANTS
  TablesConsistent
  EntitiesAreComponents
PROPERTIES
  MergesAreFinal
  ImplementsPartition
CHECK_DEADLOCK TRUE
