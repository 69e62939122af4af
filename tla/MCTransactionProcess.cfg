SPECIFICATION Spec
CONSTANTS
  Address = {a1, a2, a3}
  Coinbase = Coinbase
  MaxChain = 3
  MaxPuts = 2
  Reward = 2
  OutcntDefault = 0
  Vectors <- MCVectors
  Transactions <- MCTransactions
INVARIANTS
  LedgerIsRight
PROPERTIES
  KeepsEntityContract
SYMMETRY Symmetric
