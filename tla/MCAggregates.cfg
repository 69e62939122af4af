SPECIFICATION Spec
CONSTANTS
  Address = {a1, a2}
  Coinbase = Coinbase
  MaxChain = 2
  MaxPuts = 2
  Reward = 2
  OutcntDefault = 0
  Vectors <- MCVectors
  Transactions <- MCTransactions
INVARIANT AggregatesFresh
SYMMETRY Symmetric
