------------------------ MODULE MCTransactionProcess ------------------------
(* Instances of TransactionProcess for TLC.                                *)
EXTENDS TransactionProcess, TLC

CONSTANTS
    MaxPuts,     \* the most inputs, and the most outputs, of a transaction
    Reward       \* the value of a block reward

SeqsUpTo(S, n) == UNION {[1..m -> S] : m \in 1..n}

MCVectors == SeqsUpTo(Address, MaxPuts)
MCOuts == SeqsUpTo([addr : Address, val : 1..Reward], MaxPuts)
MCOutpoints == [hash : 1..MaxChain, index : 0..(MaxPuts - 1)]
MCRewards == {[ins |-> <<NullOutpoint>>, outs |-> o] :
                 o \in {p \in MCOuts : SumSeq(p) = Reward}}
(* The inputs of a transaction in one order only: the code adds them up    *)
(* and sorts their entities.                                               *)
InOrder(ins) == \A i, j \in DOMAIN ins :
    i < j => ins[i].hash * MaxPuts + ins[i].index < ins[j].hash * MaxPuts + ins[j].index
MCTransactions == MCRewards \cup [ins : {s \in SeqsUpTo(MCOutpoints, MaxPuts) : InOrder(s)},
                                  outs : MCOuts]

Symmetric == Permutations(Address)
=============================================================================
