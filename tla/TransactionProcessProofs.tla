---------------------- MODULE TransactionProcessProofs ----------------------
(***************************************************************************)
(* The ledger keeps the contract of EntityProcess, for every set of        *)
(* addresses and every chain: what a transaction spends is found in        *)
(* LevelDB as it was written, so its input addresses have rows, and the    *)
(* rows of all outputs exist before the clustering reads them.  What is    *)
(* proved of EntityProcess alone then holds of the whole program. At the   *)
(* end, that its ids come out of the database as they went in.             *)
(***************************************************************************)
EXTENDS TransactionProcess, EntityCodec, SequenceTheorems, TLAPS

Cell == [addr : Address \cup {Coinbase}, val : Nat]

(* The chain is at most one transaction ahead, and that one spends what    *)
(* the processed ones created.                                             *)
ChainInv == /\ chain \in Seq(Transactions)
            /\ pos \in Nat
            /\ pos = Len(chain) \/ pos + 1 = Len(chain)
            /\ step # "next" => pos # Len(chain)
            /\ pos # Len(chain) => IsReward(tx) \/ Range(tx.ins) \subseteq Created(pos)

(* The record of a processed transaction gives its outputs back, and the   *)
(* addresses of its outputs have rows.                                     *)
Stored(h) == /\ h \in DOMAIN tx_db
             /\ \A j \in DOMAIN chain[h].outs : OutputCell(tx_db[h], j - 1) = chain[h].outs[j]
Paid(h) == \A j \in DOMAIN chain[h].outs : chain[h].outs[j].addr \in DOMAIN entity
TablesInv == /\ DOMAIN addressinfo = DOMAIN entity
             /\ \A h \in 1..pos : Stored(h) /\ Paid(h)

(* What the steps of the current transaction have reached.                 *)
InputsInv == /\ step # "next" => preouts \in Seq(Cell)
             /\ step = "inputs" =>
                   /\ k = Len(preouts) + 1
                   /\ Len(preouts) <= Len(tx.ins)
                   /\ \A i \in DOMAIN preouts : preouts[i] = ReadOutput(tx.ins[i])
OutputsInv == /\ k \in Nat \ {0}
              /\ step \in {"input_entity", "outputs"} => output_bv = Addresses(tx.outs)
              /\ step = "outputs" =>
                    /\ stage = "output_rows"
                    /\ \A j \in DOMAIN tx.outs : j < k => tx.outs[j].addr \in DOMAIN entity
              /\ step \in {"output_entity", "put", "txinfo"} => Paid(pos + 1)
              /\ step = "txinfo" => Stored(pos + 1)

LedgerInv == ChainInv /\ TablesInv /\ InputsInv /\ OutputsInv
-----------------------------------------------------------------------------
(* The elements of a concatenation.                                        *)
LEMMA ConcatAt ==
  ASSUME NEW S, NEW p \in Seq(S), NEW q \in Seq(S)
  PROVE  /\ p \o q \in Seq(S)
         /\ Len(p \o q) = Len(p) + Len(q)
         /\ \A i \in 1..Len(p) : (p \o q)[i] = p[i]
         /\ \A i \in 1..Len(q) : (p \o q)[Len(p) + i] = q[i]
<1>1. Len(p) \in Nat /\ Len(q) \in Nat
  OBVIOUS
<1>2. \A i \in 1..Len(p) + Len(q) : (p \o q)[i] = IF i <= Len(p) THEN p[i] ELSE q[i - Len(p)]
  BY ConcatProperties, Zenon
<1>3. p \o q \in Seq(S) /\ Len(p \o q) = Len(p) + Len(q)
  BY ConcatProperties, Zenon
<1>4. \A i \in 1..Len(p) : (p \o q)[i] = p[i]
  BY <1>1, <1>2
<1>5. ASSUME NEW i \in 1..Len(q)
      PROVE  (p \o q)[Len(p) + i] = q[i]
  <2>1. /\ Len(p) + i \in 1..Len(p) + Len(q)
        /\ ~(Len(p) + i <= Len(p))
        /\ (Len(p) + i) - Len(p) = i
    BY <1>1
  <2> QED  BY <1>2, <2>1
<1> QED  BY <1>3, <1>4, <1>5

(* OutputCell skips the header and the inputs of a record, however many    *)
(* there are, and finds the j-th output.                                   *)
LEMMA RecordCell ==
  ASSUME NEW ins \in Seq(Cell), NEW outs \in Seq(Cell), NEW j \in DOMAIN outs
  PROVE  OutputCell(Record(ins, outs), j - 1) = outs[j]
<1> DEFINE S == {"header"} \cup Nat \cup Cell
           A == <<"header", Len(ins)>>
           B == <<Len(outs)>>
<1>1. /\ A \in Seq(S) /\ Len(A) = 2 /\ A[2] = Len(ins)
      /\ B \in Seq(S) /\ Len(B) = 1
      /\ ins \in Seq(S) /\ outs \in Seq(S)
      /\ Len(ins) \in Nat /\ Len(outs) \in Nat /\ j \in 1..Len(outs)
  OBVIOUS
<1> HIDE DEF S, A, B
<1> DEFINE C == A \o ins
           D == C \o B
<1>2. C \in Seq(S) /\ Len(C) = Len(A) + Len(ins) /\ (\A i \in 1..Len(A) : C[i] = A[i])
  <2>1. A \in Seq(S) /\ ins \in Seq(S)
    BY <1>1
  <2> QED  BY <2>1, ConcatAt
<1>3. D \in Seq(S) /\ Len(D) = Len(C) + Len(B) /\ (\A i \in 1..Len(C) : D[i] = C[i])
  <2> HIDE DEF C
  <2>1. B \in Seq(S) /\ C \in Seq(S)
    BY <1>1, <1>2
  <2> QED  BY <2>1, ConcatAt
<1>4. /\ \A i \in 1..Len(D) : (D \o outs)[i] = D[i]
      /\ \A i \in 1..Len(outs) : (D \o outs)[Len(D) + i] = outs[i]
  <2> HIDE DEF D
  <2>1. D \in Seq(S) /\ outs \in Seq(S)
    BY <1>1, <1>3
  <2> QED  BY <2>1, ConcatAt
<1>5. Record(ins, outs) = D \o outs
  BY DEF Record, A, B
<1> HIDE DEF C, D
<1>6. /\ Len(D) = 2 + Len(ins) + 1
      /\ 2 \in 1..Len(A) /\ 2 \in 1..Len(C) /\ 2 \in 1..Len(D)
      /\ 2 + Len(ins) + 1 + (j - 1) + 1 = 2 + Len(ins) + 1 + j
  BY <1>1, <1>2, <1>3, SMTT(30)
<1>7. Record(ins, outs)[2] = Len(ins)
  BY <1>1, <1>2, <1>3, <1>4, <1>5, <1>6
<1>8. Record(ins, outs)[2 + Len(ins) + 1 + j] = outs[j]
  BY <1>1, <1>4, <1>5, <1>6, Zenon
<1> QED  BY <1>6, <1>7, <1>8 DEF OutputCell

(* The transaction in hand is one of the chain.                            *)
LEMMA TxFacts ==
  ASSUME ChainInv, pos # Len(chain)
  PROVE  /\ tx \in Transactions
         /\ tx.ins \in Seq([hash : Nat, index : Nat]) /\ tx.ins # <<>>
         /\ tx.outs \in Seq([addr : Address, val : Nat]) /\ tx.outs \in Seq(Cell)
<1>1. tx \in Transactions
  BY DEF ChainInv, tx
<1>2. /\ tx.ins \in Seq([hash : Nat, index : Nat]) /\ tx.ins # <<>>
      /\ tx.outs \in Seq([addr : Address, val : Nat])
  BY <1>1, TransactionsAssumption, Zenon
<1>3. tx.outs \in Seq(Cell)
  <2>1. [addr : Address, val : Nat] \subseteq Cell
    BY DEF Cell
  <2>2. \A S, T : S \subseteq T => Seq(S) \subseteq Seq(T)
    OBVIOUS
  <2> QED  BY <1>2, <2>1, <2>2, Zenon
<1> QED  BY <1>1, <1>2, <1>3

(* So is every processed one.                                              *)
LEMMA ChainFacts ==
  ASSUME ChainInv, NEW h \in 1..pos
  PROVE  /\ h \in 1..Len(chain)
         /\ chain[h].outs \in Seq([addr : Address, val : Nat])
<1>1. h \in 1..Len(chain)
  BY DEF ChainInv
<1>2. chain[h] \in Transactions
  BY <1>1 DEF ChainInv
<1> QED  BY <1>1, <1>2, TransactionsAssumption, Zenon

(* An input of the transaction in hand is the null input of a reward, or   *)
(* an output of a processed transaction that is read back as it was.       *)
LEMMA InputFacts ==
  ASSUME ChainInv, TablesInv, pos # Len(chain), NEW i \in DOMAIN tx.ins
  PROVE  \/ /\ IsReward(tx) /\ tx.ins[i].hash = 0
            /\ ReadOutput(tx.ins[i]) = [addr |-> Coinbase, val |-> 0]
         \/ /\ ~IsReward(tx) /\ tx.ins[i].hash # 0
            /\ Found(tx.ins[i])
            /\ ReadOutput(tx.ins[i]) = OutputAt(tx.ins[i])
            /\ OutputAt(tx.ins[i]) \in [addr : Address, val : Nat]
            /\ OutputAt(tx.ins[i]).addr \in DOMAIN entity
<1>1. CASE IsReward(tx)
  <2>1. tx.ins[i] = NullOutpoint
    BY <1>1 DEF IsReward
  <2> QED  BY <1>1, <2>1 DEF NullOutpoint, ReadOutput
<1>2. CASE ~IsReward(tx)
  <2>1. tx.ins[i] \in Created(pos)
    BY <1>2 DEF ChainInv, Range
  <2>. PICK h \in 1..pos : \E j \in DOMAIN chain[h].outs :
                              tx.ins[i] = [hash |-> h, index |-> j - 1]
    BY <2>1 DEF Created
  <2>2. PICK j \in DOMAIN chain[h].outs : tx.ins[i] = [hash |-> h, index |-> j - 1]
    OBVIOUS
  <2>3. chain[h].outs \in Seq([addr : Address, val : Nat])
    BY ChainFacts, Zenon
  <2>4. j \in Nat /\ (j - 1) + 1 = j /\ h # 0
    BY <2>3, SMTT(30)
  <2>5. chain[h].outs[j] \in [addr : Address, val : Nat]
    <3>1. \A S, q : q \in Seq(S) => \A m \in DOMAIN q : q[m] \in S
      OBVIOUS
    <3> QED  BY <2>3, <3>1, Zenon
  <2>6. OutputAt(tx.ins[i]) = chain[h].outs[j]
    BY <2>2, <2>4 DEF OutputAt
  <2>7. Stored(h) /\ Paid(h)
    BY DEF TablesInv
  <2>8. ReadOutput(tx.ins[i]) = chain[h].outs[j] /\ Found(tx.ins[i])
    BY <2>2, <2>4, <2>7 DEF Stored, ReadOutput, Found
  <2> QED  BY <1>2, <2>2, <2>4, <2>5, <2>6, <2>7, <2>8 DEF Paid
<1> QED  BY <1>1, <1>2

(* So the cell that is read for it is typed.                               *)
LEMMA ReadFacts ==
  ASSUME ChainInv, TablesInv, pos # Len(chain), NEW i \in DOMAIN tx.ins
  PROVE  ReadOutput(tx.ins[i]) \in Cell
<1>1. [addr |-> Coinbase, val |-> 0] \in Cell /\ [addr : Address, val : Nat] \subseteq Cell
  BY DEF Cell
<1> QED  BY <1>1, InputFacts
-----------------------------------------------------------------------------
(* Rows are never deleted: what was written stays paid and stored.         *)
LEMMA SameTables ==
  ASSUME ChainInv, TablesInv, UNCHANGED <<chain, pos, tx_db>>,
         DOMAIN entity \subseteq DOMAIN entity', DOMAIN addressinfo' = DOMAIN entity',
         step' # "next" => pos # Len(chain)
  PROVE  /\ ChainInv' /\ TablesInv'
         /\ tx' = tx
         /\ Paid(pos + 1) => Paid(pos + 1)'
         /\ Stored(pos + 1) => Stored(pos + 1)'
<1>1. tx' = tx
  BY DEF tx
<1>2. ChainInv'
  BY <1>1 DEF ChainInv, Created, IsReward
<1>3. \A h : Paid(h) => Paid(h)'
  BY DEF Paid
<1>4. \A h : Stored(h) => Stored(h)'
  BY DEF Stored
<1>5. TablesInv'
  BY <1>3, <1>4 DEF TablesInv
<1>6. pos' + 1 = pos + 1
  OBVIOUS
<1> QED  BY <1>1, <1>2, <1>3, <1>4, <1>5, <1>6

(* A new transaction of the chain spends what the others created.          *)
LEMMA ExtendStep ==
  ASSUME LedgerInv, NEW t \in Transactions, Extend(t)
  PROVE  LedgerInv'
<1>1. /\ chain' = Append(chain, t) /\ pos = Len(chain) /\ step = "next"
      /\ UNCHANGED <<pos, step, k, preouts, tx_db, addressinfo, output_bv, stage, entity>>
  BY DEF Extend, evars
<1>2. /\ chain \in Seq(Transactions) /\ pos \in Nat
      /\ chain' \in Seq(Transactions) /\ Len(chain') = pos + 1
      /\ chain'[pos + 1] = t
      /\ \A h \in 1..pos : chain'[h] = chain[h]
  BY <1>1 DEF LedgerInv, ChainInv
<1>3. tx' = t
  BY <1>1, <1>2 DEF tx
<1>4. Created(pos)' = Created(pos)
  BY <1>1, <1>2 DEF Created
<1>5. IsReward(t) \/ Range(t.ins) \subseteq Created(pos)
  BY <1>1 DEF Extend, Valid, Unspent
<1>6. ChainInv'
  BY <1>1, <1>2, <1>3, <1>4, <1>5 DEF ChainInv, IsReward
<1>7. TablesInv'
  <2>1. \A h \in 1..pos : Stored(h) /\ Paid(h) => Stored(h)' /\ Paid(h)'
    BY <1>1, <1>2 DEF Stored, Paid
  <2> QED  BY <1>1, <2>1 DEF LedgerInv, TablesInv
<1>8. InputsInv' /\ OutputsInv'
  BY <1>1 DEF LedgerInv, InputsInv, OutputsInv
<1> QED  BY <1>6, <1>7, <1>8 DEF LedgerInv

LEMMA StartStep ==
  ASSUME LedgerInv, StartTransaction
  PROVE  LedgerInv'
<1>1. /\ UNCHANGED <<chain, pos, tx_db, addressinfo, entity, stage>> /\ pos < Len(chain)
      /\ k' = 1 /\ preouts' = <<>> /\ step' = "inputs"
  BY DEF StartTransaction, evars
<1>2. ChainInv' /\ TablesInv' /\ tx' = tx
  BY <1>1, SameTables DEF LedgerInv, ChainInv, TablesInv
<1>3. Len(tx.ins) \in Nat
  BY <1>1, TxFacts DEF LedgerInv, ChainInv
<1>4. InputsInv' /\ OutputsInv'
  BY <1>1, <1>2, <1>3 DEF InputsInv, OutputsInv
<1> QED  BY <1>2, <1>4 DEF LedgerInv

(* One more input is read, as it was written.                              *)
LEMMA InputStep ==
  ASSUME LedgerInv, Input
  PROVE  LedgerInv'
<1> DEFINE cell == ReadOutput(tx.ins[k])
<1>1. /\ UNCHANGED <<chain, pos, step, tx_db, entity, stage>>
      /\ step = "inputs" /\ k <= Len(tx.ins) /\ k' = k + 1 /\ preouts' = Append(preouts, cell)
  BY SMTT(30) DEF Input, evars
<1>2. DOMAIN addressinfo' = DOMAIN addressinfo
  BY Zenon DEF Input, input_transaction_mysql
<1>3. pos # Len(chain) /\ ChainInv /\ TablesInv /\ InputsInv /\ OutputsInv
  BY <1>1 DEF LedgerInv, ChainInv
<1>4. ChainInv' /\ TablesInv' /\ tx' = tx
  BY <1>1, <1>2, <1>3, SameTables DEF TablesInv
<1>5. k \in DOMAIN tx.ins /\ Len(tx.ins) \in Nat /\ k \in Nat
  BY <1>1, <1>3, TxFacts, SMTT(30) DEF OutputsInv
<1>6. cell \in Cell
  BY <1>3, <1>5, ReadFacts
<1>7. preouts \in Seq(Cell) /\ k = Len(preouts) + 1
      /\ (\A i \in DOMAIN preouts : preouts[i] = ReadOutput(tx.ins[i]))
  BY <1>1, <1>3 DEF InputsInv
<1>8. \A o : ReadOutput(o)' = ReadOutput(o)
  BY <1>1 DEF ReadOutput
<1> HIDE DEF cell
<1>9. /\ preouts' \in Seq(Cell) /\ Len(preouts') = Len(preouts) + 1
      /\ preouts'[k] = cell
      /\ \A i \in DOMAIN preouts' : i = k \/ (i \in DOMAIN preouts /\ preouts'[i] = preouts[i])
  BY <1>1, <1>6, <1>7
<1>10. \A i \in DOMAIN preouts' : preouts'[i] = ReadOutput(tx.ins[i])
  BY <1>7, <1>9 DEF cell
<1>11. InputsInv'
  BY <1>1, <1>4, <1>5, <1>7, <1>8, <1>9, <1>10 DEF InputsInv
<1>12. OutputsInv'
  BY <1>1, <1>5 DEF OutputsInv
<1> QED  BY <1>4, <1>11, <1>12 DEF LedgerInv

LEMMA InputsReadStep ==
  ASSUME LedgerInv, InputsRead
  PROVE  LedgerInv'
<1>1. /\ UNCHANGED <<chain, pos, tx_db, addressinfo, entity, k, preouts>>
      /\ step = "inputs" /\ step' = "input_entity" /\ output_bv' = Addresses(tx.outs)
  BY DEF InputsRead, E!TakeVectors, E!tables
<1>2. ChainInv' /\ TablesInv' /\ tx' = tx
  BY <1>1, SameTables DEF LedgerInv, ChainInv, TablesInv
<1>3. InputsInv' /\ OutputsInv'
  BY <1>1, <1>2 DEF LedgerInv, InputsInv, OutputsInv
<1> QED  BY <1>2, <1>3 DEF LedgerInv

LEMMA InputEntityStep ==
  ASSUME LedgerInv, InputEntity
  PROVE  LedgerInv'
<1>1. /\ UNCHANGED <<chain, pos, tx_db, addressinfo, preouts, output_bv>>
      /\ step = "input_entity" /\ step' = "outputs" /\ stage' = "output_rows" /\ k' = 1
  BY DEF InputEntity, E!input_entity_mysql
<1>2. DOMAIN entity' = DOMAIN entity
  BY DEF InputEntity, E!input_entity_mysql, E!tables, E!Merged, E!Rows
<1>3. ChainInv' /\ TablesInv' /\ tx' = tx
  BY <1>1, <1>2, SameTables DEF LedgerInv, ChainInv, TablesInv
<1>4. DOMAIN tx.outs \subseteq Nat \ {0}
  BY <1>1, TxFacts, SMTT(30) DEF LedgerInv, ChainInv
<1>5. InputsInv' /\ OutputsInv'
  BY <1>1, <1>3, <1>4 DEF LedgerInv, InputsInv, OutputsInv
<1> QED  BY <1>3, <1>5 DEF LedgerInv

(* output_transaction_mysql leaves a row for the address in both tables.   *)
LEMMA OutputRow ==
  ASSUME TablesInv, NEW a, NEW v, output_transaction_mysql(a, v)
  PROVE  /\ DOMAIN addressinfo' = DOMAIN entity'
         /\ DOMAIN entity' = DOMAIN entity \cup {a}
         /\ UNCHANGED <<output_bv, stage>>
<1>1. CASE a \in DOMAIN addressinfo
  <2>1. DOMAIN addressinfo' = DOMAIN addressinfo /\ UNCHANGED <<entity, output_bv, stage>>
    BY <1>1 DEF output_transaction_mysql, evars
  <2> QED  BY <1>1, <2>1 DEF TablesInv
<1>2. CASE a \notin DOMAIN addressinfo
  <2>1. /\ DOMAIN addressinfo' = DOMAIN addressinfo \cup {a}
        /\ DOMAIN entity' = DOMAIN entity \cup {a}
        /\ UNCHANGED <<output_bv, stage>>
    BY <1>2 DEF output_transaction_mysql, E!InsertRow, E!Rows
  <2> QED  BY <2>1 DEF TablesInv
<1> QED  BY <1>1, <1>2

LEMMA OutputStep ==
  ASSUME LedgerInv, Output
  PROVE  LedgerInv'
<1> DEFINE a == tx.outs[k].addr
<1>1. /\ UNCHANGED <<chain, pos, step, preouts, tx_db>>
      /\ step = "outputs" /\ k' = k + 1 /\ output_transaction_mysql(a, tx.outs[k].val)
  BY DEF Output
<1>2. /\ DOMAIN addressinfo' = DOMAIN entity' /\ DOMAIN entity' = DOMAIN entity \cup {a}
      /\ UNCHANGED <<output_bv, stage>>
  BY <1>1, OutputRow, Zenon DEF LedgerInv
<1>3. ChainInv' /\ TablesInv' /\ tx' = tx
  BY <1>1, <1>2, SameTables DEF LedgerInv, ChainInv
<1>4. DOMAIN tx.outs \subseteq Nat
  BY <1>1, TxFacts, SMTT(30) DEF LedgerInv, ChainInv
<1>5. k \in Nat \ {0} /\ stage = "output_rows" /\ output_bv = Addresses(tx.outs)
      /\ (\A j \in DOMAIN tx.outs : j < k => tx.outs[j].addr \in DOMAIN entity)
  BY <1>1 DEF LedgerInv, OutputsInv
<1>6. \A j \in DOMAIN tx.outs : j < k + 1 => tx.outs[j].addr \in DOMAIN entity'
  <2>1. \A j \in DOMAIN tx.outs : j < k + 1 => j < k \/ j = k
    BY <1>4, <1>5
  <2> QED  BY <1>2, <1>5, <2>1
<1>7. InputsInv' /\ OutputsInv'
  BY <1>1, <1>2, <1>3, <1>5, <1>6 DEF LedgerInv, InputsInv, OutputsInv
<1> QED  BY <1>3, <1>7 DEF LedgerInv

(* After the loop every output has its row.                                *)
LEMMA OutputsWrittenStep ==
  ASSUME LedgerInv, OutputsWritten
  PROVE  LedgerInv' /\ Paid(pos + 1)
<1>1. /\ UNCHANGED <<chain, pos, tx_db, addressinfo, entity, k, preouts>>
      /\ step = "outputs" /\ step' = "output_entity" /\ ~(k <= Len(tx.outs))
  BY DEF OutputsWritten, E!CallOutputEntity, E!tables, MoreOutputs
<1>2. \A j \in DOMAIN tx.outs : j < k
  BY <1>1, TxFacts DEF LedgerInv, ChainInv, OutputsInv
<1>3. Paid(pos + 1)
  BY <1>1, <1>2 DEF LedgerInv, OutputsInv, Paid, tx
<1>4. ChainInv' /\ TablesInv' /\ tx' = tx /\ Paid(pos + 1)'
  BY <1>1, <1>3, SameTables DEF LedgerInv, ChainInv, TablesInv
<1>5. InputsInv' /\ OutputsInv'
  BY <1>1, <1>4 DEF LedgerInv, InputsInv, OutputsInv
<1> QED  BY <1>3, <1>4, <1>5 DEF LedgerInv

LEMMA OutputEntityStep ==
  ASSUME LedgerInv, OutputEntity
  PROVE  LedgerInv'
<1>1. /\ UNCHANGED <<chain, pos, tx_db, addressinfo, k, preouts>>
      /\ step = "output_entity" /\ step' \in {"output_entity", "put"}
  BY DEF OutputEntity
<1>2. DOMAIN entity' = DOMAIN entity
  BY SMTT(30) DEF OutputEntity, E!output_entity_mysql, E!tables
<1>3. ChainInv' /\ TablesInv' /\ tx' = tx /\ Paid(pos + 1)'
  BY <1>1, <1>2, SameTables DEF LedgerInv, ChainInv, TablesInv, OutputsInv
<1>4. InputsInv' /\ OutputsInv'
  BY <1>1, <1>3 DEF LedgerInv, InputsInv, OutputsInv
<1> QED  BY <1>3, <1>4 DEF LedgerInv

(* The record of a transaction gives its outputs back.                     *)
LEMMA PutStep ==
  ASSUME LedgerInv, Put
  PROVE  LedgerInv'
<1>1. /\ UNCHANGED <<chain, pos, addressinfo, k, preouts, entity>>
      /\ step = "put" /\ step' = "txinfo" /\ DOMAIN tx_db' = DOMAIN tx_db \cup {pos + 1}
      /\ tx_db'[pos + 1] = Record(preouts, tx.outs)
      /\ \A h \in DOMAIN tx_db : h # pos + 1 => tx_db'[h] = tx_db[h]
  BY DEF Put, evars
<1>2. ChainInv /\ TablesInv /\ pos \in Nat /\ pos # Len(chain)
  BY <1>1 DEF LedgerInv, ChainInv
<1>3. ChainInv' /\ tx' = tx
  BY <1>1, <1>2, SMTT(30) DEF ChainInv, Created, IsReward, tx
<1>4. \A h \in 1..pos : Stored(h)' /\ Paid(h)'
  BY <1>1, <1>2 DEF TablesInv, Stored, Paid
<1>5. TablesInv'
  BY <1>1, <1>2, <1>4 DEF TablesInv
<1>6. preouts \in Seq(Cell) /\ tx.outs \in Seq(Cell)
  BY <1>1, <1>2, TxFacts DEF LedgerInv, InputsInv
<1>7. \A j \in DOMAIN tx.outs : OutputCell(tx_db'[pos + 1], j - 1) = tx.outs[j]
  BY <1>1, <1>6, RecordCell, SMTT(30)
<1>8. Stored(pos + 1)' /\ Paid(pos + 1)'
  <2>1. Paid(pos + 1)
    BY <1>1 DEF LedgerInv, OutputsInv
  <2> QED  BY <1>1, <1>7, <2>1 DEF Stored, Paid, tx
<1>9. InputsInv' /\ OutputsInv'
  BY <1>1, <1>8 DEF LedgerInv, InputsInv, OutputsInv
<1> QED  BY <1>3, <1>5, <1>9 DEF LedgerInv

LEMMA Transaction2MySQLStep ==
  ASSUME LedgerInv, Transaction2MySQL
  PROVE  LedgerInv'
<1>1. /\ UNCHANGED <<chain, tx_db, addressinfo, k, preouts, entity>>
      /\ step = "txinfo" /\ step' = "next" /\ pos' = pos + 1
  BY DEF Transaction2MySQL, evars
<1>2. pos \in Nat /\ pos + 1 = Len(chain) /\ chain \in Seq(Transactions)
  BY <1>1 DEF LedgerInv, ChainInv
<1>3. ChainInv'
  BY <1>1, <1>2 DEF ChainInv
<1>4. \A h \in 1..(pos + 1) : Stored(h) /\ Paid(h)
  <2>1. \A h \in 1..(pos + 1) : h \in 1..pos \/ h = pos + 1
    BY <1>2
  <2> QED  BY <1>1, <2>1 DEF LedgerInv, TablesInv, OutputsInv
<1>5. TablesInv'
  BY <1>1, <1>4 DEF LedgerInv, TablesInv, Stored, Paid
<1>6. InputsInv' /\ OutputsInv'
  BY <1>1 DEF LedgerInv, InputsInv, OutputsInv
<1> QED  BY <1>3, <1>5, <1>6 DEF LedgerInv

LEMMA MonthEndStep ==
  ASSUME LedgerInv, MonthEnd
  PROVE  LedgerInv'
<1>1. /\ UNCHANGED <<chain, pos, tx_db, addressinfo, k, preouts, entity, step>> /\ step = "next"
  BY DEF MonthEnd, E!update_entity_mysql
<1>2. ChainInv' /\ TablesInv'
  BY <1>1, SameTables DEF LedgerInv, TablesInv
<1>3. InputsInv' /\ OutputsInv'
  BY <1>1 DEF LedgerInv, InputsInv, OutputsInv
<1> QED  BY <1>2, <1>3 DEF LedgerInv
-----------------------------------------------------------------------------
LEMMA LedgerInit == Init => LedgerInv
<1> SUFFICES ASSUME Init PROVE LedgerInv
  OBVIOUS
<1>1. /\ chain = <<>> /\ pos = 0 /\ step = "next" /\ k = 1 /\ addressinfo = <<>>
      /\ DOMAIN entity = {}
  BY DEF Init, E!Init
<1>2. ChainInv
  BY <1>1 DEF ChainInv
<1>3. TablesInv
  BY <1>1 DEF TablesInv
<1>4. InputsInv /\ OutputsInv
  BY <1>1 DEF InputsInv, OutputsInv
<1> QED  BY <1>2, <1>3, <1>4 DEF LedgerInv

LEMMA LedgerNext == LedgerInv /\ [Next]_vars => LedgerInv'
<1> SUFFICES ASSUME LedgerInv, [Next]_vars PROVE LedgerInv'
  OBVIOUS
<1>1. CASE UNCHANGED vars
  <2>1. UNCHANGED <<chain, pos, step, k, preouts, tx_db, addressinfo, entity, stage, output_bv>>
    BY <1>1 DEF vars, evars
  <2>2. ChainInv' /\ TablesInv' /\ tx' = tx /\ (Paid(pos + 1) => Paid(pos + 1)')
        /\ (Stored(pos + 1) => Stored(pos + 1)')
    BY <2>1, SameTables DEF LedgerInv, ChainInv, TablesInv
  <2>3. \A o : ReadOutput(o)' = ReadOutput(o)
    BY <2>1 DEF ReadOutput
  <2>4. InputsInv'
    BY <2>1, <2>2, <2>3 DEF LedgerInv, InputsInv
  <2>5. OutputsInv'
    BY <2>1, <2>2 DEF LedgerInv, OutputsInv
  <2> QED  BY <2>2, <2>4, <2>5 DEF LedgerInv
<1>2. CASE Next
  BY <1>2, ExtendStep, StartStep, InputStep, InputsReadStep, InputEntityStep, OutputStep,
     OutputsWrittenStep, OutputEntityStep, PutStep, Transaction2MySQLStep, MonthEndStep
     DEF Next
<1> QED  BY <1>1, <1>2

LEMMA LedgerHolds == Spec => []LedgerInv
  BY LedgerInit, LedgerNext, PTL DEF Spec

(* Every input of every transaction of a valid chain is found in LevelDB,  *)
(* with the address and the value that the spent output was written with.  *)
THEOREM EveryInputFound == Spec => []InputsFound
<1>1. LedgerInv => InputsFound
  <2> SUFFICES ASSUME LedgerInv, step = "inputs", NEW i \in DOMAIN tx.ins
               PROVE  /\ Found(tx.ins[i])
                      /\ tx.ins[i].hash # 0 => ReadOutput(tx.ins[i]) = OutputAt(tx.ins[i])
    BY DEF InputsFound
  <2>1. ChainInv /\ TablesInv /\ pos # Len(chain)
    BY DEF LedgerInv, ChainInv
  <2> QED  BY <2>1, InputFacts DEF Found
<1> QED  BY LedgerHolds, <1>1, PTL
-----------------------------------------------------------------------------
(* The addresses of the inputs, once all are read, are those of a reward   *)
(* or of outputs that have rows.                                           *)
LEMMA InputVector ==
  ASSUME LedgerInv, step = "inputs", k > Len(tx.ins)
  PROVE  \/ Addresses(preouts) = <<Coinbase>>
         \/ /\ Addresses(preouts) \in Vectors
            /\ E!Elements(Addresses(preouts)) \subseteq DOMAIN entity
<1>1. ChainInv /\ TablesInv /\ pos # Len(chain)
  BY DEF LedgerInv, ChainInv
<1>2. /\ tx \in Transactions /\ tx.ins \in Seq([hash : Nat, index : Nat])
  BY <1>1, TxFacts
<1>3. preouts \in Seq(Cell) /\ k = Len(preouts) + 1 /\ Len(preouts) <= Len(tx.ins)
      /\ (\A i \in DOMAIN preouts : preouts[i] = ReadOutput(tx.ins[i]))
  BY DEF LedgerInv, InputsInv
<1>4. Len(preouts) = Len(tx.ins) /\ DOMAIN preouts = DOMAIN tx.ins
  BY <1>2, <1>3
<1>5. CASE IsReward(tx)
  <2>1. tx.ins = <<NullOutpoint>> /\ Len(tx.ins) = 1 /\ DOMAIN preouts = 1..1
    BY <1>4, <1>5 DEF IsReward
  <2>2. preouts[1] = [addr |-> Coinbase, val |-> 0]
    BY <1>1, <1>3, <1>4, <1>5, <2>1, InputFacts
  <2>3. Addresses(preouts) = [i \in 1..1 |-> Coinbase]
    BY <2>1, <2>2 DEF Addresses
  <2> QED  BY <2>3
<1>6. CASE ~IsReward(tx)
  <2>1. \A i \in DOMAIN preouts : preouts[i].addr \in Address /\ preouts[i].addr \in DOMAIN entity
    BY <1>1, <1>3, <1>4, <1>6, InputFacts
  <2>2. Addresses(preouts) \in [DOMAIN tx.ins -> Address]
    BY <1>4, <2>1 DEF Addresses
  <2>3. Addresses(preouts) \in Vectors
    BY <1>2, <2>2, TransactionsAssumption, ZenonT(60)
  <2>4. E!Elements(Addresses(preouts)) \subseteq DOMAIN entity
    BY <2>1 DEF Addresses, E!Elements
  <2> QED  BY <2>3, <2>4
<1> QED  BY <1>5, <1>6

(* Every step of the ledger is a step of EntityProcess or none of its      *)
(* business.                                                               *)
LEMMA ContractStep == LedgerInv /\ [Next]_vars => [E!Next]_(E!vars)
<1> SUFFICES ASSUME LedgerInv, [Next]_vars PROVE [E!Next]_(E!vars)
  OBVIOUS
<1>0. UNCHANGED evars => UNCHANGED E!vars
  BY DEF evars, E!vars
<1>1. CASE UNCHANGED vars
  BY <1>0, <1>1 DEF vars
<1>2. CASE \/ \E t \in Transactions : Extend(t)
           \/ StartTransaction \/ Input \/ Put \/ Transaction2MySQL
  BY <1>0, <1>2 DEF Extend, StartTransaction, Input, Put, Transaction2MySQL
<1>3. CASE InputsRead
  <2>1. step = "inputs" /\ k > Len(tx.ins)
        /\ E!TakeVectors(Addresses(preouts), Addresses(tx.outs))
    BY <1>3 DEF InputsRead
  <2>2. tx \in Transactions
    BY <2>1, TxFacts DEF LedgerInv, ChainInv
  <2>3. Addresses(tx.outs) \in Vectors
    BY <2>2, TransactionsAssumption DEF Addresses
  <2>4. Addresses(preouts) \in Vectors \cup {<<Coinbase>>}
        /\ E!BeginTransaction(Addresses(preouts), Addresses(tx.outs))
    BY <2>1, InputVector DEF E!BeginTransaction, E!Rows
  <2>5. E!Next
    BY <2>3, <2>4, Zenon DEF E!Next
  <2> QED  BY <2>5
<1>4. CASE InputEntity
  BY <1>4, Zenon DEF InputEntity, E!Next
<1>5. CASE Output
  <2> DEFINE a == tx.outs[k].addr
  <2>1. CASE a \in DOMAIN addressinfo
    BY <1>0, <1>5, <2>1 DEF Output, output_transaction_mysql
  <2>2. CASE a \notin DOMAIN addressinfo
    <3>1. E!InsertRow(a) /\ step = "outputs" /\ k <= Len(tx.outs)
      BY <1>5, <2>2 DEF Output, output_transaction_mysql, MoreOutputs
    <3>2. k \in DOMAIN tx.outs /\ tx.outs \in Seq([addr : Address, val : Nat])
      BY <3>1, TxFacts DEF LedgerInv, ChainInv, OutputsInv
    <3>3. a \in Address
      <4>1. \A S, q : q \in Seq(S) => \A m \in DOMAIN q : q[m] \in S
        OBVIOUS
      <4>2. tx.outs[k] \in [addr : Address, val : Nat]
        BY <3>2, <4>1, Zenon
      <4> QED  BY <4>2
    <3>4. stage = "output_rows" /\ a \in E!Elements(output_bv) \ E!Rows
      BY <2>2, <3>1, <3>2 DEF LedgerInv, OutputsInv, TablesInv, Addresses, E!Elements, E!Rows
    <3>5. E!output_row(a)
      BY <3>1, <3>4 DEF E!output_row
    <3>6. E!Next
      BY <3>3, <3>5, Zenon DEF E!Next
    <3> QED  BY <3>6
  <2> QED  BY <2>1, <2>2
<1>6. CASE OutputsWritten
  <2>1. E!CallOutputEntity /\ step = "outputs"
    BY <1>6 DEF OutputsWritten
  <2>2. Paid(pos + 1)
    BY <1>6, OutputsWrittenStep
  <2>3. E!Elements(output_bv) \subseteq E!Rows
    BY <2>1, <2>2 DEF LedgerInv, OutputsInv, Paid, tx, Addresses, E!Elements, E!Rows
  <2>4. E!rows_written
    BY <2>1, <2>3 DEF E!rows_written
  <2> QED  BY <2>4, Zenon DEF E!Next
<1>7. CASE OutputEntity
  BY <1>7, Zenon DEF OutputEntity, E!Next
<1>8. CASE MonthEnd
  BY <1>8, Zenon DEF MonthEnd, E!Next
<1> QED  BY <1>1, <1>2, <1>3, <1>4, <1>5, <1>6, <1>7, <1>8 DEF Next

(* The ledger keeps the contract of the clustering, for every set of       *)
(* addresses and every chain of valid transactions.                        *)
THEOREM ContractKept == Spec => KeepsEntityContract
<1>1. Init => E!Init
  BY DEF Init
<1> QED  BY LedgerHolds, <1>1, ContractStep, PTL DEF Spec, KeepsEntityContract, E!Spec
-----------------------------------------------------------------------------
(* The ids of the entities on their way through the database: see          *)
(* EntityCodec.                                                            *)

(* A number is its quotient and its last hexadecimal digit.                *)
LEMMA LastDigit == \A a \in Nat : a = 16 * (a \div 16) + (a % 16) /\ a % 16 \in 0..15
OBVIOUS

(* What is written and read back is the same number: each digit is the     *)
(* remainder that the next quotient leaves.                                *)
LEMMA CodecInverse ==
  ASSUME NEW n, IsUnit32(n)
  PROVE  LittleEndian(Reversed(HexLiteral(HexDigits(n)))) = n
<1> DEFINE q1 == n \div 16
           q2 == n \div 256
           q3 == n \div 4096
           q4 == n \div 65536
           q5 == n \div 1048576
           q6 == n \div 16777216
           q7 == n \div 268435456
<1>0. n \in Nat /\ n \div 65536 < 65536
  BY SMT DEF IsUnit32
<1>1. /\ q1 \in Nat /\ q2 \in Nat /\ q3 \in Nat /\ q4 \in Nat
      /\ q5 \in Nat /\ q6 \in Nat /\ q7 \in Nat
  BY <1>0, SMTT(30)
<1>2. q2 = q1 \div 16 /\ q3 = q2 \div 16 /\ q4 = q3 \div 16
  BY <1>0, SMTT(30)
<1>3. q5 = q4 \div 16 /\ q6 = q5 \div 16 /\ q7 = q6 \div 16
  BY <1>0, SMTT(30)
<1>4. q7 < 16
  BY <1>0, SMTT(30)
<1>5. HexDigits(n) = <<q7 % 16, q6 % 16, q5 % 16, q4 % 16, q3 % 16, q2 % 16, q1 % 16, n % 16>>
  BY <1>0, SMTT(30) DEF HexDigits, Digit
<1> DEFINE r0 == n % 16
           r1 == q1 % 16
           r2 == q2 % 16
           r3 == q3 % 16
           r4 == q4 % 16
           r5 == q5 % 16
           r6 == q6 % 16
           r7 == q7 % 16
<1>7. n = 16 * q1 + r0 /\ r0 \in 0..15
  BY <1>0, LastDigit, SMT
<1> HIDE DEF q1, q2, q3, q4, q5, q6, q7
<1>8. /\ q1 = 16 * q2 + r1 /\ r1 \in 0..15
      /\ q2 = 16 * q3 + r2 /\ r2 \in 0..15
      /\ q3 = 16 * q4 + r3 /\ r3 \in 0..15
  BY <1>1, <1>2, LastDigit, SMT
<1>9. /\ q4 = 16 * q5 + r4 /\ r4 \in 0..15
      /\ q5 = 16 * q6 + r5 /\ r5 \in 0..15
      /\ q6 = 16 * q7 + r6 /\ r6 \in 0..15
  BY <1>1, <1>3, LastDigit, SMT
<1>10. q7 = r7 /\ r7 \in 0..15
  BY <1>1, <1>4, SMT
<1>11. HexDigits(n) = <<r7, r6, r5, r4, r3, r2, r1, r0>>
  BY <1>5, Zenon
<1> HIDE DEF r0, r1, r2, r3, r4, r5, r6, r7
<1>12. HexLiteral(HexDigits(n))
       = <<16 * r7 + r6, 16 * r5 + r4, 16 * r3 + r2, 16 * r1 + r0>>
  BY <1>11, SMT DEF HexLiteral
<1>13. Reversed(HexLiteral(HexDigits(n)))
       = <<16 * r1 + r0, 16 * r3 + r2, 16 * r5 + r4, 16 * r7 + r6>>
  BY <1>12, SMT DEF Reversed
<1>14. LittleEndian(Reversed(HexLiteral(HexDigits(n))))
       = (16 * r1 + r0) + 256 * (16 * r3 + r2) + 65536 * (16 * r5 + r4)
         + 16777216 * (16 * r7 + r6)
  BY <1>13, SMT DEF LittleEndian
<1> QED
  BY <1>0, <1>1, <1>7, <1>8, <1>9, <1>10, <1>14, SMTT(30)

(* The bytes of a literal are bytes.                                       *)
LEMMA LiteralBytes ==
  ASSUME NEW n \in Nat
  PROVE  \A i \in 1..4 : HexLiteral(HexDigits(n))[i] \in 0..255
<1>1. \A w \in Nat \ {0} : Digit(n, w) \in 0..15
  <2> SUFFICES ASSUME NEW w \in Nat \ {0} PROVE Digit(n, w) \in 0..15
    OBVIOUS
  <2>1. n \div w \in Int
    OBVIOUS
  <2> QED
    BY <2>1 DEF Digit
<1> DEFINE h == HexDigits(n)
<1>2. /\ h[1] \in 0..15 /\ h[2] \in 0..15 /\ h[3] \in 0..15 /\ h[4] \in 0..15
      /\ h[5] \in 0..15 /\ h[6] \in 0..15 /\ h[7] \in 0..15 /\ h[8] \in 0..15
  BY <1>1, SMTT(30) DEF HexDigits
<1> HIDE DEF h
<1>3. \A i \in 1..4 : HexLiteral(h)[i] \in 0..255
  BY <1>2, SMTT(30) DEF HexLiteral
<1> QED
  BY <1>3, Zenon DEF h

\* The column holds the id, or is as it was created.
AsWritten == column = Default \/ column = HexLiteral(HexDigits(id))

(* The codec of EntityProcess.h is exact for every unit32: a SELECT gives  *)
(* back the id that an UPDATE wrote, or 0 if none did.                     *)
THEOREM CodecExact == CodecSpec => [](CodecTypeOK /\ RoundTrip)
<1> DEFINE Inv == CodecTypeOK /\ RoundTrip /\ AsWritten
<1>0. LittleEndian(Reversed(Default)) = 0
  BY DEF LittleEndian, Reversed, Default
<1>1. CodecInit => Inv
  BY DEF CodecInit, CodecTypeOK, RoundTrip, AsWritten, Default, Pending
<1>2. Inv /\ [CodecNext]_codecVars => Inv'
  <2> SUFFICES ASSUME Inv, [CodecNext]_codecVars PROVE Inv'
    BY SMTT(30)
  <2>0. IsUnit32(id) /\ IsUnit32(0) /\ id \in Nat
    BY IdsAssumption, SMTT(30) DEF CodecTypeOK, IsUnit32
  <2>1. CASE Store
    BY <2>0, <2>1, LiteralBytes,
      ZenonT(60) DEF Store, CodecTypeOK, RoundTrip, AsWritten, Pending
  <2>2. CASE Load
    <3>1. decoded' = IF column = Default THEN 0 ELSE id
      BY <1>0, <2>0, <2>2, CodecInverse, SMTT(30) DEF Load, AsWritten
    <3>2. IsUnit32(decoded')
      BY <2>0, <3>1, SMTT(30)
    <3> QED
      BY <2>2, <3>1, <3>2 DEF Load, CodecTypeOK, RoundTrip, AsWritten
  <2>3. CASE UNCHANGED codecVars
    BY <2>3, ZenonT(60) DEF codecVars, CodecTypeOK, RoundTrip, AsWritten
  <2> QED
    BY <2>1, <2>2, <2>3 DEF CodecNext
<1> QED
  BY <1>1, <1>2, PTL DEF CodecSpec
-----------------------------------------------------------------------------
(* What is proved of EntityProcess for every caller that keeps the         *)
(* contract.                                                               *)
EP == INSTANCE EntityProcessProofs

(* In the whole program the tables are consistent, merges are final and    *)
(* two addresses have the same entity if and only if a chain of            *)
(* transactions spent them together.                                       *)
THEOREM EntitiesAreRight ==
    Spec => /\ [](E!TablesConsistent /\ E!EntitiesAreComponents)
            /\ E!MergesAreFinal
<1>1. /\ EP!Spec => []EP!TablesConsistent
      /\ EP!Spec => []EP!EntitiesAreComponents
      /\ EP!Spec => EP!MergesAreFinal
  BY AddressAssumption, EP!EntitySafety, EP!EntityIsComponent, EP!MergesFinal, SMTT(30)
<1>2. E!Init => EP!Init
  BY DEF E!Init, EP!Init, E!InitialCnt, EP!InitialCnt
<1>m. \A e : E!Members(e) = EP!Members(e)
  BY DEF E!Members, EP!Members, E!Rows, EP!Rows
<1>c. \A S : E!Cardinality(S) = EP!Cardinality(S)
  BY DEF E!Cardinality, EP!Cardinality
<1>3. E!Next => EP!Next
  <2>1. \A in, out : E!BeginTransaction(in, out) => EP!BeginTransaction(in, out)
    BY SMTT(30) DEF E!BeginTransaction, EP!BeginTransaction, E!TakeVectors, EP!TakeVectors,
           E!Elements, EP!Elements, E!tables, EP!tables, E!Rows, EP!Rows
  <2>2. E!input_entity_mysql => EP!input_entity_mysql
    BY Zenon DEF E!input_entity_mysql, EP!input_entity_mysql, E!IsCoinbase, EP!IsCoinbase,
           E!SpentEntities, EP!SpentEntities, E!LeastId, EP!LeastId, E!Merged, EP!Merged,
           E!Remaining, EP!Remaining, E!RecordChange, EP!RecordChange, E!Elements,
           EP!Elements, E!tables, EP!tables, E!Rows, EP!Rows, E!Entities, EP!Entities
  <2>3. \A a : E!output_row(a) => EP!output_row(a)
    BY DEF E!output_row, EP!output_row, E!InsertRow, EP!InsertRow, E!Elements, EP!Elements,
           E!Rows, EP!Rows
  <2>4. E!rows_written => EP!rows_written
    BY DEF E!rows_written, EP!rows_written, E!CallOutputEntity, EP!CallOutputEntity,
           E!Elements, EP!Elements, E!tables, EP!tables, E!Rows, EP!Rows
  <2>5. E!output_entity_mysql => EP!output_entity_mysql
    BY DEF E!output_entity_mysql, EP!output_entity_mysql, E!insert_entity_mysql,
           EP!insert_entity_mysql, E!AfterOutput, EP!AfterOutput, E!RecordChange,
           EP!RecordChange, E!tables, EP!tables, E!Rows, EP!Rows, E!Entities, EP!Entities
  <2>6. E!update_entity_mysql => EP!update_entity_mysql
    BY <1>m, <1>c DEF E!update_entity_mysql, EP!update_entity_mysql, E!Entities, EP!Entities
  <2> QED  BY <2>1, <2>2, <2>3, <2>4, <2>5, <2>6, Zenon DEF E!Next, EP!Next
<1>4. UNCHANGED E!vars <=> UNCHANGED EP!vars
  BY DEF E!vars, EP!vars
<1>5. EP!TablesConsistent => E!TablesConsistent
  <2>1. EP!AssignedInTime => E!AssignedInTime
    BY DEF E!AssignedInTime, EP!AssignedInTime, E!Waiting, EP!Waiting, E!Rows, EP!Rows,
           E!Elements, EP!Elements
  <2>2. EP!TablesAgree => E!TablesAgree
    BY DEF E!TablesAgree, EP!TablesAgree, E!Rows, EP!Rows, E!Entities, EP!Entities
  <2>3. EP!StaleIsQueued => E!StaleIsQueued
    BY <1>m, <1>c DEF E!StaleIsQueued, EP!StaleIsQueued, E!Entities, EP!Entities
  <2> QED  BY <2>1, <2>2, <2>3 DEF E!TablesConsistent, EP!TablesConsistent
<1>6. EP!EntitiesAreComponents => E!EntitiesAreComponents
  BY DEF E!EntitiesAreComponents, EP!EntitiesAreComponents, E!AP!ClustersAreComponents,
         EP!AP!ClustersAreComponents, E!AP!Component, EP!AP!Component, E!AP!Known,
         EP!AP!Known, E!AP!ClosedUnder, EP!AP!ClosedUnder, E!clusterBar, EP!clusterBar,
         E!Assigned, EP!Assigned, E!Rows, EP!Rows
<1>7. EP!NeverSplit /\ EP!NeverReused => E!NeverSplit /\ E!NeverReused
  BY DEF E!NeverSplit, EP!NeverSplit, E!NeverReused, EP!NeverReused, E!Rows,
               EP!Rows, E!Entities, EP!Entities
<1> QED  BY ContractKept, <1>1, <1>2, <1>3, <1>4, <1>5, <1>6, <1>7, PTL
         DEF KeepsEntityContract, E!Spec, EP!Spec, E!MergesAreFinal, EP!MergesAreFinal
=============================================================================
