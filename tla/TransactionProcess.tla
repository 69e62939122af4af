------------------------- MODULE TransactionProcess -------------------------
(***************************************************************************)
(* TransactionProcess.h: what the program does for one transaction, from   *)
(* reading the spent outputs in LevelDB to the row in txinfo, together     *)
(* with the entity clustering of module EntityProcess that it calls.       *)
(*                                                                         *)
(* The chain is the environment's: it grows by transactions that are valid *)
(* for the outputs unspent so far.  The hash of a transaction is its       *)
(* position in the chain; 0 is the null hash of a block reward's input.    *)
(***************************************************************************)
EXTENDS Integers, Sequences, FiniteSets, Functions

CONSTANTS
    Address,        \* the 20-byte addresses
    Coinbase,       \* the virtual address 0x30...30 of a block reward's input
    Vectors,        \* the address vectors that transactions may have
    Transactions,   \* the transactions the chain may hold
    MaxChain,       \* bound: the length of the chain
    OutcntDefault   \* the default of addressinfo.outcnt, set by the schema

ASSUME AddressAssumption == Coinbase \notin Address /\ Vectors \subseteq Seq(Address) \ {<<>>}

(* A transaction has inputs and outputs, and its address vectors are among *)
(* those that EntityProcess is given.                                      *)
ASSUME TransactionsAssumption ==
    \A t \in Transactions :
        /\ t.ins \in Seq([hash : Nat, index : Nat]) \ {<<>>}
        /\ t.outs \in Seq([addr : Address, val : Nat]) \ {<<>>}
        /\ [DOMAIN t.ins -> Address] \subseteq Vectors
        /\ [i \in DOMAIN t.outs |-> t.outs[i].addr] \in Vectors

VARIABLES
    chain,            \* the transactions of the block files so far
    pos,              \* how many of them were processed
    step,             \* where TransactionProcess is
    k,                \* the loop index of that step
    preouts,          \* the outputs that the inputs read so far spend
    outvalue_sum,
    tx_db,            \* LevelDB: hash -> record
    addressinfo,      \* address -> its numeric columns
    txinfo,           \* hash -> fee, invalue and outvalue
    entityinfo,       \* entity -> the same columns, summed by the last update
    \* the variables of EntityProcess
    entity, addcnt, entitycnt, entitychange_v, stage, input_bv, output_bv, cospent

evars == <<entity, addcnt, entitycnt, entitychange_v, stage, input_bv, output_bv, cospent>>
vars == <<chain, pos, step, k, preouts, outvalue_sum, tx_db, addressinfo, txinfo,
          entityinfo, evars>>

E == INSTANCE EntityProcess

Columns == {"inval", "outval", "bal", "maxbal", "incnt", "outcnt"}
NullOutpoint == [hash |-> 0, index |-> 0]

tx == chain[pos + 1]
-----------------------------------------------------------------------------
(* The chain: outpoints created and spent by its first n transactions.     *)
Created(n) == UNION {{[hash |-> h, index |-> j - 1] : j \in DOMAIN chain[h].outs} : h \in 1..n}
Spent(n) == UNION {Range(chain[h].ins) : h \in 1..n}
Unspent(n) == Created(n) \ Spent(n)
OutputAt(o) == chain[o.hash].outs[o.index + 1]
IsReward(t) == t.ins = <<NullOutpoint>>

Sum(op(_), S) == MapThenFoldSet(LAMBDA x, y : x + y, 0, op, LAMBDA T : CHOOSE x \in T : TRUE, S)
SumSeq(s) == Sum(LAMBDA i : s[i].val, DOMAIN s)

(* A transaction spends distinct unspent outputs and pays out no more than *)
(* they hold, or it is a block reward.                                     *)
Valid(t) == \/ IsReward(t)
            \/ /\ Range(t.ins) \subseteq Unspent(Len(chain))
               /\ IsInjective(t.ins)
               /\ SumSeq(t.outs) <= Sum(LAMBDA i : OutputAt(t.ins[i]).val, DOMAIN t.ins)

Extend(t) == /\ Len(chain) < MaxChain
             /\ step = "next"
             /\ pos = Len(chain)
             /\ Valid(t)
             /\ chain' = Append(chain, t)
             /\ UNCHANGED <<pos, step, k, preouts, outvalue_sum, tx_db, addressinfo,
                            txinfo, entityinfo, evars>>
-----------------------------------------------------------------------------
Init == /\ chain = <<>>
        /\ pos = 0
        /\ step = "next"
        /\ k = 1
        /\ preouts = <<>>
        /\ outvalue_sum = 0
        /\ tx_db = <<>>
        /\ addressinfo = <<>>
        /\ txinfo = <<>>
        /\ entityinfo = <<>>
        /\ E!Init

StartTransaction ==
    /\ step = "next"
    /\ pos < Len(chain)
    /\ step' = "inputs"
    /\ k' = 1
    /\ preouts' = <<>>
    /\ outvalue_sum' = 0
    /\ UNCHANGED <<chain, pos, tx_db, addressinfo, txinfo, entityinfo, evars>>

(* A record of tx_db is a run of cells: the header, the number of inputs,  *)
(* one cell per resolved input, the number of outputs, one cell per output.*)
Record(ins, outs) == <<"header", Len(ins)>> \o ins \o <<Len(outs)>> \o outs

(* ReadOutput finds an output by its offset in the record.                 *)
OutputCell(record, index) == record[2 + record[2] + 1 + index + 1]
ReadOutput(o) == IF o.hash = 0 THEN [addr |-> Coinbase, val |-> 0]
                 ELSE OutputCell(tx_db[o.hash], o.index)

Found(o) == o.hash = 0 \/ o.hash \in DOMAIN tx_db

(* UPDATE addressinfo for an input; nothing for the virtual address.       *)
input_transaction_mysql(address, value) ==
    IF address = Coinbase \/ address \notin DOMAIN addressinfo
    THEN UNCHANGED addressinfo
    ELSE addressinfo' = [addressinfo EXCEPT
             ![address].inval = @ + value,
             ![address].bal = addressinfo[address].outval - (addressinfo[address].inval + value),
             ![address].incnt = @ + 1]

Input == /\ step = "inputs"
         /\ k <= Len(tx.ins)
         /\ LET preout == ReadOutput(tx.ins[k])
            IN /\ preouts' = Append(preouts, preout)
               /\ input_transaction_mysql(preout.addr, preout.val)
         /\ k' = k + 1
         /\ UNCHANGED <<chain, pos, step, outvalue_sum, tx_db, txinfo, entityinfo, evars>>

Addresses(outs) == [i \in DOMAIN outs |-> outs[i].addr]

InputsRead == /\ step = "inputs"
              /\ k > Len(tx.ins)
              /\ E!TakeVectors(Addresses(preouts), Addresses(tx.outs))
              /\ step' = "input_entity"
              /\ UNCHANGED <<chain, pos, k, preouts, outvalue_sum, tx_db, addressinfo,
                             txinfo, entityinfo>>

(* The merged entities lose their rows of entityinfo.                      *)
InputEntity == /\ step = "input_entity"
               /\ E!input_entity_mysql
               /\ entityinfo' = Restrict(entityinfo, DOMAIN addcnt')
               /\ step' = "outputs"
               /\ k' = 1
               /\ UNCHANGED <<chain, pos, preouts, outvalue_sum, tx_db, addressinfo, txinfo>>
-----------------------------------------------------------------------------
(* INSERT ... ON DUPLICATE KEY UPDATE for an output, then maxbal.          *)
NewRow(value) == [inval |-> 0, outval |-> value, bal |-> value, maxbal |-> value,
                  incnt |-> 0, outcnt |-> OutcntDefault]

(* [Mutant: bal is computed before outval is increased.]                   *)
PaidRow_Mutant(row, value) ==
    LET bal == row.outval - row.inval
    IN [row EXCEPT !.outval = @ + value, !.bal = bal, !.outcnt = @ + 1,
                   !.maxbal = IF bal > @ THEN bal ELSE @]
PaidRow(row, value) ==
    LET bal == row.outval + value - row.inval
    IN [row EXCEPT !.outval = @ + value, !.bal = bal, !.outcnt = @ + 1,
                   !.maxbal = IF bal > @ THEN bal ELSE @]

output_transaction_mysql(address, value) ==
    IF address \in DOMAIN addressinfo
    THEN /\ addressinfo' = [addressinfo EXCEPT ![address] = PaidRow(@, value)]
         /\ UNCHANGED evars
    ELSE /\ addressinfo' = [a \in DOMAIN addressinfo \cup {address} |->
                              IF a = address THEN NewRow(value) ELSE addressinfo[a]]
         /\ E!InsertRow(address)

(* [Mutant: the loop stops before the last output.]                        *)
MoreOutputs_Mutant == k < Len(tx.outs)
MoreOutputs == k <= Len(tx.outs)

Output == /\ step = "outputs"
          /\ MoreOutputs
          /\ outvalue_sum' = outvalue_sum + tx.outs[k].val
          /\ output_transaction_mysql(tx.outs[k].addr, tx.outs[k].val)
          /\ k' = k + 1
          /\ UNCHANGED <<chain, pos, step, preouts, tx_db, txinfo, entityinfo>>

OutputsWritten == /\ step = "outputs"
                  /\ ~ MoreOutputs
                  /\ E!CallOutputEntity
                  /\ step' = "output_entity"
                  /\ UNCHANGED <<chain, pos, k, preouts, outvalue_sum, tx_db, addressinfo,
                                 txinfo, entityinfo>>

(* The row of a new entity has every aggregate at its default.             *)
OutputEntity == /\ step = "output_entity"
                /\ E!output_entity_mysql
                /\ entityinfo' = [e \in DOMAIN addcnt' |->
                                    IF e \in DOMAIN entityinfo THEN entityinfo[e]
                                    ELSE [c \in Columns |-> 0]]
                /\ step' = IF stage' = "ready" THEN "put" ELSE step
                /\ UNCHANGED <<chain, pos, k, preouts, outvalue_sum, tx_db, addressinfo, txinfo>>

Put == /\ step = "put"
       /\ tx_db' = [h \in DOMAIN tx_db \cup {pos + 1} |->
                      IF h = pos + 1 THEN Record(preouts, tx.outs) ELSE tx_db[h]]
       /\ step' = "txinfo"
       /\ UNCHANGED <<chain, pos, k, preouts, outvalue_sum, addressinfo, txinfo, entityinfo, evars>>

(* The txinfo row: a reward has no input value, so its output value stands *)
(* for it and its fee is 0.                                                *)
InfoRow(invalue, outvalue) ==
    LET in == IF outvalue > invalue THEN outvalue ELSE invalue
    IN [invalue |-> in, outvalue |-> outvalue, fee |-> in - outvalue]

Transaction2MySQL ==
    /\ step = "txinfo"
    /\ txinfo' = [h \in DOMAIN txinfo \cup {pos + 1} |->
                    IF h \in DOMAIN txinfo THEN txinfo[h]
                    ELSE InfoRow(SumSeq(preouts), outvalue_sum)]
    /\ pos' = pos + 1
    /\ step' = "next"
    /\ UNCHANGED <<chain, k, preouts, outvalue_sum, tx_db, addressinfo, entityinfo, evars>>

(* update_entity_mysql at the end of a month, all summed columns.          *)
MemberSum(e, c) == Sum(LAMBDA a : addressinfo[a][c], E!Members(e))

MonthEnd == /\ step = "next"
            /\ E!update_entity_mysql
            /\ entityinfo' = [e \in DOMAIN entityinfo |->
                                IF e \in entitychange_v THEN [c \in Columns |-> MemberSum(e, c)]
                                ELSE entityinfo[e]]
            /\ UNCHANGED <<chain, pos, step, k, preouts, outvalue_sum, tx_db, addressinfo, txinfo>>

Next == \/ \E t \in Transactions : Extend(t)
        \/ StartTransaction
        \/ Input \/ InputsRead \/ InputEntity
        \/ Output \/ OutputsWritten \/ OutputEntity
        \/ Put \/ Transaction2MySQL
        \/ MonthEnd

Spec == Init /\ [][Next]_vars
-----------------------------------------------------------------------------
(* The chain position, the rows of the tables and the stage have their     *)
(* types; amounts and counts never go below zero.                          *)
TypeOK == /\ pos \in 0..Len(chain)
          /\ step \in {"next", "inputs", "input_entity", "outputs", "output_entity", "put", "txinfo"}
          /\ DOMAIN addressinfo \subseteq Address
          /\ \A a \in DOMAIN addressinfo : addressinfo[a] \in [Columns -> Nat]
          /\ DOMAIN entityinfo = DOMAIN addcnt
          /\ DOMAIN addressinfo = DOMAIN entity
          /\ DOMAIN tx_db \subseteq 1..Len(chain)
          /\ \A h \in DOMAIN txinfo : txinfo[h].fee \in Nat

Settled == step = "next"

HeldBy(a, n) == Sum(LAMBDA o : OutputAt(o).val, {o \in Unspent(n) : OutputAt(o).addr = a})

(* Between transactions the balance of every address is the value of its   *)
(* unspent outputs, and every holder of one has a row.                     *)
BalanceIsUnspent ==
    Settled => /\ \A a \in DOMAIN addressinfo : addressinfo[a].bal = HeldBy(a, pos)
               /\ {OutputAt(o).addr : o \in Unspent(pos)} \subseteq DOMAIN addressinfo

(* maxbal is the highest balance that the address had between two          *)
(* transactions: change that returns to a spender does not raise it,       *)
(* because the inputs are booked before the outputs.                       *)
PeakBalance == Settled => \A a \in DOMAIN addressinfo :
    /\ \E n \in 0..pos : addressinfo[a].maxbal = HeldBy(a, n)
    /\ \A n \in 0..pos : addressinfo[a].maxbal >= HeldBy(a, n)

(* No coin is lost between the tables: the balances and the fees of all    *)
(* transactions add up to the block rewards.                               *)
CoinsAddUp ==
    Settled => Sum(LAMBDA a : addressinfo[a].bal, DOMAIN addressinfo)
                 + Sum(LAMBDA h : txinfo[h].fee, DOMAIN txinfo)
               = Sum(LAMBDA h : SumSeq(chain[h].outs), {h \in 1..pos : IsReward(chain[h])})

(* Every input of the current transaction is found in LevelDB, with the    *)
(* address and value of the output that it spends.                         *)
InputsFound == step = "inputs" =>
    \A i \in DOMAIN tx.ins : /\ Found(tx.ins[i])
                             /\ tx.ins[i].hash # 0 => ReadOutput(tx.ins[i]) = OutputAt(tx.ins[i])

(* The columns that spending changes are right in every entityinfo row     *)
(* that is not queued for the monthly update.                              *)
SpendingIsQueued ==
    Settled => \A e \in DOMAIN entityinfo \ entitychange_v, c \in {"inval", "incnt"} :
                  entityinfo[e][c] = MemberSum(e, c)

(* What the tables say of the chain that was read.                         *)
LedgerIsRight == /\ TypeOK
                 /\ BalanceIsUnspent
                 /\ PeakBalance
                 /\ CoinsAddUp
                 /\ InputsFound
                 /\ SpendingIsQueued

(* After the monthly update every aggregate of every entity is right: what *)
(* "record the affected entity" (EntityProcess.h, line 229) promises.      *)
AggregatesFresh ==
    Settled => \A e \in DOMAIN entityinfo \ entitychange_v, c \in Columns :
                  entityinfo[e][c] = MemberSum(e, c)

(* The ledger keeps what the clustering assumes of its callers: it is an   *)
(* EntityProcess whose input addresses all have rows.                      *)
KeepsEntityContract == E!Spec
=============================================================================
