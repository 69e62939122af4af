---------------------------- MODULE BlockParse ----------------------------
(***************************************************************************)
(* The loop of unzipBlocks over the transactions of one block, with the    *)
(* read functions of block.h: a cursor, transPos, walks through the bytes  *)
(* transSec of the transactions of the block.                              *)
(*                                                                         *)
(* A byte is a digit in base Base (256 in the program), and the widths of  *)
(* the fields are constants, so that a count, a script length and an       *)
(* amount reach the limits of their encodings in a small model.            *)
(***************************************************************************)
EXTENDS Integers, Sequences, SequencesExt

CONSTANTS
    Base,            \* values of a byte: 256
    U16, U32, U64,   \* bytes of the integers of the format: 2, 4, 8
    HashLen,         \* bytes of a hash: 32
    Blocks,          \* the blocks of the block file, as sequences of transactions
    Heights,         \* the numbers that a block may have
    Halving,         \* 210000, the first block with the smaller subsidy
    Subsidy,         \* 50 BTC, paid for the blocks before it
    HalfSubsidy,     \* 25 BTC
    FirstCounter,    \* the counter of the first transaction of the block
    Unprocessed      \* 142783 and 142841, the counters that are passed over

VARIABLES
    block, blocknumber,   \* what the file holds
    transSec,             \* the bytes read from the file into memory
    pc, transPos,         \* the next step and the cursor
    trans_count, k,       \* transactions announced, transactions started
    tx,                   \* the transaction under construction
    txcounter, sumoutvalue, blockReward,
    processed             \* the calls of TransactionProcess, in order

vars == <<block, blocknumber, transSec, pc, transPos, trans_count, k, tx, txcounter,
          sumoutvalue, blockReward, processed>>

(***************************************************************************)
(* The format of the block files, external to the program.                 *)
(***************************************************************************)
LittleEndian(v, w) == [n \in 1..w |-> (v \div Base^(n - 1)) % Base]

VarInt(v) ==
    IF v < Base - 3 THEN <<v>>
    ELSE IF v < Base^U16 THEN <<Base - 3>> \o LittleEndian(v, U16)
    ELSE <<Base - 2>> \o LittleEndian(v, U32)

InputBytes(in) ==
    LittleEndian(in.hash, HashLen) \o LittleEndian(in.index, U32)
    \o VarInt(Len(in.script)) \o in.script \o LittleEndian(in.seq, U32)
OutputBytes(out) ==
    LittleEndian(out.val, U64) \o VarInt(Len(out.script)) \o out.script
TxBytes(t) ==
    LittleEndian(t.ver, U32)
    \o VarInt(Len(t.ins)) \o FlattenSeq([i \in DOMAIN t.ins |-> InputBytes(t.ins[i])])
    \o VarInt(Len(t.outs)) \o FlattenSeq([i \in DOMAIN t.outs |-> OutputBytes(t.outs[i])])
    \o LittleEndian(t.lock_time, U32)
TransSec(b) == VarInt(Len(b)) \o FlattenSeq([i \in DOMAIN b |-> TxBytes(b[i])])

(***************************************************************************)
(* block.h: the value at a position; the cursor moves by the width read.   *)
(***************************************************************************)
Read(pos, w) == LET V[n \in 0..w] ==
                        IF n = 0 THEN 0 ELSE V[n - 1] + transSec[pos + n] * Base^(n - 1)
                IN V[w]
ReadBuffer(pos, len) == SubSeq(transSec, pos + 1, pos + len)

\* [Mutant: the two-byte form is read as one byte.]
readVarLen_Mutant(pos) ==
    LET v == Read(pos, 1)
    IN IF v < Base - 3 THEN [val |-> v, pos |-> pos + 1]
       ELSE IF v = Base - 3 THEN [val |-> Read(pos + 1, 1), pos |-> pos + 2]
       ELSE IF v = Base - 2 THEN [val |-> Read(pos + 1, U32), pos |-> pos + 1 + U32]
       ELSE [val |-> 0, pos |-> pos + 1]
\* The last form, of eight bytes, is not read: the result is 0 ("return
\* false") and the cursor stays behind the first byte.
readVarLen(pos) ==
    LET v == Read(pos, 1)
    IN IF v < Base - 3 THEN [val |-> v, pos |-> pos + 1]
       ELSE IF v = Base - 3 THEN [val |-> Read(pos + 1, U16), pos |-> pos + 1 + U16]
       ELSE IF v = Base - 2 THEN [val |-> Read(pos + 1, U32), pos |-> pos + 1 + U32]
       ELSE [val |-> 0, pos |-> pos + 1]

-----------------------------------------------------------------------------
Init ==
    /\ block \in Blocks
    /\ blocknumber \in Heights
    /\ transSec = TransSec(block)
    /\ pc = "count" /\ transPos = 0 /\ trans_count = 0 /\ k = 0
    /\ tx = <<>> /\ txcounter = FirstCounter
    /\ sumoutvalue = 0 /\ blockReward = 0
    /\ processed = <<>>

ReadCount ==
    /\ pc = "count"
    /\ LET c == readVarLen(transPos)
       IN trans_count' = c.val /\ transPos' = c.pos
    /\ pc' = "tx"
    /\ UNCHANGED <<block, blocknumber, transSec, k, tx, txcounter, sumoutvalue,
                   blockReward, processed>>

\* The head of a transaction: its numbers, the version and the input count.
StartTx ==
    /\ pc = "tx" /\ k < trans_count
    /\ LET c == readVarLen(transPos + U32)
       IN /\ tx' = [txnumber |-> k, txcounter |-> txcounter, start |-> transPos,
                    ver |-> Read(transPos, U32), in_count |-> c.val,
                    ins |-> <<>>, outs |-> <<>>]
          /\ transPos' = c.pos
    /\ k' = k + 1 /\ txcounter' = txcounter + 1
    /\ pc' = "ins"
    /\ UNCHANGED <<block, blocknumber, transSec, trans_count, sumoutvalue, blockReward, processed>>

ReadInput ==
    /\ pc = "ins" /\ Len(tx.ins) < tx.in_count
    /\ LET afterHash == transPos + HashLen
           len == readVarLen(afterHash + U32)
           afterScript == len.pos + len.val
       IN /\ tx' = [tx EXCEPT !.ins = Append(@,
                      [hash |-> Read(transPos, HashLen), index |-> Read(afterHash, U32),
                       script |-> ReadBuffer(len.pos, len.val),
                       seq |-> Read(afterScript, U32)])]
          /\ transPos' = afterScript + U32
    /\ UNCHANGED <<block, blocknumber, transSec, pc, trans_count, k, txcounter, sumoutvalue,
                   blockReward, processed>>

ReadOutCount ==
    /\ pc = "ins" /\ Len(tx.ins) = tx.in_count
    /\ LET c == readVarLen(transPos)
       IN tx' = tx @@ [out_count |-> c.val] /\ transPos' = c.pos
    /\ sumoutvalue' = 0
    /\ pc' = "outs"
    /\ UNCHANGED <<block, blocknumber, transSec, trans_count, k, txcounter, blockReward, processed>>

\* Only the outputs of the first transaction of the block are added.
Claimed(val) ==
    IF tx.txnumber = 0 THEN (sumoutvalue + val) % Base^U64 ELSE sumoutvalue

ReadOutput ==
    /\ pc = "outs" /\ Len(tx.outs) < tx.out_count
    /\ LET val == Read(transPos, U64)
           len == readVarLen(transPos + U64)
       IN /\ sumoutvalue' = Claimed(val)
          /\ tx' = [tx EXCEPT !.outs = Append(@,
                      [val |-> val, script |-> ReadBuffer(len.pos, len.val)])]
          /\ transPos' = len.pos + len.val
    /\ UNCHANGED <<block, blocknumber, transSec, pc, trans_count, k, txcounter, blockReward, processed>>

\* The difference of two unsigned numbers.
Reward(number, claimed) ==
    (claimed - (IF number < Halving THEN Subsidy ELSE HalfSubsidy)) % Base^U64

\* The bytes from which twiceSHA256 computes the hash of the transaction.
Hashed(t, end) == [first |-> t.start, length |-> end - t.start]

EndTx ==
    /\ pc = "outs" /\ Len(tx.outs) = tx.out_count
    /\ LET end == transPos + U32
           done == [number |-> tx.txnumber, counter |-> tx.txcounter,
                    hashed |-> Hashed(tx, end),
                    content |-> [ver |-> tx.ver, ins |-> tx.ins, outs |-> tx.outs,
                                 lock_time |-> Read(transPos, U32)]]
       IN /\ transPos' = end
          /\ processed' = IF tx.txcounter \in Unprocessed THEN processed
                          ELSE Append(processed, done)
    /\ blockReward' = IF tx.txnumber = 0 THEN Reward(blocknumber, sumoutvalue)
                      ELSE blockReward
    /\ tx' = <<>>
    /\ pc' = "tx"
    /\ UNCHANGED <<block, blocknumber, transSec, trans_count, k, txcounter, sumoutvalue>>

EndBlock ==
    /\ pc = "tx" /\ k = trans_count
    /\ pc' = "done"
    /\ UNCHANGED <<block, blocknumber, transSec, transPos, trans_count, k, tx, txcounter,
                   sumoutvalue, blockReward, processed>>

Next == ReadCount \/ StartTx \/ ReadInput \/ ReadOutCount \/ ReadOutput \/ EndTx \/ EndBlock

Spec == Init /\ [][Next]_vars

-----------------------------------------------------------------------------
(* The byte of transSec at which the n-th transaction of the block begins. *)
TxOffset(n) == Len(VarInt(Len(block))) + Len(FlattenSeq([i \in 1..(n - 1) |-> TxBytes(block[i])]))

(* A transaction that is handed to TransactionProcess has the contents,    *)
(* the numbers and the hashed bytes of the transaction of the file at its  *)
(* place, and when the block is done only the unprocessed ones are missing *)
(* and every byte was consumed: no count or length was misread on the way. *)
ParsedAsWritten ==
    /\ \A p \in Range(processed) :
          LET n == p.number + 1
          IN /\ p.content = block[n]
             /\ p.counter = FirstCounter + p.number
             /\ p.hashed = [first |-> TxOffset(n), length |-> Len(TxBytes(block[n]))]
    /\ pc = "done" =>
          /\ transPos = Len(transSec)
          /\ [i \in DOMAIN processed |-> processed[i].counter] =
                SelectSeq([n \in DOMAIN block |-> FirstCounter + n - 1],
                          LAMBDA c : c \notin Unprocessed)

CoinbaseValue == FoldSeq(LAMBDA o, s : o.val + s, 0, block[1].outs)
BlockSubsidy == IF blocknumber < Halving THEN Subsidy ELSE HalfSubsidy

(* When a block is done its reward column is what the first transaction of *)
(* the block pays above the subsidy, for a block that claims at least the  *)
(* subsidy.                                                                *)
RewardIsFees ==
    pc = "done" /\ CoinbaseValue >= BlockSubsidy =>
        blockReward = CoinbaseValue - BlockSubsidy
=============================================================================
