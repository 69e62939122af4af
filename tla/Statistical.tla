---------------------------- MODULE Statistical ----------------------------
(***************************************************************************)
(* statistical (Statistical.h): the monthly report on the four tables.     *)
(*                                                                         *)
(* A table is a function from keys to rows.  A row has the columns that    *)
(* the queries tell apart: the amounts outval (outvalue in txinfo), bal    *)
(* and maxbal in units of 0.01 BTC, the finest bound of a distribution;    *)
(* the counts addcnt and txcnt (incnt + outcnt); txsize; and firsttm and   *)
(* lasttm, which are both the row's own time in txinfo and blkinfo.        *)
(* Of an aggregate (avg, stddev_pop, max, min) the model only says whether *)
(* it is NULL.  Statistical.h is GBK-encoded; comments of it are quoted in *)
(* translation.                                                            *)
(***************************************************************************)
EXTENDS Integers, Sequences, FiniteSets, SequencesExt

CONSTANTS
    Databases,     \* the contents of the tables that the report may meet
    before,        \* BEFORE: addresses idle since then are "stopped"
    after,         \* AFTER: the start of the month
    RangeCount     \* rounds of the tx_amount and tx_size loops (71)

VARIABLES
    db,            \* the tables
    next,          \* the number of the next section
    record,        \* the output stream: its file and its failbit
    report,        \* file -> the lines written to it
    crashed        \* strcpy met a NULL result

vars == <<db, next, record, report, crashed>>

Closed == "none"
Month == "timerange.txt"
TxAmount == "tx-amount-2.txt"
TxSize == "tx-size-2.txt"
OutFiles == {Month, TxAmount, TxSize}
-----------------------------------------------------------------------------
(* The WHERE clauses: the keys of the rows that a query selects.           *)
All(table) == DOMAIN db[table]
Stopped(table) == {key \in All(table) : db[table][key].lasttm < before}
NotStopped(table) == {key \in All(table) : db[table][key].lasttm > before}
Active(table) == {key \in All(table) : db[table][key].lasttm > after}
New(table) == {key \in All(table) : db[table][key].firsttm > after}
\* Empty: before is a day of an earlier month than after.
InRange(table) == {key \in All(table) : /\ db[table][key].lasttm >= after
                                         /\ db[table][key].lasttm < before}

(* One cell of a line.  A count and IFNULL(sum(..), 0) are numbers; avg,   *)
(* stddev_pop, max and min of no rows are NULL, which strcpy cannot copy.  *)
(* Number stands for whatever an aggregate of some rows comes to.          *)
Null == -1
Number == 0
Count(keys) == Cardinality(keys)
Aggregate(keys) == IF keys = {} THEN Null ELSE Number
Aggregates(n, keys) == [i \in 1..n |-> Aggregate(keys)]

(* Sections 1 to 8: the cells of their lines.                              *)
Totals(table) == <<Count(All(table)), Count(Stopped(table)), Count(Active(table))>>
address == Totals("addressinfo") \o Aggregates(24, All("addressinfo")) \o <<Number>>
new_add == <<Count(New("addressinfo"))>> \o Aggregates(20, New("addressinfo"))
unstop_add == <<Count(NotStopped("addressinfo"))>> \o Aggregates(24, NotStopped("addressinfo"))
entity == Totals("entityinfo") \o Aggregates(28, All("entityinfo"))
new_entity == <<Count(New("entityinfo"))>> \o Aggregates(24, New("entityinfo"))
unstop_entity == <<Count(NotStopped("entityinfo"))>> \o Aggregates(28, NotStopped("entityinfo"))
transaction == <<Count(All("txinfo")), Count(New("txinfo"))>> \o Aggregates(20, New("txinfo"))
block == <<Count(All("blkinfo")), Count(New("blkinfo"))>> \o Aggregates(16, New("blkinfo"))
-----------------------------------------------------------------------------
(* The distributions: sets of buckets, which are pairs of bounds, [lo, hi). *)
(* The code writes out the two bounds of every bucket; Steps are those of  *)
(* equal width that follow one another.                                    *)
Top == 2147483647
Steps(lo, hi, width) == {<<lo + width * i, lo + width * (i + 1)>> : i \in 0..((hi - lo) \div width - 1)}

Coin == 100     \* units in one BTC
(* [Mutant: a bound is mistyped, as one of tx_amount is.]                  *)
CoinBuckets_Mutant ==
    Steps(Coin, 10 * Coin, Coin) \cup Steps(10 * Coin, 100 * Coin, 10 * Coin)
    \cup {<<100 * Coin, 980 * Coin>>}
    \cup Steps(1000 * Coin, 10000 * Coin, 1000 * Coin)
    \cup Steps(10000 * Coin, 100000 * Coin, 10000 * Coin)
    \cup Steps(100000 * Coin, 1000000 * Coin, 100000 * Coin) \cup {<<1000000 * Coin, Top>>}
CoinBuckets ==
    Steps(Coin, 10 * Coin, Coin) \cup Steps(10 * Coin, 100 * Coin, 10 * Coin)
    \cup {<<100 * Coin, 1000 * Coin>>}
    \cup Steps(1000 * Coin, 10000 * Coin, 1000 * Coin)
    \cup Steps(10000 * Coin, 100000 * Coin, 10000 * Coin)
    \cup Steps(100000 * Coin, 1000000 * Coin, 100000 * Coin) \cup {<<1000000 * Coin, Top>>}

AddcntBuckets ==
    Steps(1, 10, 1) \cup Steps(10, 100, 10) \cup Steps(100, 500, 100) \cup {<<500, 1000>>}
    \cup Steps(1000, 5000, 1000)
    \cup {<<5000, 10000>>, <<10000, 50000>>, <<50000, 100000>>, <<100000, Top>>}
OutvalBuckets == {<<0, Coin>>} \cup CoinBuckets
BalBuckets == {<<0, 1>>, <<1, 10>>} \cup Steps(10, 100, 10) \cup CoinBuckets
TxcntBuckets ==
    Steps(1, 10, 1) \cup {<<10, 100>>} \cup Steps(100, 1000, 100)
    \cup {<<1000, 5000>>, <<5000, 10000>>, <<10000, 50000>>, <<50000, 100000>>,
           <<100000, 500000>>, <<500000, Top>>}
\* No bucket has the amounts from 400 to 420.
tx_amount == Steps(320 * Coin, 400 * Coin, 20 * Coin) \cup Steps(420 * Coin, 600 * Coin, 20 * Coin)
             \cup {<<600 * Coin, Top>>}
tx_size == Steps(0, 4096, 128) \cup {<<4096, Top>>}

InBucket(value, bucket) == bucket[1] <= value /\ value < bucket[2]
Distribution(table, keys, column, buckets) ==
    [bucket \in buckets |->
        Count({key \in keys : InBucket(db[table][key][column], bucket)})]

NumOfAddOfEntity == Distribution("entityinfo", All("entityinfo"), "addcnt", AddcntBuckets)
OutvalOfAdd == Distribution("addressinfo", All("addressinfo"), "outval", OutvalBuckets)
OutvalOfEntity == Distribution("entityinfo", All("entityinfo"), "outval", OutvalBuckets)
BalOfAdd == Distribution("addressinfo", All("addressinfo"), "bal", BalBuckets)
BalOfEntity == Distribution("entityinfo", All("entityinfo"), "bal", BalBuckets)
MaxbalOfAdd == Distribution("addressinfo", All("addressinfo"), "maxbal", BalBuckets)
MaxbalOfEntity == Distribution("entityinfo", All("entityinfo"), "maxbal", BalBuckets)
TxcntOfAdd == Distribution("addressinfo", All("addressinfo"), "txcnt", TxcntBuckets)
TxcntOfEntity == Distribution("entityinfo", All("entityinfo"), "txcnt", TxcntBuckets)
OutvalOfTx == Distribution("txinfo", New("txinfo"), "outval", OutvalBuckets)
(* The queries TxfeeOfTX are built, but MaxbalOfAdd is sent again.         *)
TxfeeOfTX == MaxbalOfAdd

(* The lines of the month's file, in the order of the code.                *)
LineCount == 19
Line(n) == CASE n = 1 -> address       [] n = 2 -> new_add
             [] n = 3 -> unstop_add    [] n = 4 -> entity
             [] n = 5 -> new_entity    [] n = 6 -> unstop_entity
             [] n = 7 -> transaction   [] n = 8 -> block
             [] n = 9 -> NumOfAddOfEntity
             [] n = 10 -> OutvalOfAdd  [] n = 11 -> OutvalOfEntity
             [] n = 12 -> BalOfAdd     [] n = 13 -> BalOfEntity
             [] n = 14 -> MaxbalOfAdd  [] n = 15 -> MaxbalOfEntity
             [] n = 16 -> TxcntOfAdd   [] n = 17 -> TxcntOfEntity
             [] n = 18 -> OutvalOfTx   [] n = 19 -> TxfeeOfTX

(* The stream.  Opening it while it is open fails and sets the failbit,    *)
(* a successful open clears it, and while it is set nothing is written.    *)
Open(file) == IF record.file = Closed THEN [file |-> file, fail |-> FALSE]
              ELSE [record EXCEPT !.fail = TRUE]
Close(stream) == [stream EXCEPT !.file = Closed]
Written(stream, lines) == IF stream.fail THEN report
                          ELSE [report EXCEPT ![stream.file] = @ \o lines]

Init == /\ db \in Databases
        /\ next = 0
        /\ record = [file |-> Closed, fail |-> FALSE]
        /\ report = [f \in OutFiles |-> <<>>]
        /\ crashed = FALSE

OpenReport == /\ next = 0
              /\ record' = Open(Month)
              /\ next' = 1
              /\ UNCHANGED <<db, report, crashed>>

(* strcpy needs a result.                                                  *)
Copied(line) == \A i \in DOMAIN line : line[i] # Null

(* A section: its line is written cell by cell; at a NULL the program ends *)
(* and the line stays unfinished.                                          *)
Section == /\ next \in 1..LineCount
           /\ ~ crashed
           /\ \E line \in {Line(next)} :
                 IF Copied(line)
                 THEN /\ report' = Written(record, <<line>>)
                      /\ next' = next + 1
                      /\ UNCHANGED crashed
                 ELSE crashed' = TRUE /\ UNCHANGED <<next, report>>
           /\ UNCHANGED <<db, record>>

(* The tx_amount and tx_size loops, a file each; the month's file is still *)
(* open when the first of them opens its own.                              *)
Rounds(line) == [i \in 1..RangeCount |-> line]
AmountLoop == /\ next = LineCount + 1
              /\ LET stream == Open(TxAmount)
                 IN /\ report' = Written(stream,
                             Rounds(Distribution("txinfo", InRange("txinfo"), "outval", tx_amount)))
                    /\ record' = Close(stream)
              /\ next' = next + 1
              /\ UNCHANGED <<db, crashed>>

SizeLoop == /\ next = LineCount + 2
            /\ LET stream == Open(TxSize)
               IN /\ report' = Written(stream,
                           Rounds(Distribution("txinfo", InRange("txinfo"), "txsize", tx_size)))
                  /\ record' = Close(stream)
            /\ next' = next + 1
            /\ UNCHANGED <<db, crashed>>

Next == OpenReport \/ Section \/ AmountLoop \/ SizeLoop

Spec == Init /\ [][Next]_vars /\ WF_vars(Next)
-----------------------------------------------------------------------------
Done == next = LineCount + 3

Lines == report[Month]
Total(line) == FoldFunction(+, 0, line)
Booked(table, column) == {key \in All(table) : db[table][key][column] >= 1}

(* No row is missed and none counted twice: the buckets of every address,  *)
(* entity and transaction distribution of the month (lines 573 to 1264)    *)
(* add up to the number of rows that the earlier sections report. The      *)
(* distributions of counts begin with 1: a row that has no transaction, or *)
(* no address, is not in them, and every other row is.                     *)
RowsCountedOnce ==
    /\ \A n \in {10, 12, 14} : Len(Lines) >= n => Total(Lines[n]) = Lines[1][1]
    /\ \A n \in {11, 13, 15} : Len(Lines) >= n => Total(Lines[n]) = Lines[4][1]
    /\ Len(Lines) >= 18 => Total(Lines[18]) = Lines[7][2]
    /\ Len(Lines) >= 9 => Total(Lines[9]) = Count(Booked("entityinfo", "addcnt"))
    /\ Len(Lines) >= 16 => Total(Lines[16]) = Count(Booked("addressinfo", "txcnt"))
    /\ Len(Lines) >= 17 => Total(Lines[17]) = Count(Booked("entityinfo", "txcnt"))

(* statistical returns, having written every line of the month, when the   *)
(* month has a new row in each of the four tables; otherwise an aggregate  *)
(* of sections 2, 5, 7 or 8 is NULL.                                       *)
Finishes == (\A table \in DOMAIN db : New(table) # {}) =>
                <>(Done /\ Len(Lines) = LineCount /\ Len(report[TxSize]) = RangeCount)
=============================================================================
