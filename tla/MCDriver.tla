------------------------------ MODULE MCDriver ------------------------------
(***************************************************************************)
(* The parts of the analysis program's main loop, side by side: a          *)
(* behaviour is one of a single part, the others rest.                     *)
(*   "months"   UnzipBlocks on three files; block times go back, a file is *)
(*              empty, and a month ends inside a file, at the end of one   *)
(*              and after the last block                                   *)
(*   "restart"  Restart on chains of four transactions in two months and   *)
(*              on three addresses; a transaction spends from addresses    *)
(*              that were paid before, or is a block reward                *)
(*   "report"   Statistical on tables of one or two rows, which take every *)
(*              bound of a distribution and its neighbours, and every      *)
(*              order of a row's times with those of the month             *)
(***************************************************************************)
EXTENDS UnzipBlocks, Folds

CONSTANTS Parts, a, b, c, MaxTorn, before, after, RangeCount
VARIABLES part,
          chain, saved, booked, entity, entityinfo, store, rpc, month,
          nexttx, i, entitycnt, todo, dirty, kills, torn,
          db, next, record, report, crashed

driverVars == vars
restartVars == <<chain, saved, booked, entity, entityinfo, store, rpc, month,
                 nexttx, i, entitycnt, todo, dirty, kills, torn>>
reportVars == <<db, next, record, report, crashed>>
-----------------------------------------------------------------------------
BlockOf(size, ntx, time) == [size |-> size, ntx |-> ntx, time |-> time]
MCBlocks == [f \in 0..2 |->
    CASE f = 0 -> <<BlockOf(100, 1, 1), BlockOf(120, 2, 3), BlockOf(90, 1, 2)>>
      [] f = 1 -> <<>>
      [] f = 2 -> <<BlockOf(110, 1, 4), BlockOf(81, 3, 6)>>]
MCStops == <<2, 3, 5, 7, 8>>

(* What lies before the n-th block of file f, in bytes, blocks or          *)
(* transactions.                                                           *)
Sum(S, weight(_)) == MapThenFoldSet(LAMBDA x, y : x + y, 0, weight,
                                    LAMBDA T : CHOOSE x \in T : TRUE, S)
Earlier(f, n) == {<<g, m>> \in (0..2) \X (1..3) :
                     g <= f /\ m <= Len(MCBlocks[g]) /\ (g < f \/ m < n)}
Columns(f) == IF f = 3 THEN 1..1 ELSE 1..(Len(MCBlocks[f]) + 1)
MCOffset == [f \in 0..2 |-> [n \in Columns(f) |->
               Sum({x \in Earlier(f, n) : x[1] = f}, LAMBDA x : MCBlocks[x[1]][x[2]].size + 8)]]
MCHeight == [f \in 0..3 |-> [n \in Columns(f) |-> Cardinality(Earlier(f, n))]]
MCFirstTx == [f \in 0..3 |-> [n \in Columns(f) |->
               Sum(Earlier(f, n), LAMBDA x : MCBlocks[x[1]][x[2]].ntx)]]
-----------------------------------------------------------------------------
MCTx == [ins : {<<>>, <<b, c>>, <<a, b>>}, outs : {<<c>>, <<a, c>>}]
MCFirst == [ins |-> <<>>, outs |-> <<a, b>>]
PaidBefore(ch) == \A t \in DOMAIN ch : \A k \in DOMAIN ch[t].ins :
                     \E u \in 1..(t - 1) : \E l \in DOMAIN ch[u].outs : ch[u].outs[l] = ch[t].ins[k]
MCLast == [ins : {<<b, c>>, <<a, b>>}, outs : {<<c>>}]
MCChains == {ch \in {<<MCFirst, t, u, v>> : t, u \in MCTx, v \in MCLast} : PaidBefore(ch)}
R == INSTANCE Restart WITH Address <- {a, b, c}, Chains <- MCChains, MonthEnds <- <<2, 4>>,
                           resume <- saved, pc <- rpc, next <- nexttx, crashes <- kills
RestartRests == /\ chain = <<MCFirst>> /\ saved = R!Saved(1, 0)
                /\ booked = <<<<0, 0>>>> /\ store = {}
                /\ entity = [x \in {a, b, c} |-> 0] /\ entityinfo = {}
                /\ rpc = "main" /\ month = 1 /\ nexttx = 0 /\ i = 1 /\ entitycnt = 0 /\ todo = <<>>
                /\ dirty = 0 /\ kills = 0 /\ torn = 0
-----------------------------------------------------------------------------
Coin == 100
Amounts == {0, 1, 100 * Coin, 1000000 * Coin}
           \cup {k * n : k \in 1..9, n \in {10, Coin, 10 * Coin, 1000 * Coin, 10000 * Coin, 100000 * Coin}}
           \cup {20 * k * Coin : k \in 16..30}
Counts == {k * n : k \in 1..9, n \in {1, 10, 100}} \cup {128 * k : k \in 0..32}
          \cup {1000, 2000, 3000, 4000, 5000, 10000, 50000, 100000, 500000}
Around(bounds) == UNION {{v - 1, v, v + 1} : v \in bounds}
MCAmounts == Around(Amounts) \ {-1}
MCCounts == Around(Counts) \ {-1}
MCTimes == {before - 1, before, before + 1, after, after + 1}
(* Block times may go back a little from one block to the next.            *)
MCSpans == {t \in MCTimes \X MCTimes : t[2] >= t[1] - 1}
Row(amount, count, firsttm, lasttm) ==
    [outval |-> amount, bal |-> amount, maxbal |-> amount, addcnt |-> count,
     txcnt |-> count, txsize |-> count, firsttm |-> firsttm, lasttm |-> lasttm]
NewRow == Row(Coin, 1, after + 1, after + 1)
Filled(rows) == [addressinfo |-> rows, entityinfo |-> rows, blkinfo |-> rows, txinfo |-> rows \o rows]
MCDatabases ==
    {Filled(<<Row(v, 1, after + 1, after + 1), NewRow>>) : v \in MCAmounts}
    \cup {Filled(<<Row(0, n, before, after), NewRow>>) : n \in MCCounts}
    \cup {Filled(<<Row(Coin, 2, t[1], t[2])>> \o new) : t \in MCSpans, new \in {<<>>, <<NewRow>>}}
S == INSTANCE Statistical WITH Databases <- MCDatabases
ReportRests == /\ db = Filled(<<NewRow>>) /\ next = 0 /\ record = [file |-> "none", fail |-> FALSE]
               /\ report = [f \in S!OutFiles |-> <<>>] /\ crashed = FALSE
-----------------------------------------------------------------------------
MCInit == /\ part \in Parts
          /\ Init
          /\ IF part = "restart" THEN R!Init ELSE RestartRests
          /\ IF part = "report" THEN S!Init ELSE ReportRests
Months == part = "months" /\ Program /\ UNCHANGED <<part, restartVars, reportVars>>
MonthsKilled == part = "months" /\ Restart /\ UNCHANGED <<part, restartVars, reportVars>>
Booking == part = "restart" /\ R!Program /\ UNCHANGED <<part, driverVars, reportVars>>
BookingKilled == part = "restart" /\ R!Kill /\ UNCHANGED <<part, driverVars, reportVars>>
Reporting == part = "report" /\ S!Next /\ UNCHANGED <<part, driverVars, restartVars>>
MCNext == Months \/ MonthsKilled \/ Booking \/ BookingKilled \/ Reporting
allVars == <<part, driverVars, restartVars, reportVars>>
MCSpec == MCInit /\ [][MCNext]_allVars
MCFairSpec == MCSpec /\ WF_allVars(Months) /\ WF_allVars(Booking) /\ WF_allVars(Reporting)
-----------------------------------------------------------------------------
(* Restart: a transaction before the cursor of the resume file is in the   *)
(* ledger and the store, and was booked once and at most once more for     *)
(* each restart that lost unsaved work; what a transaction spends was      *)
(* stored before its inputs are looked up, also when it is processed       *)
(* again; and the addresses that a stored transaction spends from share an *)
(* entity, also after a kill between two of the UPDATEs of a merge.        *)
RestartIsSafe == part = "restart" =>
                     R!BookedPerLoss /\ R!InputsStored /\ R!CospentShareEntity
(* Restart: "the block at which it starts again must skip the part that    *)
(* was already read" (unzipBlocks.h): no transaction is booked twice.      *)
SkipsWhatWasRead == part = "restart" => R!SkipsWhatWasRead
(* Statistical: no row is missed and none counted twice by the buckets of  *)
(* a distribution, whose bounds are written out one by one; rows without a *)
(* transaction, or an address, are in no bucket of the counts.             *)
ReportIsRight == part = "report" => S!RowsCountedOnce
(* The program gets through all its months; every transaction gets into    *)
(* the store although the process is killed a bounded number of times; and *)
(* a month with a new row in each table is reported in full.               *)
Completes == /\ part = "months" => Terminates
             /\ part = "restart" => R!EventuallyStored
             /\ part = "report" => S!Finishes
=============================================================================
