---------------------------- MODULE UnzipBlocks ----------------------------
(***************************************************************************)
(* main (console.cpp) and unzipBlocks: month after month, the block files  *)
(* are read from where the resume file says the last month stopped, up to  *)
(* the first block that is younger than the end of the month.              *)
(*                                                                         *)
(* What survives the process are the database and the resume file          *)
(* 1.unzip_0.txt; the process may be killed between any two steps and be   *)
(* started again, which begins with the first month.                       *)
(***************************************************************************)
EXTENDS Integers, Sequences, FiniteSets

CONSTANTS
    NumFiles,      \* the files blk00000.dat, ... are numbered 0..NumFiles-1
    Blocks,        \* file -> the sequence of its blocks [size, ntx, time]
    Offset,        \* file -> the byte at which its n-th block starts
    Height,        \* file -> the number of blocks before its n-th block
    FirstTx,       \* file -> the number of transactions before its n-th block
    Stops,         \* month -> the last second of the month
    MayFail,       \* the files whose open() may fail
    MaxCrashes     \* bound: how often the process is killed

Files == 0..(NumFiles - 1)
BlockCount(f) == Len(Blocks[f])

(* The block files end to end: each table counts what lies before a block, *)
(* and the entry after the last block of a file is that of the next file.  *)
ASSUME SizesAssumption ==
    /\ NumFiles \in Nat
    /\ MaxCrashes \in Nat
    /\ MayFail \subseteq Files
    /\ Blocks \in [Files -> Seq([size : Nat, ntx : Nat, time : Int])]
    /\ Stops \in Seq(Int)
(* The months of timerange.h follow one another.                           *)
ASSUME StopsAssumption == \A m \in 2..Len(Stops) : Stops[m - 1] <= Stops[m]
ASSUME LayoutAssumption ==
    \A f \in Files :
          /\ Offset[f] \in [1..(BlockCount(f) + 1) -> Nat]
          /\ Offset[f][1] = 0
          /\ \A m, n \in 1..(BlockCount(f) + 1) : m < n => Offset[f][m] < Offset[f][n]
          /\ \A n \in 1..BlockCount(f) :
                Offset[f][n + 1] = Offset[f][n] + Blocks[f][n].size + 8
ASSUME CountsAssumption ==
    /\ Height[0][1] = 0 /\ FirstTx[0][1] = 0
    /\ \A f \in Files :
          /\ Height[f] \in [1..(BlockCount(f) + 1) -> Nat]
          /\ FirstTx[f] \in [1..(BlockCount(f) + 1) -> Nat]
          /\ Height[f + 1][1] = Height[f][BlockCount(f) + 1]
          /\ FirstTx[f + 1][1] = FirstTx[f][BlockCount(f) + 1]
          /\ \A n \in 1..BlockCount(f) :
                /\ Height[f][n + 1] = Height[f][n] + 1
                /\ FirstTx[f][n + 1] = FirstTx[f][n] + Blocks[f][n].ntx

VARIABLES
    pc, para,                  \* the next step, and the month of main's loop
    resume,                    \* 1.unzip_0.txt
    stoptm,                    \* 1.unzip_1.txt
    blkfile_num, blockPos, BlockNum, txcounter, opened,
    blkinfo,                   \* the rows inserted by BlockProcess, in order
    openErrors,                \* the files that the log names "open error"
    crashes

locals == <<blkfile_num, blockPos, BlockNum, txcounter, opened>>
vars == <<pc, para, resume, stoptm, locals, blkinfo, openErrors, crashes>>

Init == /\ pc = "main"
        /\ para = 1
        /\ resume = [BLKFILE |-> 0, BLKPOS |-> 0, BLOCKNUM |-> -1, TXCOUNTER |-> -1]
        /\ stoptm = 0
        /\ blkfile_num = 0 /\ blockPos = 0 /\ BlockNum = 0 /\ txcounter = 0
        /\ opened = FALSE
        /\ blkinfo = <<>>
        /\ openErrors = {}
        /\ crashes = 0
-----------------------------------------------------------------------------
set_parameter == /\ pc = "main"
                 /\ para <= Len(Stops)
                 /\ stoptm' = Stops[para]
                 /\ pc' = "parameter"
                 /\ UNCHANGED <<para, resume, locals, blkinfo, openErrors, crashes>>

(* The number of the first transaction to read.                            *)
FirstTransaction == resume.TXCOUNTER + 1

ReadParameter == /\ pc = "parameter"
                 /\ blkfile_num' = resume.BLKFILE
                 /\ blockPos' = 0
                 /\ BlockNum' = resume.BLOCKNUM + 1
                 /\ txcounter' = FirstTransaction
                 /\ opened' = FALSE
                 /\ pc' = "files"
                 /\ UNCHANGED <<para, resume, stoptm, blkinfo, openErrors, crashes>>

(* Where reading a file starts: the first file where the last run stopped. *)
(* [Mutant: every file is read from its beginning.]                        *)
StartPos_Mutant == 0
StartPos == IF blkfile_num = resume.BLKFILE THEN resume.BLKPOS ELSE 0

OpenFile == /\ pc = "files"
            /\ blkfile_num < NumFiles
            /\ opened' \in (IF blkfile_num \in MayFail THEN BOOLEAN ELSE {TRUE})
            /\ openErrors' = IF opened' THEN openErrors ELSE openErrors \cup {blkfile_num}
            /\ blockPos' = StartPos
            /\ pc' = "blocks"
            /\ UNCHANGED <<para, resume, stoptm, blkfile_num, BlockNum, txcounter,
                           blkinfo, crashes>>

FilesEnd == /\ pc = "files"
            /\ blkfile_num >= NumFiles
            /\ pc' = "save"
            /\ UNCHANGED <<para, resume, stoptm, locals, blkinfo, openErrors, crashes>>

(* peek() finds no byte: the stream did not open or is read to its end.    *)
AtEof == ~ opened \/ blockPos >= Offset[blkfile_num][BlockCount(blkfile_num) + 1]

(* The block whose header is at blockPos.                                  *)
Aligned == \E n \in 1..BlockCount(blkfile_num) : Offset[blkfile_num][n] = blockPos
Here == CHOOSE n \in 1..BlockCount(blkfile_num) : Offset[blkfile_num][n] = blockPos
CurBlock == Blocks[blkfile_num][Here]

CloseFile == /\ pc = "blocks"
             /\ AtEof
             /\ blkfile_num' = blkfile_num + 1
             /\ opened' = FALSE
             /\ pc' = "files"
             /\ UNCHANGED <<para, resume, stoptm, blockPos, BlockNum, txcounter,
                            blkinfo, openErrors, crashes>>

(* difftime(blktm, stoptm_t) > 0.  [Mutant: the last second is left out.]  *)
Younger_Mutant == CurBlock.time >= stoptm
Younger == CurBlock.time > stoptm

(* A block younger than the month ends the loops; it was counted already.  *)
StopAtBlock == /\ pc = "blocks"
               /\ ~ AtEof
               /\ Younger
               /\ BlockNum' = BlockNum + 1
               /\ opened' = FALSE
               /\ pc' = "save"
               /\ UNCHANGED <<para, resume, stoptm, blkfile_num, blockPos, txcounter, blkinfo,
                              openErrors, crashes>>

(* The block's transactions get the next numbers of txcounter, its row of  *)
(* blkinfo gets its number, and the cursor moves behind it.                *)
ProcessBlock == /\ pc = "blocks"
                /\ ~ AtEof
                /\ ~ Younger
                /\ BlockNum' = BlockNum + 1
                /\ txcounter' = txcounter + CurBlock.ntx
                /\ blkinfo' = Append(blkinfo, [blknum |-> BlockNum, firsttx |-> txcounter,
                                               file |-> blkfile_num, n |-> Here])
                /\ blockPos' = blockPos + CurBlock.size + 8
                /\ UNCHANGED <<pc, para, resume, stoptm, blkfile_num, opened,
                               openErrors, crashes>>

(* The resume file is rewritten with the cursor and the last numbers.      *)
(* [Mutant: the block counted in advance is forgotten.]                    *)
Progress_Mutant == [BLKFILE |-> blkfile_num, BLKPOS |-> blockPos,
                    BLOCKNUM |-> BlockNum - 1, TXCOUNTER |-> txcounter - 1]
Progress == [BLKFILE |-> blkfile_num, BLKPOS |-> blockPos,
             BLOCKNUM |-> BlockNum - 2, TXCOUNTER |-> txcounter - 1]
SaveProgress == /\ pc = "save"
                /\ resume' = Progress
                /\ pc' = "statistical"
                /\ UNCHANGED <<para, stoptm, locals, blkinfo, openErrors, crashes>>

(* para++ of main's loop.  [Mutant: forgotten.]                            *)
NextMonth_Mutant == para
NextMonth == para + 1
statistical == /\ pc = "statistical"
               /\ para' = NextMonth
               /\ pc' = "main"
               /\ UNCHANGED <<resume, stoptm, locals, blkinfo, openErrors, crashes>>

(* The process is killed, or has ended, and is started again.              *)
Restart == /\ crashes < MaxCrashes
           /\ crashes' = crashes + 1
           /\ pc' = "main"
           /\ para' = 1
           /\ blkfile_num' = 0 /\ blockPos' = 0 /\ BlockNum' = 0 /\ txcounter' = 0
           /\ opened' = FALSE
           /\ UNCHANGED <<resume, stoptm, blkinfo, openErrors>>

Program == \/ set_parameter \/ ReadParameter \/ OpenFile \/ FilesEnd \/ CloseFile
           \/ StopAtBlock \/ ProcessBlock \/ SaveProgress \/ statistical

Next == Program \/ Restart

Spec == Init /\ [][Next]_vars
FairSpec == Spec /\ WF_vars(Program)
-----------------------------------------------------------------------------
(* The cursor, the resume file and the month counter have their types.     *)
TypeOK == /\ pc \in {"main", "parameter", "files", "blocks", "save", "statistical"}
          /\ para \in 1..(Len(Stops) + 1)
          /\ resume \in [BLKFILE : 0..NumFiles, BLKPOS : Nat, BLOCKNUM : Int, TXCOUNTER : Int]
          /\ stoptm \in Int
          /\ blkfile_num \in 0..NumFiles
          /\ blockPos \in Nat
          /\ BlockNum \in Int
          /\ txcounter \in Nat
          /\ opened \in BOOLEAN
          /\ blkinfo \in Seq([blknum : Int, firsttx : Nat, file : Files, n : Nat \ {0}])
          /\ openErrors \subseteq Files
          /\ crashes \in 0..MaxCrashes

(* Every header is read where a block starts.                              *)
ReadsAligned == pc = "blocks" /\ ~ AtEof => Aligned

(* However often the process was killed and a month read again, the number *)
(* that a block got is its height in the block files, and its transactions *)
(* are numbered from the count of those before it: a block that was read   *)
(* twice got the same numbers twice.                                       *)
NumbersAreHeights == openErrors = {} => \A i \in DOMAIN blkinfo :
    LET row == blkinfo[i]
    IN row.blknum = Height[row.file][row.n] /\ row.firsttx = FirstTx[row.file][row.n]

(* Without restarts no block is read twice or left out: the i-th row of    *)
(* blkinfo is the block of height i - 1.                                   *)
EachBlockOnce == crashes = 0 /\ openErrors = {} =>
    \A i \in DOMAIN blkinfo : Height[blkinfo[i].file][blkinfo[i].n] = i - 1

BeforeCursor(f, n) == f < resume.BLKFILE \/ (f = resume.BLKFILE /\ Offset[f][n] < resume.BLKPOS)
Recorded(f, n) == \E i \in DOMAIN blkinfo : blkinfo[i].file = f /\ blkinfo[i].n = n

(* The resume file never runs ahead of the database: every block before    *)
(* its cursor has a row, or lies in a file whose failed open was logged.   *)
NothingSkipped == \A f \in Files : \A n \in 1..BlockCount(f) :
    BeforeCursor(f, n) => Recorded(f, n) \/ f \in openErrors

(* When the statistics of a month run, exactly the blocks before the first *)
(* one younger than the month are in the database, or more if a later      *)
(* month was already read before a restart.                                *)
OldEnough(f, n) == \A g \in 0..f : \A m \in 1..BlockCount(g) :
    (g < f \/ m <= n) => Blocks[g][m].time <= stoptm
MonthComplete == pc = "statistical" /\ openErrors = {} =>
    \A f \in Files : \A n \in 1..BlockCount(f) :
        /\ OldEnough(f, n) => Recorded(f, n)
        /\ crashes = 0 /\ Recorded(f, n) => OldEnough(f, n)

(* The resume file names the last processed transaction (line 314).        *)
TxCursor == crashes = 0 /\ pc = "statistical" /\ blkinfo # <<>> =>
    LET last == blkinfo[Len(blkinfo)]
    IN resume.TXCOUNTER + 1 = last.firsttx + Blocks[last.file][last.n].ntx

(* The cursor of the resume file never moves back over a block, although   *)
(* a restarted program asks again for the months it has already read.      *)
CursorAdvances == [][\A f \in Files : \A n \in 1..BlockCount(f) :
                        BeforeCursor(f, n) => BeforeCursor(f, n)']_vars

(* The program gets through all its months.                                *)
Terminates == <>[](pc = "main" /\ para > Len(Stops))

(* Blocks are read where they start and numbered by their place in the     *)
(* files, whatever was read again.                                         *)
BlocksAreNumbered == ReadsAligned /\ NumbersAreHeights
(* No block is lost, and without restarts none is read twice.              *)
NoneLostOrDoubled == NothingSkipped /\ EachBlockOnce
(* A month leaves its blocks in the database and the number of its last    *)
(* transaction in the resume file.                                         *)
MonthIsClosed == MonthComplete /\ TxCursor
=============================================================================
