------------------------- MODULE UnzipBlocksProofs -------------------------
(***************************************************************************)
(* Block and transaction numbers are right, and no block is skipped, for   *)
(* all block files, all months and any number of restarts.  The inductive  *)
(* invariant says at each step of unzipBlocks where the cursor stands and  *)
(* that the counters are those of the block at the cursor.                 *)
(***************************************************************************)
EXTENDS UnzipBlocks, TLAPS

(* Byte p of file f is the start of a block (or the end of f), and if no   *)
(* open() failed, b blocks and t transactions lie before it.               *)
Located(f, p, b, t) ==
    /\ f \in Files
    /\ \E n \in 1..(BlockCount(f) + 1) :
          /\ p = Offset[f][n]
          /\ openErrors = {} => b = Height[f][n] /\ t = FirstTx[f][n]

(* The resume file: at a block, or behind the last file.                   *)
ResumeOK == \/ resume.BLKFILE = NumFiles
            \/ Located(resume.BLKFILE, resume.BLKPOS, resume.BLOCKNUM + 1, resume.TXCOUNTER + 1)

(* Before a file is opened: it is the first one of this month, or all of   *)
(* the file before it has been read.                                       *)
FilesOK == pc = "files" =>
    \/ blkfile_num = NumFiles
    \/ /\ blkfile_num = resume.BLKFILE
       /\ BlockNum = resume.BLOCKNUM + 1
       /\ txcounter = resume.TXCOUNTER + 1
    \/ /\ blkfile_num > resume.BLKFILE
       /\ openErrors = {} => /\ BlockNum = Height[blkfile_num][1]
                             /\ txcounter = FirstTx[blkfile_num][1]

BlocksOK == pc = "blocks" => /\ opened \/ blkfile_num \in openErrors
                             /\ resume.BLKFILE <= blkfile_num
                             /\ Located(blkfile_num, blockPos, BlockNum, txcounter)

SaveOK == pc = "save" => \/ blkfile_num = NumFiles
                         \/ Located(blkfile_num, blockPos, BlockNum - 1, txcounter)

Types == /\ TypeOK
         /\ resume.TXCOUNTER >= -1
         /\ pc # "main" => para <= Len(Stops)

CursorInv == /\ Types
             /\ ResumeOK
             /\ FilesOK
             /\ BlocksOK
             /\ SaveOK
             /\ NumbersAreHeights

(* Without restarts there are as many rows as blocks before the cursor.    *)
Steady == crashes = 0 /\ openErrors = {}
OnceInv == Steady =>
    /\ \A i \in DOMAIN blkinfo : blkinfo[i].blknum = i - 1
    /\ pc \in {"main", "parameter", "statistical"} =>
          resume.BLKFILE = NumFiles \/ Len(blkinfo) = resume.BLOCKNUM + 1
    /\ pc = "files" => blkfile_num = NumFiles \/ Len(blkinfo) = BlockNum
    /\ pc = "blocks" => Len(blkinfo) = BlockNum
    /\ pc = "save" => blkfile_num = NumFiles \/ Len(blkinfo) = BlockNum - 1

(* The blocks that this month's loops have passed.                         *)
Passed(f, n) == \/ f < blkfile_num
                \/ f = blkfile_num /\ pc # "files" /\ Offset[f][n] < blockPos
SkipInv ==
    /\ NothingSkipped
    /\ pc \in {"files", "blocks", "save"} =>
          \A f \in Files : \A n \in 1..BlockCount(f) :
              Passed(f, n) => Recorded(f, n) \/ f \in openErrors
-----------------------------------------------------------------------------
(* A cursor at a block that is not the end of its file stands on exactly   *)
(* one block, Here.                                                        *)
LEMMA HereIsBlock ==
  ASSUME NEW n \in 1..(BlockCount(blkfile_num) + 1), blkfile_num \in Files,
         blockPos = Offset[blkfile_num][n], opened, ~ AtEof
  PROVE  /\ Here = n
         /\ Here \in 1..BlockCount(blkfile_num)
         /\ CurBlock \in [size : Nat, ntx : Nat, time : Int]
<1> DEFINE last == BlockCount(blkfile_num)
           at == Offset[blkfile_num]
<1>0. last \in Nat
  BY SizesAssumption DEF BlockCount
<1>1. /\ at \in [1..(last + 1) -> Nat]
      /\ \A m, i \in 1..(last + 1) : m < i => at[m] < at[i]
  BY LayoutAssumption
<1>2. blockPos < at[last + 1]
  BY <1>0, <1>1 DEF AtEof
<1>3. blockPos = at[n] /\ n \in 1..(last + 1)
  OBVIOUS
<1>4. ASSUME NEW m \in 1..last, at[m] = blockPos  PROVE m = n
  <2> HIDE DEF last, at
  <2>1. CASE m < n
    <3>1. at[m] < at[n]  BY <2>1, <1>0, <1>1, <1>3
    <3> QED  BY <3>1, <1>0, <1>1, <1>3, <1>4
  <2>2. CASE n < m
    <3>1. at[n] < at[m]  BY <2>2, <1>0, <1>1, <1>3
    <3> QED  BY <3>1, <1>0, <1>1, <1>3, <1>4
  <2> QED  BY <2>1, <2>2, <1>0
<1>5. n \in 1..last
  <2> HIDE DEF last, at
  <2> QED  BY <1>0, <1>1, <1>2, <1>3
<1>6. Here = n
  BY <1>3, <1>4, <1>5 DEF Here
<1>7. Blocks[blkfile_num][n] \in [size : Nat, ntx : Nat, time : Int]
  <2>1. Blocks[blkfile_num] \in Seq([size : Nat, ntx : Nat, time : Int])
    BY SizesAssumption
  <2>2. n \in 1..Len(Blocks[blkfile_num])
    BY <1>5 DEF BlockCount
  <2> HIDE DEF last, at
  <2>3. \A S, q, i : q \in Seq(S) /\ i \in 1..Len(q) => q[i] \in S
    OBVIOUS
  <2> QED  BY <2>1, <2>2, <2>3, Zenon
<1> QED  BY <1>5, <1>6, <1>7 DEF CurBlock

(* At the end of an opened file the cursor stands behind its last block.   *)
LEMMA EofIsEnd ==
  ASSUME NEW n \in 1..(BlockCount(blkfile_num) + 1), blkfile_num \in Files,
         blockPos = Offset[blkfile_num][n], opened, AtEof
  PROVE  n = BlockCount(blkfile_num) + 1
<1>0. BlockCount(blkfile_num) \in Nat
  BY SizesAssumption DEF BlockCount
<1>1. /\ Offset[blkfile_num] \in [1..(BlockCount(blkfile_num) + 1) -> Nat]
      /\ \A m, i \in 1..(BlockCount(blkfile_num) + 1) :
            m < i => Offset[blkfile_num][m] < Offset[blkfile_num][i]
  BY LayoutAssumption
<1>2. ASSUME n \in 1..BlockCount(blkfile_num)  PROVE FALSE
  <2>1. Offset[blkfile_num][n] < Offset[blkfile_num][BlockCount(blkfile_num) + 1]
    BY <1>0, <1>1, <1>2
  <2> QED  BY <2>1, <1>0, <1>1 DEF AtEof
<1> QED  BY <1>0, <1>2

(* What the assumptions say of one file.                                   *)
LEMMA FileFacts ==
  ASSUME NEW f \in Files
  PROVE  /\ NumFiles \in Nat /\ f \in Nat /\ f < NumFiles
         /\ BlockCount(f) \in Nat
         /\ Offset[f] \in [1..(BlockCount(f) + 1) -> Nat]
         /\ Height[f] \in [1..(BlockCount(f) + 1) -> Nat]
         /\ FirstTx[f] \in [1..(BlockCount(f) + 1) -> Nat]
         /\ Offset[f][1] = 0
         /\ Height[f + 1][1] = Height[f][BlockCount(f) + 1]
         /\ FirstTx[f + 1][1] = FirstTx[f][BlockCount(f) + 1]
<1>1. NumFiles \in Nat /\ BlockCount(f) \in Nat
  BY SizesAssumption DEF BlockCount
<1>2. f \in Nat /\ f < NumFiles
  BY <1>1 DEF Files
<1>3. Offset[f] \in [1..(BlockCount(f) + 1) -> Nat] /\ Offset[f][1] = 0
  BY LayoutAssumption
<1>4. /\ Height[f] \in [1..(BlockCount(f) + 1) -> Nat]
      /\ FirstTx[f] \in [1..(BlockCount(f) + 1) -> Nat]
      /\ Height[f + 1][1] = Height[f][BlockCount(f) + 1]
      /\ FirstTx[f + 1][1] = FirstTx[f][BlockCount(f) + 1]
  BY CountsAssumption
<1> QED  BY <1>1, <1>2, <1>3, <1>4

(* The blocks of a file follow one another.                                *)
LEMMA OffsetsAscend ==
  ASSUME NEW f \in Files, NEW m \in 1..BlockCount(f), NEW n \in 1..BlockCount(f)
  PROVE  /\ m \in Nat /\ n \in Nat /\ Offset[f][m] \in Nat /\ Offset[f][n] \in Nat
         /\ m < n => Offset[f][m] < Offset[f][n]
<1>1. BlockCount(f) \in Nat /\ Offset[f] \in [1..(BlockCount(f) + 1) -> Nat]
  BY FileFacts
<1>2. m \in 1..(BlockCount(f) + 1) /\ n \in 1..(BlockCount(f) + 1) /\ m \in Nat /\ n \in Nat
  BY <1>1
<1>3. m < n => Offset[f][m] < Offset[f][n]
  BY <1>2, LayoutAssumption
<1> QED  BY <1>1, <1>2, <1>3

(* Before the first month nothing is read and the cursor is at the start.  *)
LEMMA CursorInvInit == Init => CursorInv
<1> SUFFICES ASSUME Init PROVE CursorInv
  OBVIOUS
<1>0. Len(Stops) \in Nat
  BY SizesAssumption
<1>1. Types
  <2>1. blkinfo \in Seq([blknum : Int, firsttx : Nat, file : Files, n : Nat \ {0}])
    BY DEF Init
  <2>2. opened \in BOOLEAN  BY Zenon DEF Init
  <2> QED  BY <1>0, <2>1, <2>2, SizesAssumption DEF Init, Types, TypeOK
<1>2. ResumeOK
  <2>1. CASE NumFiles = 0  BY <2>1 DEF Init, ResumeOK
  <2>2. CASE NumFiles # 0
    <3>1. 0 \in Files  BY <2>2, SizesAssumption DEF Files
    <3>2. 1 \in 1..(BlockCount(0) + 1)  BY <3>1, FileFacts
    <3> QED  BY <3>1, <3>2, FileFacts, CountsAssumption, SMTT(30) DEF Init, ResumeOK, Located
  <2> QED  BY <2>1, <2>2
<1> QED  BY <1>1, <1>2 DEF Init, CursorInv, FilesOK, BlocksOK, SaveOK, NumbersAreHeights

(* Every step keeps the types and the tables within their bounds.          *)
LEMMA TypesNext == CursorInv /\ [Next]_vars => Types'
<1> SUFFICES ASSUME CursorInv, [Next]_vars PROVE Types'
  OBVIOUS
<1>0. Len(Stops) \in Nat /\ NumFiles \in Nat /\ MaxCrashes \in Nat
      /\ \A i \in 1..Len(Stops) : Stops[i] \in Int
  BY SizesAssumption
<1> USE DEF Types, TypeOK, CursorInv
<1>1. CASE set_parameter  BY <1>0, <1>1 DEF set_parameter, locals
<1>2. CASE ReadParameter
  <2>1. opened' \in BOOLEAN  BY <1>2, Zenon DEF ReadParameter
  <2> QED  BY <1>0, <1>2, <2>1, SMTT(30) DEF ReadParameter, FirstTransaction
<1>3. CASE OpenFile
  <2>1. blkfile_num \in Files  BY <1>0, <1>3 DEF OpenFile, Files
  <2> QED  BY <1>0, <1>3, <2>1, Zenon DEF OpenFile, StartPos
<1>4. CASE FilesEnd  BY <1>0, <1>4 DEF FilesEnd, locals
<1>5. CASE CloseFile
  <2>1. blkfile_num \in Files  BY <1>5 DEF CloseFile, BlocksOK, Located
  <2>2. opened' \in BOOLEAN  BY <1>5, Zenon DEF CloseFile
  <2>3. blkfile_num' \in 0..NumFiles  BY <1>5, <2>1, FileFacts, SMTT(30) DEF CloseFile
  <2> QED  BY <1>0, <1>5, <2>2, <2>3 DEF CloseFile
<1>6. CASE StopAtBlock
  <2>1. opened' \in BOOLEAN  BY <1>6, Zenon DEF StopAtBlock
  <2> QED  BY <1>0, <1>6, <2>1 DEF StopAtBlock
<1>7. CASE ProcessBlock
  <2>1. blkfile_num \in Files /\ opened
    BY <1>7 DEF ProcessBlock, BlocksOK, Located, AtEof
  <2>2. /\ Here \in 1..BlockCount(blkfile_num)
        /\ CurBlock \in [size : Nat, ntx : Nat, time : Int]
    BY SMTT(30), <1>7, <2>1, HereIsBlock DEF ProcessBlock, BlocksOK, Located
  <2>3. [blknum |-> BlockNum, firsttx |-> txcounter, file |-> blkfile_num, n |-> Here]
           \in [blknum : Int, firsttx : Nat, file : Files, n : Nat \ {0}]
    BY <2>1, <2>2, FileFacts
  <2>4. blkinfo' \in Seq([blknum : Int, firsttx : Nat, file : Files, n : Nat \ {0}])
    <3>1. \A S, q, e : q \in Seq(S) /\ e \in S => Append(q, e) \in Seq(S)
      OBVIOUS
    <3> QED  BY <1>7, <2>3, <3>1, Zenon DEF ProcessBlock
  <2>5. txcounter' \in Nat /\ blockPos' \in Nat /\ BlockNum' \in Int
    <3>1. CurBlock.size \in Nat /\ CurBlock.ntx \in Nat
      BY <2>2
    <3>2. txcounter \in Nat /\ blockPos \in Nat /\ BlockNum \in Int
      OBVIOUS
    <3>3. /\ txcounter' = txcounter + CurBlock.ntx
          /\ blockPos' = blockPos + CurBlock.size + 8
          /\ BlockNum' = BlockNum + 1
      BY <1>7 DEF ProcessBlock
    <3> HIDE DEF Types, TypeOK, CursorInv
    <3> QED  BY <3>1, <3>2, <3>3
  <2> QED  BY <1>0, <1>7, <2>4, <2>5 DEF ProcessBlock
<1>8. CASE SaveProgress  BY <1>0, <1>8 DEF SaveProgress, Progress, locals
<1>9. CASE statistical  BY <1>0, <1>9 DEF statistical, NextMonth, locals
<1>10. CASE Restart
  <2>1. opened' \in BOOLEAN  BY <1>10, Zenon DEF Restart
  <2> QED  BY <1>0, <1>10, <2>1 DEF Restart
<1>11. CASE UNCHANGED vars  BY <1>11 DEF vars, locals
<1> QED
  BY <1>1, <1>2, <1>3, <1>4, <1>5, <1>6, <1>7, <1>8, <1>9, <1>10, <1>11, SMTT(30) DEF Next, Program

(* An action that leaves the resume file and the rows alone, and logs at   *)
(* most a failed open, keeps what the invariant says of both.              *)
LEMMA TablesKept ==
  ASSUME CursorInv, UNCHANGED <<resume, blkinfo>>, openErrors' = {} => openErrors = {}
  PROVE  ResumeOK' /\ NumbersAreHeights'
BY DEF CursorInv, ResumeOK, NumbersAreHeights, Located

(* Reading the resume file puts the cursor where it says.                  *)
LEMMA ReadParameterPreserves == CursorInv /\ ReadParameter => CursorInv'
<1> SUFFICES ASSUME CursorInv, ReadParameter PROVE CursorInv'
  OBVIOUS
<1>1. Types'  BY TypesNext DEF Next, Program
<1>2. ResumeOK' /\ NumbersAreHeights'  BY TablesKept DEF ReadParameter
<1> QED  BY <1>1, <1>2 DEF CursorInv, ReadParameter, FirstTransaction, FilesOK, BlocksOK, SaveOK

(* An opened file is read from a block on, the one after the last counted. *)
LEMMA OpenFilePreserves == CursorInv /\ OpenFile => CursorInv'
<1> SUFFICES ASSUME CursorInv, OpenFile PROVE CursorInv'
  OBVIOUS
<1>0. /\ blkfile_num \in Files
      /\ resume.BLKFILE \in Nat
      /\ pc = "files"
  BY SizesAssumption DEF CursorInv, Types, TypeOK, OpenFile, Files
<1>1. openErrors' = {} => openErrors = {}
  BY DEF OpenFile
<1>2. Types'  BY TypesNext DEF Next, Program
<1>3. ResumeOK' /\ NumbersAreHeights'  BY <1>1, TablesKept DEF OpenFile
<1>4. resume.BLKFILE <= blkfile_num
  BY SMTT(30), <1>0, FileFacts DEF CursorInv, FilesOK, Types, TypeOK
<1>5. Located(blkfile_num, StartPos, BlockNum, txcounter)'
  <2>1. CASE blkfile_num = resume.BLKFILE
    BY <2>1, <1>0, <1>1, FileFacts
       DEF CursorInv, FilesOK, ResumeOK, Located, StartPos, OpenFile
  <2>2. CASE blkfile_num # resume.BLKFILE
    <3>1. 1 \in 1..(BlockCount(blkfile_num) + 1) /\ Offset[blkfile_num][1] = 0
      BY <1>0, FileFacts
    <3>2. openErrors = {} => /\ BlockNum = Height[blkfile_num][1]
                             /\ txcounter = FirstTx[blkfile_num][1]
      BY <2>2, <1>0, FileFacts DEF CursorInv, FilesOK
    <3> QED  BY <2>2, <3>1, <3>2, <1>0, <1>1 DEF Located, StartPos, OpenFile
  <2> QED  BY <2>1, <2>2
<1>6. opened' \/ blkfile_num \in openErrors'
  BY DEF OpenFile
<1>7. BlocksOK'
  BY <1>4, <1>5, <1>6 DEF BlocksOK, OpenFile, StartPos, Located
<1> QED  BY <1>2, <1>3, <1>7 DEF CursorInv, FilesOK, SaveOK, OpenFile

(* At the end of a file the cursor moves to the start of the next one.     *)
LEMMA CloseFilePreserves == CursorInv /\ CloseFile => CursorInv'
<1> SUFFICES ASSUME CursorInv, CloseFile PROVE CursorInv'
  OBVIOUS
<1>0. /\ blkfile_num \in Files
      /\ resume.BLKFILE \in Nat
      /\ resume.BLKFILE <= blkfile_num
      /\ opened \/ blkfile_num \in openErrors
  BY DEF CursorInv, BlocksOK, Located, Types, TypeOK, CloseFile
<1>1. Types'  BY TypesNext DEF Next, Program
<1>2. ResumeOK' /\ NumbersAreHeights'  BY TablesKept DEF CloseFile
<1>3. ASSUME openErrors = {}
      PROVE  BlockNum = Height[blkfile_num + 1][1] /\ txcounter = FirstTx[blkfile_num + 1][1]
  <2>1. PICK n \in 1..(BlockCount(blkfile_num) + 1) :
           /\ blockPos = Offset[blkfile_num][n]
           /\ BlockNum = Height[blkfile_num][n] /\ txcounter = FirstTx[blkfile_num][n]
    BY <1>3 DEF CursorInv, BlocksOK, Located, CloseFile
  <2>2. n = BlockCount(blkfile_num) + 1
    BY <1>0, <1>3, <2>1, EofIsEnd DEF CloseFile
  <2> QED  BY <1>0, <2>1, <2>2, FileFacts
<1>4. blkfile_num + 1 > resume.BLKFILE
  BY <1>0, FileFacts
<1> QED  BY <1>1, <1>2, <1>3, <1>4 DEF CursorInv, FilesOK, BlocksOK, SaveOK, CloseFile

(* Stopping at a younger block leaves the cursor on that block.            *)
LEMMA StopAtBlockPreserves == CursorInv /\ StopAtBlock => CursorInv'
<1> SUFFICES ASSUME CursorInv, StopAtBlock PROVE CursorInv'
  OBVIOUS
<1>1. Types'  BY TypesNext DEF Next, Program
<1>2. ResumeOK' /\ NumbersAreHeights'  BY TablesKept DEF StopAtBlock
<1>3. BlockNum' - 1 = BlockNum
  BY DEF CursorInv, Types, TypeOK, StopAtBlock
<1>4. SaveOK'
  BY <1>3 DEF CursorInv, BlocksOK, SaveOK, Located, StopAtBlock
<1> QED  BY <1>1, <1>2, <1>4 DEF CursorInv, FilesOK, BlocksOK, StopAtBlock

(* The row gets the numbers of the block at the cursor, which moves on.    *)
LEMMA ProcessBlockPreserves == CursorInv /\ ProcessBlock => CursorInv'
<1> SUFFICES ASSUME CursorInv, ProcessBlock PROVE CursorInv'
  OBVIOUS
<1>0. /\ blkfile_num \in Files
      /\ resume.BLKFILE <= blkfile_num
      /\ opened
  BY DEF CursorInv, BlocksOK, Located, ProcessBlock, AtEof
<1>1. Types'  BY TypesNext DEF Next, Program
<1>2. PICK n \in 1..(BlockCount(blkfile_num) + 1) :
         /\ blockPos = Offset[blkfile_num][n]
         /\ openErrors = {} => /\ BlockNum = Height[blkfile_num][n]
                               /\ txcounter = FirstTx[blkfile_num][n]
  BY DEF CursorInv, BlocksOK, Located, ProcessBlock
<1>3. Here = n /\ n \in 1..BlockCount(blkfile_num)
  BY <1>0, <1>2, HereIsBlock DEF ProcessBlock
<1>4. CurBlock = Blocks[blkfile_num][n]
  BY <1>3, SMTT(30) DEF CurBlock
<1>5. /\ n + 1 \in 1..(BlockCount(blkfile_num) + 1)
      /\ Offset[blkfile_num][n + 1] = Offset[blkfile_num][n] + Blocks[blkfile_num][n].size + 8
      /\ Height[blkfile_num][n + 1] = Height[blkfile_num][n] + 1
      /\ FirstTx[blkfile_num][n + 1] = FirstTx[blkfile_num][n] + Blocks[blkfile_num][n].ntx
  BY <1>0, <1>3, FileFacts, LayoutAssumption, CountsAssumption
<1>6. BlocksOK'
  <2>1. blockPos' = Offset[blkfile_num][n + 1]
    BY <1>2, <1>4, <1>5 DEF ProcessBlock
  <2>2. openErrors = {} => /\ BlockNum' = Height[blkfile_num][n + 1]
                           /\ txcounter' = FirstTx[blkfile_num][n + 1]
    BY <1>2, <1>4, <1>5, SMTT(30) DEF ProcessBlock
  <2>3. UNCHANGED <<pc, blkfile_num, openErrors, opened, resume>>
    BY DEF ProcessBlock
  <2>4. Located(blkfile_num, blockPos, BlockNum, txcounter)'
    BY <1>0, <1>5, <2>1, <2>2, <2>3, Zenon DEF Located
  <2> QED  BY <1>0, <2>3, <2>4 DEF BlocksOK
<1>7. NumbersAreHeights'
  <2> SUFFICES ASSUME openErrors = {}, NEW i \in DOMAIN blkinfo'
               PROVE  /\ blkinfo'[i].blknum = Height[blkinfo'[i].file][blkinfo'[i].n]
                      /\ blkinfo'[i].firsttx = FirstTx[blkinfo'[i].file][blkinfo'[i].n]
    BY DEF NumbersAreHeights, ProcessBlock
  <2> DEFINE row == [blknum |-> BlockNum, firsttx |-> txcounter, file |-> blkfile_num, n |-> Here]
  <2>1. blkinfo' = Append(blkinfo, row)  BY DEF ProcessBlock
  <2>2. (i \in DOMAIN blkinfo /\ blkinfo'[i] = blkinfo[i]) \/ blkinfo'[i] = row
    <3> HIDE DEF row
    <3>1. blkinfo \in Seq([blknum : Int, firsttx : Nat, file : Files, n : Nat \ {0}])
      BY DEF CursorInv, Types, TypeOK
    <3> QED  BY <2>1, <3>1, SMTT(30)
  <2>3. CASE i \in DOMAIN blkinfo /\ blkinfo'[i] = blkinfo[i]
    BY <2>3 DEF CursorInv, NumbersAreHeights
  <2>4. CASE blkinfo'[i] = row
    BY <2>4, <1>2, <1>3
  <2> QED  BY <2>2, <2>3, <2>4
<1>8. ResumeOK'
  BY DEF CursorInv, ResumeOK, Located, ProcessBlock
<1> QED  BY <1>1, <1>6, <1>7, <1>8 DEF CursorInv, FilesOK, SaveOK, ProcessBlock

(* The saved cursor is the one that the next month starts from.            *)
LEMMA SaveProgressPreserves == CursorInv /\ SaveProgress => CursorInv'
<1> SUFFICES ASSUME CursorInv, SaveProgress PROVE CursorInv'
  OBVIOUS
<1>1. Types'  BY TypesNext DEF Next, Program
<1>2. NumbersAreHeights'
  BY DEF CursorInv, NumbersAreHeights, SaveProgress
<1>3. /\ resume'.BLKFILE = blkfile_num /\ resume'.BLKPOS = blockPos
      /\ resume'.BLOCKNUM + 1 = BlockNum - 1 /\ resume'.TXCOUNTER + 1 = txcounter
      /\ UNCHANGED openErrors
  BY DEF CursorInv, Types, TypeOK, SaveProgress, Progress, locals
<1>4. ResumeOK'
  BY <1>3 DEF CursorInv, SaveOK, SaveProgress, ResumeOK, Located
<1> QED  BY <1>1, <1>2, <1>4 DEF CursorInv, FilesOK, BlocksOK, SaveOK, SaveProgress

(* Every step keeps the cursor at a block or at the end of a file, with the *)
(* number that belongs to it.                                              *)
LEMMA CursorInvNext == CursorInv /\ [Next]_vars => CursorInv'
<1> SUFFICES ASSUME CursorInv, [Next]_vars PROVE CursorInv'
  OBVIOUS
<1>0. Types'  BY TypesNext
<1>1. CASE set_parameter
  <2>1. ResumeOK' /\ NumbersAreHeights'  BY <1>1, TablesKept DEF set_parameter
  <2> QED  BY <1>0, <1>1, <2>1 DEF CursorInv, FilesOK, BlocksOK, SaveOK, set_parameter
<1>2. CASE FilesEnd
  <2>1. ResumeOK' /\ NumbersAreHeights'  BY <1>2, TablesKept DEF FilesEnd
  <2>2. blkfile_num' = NumFiles
    BY <1>2, SizesAssumption DEF CursorInv, Types, TypeOK, FilesEnd, locals
  <2> QED  BY <1>0, <1>2, <2>1, <2>2 DEF CursorInv, FilesOK, BlocksOK, SaveOK, FilesEnd
<1>3. CASE statistical
  <2>1. ResumeOK' /\ NumbersAreHeights'  BY <1>3, TablesKept DEF statistical
  <2> QED  BY <1>0, <1>3, <2>1 DEF CursorInv, FilesOK, BlocksOK, SaveOK, statistical
<1>4. CASE Restart
  <2>1. ResumeOK' /\ NumbersAreHeights'  BY <1>4, TablesKept, SMTT(30) DEF Restart
  <2> QED  BY <1>0, <1>4, <2>1 DEF CursorInv, FilesOK, BlocksOK, SaveOK, Restart
<1>5. CASE UNCHANGED vars
  BY <1>0, <1>5 DEF CursorInv, ResumeOK, FilesOK, BlocksOK, SaveOK, NumbersAreHeights, Located,
                    vars, locals
<1> QED
  BY <1>1, <1>2, <1>3, <1>4, <1>5, ReadParameterPreserves, OpenFilePreserves, CloseFilePreserves,
     StopAtBlockPreserves, ProcessBlockPreserves, SaveProgressPreserves DEF Next, Program

(* The number of a block in blkinfo is its height and its transactions are *)
(* counted from those before it, for all files and restarts; every header  *)
(* is read where a block starts.                                           *)
THEOREM BlockNumbering == Spec => [](TypeOK /\ BlocksAreNumbered)
<1>1. CursorInv => TypeOK /\ BlocksAreNumbered
  <2> SUFFICES ASSUME CursorInv, pc = "blocks", ~ AtEof PROVE Aligned
    BY DEF CursorInv, Types, ReadsAligned, BlocksAreNumbered
  <2>1. PICK n \in 1..(BlockCount(blkfile_num) + 1) : blockPos = Offset[blkfile_num][n]
    BY DEF CursorInv, BlocksOK, Located
  <2>2. blkfile_num \in Files /\ opened
    BY DEF CursorInv, BlocksOK, Located, AtEof
  <2>3. n \in 1..BlockCount(blkfile_num)
    BY <2>1, <2>2, HereIsBlock
  <2> QED  BY <2>1, <2>3 DEF Aligned
<1> QED  BY <1>1, CursorInvInit, CursorInvNext, PTL DEF Spec
-----------------------------------------------------------------------------
(* Without restarts the table keeps one row per block before the cursor.   *)
LEMMA OnceNext == CursorInv /\ OnceInv /\ [Next]_vars => OnceInv'
<1> SUFFICES ASSUME CursorInv, OnceInv, [Next]_vars, Steady' PROVE OnceInv'
  BY DEF OnceInv
<1>0. /\ BlockNum \in Int /\ Len(blkinfo) \in Nat
      /\ resume.BLKFILE \in Int /\ resume.BLOCKNUM \in Int /\ blkfile_num \in Int
  BY SizesAssumption DEF CursorInv, Types, TypeOK
<1>1. CASE set_parameter  BY <1>1 DEF set_parameter, OnceInv, Steady
<1>2. CASE ReadParameter  BY <1>0, <1>2 DEF ReadParameter, OnceInv, Steady
<1>3. CASE OpenFile
  <2>1. openErrors = {} /\ blkfile_num < NumFiles
    BY <1>3 DEF OpenFile, Steady
  <2> QED  BY <1>0, <1>3, <2>1, SizesAssumption DEF OpenFile, OnceInv, Steady
<1>4. CASE FilesEnd
  <2>1. blkfile_num = NumFiles
    BY <1>4, SizesAssumption DEF CursorInv, Types, TypeOK, FilesEnd
  <2> QED  BY <1>4, <2>1 DEF FilesEnd, OnceInv, Steady, locals
<1>5. CASE CloseFile  BY <1>5 DEF CloseFile, OnceInv, Steady
<1>6. CASE StopAtBlock
  <2>1. BlockNum' - 1 = BlockNum  BY <1>0, <1>6 DEF StopAtBlock
  <2> QED  BY <1>6, <2>1 DEF StopAtBlock, OnceInv, Steady
<1>7. CASE ProcessBlock
  <2> DEFINE row == [blknum |-> BlockNum, firsttx |-> txcounter, file |-> blkfile_num, n |-> Here]
  <2>1. blkinfo' = Append(blkinfo, row) /\ row.blknum = Len(blkinfo)
    BY <1>7 DEF ProcessBlock, OnceInv, Steady
  <2>2. blkinfo \in Seq([blknum : Int, firsttx : Nat, file : Files, n : Nat \ {0}])
    BY DEF CursorInv, Types, TypeOK
  <2>3. \A i \in DOMAIN blkinfo : blkinfo[i].blknum = i - 1
    BY <1>7 DEF ProcessBlock, OnceInv, Steady
  <2>4. /\ Len(blkinfo') = Len(blkinfo) + 1
        /\ \A i \in DOMAIN blkinfo' : blkinfo'[i].blknum = i - 1
    <3> HIDE DEF row
    <3> QED  BY <2>1, <2>2, <2>3, SMTT(30)
  <2> QED  BY <1>7, <2>1, <2>4 DEF ProcessBlock, OnceInv, Steady
<1>8. CASE SaveProgress
  <2>1. resume'.BLKFILE = blkfile_num /\ resume'.BLOCKNUM + 1 = BlockNum - 1
    BY <1>0, <1>8 DEF SaveProgress, Progress
  <2> QED  BY <1>8, <2>1 DEF SaveProgress, OnceInv, Steady
<1>9. CASE statistical  BY <1>9 DEF statistical, OnceInv, Steady
<1>10. CASE Restart
  BY <1>10, SizesAssumption DEF Restart, Steady, CursorInv, Types, TypeOK
<1>11. CASE UNCHANGED vars  BY <1>11 DEF vars, locals, OnceInv, Steady
<1> QED  BY <1>1, <1>2, <1>3, <1>4, <1>5, <1>6, <1>7, <1>8, <1>9, <1>10, <1>11 DEF Next, Program

(* Months read one after the other without a restart record every block    *)
(* exactly once and in order: resuming neither repeats nor skips a block.  *)
THEOREM BlocksReadOnce == Spec => []EachBlockOnce
<1>1. Init => OnceInv
  <2> SUFFICES ASSUME Init PROVE OnceInv
    OBVIOUS
  <2>1. Len(blkinfo) = 0 /\ DOMAIN blkinfo = {}
    BY DEF Init
  <2> QED  BY <2>1 DEF Init, OnceInv
<1>2. CursorInv /\ OnceInv => EachBlockOnce
  BY DEF CursorInv, NumbersAreHeights, OnceInv, Steady, EachBlockOnce
<1> QED  BY <1>1, <1>2, CursorInvInit, CursorInvNext, OnceNext, PTL DEF Spec
-----------------------------------------------------------------------------
(* A recorded block stays recorded.                                        *)
LEMMA RecordedKept ==
  ASSUME NEW f, NEW n, Recorded(f, n), blkinfo' = blkinfo
  PROVE  Recorded(f, n)'
BY DEF Recorded

(* Every block that the cursor passes in a file that opened is recorded.   *)
LEMMA SkipNext == CursorInv /\ SkipInv /\ [Next]_vars => SkipInv'
<1> SUFFICES ASSUME CursorInv, SkipInv, [Next]_vars,
                    NEW f \in Files, NEW n \in 1..BlockCount(f)
             PROVE  /\ BeforeCursor(f, n)' => Recorded(f, n)' \/ f \in openErrors'
                    /\ pc' \in {"files", "blocks", "save"} /\ Passed(f, n)' =>
                          Recorded(f, n)' \/ f \in openErrors'
  BY DEF SkipInv, NothingSkipped
<1>0. /\ BeforeCursor(f, n) => Recorded(f, n) \/ f \in openErrors
      /\ pc \in {"files", "blocks", "save"} /\ Passed(f, n) =>
            Recorded(f, n) \/ f \in openErrors
  BY DEF SkipInv, NothingSkipped
<1>a. /\ f \in Nat /\ f < NumFiles /\ NumFiles \in Nat
      /\ blkfile_num \in Nat /\ resume.BLKFILE \in Nat
      /\ blockPos \in Nat /\ resume.BLKPOS \in Nat
      /\ n \in 1..(BlockCount(f) + 1) /\ Offset[f][n] \in Nat
  <2>1. /\ f \in Nat /\ f < NumFiles /\ NumFiles \in Nat
        /\ n \in 1..(BlockCount(f) + 1) /\ Offset[f][n] \in Nat
    BY FileFacts
  <2>2. /\ blkfile_num \in Nat /\ resume.BLKFILE \in Nat
        /\ blockPos \in Nat /\ resume.BLKPOS \in Nat
    BY <2>1 DEF CursorInv, Types, TypeOK
  <2> QED  BY <2>1, <2>2
<1>b. /\ openErrors \subseteq openErrors'
      /\ Recorded(f, n) => Recorded(f, n)'
  <2>1. CASE blkinfo' = blkinfo
    <3>1. openErrors \subseteq openErrors'
      BY Zenon DEF Next, Program, set_parameter, ReadParameter, OpenFile, FilesEnd, CloseFile,
             StopAtBlock, ProcessBlock, SaveProgress, statistical, Restart, vars
    <3> QED  BY <2>1, <3>1, RecordedKept
  <2>2. CASE ProcessBlock
    <3> DEFINE row == [blknum |-> BlockNum, firsttx |-> txcounter, file |-> blkfile_num, n |-> Here]
    <3>1. blkinfo' = Append(blkinfo, row)  BY <2>2 DEF ProcessBlock
    <3>2. blkinfo \in Seq([blknum : Int, firsttx : Nat, file : Files, n : Nat \ {0}])
      BY DEF CursorInv, Types, TypeOK
    <3>3. \A i \in DOMAIN blkinfo : i \in DOMAIN blkinfo' /\ blkinfo'[i] = blkinfo[i]
      <4> HIDE DEF row
      <4> QED  BY <3>1, <3>2, SMTT(30)
    <3> QED  BY <2>2, <3>3 DEF ProcessBlock, Recorded
  <2> QED
    BY <2>1, <2>2, Zenon
    DEF Next, Program, set_parameter, ReadParameter, OpenFile, FilesEnd, CloseFile,
                      StopAtBlock, SaveProgress, statistical, Restart, vars
<1>1. CASE set_parameter  BY <1>0, <1>b, <1>1 DEF set_parameter, BeforeCursor
<1>2. CASE ReadParameter
  BY <1>0, <1>a, <1>b, <1>2 DEF ReadParameter, BeforeCursor, Passed
<1>3. CASE OpenFile
  BY <1>0, <1>a, <1>b, <1>3 DEF OpenFile, StartPos, BeforeCursor, Passed
<1>4. CASE FilesEnd
  BY <1>0, <1>a, <1>b, <1>4 DEF FilesEnd, BeforeCursor, Passed, locals
<1>5. CASE CloseFile
  <2>1. ASSUME f = blkfile_num, opened  PROVE Passed(f, n)
    <3>0. /\ \A i, j \in 1..(BlockCount(f) + 1) : i < j => Offset[f][i] < Offset[f][j]
          /\ Offset[f] \in [1..(BlockCount(f) + 1) -> Nat]
      BY LayoutAssumption
    <3>a. BlockCount(f) \in Nat
      BY FileFacts
    <3>1. Offset[f][n] < Offset[f][BlockCount(f) + 1] /\ Offset[f][BlockCount(f) + 1] \in Nat
      BY <3>0, <3>a
    <3>2. blockPos >= Offset[f][BlockCount(f) + 1]
      BY <1>5, <2>1 DEF CloseFile, AtEof
    <3> QED  BY <1>5, <2>1, <3>1, <3>2, <1>a DEF CloseFile, Passed
  <2>2. f = blkfile_num => opened \/ f \in openErrors
    BY <1>5 DEF CursorInv, BlocksOK, CloseFile
  <2>3. BeforeCursor(f, n)' => BeforeCursor(f, n)
    BY <1>5 DEF CloseFile, BeforeCursor
  <2>4. Passed(f, n)' => f < blkfile_num \/ f = blkfile_num
    BY <1>5, <1>a DEF CloseFile, Passed
  <2>5. f < blkfile_num => Passed(f, n)
    BY DEF Passed
  <2> QED  BY <1>0, <1>b, <1>5, <2>1, <2>2, <2>3, <2>4, <2>5 DEF CloseFile
<1>6. CASE StopAtBlock
  BY <1>0, <1>a, <1>b, <1>6, SMTT(30) DEF StopAtBlock, BeforeCursor, Passed
<1>7. CASE ProcessBlock
  <2>1. BeforeCursor(f, n)' => BeforeCursor(f, n)
    BY <1>7 DEF ProcessBlock, BeforeCursor
  <2>2. ASSUME f = blkfile_num, Offset[f][n] >= blockPos, Offset[f][n] < blockPos'
        PROVE  Recorded(f, n)'
    <3>1. PICK m \in 1..(BlockCount(f) + 1) : blockPos = Offset[f][m]
      BY <1>7, <2>2 DEF CursorInv, BlocksOK, Located, ProcessBlock
    <3>2. opened
      BY <1>7 DEF ProcessBlock, AtEof
    <3>3. Here = m /\ m \in 1..BlockCount(f)
      BY <1>7, <2>2, <3>1, <3>2, HereIsBlock DEF ProcessBlock
    <3>4. blockPos' = Offset[f][m + 1] /\ m + 1 \in 1..(BlockCount(f) + 1)
      <4>1. blockPos' = blockPos + Blocks[f][m].size + 8
        BY <1>7, <2>2, <3>3 DEF ProcessBlock, CurBlock
      <4>2. BlockCount(f) \in Nat /\ m + 1 \in 1..(BlockCount(f) + 1)
        BY <3>3, FileFacts
      <4>3. Offset[f][m + 1] = Offset[f][m] + Blocks[f][m].size + 8
        BY <3>3, LayoutAssumption
      <4> QED  BY <3>1, <4>1, <4>2, <4>3
    <3>5. \A i, j \in 1..(BlockCount(f) + 1) : i < j => Offset[f][i] < Offset[f][j]
      BY LayoutAssumption
    <3>6. Offset[f] \in [1..(BlockCount(f) + 1) -> Nat] /\ BlockCount(f) \in Nat
      BY FileFacts
    <3>7. ~ (n < m)
      <4>1. n < m => Offset[f][n] < Offset[f][m]  BY <3>1, <3>5, <1>a
      <4> QED  BY <4>1, <2>2, <3>1, <3>6, <1>a, SMTT(30)
    <3>8. ~ (n > m)
      <4>1. n > m + 1 => Offset[f][m + 1] < Offset[f][n]  BY <3>4, <3>5, <3>6, <1>a
      <4>2. Offset[f][n] < Offset[f][m + 1]  BY <2>2, <3>4
      <4>3. Offset[f][m + 1] \in Nat /\ Offset[f][n] \in Nat  BY SMTT(30), <3>4, <3>6, <1>a
      <4>4. n \in Int /\ m \in Int  BY <3>6, <1>a
      <4>5. n # m + 1  BY <4>2, <4>3
      <4>6. ~ (n > m + 1)  BY <4>1, <4>2, <4>3
      <4> QED  BY <4>4, <4>5, <4>6
    <3>9. n = Here
      BY <3>3, <3>6, <3>7, <3>8
    <3> DEFINE row == [blknum |-> BlockNum, firsttx |-> txcounter, file |-> blkfile_num, n |-> Here]
    <3>10. blkinfo' = Append(blkinfo, row)  BY <1>7 DEF ProcessBlock
    <3>11. blkinfo \in Seq([blknum : Int, firsttx : Nat, file : Files, n : Nat \ {0}])
      BY DEF CursorInv, Types, TypeOK
    <3>12. Len(blkinfo) + 1 \in DOMAIN blkinfo' /\ blkinfo'[Len(blkinfo) + 1] = row
      <4> HIDE DEF row
      <4> QED  BY <3>10, <3>11
    <3> QED  BY <2>2, <3>9, <3>12 DEF Recorded
  <2>3. Passed(f, n)' =>
           Passed(f, n) \/ (f = blkfile_num /\ Offset[f][n] >= blockPos /\ Offset[f][n] < blockPos')
    BY <1>7, <1>a DEF ProcessBlock, Passed
  <2>4. pc = "blocks"
    BY <1>7 DEF ProcessBlock
  <2> QED  BY <1>0, <1>b, <2>1, <2>2, <2>3, <2>4
<1>8. CASE SaveProgress
  BY <1>0, <1>a, <1>b, <1>8 DEF SaveProgress, Progress, BeforeCursor, Passed
<1>9. CASE statistical  BY <1>0, <1>b, <1>9 DEF statistical, BeforeCursor
<1>10. CASE Restart  BY <1>0, <1>b, <1>10 DEF Restart, BeforeCursor
<1>11. CASE UNCHANGED vars
  BY <1>0, <1>b, <1>11 DEF vars, locals, BeforeCursor, Passed
<1> QED  BY <1>1, <1>2, <1>3, <1>4, <1>5, <1>6, <1>7, <1>8, <1>9, <1>10, <1>11 DEF Next, Program

(* Before the first month nothing is before the cursor.                    *)
LEMMA SkipInit == Init => SkipInv
<1> SUFFICES ASSUME Init, NEW f \in Files, NEW n \in 1..BlockCount(f)
             PROVE  ~ BeforeCursor(f, n)
  BY Zenon DEF Init, SkipInv, NothingSkipped
<1>0. n \in 1..(BlockCount(f) + 1)
  BY FileFacts
<1>1. f \in Nat /\ Offset[f][n] \in Nat
  BY <1>0, FileFacts
<1>2. resume.BLKFILE = 0 /\ resume.BLKPOS = 0
  BY DEF Init
<1> QED  BY <1>1, <1>2 DEF BeforeCursor

(* Whatever restarts and failing opens happen, every block before the      *)
(* cursor of the resume file is in the database or in a file whose failed  *)
(* open was logged.                                                        *)
THEOREM NoBlockSkipped == Spec => []NothingSkipped
BY SkipInit, CursorInvInit, CursorInvNext, SkipNext, PTL DEF Spec, SkipInv

(* No block is lost, and without restarts none is read twice.              *)
THEOREM NoneLost == Spec => []NoneLostOrDoubled
BY BlocksReadOnce, NoBlockSkipped, PTL DEF NoneLostOrDoubled
-----------------------------------------------------------------------------
(* The loops of a month stand at or behind the cursor they started from.   *)
AheadInv ==
    /\ pc = "files" => resume.BLKFILE <= blkfile_num
    /\ pc \in {"blocks", "save"} => \/ resume.BLKFILE < blkfile_num
                                    \/ blkfile_num = NumFiles
                                    \/ resume.BLKFILE = blkfile_num /\ resume.BLKPOS <= blockPos

(* No step takes the loops back behind the cursor.                         *)
LEMMA AheadNext == CursorInv /\ AheadInv /\ [Next]_vars => AheadInv'
<1> SUFFICES ASSUME CursorInv, AheadInv, [Next]_vars PROVE AheadInv'
  OBVIOUS
<1>0. /\ NumFiles \in Nat /\ resume.BLKFILE \in Nat /\ resume.BLKPOS \in Nat
      /\ blkfile_num \in Nat /\ blockPos \in Nat /\ blkfile_num <= NumFiles
  BY SizesAssumption DEF CursorInv, Types, TypeOK
<1>1. CASE set_parameter  BY <1>1 DEF set_parameter, AheadInv
<1>2. CASE ReadParameter  BY <1>0, <1>2 DEF ReadParameter, AheadInv
<1>3. CASE OpenFile  BY <1>0, <1>3 DEF OpenFile, StartPos, AheadInv
<1>4. CASE FilesEnd  BY <1>0, <1>4 DEF FilesEnd, AheadInv, locals
<1>5. CASE CloseFile
  <2>1. pc = "blocks" /\ pc' = "files" /\ blkfile_num' = blkfile_num + 1 /\ resume' = resume
    BY <1>5 DEF CloseFile
  <2>2. resume.BLKFILE <= blkfile_num
    BY <2>1 DEF CursorInv, BlocksOK
  <2> QED  BY <1>0, <2>1, <2>2 DEF AheadInv
<1>6. CASE StopAtBlock  BY <1>0, <1>6 DEF StopAtBlock, AheadInv
<1>7. CASE ProcessBlock
  <2>1. blkfile_num \in Files /\ opened
    BY <1>7 DEF ProcessBlock, BlocksOK, Located, AtEof, CursorInv
  <2>2. CurBlock \in [size : Nat, ntx : Nat, time : Int]
    BY SMTT(30), <1>7, <2>1, HereIsBlock DEF ProcessBlock, BlocksOK, Located, CursorInv
  <2>3. blockPos' = blockPos + CurBlock.size + 8 /\ CurBlock.size \in Nat
    BY <1>7, <2>2 DEF ProcessBlock
  <2>4. blockPos' \in Nat /\ blockPos <= blockPos'
    BY <1>0, <2>3
  <2> QED  BY <1>0, <1>7, <2>4 DEF ProcessBlock, AheadInv
<1>8. CASE SaveProgress  BY <1>8 DEF SaveProgress, AheadInv
<1>9. CASE statistical  BY <1>9 DEF statistical, AheadInv
<1>10. CASE Restart  BY <1>10 DEF Restart, AheadInv
<1>11. CASE UNCHANGED vars  BY <1>11 DEF vars, locals, AheadInv
<1> QED  BY <1>1, <1>2, <1>3, <1>4, <1>5, <1>6, <1>7, <1>8, <1>9, <1>10, <1>11 DEF Next, Program

(* A block before the cursor of the resume file stays before it.           *)
LEMMA CursorStep ==
  ASSUME CursorInv, AheadInv, [Next]_vars, NEW f \in Files, NEW n \in 1..BlockCount(f),
         BeforeCursor(f, n)
  PROVE  BeforeCursor(f, n)'
<1>1. CASE SaveProgress
  <2>1. /\ f \in Nat /\ f < NumFiles /\ NumFiles \in Nat
        /\ n \in 1..(BlockCount(f) + 1) /\ Offset[f][n] \in Nat
    BY FileFacts
  <2>2. /\ blkfile_num \in Nat /\ resume.BLKFILE \in Nat
        /\ blockPos \in Nat /\ resume.BLKPOS \in Nat
    BY <2>1 DEF CursorInv, Types, TypeOK
  <2>3. resume'.BLKFILE = blkfile_num /\ resume'.BLKPOS = blockPos /\ pc = "save"
    BY <1>1 DEF SaveProgress, Progress
  <2> QED  BY <2>1, <2>2, <2>3 DEF AheadInv, BeforeCursor
<1>2. CASE resume' = resume
  BY <1>2 DEF BeforeCursor
<1> QED
  BY <1>1, <1>2, Zenon
  DEF Next, Program, set_parameter, ReadParameter, OpenFile, FilesEnd, CloseFile,
                    StopAtBlock, ProcessBlock, statistical, Restart, vars

(* Months that are asked for again after a restart never take the cursor   *)
(* of the resume file back over a block, for all files, months, failing    *)
(* opens and restarts.                                                     *)
THEOREM CursorOnlyAdvances == Spec => CursorAdvances
<1>1. Init => AheadInv
  BY DEF Init, AheadInv
<1>2. CursorInv /\ AheadInv /\ [Next]_vars =>
         [\A f \in Files : \A n \in 1..BlockCount(f) : BeforeCursor(f, n) => BeforeCursor(f, n)']_vars
  BY CursorStep
<1> QED
  BY <1>1, <1>2, CursorInvInit, CursorInvNext, AheadNext, PTL DEF Spec, CursorAdvances
-----------------------------------------------------------------------------
(* The row that ProcessBlock appends, and the block it stands for.         *)
NewRow == [blknum |-> BlockNum, firsttx |-> txcounter, file |-> blkfile_num, n |-> Here]
LEMMA RowAppended ==
  ASSUME CursorInv, ProcessBlock
  PROVE  /\ blkfile_num \in Files
         /\ Here \in 1..BlockCount(blkfile_num)
         /\ blockPos = Offset[blkfile_num][Here]
         /\ CurBlock.size \in Nat /\ CurBlock.ntx \in Nat /\ CurBlock.time \in Int
         /\ blkinfo' # <<>> /\ blkinfo'[Len(blkinfo')] = NewRow
         /\ \A i \in DOMAIN blkinfo' : \/ i \in DOMAIN blkinfo /\ blkinfo'[i] = blkinfo[i]
                                       \/ blkinfo'[i] = NewRow
<1>1. blkfile_num \in Files /\ opened
  BY DEF ProcessBlock, BlocksOK, Located, AtEof, CursorInv
<1>2. PICK m \in 1..(BlockCount(blkfile_num) + 1) : blockPos = Offset[blkfile_num][m]
  BY DEF ProcessBlock, BlocksOK, Located, CursorInv
<1>3. /\ Here = m /\ Here \in 1..BlockCount(blkfile_num)
      /\ CurBlock \in [size : Nat, ntx : Nat, time : Int]
  BY <1>1, <1>2, HereIsBlock DEF ProcessBlock
<1>4. /\ blkinfo' = Append(blkinfo, NewRow)
      /\ blkinfo \in Seq([blknum : Int, firsttx : Nat, file : Files, n : Nat \ {0}])
  BY DEF ProcessBlock, NewRow, CursorInv, Types, TypeOK
<1>5. /\ blkinfo' # <<>> /\ blkinfo'[Len(blkinfo')] = NewRow
      /\ \A i \in DOMAIN blkinfo' : \/ i \in DOMAIN blkinfo /\ blkinfo'[i] = blkinfo[i]
                                    \/ blkinfo'[i] = NewRow
  BY <1>4, SMTT(30)
<1> QED  BY <1>1, <1>2, <1>3, <1>5

(* Without restarts the counter, or the resume file between two months,    *)
(* goes on behind the last transaction of the last row.                    *)
NextTx == LET last == blkinfo[Len(blkinfo)] IN last.firsttx + Blocks[last.file][last.n].ntx
TxInv == crashes = 0 /\ blkinfo # <<>> =>
    /\ pc \in {"main", "parameter", "statistical"} => resume.TXCOUNTER + 1 = NextTx
    /\ pc \in {"files", "blocks", "save"} => txcounter = NextTx

(* Every step hands the number of the last transaction on.                 *)
LEMMA TxNext == CursorInv /\ TxInv /\ [Next]_vars => TxInv'
<1> SUFFICES ASSUME CursorInv, TxInv, [Next]_vars PROVE TxInv'
  OBVIOUS
<1>0. resume.TXCOUNTER \in Int /\ txcounter \in Nat /\ crashes \in Nat
  BY SizesAssumption DEF CursorInv, Types, TypeOK
<1>a. blkinfo' = blkinfo => NextTx' = NextTx
  BY DEF NextTx
<1>1. CASE set_parameter  BY <1>a, <1>1 DEF set_parameter, TxInv
<1>2. CASE ReadParameter  BY <1>a, <1>2 DEF ReadParameter, FirstTransaction, TxInv
<1>3. CASE OpenFile  BY <1>a, <1>3 DEF OpenFile, TxInv
<1>4. CASE FilesEnd  BY <1>a, <1>4 DEF FilesEnd, locals, TxInv
<1>5. CASE CloseFile  BY <1>a, <1>5 DEF CloseFile, TxInv
<1>6. CASE StopAtBlock  BY <1>a, <1>6 DEF StopAtBlock, TxInv
<1>7. CASE ProcessBlock
  <2>1. NextTx' = NewRow.firsttx + Blocks[NewRow.file][NewRow.n].ntx
    BY <1>7, RowAppended DEF NextTx
  <2>2. NextTx' = txcounter + CurBlock.ntx
    BY <2>1 DEF NewRow, CurBlock
  <2> QED  BY <1>7, <2>2 DEF ProcessBlock, TxInv
<1>8. CASE SaveProgress
  <2>1. resume'.TXCOUNTER + 1 = txcounter
    BY <1>0, <1>8 DEF SaveProgress, Progress
  <2> QED  BY <1>a, <1>8, <2>1 DEF SaveProgress, TxInv
<1>9. CASE statistical  BY <1>a, <1>9 DEF statistical, TxInv
<1>10. CASE Restart
  <2>1. crashes' # 0  BY <1>0, <1>10 DEF Restart
  <2> QED  BY <2>1 DEF TxInv
<1>11. CASE UNCHANGED vars  BY <1>a, <1>11 DEF vars, locals, TxInv
<1> QED  BY <1>1, <1>2, <1>3, <1>4, <1>5, <1>6, <1>7, <1>8, <1>9, <1>10, <1>11 DEF Next, Program

(* The resume file that a month leaves behind names the last transaction   *)
(* that was processed.                                                     *)
LEMMA TxCursorHolds == Spec => []TxCursor
<1>1. Init => TxInv
  BY DEF Init, TxInv
<1>2. TxInv => TxCursor
  BY DEF TxInv, TxCursor, NextTx
<1> QED  BY <1>1, <1>2, CursorInvInit, CursorInvNext, TxNext, PTL DEF Spec
-----------------------------------------------------------------------------
(* The stop date is that of the month of the loop, and of the month before *)
(* it until set_parameter was called.                                      *)
MonthInv ==
    /\ pc # "main" => stoptm = Stops[para]
    /\ crashes = 0 /\ pc = "main" =>
          (para = 1 /\ blkinfo = <<>>) \/ (para > 1 /\ stoptm = Stops[para - 1])

(* Without restarts, every row is of a block that is old enough and that   *)
(* the loops, or the cursor between two months, have passed.               *)
InLoops == pc \in {"files", "blocks", "save"}
RowOK(f, n) == /\ n \in 1..BlockCount(f)
               /\ Blocks[f][n].time <= stoptm
               /\ BeforeCursor(f, n) \/ (InLoops /\ Passed(f, n))
RowsInv == crashes = 0 => \A f \in Files, n \in Nat : Recorded(f, n) => RowOK(f, n)

(* A month that ends before the last file ends at a younger block.         *)
StopsAt(f, p) == f = NumFiles \/ \E n \in 1..BlockCount(f) :
                                    p = Offset[f][n] /\ Blocks[f][n].time > stoptm
StopInv == /\ pc = "save" => StopsAt(blkfile_num, blockPos)
           /\ pc = "statistical" => StopsAt(resume.BLKFILE, resume.BLKPOS)

(* The times of the blocks are numbers.                                    *)
LEMMA TimeIsInt ==
  ASSUME NEW f \in Files, NEW n \in 1..BlockCount(f)
  PROVE  Blocks[f][n].time \in Int
<1>1. Blocks[f] \in Seq([size : Nat, ntx : Nat, time : Int]) /\ n \in 1..Len(Blocks[f])
  BY SizesAssumption DEF BlockCount
<1>2. \A S, q, i : q \in Seq(S) /\ i \in 1..Len(q) => q[i] \in S
  OBVIOUS
<1>3. Blocks[f][n] \in [size : Nat, ntx : Nat, time : Int]
  BY <1>1, <1>2, Zenon
<1> QED  BY <1>3

(* The stop date follows the loop over the months.                         *)
LEMMA MonthNext == CursorInv /\ MonthInv /\ [Next]_vars => MonthInv'
<1> SUFFICES ASSUME CursorInv, MonthInv, [Next]_vars PROVE MonthInv'
  OBVIOUS
<1>0. para \in Nat \ {0} /\ crashes \in Nat
  BY SizesAssumption DEF CursorInv, Types, TypeOK
<1>1. CASE set_parameter  BY <1>1 DEF set_parameter, MonthInv
<1>2. CASE ReadParameter  BY <1>2 DEF ReadParameter, MonthInv
<1>3. CASE OpenFile  BY <1>3 DEF OpenFile, MonthInv
<1>4. CASE FilesEnd  BY <1>4 DEF FilesEnd, MonthInv
<1>5. CASE CloseFile  BY <1>5 DEF CloseFile, MonthInv
<1>6. CASE StopAtBlock  BY <1>6 DEF StopAtBlock, MonthInv
<1>7. CASE ProcessBlock  BY <1>7 DEF ProcessBlock, MonthInv
<1>8. CASE SaveProgress  BY <1>8 DEF SaveProgress, MonthInv
<1>9. CASE statistical
  <2>1. para' > 1 /\ para' - 1 = para  BY <1>0, <1>9 DEF statistical, NextMonth
  <2> QED  BY <1>9, <2>1 DEF statistical, MonthInv
<1>10. CASE Restart
  <2>1. crashes' # 0  BY <1>0, <1>10 DEF Restart
  <2> QED  BY <1>10, <2>1 DEF Restart, MonthInv
<1>11. CASE UNCHANGED vars  BY <1>11 DEF vars, MonthInv
<1> QED  BY <1>1, <1>2, <1>3, <1>4, <1>5, <1>6, <1>7, <1>8, <1>9, <1>10, <1>11 DEF Next, Program

(* The loops of a month stop at a younger block or behind the last file,   *)
(* and there the cursor is saved.                                          *)
LEMMA StopNext == CursorInv /\ StopInv /\ [Next]_vars => StopInv'
<1> SUFFICES ASSUME CursorInv, StopInv, [Next]_vars PROVE StopInv'
  OBVIOUS
<1>1. CASE StopAtBlock
  <2>1. blkfile_num \in Files /\ opened
    BY <1>1 DEF StopAtBlock, BlocksOK, Located, AtEof, CursorInv
  <2>2. PICK m \in 1..(BlockCount(blkfile_num) + 1) : blockPos = Offset[blkfile_num][m]
    BY <1>1 DEF StopAtBlock, BlocksOK, Located, CursorInv
  <2>3. Here = m /\ m \in 1..BlockCount(blkfile_num)
    BY <1>1, <2>1, <2>2, HereIsBlock DEF StopAtBlock
  <2>4. Blocks[blkfile_num][m].time > stoptm
    BY <1>1, <2>3 DEF StopAtBlock, Younger, CurBlock
  <2> QED  BY <1>1, <2>2, <2>3, <2>4 DEF StopAtBlock, StopInv, StopsAt
<1>2. CASE FilesEnd
  <2>1. blkfile_num' = NumFiles
    BY <1>2, SizesAssumption DEF CursorInv, Types, TypeOK, FilesEnd, locals
  <2> QED  BY <1>2, <2>1 DEF FilesEnd, StopInv, StopsAt
<1>3. CASE SaveProgress
  <2>1. resume'.BLKFILE = blkfile_num /\ resume'.BLKPOS = blockPos
    BY <1>3 DEF SaveProgress, Progress
  <2> QED  BY <1>3, <2>1 DEF SaveProgress, StopInv, StopsAt
<1>4. CASE UNCHANGED vars
  BY <1>4 DEF vars, locals, StopInv, StopsAt
<1>5. CASE pc' \notin {"save", "statistical"}
  BY <1>5, SMTT(30) DEF StopInv
<1> QED
  BY <1>1, <1>2, <1>3, <1>4, <1>5, Zenon DEF Next, Program, set_parameter, ReadParameter, OpenFile,
     CloseFile, ProcessBlock, statistical, Restart

(* What is known of a block and of its place.                              *)
LEMMA BlockFacts ==
  ASSUME NEW f \in Files, NEW n \in 1..BlockCount(f)
  PROVE  /\ Blocks[f][n].time \in Int /\ Offset[f][n] \in Nat
         /\ f \in Nat /\ f < NumFiles /\ NumFiles \in Nat
<1>1. n \in 1..(BlockCount(f) + 1)
  BY FileFacts
<1> QED  BY <1>1, TimeIsInt, FileFacts

(* A block that was passed stays passed until the cursor is saved behind   *)
(* it, and the stop dates ascend: every row stays right.                   *)
LEMMA RowsNext ==
  CursorInv /\ AheadInv /\ MonthInv /\ RowsInv /\ [Next]_vars => RowsInv'
<1> SUFFICES ASSUME CursorInv, AheadInv, MonthInv, RowsInv, [Next]_vars, crashes' = 0,
                    NEW f \in Files, NEW n \in Nat, Recorded(f, n)'
             PROVE  RowOK(f, n)'
  BY DEF RowsInv
<1>0. /\ crashes = 0 /\ para \in 1..(Len(Stops) + 1) /\ Len(Stops) \in Nat /\ stoptm \in Int
      /\ blkfile_num \in Nat /\ blockPos \in Nat
      /\ resume.BLKFILE \in Nat /\ resume.BLKPOS \in Nat
  <2>1. crashes \in Nat /\ Len(Stops) \in Nat /\ NumFiles \in Nat
    BY SizesAssumption, SMTT(30) DEF CursorInv, Types, TypeOK
  <2>2. crashes' = crashes \/ crashes' = crashes + 1
    BY ZenonT(60) DEF Next, Program, set_parameter, ReadParameter, OpenFile, FilesEnd, CloseFile,
           StopAtBlock, ProcessBlock, SaveProgress, statistical, Restart, vars
  <2> QED  BY <2>1, <2>2 DEF CursorInv, Types, TypeOK
<1>1. ASSUME ProcessBlock, f = blkfile_num, n = Here PROVE RowOK(f, n)'
  <2>1. /\ n \in 1..BlockCount(f) /\ blockPos = Offset[f][n]
        /\ CurBlock.size \in Nat /\ CurBlock.time \in Int /\ CurBlock = Blocks[f][n]
    BY <1>1, RowAppended DEF CurBlock
  <2>a. /\ ~ (CurBlock.time > stoptm) /\ stoptm' = stoptm
        /\ blockPos' = blockPos + CurBlock.size + 8
    BY <1>1 DEF ProcessBlock, Younger
  <2>2. Blocks[f][n].time <= stoptm'
    <3>1. CurBlock.time \in Int /\ stoptm \in Int /\ ~ (CurBlock.time > stoptm)
      BY <1>0, <2>1, <2>a, Zenon
    <3>2. CurBlock.time <= stoptm
      BY <3>1
    <3> QED  BY <2>1, <2>a, <3>2, Zenon
  <2>3. Offset[f][n] < blockPos'
    <3>1. CurBlock.size \in Nat /\ blockPos \in Nat  BY <1>0, <2>1
    <3>2. blockPos < blockPos + CurBlock.size + 8  BY <3>1
    <3> QED  BY <2>1, <2>a, <3>2
  <2>4. InLoops' /\ Passed(f, n)'
    BY <1>1, <2>3 DEF ProcessBlock, InLoops, Passed
  <2> QED  BY <2>1, <2>2, <2>4 DEF RowOK
<1>2. CASE Recorded(f, n)
  <2>1. RowOK(f, n)
    BY <1>0, <1>2 DEF RowsInv
  <2>3. /\ n \in 1..BlockCount(f) /\ Blocks[f][n].time \in Int
        /\ f \in Nat /\ f < NumFiles /\ NumFiles \in Nat /\ Offset[f][n] \in Nat
    <3>1. n \in 1..BlockCount(f)  BY <2>1 DEF RowOK
    <3> QED  BY <3>1, BlockFacts, Zenon
  <2>4. Blocks[f][n].time <= stoptm'
    <3>1. CASE set_parameter
      <4>1. para > 1 /\ stoptm = Stops[para - 1]
        <5>1. blkinfo # <<>>  BY <1>2 DEF Recorded
        <5> QED  BY <1>0, <3>1, <5>1 DEF MonthInv, set_parameter
      <4>2. stoptm' = Stops[para] /\ Stops[para - 1] <= Stops[para] /\ Stops[para] \in Int
        BY <1>0, <3>1, <4>1, StopsAssumption, SizesAssumption DEF set_parameter
      <4>3. Blocks[f][n].time <= Stops[para - 1] /\ Stops[para - 1] \in Int
        BY <1>0, <2>1, <4>1, Zenon DEF RowOK
      <4>4. Blocks[f][n].time <= Stops[para]
        BY <2>3, <4>2, <4>3
      <4> QED  BY <4>2, <4>4, Zenon
    <3>2. CASE stoptm' = stoptm
      BY <2>1, <3>2 DEF RowOK
    <3> QED
      BY <3>1, <3>2, Zenon
      DEF Next, Program, ReadParameter, OpenFile, FilesEnd, CloseFile, StopAtBlock, ProcessBlock,
          SaveProgress, statistical, Restart, vars
  <2>5. BeforeCursor(f, n) => BeforeCursor(f, n)'
    BY <2>3, CursorStep
  <2>6. ASSUME InLoops, Passed(f, n)
        PROVE  BeforeCursor(f, n)' \/ (InLoops' /\ Passed(f, n)')
    <3>1. CASE OpenFile  BY <2>3, <2>6, <3>1 DEF OpenFile, InLoops, Passed
    <3>2. CASE FilesEnd
      BY <2>3, <2>6, <3>2, <1>0 DEF FilesEnd, InLoops, Passed, locals
    <3>3. CASE CloseFile  BY <1>0, <2>3, <2>6, <3>3 DEF CloseFile, InLoops, Passed
    <3>4. CASE StopAtBlock  BY <2>6, <3>4, Zenon DEF StopAtBlock, InLoops, Passed
    <3>5. CASE ProcessBlock
      <4>1. blockPos <= blockPos' /\ blockPos' \in Nat
        <5>1. blockPos' = blockPos + CurBlock.size + 8  BY <3>5 DEF ProcessBlock
        <5>2. CurBlock.size \in Nat  BY <3>5, RowAppended
        <5> QED  BY <1>0, <5>1, <5>2, SMTT(30)
      <4>2. InLoops' /\ blkfile_num' = blkfile_num /\ pc' = pc
        BY <2>6, <3>5, Zenon DEF ProcessBlock, InLoops
      <4>3. f = blkfile_num => Offset[f][n] < blockPos'
        BY <1>0, <2>3, <2>6, <4>1 DEF Passed
      <4> QED  BY <2>6, <4>2, <4>3, Zenon DEF Passed
    <3>6. CASE SaveProgress
      BY <2>3, <2>6, <3>6 DEF SaveProgress, Progress, InLoops, Passed, BeforeCursor
    <3>7. CASE UNCHANGED vars  BY <2>6, <3>7 DEF vars, locals, InLoops, Passed
    <3>8. ~ set_parameter /\ ~ ReadParameter /\ ~ statistical
      BY <2>6 DEF InLoops, set_parameter, ReadParameter, statistical
    <3>9. ~ Restart
      BY <1>0 DEF Restart
    <3> QED
      BY <3>1, <3>2, <3>3, <3>4, <3>5, <3>6, <3>7, <3>8, <3>9, SMTT(30) DEF Next, Program
  <2> QED  BY <2>1, <2>3, <2>4, <2>5, <2>6, Zenon DEF RowOK
<1>3. CASE blkinfo' = blkinfo
  BY <1>2, <1>3 DEF Recorded
<1>4. CASE ProcessBlock
  <2>1. PICK i \in DOMAIN blkinfo' : blkinfo'[i].file = f /\ blkinfo'[i].n = n
    BY DEF Recorded
  <2>2. \/ i \in DOMAIN blkinfo /\ blkinfo'[i] = blkinfo[i]
        \/ blkinfo'[i] = NewRow
    BY <1>4, RowAppended, SMTT(30)
  <2>3. CASE i \in DOMAIN blkinfo /\ blkinfo'[i] = blkinfo[i]
    BY <1>2, <2>1, <2>3 DEF Recorded
  <2>4. CASE blkinfo'[i] = NewRow
    <3>1. NewRow.file = blkfile_num /\ NewRow.n = Here
      BY DEF NewRow
    <3> QED  BY <1>1, <1>4, <2>1, <2>4, <3>1, Zenon
  <2> QED  BY <2>2, <2>3, <2>4
<1> QED
  BY <1>3, <1>4, Zenon
  DEF Next, Program, set_parameter, ReadParameter, OpenFile, FilesEnd, CloseFile,
                    StopAtBlock, SaveProgress, statistical, Restart, vars

(* When the statistics of a month run, exactly the blocks before the first *)
(* one that is younger than the month are in the database (more only after *)
(* a restart), and the resume file names the last transaction.             *)
THEOREM MonthCloses == Spec => []MonthIsClosed
<1>1. Init => AheadInv /\ MonthInv /\ StopInv /\ RowsInv /\ SkipInv
  <2>1. Init => AheadInv /\ MonthInv /\ StopInv /\ RowsInv
    BY DEF Init, AheadInv, MonthInv, StopInv, RowsInv, Recorded
  <2> QED  BY <2>1, SkipInit
<1>2. ASSUME CursorInv, SkipInv, StopInv, RowsInv, pc = "statistical", openErrors = {},
             NEW f \in Files, NEW n \in 1..BlockCount(f)
      PROVE  /\ OldEnough(f, n) => Recorded(f, n)
             /\ crashes = 0 /\ Recorded(f, n) => OldEnough(f, n)
  <2>0. /\ f \in Nat /\ f < NumFiles /\ n \in Nat
        /\ resume.BLKFILE \in 0..NumFiles /\ resume.BLKPOS \in Nat /\ NumFiles \in Nat
        /\ stoptm \in Int
    <3>1. f \in Nat /\ f < NumFiles /\ n \in Nat /\ NumFiles \in Nat
      BY FileFacts, OffsetsAscend
    <3>2. resume.BLKFILE \in 0..NumFiles /\ resume.BLKPOS \in Nat /\ stoptm \in Int
      BY <1>2 DEF CursorInv, Types, TypeOK
    <3> QED  BY <3>1, <3>2
  <2>1. \A g \in Files : \A m \in 1..BlockCount(g) : BeforeCursor(g, m) => Recorded(g, m)
    BY <1>2 DEF SkipInv, NothingSkipped
  <2>2. ASSUME OldEnough(f, n) PROVE Recorded(f, n)
    <3>1. CASE resume.BLKFILE = NumFiles
      BY <2>0, <2>1, <3>1 DEF BeforeCursor
    <3>2. CASE resume.BLKFILE # NumFiles
      <4> DEFINE g == resume.BLKFILE
      <4>1. g \in Files
        BY <2>0, <3>2 DEF Files
      <4>2. PICK m \in 1..BlockCount(g) :
               resume.BLKPOS = Offset[g][m] /\ Blocks[g][m].time > stoptm
        BY <1>2, <3>2 DEF StopInv, StopsAt
      <4>3. ~ (Blocks[g][m].time <= stoptm)
        BY <2>0, <4>1, <4>2, TimeIsInt
      <4>4. ~ (g \in 0..f /\ (g < f \/ m <= n))
        BY <2>2, <4>2, <4>3 DEF OldEnough
      <4>5. f < g \/ (f = g /\ n < m)
        <5>1. g \in Nat /\ m \in Nat
          BY <4>1, FileFacts
        <5>2. g \in 0..f <=> g <= f
          BY <2>0, <5>1
        <5> QED  BY <2>0, <4>4, <5>1, <5>2
      <4>6. f = g /\ n < m => Offset[f][n] < Offset[f][m]
        BY <4>2, OffsetsAscend
      <4> QED  BY <2>1, <4>2, <4>5, <4>6 DEF BeforeCursor
    <3> QED  BY <3>1, <3>2
  <2>3. ASSUME crashes = 0, Recorded(f, n), NEW g \in 0..f, NEW m \in 1..BlockCount(g),
               g < f \/ m <= n
        PROVE  Blocks[g][m].time <= stoptm
    <3>1. BeforeCursor(f, n)
      BY <1>2, <2>0, <2>3 DEF RowsInv, RowOK, InLoops
    <3>2. g \in Files /\ g \in Nat
      BY <2>0 DEF Files
    <3>3. g = f /\ m < n => Offset[f][m] < Offset[f][n] /\ Offset[f][m] \in Nat /\ Offset[f][n] \in Nat
      BY OffsetsAscend
    <3>4. m \in Nat
      BY <3>2, FileFacts
    <3>5. BeforeCursor(g, m)
      BY <2>0, <2>3, <3>1, <3>2, <3>3, <3>4 DEF BeforeCursor
    <3>6. Recorded(g, m)
      BY <2>1, <3>2, <3>5
    <3> QED  BY <1>2, <2>3, <3>2, <3>4, <3>6 DEF RowsInv, RowOK
  <2> QED  BY <2>2, <2>3 DEF OldEnough
<1>3. CursorInv /\ SkipInv /\ StopInv /\ RowsInv => MonthComplete
  BY <1>2 DEF MonthComplete
<1>4. Spec => []MonthComplete
  BY <1>1, <1>3, CursorInvInit, CursorInvNext, AheadNext, MonthNext, StopNext, RowsNext, SkipNext,
     PTL DEF Spec
<1> QED  BY <1>4, TxCursorHolds, PTL DEF MonthIsClosed
=============================================================================
