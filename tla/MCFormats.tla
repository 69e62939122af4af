----------------------------- MODULE MCFormats -----------------------------
(***************************************************************************)
(* What turns bytes into values and back, side by side: the columns of the *)
(* application's database, the blocks of the block files, output scripts,  *)
(* hash functions, LevelDB's version edits, file names and log files. A    *)
(* behaviour is a behaviour of one of them, the one that part names; the   *)
(* others stay as they are.                                                *)
(***************************************************************************)
EXTENDS EntityCodec, Sequences

CONSTANT Parts

VARIABLES part
VARIABLES block, blocknumber, transSec, pc, transPos, trans_count, k, tx, txcounter,
          sumoutvalue, blockReward, processed                       \* BlockParse
VARIABLES script, scan, address, decodeOK                           \* OutAddress
VARIABLES given, sc, digest                                         \* Digest
VARIABLES edit                                                      \* VersionEdit
VARIABLES name, made                                                \* FileName
VARIABLES content, flushed, state, _file_offset, _map_size, _mapped, _dst, _last_sync,
          _pending_sync, src, appended, synced, failed, errors,
          block_offset_, calls, ignored, added, acked               \* LogFormat

parseVars == <<block, blocknumber, transSec, pc, transPos, trans_count, k, tx, txcounter,
               sumoutvalue, blockReward, processed>>
scriptVars == <<script, scan, address, decodeOK>>
digestVars == <<given, sc, digest>>
nameVars == <<name, made>>
logVars == <<content, flushed, state, _file_offset, _map_size, _mapped, _dst, _last_sync,
             _pending_sync, src, appended, synced, failed, errors,
             block_offset_, calls, ignored, added, acked>>

-----------------------------------------------------------------------------
\* The ids around every power of two that TLC's integers hold.
MCIds == UNION {{2 ^ n - 1, 2 ^ n, 2 ^ n + 1} : n \in 0..30}

\* Bytes are digits in base 8, so that 5, 6 and 7 are the marks 0xfd, 0xfe and 0xff: a script of
\* five bytes has a two-byte length, one of 64 a four-byte length. Integers of four and of eight
\* bytes have three digits.
In(s) == [hash |-> 3, index |-> 9, script |-> s, seq |-> 70]
Out(v, s) == [val |-> v, script |-> s]
Tx(ins, outs) == [ver |-> 1, ins |-> ins, outs |-> outs, lock_time |-> 511]
Coinbases == {Tx(<<In(s)>>, <<Out(v, <<1>>)>>) : s \in {<<>>, <<7, 5>>}, v \in {5, 9, 10, 60}}
               \cup {Tx(<<In(<<>>)>>, <<Out(6, <<>>), Out(5, <<6>>)>>)}
Bodies == {<<>>, <<7, 5>>, [i \in 1..4 |-> 6], [i \in 1..5 |-> 1], [i \in 1..64 |-> 7]}
Txs == {Tx(<<In(s)>>, <<Out(63, t)>>) : s, t \in Bodies}
         \cup {Tx([i \in 1..n |-> In(<<i>>)], [i \in 1..(7 - n) |-> Out(i, <<i>>)]) : n \in {1, 5}}
MCBlocks == {<<c>> : c \in Coinbases}
              \cup {<<c, t>> : c \in Coinbases, t \in Txs}
              \cup {<<Tx(<<In(<<>>)>>, <<Out(10, <<>>)>>), t, t, t, t>> : t \in Txs}
P == INSTANCE BlockParse WITH
        Base <- 8, U16 <- 2, U32 <- 3, U64 <- 3, HashLen <- 2, Blocks <- MCBlocks,
        Heights <- {1, 2, 3}, Halving <- 2, Subsidy <- 10, HalfSubsidy <- 5,
        FirstCounter <- 10, Unprocessed <- {12, 14}

\* Every form of script, with the bytes of the owner taken from a few patterns, among them bytes
\* that are also opcodes, and with up to two more bytes before and after it.
Owner(n, b) == [i \in 1..n |-> IF i = 1 THEN b ELSE 200 + (i % 50)]
Forms ==
    UNION {{<<118, 169, 20>> \o Owner(20, b) \o <<136, 172>>, <<169, 20>> \o Owner(20, b) \o <<135>>,
            <<20>> \o Owner(20, b) \o <<177, 117>>, <<65>> \o Owner(65, b) \o <<172>>,
            <<33>> \o Owner(33, b) \o <<172>>, <<32>> \o Owner(32, b), <<36>> \o Owner(36, b),
            <<106, 20>> \o Owner(20, b), <<81, 33>> \o Owner(33, b) \o <<81, 174>>,
            Owner(17, b)} : b \in {1, 2, 4, 20, 169}}
Around == {<<>>, <<0>>, <<118>>, <<0, 0>>, <<118, 169>>}
MCScripts == {p \o f \o q : p, q \in Around, f \in Forms}
A == INSTANCE OutAddress WITH Scripts <- MCScripts, state <- scan

H == INSTANCE Digest WITH Block <- 16, Field <- 3, MaxLength <- 66

\* Groups of two bits; a byte of a slice may look like a tag, a length or a marked group.
V == INSTANCE VersionEdit WITH
        B <- 4, Groups32 <- 3, Width32 <- 5, Groups64 <- 4, Width64 <- 7, kNumLevels <- 7,
        Numbers <- {0, 127}, Levels <- {6}, Slices <- {<<7>>, <<1, 9, 2>>}, MaxFields <- 3
F == INSTANCE FileName WITH
        kMaxUint64 <- 127, Pad <- 2, ForeignDigits <- {0, 1, 2, 7, 8}, MaxDigits <- 4
W == INSTANCE LogFormat WITH
        Existing <- <<>>, MapSize <- 6, MaxMapSize <- 12, PageSize <- 2, MaxMapErrors <- 1,
        kBlockSize <- 7, kHeaderSize <- 3, Sizes <- {0, 1, 3, 4, 9}, MaxRecords <- 3

-----------------------------------------------------------------------------
\* The parts with many initial states, when they are not the one that moves.
CodecRests == id = 1 /\ column = Default /\ decoded = Pending
ParseRests ==
    /\ block = <<>> /\ blocknumber = 0 /\ transSec = <<>> /\ pc = "rests" /\ transPos = 0
    /\ trans_count = 0 /\ k = 0 /\ tx = <<>> /\ txcounter = 0 /\ sumoutvalue = 0
    /\ blockReward = 0 /\ processed = <<>>
ScriptRests == script = <<>> /\ scan = "rests" /\ address = <<>> /\ decodeOK = FALSE

MCInit ==
    /\ part \in Parts
    /\ \/ part = "codec" /\ CodecInit
       \/ part # "codec" /\ CodecRests
    /\ \/ part = "parse" /\ P!Init
       \/ part # "parse" /\ ParseRests
    /\ \/ part = "script" /\ A!Init
       \/ part # "script" /\ ScriptRests
    /\ H!Init /\ V!Init /\ F!Init /\ W!Init
MCNext ==
    \/ /\ part = "codec" /\ CodecNext
       /\ UNCHANGED <<part, parseVars, scriptVars, digestVars, edit, nameVars, logVars>>
    \/ /\ part = "parse" /\ P!Next
       /\ UNCHANGED <<part, codecVars, scriptVars, digestVars, edit, nameVars, logVars>>
    \/ /\ part = "script" /\ A!Next
       /\ UNCHANGED <<part, codecVars, parseVars, digestVars, edit, nameVars, logVars>>
    \/ /\ part = "digest" /\ H!Next
       /\ UNCHANGED <<part, codecVars, parseVars, scriptVars, edit, nameVars, logVars>>
    \/ /\ part = "edit" /\ V!Next
       /\ UNCHANGED <<part, codecVars, parseVars, scriptVars, digestVars, nameVars, logVars>>
    \/ /\ part = "name" /\ F!Next
       /\ UNCHANGED <<part, codecVars, parseVars, scriptVars, digestVars, edit, logVars>>
    \/ /\ part = "log" /\ W!Next
       /\ UNCHANGED <<part, codecVars, parseVars, scriptVars, digestVars, edit, nameVars>>
MCSpec ==
    MCInit /\ [][MCNext]_<<part, codecVars, parseVars, scriptVars, digestVars, edit, nameVars,
                           logVars>>

-----------------------------------------------------------------------------
(* BlockParse: each transaction arrives as it was written to the block,    *)
(* and the reward passed on is what the coinbase adds to the subsidy of    *)
(* its height.                                                             *)
BlocksAreRead == part = "parse" => P!ParsedAsWritten /\ P!RewardIsFees
(* OutAddress: the owner's bytes in a script of a common form determine    *)
(* its address, and the address of any script is made of its own bytes,    *)
(* but for two addresses that stand for owners that were not recognised.   *)
OneOwner == part = "script" => A!OwnersAddress /\ A!MadeOfScript
(* Digest: however a message is cut into calls of sha256_update, the       *)
(* context holds what a single call would have left, and the compressed    *)
(* blocks are those of the padded message.                                 *)
HashesWholeMessage == part = "digest" => H!ContextIsPrefix /\ H!BlocksOfPaddedMessage
(* VersionEdit: what recovery decodes is what was encoded, and a record    *)
(* that was cut off never names what was not written.                      *)
ManifestReadsBack == part = "edit" => V!RoundTrip /\ V!CutIsNoLie
(* FileName: the database recognises the names it makes, and the number it *)
(* reads from any name is the one in the name.                             *)
NamesAreOwn == part = "name" => F!OwnIsRecognised /\ F!NumberIsShown
(* MapFile: the file is what was appended and then zeros, at every moment  *)
(* at which the process may end; what was appended before Sync returned OK *)
(* has been flushed, or an earlier Sync failed to flush it; and a closed   *)
(* file is exactly what was appended.                                      *)
FileIsExact == part = "log" => W!ThenZeros /\ W!SyncedIsFlushed /\ W!ClosedIsExact
(* LogFormat: a reader gets the records that were added, in order, up to   *)
(* the first that failed or was cut off; no part of a record is taken for  *)
(* a record; and a log that was closed is read without a report.           *)
LogReadsBack == part = "log" => W!ReadsBack /\ W!NothingTorn /\ W!ClosedIsClean
=============================================================================
