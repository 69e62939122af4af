------------------------------ MODULE MCTables ------------------------------
(***************************************************************************)
(* The memtable and its memory, the parts from which table files are made, *)
(* and the levels of tables, side by side: a behaviour is one of a single  *)
(* part, the others rest.                                                  *)
(*   "arena"    Arena: pieces of five sizes                                *)
(*   "mem"      MemTable: batches of two records, two keys, a reader       *)
(*   "block"    BlockIter: a block and its iterator                        *)
(*   "table"    Table: one table; "tables": two that follow one another    *)
(*   "snappy"   Snappy: compression and decompression, also of damaged     *)
(*              data                                                       *)
(*   "cache"    LruCache: the cache of open tables, two threads            *)
(*   "levels"   Levels: writes and deletions of three keys, four levels;   *)
(*              "snapshots": snapshots, two keys; "zero": memtables go to  *)
(*              level 0, CompactRange                                      *)
(***************************************************************************)
EXTENDS MemTable, Arena

CONSTANTS Thread, Parts

VARIABLES part
VARIABLES b, finished, it, keys, at                                     \* BlockIter
VARIABLES r, fb, file, footer, table, cache, last_id_, got, added       \* Table
VARIABLES input, chunks, pc, base, N, ip, next_emit, candidate, hashtable, skip,
          out, reach, read, uip, op, mem, damaged                       \* Snappy
VARIABLES entry, lru_, list_, length_, elems_, usage_, thread           \* LruCache
VARIABLES memtable, files_, compact_pointer_, snapshots_, last_sequence, number, c,
          written, taken                                                \* Levels

blockVars == <<b, finished, it, keys, at>>
tableVars == <<r, fb, file, footer, table, cache, last_id_, got, added>>
snappyVars == <<input, chunks, pc, base, N, ip, next_emit, candidate, hashtable, skip,
                out, reach, read, uip, op, mem, damaged>>
cacheVars == <<entry, lru_, list_, length_, elems_, usage_, thread>>
levelVars == <<memtable, files_, compact_pointer_, snapshots_, last_sequence, number, c,
               written, taken>>

-----------------------------------------------------------------------------
Internal(u, seq, type) == Append(u, 2 * seq + type)

\* Keys that are prefixes of one another, with bytes at the limit, in two versions.
BlockKeys == {Internal(u, 2, 1) : u \in {<<>>, <<0>>, <<0, 0>>, <<0, 2>>, <<1, 2>>, <<2>>, <<2, 2>>}}
               \cup {Internal(u, 1, 0) : u \in {<<0, 2>>, <<2>>}}
B == INSTANCE BlockIter WITH
        MaxByte <- 2, kMaxSequenceNumber <- 3, Keys <- BlockKeys, added <- keys,
        block_restart_interval <- 2, MaxEntries <- 10

\* Keys between which there is room for a shorter one, and one in three versions.
UserKeys == {<<0, 1>>, <<2, 0>>, <<2, 3>>, <<3, 3>>}
ManyKeys == {Internal(u, 2, 1) : u \in UserKeys} \cup {Internal(<<2, 0>>, 1, 1), Internal(<<2, 0>>, 4, 0)}
FewKeys == {Internal(u, 2, 1) : u \in {<<0, 1>>, <<2, 0>>, <<2, 3>>}}
\* The keys themselves, keys that shortened keys may equal, and keys past the end.
ManyLookups == {Internal(u, 3, 1) : u \in {<<0, 1>>, <<1>>, <<2, 0>>, <<2, 3>>, <<3, 3, 3>>}}
                 \cup {Internal(<<2, 0>>, 1, 1)}
FewLookups == {Internal(u, 3, 1) : u \in {<<0, 1>>, <<1>>, <<2, 0>>, <<2, 3>>}}
\* Two keys with one hash; others that share a bit.
BloomHash == [u \in UserKeys \cup {<<1>>, <<3, 3, 3>>} |->
                 CASE u \in {<<0, 1>>, <<1>>} -> 200
                   [] u = <<2, 0>> -> 67
                   [] u = <<2, 3>> -> 3
                   [] u = <<3, 3>> -> 255
                   [] OTHER -> 114]
\* Data blocks that shrink, some index blocks, and the metaindex block.
Compressible == {Internal(<<2, 0>>, 2, 1), Internal(<<3, 3>>, 2, 1), <<0>>, Internal(<<3>>, 7, 1)}
T == INSTANCE Table WITH
        MaxByte <- 3, kMaxSequenceNumber <- 7, Keys <- ManyKeys, LookupKeys <- ManyLookups,
        ValueBytes <- 4, block_size <- 24, block_restart_interval <- 2, kFilterBase <- 32,
        bits_per_key_ <- 4, MinBits <- 8, k_ <- 2, HashBits <- 8, Rotate <- 5,
        MaxEntries <- 6, MaxTables <- 1
\* Smaller tables, one after the other, whose blocks have the same offsets.
TT == INSTANCE Table WITH
        MaxByte <- 3, kMaxSequenceNumber <- 7, Keys <- FewKeys, LookupKeys <- FewLookups,
        ValueBytes <- 4, block_size <- 17, block_restart_interval <- 2, kFilterBase <- 12,
        bits_per_key_ <- 4, MinBits <- 8, k_ <- 2, HashBits <- 8, Rotate <- 5,
        MaxEntries <- 8, MaxTables <- 2

Chunks == {<<1>>, <<1, 2, 1>>, <<1, 2, 3, 4, 5>>,
           [j \in 1..260 |-> (7 * j) % 251], [j \in 1..70 |-> 1]}
S == INSTANCE Snappy WITH
        table <- hashtable, MaxChunks <- 3, MaxLength <- 340, kBlockSize <- 300, table_size <- 128,
        Pointer <- 4, Damages <- {1, 254}, DamageReach <- 8, Junk <- 999

L == INSTANCE LruCache WITH
        File <- 1..4, Handle <- 1..6, Capacity <- 40, kNumShards <- 16, MinLength <- 1

V == INSTANCE Levels WITH Key <- 1..3, Types <- {"value", "deletion"}, Manual <- {},
        mem <- memtable, MaxWrites <- 4, MaxSnapshots <- 0, kNumLevels <- 4,
        kMaxMemCompactLevel <- 2, kL0_CompactionTrigger <- 2, kTargetFileSize <- 2,
        kMaxBytes <- 2, kMultiplier <- 2, kMaxGrandParentOverlapBytes <- 2,
        kExpandedCompactionByteSizeLimit <- 6
VS == INSTANCE Levels WITH Key <- 1..2, Types <- {"value", "deletion"}, Manual <- {},
        mem <- memtable, MaxWrites <- 3, MaxSnapshots <- 2, kNumLevels <- 4,
        kMaxMemCompactLevel <- 2, kL0_CompactionTrigger <- 2, kTargetFileSize <- 9,
        kMaxBytes <- 2, kMultiplier <- 2, kMaxGrandParentOverlapBytes <- 2,
        kExpandedCompactionByteSizeLimit <- 6
VZ == INSTANCE Levels WITH Key <- 1..3, Types <- {"value"}, Manual <- {<<1, 1>>},
        mem <- memtable, MaxWrites <- 4, MaxSnapshots <- 0, kNumLevels <- 3,
        kMaxMemCompactLevel <- 0, kL0_CompactionTrigger <- 2, kTargetFileSize <- 2,
        kMaxBytes <- 2, kMultiplier <- 2, kMaxGrandParentOverlapBytes <- 2,
        kExpandedCompactionByteSizeLimit <- 6

-----------------------------------------------------------------------------
MCInit == /\ part \in Parts
          /\ Init /\ B!Init /\ T!Init /\ S!Init /\ L!Init /\ ArenaInit
          /\ IF part = "zero" THEN VZ!Init ELSE V!Init

(* What the other parts are made of.                                       *)
formats == <<blockVars, tableVars, snappyVars, cacheVars>>
memory == <<vars, arenaVars>>
OfMemory == \/ part = "mem" /\ Next /\ UNCHANGED arenaVars
            \/ part = "arena" /\ ArenaNext /\ UNCHANGED vars
OfTables ==
    \/ part = "block" /\ B!Next /\ UNCHANGED <<tableVars, snappyVars, cacheVars>>
    \/ part = "table" /\ T!Next /\ UNCHANGED <<blockVars, snappyVars, cacheVars>>
    \/ part = "tables" /\ TT!Next /\ UNCHANGED <<blockVars, snappyVars, cacheVars>>
    \/ part = "snappy" /\ S!Next /\ UNCHANGED <<blockVars, tableVars, cacheVars>>
    \/ part = "cache" /\ L!Next /\ UNCHANGED <<blockVars, tableVars, snappyVars>>
OfLevels == \/ part = "levels" /\ V!Next
            \/ part = "snapshots" /\ VS!Next
            \/ part = "zero" /\ VZ!Next
\* Nobody has to allocate or to write.
Rests == part \in {"arena", "levels", "snapshots", "zero"} /\ UNCHANGED <<formats, memory, levelVars>>
MCNext == /\ \/ OfMemory /\ UNCHANGED <<formats, levelVars>>
             \/ OfTables /\ UNCHANGED <<memory, levelVars>>
             \/ OfLevels /\ UNCHANGED <<formats, memory>>
             \/ Rests
          /\ UNCHANGED part
MCSpec == MCInit /\ [][MCNext]_<<part, formats, memory, levelVars>>

-----------------------------------------------------------------------------
(* BlockIter: the iterator of a block stands at the entry that a walk over *)
(* the added keys gives, however it came there, and restart_index_ is that *)
(* of the entry, or of the next.                                           *)
BlockIterStands == part = "block" => B!StandsRight /\ B!RestartIndexNear
(* Table: a lookup that does not fail finds the newest entry of its user   *)
(* key, through filter, index, compression and cache, of one table and of  *)
(* two that follow one another; the keys of the index separate the data    *)
(* blocks, and approximate offsets are in the order of the keys.           *)
TableIsRight == /\ part = "table" => T!GetIsRight /\ T!IndexSeparates /\ T!OffsetsGrow
                /\ part = "tables" => TT!GetIsRight
(* Snappy: what was compressed is what comes out, the fast paths stay      *)
(* inside the buffers, and the validator accepts what the decompressor     *)
(* accepts.                                                                *)
SnappyIsRight == part = "snappy" =>
                     S!UncompressesBack /\ S!CopiesStayInside /\ S!ValidatorAgrees
(* LruCache: a table is not closed under the thread that uses it, each     *)
(* reference has the cache or a thread behind it, and only tables in use   *)
(* keep the cache above its capacity.                                      *)
CacheIsRight == part = "cache" => L!StaysOpen /\ L!NothingLeaks /\ L!WithinCapacity
(* Levels: a read finds, for the present and for every snapshot held, the  *)
(* newest write that it may see; the files of a level above 0 are in order *)
(* and do not overlap; and while memtables go to level 0, an older entry   *)
(* of a key is never above a newer one.                                    *)
LevelsAreRight == /\ part = "levels" => V!GetIsLatest /\ V!LevelsDisjoint
                  /\ part = "snapshots" => VS!GetIsLatest /\ VS!LevelsDisjoint
                  /\ part = "zero" => VZ!GetIsLatest /\ VZ!LevelsDisjoint /\ VZ!NewerIsAbove
=============================================================================
