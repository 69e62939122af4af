-------------------------------- MODULE Table --------------------------------
(***************************************************************************)
(* A table file from TableBuilder::Add to Table::InternalGet: data blocks, *)
(* the filter block with its Bloom filters, the index block whose entries  *)
(* wait for the first key of the next data block, and a reader that goes   *)
(* through index, filter and block cache. A block is in the file as the    *)
(* builder finished it or, where that is shorter, compressed.              *)
(***************************************************************************)
EXTENDS Block

CONSTANTS
    Keys,                       \* the internal keys that may be added
    LookupKeys,
    ValueBytes, block_size, block_restart_interval,
    kFilterBase,                \* data per filter
    bits_per_key_, MinBits, k_, \* the Bloom filter
    BloomHash, HashBits, Rotate,
    Compressible,               \* blocks that end in these keys shrink to a half
    None,
    MaxEntries, MaxTables

VARIABLES
    r,          \* TableBuilder::Rep
    fb,         \* FilterBlockBuilder
    file,       \* the blocks in the file: offset, size, contents
    footer,
    table,      \* the open table
    cache,      \* the block cache
    last_id_,
    got,        \* the last InternalGet
    added       \* the keys added to the table

vars == <<r, fb, file, footer, table, cache, last_id_, got, added>>

kBlockTrailerSize == 5
kEncodedLength == 48

-----------------------------------------------------------------------------
(* The Bloom filter of a list of user keys: a set of bit positions.        *)
Probes(h, bits, k) ==
    LET w == 2^HashBits
        delta == (h \div 2^Rotate + h * 2^(HashBits - Rotate)) % w
    IN {((h + j * delta) % w) % bits : j \in 0..(k - 1)}
FilterBytes(n) == (Max({n * bits_per_key_, MinBits}) + 7) \div 8
CreateFilter(keys) ==
    LET bytes == FilterBytes(Len(keys))
    IN [bytes |-> bytes, k |-> k_,
        bits |-> UNION {Probes(BloomHash[keys[i]], bytes * 8, k_) : i \in DOMAIN keys}]
BloomMayMatch(u, f) == Probes(BloomHash[u], f.bytes * 8, f.k) \subseteq f.bits

(* FilterBlockBuilder: result_ is the filters, each at an offset.          *)
NewFilterBlock == [start |-> <<>>, result |-> <<>>, size |-> 0, offsets |-> <<>>]
GenerateFilter(f) ==
    IF f.start = <<>> THEN [f EXCEPT !.offsets = Append(@, f.size)]
    ELSE LET new == CreateFilter([i \in DOMAIN f.start |-> ExtractUserKey(f.start[i])])
         IN [start |-> <<>>, result |-> Append(f.result, [at |-> f.size, filter |-> new]),
             size |-> f.size + new.bytes + 1, offsets |-> Append(f.offsets, f.size)]
RECURSIVE StartBlock(_, _)
StartBlock(f, offset) ==
    IF offset \div kFilterBase > Len(f.offsets) THEN StartBlock(GenerateFilter(f), offset) ELSE f
FinishFilter(f) == IF f.start = <<>> THEN f ELSE GenerateFilter(f)
FilterSize(f) == f.size + 4 * Len(f.offsets) + 5
(* FilterBlockReader: the offset after the last filter's is the array's.   *)
FilterMayMatch(f, offset, u) ==
    LET index == offset \div kFilterBase
        start == f.offsets[index + 1]
        limit == IF index + 1 < Len(f.offsets) THEN f.offsets[index + 2] ELSE f.size
    IN IF index >= Len(f.offsets) THEN TRUE
       ELSE IF start = limit THEN FALSE
       ELSE \E i \in DOMAIN f.result :
               f.result[i].at = start /\ BloomMayMatch(u, f.result[i].filter)

-----------------------------------------------------------------------------
(* TableBuilder: t is the builder's state with the filter and the file,    *)
(* and the handles of the block written last and of the metaindex block.   *)
NoHandle == [offset |-> 0, size |-> 0]
Builder == [r |-> r, fb |-> fb, file |-> file, last |-> NoHandle, meta |-> NoHandle]
SetBuilder(t) == r' = t.r /\ fb' = t.fb /\ file' = t.file
NewRep == [data |-> EmptyBlock, index |-> EmptyBlock, offset |-> 0, last_key |-> <<>>, ok |-> TRUE,
           closed |-> FALSE, pending |-> FALSE, handle |-> NoHandle]
VarintLength(v) == IF v < 128 THEN 1 ELSE IF v < 128 * 128 THEN 2 ELSE 3
HandleBytes(h) == VarintLength(h.offset) + VarintLength(h.size)
\* works: both calls of Append succeed.
WriteRawBlock(t, contents, size, works) ==
    [t EXCEPT !.last = [offset |-> t.r.offset, size |-> size],
              !.r.ok = works,
              !.r.offset = IF works THEN @ + size + kBlockTrailerSize ELSE @,
              !.file = IF works THEN Append(@, [offset |-> t.r.offset, size |-> size, contents |-> contents])
                       ELSE @]
\* Compressed, a block has to be shorter by an eighth at least.
StoredSize(block, raw) ==
    IF block.last_key \in Compressible /\ raw \div 2 < raw - raw \div 8 THEN raw \div 2 ELSE raw
WriteBlock(t, block, works) ==
    WriteRawBlock(t, block, StoredSize(block, CurrentSizeEstimate(block)), works)
BlockFlushed(t, forced) ==
    [t EXCEPT !.r.data = EmptyBlock, !.r.handle = t.last, !.r.pending = t.r.ok,
              !.r.ok = @ /\ forced, !.fb = StartBlock(@, t.r.offset)]
Flushed(t, works, forced) ==
    IF ~t.r.ok \/ t.r.data = EmptyBlock THEN t
    ELSE BlockFlushed(WriteBlock(t, t.r.data, works), forced)
IndexAdded(t, key) ==
    [t EXCEPT !.r.index = Add(@, key, t.r.handle, HandleBytes(t.r.handle), 1), !.r.pending = FALSE]
WithIndexEntry(t, key) ==
    IF t.r.pending THEN IndexAdded(t, FindShortestSeparator(t.r.last_key, key)) ELSE t
WithKey(t, key) ==
    [t EXCEPT !.fb.start = Append(@, key), !.r.last_key = key,
              !.r.data = Add(@, key, Len(added) + 1, ValueBytes, block_restart_interval)]
FlushedIfFull(t, works, forced) ==
    IF CurrentSizeEstimate(t.r.data) >= block_size THEN Flushed(t, works, forced) ELSE t
AddEntry(key, works, forced) ==
    /\ ~r.closed /\ Len(added) < MaxEntries
    /\ \A i \in DOMAIN added : Less(added[i], key)
    /\ IF r.ok THEN SetBuilder(FlushedIfFull(WithKey(WithIndexEntry(Builder, key), key), works, forced))
       ELSE UNCHANGED <<r, fb, file>>
    /\ added' = Append(added, key)
    /\ UNCHANGED <<footer, table, cache, last_id_, got>>

(* Finish: the flush, and up to four writes after it, of which the first   *)
(* that fails is the last.                                                 *)
FilterFinished(t) == IF t.r.ok THEN [t EXCEPT !.fb = FinishFilter(@)] ELSE t
WriteFilter(t, works) == IF t.r.ok THEN WriteRawBlock(t, t.fb, FilterSize(t.fb), works) ELSE t
MetaindexBlock(h) == Add(EmptyBlock, <<0>>, h, HandleBytes(h), block_restart_interval)
WriteMetaindex(t, works) == IF t.r.ok THEN WriteBlock(t, MetaindexBlock(t.last), works) ELSE t
LastIndexEntry(t) ==
    IF t.r.ok /\ t.r.pending THEN IndexAdded(t, FindShortSuccessor(t.r.last_key)) ELSE t
WriteIndex(t, works) ==
    IF t.r.ok THEN WriteBlock([t EXCEPT !.meta = t.last], t.r.index, works) ELSE t
WriteFooter(t, works) ==
    [t EXCEPT !.r.closed = TRUE, !.r.ok = @ /\ works,
              !.r.offset = IF t.r.ok /\ works THEN @ + kEncodedLength ELSE @]
Finished(written) ==
    WriteFooter(WriteIndex(LastIndexEntry(WriteMetaindex(WriteFilter(FilterFinished(
        Flushed(Builder, written > 0, written > 0)), written > 1), written > 2)), written > 3), written > 4)
Finish ==
    /\ ~r.closed
    /\ \E t \in {Finished(written) : written \in 0..5} :
          /\ SetBuilder(t)
          /\ footer' = IF t.r.ok THEN [metaindex |-> t.meta, index |-> t.last] ELSE None
    /\ UNCHANGED <<table, cache, last_id_, got, added>>

-----------------------------------------------------------------------------
(* Table                                                                   *)
ReadBlock(h) == file[CHOOSE i \in DOMAIN file : file[i].offset = h.offset /\ file[i].size = h.size].contents
\* The filter is left out when it, or the metaindex block, cannot be read.
Open(readsFilter) ==
    /\ r.closed /\ table = None /\ footer # None
    /\ last_id_' = last_id_ + 1
    /\ table' = [cache_id |-> last_id_ + 1, index |-> ReadBlock(footer.index),
                 metaindex |-> footer.metaindex,
                 filter |-> IF readsFilter
                               THEN ReadBlock(ReadBlock(footer.metaindex).buffer[1].value) ELSE None]
    /\ UNCHANGED <<r, fb, file, footer, cache, got, added>>
\* [Mutant: the table's id is not part of the key.]
CacheKey_Mutant(h) == [id |-> 0, offset |-> h.offset]
CacheKey(h) == [id |-> table.cache_id, offset |-> h.offset]
Cached(h) == {c \in cache : c.key = CacheKey(h)}
Answer(k, entry, ok) == [key |-> k, entry |-> entry, ok |-> ok]
Found(k, block) ==
    LET it == Seek(block, NewIterator(block), k)
    IN Answer(k, IF Valid(block, it) THEN it.key ELSE None, it.ok)
\* reads: the block can be read from the file, if it has to be.
InternalGet(k, reads) ==
    LET iiter == Seek(table.index, NewIterator(table.index), k)
        h == iiter.value
        block == IF Cached(h) # {} THEN (CHOOSE c \in Cached(h) : TRUE).block ELSE ReadBlock(h)
    IN /\ table # None
       /\ IF Valid(table.index, iiter)
               /\ (table.filter # None => FilterMayMatch(table.filter, h.offset, ExtractUserKey(k)))
            THEN \/ /\ Cached(h) # {} \/ reads
                    /\ cache' = cache \cup {[key |-> CacheKey(h), block |-> block]}
                    /\ got' = Found(k, block)
                 \/ /\ Cached(h) = {} /\ ~reads
                    /\ got' = Answer(k, None, FALSE) /\ UNCHANGED cache
            ELSE got' = Answer(k, None, iiter.ok) /\ UNCHANGED cache
       /\ UNCHANGED <<r, fb, file, footer, table, last_id_, added>>
EvictBlock == /\ \E c \in cache : cache' = cache \ {c}
              /\ UNCHANGED <<r, fb, file, footer, table, last_id_, got, added>>
ApproximateOffsetOf(k) ==
    LET iiter == Seek(table.index, NewIterator(table.index), k)
    IN IF Valid(table.index, iiter) THEN iiter.value.offset ELSE table.metaindex.offset

(* The table is closed and another one is written to the file.             *)
NewTable ==
    /\ r.closed /\ last_id_ < MaxTables
    /\ r' = NewRep /\ fb' = StartBlock(NewFilterBlock, 0) /\ file' = <<>> /\ footer' = None
    /\ table' = None /\ got' = None /\ added' = <<>>
    /\ UNCHANGED <<cache, last_id_>>

Init == /\ r = NewRep /\ fb = StartBlock(NewFilterBlock, 0) /\ file = <<>> /\ footer = None
        /\ table = None /\ cache = {} /\ last_id_ = 0 /\ got = None /\ added = <<>>
Next ==
    \/ \E key \in Keys, works, forced \in BOOLEAN : AddEntry(key, works, forced)
    \/ Finish
    \/ \E reads \in BOOLEAN : Open(reads) \/ (\E k \in LookupKeys : InternalGet(k, reads))
    \/ EvictBlock \/ NewTable
Spec == Init /\ [][Next]_vars

-----------------------------------------------------------------------------
Newest(k) ==
    LET u == ExtractUserKey(k)
        own == {i \in DOMAIN added : ExtractUserKey(added[i]) = u /\ ~Less(added[i], k)}
    IN IF own = {} THEN None ELSE added[Min(own)]
(* A lookup that does not fail finds the newest entry of its user key that *)
(* is not newer than the lookup, if the table has one: neither a filter    *)
(* nor a shortened index key nor a block cached for an earlier table hides *)
(* it or puts an older one in its place.                                   *)
GetIsRight ==
    got # None /\ got.ok =>
        LET u == ExtractUserKey(got.key)
            own == IF got.entry # None /\ ExtractUserKey(got.entry) = u THEN got.entry ELSE None
        IN own = Newest(got.key)

FirstKey(block) == SeekToFirst(block, NewIterator(block)).key
LastKey(block) == SeekToLast(block, NewIterator(block)).key
(* The key of a block's entry in the index is not before the last key of   *)
(* the block and is before the first key of the next one, as the comment   *)
(* at pending_index_entry says of "the r".                                 *)
IndexSeparates ==
    table # None =>
        LET entries == table.index.buffer
        IN \A i \in DOMAIN entries :
              /\ ~Less(entries[i].delta, LastKey(ReadBlock(entries[i].value)))
              /\ i < Len(entries) =>
                    Less(entries[i].delta, FirstKey(ReadBlock(entries[i + 1].value)))

(* The approximate offsets of two keys are in the order of the keys, so    *)
(* that the size of a range is never negative.                             *)
OffsetsGrow ==
    table # None =>
        \A k, l \in LookupKeys : Less(k, l) => ApproximateOffsetOf(k) <= ApproximateOffsetOf(l)
=============================================================================
