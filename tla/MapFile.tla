------------------------------- MODULE MapFile -------------------------------
(***************************************************************************)
(* Win32MapFile: a file that is written through a mapped region. The file  *)
(* is extended by a whole region before the region is mapped, and Close    *)
(* trims what was not used. What is copied to the region is in the file at *)
(* once for every reader, and on the disk when it has been flushed.        *)
(*                                                                         *)
(* A byte is a tuple; Zero is what an extension of the file contains.      *)
(* Pointers into the region are offsets from _base.                        *)
(***************************************************************************)
EXTENDS Integers, Sequences, SequencesExt, FiniteSets

CONSTANTS
    Existing,           \* what a file of that name contains before: <<>>, or old bytes
    MapSize,            \* _Roundup(65536, page size)
    MaxMapSize,         \* 1 << 20
    PageSize,
    MaxMapErrors        \* bound: how often a region cannot be mapped

VARIABLES
    content,            \* of the file
    flushed,            \* offsets that have been flushed since they were written
    state,              \* "new", "open", "closed", "killed"
    _file_offset, _map_size, _mapped, _dst, _last_sync, _pending_sync,
    src,                \* what the Append at work still has to copy
    appended,           \* history: all bytes copied
    synced,             \* history: how many of them when Sync last returned OK
    failed,             \* history: offsets for which a flush failed
    errors              \* how often a region could not be mapped

region == <<_file_offset, _map_size, _mapped, _dst, _last_sync, _pending_sync>>
fileVars == <<content, flushed, state, region, src, appended, synced, failed, errors>>

Zero == <<>>
_limit == IF _mapped THEN _map_size ELSE 0

FileInit ==
    /\ content = Existing /\ flushed = {} /\ state = "new"
    /\ _file_offset = 0 /\ _map_size = MapSize /\ _mapped = FALSE
    /\ _dst = 0 /\ _last_sync = 0 /\ _pending_sync = FALSE
    /\ src = <<>> /\ appended = <<>> /\ synced = 0 /\ failed = {} /\ errors = 0

Sized(n) == [i \in 1..n |-> IF i <= Len(content) THEN content[i] ELSE Zero]

-----------------------------------------------------------------------------
\* A file that exists is opened as it is.
NewWritableFile ==
    /\ state = "new" /\ state' = "open"
    /\ UNCHANGED <<content, flushed, region, src, appended, synced, failed, errors>>

Idle == state = "open" /\ src = <<>>
Append_(data) ==
    /\ Idle /\ src' = data
    /\ UNCHANGED <<content, flushed, state, region, appended, synced, failed, errors>>

\* _UnmapCurrentRegion: what was not synced waits for the next Sync.
PendingSync == _pending_sync \/ (_mapped /\ _last_sync < _limit)
\* [Mutant: the offset of the next region does not move on.]
NextOffset_Mutant == _file_offset + _dst - 1
NextOffset == _file_offset + _limit
NextMapSize == IF _mapped /\ _map_size < MaxMapSize THEN 2 * _map_size ELSE _map_size

\* _UnmapCurrentRegion and _MapNewRegion, when the region is full.
RegionFull == state = "open" /\ src # <<>> /\ _dst = _limit
MapNewRegion ==
    /\ RegionFull
    /\ content' = Sized(NextOffset + NextMapSize)
    /\ _file_offset' = NextOffset /\ _map_size' = NextMapSize /\ _mapped' = TRUE
    /\ _dst' = 0 /\ _last_sync' = 0 /\ _pending_sync' = PendingSync
    /\ UNCHANGED <<flushed, state, src, appended, synced, failed, errors>>
MapFails ==
    /\ RegionFull /\ errors < MaxMapErrors
    /\ content' = Sized(NextOffset + NextMapSize)
    /\ _file_offset' = NextOffset /\ _map_size' = NextMapSize /\ _mapped' = FALSE
    /\ _dst' = 0 /\ _last_sync' = 0 /\ _pending_sync' = PendingSync
    /\ src' = <<>> /\ errors' = errors + 1
    /\ UNCHANGED <<flushed, state, appended, synced, failed>>

\* memcpy of n bytes.
Copied(n) ==
    /\ content' = [i \in 1..Len(content) |->
                     IF i - _file_offset - _dst \in 1..n
                     THEN src[i - _file_offset - _dst] ELSE content[i]]
    /\ appended' = appended \o SubSeq(src, 1, n)
Room == IF Len(src) <= _limit - _dst THEN Len(src) ELSE _limit - _dst
Copy ==
    /\ state = "open" /\ Room > 0
    /\ Copied(Room)
    /\ _dst' = _dst + Room /\ src' = SubSeq(src, Room + 1, Len(src))
    /\ UNCHANGED <<flushed, state, _file_offset, _map_size, _mapped, _last_sync,
                   _pending_sync, synced, failed, errors>>

-----------------------------------------------------------------------------
(* Sync: FlushFileBuffers for regions that are gone, FlushViewOfFile for   *)
(* the pages from the first byte not synced to the last one written.       *)
Page(n) == n - (n % PageSize)
FlushedView == Page(_last_sync)..(Page(_dst - 1) + PageSize - 1)
FileBuffers == IF _pending_sync THEN 0..(_file_offset - 1) ELSE {}
View == IF _dst > _last_sync
        THEN {_file_offset + n : n \in {m \in FlushedView : m < _dst}} ELSE {}
\* Each of the two calls may fail. _pending_sync and _last_sync have moved on by then. At most
\* one Sync fails, which is a bound.
Sync ==
    /\ Idle
    /\ \E lost \in {{}, FileBuffers, View, FileBuffers \cup View} :
          /\ lost # {} => failed = {}
          /\ flushed' = flushed \cup ((FileBuffers \cup View) \ lost)
          /\ failed' = failed \cup (lost \ flushed)
          /\ synced' = IF lost = {} THEN Len(appended) ELSE synced
    /\ _pending_sync' = FALSE
    /\ _last_sync' = _dst
    /\ UNCHANGED <<content, state, _file_offset, _map_size, _mapped, _dst, src, appended,
                   errors>>

Unused == _limit - _dst
Close ==
    /\ Idle /\ state' = "closed"
    /\ content' = IF Unused > 0 THEN Sized(NextOffset - Unused) ELSE content
    /\ _file_offset' = NextOffset /\ _map_size' = NextMapSize /\ _mapped' = FALSE
    /\ _dst' = 0 /\ _last_sync' = 0 /\ _pending_sync' = PendingSync
    /\ UNCHANGED <<flushed, src, appended, synced, failed, errors>>

\* The process ends, perhaps inside a memcpy.
Kill ==
    /\ state = "open" /\ state' = "killed"
    /\ \E n \in 0..Room : Copied(n)
    /\ src' = <<>>
    /\ UNCHANGED <<flushed, region, synced, failed, errors>>

-----------------------------------------------------------------------------
(* Whenever the process ends, the file holds what was appended, in order,  *)
(* and then only zeros: what a reader takes for the end of the data.       *)
ThenZeros ==
    state # "new" =>
    /\ Len(appended) <= Len(content)
    /\ SubSeq(content, 1, Len(appended)) = appended
    /\ \A i \in (Len(appended) + 1)..Len(content) : content[i] = Zero

(* What was appended before Sync returned OK has been flushed, also what   *)
(* was in regions unmapped since, whatever pages the pointers lie in. The  *)
(* exception are bytes that an earlier Sync failed to flush, and said so:  *)
(* the next one does not try them again.                                   *)
SyncedIsFlushed == \A i \in 0..(synced - 1) : i \in flushed \cup failed

(* A file that was closed is as long as what was appended; table files are *)
(* read from their end.                                                    *)
ClosedIsExact == state = "closed" /\ errors = 0 => content = appended
=============================================================================
