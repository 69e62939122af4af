-------------------------------- MODULE Block --------------------------------
(***************************************************************************)
(* The blocks of a table: BlockBuilder, which stores a key as what differs *)
(* from the key before it, except at restart points, and the iterator of   *)
(* a finished block. Lengths below 128, so each takes one byte. Before     *)
(* them, internal keys and their order: a user key is a sequence of bytes; *)
(* an internal key is a user key and, as its last element, the number that *)
(* packs a sequence number and a type (eight bytes in the file).           *)
(***************************************************************************)
EXTENDS Integers, Sequences, SequencesExt, FiniteSetsExt

CONSTANTS
    MaxByte,                \* 0xff
    kMaxSequenceNumber

kTypeValue == 1
kValueTypeForSeek == kTypeValue
PackSequenceAndType(seq, type) == seq * 2 + type
InternalKey(u, seq, type) == Append(u, PackSequenceAndType(seq, type))
ExtractUserKey(k) == Front(k)
Tag(k) == Last(k)

(* How many bytes the two have in common from the start.                   *)
Common(a, b) ==
    Max({n \in 0..Min({Len(a), Len(b)}) : SubSeq(a, 1, n) = SubSeq(b, 1, n)})
BytewiseLess(a, b) ==
    LET n == Common(a, b) IN n < Len(b) /\ (n < Len(a) => a[n + 1] < b[n + 1])
Less(a, b) ==
    \/ BytewiseLess(ExtractUserKey(a), ExtractUserKey(b))
    \/ ExtractUserKey(a) = ExtractUserKey(b) /\ Tag(a) > Tag(b)

(* A short key from start up to, not including, limit.                     *)
BytewiseSeparator(start, limit) ==
    LET n == Common(start, limit)
    IN IF n < Min({Len(start), Len(limit)}) /\ start[n + 1] < MaxByte
          /\ start[n + 1] + 1 < limit[n + 1]
         THEN Append(SubSeq(start, 1, n), start[n + 1] + 1)
         ELSE start
BytewiseSuccessor(key) ==
    LET small == {i \in DOMAIN key : key[i] # MaxByte}
    IN IF small = {} THEN key ELSE Append(SubSeq(key, 1, Min(small) - 1), key[Min(small)] + 1)

(* tmp replaces the user key of key if it is shorter and larger.           *)
Shortened(key, tmp) ==
    IF Len(tmp) < Len(ExtractUserKey(key)) /\ BytewiseLess(ExtractUserKey(key), tmp)
      THEN InternalKey(tmp, kMaxSequenceNumber, kValueTypeForSeek)
      ELSE key
FindShortestSeparator(start, limit) ==
    Shortened(start, BytewiseSeparator(ExtractUserKey(start), ExtractUserKey(limit)))
FindShortSuccessor(key) == Shortened(key, BytewiseSuccessor(ExtractUserKey(key)))

RestartBytes == 4           \* sizeof(uint32_t)

-----------------------------------------------------------------------------
(* BlockBuilder. An entry is found at the offset at.                       *)
EmptyBlock == [buffer |-> <<>>, size |-> 0, restarts |-> <<0>>, counter |-> 0, last_key |-> <<>>]
CurrentSizeEstimate(b) == b.size + Len(b.restarts) * RestartBytes + RestartBytes
\* [Mutant: a restart shares with the key before it.]
SharedBytes_Mutant(b, key, interval) == Common(b.last_key, key)
SharedBytes(b, key, interval) == IF b.counter < interval THEN Common(b.last_key, key) ELSE 0
Add(b, key, value, bytes, interval) ==
    LET shared == SharedBytes(b, key, interval)
        e == [at |-> b.size, shared |-> shared, delta |-> SubSeq(key, shared + 1, Len(key)),
              value |-> value, bytes |-> 3 + Len(key) - shared + bytes]
        restart == b.counter >= interval
    IN [buffer |-> Append(b.buffer, e), size |-> b.size + e.bytes,
        restarts |-> IF restart THEN Append(b.restarts, b.size) ELSE b.restarts,
        counter |-> IF restart THEN 1 ELSE b.counter + 1,
        last_key |-> SubSeq(b.last_key, 1, shared) \o e.delta]

-----------------------------------------------------------------------------
(* Block::Iter. next is the offset at which value_ ends; the restart array *)
(* starts where the entries end.                                           *)
EntryAt(b, offset) == b.buffer[CHOOSE i \in DOMAIN b.buffer : b.buffer[i].at = offset]
NumRestarts(b) == Len(b.restarts)
GetRestartPoint(b, i) == b.restarts[i + 1]
Valid(b, it) == it.current < b.size
NewIterator(b) == [current |-> b.size, restart_index |-> NumRestarts(b), key |-> <<>>,
                   next |-> 0, value |-> <<>>, ok |-> TRUE]
CorruptionError(b, it) == [NewIterator(b) EXCEPT !.ok = FALSE]
SeekToRestartPoint(b, it, i) ==
    [it EXCEPT !.key = <<>>, !.restart_index = i, !.next = GetRestartPoint(b, i)]
RestartIndex(b, it) ==
    Max({it.restart_index} \cup
        {i \in it.restart_index..(NumRestarts(b) - 1) : GetRestartPoint(b, i) < it.next})
ParseNextKey(b, it) ==
    IF it.next >= b.size
      THEN [it EXCEPT !.current = b.size, !.restart_index = NumRestarts(b)]
      ELSE LET e == EntryAt(b, it.next)
           IN IF Len(it.key) < e.shared THEN CorruptionError(b, it)
              ELSE [it EXCEPT !.current = it.next, !.next = it.next + e.bytes,
                              !.key = SubSeq(it.key, 1, e.shared) \o e.delta, !.value = e.value,
                              !.restart_index = RestartIndex(b, it)]

RECURSIVE ParseUpTo(_, _, _)
ParseUpTo(b, it, end) ==
    LET p == ParseNextKey(b, it)
    IN IF Valid(b, p) /\ p.next < end THEN ParseUpTo(b, p, end) ELSE p
RECURSIVE ParseFrom(_, _, _)
ParseFrom(b, it, target) ==
    LET p == ParseNextKey(b, it)
    IN IF Valid(b, p) /\ Less(p.key, target) THEN ParseFrom(b, p, target) ELSE p
(* The last restart point with a key before target, or 0; -1 if an entry   *)
(* at a restart point is not whole.                                        *)
RECURSIVE LastRestartBefore(_, _, _, _)
LastRestartBefore(b, target, left, right) ==
    LET mid == (left + right + 1) \div 2
        e == EntryAt(b, GetRestartPoint(b, mid))
    IN IF left >= right THEN left
       ELSE IF e.shared # 0 THEN -1
       ELSE IF Less(e.delta, target) THEN LastRestartBefore(b, target, mid, right)
       ELSE LastRestartBefore(b, target, left, mid - 1)

Next_(b, it) == ParseNextKey(b, it)
Prev(b, it) ==
    LET before == {i \in 0..Min({it.restart_index, NumRestarts(b) - 1}) :
                      GetRestartPoint(b, i) < it.current}
    IN IF before = {}
         THEN [it EXCEPT !.current = b.size, !.restart_index = NumRestarts(b)]
         ELSE ParseUpTo(b, SeekToRestartPoint(b, it, Max(before)), it.current)
Seek(b, it, target) ==
    LET left == LastRestartBefore(b, target, 0, NumRestarts(b) - 1)
    IN IF left = -1 THEN CorruptionError(b, it)
       ELSE ParseFrom(b, SeekToRestartPoint(b, it, left), target)
SeekToFirst(b, it) == ParseNextKey(b, SeekToRestartPoint(b, it, 0))
SeekToLast(b, it) == ParseUpTo(b, SeekToRestartPoint(b, it, NumRestarts(b) - 1), b.size)
=============================================================================
