------------------------------- MODULE Snappy -------------------------------
(***************************************************************************)
(* Snappy, with which LevelDB compresses the blocks of its tables:         *)
(* RawCompress of a block and RawUncompress of what was stored. Bytes are  *)
(* numbers, tags are those of the format; only kBlockSize and the size of  *)
(* the hash table are smaller than in the code.                            *)
(***************************************************************************)
EXTENDS Integers, Sequences, FiniteSetsExt

CONSTANTS
    Chunks, MaxChunks,  \* a block is a few of these sequences of bytes,
    MaxLength,          \* and not longer than this
    kBlockSize,
    table_size,
    Pointer,            \* sizeof(void*): 8, or 4 in a 32-bit build
    Damages, DamageReach,   \* what a byte near an end of a stored block may turn into
    Junk                \* what is in memory that was not written

VARIABLES
    input, chunks,
    pc,
    base, N,            \* where the fragment begins, and how much is left
    ip, next_emit, candidate, table, skip,  \* CompressFragment
    out,                \* the compressed bytes
    reach, read,        \* the furthest that was written and read
    uip, op, mem,       \* SnappyDecompressor and SnappyArrayWriter
    damaged

fragment == <<base, N, ip, next_emit, candidate, table, skip>>
decompressor == <<uip, op, mem>>
vars == <<input, chunks, pc, fragment, out, reach, read, decompressor, damaged>>

MaxCompressedLength(n) == 32 + n + n \div 6
kInputMarginBytes == 15
kMaximumTagLength == 5
kMaxIncrementCopyOverflow == 10

-----------------------------------------------------------------------------
(* The stream                                                              *)
RECURSIVE Little(_)
Little(n) == IF n = 0 THEN <<>> ELSE <<n % 256>> \o Little(n \div 256)
Tag(kind, n) == 4 * n + kind
LiteralHeader(len) ==
    IF len - 1 < 60 THEN <<Tag(0, len - 1)>>
    ELSE LET bytes == Little(len - 1) IN <<Tag(0, 59 + Len(bytes))>> \o bytes
\* [Mutant: the bound of the short form is not below it.]
EmitCopyLessThan64_Mutant(offset, len) ==
    IF len <= 12 /\ offset < 2048
    THEN <<Tag(1, len - 4) + 32 * (offset \div 256), offset % 256>>
    ELSE <<Tag(2, len - 1), offset % 256, offset \div 256>>
EmitCopyLessThan64(offset, len) ==
    IF len < 12 /\ offset < 2048
    THEN <<Tag(1, len - 4) + 32 * (offset \div 256), offset % 256>>
    ELSE <<Tag(2, len - 1), offset % 256, offset \div 256>>
RECURSIVE EmitCopy(_, _)
EmitCopy(offset, len) ==
    IF len >= 68 THEN EmitCopyLessThan64(offset, 64) \o EmitCopy(offset, len - 64)
    ELSE IF len > 64 THEN EmitCopyLessThan64(offset, 60) \o EmitCopyLessThan64(offset, len - 60)
    ELSE EmitCopyLessThan64(offset, len)
RECURSIVE Encode32(_)
Encode32(v) == IF v < 128 THEN <<v>> ELSE <<128 + (v % 128)>> \o Encode32(v \div 128)
(* char_table: the length, the high bits of the offset and the number of   *)
(* bytes that follow.                                                      *)
Extra(c) == CASE c % 4 = 0 -> IF c \div 4 < 60 THEN 0 ELSE c \div 4 - 59
              [] c % 4 = 1 -> 1
              [] c % 4 = 2 -> 2
              [] c % 4 = 3 -> 4
CopyLength(c) == IF c % 4 = 1 THEN 4 + ((c \div 4) % 8) ELSE c \div 4 + 1
CopyOffset(c) == IF c % 4 = 1 THEN 256 * (c \div 32) ELSE 0
\* Values of four bytes are beyond every offset and length.
RECURSIVE Load(_, _)
Load(at, n) ==
    IF n = 0 THEN 0
    ELSE LET rest == Load(at + 1, n - 1)
         IN IF rest >= 2^22 THEN rest ELSE out[at + 1] + 256 * rest

-----------------------------------------------------------------------------
(* Compress                                                                *)
Min2(a, b) == IF a < b THEN a ELSE b
Max2(a, b) == IF a > b THEN a ELSE b
Size == Min2(N, kBlockSize)
ip_limit == Size - kInputMarginBytes
Byte(p) == input[base + p + 1]
UNALIGNED_LOAD32(p) == <<Byte(p), Byte(p + 1), Byte(p + 2), Byte(p + 3)>>
\* "Any hash function will produce a valid compressed bitstream."
Hash(p) == (Byte(p) + 3 * Byte(p + 1) + 5 * Byte(p + 2) + 11 * Byte(p + 3)) % table_size
Put(t, p) == [t EXCEPT ![Hash(p)] = p]
FindMatchLength(s1, s2) ==
    Max({n \in 0..(Size - s2) : \A j \in 0..(n - 1) : Byte(s1 + j) = Byte(s2 + j)})

\* The literal before ip; the fast path copies sixteen bytes.
EmitLiteral(from, len, allow_fast_path) ==
    LET head == LiteralHeader(len)
        copied == IF allow_fast_path /\ len <= 16 THEN 16 ELSE len
    IN /\ out' = out \o head \o SubSeq(input, base + from + 1, base + from + len)
       /\ reach' = Max2(reach, Len(out) + Len(head) + copied)
       /\ read' = Max2(read, base + from + copied)

Extend(c) ==
    /\ pc = "build" /\ chunks < MaxChunks /\ Len(input) + Len(c) <= MaxLength
    /\ input' = input \o c /\ chunks' = chunks + 1
    /\ UNCHANGED <<pc, fragment, out, reach, read, decompressor, damaged>>
Compress ==
    /\ pc = "build"
    /\ out' = Encode32(Len(input)) /\ reach' = Len(out')
    /\ N' = Len(input) /\ pc' = IF input = <<>> THEN "stored" ELSE "fragment"
    /\ UNCHANGED <<input, chunks, base, ip, next_emit, candidate, table, skip, read, decompressor, damaged>>
GetHashTable == [h \in 0..(table_size - 1) |-> 0]
BeginFragment ==
    /\ pc = "fragment"
    /\ table' = GetHashTable
    /\ ip' = 1 /\ next_emit' = 0 /\ skip' = 32
    /\ pc' = IF Size >= kInputMarginBytes THEN "scan" ELSE "remainder"
    /\ UNCHANGED <<input, chunks, base, N, candidate, out, reach, read, decompressor, damaged>>
Beyond(p) == p > ip_limit
\* One turn of the loop that looks for a match; the steps grow with skip.
ScanForMatch ==
    LET next_ip == ip + skip \div 32
        found == UNALIGNED_LOAD32(ip) = UNALIGNED_LOAD32(table[Hash(ip)])
    IN /\ pc = "scan" /\ skip' = skip + 1
       /\ IF Beyond(next_ip)
            THEN pc' = "remainder" /\ UNCHANGED <<ip, candidate, table, out, reach, read>>
            ELSE /\ candidate' = table[Hash(ip)] /\ table' = Put(table, ip)
                 /\ IF found
                      THEN pc' = "copy" /\ UNCHANGED ip /\ EmitLiteral(next_emit, ip - next_emit, TRUE)
                      ELSE pc' = "scan" /\ ip' = next_ip /\ UNCHANGED <<out, reach, read>>
       /\ UNCHANGED <<input, chunks, base, N, next_emit, decompressor, damaged>>
CopyMatch ==
    LET matched == 4 + FindMatchLength(candidate + 4, ip + 4)
        end == ip + matched
        t == Put(table, end - 1)
        next == t[Hash(end)]
    IN /\ pc = "copy"
       /\ out' = out \o EmitCopy(ip - candidate, matched)
       /\ reach' = Max2(reach, Len(out')) /\ next_emit' = end
       /\ IF end >= ip_limit
            THEN pc' = "remainder" /\ ip' = end /\ UNCHANGED <<candidate, table>>
            ELSE /\ table' = Put(t, end) /\ candidate' = next
                 /\ IF UNALIGNED_LOAD32(end) = UNALIGNED_LOAD32(next)
                      THEN pc' = "copy" /\ ip' = end
                      ELSE pc' = "scan" /\ ip' = end + 1
       /\ skip' = 32
       /\ UNCHANGED <<input, chunks, base, N, read, decompressor, damaged>>
EmitRemainder ==
    /\ pc = "remainder"
    /\ IF next_emit < Size THEN EmitLiteral(next_emit, Size - next_emit, FALSE)
       ELSE UNCHANGED <<out, reach, read>>
    /\ base' = base + Size /\ N' = N - Size
    /\ pc' = IF N' > 0 THEN "fragment" ELSE "stored"
    /\ UNCHANGED <<input, chunks, ip, next_emit, candidate, table, skip, decompressor, damaged>>

-----------------------------------------------------------------------------
(* A byte of the stored block goes bad; its checksum is not looked at.     *)
Damage(i, c) ==
    /\ pc = "stored" /\ ~damaged /\ out[i] # c
    /\ i <= DamageReach \/ i > Len(out) - DamageReach
    /\ i <= Len(Encode32(Len(input))) => c < 128
    /\ out' = [out EXCEPT ![i] = c] /\ damaged' = TRUE
    /\ UNCHANGED <<input, chunks, pc, fragment, reach, read, decompressor>>

(* ReadUncompressedLength, which is also GetUncompressedLength.            *)
RECURSIVE Length32(_)
Length32(at) ==
    IF 7 * at >= 32 \/ at = Len(out) THEN [ok |-> FALSE, value |-> 0, next |-> at]
    ELSE IF out[at + 1] < 128 THEN [ok |-> TRUE, value |-> out[at + 1], next |-> at + 1]
    ELSE LET rest == Length32(at + 1)
         IN [rest EXCEPT !.value = out[at + 1] - 128 + 128 * @]
ulength == Length32(0).value
space_left == ulength - op

\* MAYBE_REFILL, when the decompressor stands at p.
Refill(p, produced) ==
    IF p = Len(out) THEN IF produced = ulength THEN "good" ELSE "bad"
    ELSE IF Len(out) - p < Extra(out[p + 1]) + 1 THEN "bad"
    ELSE "tag"
Uncompress ==
    /\ pc = "stored"
    /\ IF Length32(0).ok
         THEN /\ uip' = Length32(0).next /\ op' = 0
              /\ mem' = [j \in 0..(ulength - 1) |-> Junk]
              /\ pc' = Refill(uip', 0)
         ELSE pc' = "bad" /\ UNCHANGED decompressor
    /\ reach' = 0
    /\ UNCHANGED <<input, chunks, fragment, out, read, damaged>>

(* SnappyArrayWriter                                                       *)
Written(m, dst, bytes) ==
    [j \in DOMAIN m |-> IF dst <= j /\ j < dst + Len(bytes) THEN bytes[j - dst + 1] ELSE m[j]]
Bytes(m, src, n) == [j \in 1..n |-> IF src + j - 1 \in DOMAIN m THEN m[src + j - 1] ELSE Junk]
UnalignedCopy64(m, src, dst) ==
    IF Pointer = 8 THEN Written(m, dst, Bytes(m, src, 8))
    ELSE LET half == Written(m, dst, Bytes(m, src, 4))
         IN Written(half, dst + 4, Bytes(half, src + 4, 4))
Append_(from, len) ==
    /\ mem' = Written(mem, op, SubSeq(out, from + 1, from + len))
    /\ reach' = Max2(reach, op + len)
\* Byte by byte: a copy longer than its offset repeats what it has written.
IncrementalCopy(m, src, dst, len) ==
    Written(m, dst, [j \in 1..len |-> m[src + ((j - 1) % (dst - src))]])
RECURSIVE IncrementalCopyFastPath(_, _, _, _)
\* The result, and the end of the last eight bytes.
IncrementalCopyFastPath(m, src, dst, len) ==
    LET copied == UnalignedCopy64(m, src, dst)
        next == IF dst - src < 8 THEN IncrementalCopyFastPath(copied, src, dst + (dst - src), len - (dst - src))
                ELSE IncrementalCopyFastPath(copied, src + 8, dst + 8, len - 8)
    IN IF dst - src >= 8 /\ len <= 0 THEN [mem |-> m, end |-> 0]
       ELSE [mem |-> next.mem, end |-> Max2(dst + 8, next.end)]

LiteralTag ==
    LET c == out[uip + 1]
        short == c \div 4 + 1
        at == uip + 1 + Extra(c)
        len == IF short < 61 THEN short ELSE Load(uip + 1, Extra(c)) + 1
        avail == Len(out) - at
    IN /\ pc = "tag" /\ c % 4 = 0
       /\ \/ /\ short <= 16 /\ avail >= 16 + kMaximumTagLength /\ space_left >= 16  \* TryFastAppend
             /\ Append_(at, 16)
             /\ uip' = at + len /\ op' = op + len /\ pc' = "tag"
          \/ /\ ~(short <= 16 /\ avail >= 16 + kMaximumTagLength /\ space_left >= 16)
             /\ IF Min2(avail, len) <= space_left
                  THEN Append_(at, Min2(avail, len)) ELSE UNCHANGED <<mem, reach>>
             /\ IF len <= avail /\ len <= space_left
                  THEN uip' = at + len /\ op' = op + len /\ pc' = Refill(uip', op')
                  ELSE pc' = "bad" /\ UNCHANGED <<uip, op>>
       /\ UNCHANGED <<input, chunks, fragment, out, read, damaged>>

Roomy(len) == space_left >= len + kMaxIncrementCopyOverflow
AppendFromSelf(offset, len) ==
    \/ /\ len <= 16 /\ offset >= 8 /\ space_left >= 16
       /\ mem' = UnalignedCopy64(UnalignedCopy64(mem, op - offset, op), op - offset + 8, op + 8)
       /\ reach' = Max2(reach, op + 16)
    \/ /\ ~(len <= 16 /\ offset >= 8 /\ space_left >= 16) /\ Roomy(len)
       /\ LET c == IncrementalCopyFastPath(mem, op - offset, op, len)
          IN mem' = c.mem /\ reach' = Max2(reach, c.end)
    \/ /\ ~(len <= 16 /\ offset >= 8 /\ space_left >= 16) /\ ~Roomy(len)
       /\ mem' = IncrementalCopy(mem, op - offset, op, len) /\ reach' = Max2(reach, op + len)
Refuses(offset, len) == offset = 0 \/ op < offset \/ space_left < len
CopyTag ==
    LET c == out[uip + 1]
        len == CopyLength(c)
        offset == CopyOffset(c) + Load(uip + 1, Extra(c))
    IN /\ pc = "tag" /\ c % 4 # 0
       /\ IF Refuses(offset, len)
            THEN pc' = "bad" /\ UNCHANGED <<uip, op, mem, reach>>
            ELSE /\ AppendFromSelf(offset, len)
                 /\ uip' = uip + 1 + Extra(c) /\ op' = op + len /\ pc' = Refill(uip', op')
       /\ UNCHANGED <<input, chunks, fragment, out, read, damaged>>

(* The next block.                                                         *)
NextBlock ==
    /\ pc \in {"good", "bad"}
    /\ input' = <<>> /\ chunks' = 0 /\ pc' = "build" /\ damaged' = FALSE
    /\ base' = 0 /\ N' = 0 /\ ip' = 0 /\ next_emit' = 0 /\ candidate' = 0 /\ skip' = 32
    /\ table' = GetHashTable
    /\ out' = <<>> /\ reach' = 0 /\ read' = 0 /\ uip' = 0 /\ op' = 0 /\ mem' = <<>>

Init ==
    /\ input = <<>> /\ chunks = 0 /\ pc = "build" /\ damaged = FALSE
    /\ base = 0 /\ N = 0 /\ ip = 0 /\ next_emit = 0 /\ candidate = 0 /\ skip = 32
    /\ table = GetHashTable
    /\ out = <<>> /\ reach = 0 /\ read = 0 /\ uip = 0 /\ op = 0 /\ mem = <<>>
Next ==
    \/ \E c \in Chunks : Extend(c)
    \/ Compress \/ BeginFragment \/ ScanForMatch \/ CopyMatch \/ EmitRemainder
    \/ \E i \in 1..Len(out), c \in Damages : Damage(i, c)
    \/ Uncompress \/ LiteralTag \/ CopyTag \/ NextBlock
Spec == Init /\ [][Next]_vars

-----------------------------------------------------------------------------
(* What was compressed is what comes out, whatever fragments, matches that *)
(* overlap their own copies, and fast paths it went through.               *)
UncompressesBack ==
    /\ pc = "bad" => damaged
    /\ pc = "good" /\ ~damaged =>
          Len(input) = ulength /\ \A j \in DOMAIN mem : mem[j] = input[j + 1]

(* The fast paths copy more than they need, and still no byte is read past *)
(* the block or written past MaxCompressedLength, on which Snappy_Compress *)
(* relies; nor past the uncompressed length, whatever byte went bad.       *)
CopiesStayInside ==
    /\ read <= Len(input)
    /\ reach <= IF pc \in {"tag", "good", "bad"} THEN ulength ELSE MaxCompressedLength(Len(input))

(* SnappyDecompressionValidator, which writes nothing, accepts the same    *)
(* buffers as the decompressor.                                            *)
RECURSIVE Validates(_, _)
Validates(p, produced) ==
    LET c == out[p + 1]
        at == p + 1 + Extra(c)
        len == IF c % 4 # 0 THEN CopyLength(c)
               ELSE IF c \div 4 < 60 THEN c \div 4 + 1 ELSE Load(p + 1, Extra(c)) + 1
        offset == CopyOffset(c) + Load(p + 1, Extra(c))
    IN IF Refill(p, produced) # "tag" THEN Refill(p, produced) = "good"
       ELSE IF c % 4 = 0
       THEN at + len <= Len(out) /\ produced + len <= ulength /\ Validates(at + len, produced + len)
       ELSE /\ offset # 0 /\ offset <= produced /\ produced + len <= ulength
            /\ Validates(at, produced + len)
ValidatorAgrees ==
    pc \in {"good", "bad"} =>
        (pc = "good") = (Length32(0).ok /\ Validates(Length32(0).next, 0))
=============================================================================
