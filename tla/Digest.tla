------------------------------- MODULE Digest -------------------------------
(***************************************************************************)
(* The buffering and padding of the two hash functions of hash.h. SHA-256  *)
(* collects the pieces of a message in a buffer of one block; RIPEMD-160   *)
(* takes the message at once.                                              *)
(*                                                                         *)
(* A hash is determined by the sequence of the blocks that were compressed *)
(* (by SHA256Guts or by compress), so it is modelled by that sequence. The *)
(* n-th byte of the message is Msg(n), whatever its value.                 *)
(***************************************************************************)
EXTENDS Integers, Sequences, SequencesExt

CONSTANTS
    Block,         \* bytes of a block: 64
    Field,         \* bytes of the message length at its end: 8
    MaxLength      \* bound: bytes of a message

Msg(n) == <<"message", n>>
One == <<"bits", 128>>          \* the byte 0x80
Zero == <<"bits", 0>>
Length(bits, j) == <<"length", bits, j>>
LengthField(bits) == [j \in 1..Field |-> Length(bits, j)]
Zeros(n) == [i \in 1..n |-> Zero]
Bytes(first, n) == [i \in 1..n |-> Msg(first + i - 1)]

VARIABLES
    given,        \* bytes of the message handed to sha256_update so far
    sc,           \* sha256_ctx_t: totalLength, buffer and the compressed blocks
    digest        \* what sha256_finalize and computeRIPEMD160 return
vars == <<given, sc, digest>>
None == <<>>

(***************************************************************************)
(* SHA-256                                                                 *)
(***************************************************************************)
\* Blocks are compressed from the data itself while a whole one is left.
WholeBlocks(data) ==
    [j \in 1..(Len(data) \div Block) |-> SubSeq(data, (j - 1) * Block + 1, j * Block)]
Rest(data) == SubSeq(data, (Len(data) \div Block) * Block + 1, Len(data))

\* [Mutant: a buffer that has become full waits for the next call.]
Topped_Mutant(s, part) ==
    [s EXCEPT !.totalLength = @ + 8 * Len(part), !.buffer = @ \o part]
\* The buffer takes the part that still fits and is compressed when it is full.
Topped(s, part) ==
    LET buf == s.buffer \o part
        full == Len(buf) = Block
    IN [totalLength |-> s.totalLength + 8 * Len(part),
        buffer |-> IF full THEN <<>> ELSE buf,
        blocks |-> IF full THEN Append(s.blocks, buf) ELSE s.blocks]

sha256_update(s, data) ==
    LET room == IF s.buffer = <<>> THEN 0 ELSE Block - Len(s.buffer)
        bytesToCopy == IF room > Len(data) THEN Len(data) ELSE room
        t == IF room = 0 THEN s ELSE Topped(s, SubSeq(data, 1, bytesToCopy))
        left == SubSeq(data, bytesToCopy + 1, Len(data))
    IN [totalLength |-> t.totalLength + 8 * Len(left),
        buffer |-> t.buffer \o Rest(left),
        blocks |-> t.blocks \o WholeBlocks(left)]

sha256_init == [totalLength |-> 0, buffer |-> <<>>, blocks |-> <<>>]

bytesToPad(s) ==
    LET n == 2 * Block - Field - Len(s.buffer) IN IF n > Block THEN n - Block ELSE n

\* The length is taken before the padding is added to it.
sha256_finalize(s) ==
    LET lengthPad == LengthField(s.totalLength)
        padded == sha256_update(s, SubSeq(<<One>> \o Zeros(Block - 1), 1, bytesToPad(s)))
    IN sha256_update(padded, lengthPad).blocks

(***************************************************************************)
(* RIPEMD-160                                                              *)
(***************************************************************************)
\* The last bytes and the bit 1 in a block of zeros; the length overwrites
\* the last Field bytes of that block or of one more block of zeros.
MDfinish(rest, length) ==
    LET X == rest \o <<One>> \o Zeros(Block - Len(rest) - 1)
        WithLength(b) == SubSeq(b, 1, Block - Field) \o LengthField(8 * length)
    IN IF Len(rest) > Block - Field - 1 THEN <<X, WithLength(Zeros(Block))>>
       ELSE <<WithLength(X)>>

computeRIPEMD160(message) ==
    WholeBlocks(message) \o MDfinish(Rest(message), Len(message))

-----------------------------------------------------------------------------
Init == given = 0 /\ sc = sha256_init /\ digest = [sha |-> None, rmd |-> None]

\* Any split of a message into calls of sha256_update, empty ones included.
Update(n) ==
    /\ digest.sha = None /\ given + n <= MaxLength
    /\ sc' = sha256_update(sc, Bytes(given + 1, n))
    /\ given' = given + n
    /\ UNCHANGED digest

Finalize ==
    /\ digest.sha = None
    /\ digest' = [sha |-> sha256_finalize(sc), rmd |-> computeRIPEMD160(Bytes(1, given))]
    /\ UNCHANGED <<given, sc>>

Next == Finalize \/ \E n \in 0..MaxLength : Update(n)
Spec == Init /\ [][Next]_vars

-----------------------------------------------------------------------------
(* The definition of both functions: the message, a bit 1, the least       *)
(* number of zeros that lets the length end a block, and the length.       *)
Padded(message) ==
    LET n == Len(message) + 1 + Field
        fill == (Block - (n % Block)) % Block
    IN message \o <<One>> \o Zeros(fill) \o LengthField(8 * Len(message))

(* However a message is split into updates, the blocks compressed and the  *)
(* buffered bytes are the message so far, the buffer is never a full       *)
(* block, and totalLength counts its bits.                                 *)
ContextIsPrefix ==
    /\ FlattenSeq(sc.blocks) \o sc.buffer = Bytes(1, given)
    /\ Len(sc.buffer) < Block
    /\ sc.totalLength = 8 * given

(* Both hashes compress the blocks of the padded message and nothing else, *)
(* for every message length and every split: in particular for the lengths *)
(* at which the padding just fits into the last block or just does not.    *)
BlocksOfPaddedMessage ==
    digest.sha # None =>
        /\ FlattenSeq(digest.sha) = Padded(Bytes(1, given))
        /\ FlattenSeq(digest.rmd) = Padded(Bytes(1, given))
        /\ \A h \in {digest.sha, digest.rmd} : \A i \in DOMAIN h : Len(h[i]) = Block
=============================================================================
