---------------------------- MODULE OutAddress ----------------------------
(***************************************************************************)
(* outAddress (block.h): the 20 bytes that stand for the owner of an       *)
(* output, taken from its script by the first of eleven forms that the     *)
(* script has, or by a scan for the most common form inside the script.    *)
(*                                                                         *)
(* A script is a sequence of bytes. The hash functions are symbols: an     *)
(* address is the name of the function that computed it and its argument.  *)
(***************************************************************************)
EXTENDS Integers, Sequences

CONSTANT Scripts      \* the scripts of the outputs

OP_1 == 81
OP_3 == 83
OP_RETURN == 106
OP_DROP == 117
OP_DUP == 118
OP_EQUALVERIFY == 136
OP_HASH160 == 169
OP_CHECKSIG == 172
OP_CHECKMULTISIG == 174
OP_NOP2 == 177

VARIABLES script, state, address, decodeOK
vars == <<script, state, address, decodeOK>>

(* The addresses: 20 bytes of the script, one of the two hashes of some of *)
(* its bytes, or 20 equal bytes.                                           *)
Copied(bytes) == [by |-> "copy", of |-> bytes]
RIPEMD160(bytes) == [by |-> "RIPEMD160", of |-> bytes]
Hash160(bytes) == [by |-> "RIPEMD160(SHA256)", of |-> bytes]
Filled(byte) == [by |-> "fill", of |-> <<byte>>]

\* A key that does not begin with 4 leaves the zeros of the buffer.
bitcoinPublicKeyToAddress(key) == IF key[1] = 4 THEN Hash160(key) ELSE Filled(0)

\* Script[i] of the code is s[i + 1]; Slice(s, i, n) are n bytes from Script + i.
At(s, i, byte) == i < Len(s) /\ s[i + 1] = byte
Slice(s, i, n) == SubSeq(s, i + 1, i + n)

PatternAt(s, i) ==
    /\ At(s, i, OP_DUP) /\ At(s, i + 1, OP_HASH160) /\ At(s, i + 2, 20)
    /\ At(s, i + 23, OP_EQUALVERIFY) /\ At(s, i + 24, OP_CHECKSIG)

\* [Mutant: the copy begins at the length byte.]
KeyHash_Mutant(s, i) == Slice(s, i + 2, 20)
KeyHash(s, i) == Slice(s, i + 3, 20)

\* The positions of the scan are 0 .. ScriptLength - 26.
ScanHits(s) == {i \in 0..(Len(s) - 26) : PatternAt(s, i)}

Ok(a) == [address |-> a, decodeOK |-> TRUE]

Decode(s) ==
    LET n == Len(s)
    IN IF n = 67 /\ At(s, 0, 65) /\ At(s, 66, OP_CHECKSIG)
         THEN Ok(bitcoinPublicKeyToAddress(Slice(s, 1, 65)))
       ELSE IF n = 66 /\ At(s, 65, OP_CHECKSIG)
         THEN Ok(bitcoinPublicKeyToAddress(Slice(s, 0, 65)))
       ELSE IF n >= 25 /\ At(s, 0, OP_DUP) /\ At(s, 1, OP_HASH160) /\ At(s, 2, 20)
         THEN Ok(Copied(KeyHash(s, 0)))
       ELSE IF n = 23 /\ At(s, 0, OP_HASH160) /\ At(s, 1, 20)
         THEN Ok(Copied(Slice(s, 2, 20)))
       ELSE IF n = 23 /\ At(s, 0, 20) /\ At(s, 21, OP_NOP2) /\ At(s, 22, OP_DROP)
         THEN Ok(Copied(Slice(s, 1, 20)))
       ELSE IF n = 35 /\ At(s, 0, 33) /\ At(s, 34, OP_CHECKSIG)
         THEN Ok(RIPEMD160(Slice(s, 1, 33)))
       ELSE IF n = 33 /\ At(s, 0, 32) THEN Ok(RIPEMD160(Slice(s, 1, 32)))
       ELSE IF n = 37 /\ At(s, 0, 36) THEN Ok(RIPEMD160(Slice(s, 1, 36)))
       ELSE IF n = 22 /\ At(s, 0, OP_RETURN) /\ At(s, 1, 20)
         THEN Ok(Copied(Slice(s, 2, 20)))
       ELSE IF n > 35 /\ (\E op \in OP_1..OP_3 : At(s, 0, op)) /\ At(s, n - 1, OP_CHECKMULTISIG)
         THEN Ok(RIPEMD160(s))
       ELSE IF n < 20 THEN Ok(Filled(49))
       ELSE IF ScanHits(s) # {}
         THEN LET first == CHOOSE i \in ScanHits(s) : \A j \in ScanHits(s) : i <= j
              IN Ok(Copied(KeyHash(s, first)))
       ELSE [address |-> RIPEMD160(s), decodeOK |-> FALSE]

Init ==
    /\ script \in Scripts
    /\ state = "script" /\ address = Filled(0) /\ decodeOK = FALSE

\* One call of outAddress by unzipBlocks, which logs a FALSE and goes on.
outAddress ==
    /\ state = "script"
    /\ address' = Decode(script).address
    /\ decodeOK' = Decode(script).decodeOK
    /\ state' = "decoded"
    /\ UNCHANGED script

Next == outAddress
Spec == Init /\ [][Next]_vars

-----------------------------------------------------------------------------
(***************************************************************************)
(* The forms of script with an owner that the network defines.             *)
(***************************************************************************)
PayToKeyHash(s) == Len(s) = 25 /\ PatternAt(s, 0)
PayToScriptHash(s) == Len(s) = 23 /\ At(s, 0, OP_HASH160) /\ At(s, 1, 20) /\ At(s, 22, 135)
PayToKey(s) == Len(s) = 67 /\ At(s, 0, 65) /\ At(s, 1, 4) /\ At(s, 66, OP_CHECKSIG)
PayToCompressedKey(s) ==
    Len(s) = 35 /\ At(s, 0, 33) /\ (At(s, 1, 2) \/ At(s, 1, 3)) /\ At(s, 34, OP_CHECKSIG)
PayToOneOfOne(s) ==
    /\ Len(s) = 37 /\ At(s, 0, OP_1) /\ At(s, 1, 33)
    /\ At(s, 35, OP_1) /\ At(s, 36, OP_CHECKMULTISIG)

(* A script of one of the five common forms gets an address that its       *)
(* owner's bytes determine, whatever these bytes are: no form that is      *)
(* tested earlier takes the script for one of its own. The address of an   *)
(* uncompressed key is the one that a payment to the key's hash gets; a    *)
(* compressed key has an address of its own, since it is hashed once only. *)
OwnersAddress ==
    state = "decoded" =>
        /\ PayToKeyHash(script) => address = Copied(Slice(script, 3, 20)) /\ decodeOK
        /\ PayToScriptHash(script) => address = Copied(Slice(script, 2, 20)) /\ decodeOK
        /\ PayToKey(script) => address = Hash160(Slice(script, 1, 65)) /\ decodeOK
        /\ PayToCompressedKey(script) => address = RIPEMD160(Slice(script, 1, 33)) /\ decodeOK
        /\ PayToOneOfOne(script) => address = RIPEMD160(script) /\ decodeOK

Contains(s, bytes) == \E i \in 0..(Len(s) - Len(bytes)) : Slice(s, i, Len(bytes)) = bytes

(* The address of any script is made of bytes of that script: 20 bytes     *)
(* that follow a push of 20, or the hash of a key in it or of all of it.   *)
(* Two outputs thus share an address when both hold these bytes. There are *)
(* two addresses that scripts share for other reasons: zeros, of the bare  *)
(* keys with an unknown first byte, and ones, of the scripts that are too  *)
(* short to name an owner.                                                 *)
MadeOfScript ==
    state = "decoded" =>
        \/ /\ address = Filled(0)
           /\ Len(script) \in {66, 67} /\ ~ At(script, Len(script) - 66, 4)
        \/ address = Filled(49) /\ Len(script) < 20
        \/ /\ address.by = "copy" /\ Len(address.of) = 20
           /\ Contains(script, <<20>> \o address.of)
        \/ /\ address \in {RIPEMD160(address.of), Hash160(address.of)}
           /\ Contains(script, address.of) /\ (~ decodeOK => address.of = script)
=============================================================================
