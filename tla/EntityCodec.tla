---------------------------- MODULE EntityCodec ----------------------------
(***************************************************************************)
(* How an entity id travels through the database: "%08x" prints it as      *)
(* eight hexadecimal digits, the literal x'...' of the statement makes     *)
(* them the four bytes of the column, and the reader reverses the bytes    *)
(* and copies them into a little-endian unit32.  EntityProcess uses ids as *)
(* numbers because nothing is lost on this way.                            *)
(***************************************************************************)
EXTENDS Integers

CONSTANT Ids       \* the ids that are written

(* The values of a unit32, below 2^32 (a number that TLC cannot hold).     *)
IsUnit32(n) == n \in Nat /\ n \div 65536 < 65536

ASSUME IdsAssumption == \A n \in Ids : IsUnit32(n)

VARIABLES
    id,            \* entitycnt, or entity_v[0] of a merge
    column,        \* addressinfo.entity of the row: four bytes
    decoded        \* what a later SELECT decodes

codecVars == <<id, column, decoded>>

Default == <<0, 0, 0, 0>>          \* the column before an id is assigned
Pending == -1                      \* not read yet

(* sprintf_s(buf, 9, "%08x", id), most significant digit first.            *)
Digit(n, weight) == (n \div weight) % 16
HexDigits(n) == <<Digit(n, 268435456), Digit(n, 16777216), Digit(n, 1048576), Digit(n, 65536),
                  Digit(n, 4096), Digit(n, 256), Digit(n, 16), Digit(n, 1)>>

(* x'...': two digits to a byte.                                           *)
HexLiteral(h) == <<16 * h[1] + h[2], 16 * h[3] + h[4], 16 * h[5] + h[6], 16 * h[7] + h[8]>>

(* temp2 from temp1, and memcpy(&entity, temp2, 4).                        *)
(* [Mutant: temp1 is copied as it is.]                                     *)
Reversed_Mutant(b) == b
Reversed(b) == <<b[4], b[3], b[2], b[1]>>
LittleEndian(b) == b[1] + 256 * b[2] + 65536 * b[3] + 16777216 * b[4]

CodecInit == /\ id \in Ids
             /\ column = Default
             /\ decoded = Pending

(* UPDATE addressinfo SET entity = x'...'.                                 *)
Store == /\ column' = HexLiteral(HexDigits(id))
         /\ decoded' = Pending
         /\ UNCHANGED id

(* SELECT entity FROM addressinfo.                                         *)
Load == /\ decoded' = LittleEndian(Reversed(column))
        /\ UNCHANGED <<id, column>>

CodecNext == Store \/ Load

CodecSpec == CodecInit /\ [][CodecNext]_codecVars
-----------------------------------------------------------------------------
(* The column holds bytes and the decoded id is a unit32.                  *)
CodecTypeOK == /\ id \in Ids
               /\ \A i \in 1..4 : column[i] \in 0..255
               /\ decoded = Pending \/ IsUnit32(decoded)

(* A decoded id is the one that was written, or 0 if none was: "no entity  *)
(* yet" (0 == entity) and every merge by id mean what they say.            *)
RoundTrip == decoded # Pending => decoded = (IF column = Default THEN 0 ELSE id)
=============================================================================
