------------------------------ MODULE FileName ------------------------------
(***************************************************************************)
(* The names of the files of a database and how they are read back from a  *)
(* directory listing. A name is what stands before its number, the digits  *)
(* of the number, and what stands after it.                                *)
(***************************************************************************)
EXTENDS Integers, Sequences, SequencesExt, FiniteSetsExt

CONSTANTS
    kMaxUint64,     \* the largest file number
    Pad,            \* digits that a number is padded to
    ForeignDigits, MaxDigits        \* names that the database did not make

VARIABLES name, made        \* the last name of a listing, and what it was made from

vars == <<name, made>>

Type == {"kLogFile", "kDBLockFile", "kTableFile", "kDescriptorFile", "kCurrentFile", "kTempFile",
         "kInfoLogFile"}
Head_ == {"", "MANIFEST-", "CURRENT", "LOCK", "LOG", "LOG.old"}
Suffix == {"", ".log", ".ldb", ".sst", ".dbtmp", "other"}

-----------------------------------------------------------------------------
Length(n) == CHOOSE len \in 1..(n + 1) : n < 10^len /\ (n > 0 => 10^(len - 1) <= n) /\ (n = 0 => len = 1)
Padded(n) == LET len == Max({Pad, Length(n)}) IN [i \in 1..len |-> (n \div 10^(len - i)) % 10]
Name(head, digits, suffix) == [head |-> head, digits |-> digits, suffix |-> suffix]
MakeFileName(n, suffix) == Name("", Padded(n), suffix)
DescriptorFileName(n) == Name("MANIFEST-", Padded(n), "")
FixedName(head) == Name(head, <<>>, "")
Numbered == {"kLogFile", "kTableFile", "kTempFile", "kDescriptorFile"}
Names(type, n) ==
    CASE type = "kLogFile" -> {MakeFileName(n, ".log")}
      [] type = "kTableFile" -> {MakeFileName(n, ".ldb"), MakeFileName(n, ".sst")}
      [] type = "kTempFile" -> {MakeFileName(n, ".dbtmp")}
      [] type = "kDescriptorFile" -> {DescriptorFileName(n)}
      [] type = "kCurrentFile" -> {FixedName("CURRENT")}
      [] type = "kDBLockFile" -> {FixedName("LOCK")}
      [] type = "kInfoLogFile" -> {FixedName("LOG"), FixedName("LOG.old")}

\* [Mutant: the last digit is not looked at.]
Overflow_Mutant(v, delta) == v > kMaxUint64 \div 10
Overflow(v, delta) ==
    v > kMaxUint64 \div 10 \/ (v = kMaxUint64 \div 10 /\ delta > kMaxUint64 % 10)
Consumed(r, delta) ==
    IF r.ok /\ ~Overflow(r.v, delta) THEN [r EXCEPT !.v = (@ * 10 + delta) % (kMaxUint64 + 1)]
    ELSE [r EXCEPT !.ok = FALSE]
ConsumeDecimalNumber(digits) == FoldLeft(Consumed, [ok |-> digits # <<>>, v |-> 0], digits)

NotOwned == [ok |-> FALSE, number |-> 0, type |-> "none"]
Owned(n, type) == [ok |-> TRUE, number |-> n, type |-> type]
TypeOfSuffix(suffix) ==
    CASE suffix = ".log" -> "kLogFile" [] suffix \in {".sst", ".ldb"} -> "kTableFile"
      [] suffix = ".dbtmp" -> "kTempFile" [] OTHER -> "none"
ParseFileName(f) ==
    LET num == ConsumeDecimalNumber(f.digits)
    IN CASE f = FixedName("CURRENT") -> Owned(0, "kCurrentFile")
         [] f = FixedName("LOCK") -> Owned(0, "kDBLockFile")
         [] f \in {FixedName("LOG"), FixedName("LOG.old")} -> Owned(0, "kInfoLogFile")
         [] f.head = "MANIFEST-" ->
               IF num.ok /\ f.suffix = "" THEN Owned(num.v, "kDescriptorFile") ELSE NotOwned
         [] f.head = "" /\ num.ok /\ TypeOfSuffix(f.suffix) # "none" ->
               Owned(num.v, TypeOfSuffix(f.suffix))
         [] OTHER -> NotOwned

-----------------------------------------------------------------------------
(* A listing shows CURRENT, then a file of the database or any other; and  *)
(* the directory is listed again.                                          *)
Current == name = FixedName("CURRENT")
ListOwn ==
    /\ Current
    /\ \E type \in Type : \E n \in (IF type \in Numbered THEN 1..kMaxUint64 ELSE {0}) :
          name' \in Names(type, n) /\ made' = Owned(n, type)
ListForeign ==
    /\ Current
    /\ \E head \in Head_, digits \in BoundedSeq(ForeignDigits, MaxDigits), suffix \in Suffix :
          name' = Name(head, digits, suffix) /\ made' = NotOwned
ListAgain == ~Current /\ name' = FixedName("CURRENT") /\ made' = Owned(0, "kCurrentFile")
Init == name = FixedName("CURRENT") /\ made = Owned(0, "kCurrentFile")
Next == ListOwn \/ ListForeign \/ ListAgain
Spec == Init /\ [][Next]_vars

-----------------------------------------------------------------------------
(* Every file that the database made is recognised, with its number and    *)
(* its type: also the largest numbers, and those longer than the padding.  *)
OwnIsRecognised == made.ok => ParseFileName(name) = made

Decimal(digits) == MapThenSumSet(LAMBDA i : digits[i] * 10^(Len(digits) - i), DOMAIN digits)
(* Any name that is taken for a file of the database has the number that   *)
(* it shows; one too large for 64 bits is refused and never becomes the    *)
(* number of another file, which DeleteObsoleteFiles might remove.         *)
NumberIsShown ==
    LET p == ParseFileName(name) IN p.ok => p.number = Decimal(name.digits)
=============================================================================
