----------------------------- MODULE VersionEdit -----------------------------
(***************************************************************************)
(* A version edit and its encoding as a record of the manifest: numbers in *)
(* groups of bits with a mark on all but the last, slices with their       *)
(* length in front, a tag before each field. A field that may be absent is *)
(* a sequence of at most one element.                                      *)
(***************************************************************************)
EXTENDS Integers, Sequences, SequencesExt, FiniteSets, FiniteSetsExt

CONSTANTS
    B,                      \* 128: values of a group, and its mark
    Groups32, Width32,      \* groups that a 32-bit number may take, and its bits
    Groups64, Width64,
    kNumLevels,
    Numbers, Levels, Slices,        \* what the callers set
    MaxFields

VARIABLES edit

vars == <<edit>>

-----------------------------------------------------------------------------
(* Coding. A reader returns whether it succeeded, the value, and the rest. *)
RECURSIVE EncodeVarint(_)
EncodeVarint(v) == IF v < B THEN <<v>> ELSE <<B + (v % B)>> \o EncodeVarint(v \div B)
Fail == [ok |-> FALSE, value |-> <<>>, rest |-> <<>>]
\* [Mutant: one group less is read.]
GetVarint_Mutant(s, groups, width) ==
    LET last == {n \in 1..Min({groups - 1, Len(s)}) : s[n] < B}
    IN IF last = {} THEN Fail
       ELSE [ok |-> TRUE, rest |-> SubSeq(s, Min(last) + 1, Len(s)),
             value |-> MapThenSumSet(LAMBDA i : (s[i] % B) * B^(i - 1), 1..Min(last)) % 2^width]
GetVarint(s, groups, width) ==
    LET last == {n \in 1..Min({groups, Len(s)}) : s[n] < B}
    IN IF last = {} THEN Fail
       ELSE [ok |-> TRUE, rest |-> SubSeq(s, Min(last) + 1, Len(s)),
             value |-> MapThenSumSet(LAMBDA i : (s[i] % B) * B^(i - 1), 1..Min(last)) % 2^width]
GetVarint32(s) == GetVarint(s, Groups32, Width32)
GetVarint64(s) == GetVarint(s, Groups64, Width64)
PutLengthPrefixedSlice(s) == EncodeVarint(Len(s)) \o s
GetLengthPrefixedSlice(s) ==
    LET n == GetVarint32(s)
    IN IF ~n.ok THEN Fail
       ELSE IF n.value > Len(n.rest) THEN Fail
       ELSE [ok |-> TRUE, value |-> SubSeq(n.rest, 1, n.value),
             rest |-> SubSeq(n.rest, n.value + 1, Len(n.rest))]
GetLevel(s) == LET n == GetVarint32(s) IN IF ~n.ok THEN Fail
                                          ELSE IF n.value < kNumLevels THEN n ELSE Fail

-----------------------------------------------------------------------------
kComparator == 1
kLogNumber == 2
kNextFileNumber == 3
kLastSequence == 4
kCompactPointer == 5
kDeletedFile == 6
kNewFile == 7
kPrevLogNumber == 9
Tags == (1..7) \cup {9}

(* What follows each tag.                                                  *)
Shape(tag) == CASE tag = kComparator -> <<"slice">>
                [] tag = kCompactPointer -> <<"level", "slice">>
                [] tag = kDeletedFile -> <<"level", "number">>
                [] tag = kNewFile -> <<"level", "number", "number", "slice", "slice">>
                [] OTHER -> <<"number">>
Encoded(kind, v) == IF kind = "slice" THEN PutLengthPrefixedSlice(v) ELSE EncodeVarint(v)
Decoded(kind, s) == CASE kind = "slice" -> GetLengthPrefixedSlice(s)
                      [] kind = "level" -> GetLevel(s)
                      [] kind = "number" -> GetVarint64(s)
Field(tag, values) ==
    EncodeVarint(tag) \o FlattenSeq([i \in DOMAIN values |-> Encoded(Shape(tag)[i], values[i])])
Fields(tag, list) == FlattenSeq([i \in DOMAIN list |-> Field(tag, list[i])])
RECURSIVE ReadFields(_, _)
ReadFields(s, kinds) ==
    IF kinds = <<>> THEN [ok |-> TRUE, value |-> <<>>, rest |-> s]
    ELSE LET first == Decoded(Head(kinds), s)
             others == ReadFields(first.rest, Tail(kinds))
         IN IF ~first.ok THEN Fail
            ELSE IF ~others.ok THEN Fail
            ELSE [others EXCEPT !.value = <<first.value>> \o @]

\* What the constructor makes.
New == [comparator |-> <<>>, log_number |-> <<>>, prev_log_number |-> <<>>,
        next_file_number |-> <<>>, last_sequence |-> <<>>, compact_pointers |-> <<>>,
        deleted_files |-> {}, new_files |-> <<>>]
ByLevel(x, y) == x[1] < y[1] \/ (x[1] = y[1] /\ x[2] < y[2])
EncodeTo(e) ==
    Fields(kComparator, e.comparator) \o Fields(kLogNumber, e.log_number)
    \o Fields(kPrevLogNumber, e.prev_log_number) \o Fields(kNextFileNumber, e.next_file_number)
    \o Fields(kLastSequence, e.last_sequence) \o Fields(kCompactPointer, e.compact_pointers)
    \o Fields(kDeletedFile, SetToSortSeq(e.deleted_files, ByLevel))
    \o Fields(kNewFile, e.new_files)
WithField(e, tag, v) ==
    CASE tag = kComparator -> [e EXCEPT !.comparator = <<v>>]
      [] tag = kLogNumber -> [e EXCEPT !.log_number = <<v>>]
      [] tag = kPrevLogNumber -> [e EXCEPT !.prev_log_number = <<v>>]
      [] tag = kNextFileNumber -> [e EXCEPT !.next_file_number = <<v>>]
      [] tag = kLastSequence -> [e EXCEPT !.last_sequence = <<v>>]
      [] tag = kCompactPointer -> [e EXCEPT !.compact_pointers = Append(@, v)]
      [] tag = kDeletedFile -> [e EXCEPT !.deleted_files = @ \cup {v}]
      [] tag = kNewFile -> [e EXCEPT !.new_files = Append(@, v)]
Corruption == [ok |-> FALSE, edit |-> New]
RECURSIVE DecodeInto(_, _)
DecodeInto(e, input) ==
    LET tag == GetVarint32(input)
        f == ReadFields(tag.rest, Shape(tag.value))
    IN IF ~tag.ok THEN IF input = <<>> THEN [ok |-> TRUE, edit |-> e] ELSE Corruption
       ELSE IF tag.value \notin Tags THEN Corruption
       ELSE IF ~f.ok THEN Corruption
       ELSE DecodeInto(WithField(e, tag.value, f.value), f.rest)
\* The compact pointers stay.
Clear(e) == [New EXCEPT !.compact_pointers = e.compact_pointers]
DecodeFrom(e, src) == DecodeInto(Clear(e), src)

-----------------------------------------------------------------------------
(* The callers: setters, AddFile, DeleteFile.                              *)
Size(e) == Len(e.comparator \o e.log_number \o e.prev_log_number \o e.next_file_number
               \o e.last_sequence \o e.compact_pointers \o e.new_files)
           + Cardinality(e.deleted_files)
Set(tag, v) == Size(edit) < MaxFields /\ edit' = WithField(edit, tag, v)
SetComparatorName == edit.comparator = <<>> /\ \E s \in Slices : Set(kComparator, <<s>>)
SetNumber == \E tag \in {kLogNumber, kPrevLogNumber, kNextFileNumber, kLastSequence}, n \in Numbers :
                Set(tag, <<n>>)
SetCompactPointer == \E level \in Levels, s \in Slices : Set(kCompactPointer, <<level, s>>)
DeleteFile == \E level \in Levels, n \in Numbers : Set(kDeletedFile, <<level, n>>)
AddFile == \E level \in Levels, n \in Numbers, smallest, largest \in Slices :
              Set(kNewFile, <<level, n, n, smallest, largest>>)
Init == edit = New
Next == SetComparatorName \/ SetNumber \/ SetCompactPointer \/ DeleteFile \/ AddFile
Spec == Init /\ [][Next]_vars

-----------------------------------------------------------------------------
(* What was written to the manifest is what recovery reads from it, for    *)
(* every combination of fields and for numbers of every length, those that *)
(* fill the last group included.                                           *)
RoundTrip == DecodeFrom(New, EncodeTo(edit)) = [ok |-> TRUE, edit |-> edit]

Part(e) ==
    /\ e.comparator \in {<<>>, edit.comparator} /\ e.log_number \in {<<>>, edit.log_number}
    /\ e.prev_log_number \in {<<>>, edit.prev_log_number}
    /\ e.next_file_number \in {<<>>, edit.next_file_number}
    /\ e.last_sequence \in {<<>>, edit.last_sequence}
    /\ IsPrefix(e.compact_pointers, edit.compact_pointers)
    /\ e.deleted_files \subseteq edit.deleted_files /\ IsPrefix(e.new_files, edit.new_files)
(* A record that was cut off is refused, or read as an edit with fewer     *)
(* fields; it never names a file, a key or a number that was not written.  *)
CutIsNoLie ==
    LET bytes == EncodeTo(edit)
    IN \A n \in 0..Len(bytes) :
          LET d == DecodeFrom(New, SubSeq(bytes, 1, n)) IN d.ok => Part(d.edit)
=============================================================================
