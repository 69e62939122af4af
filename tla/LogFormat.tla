------------------------------ MODULE LogFormat ------------------------------
(***************************************************************************)
(* log::Writer over a Win32MapFile, and log::Reader over what the file     *)
(* contains when it is closed or when the process ends. Logs and manifests *)
(* are both written and read this way.                                     *)
(*                                                                         *)
(* A physical record is kHeaderSize bytes (checksum, length, type) and a   *)
(* fragment; the checksum is an injective function of type and fragment.   *)
(***************************************************************************)
EXTENDS MapFile

CONSTANTS
    kBlockSize, kHeaderSize,
    Sizes,              \* of the records
    MaxRecords          \* bound: records added

VARIABLES
    block_offset_,      \* where in a block the Writer believes to be
    calls,              \* the Append calls that AddRecord still has to make
    ignored,            \* whether it looks at the status of the one at work
    added,              \* history: the records passed to AddRecord
    acked               \* history: those for which it returned OK, by number

vars == <<fileVars, block_offset_, calls, ignored, added, acked>>

Init ==
    /\ FileInit
    /\ block_offset_ = 0 /\ calls = <<>> /\ ignored = FALSE /\ added = <<>> /\ acked = {}

-----------------------------------------------------------------------------
(* The Writer.                                                             *)
kZeroType == 0
kFullType == 1
kFirstType == 2
kMiddleType == 3
kLastType == 4

Header(type, fragment) ==
    [i \in 1..(kHeaderSize - 2) |-> <<"crc", i, type, fragment>>]
      \o <<IF Len(fragment) = 0 THEN Zero ELSE <<"length", Len(fragment)>>, <<"type", type>>>>
TypeOf(begin, end) == CASE begin /\ end -> kFullType [] begin -> kFirstType
                        [] end -> kLastType [] OTHER -> kMiddleType

\* A call has its data, the block offset after the physical record, and whether it
\* fills the trailer of a block, whose status nobody looks at.
\* [Mutant: the rest of the block is not filled.]
Trailer_Mutant(leftover) == <<>>
Trailer(leftover) ==
    IF leftover \in 1..(kHeaderSize - 1)
    THEN <<[data |-> [i \in 1..leftover |-> Zero], offset |-> 0, trailer |-> TRUE]>>
    ELSE <<>>
\* One iteration of AddRecord: w has the block offset, what is left, the calls.
Fragment(w) ==
    LET leftover == kBlockSize - w.offset
        start == IF leftover < kHeaderSize THEN 0 ELSE w.offset
        avail == kBlockSize - start - kHeaderSize
        n == IF Len(w.left) < avail THEN Len(w.left) ELSE avail
        fragment == SubSeq(w.left, 1, n)
        Call(data) == [data |-> data, offset |-> start + kHeaderSize + n, trailer |-> FALSE]
    IN IF w.done THEN w
       ELSE [offset |-> start + kHeaderSize + n,
             left |-> SubSeq(w.left, n + 1, Len(w.left)),
             begin |-> FALSE, done |-> n = Len(w.left),
             calls |-> w.calls \o Trailer(leftover)
                 \o <<Call(Header(TypeOf(w.begin, n = Len(w.left)), fragment)), Call(fragment)>>]
Fragments(record) ==
    FoldLeft(LAMBDA w, i : Fragment(w),
             [offset |-> block_offset_, left |-> record, begin |-> TRUE, done |-> FALSE,
              calls |-> <<>>], [i \in 1..(Len(record) + 1) |-> i])

AddRecord(n) ==
    LET record == [i \in 1..n |-> <<"data", Len(added) + 1, i>>]
    IN /\ Idle /\ calls = <<>> /\ Len(added) < MaxRecords
       /\ added' = Append(added, record)
       /\ calls' = Fragments(record).calls
       /\ UNCHANGED <<fileVars, block_offset_, ignored, acked>>
EmitPhysicalRecord ==
    /\ calls # <<>> /\ Append_(calls[1].data) /\ calls' = Tail(calls)
    /\ block_offset_' = calls[1].offset
    /\ ignored' = calls[1].trailer
    /\ acked' = IF Len(calls) = 1 /\ calls[1].data = <<>> THEN acked \cup {Len(added)} ELSE acked
    /\ UNCHANGED added
\* The last bytes of the record are in the file: AddRecord returns OK.
Returns == calls = <<>> /\ src' = <<>> /\ src # <<>>
Written ==
    /\ Copy
    /\ acked' = IF Returns THEN acked \cup {Len(added)} ELSE acked
    /\ UNCHANGED <<block_offset_, calls, ignored, added>>
\* An Append fails: AddRecord returns the error and makes no further call.
WriteFails ==
    /\ MapFails
    /\ calls' = IF ignored THEN calls ELSE <<>>
    /\ UNCHANGED <<block_offset_, ignored, added, acked>>
\* Steps of the file that the Writer does not see.
Quiet ==
    /\ NewWritableFile \/ MapNewRegion \/ (calls = <<>> /\ (Sync \/ Close)) \/ Kill
    /\ UNCHANGED <<block_offset_, calls, ignored, added, acked>>

Next ==
    \/ \E n \in Sizes : AddRecord(n)
    \/ EmitPhysicalRecord \/ Written \/ WriteFails \/ Quiet
Spec == Init /\ [][Next]_vars

-----------------------------------------------------------------------------
(* The Reader: r has the blocks' position, the buffer, what ReadRecord     *)
(* holds, what it returned so far and how often it reported corruption.    *)
Fresh == [pos |-> 0, buffer |-> <<>>, eof |-> FALSE, inside |-> FALSE, scratch |-> <<>>,
          records |-> <<>>, reports |-> 0]

Length(header) == IF header[kHeaderSize - 1] = Zero THEN 0
                  ELSE IF header[kHeaderSize - 1][1] = "length" THEN header[kHeaderSize - 1][2]
                  ELSE 0
Type(header) == IF header[kHeaderSize] = Zero THEN kZeroType ELSE header[kHeaderSize][2]

ChecksumFails(header, fragment) == header # Header(Type(header), fragment)
\* A physical record, or what stands in its place: "eof", "bad", "more".
Physical(r) ==
    LET header == SubSeq(r.buffer, 1, kHeaderSize)
        length == Length(header)
        fragment == SubSeq(r.buffer, kHeaderSize + 1, kHeaderSize + length)
    IN IF Len(r.buffer) < kHeaderSize
         THEN [kind |-> IF r.eof THEN "eof" ELSE "more", report |-> 0]
       ELSE IF kHeaderSize + length > Len(r.buffer)
         THEN [kind |-> IF r.eof THEN "eof" ELSE "bad", report |-> 1]
       ELSE IF Type(header) = kZeroType /\ length = 0 THEN [kind |-> "bad", report |-> 0]
       ELSE IF ChecksumFails(header, fragment) THEN [kind |-> "bad", report |-> 1]
       ELSE [kind |-> "record", report |-> 0, type |-> Type(header), fragment |-> fragment]

ReadBlock(r) ==
    LET n == IF Len(content) - r.pos < kBlockSize THEN Len(content) - r.pos ELSE kBlockSize
        block == SubSeq(content, r.pos + 1, r.pos + n)
    IN [r EXCEPT !.buffer = block, !.pos = @ + Len(block), !.eof = Len(block) < kBlockSize]
Bad(r, report) ==
    [r EXCEPT !.buffer = <<>>, !.inside = FALSE, !.scratch = <<>>,
              !.reports = @ + report + IF r.inside THEN 1 ELSE 0]
Record(r, type, fragment) ==
    LET rest == SubSeq(r.buffer, kHeaderSize + Len(fragment) + 1, Len(r.buffer))
        partial == IF r.inside /\ r.scratch # <<>> THEN 1 ELSE 0
    IN CASE type = kFullType ->
              [r EXCEPT !.buffer = rest, !.inside = FALSE, !.scratch = <<>>,
                        !.records = Append(@, fragment), !.reports = @ + partial]
         [] type = kFirstType ->
              [r EXCEPT !.buffer = rest, !.inside = TRUE, !.scratch = fragment,
                        !.reports = @ + partial]
         [] type \in {kMiddleType, kLastType} /\ ~ r.inside ->
              [r EXCEPT !.buffer = rest, !.reports = @ + 1]
         [] type = kMiddleType -> [r EXCEPT !.buffer = rest, !.scratch = @ \o fragment]
         [] OTHER ->
              [r EXCEPT !.buffer = rest, !.inside = FALSE, !.scratch = <<>>,
                        !.records = Append(@, r.scratch \o fragment)]
RECURSIVE ReadFrom(_)
ReadFrom(r) ==
    LET p == Physical(r)
    IN CASE p.kind = "eof" -> r
         [] p.kind = "more" -> ReadFrom(ReadBlock(r))
         [] p.kind = "bad" -> ReadFrom(Bad(r, p.report))
         [] p.kind = "record" -> ReadFrom(Record(r, p.type, p.fragment))
ReadAll == ReadFrom(Fresh)

-----------------------------------------------------------------------------
Ended == state \in {"closed", "killed"}

(* Wherever the process ends, a Reader returns every record for which      *)
(* AddRecord had returned OK, in order and whole, and besides at most the  *)
(* one that was being added: nothing torn, nothing put together from two.  *)
ReadsBack ==
    Ended /\ errors = 0 =>
        ReadAll.records \in {SubSeq(added, 1, n) : n \in {Cardinality(acked), Len(added)}}

(* A log that was closed is read without a report of corruption.           *)
ClosedIsClean == state = "closed" /\ errors = 0 => ReadAll.reports = 0

(* Also when an Append fails half way and the records after it lie where   *)
(* the Reader does not expect them, it returns only records that were      *)
(* added.                                                                  *)
NothingTorn == Ended => ToSet(ReadAll.records) \subseteq ToSet(added)
=============================================================================
