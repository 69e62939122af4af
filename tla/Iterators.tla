------------------------------ MODULE Iterators ------------------------------
(***************************************************************************)
(* DBIter over a MergingIterator over a memtable, which goes on growing,   *)
(* and a table, read by a TwoLevelIterator: how reads in both directions   *)
(* find, in all the versions of all the keys, the ones of one sequence     *)
(* number.                                                                 *)
(*                                                                         *)
(* User keys are even, separators of an index odd numbers.                 *)
(***************************************************************************)
EXTENDS Integers, Sequences, SequencesExt, FiniteSets, FiniteSetsExt

CONSTANTS
    Key,                \* user keys, even
    Target,             \* what Seek is called with
    Last_,              \* the sequence number of the iterator
    MaxInserts,         \* bound: writes while the iterator lives
    BlockSize           \* entries of a block of the table

VARIABLES
    mem, blocks,        \* the entries of the memtable; the blocks of the table
    separators,         \* the keys of the table's index
    children_,          \* the positions of the two child iterators
    current_, mdirection_,                      \* MergingIterator
    direction_, valid_, saved_key_, saved_value_,   \* DBIter
    op                  \* history: the call made last, and its argument

data == <<mem, blocks, separators>>
vars == <<data, children_, current_, mdirection_, direction_, valid_, saved_key_,
          saved_value_, op>>

Before(a, b) == a.key < b.key \/ (a.key = b.key /\ a.seq > b.seq)
NotBefore(es, t) == {e \in es : ~ Before(e, t)}
LeastOf(es) == CHOOSE e \in es : \A d \in es : ~ Before(d, e)
GreatestOf(es) == CHOOSE e \in es : \A d \in es : ~ Before(e, d)

-----------------------------------------------------------------------------
(* The memtable's iterator: a position is <<entry>>, or <<>>.              *)
End == <<>>
FirstNode(es) == IF es = {} THEN End ELSE <<LeastOf(es)>>
LastNode(es) == IF es = {} THEN End ELSE <<GreatestOf(es)>>
MemSeek(t) == FirstNode(NotBefore(mem, t))
MemSeekToFirst == FirstNode(mem)
MemSeekToLast == LastNode(mem)
MemNext(p) == FirstNode({e \in mem : Before(p[1], e)})
MemPrev(p) == LastNode({e \in mem : Before(e, p[1])})

(* TwoLevelIterator: a position is <<block, place in the block>>, or <<>>. *)
\* SkipEmptyDataBlocksForward and -Backward.
\* [Mutant: the end of the block is the end.]
Forward_Mutant(b, j) == IF b \in DOMAIN blocks /\ j \in DOMAIN blocks[b] THEN <<b, j>> ELSE End
Forward(b, j) ==
    IF b \notin DOMAIN blocks THEN End
    ELSE IF j \in DOMAIN blocks[b] THEN <<b, j>>
    ELSE IF b + 1 \in DOMAIN blocks THEN <<b + 1, 1>> ELSE End
Backward(b, j) ==
    IF b \notin DOMAIN blocks THEN End
    ELSE IF j \in DOMAIN blocks[b] THEN <<b, j>>
    ELSE IF b - 1 \in DOMAIN blocks THEN <<b - 1, Len(blocks[b - 1])>> ELSE End
Least(ns, none) == IF ns = {} THEN none ELSE Min(ns)
IndexSeek(t) == Least({n \in DOMAIN blocks : ~ Before(separators[n], t)}, 0)
TableSeek(t) ==
    LET b == IndexSeek(t)
        j == Least({n \in DOMAIN blocks[b] : ~ Before(blocks[b][n], t)}, 0)
    IN IF b = 0 THEN End ELSE Forward(b, j)
TableSeekToFirst == Forward(1, 1)
TableSeekToLast == IF blocks = <<>> THEN End ELSE <<Len(blocks), Len(blocks[Len(blocks)])>>
TableNext(p) == Forward(p[1], p[2] + 1)
TablePrev(p) == Backward(p[1], p[2] - 1)

-----------------------------------------------------------------------------
(* MergingIterator: m has the positions, the child that is current (0 for  *)
(* none) and the direction.                                                *)
EntryAt(m, i) == IF i = 1 THEN m.pos[1][1] ELSE blocks[m.pos[2][1]][m.pos[2][2]]
Live(m) == {i \in 1..2 : m.pos[i] # End}
FindSmallest(m) ==
    [m EXCEPT !.current = IF Live(m) = {} THEN 0
        ELSE CHOOSE i \in Live(m) : \A j \in Live(m) : ~ Before(EntryAt(m, j), EntryAt(m, i))]
FindLargest(m) ==
    [m EXCEPT !.current = IF Live(m) = {} THEN 0
        ELSE CHOOSE i \in Live(m) : \A j \in Live(m) : ~ Before(EntryAt(m, i), EntryAt(m, j))]
Valid(m) == m.current # 0
At(m) == EntryAt(m, m.current)

Merging(pos, direction) == [pos |-> pos, current |-> 0, direction |-> direction]
MSeek(t) == FindSmallest(Merging(<<MemSeek(t), TableSeek(t)>>, "forward"))
MSeekToFirst == FindSmallest(Merging(<<MemSeekToFirst, TableSeekToFirst>>, "forward"))
MSeekToLast == FindLargest(Merging(<<MemSeekToLast, TableSeekToLast>>, "reverse"))

Step(i, p) == IF i = 1 THEN MemNext(p) ELSE TableNext(p)
StepBack(i, p) == IF i = 1 THEN MemPrev(p) ELSE TablePrev(p)
SeekChild(i, t) == IF i = 1 THEN MemSeek(t) ELSE TableSeek(t)
SeekChildToLast(i) == IF i = 1 THEN MemSeekToLast ELSE TableSeekToLast
\* Turning round: where the other child has to stand. No two entries are equal.
BeforeKey(i, t) ==
    LET p == SeekChild(i, t) IN IF p = End THEN SeekChildToLast(i) ELSE StepBack(i, p)

MNext(m) ==
    LET other == 3 - m.current
        turned == IF m.direction = "forward" THEN m.pos
                  ELSE [m.pos EXCEPT ![other] = SeekChild(other, At(m))]
    IN FindSmallest([m EXCEPT !.pos = [turned EXCEPT ![m.current] = Step(m.current, @)],
                              !.direction = "forward"])
MPrev(m) ==
    LET other == 3 - m.current
        turned == IF m.direction = "reverse" THEN m.pos
                  ELSE [m.pos EXCEPT ![other] = BeforeKey(other, At(m))]
    IN FindLargest([m EXCEPT !.pos = [turned EXCEPT ![m.current] = StepBack(m.current, @)],
                             !.direction = "reverse"])

-----------------------------------------------------------------------------
(* DBIter. A key that is not there is 0.                                   *)
RECURSIVE FindNextUserEntry(_, _, _)
FindNextUserEntry(m, skipping, skip) ==
    IF ~ Valid(m) THEN [m |-> m, valid |-> FALSE]
    ELSE LET e == At(m)
         IN IF e.seq > Last_ THEN FindNextUserEntry(MNext(m), skipping, skip)
            ELSE IF e.type = "deletion" THEN FindNextUserEntry(MNext(m), TRUE, e.key)
            ELSE IF skipping /\ e.key <= skip THEN FindNextUserEntry(MNext(m), skipping, skip)
            ELSE [m |-> m, valid |-> TRUE]

PassesBy(e, held) == held # End /\ e.key < held[1].key
RECURSIVE FindPrevUserEntry(_, _)
FindPrevUserEntry(m, held) ==
    IF ~ Valid(m) \/ (At(m).seq <= Last_ /\ PassesBy(At(m), held)) THEN [m |-> m, held |-> held]
    ELSE LET e == At(m)
         IN FindPrevUserEntry(MPrev(m), IF e.seq > Last_ THEN held
                                        ELSE IF e.type = "deletion" THEN End ELSE <<e>>)
\* Prev from forward: back over all the entries of the key.
RECURSIVE BeforeEntries(_, _)
BeforeEntries(m, k) ==
    LET p == MPrev(m) IN IF ~ Valid(p) \/ At(p).key < k THEN p ELSE BeforeEntries(p, k)

Merged == [pos |-> children_, current |-> current_, direction |-> mdirection_]
SetMerged(m) == /\ children_' = m.pos /\ current_' = m.current /\ mdirection_' = m.direction
                /\ UNCHANGED data

GoForward(found) ==
    /\ SetMerged(found.m) /\ valid_' = found.valid /\ direction_' = "forward"
    /\ saved_key_' = 0
GoBack(found) ==
    /\ SetMerged(found.m) /\ valid_' = (found.held # End)
    /\ direction_' = IF found.held # End THEN "reverse" ELSE "forward"
    /\ saved_key_' = IF found.held # End THEN found.held[1].key ELSE 0
    /\ saved_value_' = IF found.held # End THEN found.held[1].seq ELSE 0

Seek(t) ==
    /\ op' = <<"Seek", t>> /\ saved_value_' = 0
    /\ GoForward(FindNextUserEntry(MSeek([key |-> t, seq |-> Last_]), FALSE, 0))
SeekToFirst ==
    /\ op' = <<"SeekToFirst">> /\ saved_value_' = 0
    /\ GoForward(FindNextUserEntry(MSeekToFirst, FALSE, 0))
SeekToLast == op' = <<"SeekToLast">> /\ GoBack(FindPrevUserEntry(MSeekToLast, End))
IntoEntries(m) == IF Valid(m) THEN MNext(m) ELSE MSeekToFirst
Again(name) == IF op = <<name>> THEN <<name, "again">> ELSE <<name>>
Next_ ==
    /\ valid_ /\ op' = Again("Next") /\ UNCHANGED saved_value_
    /\ GoForward(FindNextUserEntry(
           IF direction_ = "reverse" THEN IntoEntries(Merged) ELSE Merged, TRUE,
           IF direction_ = "reverse" THEN saved_key_ ELSE At(Merged).key))
Prev ==
    LET m == IF direction_ = "reverse" THEN Merged ELSE BeforeEntries(Merged, At(Merged).key)
    IN /\ valid_ /\ op' = Again("Prev")
       /\ IF direction_ = "forward" /\ ~ Valid(m)
            THEN /\ SetMerged(m) /\ valid_' = FALSE /\ saved_key_' = 0 /\ saved_value_' = 0
                 /\ UNCHANGED direction_
            ELSE GoBack(FindPrevUserEntry(m, End))

\* A writer adds to the memtable that the iterator reads.
Inserted == Cardinality({e \in mem : e.seq > Last_})
Insert(k, type) ==
    /\ Inserted < MaxInserts
    /\ mem' = mem \cup {[key |-> k, seq |-> Last_ + Inserted + 1, type |-> type]}
    /\ UNCHANGED <<blocks, separators, children_, current_, mdirection_, direction_, valid_,
                   saved_key_, saved_value_, op>>

-----------------------------------------------------------------------------
(* A version of a key in the table is older than all in the memtable. The  *)
(* blocks are those of a table, whose index has keys between the blocks,   *)
(* or the files of a level, whose index has their largest keys.            *)
Types == {"value", "deletion"}
Cut(es) ==
    LET s == SetToSortSeq(es, Before)
        n == (Len(s) + BlockSize - 1) \div BlockSize
    IN [b \in 1..n |-> SubSeq(s, (b - 1) * BlockSize + 1, Min({b * BlockSize, Len(s)}))]
LastOf(bs) == [b \in DOMAIN bs |-> LET e == bs[b][Len(bs[b])] IN [key |-> e.key, seq |-> e.seq]]
Separated(bs) ==
    [b \in DOMAIN bs |-> LET e == LastOf(bs)[b]
                         IN IF b < Len(bs) /\ bs[b + 1][1].key = e.key THEN e
                            ELSE [key |-> e.key + 1, seq |-> 1000]]
Init ==
    /\ \E write \in [1..Last_ -> Key \X Types], flushed \in SUBSET (1..Last_) :
          LET e(i) == [key |-> write[i][1], seq |-> i, type |-> write[i][2]]
          IN /\ \A i \in flushed, j \in 1..Last_ :
                    j < i /\ write[i][1] = write[j][1] => j \in flushed
             /\ mem = {e(i) : i \in (1..Last_) \ flushed}
             /\ blocks = Cut({e(i) : i \in flushed})
             /\ separators \in {Separated(blocks), LastOf(blocks)}
    /\ children_ = <<End, End>> /\ current_ = 0 /\ mdirection_ = "forward"
    /\ direction_ = "forward" /\ valid_ = FALSE /\ saved_key_ = 0 /\ saved_value_ = 0
    /\ op = <<>>

Next ==
    \/ \E t \in Target : Seek(t)
    \/ SeekToFirst \/ SeekToLast \/ Next_ \/ Prev
    \/ \E k \in Key, type \in Types : Insert(k, type)
Spec == Init /\ [][Next]_vars

-----------------------------------------------------------------------------
AllEntries == mem \cup UNION {ToSet(blocks[b]) : b \in DOMAIN blocks}
Newest(k) == LET es == {e \in AllEntries : e.key = k /\ e.seq <= Last_}
             IN IF es = {} THEN [type |-> "deletion"]
                ELSE CHOOSE e \in es : \A d \in es : d.seq <= e.seq
View == [k \in {j \in Key : Newest(j).type = "value"} |-> Newest(k).seq]
Position == CASE ~ valid_ -> <<>>
              [] direction_ = "forward" -> <<At(Merged).key, At(Merged).seq>>
              [] OTHER -> <<saved_key_, saved_value_>>
C == INSTANCE Cursor WITH view <- View, at <- Position

(* Every sequence of Seek, Next and Prev, with turns at any place and      *)
(* writes in between, stands on the entry of the database as it was when   *)
(* the iterator was made that a cursor over a plain map would stand on.    *)
IsACursor == C!Init /\ [][C!Next]_<<View, Position, op>>

(* Moving backwards, DBIter's own iterator stands before all the entries   *)
(* of the key it yields, and forwards on the entry itself: the comment on  *)
(* Direction.                                                              *)
StandsBefore ==
    valid_ => IF direction_ = "forward"
              THEN At(Merged).type = "value" /\ At(Merged).seq <= Last_
              ELSE current_ # 0 => At(Merged).key < saved_key_
=============================================================================
