------------------------------ MODULE MemTable ------------------------------
(***************************************************************************)
(* Batches of writes and the memtable they go into: a batch is built, or   *)
(* put together from the batches of several writers, gets sequence numbers *)
(* and is inserted entry by entry without the lock, while readers look up  *)
(* keys as of the last sequence number they have seen. The skip list under *)
(* the memtable is the set that OrderedSet describes.                      *)
(***************************************************************************)
EXTENDS Integers, Sequences, FiniteSets

CONSTANTS
    Key, Value,
    Reader,
    None,               \* no value: deleted, or never written
    MaxSequence,        \* bound: entries that are written
    MaxBatch            \* bound: records of a batch

VARIABLES
    batch, group,       \* rep_ of a writer's batch and of tmp_batch_
    writing,            \* whether InsertInto runs
    inserting,          \* the records it has yet to insert
    sequence_,          \* MemTableInserter's
    status,             \* of the last InsertInto
    table_,             \* the entries of the skip list
    LastSequence,
    reader,             \* what each reader looks up
    contents            \* history: what all the batches so far come to

vars == <<batch, group, writing, inserting, sequence_, status, table_, LastSequence, reader,
          contents>>

-----------------------------------------------------------------------------
(* WriteBatch: the header's count, and the records.                        *)
Clear == [count |-> 0, records |-> <<>>]
WithRecord(b, rec) == [count |-> b.count + 1, records |-> Append(b.records, rec)]
\* WriteBatchInternal::Append
AppendBatch(dst, src) == [count |-> dst.count + src.count, records |-> dst.records \o src.records]

Record == [key : Key, value : Value \cup {None}]
Unchanged == UNCHANGED <<table_, LastSequence, reader, contents, status, sequence_,
                         writing, inserting>>
PutOrDelete(rec) ==
    /\ batch.count < MaxBatch
    /\ LastSequence + group.count + batch.count < MaxSequence
    /\ batch' = WithRecord(batch, rec)
    /\ UNCHANGED group /\ Unchanged
\* BuildBatchGroup adds a waiting writer's batch.
AddToGroup ==
    /\ ~ writing /\ batch.count > 0 /\ group.count < MaxBatch
    /\ group' = AppendBatch(group, batch) /\ batch' = Clear
    /\ Unchanged

(* Write: SetSequence, and InsertInto, which is Iterate.                   *)
Write ==
    /\ ~ writing /\ group.records # <<>>
    /\ writing' = TRUE /\ inserting' = group.records
    /\ sequence_' = LastSequence + 1
    /\ UNCHANGED <<batch, group, status, table_, LastSequence, reader, contents>>
\* MemTableInserter::Put and Delete
Add ==
    /\ inserting # <<>>
    /\ LET rec == Head(inserting)
       IN table_' = table_ \cup {[key |-> rec.key, seq |-> sequence_, value |-> rec.value]}
    /\ sequence_' = sequence_ + 1 /\ inserting' = Tail(inserting)
    /\ UNCHANGED <<batch, group, writing, status, LastSequence, reader, contents>>
Latest(es) == CHOOSE e \in es : \A d \in es : d.seq <= e.seq
Newest(k, es) == LET mine == {e \in es : e.key = k}
                 IN IF mine = {} THEN None ELSE Latest(mine).value
\* What a map becomes when records are applied to it in order: the last one
\* for a key counts.
After(m, recs) ==
    [k \in Key |-> LET mine == {n \in DOMAIN recs : recs[n].key = k}
                   IN IF mine = {} THEN m[k]
                      ELSE recs[CHOOSE n \in mine : \A p \in mine : p <= n].value]
\* SetLastSequence, after the last entry.
\* [Mutant: the entries are published before they are inserted.]
Published_Mutant == writing /\ Len(inserting) <= 1
Published == writing /\ inserting = <<>>
SetLastSequence ==
    /\ Published
    /\ status' = IF Len(group.records) = group.count THEN "ok" ELSE "wrong count"
    /\ LastSequence' = LastSequence + group.count
    /\ contents' = After(contents, group.records)
    /\ group' = Clear /\ writing' = FALSE /\ inserting' = <<>>
    /\ UNCHANGED <<batch, sequence_, table_, reader>>

(* Get: the lock is held for the sequence number only.                     *)
StartGet(r, k) ==
    /\ reader[r].key = None
    /\ reader' = [reader EXCEPT ![r] = [key |-> k, snapshot |-> LastSequence,
                                        answer |-> None, expected |-> contents[k], done |-> FALSE]]
    /\ UNCHANGED <<batch, group, writing, inserting, sequence_, status, table_, LastSequence,
                   contents>>
\* MemTable::Get: the first entry at or after the key and the sequence number.
Seen(r) == {e \in table_ : e.seq <= reader[r].snapshot}
Get(r) ==
    /\ reader[r].key # None /\ ~ reader[r].done
    /\ reader' = [reader EXCEPT ![r].answer = Newest(reader[r].key, Seen(r)), ![r].done = TRUE]
    /\ UNCHANGED <<batch, group, writing, inserting, sequence_, status, table_, LastSequence,
                   contents>>
Idle == [key |-> None, snapshot |-> 0, answer |-> None, expected |-> None, done |-> FALSE]
Return(r) ==
    /\ reader[r].done /\ reader' = [reader EXCEPT ![r] = Idle]
    /\ UNCHANGED <<batch, group, writing, inserting, sequence_, status, table_, LastSequence,
                   contents>>

-----------------------------------------------------------------------------
Init ==
    /\ batch = Clear /\ group = Clear /\ writing = FALSE /\ inserting = <<>> /\ sequence_ = 0 /\ status = "ok"
    /\ table_ = {} /\ LastSequence = 0 /\ contents = [k \in Key |-> None]
    /\ reader = [r \in Reader |-> Idle]
Next ==
    \/ \E rec \in Record : PutOrDelete(rec)
    \/ AddToGroup \/ Write \/ Add \/ SetLastSequence
    \/ \E r \in Reader : (\E k \in Key : StartGet(r, k)) \/ Get(r) \/ Return(r)
Spec == Init /\ [][Next]_vars

-----------------------------------------------------------------------------
(* A reader sees the batches that were complete when it took its sequence  *)
(* number and no part of another, however many entries are inserted        *)
(* between that moment and its search.                                     *)
SeesWholeBatches == \A r \in Reader : reader[r].done => reader[r].answer = reader[r].expected

(* InsertInto does not refuse a batch that was put together from others:   *)
(* the header of a group counts its records.                               *)
CountIsRight == status = "ok"

(* The sequence numbers of all entries are different, also across groups:  *)
(* what the skip list requires of its keys.                                *)
SequencesDiffer == \A d, e \in table_ : d.seq = e.seq => d = e

(* What a memtable promises: readers see whole batches, under sequence     *)
(* numbers that differ, and no group is refused for its count.             *)
BatchesAreWhole == SeesWholeBatches /\ SequencesDiffer /\ CountIsRight
=============================================================================
