--------------------------- MODULE MemTableProofs ---------------------------
(***************************************************************************)
(* Readers of a memtable see whole batches, for any keys, values, number   *)
(* of readers and sizes of batches; and the memory it is made of is handed *)
(* out in pieces that are apart, with little of it lost.                   *)
(***************************************************************************)
EXTENDS MemTable, Arena, WellFoundedInduction, TLAPS

MaybeValue == Value \cup {None}
Entry == [key : Key, seq : Nat, value : MaybeValue]
BatchType == [count : Nat, records : Seq(Record)]
ReaderType == [key : Key \cup {None}, snapshot : Nat, answer : MaybeValue,
               expected : MaybeValue, done : BOOLEAN]
\* The batches, the entries, the numbers and the readers have their types.
TypeOK ==
    /\ batch \in BatchType /\ group \in BatchType
    /\ writing \in BOOLEAN /\ inserting \in Seq(Record) /\ sequence_ \in Nat
    /\ table_ \subseteq Entry /\ LastSequence \in Nat
    /\ reader \in [Reader -> ReaderType]
    /\ contents \in [Key -> MaybeValue]

\* The records of the group that are in the table already.
Inserted == Len(group.records) - Len(inserting)
Prefix(recs, n) == [i \in 1..n |-> recs[i]]
\* The entries that a reader sees who starts now.
Visible == {e \in table_ : e.seq <= LastSequence}

\* The header of a batch counts its records.
CountInv == /\ batch.count = Len(batch.records) /\ group.count = Len(group.records)
            /\ status = "ok"
\* The rest of the group is what InsertInto has yet to insert.
InsertInv ==
    /\ ~ writing => inserting = <<>>
    /\ writing => /\ Len(inserting) <= Len(group.records)
                  /\ sequence_ = LastSequence + Inserted + 1
                  /\ \A i \in 1..Len(inserting) : inserting[i] = group.records[Inserted + i]
\* The last sequence number that an entry can have.
Top == IF writing THEN sequence_ - 1 ELSE LastSequence
TableInv == (\A e \in table_ : e.seq <= Top) /\ SequencesDiffer
\* The published entries come to the published batches, and all entries to
\* those and the part of the group that was inserted.
ContentsInv ==
    /\ \A k \in Key : Newest(k, Visible) = contents[k]
    /\ writing => \A k \in Key :
                    Newest(k, table_) = After(contents, Prefix(group.records, Inserted))[k]
\* What a reader will find does not change any more.
ReaderInv ==
    \A r \in Reader :
        /\ reader[r].snapshot <= LastSequence
        /\ reader[r].key # None => Newest(reader[r].key, Seen(r)) = reader[r].expected
        /\ reader[r].done => reader[r].answer = reader[r].expected
IInv == TypeOK /\ CountInv /\ InsertInv /\ TableInv /\ ContentsInv /\ ReaderInv

-----------------------------------------------------------------------------
(* A set of natural numbers that is not empty has a least element, and a   *)
(* bounded one a greatest.                                                 *)
LEMMA LeastOf ==
    ASSUME NEW T, T \subseteq Nat, T # {}
    PROVE  \E m \in T : \A n \in T : m <= n
<1> DEFINE R == {ss \in Nat \X Nat : ss[1] < ss[2]}
<1>1. IsWellFoundedOn(R, Nat)
  BY NatLessThanWellFounded DEF OpToRel
<1>2. \A n, m \in T : n < m => <<n, m>> \in R
  OBVIOUS
<1> HIDE DEF R
<1>3. PICK m \in T : \A n \in T : ~ (<<n, m>> \in R)
  BY <1>1, WFMin, Zenon
<1>4. \A n \in T : n \in Nat /\ m \in Nat /\ ~(n < m)
  BY <1>2, <1>3, Zenon
<1> QED BY <1>4
LEMMA GreatestOf ==
    ASSUME NEW T, NEW b \in Nat, T \subseteq 0..b, T # {}
    PROVE  \E m \in T : \A n \in T : n <= m
<1> DEFINE U == {u \in Nat : b - u \in T}
<1>1. PICK t \in T : TRUE
  BY Zenon
<1>2. b - t \in U /\ U \subseteq Nat
  BY <1>1
<1>3. PICK u \in U : \A v \in U : u <= v
  BY <1>2, LeastOf, Zenon
<1>4. \A n \in T : b - n \in U /\ n \in 0..b
  OBVIOUS
<1>5. \A n \in T : n <= b - u
  BY <1>3, <1>4
<1> QED BY <1>3, <1>5

(* The entry of a key with the greatest sequence number is its newest.     *)
LEMMA NewestIs ==
    ASSUME NEW es, es \subseteq Entry, NEW e \in es,
           \A d \in es : d.key = e.key => d.seq <= e.seq,
           \A c, d \in es : c.seq = d.seq => c = d
    PROVE  Newest(e.key, es) = e.value
<1> DEFINE mine == {d \in es : d.key = e.key}
<1>1. e \in mine /\ \A d \in mine : d.seq <= e.seq
  OBVIOUS
<1>2. \A c \in mine : (\A d \in mine : d.seq <= c.seq) => c = e
  <2> TAKE c \in mine
  <2> HAVE \A d \in mine : d.seq <= c.seq
  <2>1. c.seq \in Nat /\ e.seq \in Nat /\ c.seq <= e.seq /\ e.seq <= c.seq
    BY <1>1 DEF Entry
  <2> QED BY <2>1
<1>3. Latest(mine) \in mine /\ \A d \in mine : d.seq <= Latest(mine).seq
  BY <1>1 DEF Latest
<1>4. Latest(mine) = e
  BY <1>2, <1>3
<1>5. Newest(e.key, es) = IF mine = {} THEN None ELSE Latest(mine).value
  BY DEF Newest
<1> QED BY <1>1, <1>4, <1>5

(* Entries of other keys do not matter.                                    *)
LEMMA NewestOther ==
    ASSUME NEW k, NEW es, NEW fs, {e \in es : e.key = k} = {e \in fs : e.key = k}
    PROVE  Newest(k, es) = Newest(k, fs)
BY DEF Newest

(* Applying one record more changes its key only.                          *)
LEMMA AfterNext ==
    ASSUME NEW m, NEW recs \in Seq(Record), NEW n \in Nat, n < Len(recs), NEW k \in Key
    PROVE  After(m, Prefix(recs, n + 1))[k] =
             IF recs[n + 1].key = k THEN recs[n + 1].value ELSE After(m, Prefix(recs, n))[k]
<1> DEFINE P == Prefix(recs, n)
           Q == Prefix(recs, n + 1)
           mineP == {i \in DOMAIN P : P[i].key = k}
           mineQ == {i \in DOMAIN Q : Q[i].key = k}
           topP == CHOOSE i \in mineP : \A j \in mineP : j <= i
           topQ == CHOOSE i \in mineQ : \A j \in mineQ : j <= i
<1>1. /\ DOMAIN P = 1..n /\ DOMAIN Q = 1..(n + 1) /\ n + 1 \in 1..(n + 1)
      /\ \A i \in 1..n : P[i] = recs[i] /\ Q[i] = recs[i] /\ i \in 1..(n + 1)
      /\ Q[n + 1] = recs[n + 1]
  BY DEF Prefix
<1>2. /\ After(m, P)[k] = IF mineP = {} THEN m[k] ELSE P[topP].value
      /\ After(m, Q)[k] = IF mineQ = {} THEN m[k] ELSE Q[topQ].value
  BY SMTT(30) DEF After
<1>3. CASE recs[n + 1].key = k
  <2>1. n + 1 \in mineQ /\ \A j \in mineQ : j \in Nat /\ j <= n + 1
    BY <1>1, <1>3
  <2>2. topQ \in mineQ /\ \A j \in mineQ : j <= topQ
    BY <2>1
  <2>3. topQ = n + 1
    BY <2>1, <2>2
  <2> QED BY <1>1, <1>2, <1>3, <2>1, <2>3
<1>4. CASE recs[n + 1].key # k
  <2>1. \A i \in 1..(n + 1) : i # n + 1 => i \in 1..n
    OBVIOUS
  <2>2. mineQ = mineP
    <3> HIDE DEF P, Q
    <3> QED BY <1>1, <1>4, <2>1, SMTT(30)
  <2>3. CASE mineP = {}
    BY <1>2, <1>4, <2>2, <2>3, SMTT(30)
  <2>4. CASE mineP # {}
    <3>1. mineP \subseteq 0..n
      BY <1>1
    <3>2. \E i \in mineP : \A j \in mineP : j <= i
      BY <2>4, <3>1, GreatestOf, Zenon
    <3>3. topP \in mineP
      BY <3>2
    <3>4. topQ = topP
      BY <2>2, SMTT(30)
    <3>5. P[topP] = Q[topQ]
      BY <1>1, <3>3, <3>4, Zenon
    <3> QED BY <1>2, <1>4, <2>2, <2>4, <3>5
  <2> QED BY <2>3, <2>4
<1> QED BY <1>3, <1>4

-----------------------------------------------------------------------------
\* What the actions of writers and readers leave alone keeps its conjuncts.
writeVars == <<group, writing, inserting, sequence_, status, table_, LastSequence, contents>>

(* A step that writes nothing of this keeps the invariants of the writers. *)
LEMMA WritersFrame ==
    ASSUME IInv, UNCHANGED writeVars PROVE InsertInv' /\ TableInv' /\ ContentsInv'
<1>1. UNCHANGED <<group, writing, inserting, sequence_, table_, LastSequence, contents>>
  BY Zenon DEF writeVars
<1>2. InsertInv'
  BY <1>1, Zenon DEF IInv, InsertInv, Inserted
<1>3. TableInv'
  BY <1>1, Zenon DEF IInv, TableInv, Top, SequencesDiffer
<1>4. ContentsInv'
  BY <1>1, Zenon DEF IInv, ContentsInv, Visible, Inserted
<1> QED BY <1>2, <1>3, <1>4

(* Building a batch touches nothing that is in the table.                  *)
LEMMA PutKeeps == ASSUME IInv, NEW rec \in Record, PutOrDelete(rec) PROVE IInv'
<1>1. batch' \in BatchType /\ batch'.count = Len(batch'.records)
  BY DEF IInv, TypeOK, CountInv, BatchType, PutOrDelete, WithRecord
<1>2. UNCHANGED <<writeVars, reader>>
  BY DEF PutOrDelete, Unchanged, writeVars
<1>3. TypeOK' /\ CountInv'
  BY <1>1, <1>2 DEF IInv, TypeOK, CountInv, writeVars
<1>4. InsertInv' /\ TableInv' /\ ContentsInv'
  BY <1>2, WritersFrame, Zenon
<1>5. ReaderInv'
  BY <1>2, Zenon DEF IInv, ReaderInv, Seen, writeVars
<1> QED BY <1>3, <1>4, <1>5 DEF IInv

(* The count of a group is that of its records when each batch's is.       *)
LEMMA GroupKeeps == ASSUME IInv, AddToGroup PROVE IInv'
<1>1. /\ group' \in BatchType /\ group'.count = Len(group'.records)
      /\ batch' \in BatchType /\ batch'.count = Len(batch'.records)
  BY DEF IInv, TypeOK, CountInv, BatchType, AddToGroup, AppendBatch, Clear
<1>2. ~ writing /\ UNCHANGED <<writing, inserting, sequence_, status, table_, LastSequence,
                              contents, reader>>
  BY DEF AddToGroup, Unchanged
<1>3. TypeOK' /\ CountInv'
  BY <1>1, <1>2 DEF IInv, TypeOK, CountInv
<1>4. InsertInv' /\ TableInv'
  BY <1>2 DEF IInv, InsertInv, TableInv, Top, SequencesDiffer
<1>5. ContentsInv' /\ ReaderInv'
  BY <1>2, SMTT(30) DEF IInv, ContentsInv, ReaderInv, Seen, Visible
<1> QED BY <1>3, <1>4, <1>5 DEF IInv

(* When InsertInto begins, nothing of the group is in the table.           *)
LEMMA WriteKeeps == ASSUME IInv, Write PROVE IInv'
<1>1. /\ ~ writing /\ writing' = TRUE /\ inserting' = group.records
      /\ sequence_' = LastSequence + 1
      /\ UNCHANGED <<batch, group, status, table_, LastSequence, reader, contents>>
  BY DEF Write
<1>2. group.records \in Seq(Record) /\ LastSequence \in Nat
  BY DEF IInv, TypeOK, BatchType
<1>3. TypeOK' /\ CountInv'
  BY <1>1, <1>2 DEF IInv, TypeOK, CountInv
<1>4. Inserted' = 0
  BY <1>1, <1>2 DEF Inserted
<1>5. InsertInv'
  BY <1>1, <1>2, <1>4 DEF InsertInv
<1>6. TableInv'
  BY <1>1, <1>2 DEF IInv, TableInv, Top, SequencesDiffer
<1>7. ContentsInv'
  <2>1. Visible' = Visible /\ Visible = table_
    BY <1>1 DEF IInv, TypeOK, TableInv, Top, Visible
  <2>2. ASSUME NEW k \in Key
        PROVE  After(contents, Prefix(group.records, 0))[k] = contents[k]
    BY DEF After, Prefix
  <2> QED BY <1>1, <1>4, <2>1, <2>2 DEF IInv, ContentsInv
<1>8. ReaderInv'
  BY <1>1 DEF IInv, ReaderInv, Seen
<1> QED BY <1>3, <1>5, <1>6, <1>7, <1>8 DEF IInv

(* An entry that goes into the table is newer than all others and nobody   *)
(* who has taken a sequence number sees it.                                *)
LEMMA AddKeeps == ASSUME IInv, Add PROVE IInv'
<1> DEFINE rec == Head(inserting)
           e == [key |-> rec.key, seq |-> sequence_, value |-> rec.value]
           n == Inserted
           recs == group.records
<1>1. /\ inserting # <<>> /\ inserting' = Tail(inserting) /\ sequence_' = sequence_ + 1
      /\ table_' = table_ \cup {e}
      /\ UNCHANGED <<batch, group, writing, status, LastSequence, reader, contents>>
  BY DEF Add
<1>2. writing /\ writing'
  BY <1>1 DEF IInv, InsertInv
<1>3. /\ recs \in Seq(Record) /\ inserting \in Seq(Record) /\ Len(inserting) \in Nat \ {0}
      /\ LastSequence \in Nat /\ sequence_ \in Nat
  BY <1>1 DEF IInv, TypeOK, BatchType
<1>4. rec \in Record /\ e \in Entry /\ e.key = rec.key /\ e.seq = sequence_ /\ e.value = rec.value
  <2>1. rec = inserting[1] /\ 1 \in 1..Len(inserting)
    BY <1>1, <1>3
  <2>2. rec \in Record
    BY <1>3, <2>1
  <2> QED BY <1>3, <2>2 DEF Record, Entry, MaybeValue
<1>5. /\ n \in Nat /\ n < Len(recs) /\ Inserted' = n + 1
      /\ sequence_ = LastSequence + n + 1 /\ rec = recs[n + 1]
  <2>1. /\ Len(inserting) <= Len(recs) /\ sequence_ = LastSequence + Inserted + 1
        /\ \A i \in 1..Len(inserting) : inserting[i] = recs[Inserted + i]
    BY <1>2 DEF IInv, InsertInv
  <2>2. Len(inserting') = Len(inserting) - 1 /\ rec = inserting[1]
    BY <1>1, <1>3
  <2> QED BY <1>1, <1>3, <2>1, <2>2, SMTT(30) DEF Inserted
<1>6. TypeOK' /\ CountInv'
  BY <1>1, <1>3, <1>4 DEF IInv, TypeOK, CountInv
<1>7. InsertInv'
  <2>1. Len(inserting') = Len(inserting) - 1
        /\ \A i \in 1..Len(inserting') : inserting'[i] = inserting[i + 1] /\ i + 1 \in 1..Len(inserting)
    BY <1>1, <1>3
  <2>2. Len(inserting) <= Len(recs) /\ \A i \in 1..Len(inserting) : inserting[i] = recs[n + i]
    BY <1>2 DEF IInv, InsertInv
  <2>3. \A i \in 1..Len(inserting') : inserting'[i] = recs[(n + 1) + i]
    <3> TAKE i \in 1..Len(inserting')
    <3>1. inserting'[i] = inserting[i + 1] /\ i + 1 \in 1..Len(inserting) /\ i \in Int
      BY <2>1
    <3>2. inserting[i + 1] = recs[n + (i + 1)]
      BY <2>2, <3>1
    <3>3. n + (i + 1) = (n + 1) + i
      BY <1>5, <3>1, SMTT(30)
    <3> QED BY <3>1, <3>2, <3>3
  <2>4. Len(inserting') <= Len(recs) /\ sequence_' = LastSequence + (n + 1) + 1
    BY <1>1, <1>3, <1>5, <2>1, <2>2
  <2> QED BY <1>1, <1>2, <1>5, <2>3, <2>4 DEF InsertInv
<1>8. \A d \in table_ : d \in Entry /\ d.seq \in Nat /\ d.seq < sequence_
  BY <1>2, <1>3 DEF IInv, TypeOK, TableInv, Top, Entry
<1>9. TableInv'
  <2>1. \A d \in table_' : d.seq <= sequence_
    BY <1>1, <1>3, <1>4, <1>8
  <2>2. Top' = sequence_
    BY <1>1, <1>2, <1>3 DEF Top
  <2>3. \A c, d \in table_' : c.seq = d.seq => c = d
    <3>1. \A c, d \in table_ : c.seq = d.seq => c = d
      BY DEF IInv, TableInv, SequencesDiffer
    <3>2. \A d \in table_ : d.seq # e.seq
      BY <1>3, <1>4, <1>8, SMTT(30)
    <3> HIDE DEF e
    <3> QED BY <1>1, <3>1, <3>2
  <2> QED BY <2>1, <2>2, <2>3 DEF TableInv, SequencesDiffer
<1>10. ContentsInv'
  <2>1. Visible' = Visible
    <3>1. ~ (e.seq <= LastSequence) /\ LastSequence' = LastSequence
      BY <1>1, <1>3, <1>4, <1>5, SMTT(30)
    <3> HIDE DEF e
    <3> QED BY <1>1, <3>1 DEF Visible
  <2>2. ASSUME NEW k \in Key
        PROVE  Newest(k, table_') = After(contents, Prefix(recs, n + 1))[k]
    <3>1. Newest(k, table_) = After(contents, Prefix(recs, n))[k]
      BY <1>2 DEF IInv, ContentsInv
    <3>2. After(contents, Prefix(recs, n + 1))[k] =
             IF rec.key = k THEN rec.value ELSE After(contents, Prefix(recs, n))[k]
      BY <1>3, <1>5, AfterNext, SMTT(30)
    <3>3. CASE rec.key = k
      <4>1. table_' \subseteq Entry /\ e \in table_'
        BY <1>1, <1>4, <1>8
      <4>2. \A d \in table_' : d.key = e.key => d.seq <= e.seq
        BY <1>1, <1>3, <1>4, <1>8, SMTT(30)
      <4>3. \A c, d \in table_' : c.seq = d.seq => c = d
        BY <1>9, SMTT(30) DEF TableInv, SequencesDiffer
      <4>4. Newest(e.key, table_') = e.value
        BY <4>1, <4>2, <4>3, NewestIs, SMTT(30)
      <4> QED BY <1>4, <3>2, <3>3, <4>4, SMTT(30)
    <3>4. CASE rec.key # k
      <4>1. {d \in table_' : d.key = k} = {d \in table_ : d.key = k}
        BY <1>1, <1>4, <3>4, SMTT(30)
      <4>2. Newest(k, table_') = Newest(k, table_)
        BY <4>1, NewestOther
      <4> QED BY <3>1, <3>2, <3>4, <4>2
    <3> QED BY <3>3, <3>4
  <2> QED BY <1>1, <1>5, <2>1, <2>2, Zenon DEF IInv, ContentsInv
<1>11. ReaderInv'
  <2>1. ASSUME NEW r \in Reader PROVE Seen(r)' = Seen(r)
    <3>1. reader[r].snapshot <= LastSequence /\ reader[r].snapshot \in Nat
      BY DEF IInv, TypeOK, ReaderInv, ReaderType
    <3> QED BY <1>1, <1>3, <1>4, <1>5, <3>1, SMTT(30) DEF Seen
  <2> QED BY <1>1, <2>1, SMTT(30) DEF IInv, ReaderInv
<1> QED BY <1>6, <1>7, <1>9, <1>10, <1>11 DEF IInv

(* The new last sequence number covers exactly the group.                  *)
LEMMA PublishKeeps == ASSUME IInv, SetLastSequence PROVE IInv'
<1>1. /\ writing /\ inserting = <<>> /\ writing' = FALSE /\ inserting' = <<>>
      /\ status' = IF Len(group.records) = group.count THEN "ok" ELSE "wrong count"
      /\ LastSequence' = LastSequence + group.count
      /\ contents' = After(contents, group.records) /\ group' = Clear
      /\ UNCHANGED <<batch, sequence_, table_, reader>>
  BY Zenon DEF SetLastSequence, Published
<1>2. /\ group.records \in Seq(Record) /\ group.count = Len(group.records)
      /\ LastSequence \in Nat /\ sequence_ \in Nat
  BY DEF IInv, TypeOK, BatchType, CountInv
<1>3. Inserted = Len(group.records) /\ sequence_ = LastSequence' + 1 /\ LastSequence' \in Nat
  BY <1>1, <1>2, SMTT(30) DEF IInv, InsertInv, Inserted
<1>4. Prefix(group.records, Inserted) = group.records
  <2> DEFINE recs == group.records
  <2>1. recs = [i \in 1..Len(recs) |-> recs[i]]
    BY <1>2
  <2> QED BY <1>3, <2>1, Zenon DEF Prefix
<1>5. contents' \in [Key -> MaybeValue]
  <2>1. ASSUME NEW k \in Key PROVE contents'[k] = Newest(k, table_)
    BY <1>1, <1>4, Zenon DEF IInv, ContentsInv
  <2>2. ASSUME NEW k \in Key PROVE contents'[k] \in MaybeValue
    <3> DEFINE mine == {n \in DOMAIN group.records : group.records[n].key = k}
               top == CHOOSE n \in mine : \A p \in mine : p <= n
    <3>1. contents'[k] = IF mine = {} THEN contents[k] ELSE group.records[top].value
      BY <1>1, Zenon DEF After
    <3>2. CASE mine = {}
      BY <3>1, <3>2, SMTT(30) DEF IInv, TypeOK
    <3>3. CASE mine # {}
      <4>1. mine \subseteq 0..Len(group.records) /\ Len(group.records) \in Nat
        BY <1>2, SMTT(30)
      <4>2. \E n \in mine : \A p \in mine : p <= n
        BY <3>3, <4>1, GreatestOf, Zenon
      <4>3. top \in mine
        BY <4>2
      <4>4. group.records[top] \in Record
        <5> HIDE DEF top
        <5> QED BY <1>2, <4>3, SMTT(30)
      <4> QED BY <3>1, <3>3, <4>4 DEF Record, MaybeValue
    <3> QED BY <3>2, <3>3, SMTT(30)
  <2> QED BY <1>1, <2>2, ZenonT(60) DEF After
<1>6. TypeOK'
  BY <1>1, <1>3, <1>5, Zenon DEF IInv, TypeOK, BatchType, Clear
<1>7. CountInv' /\ InsertInv'
  BY <1>1, <1>2 DEF IInv, CountInv, InsertInv, Clear
<1>8. \A d \in table_ : d \in Entry /\ d.seq \in Nat /\ d.seq <= LastSequence'
  BY <1>1, <1>2, <1>3, SMTT(30) DEF IInv, TypeOK, TableInv, Top, Entry
<1>9. TableInv'
  BY <1>1, <1>8, Zenon DEF IInv, TableInv, Top, SequencesDiffer
<1>10. ContentsInv'
  <2>1. Visible' = table_
    BY <1>1, <1>8, Zenon DEF Visible
  <2> QED BY <1>1, <1>4, <2>1, Zenon DEF IInv, ContentsInv
<1>11. ReaderInv'
  <2>1. reader' = reader /\ \A r \in Reader : Seen(r)' = Seen(r)
    BY <1>1, ZenonT(60) DEF Seen
  <2>2. \A r \in Reader : reader[r].snapshot \in Nat
    BY SMTT(30) DEF IInv, TypeOK, ReaderType
  <2>3. \A r \in Reader : reader[r].snapshot <= LastSequence'
    <3>1. \A r \in Reader : reader[r].snapshot <= LastSequence
      BY Zenon DEF IInv, ReaderInv
    <3>2. LastSequence \in Nat /\ LastSequence' \in Nat /\ LastSequence <= LastSequence'
      BY <1>1, <1>2, <1>3, SMTT(30) DEF IInv, TypeOK
    <3> QED BY <2>2, <3>1, <3>2, SMTT(30)
  <2> QED BY <2>1, <2>3 DEF IInv, ReaderInv
<1> QED BY <1>6, <1>7, <1>9, <1>10, <1>11 DEF IInv

(* A reader looks up what is published when it takes its number.           *)
LEMMA StartGetKeeps ==
    ASSUME IInv, NEW r \in Reader, NEW k \in Key, StartGet(r, k) PROVE IInv'
<1> DEFINE new == [key |-> k, snapshot |-> LastSequence, answer |-> None,
                   expected |-> contents[k], done |-> FALSE]
<1>1. reader' = [reader EXCEPT ![r] = new] /\ UNCHANGED <<batch, writeVars>>
  BY Zenon DEF StartGet, writeVars
<1>2. new \in ReaderType
  BY DEF IInv, TypeOK, ReaderType, MaybeValue
<1>3. TypeOK' /\ CountInv'
  BY <1>1, <1>2, SMTT(30) DEF IInv, TypeOK, CountInv, writeVars
<1>4. InsertInv' /\ TableInv' /\ ContentsInv'
  BY <1>1, WritersFrame, Zenon
<1>5. ASSUME NEW q \in Reader
      PROVE  /\ reader'[q].snapshot <= LastSequence'
             /\ reader'[q].key # None => Newest(reader'[q].key, Seen(q)') = reader'[q].expected
             /\ reader'[q].done => reader'[q].answer = reader'[q].expected
  <2>1. CASE q # r
    BY <1>1, <2>1, Zenon DEF IInv, TypeOK, ReaderInv, Seen, writeVars
  <2>2. CASE q = r
    <3>1. reader'[q] = new /\ LastSequence' = LastSequence /\ LastSequence \in Nat
      BY <1>1, <2>2 DEF IInv, TypeOK, writeVars
    <3>2. Seen(q)' = Visible
      BY <1>1, <3>1 DEF Seen, Visible, writeVars
    <3>3. Newest(k, Visible) = contents[k]
      BY Zenon DEF IInv, ContentsInv
    <3> QED BY <3>1, <3>2, <3>3, SMTT(30)
  <2> QED BY <2>1, <2>2, SMTT(30)
<1> QED BY <1>3, <1>4, <1>5, SMTT(30) DEF IInv, ReaderInv

(* The search finds what was expected when the number was taken.           *)
LEMMA GetKeeps == ASSUME IInv, NEW r \in Reader, Get(r) PROVE IInv'
<1> DEFINE found == Newest(reader[r].key, Seen(r))
<1>1. /\ reader' = [reader EXCEPT ![r].answer = found, ![r].done = TRUE]
      /\ UNCHANGED <<batch, writeVars>> /\ reader[r].key # None
  BY DEF Get, writeVars
<1>2. found = reader[r].expected /\ found \in MaybeValue
  BY <1>1 DEF IInv, TypeOK, ReaderInv, ReaderType
<1>3. TypeOK' /\ CountInv'
  <2>1. reader' \in [Reader -> ReaderType]
    BY <1>1, <1>2, ZenonT(30) DEF IInv, TypeOK, ReaderType
  <2> QED BY <1>1, <2>1 DEF IInv, TypeOK, CountInv, writeVars
<1>4. InsertInv' /\ TableInv' /\ ContentsInv'
  BY <1>1, WritersFrame, Zenon
<1>5. ReaderInv'
  <2>1. ASSUME NEW q \in Reader
        PROVE  /\ reader'[q].key = reader[q].key /\ reader'[q].snapshot = reader[q].snapshot
               /\ reader'[q].expected = reader[q].expected
               /\ reader'[q].done => reader'[q].answer = reader'[q].expected
    BY <1>1, <1>2 DEF IInv, TypeOK, ReaderInv, ReaderType
  <2>2. \A q \in Reader : Seen(q)' = Seen(q)
    BY <1>1, <2>1, ZenonT(60) DEF Seen, writeVars
  <2> QED BY <1>1, <2>1, <2>2, ZenonT(60) DEF IInv, ReaderInv, writeVars
<1> QED BY <1>3, <1>4, <1>5 DEF IInv

(* A reader that has returned waits for nothing.                           *)
LEMMA ReturnKeeps == ASSUME IInv, NEW r \in Reader, Return(r) PROVE IInv'
<1>1. reader' = [reader EXCEPT ![r] = Idle] /\ UNCHANGED <<batch, writeVars>>
  BY DEF Return, writeVars
<1>2. Idle \in ReaderType
  BY DEF Idle, ReaderType, MaybeValue
<1>3. TypeOK' /\ CountInv'
  BY <1>1, <1>2 DEF IInv, TypeOK, CountInv, writeVars
<1>4. InsertInv' /\ TableInv' /\ ContentsInv'
  BY <1>1, WritersFrame, Zenon
<1>5. ASSUME NEW q \in Reader
      PROVE  /\ reader'[q].snapshot <= LastSequence'
             /\ reader'[q].key # None => Newest(reader'[q].key, Seen(q)') = reader'[q].expected
             /\ reader'[q].done => reader'[q].answer = reader'[q].expected
  <2>1. CASE q # r
    BY <1>1, <2>1, Zenon DEF IInv, TypeOK, ReaderInv, Seen, writeVars
  <2>2. CASE q = r
    BY <1>1, <2>2 DEF IInv, TypeOK, Idle, writeVars
  <2> QED BY <2>1, <2>2
<1> QED BY <1>3, <1>4, <1>5 DEF IInv, ReaderInv

-----------------------------------------------------------------------------
(* Every step of a writer and of a reader keeps the invariant.             *)
LEMMA MemTableStep == IInv /\ [Next]_vars => IInv'
<1> SUFFICES ASSUME IInv, [Next]_vars PROVE IInv'
  BY SMTT(30)
<1>1. CASE UNCHANGED vars
  <2>1. UNCHANGED <<writeVars, batch, reader>>
    BY <1>1, Zenon DEF vars, writeVars
  <2>2. InsertInv' /\ TableInv' /\ ContentsInv'
    BY <2>1, WritersFrame, Zenon
  <2>3. TypeOK' /\ CountInv' /\ ReaderInv'
    BY <1>1, Zenon DEF vars, IInv, TypeOK, CountInv, ReaderInv, Seen
  <2> QED BY <2>2, <2>3 DEF IInv
<1>2. CASE Next
  BY <1>2, PutKeeps, GroupKeeps, WriteKeeps, AddKeeps, PublishKeeps, StartGetKeeps, GetKeeps,
     ReturnKeeps DEF Next
<1> QED BY <1>1, <1>2

(* The empty memtable satisfies it.                                        *)
LEMMA MemTableInit == Init => IInv
<1> SUFFICES ASSUME Init PROVE IInv
  OBVIOUS
<1>1. TypeOK
  <2>1. Clear \in BatchType /\ Idle \in ReaderType /\ None \in MaybeValue
    BY DEF BatchType, Clear, ReaderType, Idle, MaybeValue
  <2>2. writing \in BOOLEAN
    BY Zenon DEF Init
  <2>3. inserting \in Seq(Record) /\ sequence_ \in Nat /\ LastSequence \in Nat
    BY DEF Init
  <2>4. batch \in BatchType /\ group \in BatchType /\ table_ \subseteq Entry
    BY <2>1 DEF Init
  <2>5. reader \in [Reader -> ReaderType] /\ contents \in [Key -> MaybeValue]
    BY <2>1 DEF Init
  <2> QED BY <2>2, <2>3, <2>4, <2>5 DEF TypeOK
<1>2. CountInv /\ InsertInv /\ TableInv
  BY SMTT(30) DEF Init, CountInv, InsertInv, TableInv, Clear, Top, SequencesDiffer
<1>3. ContentsInv /\ ReaderInv
  <2>1. Visible = {} /\ \A k \in Key : contents[k] = None
    BY DEF Init, Visible
  <2>2. \A k \in Key : Newest(k, {}) = None
    BY DEF Newest
  <2>3. ~ writing /\ \A r \in Reader : reader[r] = Idle
    BY DEF Init
  <2>4. Idle.key = None /\ Idle.snapshot = 0 /\ ~ Idle.done /\ LastSequence = 0
    BY DEF Init, Idle
  <2>5. ContentsInv
    BY <2>1, <2>2, <2>3 DEF ContentsInv
  <2> QED BY <2>3, <2>4, <2>5 DEF ReaderInv
<1> QED BY <1>1, <1>2, <1>3 DEF IInv

(* MemTable::Get at the sequence number that DBImpl::Get has read returns  *)
(* what the batches complete at that moment come to, for any keys, any     *)
(* number of readers and batches of any size, inserted one entry at a time *)
(* while the readers search.                                               *)
THEOREM WholeBatches == Spec => []SeesWholeBatches
<1>1. IInv => SeesWholeBatches
  BY DEF IInv, ReaderInv, SeesWholeBatches
<1> QED BY <1>1, MemTableInit, MemTableStep, PTL DEF Spec

(* The sequence numbers that MemTableInserter gives out are all different. *)
THEOREM DifferentSequences == Spec => []SequencesDiffer
<1>1. IInv => SequencesDiffer
  BY DEF IInv, TableInv
<1> QED BY <1>1, MemTableInit, MemTableStep, PTL DEF Spec

(* InsertInto never finds a group whose header miscounts its records.      *)
THEOREM GroupsCount == Spec => []CountIsRight
<1>1. IInv => CountIsRight
  BY DEF IInv, CountInv, CountIsRight
<1> QED BY <1>1, MemTableInit, MemTableStep, PTL DEF Spec

(* What a memtable promises, for any keys, readers and batches.            *)
THEOREM MemTableSafe == Spec => []BatchesAreWhole
BY WholeBatches, DifferentSequences, GroupsCount, PTL DEF BatchesAreWhole

-----------------------------------------------------------------------------
(* The arena: the pieces are apart and little is lost, for all sizes.      *)
\* The blocks, the allocation pointer and the pieces have their types.
PieceType == [block : Nat, offset : Nat, bytes : Nat, aligned : BOOLEAN]
ArenaTypeOK ==
    /\ blocks_ \in Seq(Nat) /\ block \in Nat /\ block <= Len(blocks_)
    /\ offset \in Nat /\ alloc_bytes_remaining_ \in Nat
    /\ pieces \in Seq(PieceType)

\* alloc_ptr_ and the bytes behind it end where the block ends.
AtBlockEnd ==
    /\ block = 0 => alloc_bytes_remaining_ = 0
    /\ block # 0 => offset + alloc_bytes_remaining_ = blocks_[block]
\* A piece is inside its block, and in the current block before alloc_ptr_.
Inside(p) ==
    /\ p.block \in DOMAIN blocks_
    /\ p.offset + p.bytes <= blocks_[p.block]
    /\ p.block = block => p.offset + p.bytes <= offset
    /\ p.aligned => p.offset % Align = 0
Apart(p, q) ==
    p.block = q.block => p.offset + p.bytes <= q.offset \/ q.offset + q.bytes <= p.offset
ArenaInv ==
    /\ ArenaTypeOK /\ AtBlockEnd
    /\ \A i \in DOMAIN pieces : Inside(pieces[i])
    /\ \A i, j \in DOMAIN pieces : i < j => Apart(pieces[i], pieces[j])

(* The gap that AllocateAligned leaves ends at a multiple of Align.        *)
LEMMA SlopAligns ==
    ASSUME NEW o \in Nat
    PROVE  LET slop == IF o % Align = 0 THEN 0 ELSE Align - (o % Align)
           IN slop \in Nat /\ (o + slop) % Align = 0
<1>1. CASE Align = 4
  BY <1>1
<1>2. CASE Align = 8
  BY <1>2
<1>3. CASE Align = 16
  BY <1>3
<1> QED BY <1>1, <1>2, <1>3, ArenaAssumption

(* What a sequence is after an element was appended.                       *)
LEMMA AppendIs ==
    ASSUME NEW S, NEW s \in Seq(S), NEW e \in S, NEW t, t = Append(s, e)
    PROVE  /\ t \in Seq(S) /\ Len(s) \in Nat /\ Len(t) = Len(s) + 1
           /\ DOMAIN t = DOMAIN s \cup {Len(s) + 1} /\ Len(s) + 1 \notin DOMAIN s
           /\ t[Len(s) + 1] = e
           /\ \A i \in DOMAIN s : t[i] = s[i] /\ i \in Nat /\ i <= Len(s) /\ s[i] \in S
BY SMTT(30)

(* The older pieces stay where they are.                                   *)
LEMMA Older ==
    ASSUME ArenaInv, NEW p \in PieceType, pieces' = Append(pieces, p)
    PROVE  /\ \A i \in DOMAIN pieces : i \in DOMAIN pieces' /\ pieces'[i] = pieces[i]
                                       /\ pieces[i] \in PieceType
                                       /\ i \in Nat /\ i <= Len(pieces)
           /\ Len(pieces) + 1 \in DOMAIN pieces' /\ pieces'[Len(pieces) + 1] = p
           /\ DOMAIN pieces' = DOMAIN pieces \cup {Len(pieces) + 1} /\ Len(pieces) \in Nat
<1>1. pieces \in Seq(PieceType)
  BY Zenon DEF ArenaInv, ArenaTypeOK
<1> QED BY <1>1, AppendIs, SMTT(30)

(* A new piece keeps the invariant when it is apart from the older ones    *)
(* and inside its block, and the older ones still are.                     *)
LEMMA OneMore ==
    ASSUME ArenaInv, NEW p \in PieceType, pieces' = Append(pieces, p), ArenaTypeOK', AtBlockEnd',
           \A i \in DOMAIN pieces : Inside(pieces[i])' /\ Apart(pieces[i], p),
           p.block \in DOMAIN blocks_', p.offset + p.bytes <= blocks_'[p.block],
           p.block = block' => p.offset + p.bytes <= offset',
           p.aligned => p.offset % Align = 0
    PROVE  ArenaInv'
<1>1. /\ DOMAIN pieces' = DOMAIN pieces \cup {Len(pieces) + 1}
      /\ pieces'[Len(pieces) + 1] = p /\ Len(pieces) \in Nat
      /\ \A i \in DOMAIN pieces : pieces'[i] = pieces[i] /\ i \in Nat /\ i <= Len(pieces)
  BY Older, Zenon
<1>2. \A i \in DOMAIN pieces' : Inside(pieces[i])'
  <2> SUFFICES ASSUME NEW i \in DOMAIN pieces' PROVE Inside(pieces[i])'
    BY Zenon
  <2>1. CASE i \in DOMAIN pieces
    BY <2>1
  <2>2. CASE i = Len(pieces) + 1
    <3>1. pieces'[i] = p
      BY <1>1, <2>2, Zenon
    <3> QED BY <3>1 DEF Inside
  <2> QED BY <1>1, <2>1, <2>2, Zenon
<1>3. ASSUME NEW i \in DOMAIN pieces', NEW j \in DOMAIN pieces', i < j
      PROVE  Apart(pieces'[i], pieces'[j])
  <2>1. i \in DOMAIN pieces
    <3>1. Len(pieces) \in Nat /\ (j = Len(pieces) + 1 \/ (j \in Nat /\ j <= Len(pieces)))
      BY <1>1, Zenon
    <3>2. i # Len(pieces) + 1
      BY <1>3, <3>1, SMTT(30)
    <3> QED BY <1>1, <3>2, Zenon
  <2>2. CASE j \in DOMAIN pieces
    BY <1>1, <1>3, <2>1, <2>2, Zenon DEF ArenaInv
  <2>3. CASE j = Len(pieces) + 1
    BY <1>1, <2>1, <2>3, Zenon
  <2> QED BY <1>1, <2>2, <2>3, Zenon
<1>4. \A i, j \in DOMAIN pieces' : i < j => Apart(pieces[i], pieces[j])'
  BY <1>3 DEF Apart
<1> QED BY <1>2, <1>4 DEF ArenaInv

(* A piece that is cut off the current block lies behind all others.       *)
LEMMA CutKeeps ==
    ASSUME ArenaInv, NEW n \in Sizes, NEW slop \in Nat, NEW aligned \in BOOLEAN,
           Cut(n, slop, aligned), n + slop <= alloc_bytes_remaining_,
           aligned => (offset + slop) % Align = 0
    PROVE  ArenaInv'
<1> DEFINE p == Piece(block, offset + slop, n, aligned)
<1>1. n \in Nat /\ n > 0 /\ block # 0
  BY ArenaAssumption DEF ArenaInv, ArenaTypeOK, AtBlockEnd
<1>2. p \in PieceType /\ pieces' = Append(pieces, p)
  BY <1>1 DEF Cut, Piece, PieceType, ArenaInv, ArenaTypeOK
<1>3. ArenaTypeOK'
  BY <1>1, <1>2 DEF Cut, ArenaInv, ArenaTypeOK
<1>4. AtBlockEnd'
  BY <1>1 DEF Cut, ArenaInv, ArenaTypeOK, AtBlockEnd
<1>5. ASSUME NEW i \in DOMAIN pieces
      PROVE  Inside(pieces[i])' /\ Apart(pieces[i], p)
  <2>1. pieces[i] \in PieceType /\ Inside(pieces[i]) /\ pieces'[i] = pieces[i]
    BY <1>2, Older, Zenon DEF ArenaInv
  <2>2. blocks_' = blocks_ /\ block' = block /\ offset' \in Nat /\ offset' >= offset
    BY <1>1 DEF Cut, ArenaInv, ArenaTypeOK
  <2>3. /\ pieces[i].offset \in Nat /\ pieces[i].bytes \in Nat /\ offset \in Nat
        /\ pieces[i].block = block => pieces[i].offset + pieces[i].bytes <= offset
    <3>1. pieces[i].offset \in Nat /\ pieces[i].bytes \in Nat
      BY <2>1, SMTT(30) DEF PieceType
    <3> QED BY <2>1, <3>1, Zenon DEF Inside, ArenaInv, ArenaTypeOK
  <2>4. Inside(pieces[i])'
    <3>1. pieces[i].block = block => pieces[i].offset + pieces[i].bytes <= offset'
      BY <2>2, <2>3, SMTT(30)
    <3> QED BY <2>1, <2>2, <3>1, Zenon DEF Inside
  <2>5. Apart(pieces[i], p)
    <3>1. p.block = block /\ p.offset = offset + slop
      BY DEF Piece
    <3>2. pieces[i].block = block => pieces[i].offset + pieces[i].bytes <= offset + slop
      BY <2>3, SMTT(30)
    <3> QED BY <3>1, <3>2, Zenon DEF Apart
  <2> QED BY <2>4, <2>5
<1>6. p.block \in DOMAIN blocks_' /\ p.offset + p.bytes <= blocks_'[p.block]
      /\ p.offset + p.bytes <= offset'
  BY <1>1 DEF Cut, Piece, ArenaInv, ArenaTypeOK, AtBlockEnd
<1>7. p.aligned => p.offset % Align = 0
  BY DEF Piece
<1> QED BY <1>2, <1>3, <1>4, <1>5, <1>6, <1>7, OneMore

(* A new block is apart from all older ones.                               *)
LEMMA FallbackKeeps ==
    ASSUME ArenaInv, NEW n \in Sizes, NEW aligned \in BOOLEAN, AllocateFallback(n, aligned)
    PROVE  ArenaInv'
<1> DEFINE b == Len(blocks_) + 1
           p == Piece(b, 0, n, aligned)
           size == IF IsLarge(n) THEN n ELSE kBlockSize
<1>1. n \in Nat /\ size \in Nat /\ n <= size /\ b \in Nat
  BY ArenaAssumption DEF ArenaInv, ArenaTypeOK, IsLarge
<1>2. p \in PieceType /\ pieces' = Append(pieces, p)
  BY <1>1 DEF AllocateFallback, Piece, PieceType
<1>3. /\ blocks_' = Append(blocks_, size)
      /\ (block' = block /\ offset' = offset /\ alloc_bytes_remaining_' = alloc_bytes_remaining_)
         \/ (block' = b /\ offset' = n /\ alloc_bytes_remaining_' = size - n)
  BY DEF AllocateFallback, AllocateNewBlock
<1>4. /\ blocks_' \in Seq(Nat) /\ Len(blocks_') = b /\ blocks_'[b] = size
      /\ DOMAIN blocks_' = DOMAIN blocks_ \cup {b} /\ b \notin DOMAIN blocks_
      /\ \A k \in DOMAIN blocks_ : blocks_'[k] = blocks_[k]
  <2>1. blocks_ \in Seq(Nat)
    BY Zenon DEF ArenaInv, ArenaTypeOK
  <2> QED BY <1>1, <1>3, <2>1, AppendIs, SMTT(30)
<1>5. ArenaTypeOK'
  BY <1>1, <1>2, <1>3, <1>4, SMTT(30) DEF ArenaInv, ArenaTypeOK
<1>6. AtBlockEnd'
  BY <1>1, <1>3, <1>4, SMTT(30) DEF ArenaInv, ArenaTypeOK, AtBlockEnd
<1>7. ASSUME NEW i \in DOMAIN pieces
      PROVE  Inside(pieces[i])' /\ Apart(pieces[i], p)
  <2>1. pieces[i] \in PieceType /\ Inside(pieces[i]) /\ pieces'[i] = pieces[i]
    BY <1>2, Older, Zenon DEF ArenaInv
  <2>2. pieces[i].block # b /\ pieces[i].block \in DOMAIN blocks_
    BY <1>4, <2>1, Zenon DEF Inside
  <2>3. blocks_'[pieces[i].block] = blocks_[pieces[i].block]
        /\ pieces[i].block \in DOMAIN blocks_'
    BY <1>4, <2>2, Zenon
  <2>4. pieces[i].block = block' => pieces[i].offset + pieces[i].bytes <= offset'
    BY <1>3, <2>1, <2>2 DEF Inside
  <2>5. Inside(pieces[i])'
    BY <2>1, <2>3, <2>4 DEF Inside
  <2> QED BY <2>2, <2>5 DEF Apart, Piece
<1>8. p.block \in DOMAIN blocks_' /\ p.offset + p.bytes <= blocks_'[p.block]
      /\ (p.block = block' => p.offset + p.bytes <= offset')
  <2>1. p.block = b /\ p.offset = 0 /\ p.bytes = n
    BY DEF Piece
  <2>2. block \in Nat /\ block < b
    BY SMTT(30) DEF ArenaInv, ArenaTypeOK
  <2>3. b = block' => offset' = n
    BY <1>3, <2>2, SMTT(30)
  <2>4. b \in DOMAIN blocks_' /\ blocks_'[b] = size
    BY <1>4, Zenon
  <2>5. 0 + n = n
    BY <1>1
  <2> QED BY <1>1, <2>1, <2>3, <2>4, <2>5, SMTT(30)
<1>9. p.aligned => p.offset % Align = 0
  BY ArenaAssumption DEF Piece
<1> QED BY <1>2, <1>5, <1>6, <1>7, <1>8, <1>9, OneMore

(* Each call of Allocate and AllocateAligned keeps the invariant.          *)
LEMMA ArenaStep == ArenaInv /\ [ArenaNext]_arenaVars => ArenaInv'
<1> SUFFICES ASSUME ArenaInv, [ArenaNext]_arenaVars PROVE ArenaInv'
  OBVIOUS
<1>1. CASE UNCHANGED arenaVars
  BY <1>1 DEF arenaVars, ArenaInv, ArenaTypeOK, AtBlockEnd, Inside, Apart
<1>2. ASSUME NEW n \in Sizes, Allocate(n) PROVE ArenaInv'
  <2>1. n \in Nat /\ alloc_bytes_remaining_ \in Nat
    BY ArenaAssumption DEF ArenaInv, ArenaTypeOK
  <2>2. CASE n <= alloc_bytes_remaining_
    <3>1. Cut(n, 0, FALSE)
      BY <1>2, <2>2 DEF Allocate
    <3>2. n + 0 <= alloc_bytes_remaining_
      BY <2>1, <2>2
    <3> QED BY <3>1, <3>2, CutKeeps
  <2>3. CASE ~(n <= alloc_bytes_remaining_)
    <3>1. AllocateFallback(n, FALSE)
      BY <1>2, <2>3 DEF Allocate
    <3> QED BY <3>1, FallbackKeeps
  <2> QED BY <2>2, <2>3
<1>3. ASSUME NEW n \in Sizes, AllocateAligned(n) PROVE ArenaInv'
  <2> DEFINE slop == IF offset % Align = 0 THEN 0 ELSE Align - (offset % Align)
  <2>1. slop \in Nat /\ (offset + slop) % Align = 0
    BY SlopAligns DEF ArenaInv, ArenaTypeOK
  <2>2. CASE Fits(n, slop)
    <3>1. Cut(n, slop, TRUE)
      BY <1>3, <2>2 DEF AllocateAligned
    <3>2. n + slop <= alloc_bytes_remaining_
      BY <2>2 DEF Fits
    <3> QED BY <2>1, <3>1, <3>2, CutKeeps
  <2>3. CASE ~Fits(n, slop)
    <3>1. AllocateFallback(n, TRUE)
      BY <1>3, <2>3 DEF AllocateAligned
    <3> QED BY <3>1, FallbackKeeps
  <2> QED BY <2>2, <2>3
<1> QED BY <1>1, <1>2, <1>3 DEF ArenaNext

(* The pieces of memory that the arena hands out never share a byte, stay  *)
(* inside their blocks and are aligned where they have to be, for every    *)
(* block size and every sequence of calls.                                 *)
THEOREM ArenaSafe == ArenaSpec => []PiecesApart
<1>1. ArenaInit => ArenaInv
  BY DEF ArenaInit, ArenaInv, ArenaTypeOK, AtBlockEnd, PieceType
<1>2. ArenaInv => PiecesApart
  <2> SUFFICES ASSUME ArenaInv PROVE PiecesApart
    OBVIOUS
  <2> QED BY DEF ArenaInv, Inside, Apart, PiecesApart
<1> QED BY <1>1, <1>2, ArenaStep, PTL DEF ArenaSpec

-----------------------------------------------------------------------------
\* The last piece of the current block ends at alloc_ptr_.
LastEnds == block # 0 => \E i \in DOMAIN pieces :
                            /\ pieces[i].block = block
                            /\ pieces[i].offset + pieces[i].bytes = offset

(* Cutting a piece off the current block loses nothing in other blocks.    *)
LEMMA CutWastes ==
    ASSUME ArenaInv, LittleWaste, NEW n \in Sizes, NEW slop \in Nat, NEW aligned \in BOOLEAN,
           Cut(n, slop, aligned)
    PROVE  LittleWaste' /\ LastEnds'
<1> DEFINE p == Piece(block, offset + slop, n, aligned)
<1>1. n \in Nat /\ p \in PieceType /\ pieces' = Append(pieces, p)
  BY ArenaAssumption DEF Cut, Piece, PieceType, ArenaInv, ArenaTypeOK
<1>2. /\ \A i \in DOMAIN pieces : i \in DOMAIN pieces' /\ pieces'[i] = pieces[i]
      /\ Len(pieces) + 1 \in DOMAIN pieces' /\ pieces'[Len(pieces) + 1] = p
  BY <1>1, Older
<1>3. blocks_' = blocks_ /\ block' = block /\ offset' = offset + slop + n
  BY DEF Cut
<1>4. LittleWaste'
  <2> SUFFICES ASSUME NEW b \in DOMAIN blocks_ \ {block}
               PROVE  \E i \in DOMAIN pieces' :
                        /\ pieces'[i].block = b
                        /\ blocks_[b] - (pieces'[i].offset + pieces'[i].bytes)
                             < kBlockSize \div 4 + Align
    BY <1>3, Zenon DEF LittleWaste
  <2>1. PICK i \in DOMAIN pieces :
               /\ pieces[i].block = b
               /\ blocks_[b] - (pieces[i].offset + pieces[i].bytes) < kBlockSize \div 4 + Align
    BY Zenon DEF LittleWaste
  <2>2. i \in DOMAIN pieces' /\ pieces'[i] = pieces[i]
    BY <1>2, Zenon
  <2> QED BY <2>1, <2>2, Zenon
<1>5. p.block = block' /\ p.offset + p.bytes = offset'
  BY <1>3 DEF Piece
<1> QED BY <1>2, <1>4, <1>5 DEF LastEnds

(* The current block is left only for a piece that is at most a quarter of *)
(* a block and does not fit, and a large piece fills its block.            *)
LEMMA FallbackWastes ==
    ASSUME ArenaInv, LittleWaste, LastEnds, NEW n \in Sizes, NEW aligned \in BOOLEAN,
           AllocateFallback(n, aligned), alloc_bytes_remaining_ < n + Align
    PROVE  LittleWaste' /\ LastEnds'
<1> DEFINE b == Len(blocks_) + 1
           p == Piece(b, 0, n, aligned)
           size == IF IsLarge(n) THEN n ELSE kBlockSize
<1>1. n \in Nat /\ size \in Nat /\ b \in Nat /\ kBlockSize \div 4 \in Nat /\ Align \in Nat \ {0}
  BY ArenaAssumption DEF ArenaInv, ArenaTypeOK, IsLarge
<1>2. p \in PieceType /\ pieces' = Append(pieces, p)
  BY <1>1 DEF AllocateFallback, Piece, PieceType
<1>3. /\ \A i \in DOMAIN pieces : i \in DOMAIN pieces' /\ pieces'[i] = pieces[i]
      /\ Len(pieces) + 1 \in DOMAIN pieces' /\ pieces'[Len(pieces) + 1] = p
  BY <1>2, Older
<1>4. blocks_' = Append(blocks_, size)
  BY DEF AllocateFallback, AllocateNewBlock
<1>5. /\ blocks_'[b] = size /\ DOMAIN blocks_' = DOMAIN blocks_ \cup {b} /\ b \notin DOMAIN blocks_
      /\ \A k \in DOMAIN blocks_ : blocks_'[k] = blocks_[k]
  BY <1>1, <1>4, SMTT(30) DEF ArenaInv, ArenaTypeOK
<1>6. p.block = b /\ p.offset + p.bytes = n
  BY <1>1 DEF Piece
<1>7. ASSUME NEW k \in DOMAIN blocks_ \ {block}
      PROVE  \E i \in DOMAIN pieces' :
                /\ pieces'[i].block = k
                /\ blocks_'[k] - (pieces'[i].offset + pieces'[i].bytes) < kBlockSize \div 4 + Align
  <2>1. PICK i \in DOMAIN pieces :
           /\ pieces[i].block = k
           /\ blocks_[k] - (pieces[i].offset + pieces[i].bytes) < kBlockSize \div 4 + Align
    BY Zenon DEF LittleWaste
  <2>2. i \in DOMAIN pieces' /\ pieces'[i] = pieces[i] /\ blocks_'[k] = blocks_[k]
    BY <1>3, <1>5, Zenon
  <2> QED BY <2>1, <2>2, Zenon
<1>8. CASE IsLarge(n)
  <2>1. block' = block /\ offset' = offset /\ size = n
    BY <1>8 DEF AllocateFallback
  <2>2. LastEnds'
    BY <1>3, <2>1 DEF LastEnds
  <2>3. blocks_'[b] - (p.offset + p.bytes) < kBlockSize \div 4 + Align
    BY <1>1, <1>5, <1>6, <2>1
  <2>4. LittleWaste'
    <3>1. ASSUME NEW k \in DOMAIN blocks_' \ {block'}
          PROVE  \E i \in DOMAIN pieces' :
                    /\ pieces'[i].block = k
                    /\ blocks_'[k] - (pieces'[i].offset + pieces'[i].bytes) < kBlockSize \div 4 + Align
      <4>1. CASE k = b
        BY <1>3, <1>6, <2>3, <4>1, Zenon
      <4>2. CASE k \in DOMAIN blocks_ \ {block}
        BY <1>7, <4>2, Zenon
      <4> QED BY <1>5, <2>1, <4>1, <4>2, Zenon
    <3> QED BY <3>1, Zenon DEF LittleWaste
  <2> QED BY <2>2, <2>4
<1>9. CASE ~IsLarge(n)
  <2>1. block' = b /\ offset' = n /\ n <= kBlockSize \div 4
    BY <1>1, <1>9, ArenaAssumption DEF AllocateFallback, IsLarge
  <2>2. LastEnds'
    BY <1>3, <1>6, <2>1 DEF LastEnds
  <2>3. ASSUME block \in DOMAIN blocks_
        PROVE  \E i \in DOMAIN pieces' :
                  /\ pieces'[i].block = block
                  /\ blocks_'[block] - (pieces'[i].offset + pieces'[i].bytes)
                        < kBlockSize \div 4 + Align
    <3>1. block # 0 /\ offset + alloc_bytes_remaining_ = blocks_[block]
      BY <2>3 DEF ArenaInv, ArenaTypeOK, AtBlockEnd
    <3>2. PICK i \in DOMAIN pieces : pieces[i].block = block
                                    /\ pieces[i].offset + pieces[i].bytes = offset
      BY <3>1 DEF LastEnds
    <3>3. blocks_[block] - offset < kBlockSize \div 4 + Align
      <4>1. /\ blocks_[block] \in Nat /\ offset \in Nat /\ alloc_bytes_remaining_ \in Nat
            /\ kBlockSize \div 4 \in Nat /\ Align \in Nat /\ n \in Nat
        BY <2>3, ArenaAssumption DEF ArenaInv, ArenaTypeOK
      <4>2. alloc_bytes_remaining_ < n + Align
        OBVIOUS
      <4> QED BY <2>1, <3>1, <4>1, <4>2
    <3> QED BY <1>3, <1>5, <2>3, <3>2, <3>3
  <2>4. LittleWaste'
    <3>1. ASSUME NEW k \in DOMAIN blocks_' \ {block'}
          PROVE  \E i \in DOMAIN pieces' :
                    /\ pieces'[i].block = k
                    /\ blocks_'[k] - (pieces'[i].offset + pieces'[i].bytes) < kBlockSize \div 4 + Align
      <4>1. k \in DOMAIN blocks_
        BY <1>5, <2>1, Zenon
      <4>2. CASE k = block
        BY <2>3, <4>1, <4>2, Zenon
      <4> QED BY <1>7, <4>1, <4>2, Zenon
    <3> QED BY <3>1, Zenon DEF LittleWaste
  <2> QED BY <2>2, <2>4
<1> QED BY <1>8, <1>9

(* Each call keeps the loss small.                                         *)
LEMMA WasteStep ==
    ArenaInv /\ LittleWaste /\ LastEnds /\ [ArenaNext]_arenaVars => LittleWaste' /\ LastEnds'
<1> SUFFICES ASSUME ArenaInv, LittleWaste, LastEnds, [ArenaNext]_arenaVars
             PROVE  LittleWaste' /\ LastEnds'
  OBVIOUS
<1>1. CASE UNCHANGED arenaVars
  BY <1>1 DEF arenaVars, LittleWaste, LastEnds
<1>2. alloc_bytes_remaining_ \in Nat /\ Align \in Nat \ {0} /\ \A n \in Sizes : n \in Nat
  BY ArenaAssumption DEF ArenaInv, ArenaTypeOK
<1>3. ASSUME NEW n \in Sizes, Allocate(n) PROVE LittleWaste' /\ LastEnds'
  <2>1. CASE n <= alloc_bytes_remaining_
    <3>1. Cut(n, 0, FALSE)
      BY <1>3, <2>1 DEF Allocate
    <3> QED BY <3>1, CutWastes
  <2>2. CASE ~(n <= alloc_bytes_remaining_)
    <3>1. AllocateFallback(n, FALSE)
      BY <1>3, <2>2 DEF Allocate
    <3>2. alloc_bytes_remaining_ < n + Align
      BY <1>2, <2>2
    <3> QED BY <3>1, <3>2, FallbackWastes
  <2> QED BY <2>1, <2>2
<1>4. ASSUME NEW n \in Sizes, AllocateAligned(n) PROVE LittleWaste' /\ LastEnds'
  <2> DEFINE slop == IF offset % Align = 0 THEN 0 ELSE Align - (offset % Align)
  <2>1. slop \in Nat /\ slop < Align
    <3>1. slop \in Nat /\ offset % Align \in Nat
      BY SlopAligns, <1>2, SMTT(30) DEF ArenaInv, ArenaTypeOK
    <3> QED BY <1>2, <3>1
  <2>2. CASE Fits(n, slop)
    <3>1. Cut(n, slop, TRUE)
      BY <1>4, <2>2 DEF AllocateAligned
    <3> QED BY <2>1, <3>1, CutWastes
  <2>3. CASE ~Fits(n, slop)
    <3>1. AllocateFallback(n, TRUE)
      BY <1>4, <2>3 DEF AllocateAligned
    <3>2. alloc_bytes_remaining_ < n + Align
      BY <1>2, <2>1, <2>3 DEF Fits
    <3> QED BY <3>1, <3>2, FallbackWastes
  <2> QED BY <2>2, <2>3
<1> QED BY <1>1, <1>3, <1>4 DEF ArenaNext

(* A block that Allocate or AllocateAligned leaves for a new one has lost  *)
(* less than a quarter of a block and a gap, for every block size, every   *)
(* alignment and every sequence of calls.                                  *)
THEOREM ArenaWaste == ArenaSpec => []LittleWaste
<1>1. ArenaInit => ArenaInv /\ LittleWaste /\ LastEnds
  BY DEF ArenaInit, ArenaInv, ArenaTypeOK, AtBlockEnd, PieceType, LittleWaste, LastEnds
<1> QED BY <1>1, ArenaStep, WasteStep, PTL DEF ArenaSpec

(* What the arena promises, for every block size, alignment and sequence   *)
(* of calls.                                                               *)
THEOREM ArenaRight == ArenaSpec => []MemoryIsRight
BY ArenaSafe, ArenaWaste, PTL DEF MemoryIsRight
=============================================================================
