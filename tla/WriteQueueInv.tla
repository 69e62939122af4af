--------------------------- MODULE WriteQueueInv ---------------------------
(***************************************************************************)
(* The inductive invariant of group commit, and the three steps that it is *)
(* about: a thread joins the queue, the leader inserts its group into the  *)
(* memtable, and the group leaves the queue.                               *)
(*                                                                         *)
(* The argument does not use mutex_: only the first writer of the queue    *)
(* works on the memtable and the log, and the queue says who that is.      *)
(***************************************************************************)
EXTENDS WriteQueue, TLAPS

\* The steps of the writer at the front of the queue, and of these the ones
\* on behalf of its group.
Leading == {"first", "room", "sleep", "bg_cv", "group", "log", "sync", "insert", "relock",
            "finish"}
Writing == {"log", "sync", "insert", "relock"}
Alone == {"room", "sleep", "bg_cv", "group", "finish"}
Waits == {"imm", "imm_cv", "manual", "manual_cv"}
Labels == Leading \cup Waits \cup {"idle", "queue", "returned"}

TypeOK ==
    /\ DOMAIN pc = Client \cup {Closer} /\ \A t \in Client : pc[t] \in Labels
    /\ calls \in [Client -> Nat] /\ done \in [Client -> BOOLEAN]
    /\ DOMAIN req = Client /\ DOMAIN status = Client
    /\ writers_ \in Seq(Client) /\ group \in Seq(Client)
    /\ last_sequence \in Nat /\ seq \in [DOMAIN seq -> Nat]
    /\ updates \in Seq(Client \X Nat)

\* The queue holds, once each, the threads whose write is not yet done; one
\* that leads is its first.
Queued(t) == pc[t] \in Leading \/ (pc[t] = "queue" /\ ~ done[t])
QueueInv ==
    /\ \A i, j \in DOMAIN writers_ : writers_[i] = writers_[j] => i = j
    /\ \A t \in Client : Queued(t) <=> \E i \in DOMAIN writers_ : writers_[i] = t
    /\ \A t \in Client : pc[t] \in Leading => writers_ # <<>> /\ First = t
    /\ \A t \in Client : Queued(t) => calls[t] > 0

\* The group is a prefix of the queue, also when others have joined it since.
GroupOK(t) ==
    /\ pc[t] \in Leading \ {"first"} =>
          /\ Len(group) \in 1..Len(writers_)
          /\ \A i \in 1..Len(group) : group[i] = writers_[i]
    /\ pc[t] \in Alone => Len(group) = 1 /\ updates = <<>>
    /\ pc[t] \in Writing => /\ Range(updates) = Batches(group)
                            /\ \A i \in DOMAIN group : req[group[i]].sync => req[t].sync
    /\ pc[t] = "finish" => IsNull(t) \/ status[t] # "ok"
GroupInv == \A t \in Client : GroupOK(t)

\* The write-ahead log, and how far the group has got.
WrittenOK(t) ==
    /\ pc[t] \in {"sync", "insert"} => Range(updates) \subseteq log
    /\ pc[t] = "insert" /\ req[t].sync => Range(updates) \subseteq synced
    /\ pc[t] = "relock" /\ status[t] = "ok" =>
          /\ Range(updates) \subseteq mem_ /\ Range(updates) \subseteq DOMAIN seq
          /\ req[t].sync => Range(updates) \subseteq synced
LogInv == /\ MemtablesAreLogged
          /\ ~ has_imm_ => imm_ = {}
          /\ \A t \in Client : WrittenOK(t)

\* Numbers are given out once, those of the group when it is inserted; they
\* become visible when the group is finished.
Inserting == \E t \in Client : pc[t] = "relock"
NumberInv ==
    /\ \A b \in DOMAIN seq : \E t \in Client : \E n \in 1..calls[t] : b = <<t, n>>
    /\ \A b, c \in DOMAIN seq : b # c => seq[b] # seq[c]
    /\ \A t \in Client : Queued(t) /\ Batch(t) \in DOMAIN seq =>
          Inserting /\ Batch(t) \in Range(updates)
    /\ \A b \in DOMAIN seq : \/ seq[b] <= last_sequence
                             \/ /\ Inserting /\ b \in Range(updates)
                                /\ seq[b] <= last_sequence + Len(updates)

\* What holds of a write that is over, for its own thread or, as a member of
\* another's group, before its thread knows.
Right(t) == status[t] = "ok" /\ ~ IsNull(t) =>
    /\ Batch(t) \in mem_ \cup imm_ \cup tables
    /\ Batch(t) \in DOMAIN seq /\ seq[Batch(t)] <= last_sequence
    /\ req[t].sync => Batch(t) \in synced \cup tables
ResultOK(t) ==
    /\ pc[t] \in {"idle", "returned"} /\ calls[t] > 0 => Right(t)
    /\ pc[t] = "queue" /\ done[t] => Right(t)
    /\ pc[t] \in Waits => IsNull(t)
ResultInv == \A t \in Client : ResultOK(t)

QInv == TypeOK /\ QueueInv /\ GroupInv /\ LogInv /\ NumberInv /\ ResultInv

-----------------------------------------------------------------------------
(* The first elements of a sequence, the others, and what is in its tail.  *)
LEMMA FirstOf ==
    ASSUME NEW S, NEW s \in Seq(S), NEW n \in 0..Len(s)
    PROVE  /\ SubSeq(s, 1, n) \in Seq(S) /\ Len(SubSeq(s, 1, n)) = n
           /\ DOMAIN SubSeq(s, 1, n) = 1..n
           /\ \A i \in 1..n : SubSeq(s, 1, n)[i] = s[i] /\ i \in DOMAIN s
OBVIOUS
LEMMA RestOf ==
    ASSUME NEW S, NEW s \in Seq(S), NEW n \in 0..Len(s)
    PROVE  /\ SubSeq(s, n + 1, Len(s)) \in Seq(S)
           /\ DOMAIN SubSeq(s, n + 1, Len(s)) = 1..(Len(s) - n)
           /\ \A i \in 1..(Len(s) - n) :
                 i + n \in 1..Len(s) /\ SubSeq(s, n + 1, Len(s))[i] = s[i + n]
OBVIOUS
LEMMA TailOf ==
    ASSUME NEW S, NEW s \in Seq(S), s # <<>>
    PROVE  \A u : u \in Range(Tail(s)) <=> \E i \in 2..Len(s) : s[i] = u
<1>1. /\ Len(s) \in Nat /\ DOMAIN Tail(s) = 1..(Len(s) - 1)
      /\ \A i \in 1..(Len(s) - 1) : Tail(s)[i] = s[i + 1] /\ i + 1 \in 2..Len(s)
  OBVIOUS
<1>2. \A i \in 2..Len(s) : i - 1 \in 1..(Len(s) - 1) /\ Tail(s)[i - 1] = s[i]
  BY <1>1
<1>3. Range(Tail(s)) = {Tail(s)[i] : i \in 1..(Len(s) - 1)}
  BY <1>1, Zenon DEF Range
<1>4. ASSUME NEW u \in Range(Tail(s)) PROVE \E i \in 2..Len(s) : s[i] = u
  <2>1. PICK j \in 1..(Len(s) - 1) : u = Tail(s)[j]
    BY <1>3, Zenon
  <2> QED BY <1>1, <2>1
<1>5. ASSUME NEW i \in 2..Len(s) PROVE s[i] \in Range(Tail(s))
  BY <1>2, <1>3, Zenon
<1> QED BY <1>4, <1>5

(* The numbers of a group's batches are different, begin above the last    *)
(* one given out and end where Finish sets the last one.                   *)
LEMMA NumbersAreNew ==
    ASSUME NEW S, updates \in Seq(S), last_sequence \in Nat
    PROVE  /\ \A b \in Range(updates) :
                /\ Number(b) \in Nat /\ Number(b) > last_sequence
                /\ Number(b) <= last_sequence + Len(updates)
           /\ \A b, c \in Range(updates) : b # c => Number(b) # Number(c)
<1> DEFINE place(b) == CHOOSE k \in DOMAIN updates : updates[k] = b
<1>1. DOMAIN updates = 1..Len(updates) /\ Len(updates) \in Nat
  OBVIOUS
<1>2. ASSUME NEW b \in Range(updates)
      PROVE  place(b) \in 1..Len(updates) /\ updates[place(b)] = b
  <2>1. \E k \in DOMAIN updates : updates[k] = b
    BY DEF Range
  <2> QED BY <1>1, <2>1
<1>3. \A b : Number(b) = last_sequence + place(b)
  BY DEF Number
<1> HIDE DEF place
<1> QED BY <1>1, <1>2, <1>3

(* A write that is over stays right while the stores only grow.            *)
LEMMA ResultStays ==
    ASSUME NEW u, ResultOK(u), pc'[u] = pc[u], calls'[u] = calls[u], done'[u] = done[u],
           status'[u] = status[u], req'[u] = req[u],
           mem_ \cup imm_ \cup tables \subseteq mem_' \cup imm_' \cup tables',
           synced \cup tables \subseteq synced' \cup tables',
           \A b \in DOMAIN seq : seq[b] <= last_sequence =>
              b \in DOMAIN seq' /\ seq'[b] <= last_sequence'
    PROVE  ResultOK(u)'
<1>1. Batch(u)' = Batch(u) /\ IsNull(u)' = IsNull(u)
  BY DEF Batch, IsNull
<1>2. Right(u) => Right(u)'
  BY <1>1 DEF Right
<1> QED BY <1>1, <1>2 DEF ResultOK

-----------------------------------------------------------------------------
\* What the invariant speaks of, besides the labels.
seen == <<req, calls, done, status, writers_, group, updates, data>>

(* What a step of one thread does to the labels.                           *)
LEMMA LabelMoves ==
    ASSUME TypeOK, NEW t \in Client, NEW l \in Labels, Goto(t, l)
    PROVE  /\ DOMAIN pc' = DOMAIN pc
           /\ \A u \in Client : pc'[u] = IF u = t THEN l ELSE pc[u]
           /\ \A u \in Client : pc'[u] \in Labels
BY DEF TypeOK, Goto

(* The first writer is the only one that leads.                            *)
LEMMA OneLeads ==
    ASSUME QueueInv, NEW t \in Client, pc[t] \in Leading
    PROVE  /\ \A u \in Client : pc[u] \in Leading => u = t
           /\ writers_ # <<>> /\ First = t
BY DEF QueueInv

(* Write: a thread joins the queue with a batch that nobody has seen.      *)
LEMMA WriteStep ==
    ASSUME QInv, NEW t \in Client, NEW r, Write(t, r)
    PROVE  QInv'
<1> USE DEF QInv, data, locals
<1> DEFINE l == IF writers_ = <<>> THEN "first" ELSE "queue"
           n == Len(writers_)
<1>0. /\ DOMAIN pc' = DOMAIN pc
      /\ \A u \in Client : pc'[u] = IF u = t THEN l ELSE pc[u]
      /\ \A u \in Client : pc'[u] \in Labels
  <2>1. Goto(t, l) /\ l \in Labels
    BY DEF Write, Labels, Leading
  <2> QED BY <2>1, LabelMoves
<1>a. /\ pc[t] = "idle" /\ writers_' = Append(writers_, t)
      /\ calls' = [calls EXCEPT ![t] = @ + 1] /\ req' = [req EXCEPT ![t] = r]
      /\ done' = [done EXCEPT ![t] = FALSE]
      /\ UNCHANGED <<status, group, updates, data>>
  BY DEF Write
<1>b. /\ \A u \in Client : u # t => calls'[u] = calls[u] /\ req'[u] = req[u] /\ done'[u] = done[u]
      /\ calls'[t] = calls[t] + 1 /\ done'[t] = FALSE
  BY <1>a DEF TypeOK
<1>c. ~ Queued(t) /\ \A i \in DOMAIN writers_ : writers_[i] # t
  BY <1>a DEF QueueInv, Queued, Leading
<1>d. /\ n \in Nat /\ DOMAIN writers_ = 1..n
      /\ writers_' \in Seq(Client) /\ Len(writers_') = n + 1 /\ DOMAIN writers_' = 1..(n + 1)
      /\ \A i \in 1..n : writers_'[i] = writers_[i] /\ writers_'[i] \in Client
      /\ writers_'[n + 1] = t
  BY <1>a DEF TypeOK
<1>1. TypeOK'
  BY <1>0, <1>a, <1>d DEF TypeOK
<1>e. \A u \in Client : u # t => /\ Queued(u)' = Queued(u)
                                 /\ Batch(u)' = Batch(u) /\ IsNull(u)' = IsNull(u)
  BY <1>0, <1>b DEF Queued, Batch, IsNull
<1>2. QueueInv'
  <2>1. \A i, j \in DOMAIN writers_' : writers_'[i] = writers_'[j] => i = j
    BY <1>c, <1>d DEF QueueInv
  <2>2. Queued(t)' /\ writers_'[n + 1] = t
    BY <1>0, <1>b, <1>d DEF Queued, Leading
  <2>3. ASSUME NEW u \in Client
        PROVE  Queued(u)' <=> \E i \in DOMAIN writers_' : writers_'[i] = u
    <3>1. CASE u = t
      BY <1>d, <2>2, <3>1
    <3>2. CASE u # t
      <4>1. Queued(u)' <=> \E i \in DOMAIN writers_ : writers_[i] = u
        BY <1>e, <3>2 DEF QueueInv
      <4> QED BY <1>d, <3>2, <4>1
    <3> QED BY <3>1, <3>2
  <2>4. ASSUME NEW u \in Client, pc'[u] \in Leading
        PROVE  writers_' # <<>> /\ First' = u
    <3>1. CASE u = t
      <4>1. writers_ = <<>>
        BY <1>0, <2>4, <3>1 DEF Leading
      <4>2. n + 1 = 1
        BY <4>1
      <4> QED BY <1>d, <3>1, <4>2 DEF First
    <3>2. CASE u # t
      <4>1. writers_ # <<>> /\ writers_[1] = u
        BY <1>0, <2>4, <3>2 DEF QueueInv, First
      <4>2. 1 \in 1..n /\ n + 1 # 0
        BY <1>d, <4>1 DEF TypeOK
      <4> QED BY <1>d, <4>1, <4>2 DEF First
    <3> QED BY <3>1, <3>2
  <2>5. \A u \in Client : Queued(u)' => calls'[u] > 0
    <3>1. calls[t] \in Nat
      BY DEF TypeOK
    <3> QED BY <1>b, <1>e, <3>1 DEF QueueInv
  <2> QED BY <2>1, <2>3, <2>4, <2>5 DEF QueueInv
<1>3. ASSUME NEW u \in Client PROVE GroupOK(u)'
  <2>1. CASE u = t
    BY <1>0, <2>1 DEF GroupOK, Alone, Writing, Leading
  <2>2. CASE u # t /\ pc[u] \notin Leading \ {"first"}
    BY <1>0, <2>2 DEF GroupOK, Alone, Writing, Leading
  <2>3. CASE u # t /\ pc[u] \in Leading \ {"first"}
    <3>1. GroupOK(u) /\ pc'[u] = pc[u] /\ Len(group) \in Nat /\ DOMAIN group = 1..Len(group)
      BY <1>0, <2>3 DEF GroupInv, TypeOK
    <3>2. /\ Len(group) \in 1..n /\ Len(group) \in 1..(n + 1)
          /\ \A i \in 1..Len(group) : group[i] = writers_[i] /\ i \in 1..n
      BY <1>d, <2>3, <3>1 DEF GroupOK
    <3>3. \A i \in DOMAIN group : group[i] \in Client /\ group[i] # t /\ group[i] = writers_'[i]
      BY <1>c, <1>d, <3>1, <3>2 DEF TypeOK
    <3>4. Batches(group)' = Batches(group)
      <4>1. \A i \in DOMAIN group : /\ Batch(group[i])' = Batch(group[i])
                                    /\ IsNull(group[i])' = IsNull(group[i])
        BY <1>a, <1>b, <3>3 DEF Batch, IsNull
      <4> QED BY <1>a, <4>1 DEF Batches
    <3> QED BY <1>a, <1>b, <1>d, <2>3, <3>1, <3>2, <3>3, <3>4 DEF GroupOK, IsNull
  <2> QED BY <2>1, <2>2, <2>3
<1>4. LogInv'
  BY <1>0, <1>a, <1>b DEF LogInv, WrittenOK, MemtablesAreLogged
<1>5. NumberInv'
  <2>1. Inserting' = Inserting
    BY <1>0, <1>a DEF Inserting
  <2>2. \A b \in DOMAIN seq : \E u \in Client : \E m \in 1..calls'[u] : b = <<u, m>>
    <3> SUFFICES ASSUME NEW b \in DOMAIN seq
                 PROVE  \E u \in Client : \E m \in 1..calls'[u] : b = <<u, m>>
      OBVIOUS
    <3>1. PICK u \in Client : \E m \in 1..calls[u] : b = <<u, m>>
      BY DEF NumberInv
    <3>2. calls[u] \in Nat /\ (calls'[u] = calls[u] \/ calls'[u] = calls[u] + 1)
      BY <1>b DEF TypeOK
    <3> QED BY <3>1, <3>2
  <2>3. Batch(t)' \notin DOMAIN seq
    <3> SUFFICES ASSUME Batch(t)' \in DOMAIN seq PROVE FALSE
      OBVIOUS
    <3>1. PICK u \in Client : \E m \in 1..calls[u] : Batch(t)' = <<u, m>>
      BY DEF NumberInv
    <3>2. Batch(t)' = <<t, calls[t] + 1>> /\ calls[t] \in Nat
      BY <1>b DEF Batch, TypeOK
    <3> QED BY <3>1, <3>2
  <2>4. \A u \in Client : Queued(u)' /\ Batch(u)' \in DOMAIN seq =>
            Inserting /\ Batch(u)' \in Range(updates)
    BY <1>e, <2>3 DEF NumberInv
  <2> QED BY <1>a, <2>1, <2>2, <2>4 DEF NumberInv
<1>6. ASSUME NEW u \in Client PROVE ResultOK(u)'
  <2>1. CASE u = t
    BY <1>0, <1>b, <2>1 DEF ResultOK, Waits
  <2>2. CASE u # t
    BY <1>0, <1>a, <1>b, <2>2, ResultStays DEF ResultInv
  <2> QED BY <2>1, <2>2
<1> QED BY <1>1, <1>2, <1>3, <1>4, <1>5, <1>6 DEF GroupInv, ResultInv

(* The leader inserts the group: its batches are new, and so are their     *)
(* numbers.                                                                *)
LEMMA InsertIntoStep ==
    ASSUME QInv, NEW t \in Client, InsertInto(t)
    PROVE  QInv'
<1> USE DEF QInv
<1>a. /\ pc[t] = "insert" /\ mem_' = mem_ \cup Range(updates)
      /\ seq' = [b \in DOMAIN seq \cup Range(updates) |->
                    IF b \in Range(updates) THEN Number(b) ELSE seq[b]]
      /\ UNCHANGED <<req, calls, done, status, writers_, group, updates, imm_, has_imm_,
                     tables, log, oldlogs, synced, last_sequence>>
  BY DEF InsertInto, locals
<1>0. /\ DOMAIN pc' = DOMAIN pc
      /\ \A u \in Client : pc'[u] = IF u = t THEN "relock" ELSE pc[u]
      /\ \A u \in Client : pc'[u] \in Labels
  <2>1. Goto(t, "relock") /\ "relock" \in Labels
    BY DEF InsertInto, Labels, Leading
  <2> QED BY <2>1, LabelMoves
<1>d. \A u \in Client : pc[u] \in Leading => u = t
  BY <1>a, OneLeads DEF Leading
<1>c. \A u \in Client : /\ Batch(u)' = Batch(u) /\ IsNull(u)' = IsNull(u)
                        /\ Queued(u)' <=> Queued(u)
  BY <1>0, <1>a DEF Batch, IsNull, Queued, Leading
<1>e. /\ Len(group) \in 1..Len(writers_) /\ Range(updates) = Batches(group)
      /\ \A i \in 1..Len(group) : group[i] = writers_[i]
      /\ \A i \in DOMAIN group : req[group[i]].sync => req[t].sync
      /\ Range(updates) \subseteq log /\ (req[t].sync => Range(updates) \subseteq synced)
  BY <1>a DEF GroupInv, GroupOK, LogInv, WrittenOK, Leading, Writing
<1>f. /\ DOMAIN group = 1..Len(group) /\ DOMAIN writers_ = 1..Len(writers_) /\ group \in Seq(Client)
      /\ Len(writers_) \in Nat
      /\ \A i \in DOMAIN group :
            i \in DOMAIN writers_ /\ group[i] \in Client /\ group[i] = writers_[i]
  <2>1. /\ DOMAIN group = 1..Len(group) /\ DOMAIN writers_ = 1..Len(writers_)
        /\ group \in Seq(Client) /\ Len(writers_) \in Nat
        /\ \A i \in DOMAIN group : group[i] \in Client
    BY DEF TypeOK
  <2>2. \A i \in 1..Len(group) : i \in 1..Len(writers_)
    BY <1>e, <2>1
  <2> QED BY <1>e, <2>1, <2>2
<1>g. /\ Len(updates) \in Nat
      /\ \A b \in Range(updates) : /\ Number(b) \in Nat /\ Number(b) > last_sequence
                            /\ Number(b) <= last_sequence + Len(updates)
      /\ \A b, c \in Range(updates) : b # c => Number(b) # Number(c)
  BY NumbersAreNew DEF TypeOK
<1>h. \A b \in Range(updates) : \E u \in Client : Queued(u) /\ b = Batch(u)
  <2> SUFFICES ASSUME NEW b \in Range(updates) PROVE \E u \in Client : Queued(u) /\ b = Batch(u)
    OBVIOUS
  <2>1. PICK i \in DOMAIN group : b = Batch(group[i])
    BY <1>e DEF Batches
  <2> QED BY <1>f, <2>1 DEF QueueInv
<1>i. ~ Inserting /\ Inserting'
  BY <1>0, <1>a, <1>d DEF Inserting, Leading
<1>j. \A b \in Range(updates) : b \notin DOMAIN seq
  BY <1>h, <1>i DEF NumberInv
<1>k. /\ DOMAIN seq' = DOMAIN seq \cup Range(updates)
      /\ \A b \in DOMAIN seq : seq'[b] = seq[b] /\ b \notin Range(updates)
                               /\ seq[b] \in Nat /\ seq[b] <= last_sequence
      /\ \A b \in Range(updates) : seq'[b] = Number(b)
  BY <1>a, <1>i, <1>j DEF TypeOK, NumberInv
<1>1. TypeOK'
  <2>1. seq' \in [DOMAIN seq' -> Nat]
    BY <1>a, <1>g, <1>k
  <2> QED BY <1>0, <1>a, <2>1 DEF TypeOK
<1>2. QueueInv'
  BY <1>0, <1>a, <1>c DEF QueueInv, First, Leading
<1>3. ASSUME NEW u \in Client PROVE GroupOK(u)'
  <2>1. CASE u # t
    BY <1>0, <1>d, <2>1 DEF GroupOK, Leading, Alone, Writing
  <2>2. CASE u = t
    <3>1. Batches(group)' = Batches(group)
      BY <1>a DEF Batches, Batch, IsNull
    <3> QED BY <1>0, <1>a, <1>e, <2>2, <3>1, ZenonT(60) DEF GroupOK, Leading, Alone, Writing
  <2> QED BY <2>1, <2>2
<1>4. LogInv'
  <2>1. MemtablesAreLogged' /\ (~ has_imm_ => imm_ = {})'
    BY <1>a, <1>e DEF LogInv, MemtablesAreLogged
  <2>2. ASSUME NEW u \in Client PROVE WrittenOK(u)'
    <3>1. CASE u # t
      BY <1>0, <1>d, <3>1 DEF WrittenOK, Leading
    <3>2. CASE u = t
      BY <1>0, <1>a, <1>e, <1>k, <3>2 DEF WrittenOK
    <3> QED BY <3>1, <3>2
  <2> QED BY <2>1, <2>2 DEF LogInv
<1>5. NumberInv'
  <2>1. \A b \in DOMAIN seq' : \E u \in Client : \E n \in 1..calls'[u] : b = <<u, n>>
    <3> SUFFICES ASSUME NEW b \in DOMAIN seq'
                 PROVE  \E u \in Client : \E n \in 1..calls[u] : b = <<u, n>>
      BY <1>a
    <3>1. CASE b \in DOMAIN seq
      BY <3>1 DEF NumberInv
    <3>2. CASE b \in Range(updates)
      <4>1. PICK u \in Client : Queued(u) /\ b = Batch(u)
        BY <1>h, <3>2
      <4>2. calls[u] \in Nat \ {0}
        BY <4>1 DEF QueueInv, TypeOK
      <4> QED BY <4>1, <4>2 DEF Batch
    <3> QED BY <1>k, <3>1, <3>2
  <2>2. \A b, c \in DOMAIN seq' : b # c => seq'[b] # seq'[c]
    <3> SUFFICES ASSUME NEW b \in DOMAIN seq', NEW c \in DOMAIN seq', b # c
                 PROVE  seq'[b] # seq'[c]
      OBVIOUS
    <3>1. last_sequence \in Nat
      BY DEF TypeOK
    <3>2. CASE b \in DOMAIN seq /\ c \in DOMAIN seq
      BY <1>k, <3>2 DEF NumberInv
    <3>3. CASE b \in Range(updates) /\ c \in Range(updates)
      BY <1>g, <1>k, <3>3
    <3>4. CASE \/ b \in DOMAIN seq /\ c \in Range(updates)
               \/ b \in Range(updates) /\ c \in DOMAIN seq
      BY <1>g, <1>k, <3>1, <3>4
    <3> QED BY <1>k, <3>2, <3>3, <3>4
  <2>3. \A u \in Client : Queued(u)' /\ Batch(u)' \in DOMAIN seq' => Batch(u)' \in Range(updates')
    BY <1>a, <1>c, <1>i, <1>k DEF NumberInv
  <2>4. \A b \in DOMAIN seq' : \/ seq'[b] <= last_sequence'
                               \/ b \in Range(updates') /\ seq'[b] <= last_sequence' + Len(updates')
    BY <1>a, <1>g, <1>k
  <2> QED BY <1>i, <2>1, <2>2, <2>3, <2>4 DEF NumberInv
<1>6. ASSUME NEW u \in Client PROVE ResultOK(u)'
  <2>1. CASE u = t
    BY <1>0, <2>1 DEF ResultOK, Waits
  <2>2. CASE u # t
    BY <1>0, <1>a, <1>k, <2>2, ResultStays DEF ResultInv
  <2> QED BY <2>1, <2>2
<1> QED BY <1>1, <1>2, <1>3, <1>4, <1>5, <1>6 DEF GroupInv, ResultInv

(* The end of Write: the group leaves the queue, and all of it is stored   *)
(* and visible if the leader's status says so.                             *)
LEMMA FinishStep ==
    ASSUME QInv, NEW t \in Client, Finish(t)
    PROVE  QInv'
<1> USE DEF QInv
<1> DEFINE others == Range(Tail(group))
           n == Len(group)
           m == Len(writers_)
<1>a. /\ pc[t] \in {"relock", "finish"}
      /\ status' = [x \in Client |-> IF x \in others THEN status[t] ELSE status[x]]
      /\ done' = [x \in Client |-> done[x] \/ x \in others]
      /\ last_sequence' = last_sequence + Len(updates)
      /\ writers_' = SubSeq(writers_, n + 1, m)
      /\ group' = <<>> /\ updates' = <<>>
      /\ UNCHANGED <<req, calls, mem_, imm_, has_imm_, tables, log, oldlogs, synced, seq>>
  BY DEF Finish
<1>0. /\ DOMAIN pc' = DOMAIN pc
      /\ \A u \in Client : pc'[u] = IF u = t THEN "returned" ELSE pc[u]
      /\ \A u \in Client : pc'[u] \in Labels
  <2>1. Goto(t, "returned") /\ "returned" \in Labels
    BY DEF Finish, Labels
  <2> QED BY <2>1, LabelMoves
<1>d. /\ \A u \in Client : pc[u] \in Leading => u = t
      /\ writers_ # <<>> /\ writers_[1] = t
  BY <1>a, OneLeads DEF Leading, First
<1>e. /\ n \in 1..m /\ \A i \in 1..n : group[i] = writers_[i]
      /\ pc[t] = "finish" => n = 1 /\ updates = <<>> /\ (IsNull(t) \/ status[t] # "ok")
      /\ pc[t] = "relock" => /\ Range(updates) = Batches(group)
                             /\ \A i \in DOMAIN group : req[group[i]].sync => req[t].sync
  BY <1>a DEF GroupInv, GroupOK, Leading, Writing, Alone
<1>f. /\ n \in Nat /\ m \in Nat /\ DOMAIN group = 1..n /\ DOMAIN writers_ = 1..m
      /\ \A i \in 1..m : writers_[i] \in Client
      /\ \A i, j \in 1..m : writers_[i] = writers_[j] => i = j
  BY DEF TypeOK, QueueInv
<1>g. /\ writers_' \in Seq(Client) /\ DOMAIN writers_' = 1..(m - n)
      /\ \A i \in 1..(m - n) : i + n \in 1..m /\ writers_'[i] = writers_[i + n]
  <2>1. writers_ \in Seq(Client) /\ n \in 0..Len(writers_)
    BY <1>e, <1>f DEF TypeOK
  <2> QED BY <1>a, <2>1, RestOf
<1>h. \A u : u \in others <=> \E i \in 2..n : writers_[i] = u
  <2>1. group \in Seq(Client) /\ group # <<>>
    BY <1>e, <1>f DEF TypeOK
  <2>2. \A i \in 2..n : group[i] = writers_[i]
    BY <1>e, <1>f
  <2> QED BY <2>1, <2>2, TailOf
<1> HIDE DEF others, n, m
<1>n. /\ n \in Nat \ {0} /\ 1 \in 1..n /\ 1 \in 1..m
      /\ \A i \in 2..n : i \in 1..n /\ i \in 1..m /\ i # 1
      /\ n = 1 => 2..n = {}
  BY <1>e, <1>f
<1>i. t \notin others /\ \A u \in others : u \in Client /\ Queued(u) /\ pc[u] = "queue"
  <2>1. t \notin others
    BY <1>d, <1>f, <1>h, <1>n
  <2>2. ASSUME NEW u \in others PROVE u \in Client /\ Queued(u) /\ pc[u] = "queue"
    <3>1. PICK i \in 2..n : writers_[i] = u
      BY <1>h
    <3>2. u \in Client /\ Queued(u)
      BY <1>f, <1>n, <3>1 DEF QueueInv
    <3> QED BY <1>d, <2>1, <3>2 DEF Queued
  <2> QED BY <2>1, <2>2
<1>j. \A u \in Client : /\ Batch(u)' = Batch(u) /\ IsNull(u)' = IsNull(u)
                        /\ Queued(u)' <=> Queued(u) /\ u # t /\ u \notin others
                        /\ done'[u] = (done[u] \/ u \in others)
                        /\ status'[u] = IF u \in others THEN status[t] ELSE status[u]
  BY <1>0, <1>a, <1>d, <1>i, ZenonT(60) DEF Batch, IsNull, Queued, Leading
<1>k. /\ Len(updates) \in Nat /\ last_sequence \in Nat /\ last_sequence' \in Nat
      /\ last_sequence <= last_sequence'
  BY <1>a DEF TypeOK
<1>l. /\ ~ Inserting' /\ (Inserting => pc[t] = "relock")
      /\ \A u \in Client : pc'[u] \notin Leading
  BY <1>0, <1>d DEF Inserting, Leading
<1>1. TypeOK'
  <2>1. done' \in [Client -> BOOLEAN] /\ DOMAIN status' = Client
    BY <1>a DEF TypeOK
  <2>2. updates' \in Seq(Client \X Nat) /\ group' \in Seq(Client)
    <3>1. updates' = <<>> /\ group' = <<>>
      BY <1>a
    <3> QED BY <3>1
  <2> QED BY <1>0, <1>a, <1>g, <1>k, <2>1, <2>2 DEF TypeOK
<1>2. QueueInv'
  <2>1. \A i, j \in DOMAIN writers_' : writers_'[i] = writers_'[j] => i = j
    <3> SUFFICES ASSUME NEW i \in 1..(m - n), NEW j \in 1..(m - n), writers_'[i] = writers_'[j]
                 PROVE  i = j
      BY <1>g
    <3>1. i + n = j + n
      BY <1>f, <1>g
    <3> QED BY <1>f, <3>1
  <2>2. ASSUME NEW u \in Client
        PROVE  Queued(u)' <=> \E i \in DOMAIN writers_' : writers_'[i] = u
    <3>1. ASSUME Queued(u)' PROVE \E i \in DOMAIN writers_' : writers_'[i] = u
      <4>1. PICK j \in 1..m : writers_[j] = u
        BY <1>f, <1>j, <3>1 DEF QueueInv
      <4>2. j # 1 /\ j \notin 2..n
        BY <1>d, <1>h, <1>j, <3>1, <4>1
      <4>3. j - n \in 1..(m - n) /\ (j - n) + n = j
        BY <1>e, <1>f, <4>2
      <4> QED BY <1>g, <4>1, <4>3
    <3>2. ASSUME NEW i \in DOMAIN writers_', writers_'[i] = u PROVE Queued(u)'
      <4>1. i + n \in 1..m /\ writers_[i + n] = u /\ i \in Nat \ {0}
        BY <1>g, <3>2
      <4>n. i + n # 1 /\ i + n \notin 2..n
        BY <1>n, <4>1
      <4>2. Queued(u)
        BY <1>f, <4>1 DEF QueueInv
      <4>3. u # t
        BY <1>d, <1>f, <1>n, <4>1, <4>n
      <4>4. u \notin others
        BY <1>f, <1>h, <1>n, <4>1, <4>n
      <4> QED BY <1>j, <4>2, <4>3, <4>4
    <3> QED BY <3>1, <3>2
  <2> QED BY <1>a, <1>j, <1>l, <2>1, <2>2, ZenonT(60) DEF QueueInv
<1>3. GroupInv'
  BY <1>l DEF GroupInv, GroupOK, Leading, Alone, Writing
<1>4. LogInv'
  BY <1>a, <1>l DEF LogInv, MemtablesAreLogged, WrittenOK, Leading
<1>m. ASSUME NEW b \in DOMAIN seq PROVE seq'[b] <= last_sequence' /\ seq'[b] = seq[b]
  BY <1>a, <1>k DEF NumberInv, TypeOK
<1>5. NumberInv'
  <2>1. ASSUME NEW u \in Client, Queued(u)', Batch(u)' \in DOMAIN seq' PROVE FALSE
    <3>1. u # t /\ u \notin others /\ Inserting /\ Batch(u) \in Range(updates)
      BY <1>a, <1>j, <2>1 DEF NumberInv
    <3>2. PICK i \in 1..n : Batch(u) = Batch(writers_[i])
      BY <1>e, <1>f, <1>l, <3>1 DEF Batches
    <3>3. u = writers_[i]
      BY <3>2 DEF Batch
    <3>4. i = 1 \/ i \in 2..n
      BY <1>f
    <3> QED BY <1>d, <1>h, <3>1, <3>3, <3>4
  <2>2. \A b \in DOMAIN seq' : seq'[b] <= last_sequence'
    BY <1>a, <1>m
  <2> QED BY <1>a, <2>1, <2>2 DEF NumberInv
<1>6. ResultInv'
  <2>1. ASSUME NEW u \in Client, u = t \/ u \in others PROVE Right(u)'
    <3> SUFFICES ASSUME status[t] = "ok", ~ IsNull(u)
                 PROVE  /\ Batch(u) \in mem_ /\ Batch(u) \in DOMAIN seq
                        /\ req[u].sync => Batch(u) \in synced
      BY <1>a, <1>i, <1>j, <1>m, <2>1 DEF Right
    <3>1. PICK i \in 1..n : group[i] = u
      <4>1. CASE u = t
        BY <1>d, <1>e, <1>n, <4>1
      <4>2. CASE u \in others
        BY <1>e, <1>h, <1>n, <4>2
      <4> QED BY <2>1, <4>1, <4>2
    <3>2. pc[t] = "relock"
      <4>1. n = 1 => u = t
        BY <1>h, <1>n, <2>1
      <4> QED BY <1>a, <1>e, <4>1
    <3>3. Batch(u) \in Range(updates) /\ (req[u].sync => req[t].sync)
      BY <1>e, <1>f, <3>1, <3>2 DEF Batches
    <3> QED BY <3>2, <3>3 DEF LogInv, WrittenOK
  <2>2. ASSUME NEW u \in Client, u # t, u \notin others PROVE ResultOK(u)'
    <3>1. /\ pc'[u] = pc[u] /\ calls'[u] = calls[u] /\ done'[u] = done[u]
          /\ status'[u] = status[u] /\ req'[u] = req[u]
      BY <1>0, <1>a, <1>j, <2>2 DEF TypeOK
    <3> QED BY <1>a, <1>m, <3>1, ResultStays DEF ResultInv
  <2>3. ASSUME NEW u \in Client, u = t \/ u \in others PROVE ResultOK(u)'
    BY <1>0, <1>i, <2>1, <2>3 DEF ResultOK, Waits
  <2> QED BY <2>2, <2>3 DEF ResultInv
<1> QED BY <1>1, <1>2, <1>3, <1>4, <1>5, <1>6
=============================================================================
