------------------------- MODULE WriteQueueProofs -------------------------
(***************************************************************************)
(* Group commit is safe for any number of threads, calls and failing file  *)
(* operations: what a memtable holds is logged, and a write that returned  *)
(* OK is stored under a number of its own, and on disk if it asked for     *)
(* that, although another thread may have written it.                      *)
(*                                                                         *)
(* The other steps of WriteQueue, after those of WriteQueueInv.            *)
(***************************************************************************)
EXTENDS WriteQueueInv

(* A step that changes nothing of all this.                                *)
LEMMA QuietStep ==
    ASSUME QInv, DOMAIN pc' = DOMAIN pc, \A u \in Client : pc'[u] = pc[u], UNCHANGED seen
    PROVE  QInv'
<1> USE DEF QInv, seen, data
<1>1. TypeOK'
  BY DEF TypeOK
<1>2. QueueInv'
  BY DEF QueueInv, Queued, First
<1>3. GroupInv'
  BY DEF GroupInv, GroupOK, Batches, Batch, IsNull
<1>4. LogInv'
  BY DEF LogInv, WrittenOK, MemtablesAreLogged
<1>5. NumberInv'
  BY DEF NumberInv, Queued, Batch, Inserting
<1>6. ResultInv'
  BY DEF ResultInv, ResultOK, Right, Batch, IsNull
<1> QED BY <1>1, <1>2, <1>3, <1>4, <1>5, <1>6

(* A thread moves on while the queue stays as it is. What holds of the     *)
(* others stays: if the thread leads, none of them does, and otherwise the *)
(* group is left alone.                                                    *)
LEMMA ThreadMoves ==
    ASSUME QInv, NEW t \in Client, NEW l \in Labels, Goto(t, l),
           pc[t] # "relock", Queued(t)' <=> Queued(t),
           l \in Leading => writers_ # <<>> /\ First = t,
           DOMAIN status' = DOMAIN status,
           \A u \in Client : u # t => status'[u] = status[u],
           \/ UNCHANGED <<group, updates>>
           \/ pc[t] \in Leading /\ group' \in Seq(Client) /\ updates' \in Seq(Client \X Nat),
           log \subseteq log', synced \subseteq synced',
           UNCHANGED <<req, calls, done, writers_, mem_, imm_, has_imm_, tables, oldlogs,
                       seq, last_sequence>>,
           GroupOK(t)', WrittenOK(t)', ResultOK(t)'
    PROVE  QInv'
<1>i. TypeOK /\ QueueInv /\ GroupInv /\ LogInv /\ NumberInv /\ ResultInv
  BY DEF QInv
<1>0. /\ DOMAIN pc' = DOMAIN pc
      /\ \A u \in Client : pc'[u] = IF u = t THEN l ELSE pc[u]
      /\ \A u \in Client : pc'[u] \in Labels
  BY <1>i, LabelMoves
<1>a. \A u \in Client : /\ Batch(u)' = Batch(u) /\ IsNull(u)' = IsNull(u)
                        /\ Queued(u)' <=> Queued(u)
  BY <1>0 DEF Batch, IsNull, Queued
<1>b. UNCHANGED <<group, updates>> \/ \A u \in Client : pc[u] \in Leading => u = t
  BY <1>i, OneLeads
<1>1. TypeOK'
  BY <1>i, <1>0 DEF TypeOK
<1>2. QueueInv'
  BY <1>i, <1>0, <1>a DEF QueueInv, First
<1>3. ASSUME NEW u \in Client, u # t PROVE GroupOK(u)' /\ WrittenOK(u)' /\ ResultOK(u)'
  <2>1. GroupOK(u) /\ WrittenOK(u) /\ ResultOK(u) /\ pc'[u] = pc[u] /\ status'[u] = status[u]
    BY <1>i, <1>0, <1>3 DEF GroupInv, LogInv, ResultInv
  <2>2. CASE UNCHANGED <<group, updates>>
    <3>1. Batches(group)' = Batches(group)
      BY <2>2 DEF Batches, Batch, IsNull
    <3>2. GroupOK(u)'
      BY <2>1, <2>2, <3>1 DEF GroupOK, IsNull
    <3>3. WrittenOK(u)'
      BY <2>1, <2>2 DEF WrittenOK
    <3> QED BY <2>1, <3>2, <3>3, ResultStays
  <2>3. CASE pc[u] \notin Leading
    <3>1. GroupOK(u)' /\ WrittenOK(u)'
      BY <2>1, <2>3 DEF GroupOK, WrittenOK, Leading, Alone, Writing
    <3> QED BY <2>1, <3>1, ResultStays
  <2> QED BY <1>b, <1>3, <2>2, <2>3
<1>4. LogInv'
  <2>1. MemtablesAreLogged' /\ (~ has_imm_ => imm_ = {})'
    BY <1>i DEF LogInv, MemtablesAreLogged
  <2> QED BY <1>3, <2>1 DEF LogInv
<1>5. NumberInv'
  <2>1. \/ ~ Inserting
        \/ Inserting' /\ updates' = updates
    BY <1>0, <1>b DEF Inserting, Leading
  <2> QED BY <1>i, <1>a, <2>1 DEF NumberInv
<1>6. GroupInv' /\ ResultInv'
  BY <1>3 DEF GroupInv, ResultInv
<1> QED BY <1>1, <1>2, <1>4, <1>5, <1>6 DEF QInv

(* The leader waits in MakeRoomForWrite, or goes on there.                 *)
LEMMA RoomMoves ==
    ASSUME QInv, NEW t \in Client, pc[t] \in {"room", "sleep", "bg_cv"},
           NEW l \in {"room", "sleep", "bg_cv"}, Goto(t, l), UNCHANGED seen
    PROVE  QInv'
<1>i. TypeOK /\ QueueInv /\ GroupOK(t)
  BY DEF QInv, GroupInv
<1>0. l \in Labels /\ pc'[t] = l
  BY <1>i DEF Labels, Leading, Goto, TypeOK
<1>1. writers_ # <<>> /\ First = t /\ (Queued(t)' <=> Queued(t))
  BY <1>i, <1>0, OneLeads DEF Queued, Leading
<1>2. GroupOK(t)'
  <2>1. Batches(group)' = Batches(group)
    BY DEF Batches, Batch, IsNull, seen
  <2> QED BY <1>i, <1>0, <2>1 DEF GroupOK, IsNull, Leading, Alone, Writing, seen
<1>3. WrittenOK(t)' /\ ResultOK(t)'
  BY <1>0 DEF WrittenOK, ResultOK, Waits
<1> QED BY <1>0, <1>1, <1>2, <1>3, ThreadMoves DEF seen, data

(* A thread whose write is over goes on to what follows it, or returns.    *)
LEMMA AfterWrite ==
    ASSUME QInv, NEW t \in Client, pc[t] \in Waits \cup {"returned"},
           NEW l \in Waits \cup {"idle"}, Goto(t, l),
           l \in Waits => IsNull(t),
           status' = status \/ (IsNull(t) /\ status' = [status EXCEPT ![t] = "error"]),
           UNCHANGED <<req, calls, done, writers_, group, updates, data>>
    PROVE  QInv'
<1>i. TypeOK /\ ResultOK(t)
  BY DEF QInv, ResultInv
<1>0. /\ l \in Labels /\ pc'[t] = l
      /\ pc[t] \notin Leading \cup {"queue"} /\ l \notin Leading \cup {"queue", "returned"}
  BY <1>i DEF Labels, Leading, Waits, Goto, TypeOK
<1>1. /\ DOMAIN status' = DOMAIN status
      /\ \A u \in Client : u # t => status'[u] = status[u]
      /\ ~ IsNull(t) => status'[t] = status[t]
  BY <1>i DEF TypeOK
<1>2. GroupOK(t)' /\ WrittenOK(t)' /\ ~ Queued(t) /\ ~ Queued(t)'
  BY <1>0 DEF GroupOK, WrittenOK, Queued, Leading, Alone, Writing
<1>3. ResultOK(t)'
  <2>1. IsNull(t)' = IsNull(t) /\ Batch(t)' = Batch(t)
    BY DEF IsNull, Batch
  <2>2. (pc[t] \in Waits => IsNull(t)) /\ (pc[t] = "returned" /\ calls[t] > 0 => Right(t))
    BY <1>i DEF ResultOK
  <2>3. calls[t] > 0 => Right(t)'
    BY <1>1, <2>1, <2>2 DEF Right, data
  <2> QED BY <1>0, <2>1, <2>3 DEF ResultOK
<1>4. pc[t] # "relock" /\ l \notin Leading /\ UNCHANGED <<mem_, imm_, has_imm_, tables, oldlogs,
                                                         log, synced, seq, last_sequence>>
  BY <1>0 DEF Leading, data
<1> QED BY <1>0, <1>1, <1>2, <1>3, <1>4, ThreadMoves

(* A thread in the queue wakes: its write is done, or it leads.            *)
LEMMA QueueWakesStep ==
    ASSUME QInv, NEW t \in Client, QueueWakes(t)
    PROVE  QInv'
<1>i. TypeOK /\ QueueInv /\ ResultOK(t)
  BY DEF QInv, ResultInv
<1>a. /\ pc[t] = "queue"
      /\ UNCHANGED <<req, calls, done, status, writers_, group, updates, mem_, imm_, has_imm_,
                     tables, log, oldlogs, synced, seq, last_sequence>>
  BY DEF QueueWakes, locals, data
<1>b. PICK l \in {"returned", "first", "queue"} :
        Goto(t, l) /\ (l = "returned" <=> done[t]) /\ (l = "first" => First = t)
  BY DEF QueueWakes
<1>0. l \in Labels /\ pc'[t] = l
  BY <1>i, <1>b DEF Labels, Leading, Goto, TypeOK
<1>1. l \in Leading => writers_ # <<>> /\ First = t
  <2>1. l = "first" => \E i \in DOMAIN writers_ : writers_[i] = t
    BY <1>i, <1>a, <1>b DEF QueueInv, Queued
  <2> QED BY <1>b, <2>1 DEF Leading
<1>2. /\ Queued(t)' <=> Queued(t)
      /\ GroupOK(t)' /\ WrittenOK(t)'
  BY <1>a, <1>b, <1>0 DEF GroupOK, WrittenOK, Queued, Leading, Alone, Writing
<1>3. ResultOK(t)'
  <2>1. Right(t)' <=> Right(t)
    BY <1>a DEF Right, IsNull, Batch
  <2> QED BY <1>i, <1>a, <1>b, <1>0, <2>1 DEF ResultOK, Waits
<1> QED BY <1>a, <1>b, <1>0, <1>1, <1>2, <1>3, ThreadMoves

(* The leader begins MakeRoomForWrite, or leaves it.                       *)
LEMMA LeaderStep ==
    ASSUME QInv, NEW t \in Client, pc[t] \in {"first", "room"},
           NEW l \in Alone, Goto(t, l),
           \/ /\ pc[t] = "first" /\ l = "room" /\ group' = <<t>> /\ updates' = <<>>
              /\ UNCHANGED status
           \/ /\ pc[t] = "room" /\ UNCHANGED <<group, updates>>
              /\ \E s : Return(t, s) /\ (l = "finish" => IsNull(t) \/ s # "ok"),
           UNCHANGED <<req, calls, done, writers_, data>>
    PROVE  QInv'
<1>i. TypeOK /\ QueueInv /\ GroupOK(t)
  BY DEF QInv, GroupInv
<1>0. l \in Labels /\ pc'[t] = l /\ pc[t] \in Leading /\ l \in Leading
  BY <1>i DEF Labels, Leading, Alone, Goto, TypeOK
<1>a. /\ DOMAIN status' = DOMAIN status
      /\ \A u \in Client : u # t => status'[u] = status[u]
      /\ l = "finish" => IsNull(t) \/ status'[t] # "ok"
  BY <1>i DEF TypeOK, Return
<1>d. writers_ # <<>> /\ First = t /\ Len(writers_) \in Nat \ {0}
  BY <1>i, <1>0, OneLeads DEF TypeOK
<1>e. group' \in Seq(Client) /\ Len(group') = 1 /\ group'[1] = t /\ updates' = <<>>
  <2>1. CASE pc[t] = "first"
    <3>1. group' = <<t>> /\ updates' = <<>>
      BY <2>1
    <3> QED BY <3>1
  <2>2. CASE pc[t] = "room"
    <3>1. group' = group /\ updates' = updates /\ group \in Seq(Client)
      BY <1>i, <2>2 DEF TypeOK
    <3>2. Len(group) = 1 /\ updates = <<>> /\ \A i \in 1..Len(group) : group[i] = writers_[i]
      BY <1>i, <2>2 DEF GroupOK, Leading, Alone
    <3> QED BY <1>d, <3>1, <3>2 DEF First
  <2> QED BY <2>1, <2>2
<1>1. GroupOK(t)'
  <2>1. Len(group') \in 1..Len(writers_) /\ \A i \in 1..Len(group') : group'[i] = writers_[i]
    BY <1>d, <1>e DEF First
  <2> QED BY <1>0, <1>a, <1>e, <2>1 DEF GroupOK, IsNull, Alone, Writing
<1>2. WrittenOK(t)' /\ ResultOK(t)' /\ Queued(t) /\ Queued(t)' /\ pc[t] # "relock"
  BY <1>0 DEF WrittenOK, ResultOK, Queued, Waits, Alone
<1>3. updates' \in Seq(Client \X Nat)
  BY <1>e
<1> QED BY <1>0, <1>a, <1>d, <1>e, <1>1, <1>2, <1>3, ThreadMoves DEF data

(* A new memtable and a new log.                                           *)
LEMMA RoomSwitchStep ==
    ASSUME QInv, NEW t \in Client, RoomSwitch(t)
    PROVE  QInv'
<1> USE DEF QInv, client
<1>a. /\ pc[t] = "room" /\ ~ has_imm_
      /\ imm_' = mem_ /\ has_imm_' = TRUE /\ mem_' = {}
      /\ oldlogs' = oldlogs \cup log /\ log' = {}
      /\ UNCHANGED <<client, writers_, group, updates, tables, synced, seq, last_sequence>>
  BY DEF RoomSwitch, CanSwitch
<1>d. \A u \in Client : pc[u] \in Leading => u = t
  BY <1>a, OneLeads DEF Leading
<1>b. /\ Batches(group)' = Batches(group)
      /\ \A u \in Client : Batch(u)' = Batch(u) /\ IsNull(u)' = IsNull(u)
  BY <1>a DEF Batches, Batch, IsNull
<1>1. TypeOK'
  BY <1>a DEF TypeOK
<1>2. QueueInv'
  BY <1>a DEF QueueInv, Queued, First
<1>3. GroupInv'
  BY <1>a, <1>b DEF GroupInv, GroupOK
<1>4. LogInv'
  <2>1. \A u \in Client : pc'[u] \notin {"sync", "insert", "relock"}
    BY <1>a, <1>d DEF Leading
  <2> QED BY <1>a, <2>1 DEF LogInv, WrittenOK, MemtablesAreLogged
<1>5. NumberInv'
  BY <1>a, <1>b DEF NumberInv, Queued, Inserting
<1>6. ASSUME NEW u \in Client PROVE ResultOK(u)'
  <2>1. mem_ \cup imm_ \cup tables \subseteq mem_' \cup imm_' \cup tables'
    BY <1>a DEF LogInv
  <2> QED BY <1>a, <2>1, ResultStays DEF ResultInv
<1> QED BY <1>1, <1>2, <1>3, <1>4, <1>5, <1>6 DEF ResultInv

(* The leader takes its group.                                             *)
LEMMA BuildBatchGroupStep ==
    ASSUME QInv, NEW t \in Client, BuildBatchGroup(t)
    PROVE  QInv'
<1>i. TypeOK /\ QueueInv
  BY DEF QInv
<1>z. PICK size \in 1..Len(writers_) : IsGroupSize(size) /\ group' = SubSeq(writers_, 1, size)
  BY DEF BuildBatchGroup
<1> DEFINE g == SubSeq(writers_, 1, size)
<1>a. /\ pc[t] = "group" /\ group' = g /\ updates' \in InOrder(g) /\ Goto(t, "log")
      /\ UNCHANGED <<req, calls, done, status, writers_, mem_, imm_, has_imm_, tables, log,
                     oldlogs, synced, seq, last_sequence>>
  BY <1>z DEF BuildBatchGroup, data
<1>0. "log" \in Labels /\ pc'[t] = "log" /\ pc[t] \in Leading
  BY <1>i, <1>a DEF Labels, Leading, Goto, TypeOK
<1>d. writers_ # <<>> /\ First = t
  BY <1>i, <1>0, OneLeads
<1>e. size \in 1..Len(writers_) /\ \A k \in 2..size : Joins(k)
  BY <1>z DEF IsGroupSize
<1>f. /\ g \in Seq(Client) /\ Len(g) = size /\ DOMAIN g = 1..size
      /\ \A i \in 1..size : g[i] = writers_[i] /\ i \in DOMAIN writers_
  <2>1. writers_ \in Seq(Client) /\ size \in 0..Len(writers_)
    BY <1>i, <1>e DEF TypeOK
  <2> QED BY <2>1, FirstOf
<1> HIDE DEF g
<1>g. Batches(group)' = Batches(g) /\ Range(updates') = Batches(g)
  BY <1>a DEF Batches, Batch, IsNull, InOrder
<1>1. updates' \in Seq(Client \X Nat)
  <2>1. PICK n \in 0..Len(g) : updates' \in [1..n -> Batches(g)]
    BY <1>a DEF InOrder
  <2>2. Batches(g) \subseteq Client \X Nat
    BY <1>i, <1>f DEF Batches, Batch, TypeOK
  <2> QED BY <1>f, <2>1, <2>2
<1>2. \A i \in DOMAIN group' : req[group'[i]].sync => req[t].sync
  <2> SUFFICES ASSUME NEW i \in 1..size, req[writers_[i]].sync PROVE req[t].sync
    BY <1>a, <1>f
  <2>1. CASE i = 1
    BY <1>d, <2>1 DEF First
  <2>2. CASE i # 1
    <3>1. i \in 2..size
      BY <1>e, <2>2
    <3>2. Joins(i)
      BY <1>e, <3>1
    <3> QED BY <1>d, <3>2 DEF Joins
  <2> QED BY <2>1, <2>2
<1>3. GroupOK(t)'
  <2>1. Len(group') \in 1..Len(writers_) /\ \A i \in 1..Len(group') : group'[i] = writers_[i]
    BY <1>a, <1>e, <1>f
  <2> QED BY <1>0, <1>a, <1>g, <1>2, <2>1 DEF GroupOK, Alone, Writing
<1>4. /\ WrittenOK(t)' /\ ResultOK(t)' /\ Queued(t) /\ Queued(t)'
  BY <1>0 DEF WrittenOK, ResultOK, Queued, Waits, Leading
<1>5. pc[t] # "relock" /\ group' \in Seq(Client) /\ DOMAIN status' = DOMAIN status
  BY <1>a, <1>f
<1> QED BY <1>0, <1>a, <1>d, <1>1, <1>3, <1>4, <1>5, ThreadMoves

(* The leader writes the log or syncs it, for its group.                   *)
LEMMA LogStep ==
    ASSUME QInv, NEW t \in Client, AddRecord(t) \/ Sync(t)
    PROVE  QInv'
<1>i. TypeOK /\ QueueInv /\ GroupOK(t) /\ WrittenOK(t)
  BY DEF QInv, GroupInv, LogInv
<1>a. /\ pc[t] \in {"log", "sync"} /\ log \subseteq log' /\ synced \subseteq synced'
      /\ UNCHANGED <<req, calls, done, writers_, group, updates, mem_, imm_, has_imm_,
                     tables, oldlogs, seq, last_sequence>>
  BY DEF AddRecord, Sync, locals
<1>b. PICK l \in {"sync", "insert", "relock"} :
        /\ Goto(t, l)
        /\ l = "relock" => Return(t, "error")
        /\ l # "relock" => UNCHANGED status /\ Range(updates) \subseteq log'
        /\ l = "insert" /\ req[t].sync => Range(updates) \subseteq synced'
  <2>1. pc[t] = "sync" => Range(updates) \subseteq log
    BY <1>i DEF WrittenOK
  <2>2. CASE AddRecord(t)
    BY <2>1, <2>2 DEF AddRecord
  <2>3. CASE Sync(t)
    BY <2>1, <2>3 DEF Sync
  <2> QED BY <2>2, <2>3
<1>0. l \in Labels /\ pc'[t] = l /\ pc[t] \in Leading /\ l \in Leading
  BY <1>i, <1>a, <1>b DEF Labels, Leading, Goto, TypeOK
<1>s. /\ DOMAIN status' = DOMAIN status
      /\ \A u \in Client : u # t => status'[u] = status[u]
      /\ l = "relock" => status'[t] = "error"
  BY <1>i, <1>b DEF TypeOK, Return
<1>1. writers_ # <<>> /\ First = t
  BY <1>i, <1>0, OneLeads
<1>2. GroupOK(t)'
  <2>1. Batches(group)' = Batches(group)
    BY <1>a DEF Batches, Batch, IsNull
  <2> QED BY <1>i, <1>a, <1>0, <2>1 DEF GroupOK, Leading, Alone, Writing
<1>3. WrittenOK(t)'
  BY <1>a, <1>b, <1>0, <1>s DEF WrittenOK
<1>4. ResultOK(t)' /\ Queued(t) /\ Queued(t)' /\ pc[t] # "relock"
  BY <1>a, <1>0 DEF ResultOK, Queued, Waits, Leading
<1> QED BY <1>a, <1>b, <1>0, <1>s, <1>1, <1>2, <1>3, <1>4, ThreadMoves

(* The full memtable becomes a table, and its log goes, or neither.        *)
LEMMA CompactMemTableStep ==
    ASSUME QInv, CompactMemTable
    PROVE  QInv'
<1> USE DEF QInv
<1>a. /\ tables \subseteq tables' /\ imm_ \cup tables \subseteq imm_' \cup tables'
      /\ imm_' \subseteq oldlogs' /\ (~ has_imm_' => imm_' = {})
      /\ UNCHANGED <<pc, req, calls, done, status, writers_, group, updates, mem_, log,
                     synced, seq, last_sequence>>
  BY DEF CompactMemTable, KeptLogs, client, locals, LogInv, MemtablesAreLogged
<1>1. TypeOK'
  BY <1>a DEF TypeOK
<1>2. QueueInv'
  BY <1>a DEF QueueInv, Queued, First
<1>3. GroupInv'
  BY <1>a DEF GroupInv, GroupOK, Batches, Batch, IsNull
<1>4. LogInv'
  BY <1>a DEF LogInv, WrittenOK, MemtablesAreLogged
<1>5. NumberInv'
  BY <1>a DEF NumberInv, Queued, Batch, Inserting
<1>6. ResultInv'
  BY <1>a, ResultStays DEF ResultInv
<1> QED BY <1>1, <1>2, <1>3, <1>4, <1>5, <1>6

(* The destructor changes no client.                                       *)
LEMMA CloseStep ==
    ASSUME QInv, Close
    PROVE  QInv'
<1>1. UNCHANGED seen
  BY DEF Close, locals, seen
<1>2. DOMAIN pc' = DOMAIN pc /\ \A u \in Client : pc'[u] = pc[u]
  BY ThreadsDiffer DEF Close, Goto, QInv, TypeOK
<1> QED BY <1>1, <1>2, QuietStep

-----------------------------------------------------------------------------
LEMMA QInit == Init => QInv
<1> SUFFICES ASSUME Init PROVE QInv
  OBVIOUS
<1>a. /\ \A t \in Client : pc[t] = "idle" /\ calls[t] = 0
      /\ DOMAIN seq = {} /\ writers_ = <<>> /\ DOMAIN writers_ = {}
  BY DEF Init
<1>1. TypeOK
  BY <1>a DEF Init, TypeOK, Labels
<1>2. QueueInv /\ GroupInv /\ LogInv /\ NumberInv /\ ResultInv
  <2>1. QueueInv
    BY <1>a DEF QueueInv, Queued, Leading
  <2>2. GroupInv
    BY <1>a DEF GroupInv, GroupOK, Leading, Alone, Writing
  <2>3. LogInv
    BY <1>a DEF Init, LogInv, WrittenOK, MemtablesAreLogged
  <2>4. NumberInv
    BY <1>a DEF NumberInv
  <2>5. ResultInv
    BY <1>a DEF ResultInv, ResultOK, Waits
  <2> QED BY <2>1, <2>2, <2>3, <2>4, <2>5
<1> QED BY <1>1, <1>2 DEF QInv

(* Every step of a client that is inside a call.                           *)
LEMMA InsideStep ==
    ASSUME QInv, NEW t \in Client, Inside(t)
    PROVE  QInv'
<1>1. CASE QueueWakes(t)
  BY <1>1, QueueWakesStep
<1>2. CASE MakeRoomForWrite(t)
  <2>1. /\ pc[t] = "first" /\ Goto(t, "room") /\ group' = <<t>> /\ updates' = <<>>
        /\ UNCHANGED <<req, calls, done, status, writers_, data>>
    BY <1>2 DEF MakeRoomForWrite
  <2> QED BY <2>1, LeaderStep DEF Alone
<1>3. CASE RoomError(t) \/ RoomNoLog(t)
  <2>1. /\ pc[t] = "room" /\ Goto(t, "finish") /\ Return(t, "error")
        /\ UNCHANGED <<group, updates>> /\ UNCHANGED <<req, calls, done, writers_, data>>
    BY <1>3 DEF RoomError, RoomNoLog, locals
  <2>2. \E s : Return(t, s) /\ s # "ok"
    BY <2>1
  <2> QED BY <2>1, <2>2, LeaderStep DEF Alone
<1>4. CASE RoomFound(t)
  <2> DEFINE l == IF IsNull(t) THEN "finish" ELSE "group"
  <2>1. /\ pc[t] = "room" /\ Goto(t, l) /\ Return(t, "ok")
        /\ UNCHANGED <<group, updates>> /\ UNCHANGED <<req, calls, done, writers_, data>>
    BY <1>4 DEF RoomFound, locals
  <2>2. l \in Alone /\ (l = "finish" => IsNull(t))
    BY DEF Alone
  <2>3. \E s : Return(t, s) /\ (l = "finish" => IsNull(t) \/ s # "ok")
    BY <2>1, <2>2
  <2> HIDE DEF l
  <2> QED BY <2>1, <2>2, <2>3, LeaderStep
<1>5. CASE RoomSleep(t) \/ RoomWait(t) \/ RoomAwake(t)
  <2>1. pc[t] \in {"room", "sleep", "bg_cv"} /\ UNCHANGED seen
    BY <1>5 DEF RoomSleep, RoomWait, RoomAwake, locals, seen
  <2>2. \E l \in {"room", "sleep", "bg_cv"} : Goto(t, l)
    BY <1>5 DEF RoomSleep, RoomWait, RoomAwake
  <2> QED BY <2>1, <2>2, RoomMoves
<1>6. CASE RoomSwitch(t)
  BY <1>6, RoomSwitchStep
<1>7. CASE BuildBatchGroup(t)
  BY <1>7, BuildBatchGroupStep
<1>8. CASE AddRecord(t) \/ Sync(t)
  BY <1>8, LogStep
<1>9. CASE InsertInto(t)
  BY <1>9, InsertIntoStep
<1>10. CASE Finish(t)
  BY <1>10, FinishStep
<1>12. CASE FinishHangs(t)
  <2>1. UNCHANGED <<client, writers_, locals, data>>
    BY <1>12 DEF FinishHangs
  <2> QED BY <2>1, QuietStep DEF client, locals, seen
<1>11. CASE Returned(t) \/ ImmWait(t) \/ ManualWait(t)
  <2>0. pc[t] \in Waits => IsNull(t)
    BY DEF QInv, ResultInv, ResultOK
  <2>1. /\ pc[t] \in Waits \cup {"returned"}
        /\ UNCHANGED <<req, calls, done, writers_, group, updates, data>>
    BY <1>11, ZenonT(60) DEF Returned, ImmWait, ManualWait, locals, Waits
  <2>2. status' = status \/ (IsNull(t) /\ status' = [status EXCEPT ![t] = "error"])
    BY <1>11, <2>0, ZenonT(60) DEF Returned, ImmWait, ManualWait, Return, Waits
  <2>3. \E l \in Waits \cup {"idle"} : Goto(t, l) /\ (l \in Waits => IsNull(t))
    <3>1. CASE Returned(t)
      <4>1. \/ Goto(t, "imm") /\ IsNull(t)
            \/ Goto(t, "manual") /\ req[t].kind = "range"
            \/ Goto(t, "idle")
        BY <3>1, Zenon DEF Returned
      <4> QED BY <4>1 DEF Waits, IsNull
    <3>2. CASE ImmWait(t) \/ ManualWait(t)
      <4>1. IsNull(t)
        BY <2>0, <3>2, ZenonT(60) DEF ImmWait, ManualWait, Waits
      <4> QED BY <3>2, <4>1, Zenon DEF ImmWait, ManualWait, Waits
    <3> QED BY <1>11, <3>1, <3>2
  <2> QED BY <2>1, <2>2, <2>3, AfterWrite
<1> QED BY <1>1, <1>2, <1>3, <1>4, <1>5, <1>6, <1>7, <1>8, <1>9, <1>10, <1>11, <1>12 DEF Inside

LEMMA QNext == QInv /\ [Next]_vars => QInv'
<1> SUFFICES ASSUME QInv, [Next]_vars PROVE QInv'
  OBVIOUS
<1>1. ASSUME NEW t \in Client, Inside(t) PROVE QInv'
  BY <1>1, InsideStep
<1>2. ASSUME NEW t \in Client, NEW r \in Requests, Write(t, r) PROVE QInv'
  BY <1>2, WriteStep
<1>3. CASE Close
  BY <1>3, CloseStep
<1>4. CASE CompactMemTable
  BY <1>4, CompactMemTableStep
<1>5. CASE Background /\ ~ CompactMemTable
  <2>1. UNCHANGED <<client, writers_, locals, data>>
    BY <1>5, ZenonT(60) DEF Background, BackgroundCall, WriteLevel0Table, PrioritizeImm,
                BackgroundCompaction, ManualCompaction, BackgroundEnd
  <2> QED BY <2>1, QuietStep DEF client, locals, seen
<1>6. CASE UNCHANGED vars
  BY <1>6, QuietStep DEF vars, client, locals, seen
<1> QED BY <1>1, <1>2, <1>3, <1>4, <1>5, <1>6 DEF Next

(* DBImpl::Write: for any clients, requests, limits and failing file       *)
(* operations, what the memtables hold is in the logs that Recover would   *)
(* read, and every write that returned OK is stored once, under a number   *)
(* of its own that readers see, and on disk if its caller asked for that.  *)
THEOREM WritesSafe == Spec => []WritesAreSafe
<1>1. QInv => WritesAreSafe
  <2> SUFFICES ASSUME QInv PROVE WritesAreSafe
    OBVIOUS
  <2>1. \A t \in Client : Over(t) => Right(t) /\ status[t] = "ok"
    BY DEF QInv, ResultInv, ResultOK, Over
  <2>2. WrittenOnce
    BY <2>1 DEF WrittenOnce, Right, QInv, NumberInv
  <2>3. SyncedIsOnDisk
    BY <2>1 DEF SyncedIsOnDisk, Right
  <2> QED BY <2>2, <2>3 DEF WritesAreSafe, QInv, LogInv
<1>2. QInv /\ [Next]_vars => QInv'
  BY QNext
<1> QED BY <1>1, <1>2, QInit, PTL DEF Spec
=============================================================================
