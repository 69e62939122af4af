---------------------------- MODULE WriteQueue ----------------------------
(***************************************************************************)
(* LevelDB's DBImpl::Write and what it waits for: the queue of writers, of *)
(* which the first writes for a group of them; the room in the memtable;   *)
(* the background thread that empties the full one and compacts; and the   *)
(* calls that wait for the background thread, CompactRange and the         *)
(* destructor.                                                             *)
(*                                                                         *)
(* A condition variable is the set of threads that were signalled: a       *)
(* signal for a thread that does not wait is lost. SignalAll of the        *)
(* Windows port, for which two or more threads wait, never returns (see    *)
(* CondVar): it keeps the mutex.                                           *)
(***************************************************************************)
EXTENDS Integers, Sequences, FiniteSets, Functions

CONSTANTS
    Client,             \* the threads that use the database
    Requests,           \* what they ask for: [kind, sync, size]
    MaxCalls,           \* bound: calls of one client
    MaxFaults,          \* bound: failing file operations
    MaxParts,           \* bound: compactions that a range takes
    Small, MaxSize,     \* 128 KB and 1 MB, in units of the sizes of Requests
    write_buffer_size,  \* how many batches fill a memtable
    L0_CompactionTrigger, L0_SlowdownWritesTrigger, L0_StopWritesTrigger

VARIABLES
    pc, req, calls, done, status,    \* each client: its step, its Writer
    mutex_, writers_, signaled,
    allow_delay, force,              \* locals of MakeRoomForWrite
    group, updates, sync_error,      \* locals of Write
    mem_, imm_, has_imm_, tables,    \* the batches in each
    log, oldlogs, synced,            \* the batches in the log files, those on disk
    seq, last_sequence,              \* the number of each batch, the last visible one
    l0, bg_error_, scheduled,
    bg, back, inputs,                \* the background thread: step, return, inputs
    manual_, left,                   \* manual_compaction_; what is left of a range
    shutting_down_, faults

client == <<pc, req, calls, done, status>>
locals == <<allow_delay, force, group, updates, sync_error>>
data == <<mem_, imm_, has_imm_, tables, log, oldlogs, synced, seq, last_sequence>>
work == <<l0, scheduled, bg, back, inputs>>
manual == <<manual_, left>>
vars == <<client, mutex_, writers_, signaled, locals, data, work, bg_error_, manual,
          shutting_down_, faults>>

Nobody == "nobody"
Stuck == "stuck"                \* the holder of mutex_ never returns from SignalAll
Closer == "closer"
\* The thread of the destructor is no client.
ASSUME ThreadsDiffer == Closer \notin Client

Thread == "background"
Batch(t) == <<t, calls[t]>>
IsNull(t) == req[t].kind # "batch"
First == writers_[1]

Init ==
    /\ pc = [t \in Client \cup {Closer} |-> "idle"]
    /\ req = [t \in Client |-> CHOOSE r \in Requests : TRUE]
    /\ calls = [t \in Client |-> 0]
    /\ done = [t \in Client |-> FALSE] /\ status = [t \in Client |-> "ok"]
    /\ mutex_ = Nobody /\ writers_ = <<>> /\ signaled = {}
    /\ allow_delay = FALSE /\ force = FALSE /\ group = <<>> /\ updates = <<>> /\ sync_error = FALSE
    /\ mem_ = {} /\ imm_ = {} /\ has_imm_ = FALSE /\ tables = {}
    /\ log = {} /\ oldlogs = {} /\ synced = {}
    /\ seq = <<>> /\ last_sequence = 0
    /\ l0 = 0 /\ scheduled = FALSE /\ bg = "none" /\ back = "end" /\ inputs = 0
    /\ bg_error_ = FALSE /\ manual_ = Nobody /\ left = [t \in Client |-> 0]
    /\ shutting_down_ = FALSE /\ faults = 0

Lock(t) == mutex_ = Nobody /\ mutex_' = t
Hold(t) == mutex_ = t /\ UNCHANGED mutex_
Release(t) == mutex_ = t /\ mutex_' = Nobody
\* Lock, look and unlock again.
Peek == mutex_ = Nobody /\ UNCHANGED mutex_

Goto(t, label) == pc' = [pc EXCEPT ![t] = label]
Return(t, s) == status' = [status EXCEPT ![t] = s]

\* A file operation that may fail.
Ok == UNCHANGED faults
Fails == faults < MaxFaults /\ faults' = faults + 1

OnBgCv == {t \in DOMAIN pc : pc[t] \in {"bg_cv", "imm_cv", "manual_cv", "closing"}}
Hangs == Cardinality(OnBgCv \ signaled) > 1
\* bg_cv_.SignalAll(), by a thread that holds the mutex and leaves it to m afterwards. When it
\* hangs, the thread that it wakes cannot lock the mutex again.
SignalBgCv(m) ==
    IF Hangs THEN mutex_' = Stuck /\ UNCHANGED signaled
    ELSE mutex_' = m /\ signaled' = signaled \cup OnBgCv

\* MaybeScheduleCompaction, for the values that the caller leaves behind.
MaybeScheduleCompaction(sched, error, imm, files, m) ==
    sched \/ (~ shutting_down_ /\ ~ error
              /\ (imm \/ files >= L0_CompactionTrigger \/ m # Nobody))

-----------------------------------------------------------------------------
(* Write: a client joins the queue and waits until it is done or first.    *)
(* CompactRange begins with Write(NULL).                                   *)
Write(t, r) ==
    /\ pc[t] = "idle" /\ calls[t] < MaxCalls /\ ~ shutting_down_
    /\ IF writers_ = <<>> THEN Lock(t) ELSE Peek
    /\ calls' = [calls EXCEPT ![t] = @ + 1]
    /\ req' = [req EXCEPT ![t] = r]
    /\ done' = [done EXCEPT ![t] = FALSE]
    /\ writers_' = Append(writers_, t)
    /\ Goto(t, IF writers_ = <<>> THEN "first" ELSE "queue")
    /\ UNCHANGED <<status, signaled, locals, data, work, bg_error_, manual,
                   shutting_down_, faults>>

QueueWakes(t) ==
    /\ pc[t] = "queue" /\ t \in signaled
    /\ IF ~ done[t] /\ First = t THEN Lock(t) ELSE Peek
    /\ signaled' = signaled \ {t}
    /\ Goto(t, IF done[t] THEN "returned" ELSE IF First = t THEN "first" ELSE "queue")
    /\ UNCHANGED <<req, calls, done, status, writers_, locals, data, work, bg_error_,
                   manual, shutting_down_, faults>>

(* MakeRoomForWrite and the branches of its loop.                          *)
MakeRoomForWrite(t) ==
    /\ pc[t] = "first" /\ Hold(t)
    /\ force' = IsNull(t) /\ allow_delay' = ~ IsNull(t)
    /\ sync_error' = FALSE /\ group' = <<t>> /\ updates' = <<>>
    /\ Goto(t, "room")
    /\ UNCHANGED <<req, calls, done, status, writers_, signaled, data, work, bg_error_,
                   manual, shutting_down_, faults>>

Slow == allow_delay /\ l0 >= L0_SlowdownWritesTrigger
HasRoom == ~ force /\ Cardinality(mem_) < write_buffer_size
CanSwitch == ~ has_imm_ /\ l0 < L0_StopWritesTrigger

RoomError(t) ==
    /\ pc[t] = "room" /\ Hold(t) /\ bg_error_
    /\ Return(t, "error") /\ Goto(t, "finish")
    /\ UNCHANGED <<req, calls, done, writers_, signaled, locals, data, work, bg_error_,
                   manual, shutting_down_, faults>>
RoomSleep(t) ==
    /\ pc[t] = "room" /\ Release(t) /\ ~ bg_error_ /\ Slow
    /\ allow_delay' = FALSE
    /\ Goto(t, "sleep")
    /\ UNCHANGED <<req, calls, done, status, writers_, signaled, force, group, updates, sync_error,
                   data, work, bg_error_, manual, shutting_down_, faults>>
RoomAwake(t) ==
    /\ \/ pc[t] = "sleep" /\ UNCHANGED signaled
       \/ pc[t] = "bg_cv" /\ t \in signaled /\ signaled' = signaled \ {t}
    /\ Lock(t)
    /\ Goto(t, "room")
    /\ UNCHANGED <<req, calls, done, status, writers_, locals, data, work, bg_error_,
                   manual, shutting_down_, faults>>
RoomFound(t) ==
    /\ pc[t] = "room" /\ Hold(t) /\ ~ bg_error_ /\ ~ Slow /\ HasRoom
    /\ Return(t, "ok")
    /\ Goto(t, IF IsNull(t) THEN "finish" ELSE "group")
    /\ UNCHANGED <<req, calls, done, writers_, signaled, locals, data, work, bg_error_,
                   manual, shutting_down_, faults>>
RoomWait(t) ==
    /\ pc[t] = "room" /\ Release(t) /\ ~ bg_error_ /\ ~ Slow /\ ~ HasRoom /\ ~ CanSwitch
    /\ Goto(t, "bg_cv")
    /\ UNCHANGED <<req, calls, done, status, writers_, signaled, locals, data, work,
                   bg_error_, manual, shutting_down_, faults>>
RoomSwitch(t) ==
    /\ pc[t] = "room" /\ Hold(t) /\ ~ bg_error_ /\ ~ Slow /\ ~ HasRoom /\ CanSwitch
    /\ Ok
    /\ imm_' = mem_ /\ has_imm_' = TRUE /\ mem_' = {}
    /\ oldlogs' = oldlogs \cup log /\ log' = {}
    /\ force' = FALSE
    /\ scheduled' = MaybeScheduleCompaction(scheduled, FALSE, TRUE, l0, manual_)
    /\ UNCHANGED <<client, writers_, signaled, allow_delay, group, updates, sync_error, tables,
                   synced, seq, last_sequence, l0, bg, back, inputs, bg_error_, manual,
                   shutting_down_>>
RoomNoLog(t) ==
    /\ pc[t] = "room" /\ Hold(t) /\ ~ bg_error_ /\ ~ Slow /\ ~ HasRoom /\ CanSwitch
    /\ Fails
    /\ Return(t, "error") /\ Goto(t, "finish")
    /\ UNCHANGED <<req, calls, done, writers_, signaled, locals, data, work, bg_error_,
                   manual, shutting_down_>>

-----------------------------------------------------------------------------
(* BuildBatchGroup: the longest prefix of the queue in which every writer  *)
(* joins. The size counts up to each of them.                              *)
SizeUpTo(n) ==
    SumFunction([k \in 1..n |-> IF IsNull(writers_[k]) THEN 0 ELSE req[writers_[k]].size])
Limit == IF req[First].size <= Small THEN req[First].size + Small ELSE MaxSize

Joins(n) ==
    /\ ~ (req[writers_[n]].sync /\ ~ req[First].sync)
    /\ IsNull(writers_[n]) \/ SizeUpTo(n) <= Limit
IsGroupSize(n) == /\ \A k \in 2..n : Joins(k)
                  /\ n < Len(writers_) => ~ Joins(n + 1)

Batches(ts) == {Batch(ts[k]) : k \in {k \in DOMAIN ts : ~ IsNull(ts[k])}}
\* The one sequence of these batches that has them in the order of the queue.
InOrder(ts) ==
    {us \in UNION {[1..n -> Batches(ts)] : n \in 0..Len(ts)} :
        /\ Range(us) = Batches(ts)
        /\ \A p, q \in DOMAIN us : p < q =>
              \E i, j \in DOMAIN ts : i < j /\ us[p] = Batch(ts[i]) /\ us[q] = Batch(ts[j])}

BuildBatchGroup(t) ==
    /\ pc[t] = "group" /\ Release(t)
    /\ \E n \in 1..Len(writers_) : IsGroupSize(n) /\ group' = SubSeq(writers_, 1, n)
    /\ updates' \in InOrder(group')
    /\ Goto(t, "log")
    /\ UNCHANGED <<req, calls, done, status, writers_, signaled, allow_delay, force,
                   sync_error, data, work, bg_error_, manual, shutting_down_, faults>>

(* Without the mutex: AddRecord, Sync and InsertInto. A failed AddRecord   *)
(* may have written the record or not.                                     *)
AddRecord(t) ==
    /\ pc[t] = "log" /\ UNCHANGED mutex_
    /\ \/ Ok /\ log' = log \cup Range(updates)
          /\ Goto(t, IF req[t].sync THEN "sync" ELSE "insert") /\ UNCHANGED status
       \/ Fails /\ log' \in {log, log \cup Range(updates)}
          /\ Goto(t, "relock") /\ Return(t, "error")
    /\ UNCHANGED <<req, calls, done, writers_, signaled, locals, mem_, imm_, has_imm_,
                   tables, oldlogs, synced, seq, last_sequence, work, bg_error_, manual,
                   shutting_down_>>
Sync(t) ==
    /\ pc[t] = "sync" /\ UNCHANGED mutex_
    /\ \/ Ok /\ synced' = synced \cup log /\ Goto(t, "insert")
          /\ UNCHANGED <<status, sync_error>>
       \/ Fails /\ sync_error' = TRUE /\ Goto(t, "relock") /\ Return(t, "error")
          /\ UNCHANGED synced
    /\ UNCHANGED <<req, calls, done, writers_, signaled, allow_delay, force, group, updates,
                   mem_, imm_, has_imm_, tables, log, oldlogs, seq, last_sequence, work,
                   bg_error_, manual, shutting_down_>>
\* SetSequence gives the first batch of the group the next number.
\* [Mutant: all get the number of the group.]
Number_Mutant(b) == last_sequence + 1
Number(b) == last_sequence + (CHOOSE k \in DOMAIN updates : updates[k] = b)
InsertInto(t) ==
    /\ pc[t] = "insert" /\ UNCHANGED mutex_
    /\ mem_' = mem_ \cup Range(updates)
    /\ seq' = [b \in DOMAIN seq \cup Range(updates) |->
                  IF b \in Range(updates) THEN Number(b) ELSE seq[b]]
    /\ Goto(t, "relock")
    /\ UNCHANGED <<req, calls, done, status, writers_, signaled, locals, imm_, has_imm_,
                   tables, log, oldlogs, synced, last_sequence, work, bg_error_, manual,
                   shutting_down_, faults>>

(* The end of Write: the members of the group are done, the next writer is *)
(* first. [Mutant: the next writer is not notified.]                       *)
ToSignal_Mutant(ts) == Range(Tail(ts))
ToSignal(ts) ==
    Range(Tail(ts)) \cup (IF Len(writers_) > Len(ts) THEN {writers_[Len(ts) + 1]} ELSE {})

NewError == sync_error /\ ~ bg_error_
Finish(t) ==
    /\ \/ pc[t] = "relock" /\ Peek
       \/ pc[t] = "finish" /\ Release(t)
    /\ ~ (NewError /\ Hangs)
    /\ LET others == Range(Tail(group))
       IN /\ status' = [x \in Client |-> IF x \in others THEN status[t] ELSE status[x]]
          /\ done' = [x \in Client |-> done[x] \/ x \in others]
    /\ last_sequence' = last_sequence + Len(updates)
    /\ bg_error_' = (bg_error_ \/ sync_error)
    /\ signaled' = signaled \cup {x \in ToSignal(group) : pc[x] = "queue"}
                            \cup (IF NewError THEN OnBgCv ELSE {})
    /\ writers_' = SubSeq(writers_, Len(group) + 1, Len(writers_))
    /\ group' = <<>> /\ updates' = <<>>
    /\ Goto(t, "returned")
    /\ UNCHANGED <<req, calls, allow_delay, force, sync_error, mem_, imm_, has_imm_, tables,
                   log, oldlogs, synced, seq, work, manual, shutting_down_, faults>>
\* RecordBackgroundError comes first, and does not return.
FinishHangs(t) ==
    /\ pc[t] = "relock" /\ mutex_ = Nobody /\ NewError /\ Hangs
    /\ bg_error_' = TRUE /\ SignalBgCv(Nobody)
    /\ UNCHANGED <<client, writers_, locals, data, work, manual, shutting_down_, faults>>

-----------------------------------------------------------------------------
(* What follows Write: a plain write returns. TEST_CompactMemTable waits   *)
(* until imm_ is gone; TEST_CompactRange, which ignores whether that       *)
(* succeeded, until the background thread has compacted the range.         *)
Returned(t) ==
    /\ pc[t] = "returned"
    /\ left' = [left EXCEPT ![t] = MaxParts]
    /\ Goto(t, IF IsNull(t) /\ status[t] = "ok" THEN "imm"
               ELSE IF req[t].kind = "range" THEN "manual" ELSE "idle")
    /\ UNCHANGED <<req, calls, done, status, mutex_, writers_, signaled, locals,
                   data, work, bg_error_, manual_, shutting_down_, faults>>

ImmWait(t) ==
    /\ \/ pc[t] = "imm" /\ UNCHANGED signaled
       \/ pc[t] = "imm_cv" /\ t \in signaled /\ signaled' = signaled \ {t}
    /\ Peek
    /\ IF has_imm_ /\ ~ bg_error_ THEN Goto(t, "imm_cv") /\ UNCHANGED status
       ELSE /\ IF has_imm_ THEN Return(t, "error") ELSE UNCHANGED status
            /\ Goto(t, IF req[t].kind = "range" THEN "manual" ELSE "idle")
    /\ UNCHANGED <<req, calls, done, writers_, locals, data, work, bg_error_,
                   manual, shutting_down_, faults>>

\* left[t] < 0 is manual.done.
ManualWait(t) ==
    /\ \/ pc[t] = "manual" /\ UNCHANGED signaled
       \/ pc[t] = "manual_cv" /\ t \in signaled /\ signaled' = signaled \ {t}
    /\ Peek
    /\ IF left[t] < 0 \/ shutting_down_ \/ bg_error_
         THEN /\ manual_' = IF manual_ = t THEN Nobody ELSE manual_
              /\ Goto(t, "idle") /\ UNCHANGED scheduled
         ELSE /\ manual_' = IF manual_ = Nobody THEN t ELSE manual_
              /\ scheduled' = IF manual_ = Nobody
                              THEN MaybeScheduleCompaction(scheduled, FALSE, has_imm_, l0, t)
                              ELSE scheduled
              /\ Goto(t, "manual_cv")
    /\ UNCHANGED <<req, calls, done, status, writers_, locals, data, l0, bg, back,
                   inputs, bg_error_, left, shutting_down_, faults>>

-----------------------------------------------------------------------------
(* The background thread: BackgroundCall and BackgroundCompaction. The     *)
(* inputs of a compaction are one or more of the files of level 0, those   *)
(* of a range perhaps files of other levels. A range with nothing left is  *)
(* done.                                                                   *)
Idle == shutting_down_ \/ bg_error_
BackgroundCall ==
    /\ scheduled /\ bg = "none"
    /\ \/ /\ Idle \/ (~ has_imm_ /\ manual_ = Nobody /\ l0 < L0_CompactionTrigger)
          /\ bg' = "end" /\ Lock(Thread) /\ UNCHANGED <<manual, inputs>>
       \/ /\ ~ Idle /\ has_imm_
          /\ bg' = "flush" /\ Peek /\ UNCHANGED <<manual, inputs>>
       \/ /\ ~ Idle /\ ~ has_imm_ /\ manual_ # Nobody /\ left[manual_] = 0
          /\ left' = [left EXCEPT ![manual_] = -1] /\ manual_' = Nobody
          /\ bg' = "end" /\ Lock(Thread) /\ UNCHANGED inputs
       \/ /\ ~ Idle /\ ~ has_imm_ /\ manual_ # Nobody /\ left[manual_] > 0
          /\ inputs' \in 0..l0
          /\ bg' = "manual" /\ Peek /\ UNCHANGED manual
       \/ /\ ~ Idle /\ ~ has_imm_ /\ manual_ = Nobody /\ l0 >= L0_CompactionTrigger
          /\ inputs' \in 1..l0
          /\ bg' = "compact" /\ Peek /\ UNCHANGED manual
    /\ back' = "end"
    /\ UNCHANGED <<client, writers_, signaled, locals, data, l0, scheduled, bg_error_,
                   shutting_down_, faults>>

RecordBackgroundError(m) ==
    /\ bg_error_' = TRUE
    /\ IF bg_error_ THEN mutex_' = m /\ UNCHANGED signaled ELSE SignalBgCv(m)

(* CompactMemTable: WriteLevel0Table and LogAndApply, both without the     *)
(* mutex, then the commit. A memtable without entries adds no file; a file *)
(* may go to a level above 0. It is called by BackgroundCompaction, or by  *)
(* DoCompactionWork, which signals after it.                               *)
LeaveFlush(failed) ==
    LET m == IF back = "end" THEN Thread ELSE Nobody
    IN /\ mutex_ = Nobody /\ bg' = back
       /\ IF back # "end" \/ (failed /\ ~ bg_error_) THEN SignalBgCv(m)
          ELSE mutex_' = m /\ UNCHANGED signaled

WriteLevel0Table ==
    /\ bg = "flush"
    /\ \/ /\ Ok /\ ~ shutting_down_
          /\ bg' = "install" /\ Peek /\ UNCHANGED <<bg_error_, signaled>>
       \/ /\ Fails \/ (Ok /\ shutting_down_)
          /\ bg_error_' = TRUE /\ LeaveFlush(TRUE)
    /\ UNCHANGED <<client, writers_, locals, data, l0, scheduled, back, inputs, manual,
                   shutting_down_>>

\* The log files that DeleteObsoleteFiles leaves behind imm_'s table.
KeptLogs(installed) == IF installed /\ ~ bg_error_ THEN {} ELSE oldlogs
CompactMemTable ==
    /\ bg = "install"
    /\ \/ /\ Ok
          /\ tables' = tables \cup imm_
          /\ imm_' = {} /\ has_imm_' = FALSE
          /\ oldlogs' = KeptLogs(TRUE)
          /\ l0' \in (IF imm_ = {} THEN {l0} ELSE {l0, l0 + 1})
          /\ LeaveFlush(FALSE) /\ UNCHANGED bg_error_
       \/ /\ Fails
          /\ bg_error_' = TRUE /\ LeaveFlush(TRUE)
          /\ oldlogs' = KeptLogs(FALSE)
          /\ UNCHANGED <<tables, imm_, has_imm_, l0>>
    /\ UNCHANGED <<client, writers_, locals, mem_, log, synced, seq, last_sequence,
                   scheduled, back, inputs, manual, shutting_down_>>

(* DoCompactionWork: a memtable that fills up meanwhile goes first.        *)
PrioritizeImm ==
    /\ bg \in {"compact", "manual"} /\ has_imm_ /\ ~ shutting_down_ /\ Peek
    /\ bg' = "flush" /\ back' = bg
    /\ UNCHANGED <<client, writers_, signaled, locals, data, l0, scheduled, inputs,
                   bg_error_, manual, shutting_down_, faults>>
DoCompactionWork(ok) ==
    /\ mutex_ = Nobody
    /\ IF ok THEN l0' = l0 - inputs /\ mutex_' = Thread /\ UNCHANGED <<bg_error_, signaled>>
       ELSE RecordBackgroundError(Thread) /\ UNCHANGED l0
Outcome(ok) == IF ok THEN Ok /\ ~ shutting_down_ ELSE Fails \/ (Ok /\ shutting_down_)
BackgroundCompaction ==
    /\ bg = "compact"
    /\ \E ok \in BOOLEAN : Outcome(ok) /\ DoCompactionWork(ok)
    /\ bg' = "end"
    /\ UNCHANGED <<client, writers_, locals, data, scheduled, back, inputs, manual,
                   shutting_down_>>

(* BackgroundCompaction for a range reads manual_compaction_ again when    *)
(* the work is done, and goes through the pointer.                         *)
ManualCompaction ==
    /\ bg = "manual"
    /\ \E ok \in BOOLEAN :
          /\ Outcome(ok) /\ DoCompactionWork(ok)
          /\ IF mutex_' = Stuck THEN UNCHANGED <<bg, manual>>
             ELSE IF manual_ = Nobody THEN bg' = "crashed" /\ UNCHANGED manual
             ELSE /\ left' = [left EXCEPT ![manual_] = IF ok THEN @ - 1 ELSE -1]
                  /\ bg' = "end" /\ manual_' = Nobody
    /\ UNCHANGED <<client, writers_, locals, data, scheduled, back, inputs, shutting_down_>>

BackgroundEnd ==
    /\ bg = "end" /\ mutex_ = Thread
    /\ bg' = "none"
    /\ scheduled' = MaybeScheduleCompaction(FALSE, bg_error_, has_imm_, l0, manual_)
    /\ SignalBgCv(Nobody)
    /\ UNCHANGED <<client, writers_, locals, data, l0, back, inputs, bg_error_, manual,
                   shutting_down_, faults>>

(* The destructor, called when no client is inside a call.                 *)
Close ==
    /\ \/ /\ \A t \in DOMAIN pc : pc[t] = "idle"
          /\ UNCHANGED signaled
       \/ pc[Closer] = "closing" /\ Closer \in signaled /\ signaled' = signaled \ {Closer}
    /\ Peek
    /\ shutting_down_' = TRUE
    /\ Goto(Closer, IF scheduled THEN "closing" ELSE "closed")
    /\ UNCHANGED <<req, calls, done, status, writers_, locals, data, work,
                   bg_error_, manual, faults>>

-----------------------------------------------------------------------------
Inside(t) ==
    \/ QueueWakes(t) \/ MakeRoomForWrite(t)
    \/ RoomError(t) \/ RoomSleep(t) \/ RoomAwake(t) \/ RoomFound(t) \/ RoomWait(t)
    \/ RoomSwitch(t) \/ RoomNoLog(t)
    \/ BuildBatchGroup(t) \/ AddRecord(t) \/ Sync(t) \/ InsertInto(t) \/ Finish(t)
    \/ FinishHangs(t) \/ Returned(t) \/ ImmWait(t) \/ ManualWait(t)
Background == \/ BackgroundCall \/ WriteLevel0Table \/ CompactMemTable
              \/ PrioritizeImm \/ BackgroundCompaction \/ ManualCompaction
              \/ BackgroundEnd

Next == \/ \E t \in Client : Inside(t) \/ \E r \in Requests : Write(t, r)
        \/ Background \/ Close

Spec == Init /\ [][Next]_vars

\* Every thread that can go on does so.
FairSpec == /\ Spec /\ WF_vars(Background) /\ WF_vars(Close)
            /\ \A t \in Client : WF_vars(Inside(t))

-----------------------------------------------------------------------------
Over(t) == pc[t] \in {"returned", "idle"} /\ calls[t] > 0 /\ status[t] = "ok"

(* Write-ahead: what is in a memtable is in a log file that Recover would  *)
(* read, through memtable switches, failing writes and the deletion of the *)
(* logs behind an installed table.                                         *)
MemtablesAreLogged == mem_ \subseteq log /\ imm_ \subseteq oldlogs

(* A write that returned OK, though another thread may have written it as  *)
(* a member of its group, is in a memtable or a table, with a number that  *)
(* no other write has and that readers see.                                *)
WrittenOnce ==
    /\ \A t \in Client : Over(t) /\ ~ IsNull(t) =>
          /\ Batch(t) \in mem_ \cup imm_ \cup tables
          /\ seq[Batch(t)] <= last_sequence
    /\ \A b, c \in DOMAIN seq : b # c => seq[b] # seq[c]

(* A sync write that returned OK is on disk, whoever wrote it.             *)
SyncedIsOnDisk ==
    \A t \in Client : Over(t) /\ ~ IsNull(t) /\ req[t].sync => Batch(t) \in synced \cup tables

(* What LevelDB promises of a write, to its caller and across a crash.     *)
WritesAreSafe == MemtablesAreLogged /\ WrittenOnce /\ SyncedIsOnDisk

(* Every call returns, unless SignalAll was called for two threads: no     *)
(* wake-up is lost on the way through the queue, the full memtable, the    *)
(* limits of level 0 and the errors.                                       *)
CallsReturn == \A t \in Client : pc[t] # "idle" ~> pc[t] = "idle" \/ mutex_ = Stuck

(* The destructor returns: a background thread that is at work ends.       *)
Closes == shutting_down_ ~> pc[Closer] = "closed"
=============================================================================
