------------------------------ MODULE Recovery ------------------------------
(***************************************************************************)
(* A LevelDB database on disk and the process that uses it: DB::Open with  *)
(* the recovery of the manifest and the logs, writes, memtable flushes,    *)
(* compactions, the deletion of obsolete files, and the process being      *)
(* killed between any two of their steps.                                  *)
(*                                                                         *)
(* What was written to a file survives a kill. The levels of the tables    *)
(* are left out: the newest entry of a key is the one with the largest     *)
(* sequence number.                                                        *)
(***************************************************************************)
EXTENDS Integers, Sequences, SequencesExt, FiniteSets, FiniteSetsExt, Functions

CONSTANTS
    Key,
    MaxWrites,          \* bound: writes
    MaxCompactions,     \* bound: compactions
    MaxKills,           \* bound: kills of the process
    MaxFaults,          \* bound: failing file operations
    Failing,            \* which operations may fail: see Fails
    KillInRename,       \* may a kill fall between the two halves of RenameFile?
    write_buffer_size   \* entries that fill a memtable

VARIABLES
    logs, manifests, tables, temp, current,             \* the directory
    next_file_number_, manifest_file_number_, log_number_, last_sequence_,
    files, pending_outputs_,                            \* current_; numbers in use
    mem_, imm_, logfile_number_, bg_error_,
    fg, newdb, todo, pos, mem, max_sequence, status,    \* Open and its locals
    edit,                                               \* the edit being applied
    bg, meta, out, inputs,                              \* the background thread
    cleaning,                                           \* DeleteObsoleteFiles at work
    issued, compactions, kills, faults          \* history and bounds

disk == <<logs, manifests, tables, temp, current>>
numbers == <<next_file_number_, manifest_file_number_, log_number_, last_sequence_>>
version == <<files, pending_outputs_>>
memory == <<mem_, imm_, logfile_number_, bg_error_>>
open == <<newdb, todo, pos, mem, max_sequence, status>>
back == <<bg, meta, out, inputs>>
bounds == <<issued, compactions, kills, faults>>
vars == <<disk, numbers, version, memory, fg, open, edit, back, cleaning, bounds>>

Absent == -1            \* a field that an edit does not set
NoMem == {}             \* imm_ == NULL: a full memtable is not empty
None == 0
NoEdit == [log |-> Absent, next |-> Absent, last |-> Absent, new |-> {}, del |-> {}]

Init ==
    /\ logs = <<>> /\ manifests = <<>> /\ tables = <<>> /\ temp = {} /\ current = None
    /\ next_file_number_ = 0 /\ manifest_file_number_ = 0
    /\ log_number_ = 0 /\ last_sequence_ = 0
    /\ files = {} /\ pending_outputs_ = {}
    /\ mem_ = {} /\ imm_ = NoMem /\ logfile_number_ = 0 /\ bg_error_ = FALSE
    /\ fg = "closed" /\ newdb = FALSE /\ todo = <<>> /\ pos = 0 /\ mem = {}
    /\ max_sequence = 0 /\ status = "ok" /\ edit = NoEdit
    /\ bg = "idle" /\ meta = None /\ out = None /\ inputs = {}
    /\ cleaning = FALSE
    /\ issued = 0 /\ compactions = 0 /\ kills = 0 /\ faults = 0

Ok == UNCHANGED faults
Fails(operation) ==
    /\ operation \in Failing /\ faults < MaxFaults
    /\ faults' = faults + 1

Without(f, n) == Restrict(f, DOMAIN f \ {n})
With(f, n, x) == [m \in DOMAIN f \cup {n} |-> IF m = n THEN x ELSE f[m]]

-----------------------------------------------------------------------------
(* The contents of the directory. A manifest is what its records add up    *)
(* to; the entries of tables and logs are kept.                            *)
Later(field, old) == IF field = Absent THEN old ELSE field
Apply(v, e) == [files |-> (v.files \ e.del) \cup e.new,
                log   |-> Later(e.log, v.log),
                next  |-> Later(e.next, v.next),
                last  |-> Later(e.last, v.last)]

\* The newest entry of each key.
NewestOf(entries) ==
    {e \in entries : \A f \in entries : f.key = e.key => f.seq <= e.seq}
InTables(ns) == UNION {tables[n] : n \in ns \cap DOMAIN tables}
InLogs(first) == UNION {ToSet(logs[n]) : n \in {n \in DOMAIN logs : n >= first}}

\* [Mutant: the log named by the manifest was flushed.]
ToRecover_Mutant(first) == SetToSortSeq({n \in DOMAIN logs : n > first}, <)
ToRecover(first) == SetToSortSeq({n \in DOMAIN logs : n >= first}, <)

-----------------------------------------------------------------------------
(* DB::Open.                                                               *)
Goto(label) == fg' = label
Fresh ==        \* a new DBImpl
    /\ mem_' = {} /\ imm_' = NoMem /\ logfile_number_' = 0 /\ bg_error_' = FALSE
    /\ files' = {} /\ pending_outputs_' = {}
    /\ next_file_number_' = 0 /\ manifest_file_number_' = 0
    /\ log_number_' = 0 /\ last_sequence_' = 0
    /\ newdb' = FALSE /\ todo' = <<>> /\ pos' = 0 /\ mem' = {} /\ max_sequence' = 0
    /\ status' = "ok" /\ edit' = NoEdit
    /\ bg' = "idle" /\ meta' = None /\ out' = None /\ inputs' = {}
    /\ cleaning' = FALSE

Open ==
    /\ fg = "closed"
    /\ Goto(IF current = None THEN "newdb" ELSE "recover")
    /\ UNCHANGED <<disk, numbers, version, memory, open, edit, back, cleaning, issued, compactions,
                   kills, faults>>

NewDB ==
    /\ fg = "newdb"
    /\ manifests' = With(manifests, 1,
                         [files |-> {}, log |-> 0, next |-> 2, last |-> 0])
    /\ manifest_file_number_' = 1 /\ newdb' = TRUE
    /\ Goto("temp")
    /\ UNCHANGED <<logs, tables, temp, current, next_file_number_, log_number_,
                   last_sequence_, version, memory, todo, pos, mem, max_sequence, status,
                   edit, back, cleaning, bounds>>

(* SetCurrentFile and RenameFile: MoveFile fails when the target exists;   *)
(* then it is deleted, and MoveFile called again. Another error of the     *)
(* first MoveFile is returned as OK.                                       *)
WriteTemp ==
    /\ fg = "temp"
    /\ temp' = temp \cup {manifest_file_number_}
    /\ Goto("move")
    /\ UNCHANGED <<logs, manifests, tables, current, numbers, version, memory, open, edit,
                   back, cleaning, bounds>>
Renamed == Goto(IF newdb THEN "recover" ELSE "installed")
MoveFile ==
    /\ fg \in {"move", "again"} /\ current = None
    /\ Ok
    /\ current' = manifest_file_number_ /\ temp' = temp \ {manifest_file_number_}
    /\ Renamed
    /\ UNCHANGED <<logs, manifests, tables, numbers, version, memory, open, edit, back,
                   cleaning, issued, compactions, kills>>
DeleteTarget ==
    /\ fg = "move" /\ current # None
    /\ current' = None
    /\ Goto("again")
    /\ UNCHANGED <<logs, manifests, tables, temp, numbers, version, memory, open, edit,
                   back, cleaning, bounds>>
MoveFails ==
    /\ fg = "move" /\ Fails("rename")
    /\ Renamed
    /\ UNCHANGED <<disk, numbers, version, memory, open, edit, back, cleaning, issued, compactions,
                   kills>>

OpenFails == Goto("closed") /\ Fresh /\ UNCHANGED bounds

\* VersionSet::Recover, and the check that no table is missing.
\* [Mutant: the numbers go on after the log, wherever the manifest had got to.]
NextNumber_Mutant(v) == v.log + 1
NextNumber(v) == v.next + 1
Missing(v) == v.files \ (DOMAIN tables \cup DOMAIN logs \cup DOMAIN manifests)
RecoverVersions ==
    /\ fg = "recover" /\ current \in DOMAIN manifests /\ Missing(manifests[current]) = {}
    /\ LET v == manifests[current]
       IN /\ files' = v.files /\ log_number_' = v.log /\ last_sequence_' = v.last
          /\ manifest_file_number_' = v.next /\ next_file_number_' = NextNumber(v)
          /\ todo' = ToRecover(v.log)
    /\ pos' = 0 /\ mem' = {} /\ max_sequence' = 0 /\ status' = "ok" /\ newdb' = FALSE
    /\ Goto("logs")
    /\ UNCHANGED <<disk, pending_outputs_, memory, edit, back, cleaning, bounds>>
RecoverFails ==
    /\ fg = "recover"
    /\ current \in DOMAIN manifests => Missing(manifests[current]) # {}
    /\ OpenFails
    /\ UNCHANGED disk

(* RecoverLogFile: the records go to a memtable, the memtable to a table   *)
(* when it is full or the log ends.                                        *)
Record == logs[Head(todo)][pos + 1]
Full == Cardinality(mem) >= write_buffer_size
AtEnd == pos = Len(logs[Head(todo)])

MaxSequence(e) == Max({max_sequence, e.seq})
RecoverRecord ==
    /\ fg = "logs" /\ todo # <<>> /\ ~ AtEnd /\ ~ Full
    /\ mem' = mem \cup {Record} /\ max_sequence' = MaxSequence(Record)
    /\ pos' = pos + 1
    /\ UNCHANGED <<disk, numbers, version, memory, fg, newdb, todo, status, edit, back,
                   cleaning, bounds>>
RecoverTable ==
    /\ fg = "logs" /\ todo # <<>> /\ mem # {} /\ (Full \/ AtEnd)
    /\ next_file_number_' = next_file_number_ + 1
    /\ mem' = {}
    /\ \/ /\ Ok /\ tables' = With(tables, next_file_number_, mem)
          /\ edit' = [edit EXCEPT !.new = @ \cup {next_file_number_}]
          /\ UNCHANGED <<status, pos>>
       \/ /\ Fails("recover")
          /\ status' = "error" /\ pos' = Len(logs[Head(todo)])
          /\ UNCHANGED <<tables, edit>>
    /\ UNCHANGED <<logs, manifests, temp, current, manifest_file_number_, log_number_,
                   last_sequence_, version, memory, fg, newdb, todo, max_sequence, back,
                   cleaning, issued, compactions, kills>>
\* The loop of DBImpl::Recover: the next log's status replaces this one's.
NextLog ==
    /\ fg = "logs" /\ todo # <<>> /\ mem = {} /\ AtEnd
    /\ todo' = Tail(todo) /\ pos' = 0
    /\ next_file_number_' = Max({next_file_number_, Head(todo) + 1})
    /\ status' = IF Tail(todo) = <<>> THEN status ELSE "ok"
    /\ UNCHANGED <<disk, manifest_file_number_, log_number_, last_sequence_, version,
                   memory, fg, newdb, mem, max_sequence, edit, back, cleaning, bounds>>
LogsDone ==
    /\ fg = "logs" /\ todo = <<>> /\ status = "ok"
    /\ last_sequence_' = Max({last_sequence_, max_sequence})
    /\ logs' = With(logs, next_file_number_, <<>>)
    /\ logfile_number_' = next_file_number_
    /\ edit' = [edit EXCEPT !.log = next_file_number_, !.next = next_file_number_ + 1,
                            !.last = last_sequence_']
    /\ next_file_number_' = next_file_number_ + 1
    /\ Goto("snapshot")
    /\ UNCHANGED <<manifests, tables, temp, current, manifest_file_number_, log_number_,
                   version, mem_, imm_, bg_error_, open, back, cleaning, bounds>>
LogsFail ==
    /\ fg = "logs" /\ todo = <<>> /\ status # "ok"
    /\ OpenFails
    /\ UNCHANGED disk

(* LogAndApply for Open: a new manifest with a snapshot and the edit, then *)
(* CURRENT. A manifest that could not be written is deleted.               *)
WriteSnapshot ==
    /\ fg = "snapshot"
    /\ manifests' = With(manifests, manifest_file_number_, 
                         [files |-> files, log |-> Absent, next |-> Absent, last |-> Absent])
    /\ Goto("edit")
    /\ UNCHANGED <<logs, tables, temp, current, numbers, version, memory, open, edit, back,
                   cleaning, bounds>>
Appended == With(manifests, manifest_file_number_,
                 Apply(manifests[manifest_file_number_], edit))
WriteEdit ==
    /\ fg = "edit" /\ Ok
    /\ manifests' = Appended
    /\ Goto("temp")
    /\ UNCHANGED <<logs, tables, temp, current, numbers, version, memory, open, edit, back,
                   cleaning, issued, compactions, kills>>
WriteEditFails ==
    /\ fg = "edit" /\ Fails("manifest")
    /\ manifests' = Without(manifests, manifest_file_number_)
    /\ Goto("closed") /\ Fresh
    /\ UNCHANGED <<logs, tables, temp, current, issued, compactions, kills>>
\* The second MoveFile fails: SetCurrentFile deletes the temporary file.
RenameFails ==
    /\ fg = "again" /\ Fails("rename")
    /\ manifests' = Without(manifests, manifest_file_number_)
    /\ temp' = temp \ {manifest_file_number_}
    /\ Goto("closed") /\ Fresh
    /\ UNCHANGED <<logs, tables, current, issued, compactions, kills>>

InstallVersion ==
    /\ files' = (files \ edit.del) \cup edit.new
    /\ log_number_' = edit.log
    /\ edit' = NoEdit
Installed ==
    /\ fg = "installed"
    /\ InstallVersion
    /\ cleaning' = TRUE /\ Goto("run")
    /\ UNCHANGED <<disk, next_file_number_, manifest_file_number_, last_sequence_,
                   pending_outputs_, memory, open, back, bounds>>

(* DeleteObsoleteFiles, with the mutex held. An input of the compaction    *)
(* that calls it through a flush belongs to a version that is in use.      *)
\* [Mutants: pending outputs are forgotten; only the log in use is kept.]
Live_Mutant == files
Live == files \cup inputs \cup pending_outputs_
KeepsLog_Mutant(n) == n >= logfile_number_
KeepsLog(n) == n >= log_number_
KeepsManifest(n) == n >= manifest_file_number_
DeleteObsoleteFiles ==
    /\ cleaning
    /\ \/ \E n \in DOMAIN logs : ~ KeepsLog(n) /\ logs' = Without(logs, n)
                                 /\ UNCHANGED <<manifests, tables, temp>>
       \/ \E n \in DOMAIN manifests : ~ KeepsManifest(n) /\ manifests' = Without(manifests, n)
                                      /\ UNCHANGED <<logs, tables, temp>>
       \/ \E n \in DOMAIN tables : n \notin Live /\ tables' = Without(tables, n)
                                   /\ UNCHANGED <<logs, manifests, temp>>
       \/ \E n \in temp : n \notin Live /\ temp' = temp \ {n}
                          /\ UNCHANGED <<logs, manifests, tables>>
    /\ UNCHANGED <<current, numbers, version, memory, fg, open, edit, back, cleaning, bounds>>
Cleaned ==
    /\ cleaning
    /\ \A n \in DOMAIN logs : KeepsLog(n)
    /\ \A n \in DOMAIN manifests : KeepsManifest(n)
    /\ DOMAIN tables \cup temp \subseteq Live
    /\ cleaning' = FALSE
    /\ UNCHANGED <<disk, numbers, version, memory, fg, open, edit, back, bounds>>

-----------------------------------------------------------------------------
(* Write: the log first, then the memtable. A full memtable becomes imm_   *)
(* and a new log is begun.                                                 *)
Running == fg = "run" /\ ~ cleaning
Entry(k) == [key |-> k, seq |-> last_sequence_ + 1, val |-> issued + 1]
HasRoom == Cardinality(mem_) < write_buffer_size

AddRecord(k) ==
    /\ Running /\ ~ bg_error_ /\ HasRoom /\ issued < MaxWrites
    /\ logs' = [logs EXCEPT ![logfile_number_] = Append(@, Entry(k))]
    /\ issued' = issued + 1
    /\ Goto("insert")
    /\ UNCHANGED <<manifests, tables, temp, current, numbers, version, memory, open, edit,
                   back, cleaning, compactions, kills, faults>>
InsertInto ==
    /\ fg = "insert" /\ ~ cleaning
    /\ mem_' = mem_ \cup {Last(logs[logfile_number_])}
    /\ last_sequence_' = last_sequence_ + 1
    /\ Goto("run")
    /\ UNCHANGED <<disk, next_file_number_, manifest_file_number_, log_number_, version,
                   imm_, logfile_number_, bg_error_, open, edit, back, cleaning, bounds>>
MakeRoomForWrite ==
    /\ Running /\ ~ bg_error_ /\ ~ HasRoom /\ imm_ = NoMem /\ issued < MaxWrites
    /\ logs' = With(logs, next_file_number_, <<>>)
    /\ logfile_number_' = next_file_number_
    /\ next_file_number_' = next_file_number_ + 1
    /\ imm_' = mem_ /\ mem_' = {}
    /\ UNCHANGED <<manifests, tables, temp, current, manifest_file_number_, log_number_,
                   last_sequence_, version, bg_error_, fg, open, edit, back, cleaning,
                   bounds>>

-----------------------------------------------------------------------------
(* The background thread: CompactMemTable, alone or inside a compaction    *)
(* (out # None), and DoCompactionWork.                                     *)
Open_ == fg \in {"run", "insert"} /\ ~ cleaning
Idle == IF out = None THEN "idle" ELSE "compact"
NewFile == next_file_number_' = next_file_number_ + 1

StartFlush ==
    /\ Open_ /\ bg \in {"idle", "compact"} /\ imm_ # NoMem
    /\ bg = "idle" => ~ bg_error_
    /\ meta' = next_file_number_ /\ NewFile
    /\ pending_outputs_' = pending_outputs_ \cup {next_file_number_}
    /\ bg' = "flush"
    /\ UNCHANGED <<disk, manifest_file_number_, log_number_, last_sequence_, files, memory,
                   fg, open, edit, out, inputs, cleaning, bounds>>
BuildTable ==
    /\ Open_ /\ bg = "flush"
    /\ pending_outputs_' = pending_outputs_ \ {meta}
    /\ \/ /\ Ok /\ tables' = With(tables, meta, imm_)
          /\ edit' = [log |-> logfile_number_, next |-> next_file_number_,
                      last |-> last_sequence_, new |-> {meta}, del |-> {}]
          /\ bg' = "log" /\ UNCHANGED bg_error_
       \/ /\ Fails("table") /\ bg_error_' = TRUE /\ bg' = Idle
          /\ UNCHANGED <<tables, edit>>
    /\ UNCHANGED <<logs, manifests, temp, current, numbers, files, mem_, imm_,
                   logfile_number_, fg, open, meta, out, inputs, cleaning, issued, compactions,
                   kills>>
\* LogAndApply without the mutex. When it fails, the record may be there.
LogEdit ==
    /\ Open_ /\ bg \in {"log", "logresults"}
    /\ \/ /\ Ok /\ manifests' = Appended
          /\ bg' = (IF bg = "log" THEN "install" ELSE "results") /\ UNCHANGED <<bg_error_, version, out, inputs>>
       \/ /\ Fails("manifest") /\ manifests' \in {manifests, Appended}
          /\ bg_error_' = TRUE
          /\ IF bg = "log" THEN bg' = Idle /\ UNCHANGED <<version, out, inputs>>
             ELSE /\ bg' = "idle" /\ out' = None /\ inputs' = {}
                  /\ pending_outputs_' = pending_outputs_ \ {out} /\ UNCHANGED files
    /\ UNCHANGED <<logs, tables, temp, current, numbers, mem_, imm_, logfile_number_, fg,
                   open, edit, meta, cleaning, issued, compactions, kills>>
MayClean == ~ bg_error_
Install ==
    /\ Open_ /\ bg = "install"
    /\ InstallVersion
    /\ imm_' = NoMem /\ cleaning' = MayClean
    /\ bg' = Idle /\ meta' = None
    /\ UNCHANGED <<disk, next_file_number_, manifest_file_number_, last_sequence_,
                   pending_outputs_, mem_, logfile_number_, bg_error_, fg, open, out,
                   inputs, bounds>>

StartCompaction ==
    /\ Open_ /\ bg = "idle" /\ ~ bg_error_ /\ imm_ = NoMem
    /\ compactions < MaxCompactions /\ compactions' = compactions + 1
    /\ inputs' \in SUBSET files \ {{}}
    /\ out' = next_file_number_ /\ NewFile
    /\ pending_outputs_' = pending_outputs_ \cup {next_file_number_}
    /\ tables' = With(tables, next_file_number_, {})
    /\ bg' = "compact"
    /\ UNCHANGED <<logs, manifests, temp, current, manifest_file_number_, log_number_,
                   last_sequence_, files, memory, fg, open, edit, meta, cleaning, issued,
                   kills, faults>>
\* What was written to a file that has been deleted is gone.
FinishCompactionOutputFile ==
    /\ Open_ /\ bg = "compact"
    /\ tables' = [n \in DOMAIN tables |-> IF n = out THEN NewestOf(InTables(inputs))
                                          ELSE tables[n]]
    /\ edit' = [log |-> log_number_, next |-> next_file_number_, last |-> last_sequence_,
                new |-> {out}, del |-> inputs]
    /\ bg' = "logresults"
    /\ UNCHANGED <<logs, manifests, temp, current, numbers, version, memory, fg, open, meta,
                   out, inputs, cleaning, bounds>>
\* InstallCompactionResults, CleanupCompaction, ReleaseInputs, DeleteObsoleteFiles.
InstallCompactionResults ==
    /\ Open_ /\ bg = "results"
    /\ InstallVersion
    /\ pending_outputs_' = pending_outputs_ \ {out}
    /\ out' = None /\ inputs' = {} /\ bg' = "idle" /\ cleaning' = MayClean
    /\ UNCHANGED <<disk, next_file_number_, manifest_file_number_, last_sequence_, memory,
                   fg, open, meta, bounds>>

-----------------------------------------------------------------------------
Kill ==
    /\ fg # "closed" /\ kills < MaxKills
    /\ fg = "again" => KillInRename
    /\ Goto("closed") /\ Fresh
    /\ kills' = kills + 1
    /\ UNCHANGED <<disk, issued, compactions, faults>>

OpenStep ==
    \/ Open \/ NewDB \/ WriteTemp \/ MoveFile \/ DeleteTarget \/ MoveFails
    \/ RecoverVersions \/ RecoverFails \/ RecoverRecord \/ RecoverTable \/ NextLog
    \/ LogsDone \/ LogsFail \/ WriteSnapshot \/ WriteEdit \/ WriteEditFails \/ RenameFails
    \/ Installed
Use ==
    \/ DeleteObsoleteFiles \/ Cleaned
    \/ (\E k \in Key : AddRecord(k)) \/ InsertInto \/ MakeRoomForWrite
    \/ StartFlush \/ BuildTable \/ LogEdit \/ Install
    \/ StartCompaction \/ FinishCompactionOutputFile \/ InstallCompactionResults

Next == OpenStep \/ Use \/ Kill

Spec == Init /\ [][Next]_vars
FairSpec == Spec /\ WF_vars(OpenStep)

-----------------------------------------------------------------------------
(* What the next Open finds. Between the two halves of RenameFile that is  *)
(* the manifest that is being renamed to.                                  *)
Pointed == IF fg = "again" THEN manifest_file_number_ ELSE current
Recoverable ==
    IF Pointed = None THEN InLogs(0)
    ELSE IF Pointed \in DOMAIN manifests
    THEN LET v == manifests[Pointed] IN InTables(v.files) \cup InLogs(v.log)
    ELSE {}
ValueIn(entries, k) ==
    LET newest == {e \in NewestOf(entries) : e.key = k}
    IN IF newest = {} THEN None ELSE Max({e.val : e \in newest})
Store == [k \in Key |-> ValueIn(Recoverable, k)]

(* Through flushes, compactions, deletions of files, kills at any point,   *)
(* repeated recoveries and failures of the background thread, the          *)
(* directory keeps the last value written to every key.                    *)
D == INSTANCE Durable WITH Value <- 1..MaxWrites, store <- Store
ImplementsDurable == D!Spec

(* An open database reads from its memtables and tables what a restart     *)
(* would read: the version in memory and the manifest agree.               *)
ReadsMatchDisk ==
    fg = "run" =>
        LET entries == mem_ \cup imm_ \cup InTables(files)
        IN \A k \in Key : ValueIn(entries, k) = Store[k]

(* A write after a restart is newer than every write before it: the        *)
(* sequence number recovered from manifest and logs is not below any       *)
(* number in use.                                                          *)
SequenceRecovered ==
    fg = "run" => \A e \in Recoverable : e.seq <= last_sequence_

(* Once created, the database can be opened again at any time: CURRENT     *)
(* names a manifest, and the files that it lists exist.                    *)
OpensAgain ==
    Pointed # None => Pointed \in DOMAIN manifests /\ manifests[Pointed].files \subseteq DOMAIN tables

TableKept(n) == n \in DOMAIN tables' => tables'[n] = tables[n]
Listed == IF Pointed \in DOMAIN manifests THEN manifests[Pointed].files \cap DOMAIN tables
          ELSE {}

(* A table that the manifest lists is never written again: file numbers    *)
(* are not given out twice, though Open takes them up from a manifest that *)
(* is behind the files in the directory.                                   *)
TablesAreFinal == [][\A n \in Listed : TableKept(n)]_vars

(* Open succeeds in the end.                                               *)
EventuallyOpen == fg = "closed" ~> fg = "run"
=============================================================================
