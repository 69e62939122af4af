------------------------------- MODULE Repair -------------------------------
(***************************************************************************)
(* RepairDB. A database writes, flushes and compacts whole levels; then    *)
(* some of a table or of a log may be damaged, and the Repairer builds a   *)
(* new manifest from the files it finds. The Repairer may be killed        *)
(* anywhere and started again, and its writes may fail. A file that cannot *)
(* be moved to lost/ stays where it is; the moves that put the copy of a   *)
(* table and the new manifest in place are taken to succeed (a failing     *)
(* MoveFile is in Recovery). Damage to a table is what its reader notices. *)
(***************************************************************************)
EXTENDS Integers, Sequences, SequencesExt, FiniteSets, FiniteSetsExt, Functions

CONSTANTS
    Key, MaxWrites, MaxCompactions, MaxDamage, MaxFailures, MaxKills,
    kNumLevels, BigSequence         \* what a damaged sequence number becomes

VARIABLES
    logs, tables, manifests, current, lost,     \* the directory and its lost/
    db,             \* the running database: log, next number, last sequence, levels
    rp,             \* the Repairer
    count,          \* writes, compactions, damages, failures, kills so far
    had             \* the entries that could be read before the first repair

disk == <<logs, tables, manifests, current, lost>>
vars == <<disk, db, rp, count, had>>

Entry(k, s) == [key |-> k, seq |-> s]
Whole(entries) == [entries |-> entries, good |-> entries, whole |-> TRUE]
Without(f, n) == Restrict(f, DOMAIN f \ {n})
With(f, n, x) == [m \in DOMAIN f \cup {n} |-> IF m = n THEN x ELSE f[m]]
Counted(what) == count' = [count EXCEPT ![what] = @ + 1]

-----------------------------------------------------------------------------
(* The database. A log record is one entry and the sequence number that    *)
(* its checksum was taken of.                                              *)
Entries(log) == {Entry(log[i].key, log[i].seq) : i \in DOMAIN log}
Put(k) ==
    LET s == db.seq + 1
    IN /\ rp.pc = "db" /\ count.writes < MaxWrites
       /\ logs' = [logs EXCEPT ![db.log] = Append(@, [key |-> k, seq |-> s, sum |-> s])]
       /\ db' = [db EXCEPT !.seq = s]
       /\ Counted("writes") /\ UNCHANGED <<tables, manifests, current, lost, rp, had>>
Flush ==
    /\ rp.pc = "db" /\ logs[db.log] # <<>>
    /\ tables' = With(tables, db.next, Whole(Entries(logs[db.log])))
    /\ logs' = With(Without(logs, db.log), db.next + 1, <<>>)
    /\ db' = [db EXCEPT !.log = db.next + 1, !.next = @ + 2, !.levels = With(@, db.next, 0)]
    /\ UNCHANGED <<manifests, current, lost, rp, count, had>>
NewestOf(entries) == {e \in entries : \A f \in entries : f.key = e.key => f.seq <= e.seq}
\* A compaction of all of a level, as CompactRange does for the whole range.
Compact(level) ==
    LET inputs == {n \in DOMAIN db.levels : db.levels[n] \in {level, level + 1}}
        merged == NewestOf(UNION {tables[n].entries : n \in inputs})
    IN /\ rp.pc = "db" /\ count.compactions < MaxCompactions
       /\ \E n \in inputs : db.levels[n] = level
       /\ tables' = With(Restrict(tables, DOMAIN tables \ inputs), db.next, Whole(merged))
       /\ db' = [db EXCEPT !.next = @ + 1,
                           !.levels = With(Restrict(@, DOMAIN @ \ inputs), db.next, level + 1)]
       /\ Counted("compactions") /\ UNCHANGED <<logs, manifests, current, lost, rp, had>>

DamageTable ==
    /\ rp.pc = "db" /\ count.damages < MaxDamage
    /\ \E n \in DOMAIN tables : \E good \in SUBSET tables[n].good \ {tables[n].good} :
          tables' = [tables EXCEPT ![n].good = good, ![n].whole = FALSE]
    /\ Counted("damages") /\ UNCHANGED <<logs, manifests, current, lost, db, rp, had>>
DamageLog ==
    /\ rp.pc = "db" /\ count.damages < MaxDamage
    /\ \E n \in DOMAIN logs : \E i \in DOMAIN logs[n] : logs' = [logs EXCEPT ![n][i].seq = BigSequence]
    /\ Counted("damages") /\ UNCHANGED <<tables, manifests, current, lost, db, rp, had>>

-----------------------------------------------------------------------------
Readable ==
    UNION {tables[n].good : n \in DOMAIN tables}
        \cup UNION {Entries(SelectSeq(logs[n], LAMBDA x : x.sum = x.seq)) : n \in DOMAIN logs}
Sorted(S) == SetToSortSeq(S, LAMBDA m, n : m < n)
Idle(pc) == [pc |-> pc, logs |-> <<>>, numbers |-> <<>>, tables |-> <<>>, next |-> 1, max |-> 0,
             copy |-> 0]
FindFiles ==
    /\ rp.pc \in {"db", "killed"}
    /\ rp' = [Idle("logs") EXCEPT !.logs = Sorted(DOMAIN logs), !.numbers = Sorted(DOMAIN tables),
                                  !.next = Max({0} \cup DOMAIN logs \cup DOMAIN tables) + 1]
    /\ had' = IF rp.pc = "db" THEN Readable ELSE had
    /\ UNCHANGED <<disk, db, count>>
Fails == count.failures < MaxFailures /\ Counted("failures")
Works == UNCHANGED count

(* The log reader is told not to look at checksums.                        *)
ReadLog(log) == Entries(log)
ConvertLogToTable ==
    LET entries == ReadLog(logs[Head(rp.logs)])
        built(ok) == ok /\ entries # {}
    IN /\ rp.pc = "logs" /\ rp.logs # <<>>
       /\ \E ok \in BOOLEAN :
             /\ IF ok THEN Works ELSE Fails
             /\ tables' = IF built(ok) THEN With(tables, rp.next, Whole(entries)) ELSE tables
             /\ rp' = [rp EXCEPT !.pc = "archive_log", !.next = @ + 1,
                                 !.numbers = IF built(ok) THEN Append(@, rp.next) ELSE @]
       /\ UNCHANGED <<logs, manifests, current, lost, db, had>>
(* ArchiveFile replaces a file of the same name in lost/.                  *)
\* [Mutant: what is archived is deleted.]
Archived_Mutant(kind, n, good) == {x \in lost : x.kind # kind \/ x.number # n}
Archived(kind, n, good) ==
    {x \in lost : x.kind # kind \/ x.number # n}
        \cup {[kind |-> kind, number |-> n, good |-> good]}
ArchiveLog ==
    LET n == Head(rp.logs)
        good == Entries(SelectSeq(logs[n], LAMBDA x : x.sum = x.seq))
    IN /\ rp.pc = "archive_log"
       /\ \/ Works /\ logs' = Without(logs, n) /\ lost' = Archived("log", n, good)
          \/ Fails /\ UNCHANGED <<logs, lost>>
       /\ rp' = [rp EXCEPT !.pc = "logs", !.logs = Tail(@)]
       /\ UNCHANGED <<tables, manifests, current, db, had>>

MaxSeqOf(entries) == Max({0} \cup {e.seq : e \in entries})
Info(n, max) == [number |-> n, max_sequence |-> max]
NextTable == [rp EXCEPT !.pc = "logs", !.numbers = Tail(@)]
ScanTable ==
    LET n == Head(rp.numbers)
        max == MaxSeqOf(tables[n].good)
    IN /\ rp.pc = "logs" /\ rp.logs = <<>> /\ rp.numbers # <<>>
       /\ \/ /\ Works /\ UNCHANGED <<tables, lost>>
             /\ rp' = IF tables[n].whole THEN [NextTable EXCEPT !.tables = Append(@, Info(n, max))]
                      ELSE [rp EXCEPT !.pc = "repair", !.max = max]
          \/ /\ Fails /\ tables' = Without(tables, n)
             /\ lost' = Archived("table", n, tables[n].good) /\ rp' = NextTable
       /\ UNCHANGED <<logs, manifests, current, db, had>>
Unfinished == [Whole({}) EXCEPT !.whole = FALSE]
(* RepairTable: the copy is a file that is not whole until Finish.         *)
CopyTable ==
    /\ rp.pc = "repair"
    /\ \/ /\ Works /\ tables' = With(tables, rp.next, Unfinished)
          /\ rp' = [rp EXCEPT !.pc = "archive_table", !.copy = rp.next, !.next = @ + 1]
       \/ Fails /\ rp' = [NextTable EXCEPT !.next = @ + 1] /\ UNCHANGED tables
    /\ UNCHANGED <<logs, manifests, current, lost, db, had>>
ArchiveTable ==
    LET n == Head(rp.numbers)
    IN /\ rp.pc = "archive_table"
       /\ \/ /\ Works /\ lost' = Archived("table", n, tables[n].good)
             /\ tables' = [Without(tables, n) EXCEPT ![rp.copy].entries = tables[n].good]
          \/ Fails /\ tables' = [tables EXCEPT ![rp.copy].entries = tables[n].good] /\ UNCHANGED lost
       /\ rp' = [rp EXCEPT !.pc = "finish"]
       /\ UNCHANGED <<logs, manifests, current, db, had>>
FinishCopy ==
    LET copied == tables[rp.copy].entries
    IN /\ rp.pc = "finish"
       /\ \/ copied = {} /\ Works /\ rp' = NextTable /\ UNCHANGED tables
          \/ /\ copied # {} /\ Works
             /\ tables' = [tables EXCEPT ![rp.copy] = Whole(copied)]
             /\ rp' = [rp EXCEPT !.pc = "rename"]
          \/ copied # {} /\ Fails /\ tables' = Without(tables, rp.copy) /\ rp' = NextTable
       /\ UNCHANGED <<logs, manifests, current, lost, db, had>>
RenameCopy ==
    LET n == Head(rp.numbers)
    IN /\ rp.pc = "rename"
       /\ tables' = With(Without(tables, rp.copy), n, tables[rp.copy])
       /\ rp' = [NextTable EXCEPT !.tables = Append(@, Info(n, rp.max))]
       /\ UNCHANGED <<logs, manifests, current, lost, db, count, had>>

-----------------------------------------------------------------------------
(* WriteDescriptor                                                         *)
Numbers(infos) == {infos[i].number : i \in DOMAIN infos}
MaxSequence(infos) == Max({0} \cup {infos[i].max_sequence : i \in DOMAIN infos})
NewEdit == [tables |-> Numbers(rp.tables), next |-> rp.next, seq |-> MaxSequence(rp.tables)]
WriteDescriptor ==
    /\ rp.pc = "logs" /\ rp.logs = <<>> /\ rp.numbers = <<>>
    /\ \/ Works /\ rp' = [rp EXCEPT !.pc = "manifests"]
       \/ Fails /\ rp' = [rp EXCEPT !.pc = "failed"]
    /\ UNCHANGED <<disk, db, had>>
ArchiveManifest ==
    /\ rp.pc = "manifests"
    /\ \E n \in DOMAIN manifests :
          manifests' = Without(manifests, n) /\ lost' = Archived("manifest", n, {})
    /\ UNCHANGED <<logs, tables, current, db, rp, count, had>>
InstallManifest ==
    /\ rp.pc = "manifests" /\ DOMAIN manifests = {}
    /\ manifests' = With(manifests, 1, NewEdit)
    /\ rp' = [rp EXCEPT !.pc = "current"]
    /\ UNCHANGED <<logs, tables, current, lost, db, count, had>>
SetCurrentFile ==
    /\ rp.pc = "current"
    /\ \/ Works /\ current' = 1 /\ rp' = [rp EXCEPT !.pc = "done"]
       \/ Fails /\ rp' = [rp EXCEPT !.pc = "failed"] /\ UNCHANGED current
    /\ UNCHANGED <<logs, tables, manifests, lost, db, had>>

Kill ==
    /\ rp.pc \notin {"db", "killed"} /\ count.kills < MaxKills
    /\ rp' = Idle("killed")
    /\ \/ UNCHANGED tables
       \/ /\ rp.pc = "logs" /\ rp.logs # <<>>       \* in the middle of BuildTable
          /\ tables' = With(tables, rp.next, Unfinished)
    /\ Counted("kills") /\ UNCHANGED <<logs, manifests, current, lost, db, had>>

Init ==
    /\ logs = (3 :> <<>>) /\ tables = <<>> /\ lost = {} /\ current = 2
    /\ manifests = (2 :> [tables |-> {}, next |-> 4, seq |-> 0])
    /\ db = [log |-> 3, next |-> 4, seq |-> 0, levels |-> <<>>]
    /\ rp = Idle("db") /\ had = {}
    /\ count = [writes |-> 0, compactions |-> 0, damages |-> 0, failures |-> 0, kills |-> 0]
Next ==
    \/ (\E k \in Key : Put(k)) \/ Flush \/ (\E level \in 0..(kNumLevels - 2) : Compact(level))
    \/ DamageTable \/ DamageLog
    \/ FindFiles \/ ConvertLogToTable \/ ArchiveLog \/ ScanTable
    \/ CopyTable \/ ArchiveTable \/ FinishCopy \/ RenameCopy
    \/ WriteDescriptor \/ ArchiveManifest \/ InstallManifest \/ SetCurrentFile \/ Kill
Spec == Init /\ [][Next]_vars

-----------------------------------------------------------------------------
(* No entry that could be read before the repair is destroyed by it: at    *)
(* every moment, through kills and failing writes, it is in a file of the  *)
(* directory or of lost/ that can be read.                                 *)
NothingDestroyed == had \subseteq Readable \cup UNION {x.good : x \in lost}

Repaired == rp.pc = "done"
(* A repair that nothing interrupted keeps every entry that could be read, *)
(* also the readable part of a damaged table.                              *)
KeepsReadable ==
    Repaired /\ count.kills = 0 /\ count.failures = 0 =>
        had \subseteq UNION {tables[n].entries : n \in manifests[1].tables}

(* The new manifest, also of a repair after a killed one, can be opened    *)
(* and continued: the tables it lists are there and whole, new files get   *)
(* numbers that no file has, and new writes sequence numbers above all.    *)
CanGoOn ==
    Repaired =>
        /\ \A n \in manifests[1].tables :
              n \in DOMAIN tables /\ tables[n].whole
                 /\ MaxSeqOf(tables[n].entries) <= manifests[1].seq
        /\ \A n \in DOMAIN tables \cup DOMAIN logs : n < manifests[1].next
=============================================================================
