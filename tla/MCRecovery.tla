----------------------------- MODULE MCRecovery -----------------------------
(***************************************************************************)
(* A LevelDB directory and who works on it, side by side: a behaviour is   *)
(* one of a single part, the others rest.                                  *)
(*   "use"     Recovery: writes, flushes and a compaction, of which a file *)
(*             operation may fail, and a kill                              *)
(*   "reopen"  Recovery: two kills, also during the recovery itself        *)
(*   "errors"  Recovery: the file operations of Open may fail              *)
(*   "repair"  Repair: a damaged database is repaired                      *)
(***************************************************************************)
EXTENDS Integers, Sequences

CONSTANTS Parts, k1, k2, KillInRename
VARIABLES part,
          logs, manifests, tables, temp, current,
          next_file_number_, manifest_file_number_, log_number_, last_sequence_,
          files, pending_outputs_, mem_, imm_, logfile_number_, bg_error_,
          fg, newdb, todo, pos, mem, max_sequence, status, edit, bg, meta, out, inputs,
          cleaning, issued, compactions, kills, faults,
          rlogs, rtables, rmanifests, rcurrent, lost, db, rp, count, had

dbVars == <<logs, manifests, tables, temp, current,
            next_file_number_, manifest_file_number_, log_number_, last_sequence_,
            files, pending_outputs_, mem_, imm_, logfile_number_, bg_error_,
            fg, newdb, todo, pos, mem, max_sequence, status, edit, bg, meta, out, inputs,
            cleaning, issued, compactions, kills, faults>>
repairVars == <<rlogs, rtables, rmanifests, rcurrent, lost, db, rp, count, had>>

U == INSTANCE Recovery WITH Key <- {k1, k2}, MaxWrites <- 3, MaxCompactions <- 1, MaxKills <- 1,
                            MaxFaults <- 1, Failing <- {"table", "manifest"}, write_buffer_size <- 1
O == INSTANCE Recovery WITH Key <- {k1, k2}, MaxWrites <- 3, MaxCompactions <- 1, MaxKills <- 2,
                            MaxFaults <- 0, Failing <- {}, write_buffer_size <- 1
E == INSTANCE Recovery WITH Key <- {k1, k2}, MaxWrites <- 2, MaxCompactions <- 1, MaxKills <- 2,
                            MaxFaults <- 1, Failing <- {"recover", "rename"}, write_buffer_size <- 1
R == INSTANCE Repair WITH Key <- {k1, k2}, MaxWrites <- 3, MaxCompactions <- 1, MaxDamage <- 1,
                          MaxFailures <- 1, MaxKills <- 1, kNumLevels <- 3, BigSequence <- 9,
                          logs <- rlogs, tables <- rtables, manifests <- rmanifests,
                          current <- rcurrent

-----------------------------------------------------------------------------
MCInit == part \in Parts /\ U!Init /\ R!Init

(* The keys are alike, so the first one written is k1.                     *)
FirstIsK1 == issued = 0 /\ issued' = 1 => logs'[logfile_number_][1].key = k1
Using == part = "use" /\ U!Next /\ FirstIsK1 /\ UNCHANGED <<part, repairVars>>
Opening == part = "reopen" /\ O!OpenStep /\ UNCHANGED <<part, repairVars>>
Reopening == part = "reopen" /\ (O!Use \/ O!Kill) /\ FirstIsK1 /\ UNCHANGED <<part, repairVars>>
OpenErrors == part = "errors" /\ E!Next /\ FirstIsK1 /\ UNCHANGED <<part, repairVars>>
FirstPutK1 == count.writes = 0 /\ count'.writes = 1 => rlogs'[db.log][1].key = k1
Repairing == part = "repair" /\ R!Next /\ FirstPutK1 /\ UNCHANGED <<part, dbVars>>
MCNext == Using \/ Opening \/ Reopening \/ OpenErrors \/ Repairing

allVars == <<part, dbVars, repairVars>>
MCSpec == MCInit /\ [][MCNext]_allVars /\ WF_allVars(Opening)

-----------------------------------------------------------------------------
(* What the directory holds while its operations do not fail in Open.      *)
Kept == IF part = "errors" THEN [k \in {k1, k2} |-> 0] ELSE U!Store
D == INSTANCE Durable WITH Key <- {k1, k2}, Value <- 1..3, store <- Kept

(* Recovery: through flushes, compactions, deletions of files, kills and   *)
(* recoveries, the directory keeps the last value written to every key.    *)
ImplementsDurable == D!Spec
(* Recovery: CURRENT names a manifest, and the files it lists exist; an    *)
(* open database reads what a restart would read; and a write after a      *)
(* restart is newer than every write before it.                            *)
DatabaseRecovers == /\ part \in {"use", "reopen"} => U!OpensAgain /\ U!ReadsMatchDisk
                    /\ U!SequenceRecovered
(* Recovery: a table that the manifest lists is never written again.       *)
TablesAreFinal == U!TablesAreFinal
(* Recovery: Open succeeds in the end.                                     *)
EventuallyOpen == part = "reopen" => O!EventuallyOpen
(* Repair: what was readable is still in a file, if only in lost/; a       *)
(* repair that was not killed keeps what was readable; and the repaired    *)
(* database can be opened and written to.                                  *)
RepairIsSafe == R!NothingDestroyed /\ R!KeepsReadable /\ R!CanGoOn
=============================================================================
