------------------------------ MODULE Restart ------------------------------
(***************************************************************************)
(* The address ledger, the entity ids and the transaction store when the   *)
(* program is killed and started again. What survives are the two          *)
(* databases and the resume file; a restarted program reads the file and   *)
(* goes on with the month that was not finished.                           *)
(*                                                                         *)
(* The block files are a sequence of transactions (their place is modelled *)
(* in UnzipBlocks), a transaction is the sequence of the addresses it      *)
(* spends from and of those it pays to; the tables are as in               *)
(* TransactionProcess and EntityProcess, reduced to what a restart can     *)
(* damage. One step is one statement that writes to a table, the store or  *)
(* the file, so that a kill may fall between any two of them.              *)
(***************************************************************************)
EXTENDS Integers, Sequences, SequencesExt

CONSTANTS
    Address,
    Chains,          \* the contents that the block files may have
    MonthEnds,       \* the number of the last transaction of each month
    MaxCrashes,      \* bound: how often the process is killed
    MaxTorn          \* bound: how often inside the rewriting of the resume file


VARIABLES
    chain,                              \* the transactions of the block files
    resume,                             \* 1.unzip_0.txt
    booked,                             \* MySQL: how often each input and output, in
                                        \* their order, is booked in addressinfo
    entity, entityinfo,                 \* MySQL
    store,                              \* LevelDB: the transactions with a record
    pc, month, next, i, entitycnt, todo, \* the process
    dirty,        \* history: restarts after work that the file does not know of
    crashes, torn

disk == <<resume, booked, entity, entityinfo, store>>
process == <<pc, month, next, i, entitycnt, todo>>
vars == <<chain, disk, process, dirty, crashes, torn>>

Empty == [next |-> 0, entitycnt |-> 0, empty |-> TRUE]
Saved(n, e) == [next |-> n, entitycnt |-> e, empty |-> FALSE]
Tx == chain[next]
Elements(s) == {s[k] : k \in DOMAIN s}
Bookings(tx) == tx.ins \o tx.outs

Init ==
    /\ chain \in Chains
    /\ resume = Saved(1, 0)
    /\ booked = [t \in DOMAIN chain |-> [k \in DOMAIN Bookings(chain[t]) |-> 0]]
    /\ entity = [a \in Address |-> 0] /\ entityinfo = {} /\ store = {}
    /\ pc = "main" /\ month = 1 /\ next = 0 /\ i = 1 /\ entitycnt = 0 /\ todo = <<>>
    /\ dirty = 0 /\ crashes = 0 /\ torn = 0

\* The transaction of the cursor that was read.
ResumeAt(n) == n

\* The reading of an empty file fails: next is indeterminate and the global
\* entitycnt keeps its value.
ReadParameter ==
    /\ pc = "main" /\ month <= Len(MonthEnds)
    /\ IF resume.empty
         THEN next' \in 1..(Len(chain) + 1) /\ entitycnt' = entitycnt
         ELSE next' = ResumeAt(resume.next) /\ entitycnt' = resume.entitycnt
    /\ pc' = "tx"
    /\ UNCHANGED <<chain, disk, month, i, todo, dirty, crashes, torn>>

\* A turn of the loop over the inputs: the output is looked up in LevelDB and
\* booked with input_transaction_mysql, an increment also of what was booked
\* before.
Reading == pc = "tx" /\ next <= MonthEnds[month] /\ next <= Len(chain)
Book == booked' = [booked EXCEPT ![next][i] = @ + 1] /\ i' = i + 1
Input ==
    /\ Reading /\ i <= Len(Tx.ins)
    /\ Book
    /\ UNCHANGED <<chain, resume, entity, entityinfo, store, pc, month, next,
                   entitycnt, todo, dirty, crashes, torn>>

\* input_entity_mysql: the ids of the addresses are read and sorted.
InputIds ==
    /\ Reading /\ i > Len(Tx.ins)
    /\ todo' = SetToSortSeq({entity[a] : a \in Elements(Tx.ins)}, <)
    /\ pc' = "merge"
    /\ UNCHANGED <<chain, resume, booked, entity, entityinfo, store, month, next, i,
                   entitycnt, dirty, crashes, torn>>

\* UPDATE addressinfo ... WHERE entity = e.  [Mutant: only the rows of the
\* inputs are updated.]
MergeRows_Mutant(e, keep) == [a \in Address |-> IF entity[a] = e /\ a \in Elements(Tx.ins) THEN keep ELSE entity[a]]
MergeRows(e, keep) == [a \in Address |-> IF entity[a] = e THEN keep ELSE entity[a]]

\* The loop of input_entity_mysql over the ids above the least one: two
\* statements for each, between which the process may be killed.
MergeUpdate ==
    /\ pc = "merge" /\ Len(todo) > 1
    /\ entity' = MergeRows(todo[2], todo[1])
    /\ pc' = "delete"
    /\ UNCHANGED <<chain, resume, booked, entityinfo, store, month, next, i,
                   entitycnt, todo, dirty, crashes, torn>>
MergeDelete ==
    /\ pc = "delete"
    /\ entityinfo' = entityinfo \ {todo[2]}
    /\ todo' = RemoveAt(todo, 2)
    /\ pc' = "merge"
    /\ UNCHANGED <<chain, resume, booked, entity, store, month, next, i,
                   entitycnt, dirty, crashes, torn>>

\* A turn of the loop over the outputs: output_transaction_mysql. Then
\* output_entity_mysql begins.
Output ==
    /\ pc = "merge" /\ Len(todo) <= 1 /\ i <= Len(Bookings(Tx))
    /\ Book
    /\ UNCHANGED <<chain, resume, entity, entityinfo, store, pc, month, next,
                   entitycnt, todo, dirty, crashes, torn>>
OutputIds ==
    /\ pc = "merge" /\ Len(todo) <= 1 /\ i > Len(Bookings(Tx))
    /\ todo' = Tx.outs
    /\ pc' = "ids"
    /\ UNCHANGED <<chain, resume, booked, entity, entityinfo, store, month, next, i,
                   entitycnt, dirty, crashes, torn>>

\* One turn of the loop of output_entity_mysql: UPDATE addressinfo, and for a
\* new entity INSERT INTO entityinfo.
OutputEntity ==
    /\ pc = "ids" /\ todo # <<>>
    /\ IF entity[Head(todo)] = 0
         THEN /\ entitycnt' = entitycnt + 1
              /\ entity' = [entity EXCEPT ![Head(todo)] = entitycnt + 1]
              /\ pc' = "insert"
         ELSE UNCHANGED <<entitycnt, entity, pc>>
    /\ todo' = Tail(todo)
    /\ UNCHANGED <<chain, resume, booked, entityinfo, store, month, next, i,
                   dirty, crashes, torn>>
insert_entity_mysql ==
    /\ pc = "insert"
    /\ entityinfo' = entityinfo \cup {entitycnt}
    /\ pc' = "ids"
    /\ UNCHANGED <<chain, resume, booked, entity, store, month, next, i,
                   entitycnt, todo, dirty, crashes, torn>>

Put ==
    /\ pc = "ids" /\ todo = <<>>
    /\ store' = store \cup {next}
    /\ next' = next + 1 /\ i' = 1
    /\ pc' = "tx"
    /\ UNCHANGED <<chain, resume, booked, entity, entityinfo, month, entitycnt,
                   todo, dirty, crashes, torn>>

\* The first younger transaction, or none: the file is opened, which empties it.
Truncate ==
    /\ pc = "tx" /\ (next > MonthEnds[month] \/ next > Len(chain))
    /\ resume' = Empty
    /\ pc' = "write"
    /\ UNCHANGED <<chain, booked, entity, entityinfo, store, month, next, i,
                   entitycnt, todo, dirty, crashes, torn>>
Counters == Saved(next, entitycnt)
Write ==
    /\ pc = "write"
    /\ resume' = Counters
    /\ month' = month + 1
    /\ pc' = "main"
    /\ UNCHANGED <<chain, booked, entity, entityinfo, store, next, i,
                   entitycnt, todo, dirty, crashes, torn>>

\* Work that the resume file does not account for.
Unsaved == pc \in {"merge", "delete", "ids", "insert"} \/ (pc = "tx" /\ (next # resume.next \/ i > 1))

Kill ==
    /\ crashes < MaxCrashes
    /\ crashes' = crashes + 1
    /\ IF pc = "write" THEN torn < MaxTorn /\ torn' = torn + 1 ELSE UNCHANGED torn
    /\ dirty' = IF Unsaved THEN dirty + 1 ELSE dirty
    /\ pc' = "main" /\ month' = 1 /\ next' = 0 /\ i' = 1 /\ entitycnt' = 0 /\ todo' = <<>>
    /\ UNCHANGED <<chain, disk>>

Program == \/ ReadParameter \/ Input \/ InputIds \/ MergeUpdate \/ MergeDelete \/ Output \/ OutputIds
           \/ OutputEntity \/ insert_entity_mysql \/ Put \/ Truncate \/ Write
Next == Program \/ Kill
Spec == Init /\ [][Next]_vars
FairSpec == Spec /\ WF_vars(Program)

-----------------------------------------------------------------------------
Before(t) == t < resume.next

(* A transaction before the cursor of the resume file is in the store, and *)
(* each of its inputs and outputs was booked at least once, in their order *)
(* (none is ahead of the one before it), and at most once more for each    *)
(* restart that lost unsaved work: a restart between two months, or of a   *)
(* finished program, books nothing twice.                                  *)
BookedPerLoss ==
    \A t \in DOMAIN chain : \A k \in DOMAIN booked[t] :
        /\ Before(t) => t \in store /\ booked[t][k] >= 1
        /\ booked[t][k] <= IF k = 1 THEN dirty + 1 ELSE booked[t][k - 1]

(* What a transaction spends was stored before its inputs are looked up,   *)
(* also when the transaction is processed again after a restart.           *)
InputsStored ==
    Reading => \A a \in Elements(Tx.ins) : \E t \in store : t < next /\ a \in Elements(chain[t].outs)

(* Also when the process is killed between two of the UPDATEs of a merge,  *)
(* the addresses that a stored transaction spends from end up in one       *)
(* entity, and stay together.                                              *)
CospentShareEntity ==
    pc = "tx" => \A t \in store : \A a1, a2 \in Elements(chain[t].ins) : entity[a1] = entity[a2]

(* Every transaction gets into the ledger, the ids and the store although  *)
(* the process is killed a bounded number of times.                        *)
EventuallyStored == <>[](store = DOMAIN chain)

(* "the block at which it starts again must skip the part that was already *)
(* read" (unzipBlocks.h): no transaction is booked twice.                  *)
SkipsWhatWasRead == \A t \in DOMAIN chain : \A k \in DOMAIN booked[t] : booked[t][k] <= 1
=============================================================================
