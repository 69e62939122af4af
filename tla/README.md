# A TLA+ model of BitcoinAnalysis

BitcoinAnalysis reads the block files of a Bitcoin node month by month, books
every transaction on its addresses in MySQL, clusters the addresses into
entities, keeps the records of the transactions in LevelDB, and writes a
statistical report after each month. This directory specifies the program and
the parts of LevelDB 1.16 and Snappy that it is built with, checks them with TLC
on small instances and proves the central results with TLAPS. Every definition
is translated from the sources; `PROJECT.json` maps it to its lines, and lists
the hazards of the code with the properties that cover them.

## The system

The program itself (`src/BitcoinAnalysis/`) is sequential:

| part | source | what it does |
| --- | --- | --- |
| month loop | `console.cpp`, `timerange.h` | for each month: set the stop date, read the blocks, write the report |
| block reader | `unzipBlocks.h`, `BlockFileName.h` | resumes at the cursor of the file `1.unzip_0.txt`, reads blocks up to the stop date, saves the cursor |
| block parsing | `block.h` | integers, headers, inputs, outputs and scripts from a byte buffer |
| hash functions | `hash.h` | SHA-256 and RIPEMD-160 |
| transaction processing | `TransactionProcess.h` | looks up the spent outputs in LevelDB, updates `addressinfo`, calls the clustering, writes the record and the `txinfo` row |
| entity clustering | `EntityProcess.h` | addresses spent together get one entity id; `entityinfo` aggregates are recomputed monthly for queued ids |
| block table | `BlockProcess.h` | the `blkinfo` row |
| statistics | `Statistical.h` | the report: counts, aggregates and distributions over the four tables |

What makes it hard to test is long histories: millions of merges, a cursor that
is handed from one month to the next through a file, restarts in the middle of a
month, and hundreds of hand-written bounds in the report.

LevelDB (`src/packages/LevelDB.1.16.0.5/`) brings threads, files and crashes:
writers that queue and commit in groups, a lock-free skip list that is read
while it grows, a background thread that flushes and compacts, a manifest and
logs from which a killed process recovers, and a Windows port with its own
condition variable and memory-mapped files. Snappy compresses table blocks.

## The modules

Each module models one component; its header says what is abstracted. A table of
MySQL is a function whose domain is its keys. A definition whose name ends in
`_Mutant` is a wrong version of the definition after it, the way a slip in the
code would make it; the specification does not use it, and it serves to see that
a property can fail.

### The program

- **AddressPartition**: what the clustering promises. Known addresses form
  clusters; `Learn` adds one, `CoSpend` unites the clusters of the inputs of a
  transaction.
- **EntityProcess** implements it: `EntityProcess.h` with the calls that
  `TransactionProcess` makes, in its order: `BeginTransaction`,
  `input_entity_mysql`, `output_row` and `rows_written` (the loop over the
  outputs), `output_entity_mysql` (one address per step), and
  `update_entity_mysql` between transactions. `entitychange_v` is a set, because
  the code sorts it and makes it unique before its only use. `cospent` is a
  history variable.
- **EntityCodec**: how an id becomes hexadecimal text, a binary column and a
  number again. It is why `EntityProcess` may treat ids as numbers.
- **TransactionProcess** composes `TransactionProcess.h` with `EntityProcess`
  (instance `E`): the LevelDB map, the tables and the steps of one transaction.
  The block chain, which only grows by valid transactions, is the environment
  (`Extend`).
- **UnzipBlocks**: `console.cpp`, `set_parameter` and the loops of `unzipBlocks`.
  Opening a file may fail. `Restart` kills the process between any two steps: the
  locals are lost, the database and the resume file stay. Positions are byte
  offsets (`Offset`), so that a wrong cursor is a misaligned read.
- **Restart**: the ledger, the ids and the store of the whole program when it is
  killed between any two statements that write to a table, the store or the
  resume file; each input and each output is booked by a statement of its own.
  Amounts are reduced to how often an input or an output was booked.
- **Statistical**: every compiled section of the report, with its buckets, its
  output stream and its failbit, and the crash at a NULL result. The two bounds
  of each bucket are those of its query; runs of buckets of one width are written
  as `Steps`. Averages are abstracted to being NULL or not.
- **BlockParse**, **OutAddress**, **Digest**: the parser over digits of a small
  base with the real marks for long integers; the classification of scripts over
  real opcodes; buffering and padding of the hash functions around an abstract
  compression.

### LevelDB and Snappy

- **CondVar**: the condition variable of the Windows port, one step for each
  operation on its semaphores and its counter. `SignalAll` is the code's loop: it
  never returns when two threads wait.
- **WriteQueue**: the queue of writers, group commit, `MakeRoomForWrite`, the
  background thread, manual compaction and the destructor. What the loops of the
  code compute for a group is stated as a relation: how many writers it may take
  (`IsGroupSize`), its batches in the order of the queue (`InOrder`), and the
  sequence number of each (`Number`). A compaction is what it does to the
  memtables and the number of level-0 files; those of other levels and trivial
  moves are left out. `SignalBgCv` is `bg_cv_.SignalAll()` as `CondVar` shows it:
  with one thread waiting it wakes that thread, with more it hangs with the mutex
  in its hands (`mutex_ = Stuck`).
- **Durable** is a map from keys to the last value written; **Recovery**
  implements it: `Open`, the recovery of manifest and logs, flushes, compactions,
  `SetCurrentFile`, `DeleteObsoleteFiles`, failing file operations, and kills of
  the process between any two file operations. What was written survives a kill
  (the operating system goes on). A record of the manifest is written whole; the
  cut-off record is the subject of `LogFormat` and `VersionEdit`.
- **Repair**: `RepairDB` on what a database, damage and a killed earlier repair
  leave. The database's life is puts, flushes and compactions of whole levels.
  Damage to a table is damage that its reader notices.
- **Levels**: where a memtable goes, the choice of a compaction and its inputs,
  what it drops, snapshots and `Get`. Sizes are numbers of entries.
- **Arena**, **SkipList** (implements **OrderedSet**), **MemTable** (over an
  `OrderedSet`): the memory, the list and the entries of a memtable. In
  `SkipList` every load and every store is a step, the height that a reader sees
  may be old, memory that was not initialised is `Garbage`, and `links` is a
  history variable.
- **Iterators** (implements **Cursor**): the user's iterator over the merging
  iterator over a memtable and a two-level iterator. A call is atomic with
  respect to inserts.
- **Block**, **BlockIter**, **Table**, **LruCache**: blocks with shared prefixes
  and restarts, tables with index and Bloom filters, the cache of open tables
  (one shard, charge 1). The hash is a given function; lengths are below 128.
- **Snappy**: the compressor, the decompressor and the validator with the real
  format constants; the block size and the hash table are small.
- **MapFile**, **LogFormat**: the memory-mapped file with its regions, syncs,
  flushes that fail and kills; the log writer over it and the reader. The checksum is injective, and
  the reader starts at offset 0.
- **VersionEdit**, **FileName**: records of the manifest with their varints; the
  names of files with the overflow test of their parser. Widths are small.

## The runs

Several components share one run: an MC module that lists parts declares the
variables of all of them, `part` picks one in the initial state, and the others
rest. A property of such a run is a conjunction of `part = "..." => ...`, so each
part is checked as if it were alone. The parts are independent state machines;
nothing is claimed about their combination except where a module composes
components (`TransactionProcess`, `Restart`, `LogFormat` over `MapFile`,
`Table` over `Block`).

| run | parts | what it shows |
| --- | --- | --- |
| `entity` | | the two tables agree and what is stale is queued (`TablesConsistent`); entities are exactly the components of co-spending; merges are never undone; `EntityProcess` implements `AddressPartition` |
| `transactions` | | every input finds its output in the store; balances are the unspent outputs, coins add up, peaks and queued entities are right (`LedgerIsRight`); the calls keep the order and the preconditions that the clustering relies on (`KeepsEntityContract`) |
| `driver` | months, restart, report | blocks and transactions get their numbers (`BlocksAreNumbered`), none is lost or read twice (`NoneLostOrDoubled`), a month ends where its stop date says (`MonthIsClosed`), the saved cursor only advances (`CursorAdvances`); a kill between two writing statements books at most the unsaved work again, input by input and output by output, and never splits co-spent addresses (`RestartIsSafe`); the buckets of the report count each row once (`ReportIsRight`); all of it ends (`Completes`) |
| `formats` | codec, parse, script, digest, edit, name, log | ids, integers, blocks, scripts, hash padding, manifest records, file names, mapped files and logs are read back as they were written; a cut-off tail is dropped and never misread |
| `tables` | arena, mem, block, table, tables, snappy, cache, levels, snapshots, zero | pieces of memory are apart and aligned (`MemoryIsRight`); readers see whole batches (`BatchesAreWhole`); a block iterator stands where the sorted entries say; tables, filters and block cache return what was added; Snappy inverts itself and rejects what it cannot decode; an open table is not closed under a reader; files of a level are disjoint, newer entries are above older ones and `Get` returns the latest (`LevelsAreRight`) |
| `threads` | wake, write, flush, range, single | one `Signal` wakes one waiter (`WakesOne`); each write gets into one group and one sequence number, sync and log hold for the group, also beside flushes, manual compactions, faults and shutdown (`WritesAreSafe`); every call of a single thread returns, and with several threads every call returns or `SignalAll` hung because two of them waited on `bg_cv_` (`AllReturn`) |
| `recovery` | use, reopen, errors, repair | the database implements `Durable` under kills between any two file operations; it opens again; a table is never changed; `RepairDB` destroys nothing |
| `reads` | list, cursor, turns | the skip list's invariant, its refinement of `OrderedSet`, the end of searches; the iterators implement `Cursor` |
| `aggregates`, `restart_books`, `rename_kill`, `signal_all` | | four disagreements of code and comments, see below |

### Bounds

- `entity`: 3 addresses, vectors of up to 2: chains of merges over a shared
  address, payments to old and new addresses in one transaction.
- `transactions`: 3 addresses, 3 transactions of up to 2 inputs and outputs,
  reward 2: outputs spent in and across transactions, change to the spender.
- `driver`: three files with an empty one, block times that go back, months that
  end inside a file, at its end and after the last block, two failing files, two
  kills; chains of four transactions in two months for `restart`; for `report`
  rows at every bound of every distribution and next to it, counts of 0 included.
- `formats`: ids around every power of two below 2^31; bytes of base 8; scripts
  of every form with up to two bytes around them; hash blocks of 16 and messages
  up to 66; groups of 2 bits for varints of widths 5 and 7; numbers of 7 bits in
  names; log blocks of 7, headers of 3, up to 3 records of sizes 0, 1, 3, 4
  and 9 (within, filling and crossing blocks), one failing map, one failing `Sync`.
- `tables`: 2 keys and sequence numbers up to 4; blocks of up to 10 entries;
  tables of up to 6, two tables of up to 8; Snappy inputs up to 340 bytes over a
  block size of 300 with a table of 128; a cache shard of 2 for 4 files, 2
  threads; for the levels 3 keys, 4 writes, 4 levels, 2 snapshots, where `zero`
  keeps flushes in level 0 and adds `CompactRange`.
- `threads`: 3 waiters and 3 events; 3 clients and one fault; in `range` two
  clients with three calls and no fault; in `single` one client with three calls
  and one fault. `AllReturn` is checked for all but `write`.
- `recovery`: 2 keys, 2 or 3 writes, one compaction, up to 2 kills, one fault.
  `errors`, where the operations of `Open` fail, is about sequence numbers and
  the tables only: an `Open` that fails there may lose a log (see below).
- `reads`: 4 keys, height 2, one reader beside the writer; 2 or 3 keys for
  iterators.

The sizes are the least at which each path of the code is taken: every action and
every disjunct of every next-state relation fires. Symmetry is used for the
addresses of `transactions` and `aggregates` only (`Permutations(Address)`);
elsewhere the first key, or the order of the first calls, is fixed where keys or
callers are interchangeable.
`entity` runs on `EntityProcess` itself, without symmetry; `threads` extends
`CondVar` and `WriteQueue`, so the definitions that it checks are the ones that
the proofs are about.

### Fairness

Safety runs assume none. For liveness the program's own steps are weakly fair: a
sequential program that can go on does (`Months`, `Booking`, `Reporting`,
`Opening`, the steps of a reader), and the operating system schedules threads
that can run (`Inside`, `Beside`, `Closing`). Kills, faults, new calls and the
growth of the chain are never fair. Deadlock is not checked where the programs
end.

## The proofs

TLAPS proves the following for all values of the constants, not only for the
instances of the runs.

**Clustering** (`EntityProcessProofs`). `EntityInv` strengthens
`TablesConsistent` by types and by what is known at each stage: the inputs have
rows with ids, the outputs have rows before `output_entity_mysql`. The steps are
one lemma each. From it follow `EntitySafety`, `EntityTypes`, `MergesFinal`, and
the refinement `EntityRefinesPartition` under the mapping `clusterBar`: an
address without an id is not yet known to the partition, a merge is a `CoSpend`,
an assignment is a `Learn`, everything else stutters. `PartitionCorrect` shows of
the abstract machine that clusters are the connected components of co-spending,
with `PartitionInv` (clusters are equivalence classes, each set that was spent
together lies in one, and a set closed under co-spending contains the clusters of
its members); `EntityIsComponent` transfers it.

**Ledger** (`TransactionProcessProofs`). `LedgerInv` says of the records and
tables what the steps of a transaction rely on: a record in LevelDB holds the
transaction's outputs in their order (`Stored`), every address paid by an earlier
transaction has a row and an id (`Paid`), the vectors read so far are those of
the transaction (`InputsInv`, `OutputsInv`). Hence `EveryInputFound`: the lookup
of a spent output never fails; `ContractKept`: the calls of the ledger are steps
of `EntityProcess`, including the precondition that input addresses have rows;
and with the theorems above `EntitiesAreRight`: in the composed program the
tables are consistent, the entities are the components and merges are final.

**Reading** (`UnzipBlocksProofs`). `CursorInv` relates the cursor of the running
program and of the resume file to a place in the files; `OnceInv`, `SkipInv` and
`AheadInv` say which blocks have been handed on exactly once, skipped or not yet
reached; `TxInv`, `StopInv`, `MonthInv` and `RowsInv` relate the numbers, the stop
dates and the rows to that place. Hence `BlockNumbering`, `NoneLost`,
`CursorOnlyAdvances` and `MonthCloses`, for all files, months and kills.

**Ids** (`EntityCodec`, proof at the end of `TransactionProcessProofs`).
`CodecExact`: the four bytes of every 32-bit id come back as that id through
hexadecimal text, column and reversal.

**Skip list** (`SkipListProofs`). `IInv` is `TypeOK`, that every level is sorted
and contained in the one below (`Sorted`), what the writer knows between its
stores (`WriterInv`) and what a reader in the middle of a search knows
(`ReaderInv`): its node was linked when it was reached, and the key sought is
above it. `Refinement` shows that inserts take effect at the store in level 0 and
answers at the last load, in any interleaving with the writer; `AlwaysSorted` and
`Invariant` are the safety part.

**Memory and memtable** (`MemTableProofs`). `ArenaRight`: pieces lie
inside blocks, apart from each other and aligned, for all sizes. `MemTableSafe`:
a reader at a published sequence number sees whole batches, on top of
`OrderedSet`, which the skip list implements.

**Condition variable** (`CondVar`). `WakesWaiter`: a wake-up is always in exactly
one place, on `sem1_`, with the woken thread or on `sem2_`; so a signal wakes
exactly one thread that waited, and none is stored for a later one.

**Group commit** (`WriteQueueInv`, `WriteQueueProofs`). `WritesSafe`: for any
threads, requests, sizes, limits and faults, what a memtable holds is in a log
that recovery reads; a write that returned OK is in a memtable or a table under a
number that no other write has and that readers see; and a sync write that
returned OK is on disk, whoever wrote it. None of these is inductive, because the
thread that a write belongs to sleeps while another one logs, syncs, inserts and
publishes it. The invariant `QInv` follows the write from hand to hand:

- `QueueInv`: the queue holds, once each, the threads whose write is not done, and
  whoever is past the wait for its turn is the first of them;
- `GroupInv`: the group is a prefix of the queue however many have joined behind
  it, `updates` are exactly its batches, and a member that wants a sync is led by
  one that syncs;
- `LogInv`: how far the log, the sync and the memtable have got with the group at
  each label of its leader;
- `NumberInv`: a number that is not yet visible belongs to the group that is being
  inserted, and lies within the room that `Finish` adds to `last_sequence`; a
  queued write has no number before;
- `ResultInv`: what was promised holds of a write from the moment its leader calls
  it done, before its own thread knows.

The argument does not use `mutex_`. A step of a thread that only moves its label
is one lemma (`ThreadMoves`); `WriteStep`, `InsertIntoStep` and `FinishStep`, in
which a thread joins, the batches get numbers and the group leaves, are the heart
of it. TLC checked `QInv` on three threads with one call each and on two with two
calls each before it was proved.

The assumptions are named in the modules that declare the constants, and TLC
evaluates them in the runs: the virtual address is no address and vectors are
not empty (`CoinbaseAssumption`, `VectorsAssumption`, `AddressAssumption`);
transactions have inputs and outputs over these (`TransactionsAssumption`);
blocks have a size, files follow each other and months do too
(`SizesAssumption`, `LayoutAssumption`, `CountsAssumption`, `StopsAssumption`);
ids have 32 bits (`IdsAssumption`); the thread of the destructor is none of the
clients (`ThreadsDiffer`); and the types of the constants of `Arena`,
`SkipList`, `CondVar` and `MemTable`.

### Only model-checked

- Liveness (`Completes`, `AllReturn`, `EventuallyOpen`, `SearchEnds`): fairness is
  out of the prover's reach.
- The sums of the ledger (balances, peaks, coins) and everything defined by
  recursion or a fold over a sequence or a set: the report, the parser, the
  scripts, the digests, the log and manifest formats, blocks, tables and Snappy.
  What they compute for every input needs induction over data.
- `Restart`, `Recovery`, `Repair`, `Levels`, `LruCache` and `Iterators`: their invariants are checked on the instances above.

## Disagreements of code and comments

Four are kept as runs that end in a counterexample:

- `aggregates` (`EntityProcess.h:229`): for a paid address that has an entity the
  code queues the newest id, not that entity ("record the affected entity").
- `restart_books` (`unzipBlocks.h:309`): the cursor is saved once a month, so a
  program that is killed inside a month books it again, although "the block at
  which it starts again must skip the part that was already read".
- `rename_kill` (`env_win.cc:845`): `RenameFile` deletes `CURRENT` before it moves
  the new one into place; a kill in between and the next `Open` leave an empty
  database. The passing runs set `KillInRename` to FALSE.
- `signal_all` (`port_win.cc:115`): "Wake up all waiting threads." With two
  threads waiting, `SignalAll` releases one, its inner loop takes `waiting_` to 0
  and waits for two answers, of which the second never comes. The analysis
  program writes from one thread, so no two threads wait in it; `AllReturn` shows
  for that use that every call returns, and for several threads that this is the
  only way in which one does not.

The following were met while modelling. The models contain the behaviour; the
passing properties are stated so that they are true of it, or the instance leaves
the case out as noted.

- `unzipBlocks.h:313`: the saved block number is one too small when the files are
  exhausted. It is only printed.
- `unzipBlocks.h:231`: the block reward wraps around for a block that claims less
  than the subsidy; the property on rewards is about the others.
- `unzipBlocks.h:66`, `:310`: a restarted program may give out ids again that the
  killed month had given out; a kill while the resume file is rewritten leaves it
  empty (`MaxTorn` is 0).
- `block.h:342`, `:380`: compressed keys in scripts are hashed once, so their
  address is another than that of a payment to the key's hash; the scan ends one
  position early; bare keys with an unknown first byte share the address of zeros,
  scripts that are too short that of ones. `OneOwner` says for five common forms
  which address they get, and for every script that its address is made of bytes
  of that script, or is one of the two shared ones.
- `Statistical.h:180`, `:1332`, `:1481`: a row last used exactly at `before` is
  neither stopped nor not stopped; the fee section repeats the balances; the lines
  of the last section go to a stream that failed.
- `Statistical.h:1102`, `:577`: a row with no transaction, or an entity with no
  address yet, is in no bucket of the counts; `ReportIsRight` counts the others.
- `Statistical.h:1470`, `:1484`: no bucket of `tx_amount` has the amounts from 400
  to 420; and `tx_amount` and `tx_size` ask for transactions from `after` on and
  before `before`, of which there are none, so all their lines are zeros. No
  property is about these two.
- `env_win.cc:592`, `:602`: `Sync` marks the bytes as synced before it flushes them,
  so after a failed `Sync` the next one returns OK without them. The caller,
  `DBImpl::Write`, refuses all later writes after such an error; `FileIsExact`
  excepts these bytes.
- `db_impl.cc:726`, `:1279`, `:344`: a manual compaction may be followed after it
  was withdrawn; a request to flush may be absorbed by another writer's group; the
  error of an older log is overwritten by a younger one's success. The instances
  combine no fault with the first, and the properties are about the rest.
- `env_win.cc:844`, `:624`: `RenameFile` reports success for most errors; a file
  that exists is opened without being emptied (`Existing` is empty).
- `version_set.cc:1311`, `:520`: an output may end between two versions of a key;
  a flush during a manual compaction may land inside its output. The parts
  `levels`, `snapshots` and `zero` use sizes, or a level for flushes, with which neither happens.
- `log_reader.cc:246`, `log_writer.cc:98`: a record cut off by a kill is reported
  as corruption because the file ends in zeros; after a failed `Append` later
  records are off their blocks.
- `repair.cc:399`, `:193`: repaired tables all go to level 0, where their numbers
  need not follow the age of their entries; records are read without checksums.

## Not modelled

The C interface of LevelDB, its tools, benchmarks and tests, the POSIX port, the
in-memory environment, the rounds of SHA-256, RIPEMD-160, CRC and the string
hash (fixed arithmetic without state), base58 (not called), `Txprocess.h` (not
built), failing MySQL statements, and the `iovec` and C interfaces of Snappy.
Crashes of the operating system are left out of `Recovery`: what was written
survives there; what a sync covers is in `MapFile`.

## Running

`tlc -config X.cfg M` checks a run, `tlapm M.tla` the proofs of a module. The
largest runs, `tables` and `reads`, take about three minutes on two cores; the proofs take
about twenty minutes in all. The proofs on group commit are in two modules
because tlapm takes longer over each leaf the more a module has.
