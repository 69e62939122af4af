------------------------------ MODULE LruCache ------------------------------
(***************************************************************************)
(* One shard of the cache of open tables and the threads that use it       *)
(* through TableCache: a table is looked up, or opened and inserted by     *)
(* every thread that does not find it, used, and released. A handle is a   *)
(* piece of memory that is used again once it is freed. Each call of the   *)
(* cache holds the shard's lock.                                           *)
(***************************************************************************)
EXTENDS Integers, Sequences, SequencesExt, FiniteSets, FiniteSetsExt

CONSTANTS
    Thread,
    File,               \* numbers: file numbers are the keys
    Handle,             \* memory for handles: numbers
    None,
    Capacity, kNumShards,
    MinLength           \* the shortest hash table

VARIABLES
    entry,              \* what is in each handle: key and refs, or None
    lru_,               \* the list, oldest first
    list_, length_, elems_,     \* HandleTable
    usage_,
    thread              \* where each thread is in TableCache

shard == <<entry, lru_, list_, length_, elems_, usage_>>
vars == <<shard, thread>>

capacity_ == (Capacity + kNumShards - 1) \div kNumShards
Hash(f) == f
Bucket(f, length) == Hash(f) % length

-----------------------------------------------------------------------------
(* HandleTable: a shard's fields are in a record s.                        *)
Shard == [entry |-> entry, lru |-> lru_, list |-> list_, length |-> length_, elems |-> elems_,
          usage |-> usage_]
Chain(s, f) == s.list[Bucket(f, s.length)]
Find(s, f) == LET found == {n \in DOMAIN Chain(s, f) : s.entry[Chain(s, f)[n]].key = f}
              IN IF found = {} THEN None ELSE Chain(s, f)[CHOOSE n \in found : TRUE]
NewLength(s) == CHOOSE n \in {MinLength * 2^j : j \in 0..s.elems} :
                    n >= s.elems /\ (n = MinLength \/ n \div 2 < s.elems)
Rehash(s, length) ==
    LET moved == FlattenSeq([b \in 1..s.length |-> s.list[b - 1]])
    IN [b \in 0..(length - 1) |->
           Reverse(SelectSeq(moved, LAMBDA h : Bucket(s.entry[h].key, length) = b))]
Resize(s) == [s EXCEPT !.list = Rehash(s, NewLength(s)), !.length = NewLength(s)]
TableInsert(s, h) ==
    LET f == s.entry[h].key
        old == Find(s, f)
        chain == Chain(s, f)
        put == [s EXCEPT !.list[Bucket(f, s.length)] =
                    IF old = None THEN Append(chain, h)
                    ELSE [n \in DOMAIN chain |-> IF chain[n] = old THEN h ELSE chain[n]],
                         !.elems = IF old = None THEN @ + 1 ELSE @]
    IN IF old = None /\ put.elems > put.length THEN Resize(put) ELSE put
TableRemove(s, f) ==
    LET h == Find(s, f)
    IN IF h = None THEN s
       ELSE [s EXCEPT !.list[Bucket(f, s.length)] = Remove(@, h), !.elems = @ - 1]

(* LRUCache                                                                *)
Unref(s, h) ==
    IF s.entry[h].refs = 1 THEN [s EXCEPT !.entry[h] = None, !.usage = @ - 1]
    ELSE [s EXCEPT !.entry[h].refs = @ - 1]
LRU_Remove(s, h) == [s EXCEPT !.lru = Remove(@, h)]
LRU_Append(s, h) == [s EXCEPT !.lru = Append(@, h)]
LookedUp(s, h) ==
    LRU_Append(LRU_Remove([s EXCEPT !.entry[h].refs = @ + 1], h), h)
RECURSIVE Evicted(_)
Evicted(s) ==
    IF s.usage > capacity_ /\ s.lru # <<>>
      THEN LET h == Head(s.lru)
           IN Evicted(Unref(TableRemove(LRU_Remove(s, h), s.entry[h].key), h))
      ELSE s
\* [Mutant: one reference for the cache and none for the caller.]
NewRefs_Mutant == 1
NewRefs == 2
Inserted(s, f, h) ==
    LET added == LRU_Append([s EXCEPT !.entry[h] = [key |-> f, refs |-> NewRefs],
                                      !.usage = @ + 1], h)
        old == Find(s, f)
        put == TableInsert(added, h)
    IN Evicted(IF old = None THEN put ELSE Unref(LRU_Remove(put, old), old))
Erased(s, f) ==
    LET h == Find(s, f)
    IN IF h = None THEN s ELSE Unref(LRU_Remove(TableRemove(s, f), h), h)

SetShard(s) == /\ entry' = s.entry /\ lru_' = s.lru /\ list_' = s.list /\ length_' = s.length
               /\ elems_' = s.elems /\ usage_' = s.usage

-----------------------------------------------------------------------------
(* TableCache                                                              *)
Using(f, h) == [pc |-> "using", file |-> f, handle |-> h]
Idle == [pc |-> "idle", file |-> 0, handle |-> None]
FindTable(t, f) ==
    LET h == Find(Shard, f)
    IN /\ thread[t].pc = "idle"
       /\ IF h = None
            THEN /\ thread' = [thread EXCEPT ![t] = [pc |-> "open", file |-> f, handle |-> None]]
                 /\ UNCHANGED shard
            ELSE /\ SetShard(LookedUp(Shard, h))
                 /\ thread' = [thread EXCEPT ![t] = Using(f, h)]
Opened(t) ==
    /\ thread[t].pc = "open"
    /\ LET h == Min({x \in Handle : entry[x] = None})       \* malloc
       IN /\ SetShard(Inserted(Shard, thread[t].file, h))
          /\ thread' = [thread EXCEPT ![t] = Using(thread[t].file, h)]
\* The file cannot be opened: nothing is cached.
OpenFails(t) ==
    /\ thread[t].pc = "open" /\ thread' = [thread EXCEPT ![t] = Idle] /\ UNCHANGED shard
\* After Get, or when the iterator is deleted.
Release(t) ==
    /\ thread[t].pc = "using"
    /\ SetShard(Unref(Shard, thread[t].handle))
    /\ thread' = [thread EXCEPT ![t] = Idle]
Evict(f) == SetShard(Erased(Shard, f)) /\ UNCHANGED thread

Init ==
    /\ entry = [h \in Handle |-> None] /\ lru_ = <<>> /\ usage_ = 0
    /\ list_ = [b \in 0..(MinLength - 1) |-> <<>>] /\ length_ = MinLength /\ elems_ = 0
    /\ thread = [t \in Thread |-> Idle]
Next ==
    \/ \E t \in Thread : (\E f \in File : FindTable(t, f)) \/ Opened(t) \/ OpenFails(t) \/ Release(t)
    \/ \E f \in File : Evict(f)
Spec == Init /\ [][Next]_vars

-----------------------------------------------------------------------------
InUse(h) == {t \in Thread : thread[t].pc = "using" /\ thread[t].handle = h}
(* The table that a thread uses is the one it asked for and is not closed  *)
(* under it, though the same file may have been opened twice, evicted,     *)
(* erased and opened again since.                                          *)
StaysOpen ==
    \A t \in Thread : thread[t].pc = "using" =>
        entry[thread[t].handle] # None /\ entry[thread[t].handle].key = thread[t].file

(* No table stays open for nothing: each handle has the cache or a thread  *)
(* behind every reference, and what is in the list is what can be found.   *)
NothingLeaks ==
    /\ \A h \in Handle : entry[h] # None =>
          entry[h].refs = Cardinality(InUse(h)) + (IF h \in ToSet(lru_) THEN 1 ELSE 0)
    /\ usage_ = Cardinality({h \in Handle : entry[h] # None})
    /\ \A h \in ToSet(lru_) : Find(Shard, entry[h].key) = h
    /\ elems_ = Len(lru_)

(* The cache is above its capacity only by what threads are using.         *)
WithinCapacity == usage_ > capacity_ => lru_ = <<>>
=============================================================================
