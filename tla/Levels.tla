------------------------------- MODULE Levels -------------------------------
(***************************************************************************)
(* The levels of tables of a LevelDB version: where a memtable goes, which *)
(* files a compaction takes, what it writes, how Get searches. A memtable  *)
(* may be flushed while a compaction works on the version before.          *)
(*                                                                         *)
(* Sizes are numbers of entries.                                           *)
(***************************************************************************)
EXTENDS Integers, Sequences, SequencesExt, FiniteSets, FiniteSetsExt

CONSTANTS
    Key,                \* user keys, an interval of the integers
    Types,              \* of the writes: "value", "deletion"
    Manual,             \* ranges that CompactRange is called with: <<begin, end>>
    MaxWrites,          \* bound: writes
    MaxSnapshots,       \* bound: snapshots taken
    kNumLevels, kMaxMemCompactLevel, kL0_CompactionTrigger,
    kTargetFileSize, kMaxBytes, kMultiplier, kMaxGrandParentOverlapBytes,
    kExpandedCompactionByteSizeLimit

VARIABLES
    mem,                \* the entries of the memtable
    files_,             \* the current version: for each level its sorted files
    compact_pointer_,   \* for each level, where the last compaction ended
    snapshots_, last_sequence, number,
    c,                  \* the compaction at work
    written, taken      \* history: all entries; the number of snapshots taken

vars == <<mem, files_, compact_pointer_, snapshots_, last_sequence, number, c, written,
          taken>>

Level == 0..(kNumLevels - 1)
NoPointer == [key |-> Min(Key) - 1, seq |-> 0]
NoCompaction == [level |-> -1]

Init ==
    /\ mem = {} /\ files_ = [level \in Level |-> <<>>]
    /\ compact_pointer_ = [level \in Level |-> NoPointer]
    /\ snapshots_ = <<>> /\ last_sequence = 0 /\ number = 1
    /\ c = NoCompaction /\ written = {} /\ taken = 0

-----------------------------------------------------------------------------
(* Internal keys: by user key, then from the newest to the oldest.         *)
Before(a, b) == a.key < b.key \/ (a.key = b.key /\ a.seq > b.seq)
File(n, es) ==
    [number |-> n, entries |-> es,
     smallest |-> CHOOSE e \in es : \A d \in es : ~ Before(d, e),
     largest |-> CHOOSE e \in es : \A d \in es : ~ Before(e, d)]
Size(fs) == FoldLeft(LAMBDA sum, f : sum + Cardinality(f.entries), 0, fs)

\* VersionSet::Builder: files of a level by smallest key, then by number.
BySmallestKey(f, g) ==
    \/ Before(f.smallest, g.smallest)
    \/ (f.smallest = g.smallest /\ f.number < g.number)
SaveTo(level, deleted, added) ==
    SetToSortSeq((ToSet(files_[level]) \ deleted) \cup added, BySmallestKey)

\* The first file whose largest key is not before e, by binary search.
FindFile(fs, e) ==
    LET Halve(lr, i) ==
            LET mid == (lr[1] + lr[2]) \div 2
            IN IF lr[1] >= lr[2] THEN lr
               ELSE IF Before(fs[mid + 1].largest, e) THEN <<mid + 1, lr[2]>>
               ELSE <<lr[1], mid>>
    IN FoldLeft(Halve, <<0, Len(fs)>>, fs)[2] + 1

(* A range is <<begin, end>>, of user keys.                                *)
Overlaps(f, r) == ~ (f.largest.key < r[1]) /\ ~ (f.smallest.key > r[2])
OverlapInLevel(level, r) == \E i \in DOMAIN files_[level] : Overlaps(files_[level][i], r)

\* Files of level 0 may overlap each other: the range grows until it holds.
GrownRange(level, r) ==
    LET Grow(s, i) ==
            LET hit == {f \in ToSet(files_[level]) : Overlaps(f, s)}
            IN <<Min({s[1]} \cup {f.smallest.key : f \in hit}),
                 Max({s[2]} \cup {f.largest.key : f \in hit})>>
    IN IF level = 0 THEN FoldLeft(Grow, r, files_[level]) ELSE r
GetOverlappingInputs(level, r) ==
    SelectSeq(files_[level], LAMBDA f : Overlaps(f, GrownRange(level, r)))

GetRange(fs) == <<Min({fs[i].smallest.key : i \in DOMAIN fs}),
                  Max({fs[i].largest.key : i \in DOMAIN fs})>>
LargestOf(fs) ==
    CHOOSE e \in {f.largest : f \in ToSet(fs)} : \A f \in ToSet(fs) : ~ Before(e, f.largest)

-----------------------------------------------------------------------------
(* Writes and snapshots.                                                   *)
Put(k, type) ==
    LET e == [key |-> k, seq |-> last_sequence + 1, type |-> type]
    IN /\ last_sequence < MaxWrites
       /\ mem' = mem \cup {e} /\ written' = written \cup {e}
       /\ last_sequence' = last_sequence + 1
       /\ UNCHANGED <<files_, compact_pointer_, snapshots_, number, c, taken>>
GetSnapshot ==
    /\ taken < MaxSnapshots
    /\ snapshots_' = Append(snapshots_, last_sequence) /\ taken' = taken + 1
    /\ UNCHANGED <<mem, files_, compact_pointer_, last_sequence, number, c, written>>
ReleaseSnapshot(i) ==
    /\ snapshots_' = RemoveAt(snapshots_, i)
    /\ UNCHANGED <<mem, files_, compact_pointer_, last_sequence, number, c, written, taken>>

(* A flush: the table goes as deep as no file overlaps it, and the level   *)
(* below that one does not overlap it too much.                            *)
GoesBelow(level, r) ==
    /\ ~ OverlapInLevel(level + 1, r)
    /\ level + 2 < kNumLevels =>
          Size(GetOverlappingInputs(level + 2, r)) <= kMaxGrandParentOverlapBytes
PickLevelForMemTableOutput(r) ==
    IF OverlapInLevel(0, r) THEN 0
    ELSE CHOOSE level \in 0..kMaxMemCompactLevel :
            /\ \A below \in 0..(level - 1) : GoesBelow(below, r)
            /\ level < kMaxMemCompactLevel => ~ GoesBelow(level, r)
CompactMemTable ==
    LET f == File(number, mem)
        level == PickLevelForMemTableOutput(GetRange(<<f>>))
    IN /\ mem # {}
       /\ files_' = [files_ EXCEPT ![level] = SaveTo(level, {}, {f})]
       /\ number' = number + 1
       /\ mem' = {}
       /\ UNCHANGED <<compact_pointer_, snapshots_, last_sequence, c, written, taken>>

-----------------------------------------------------------------------------
(* SetupOtherInputs: the files of the next level, and more files of this   *)
(* one if they take no more of the next.                                   *)
Expands(level, in0, in1, expanded0) ==
    /\ in1 # <<>> /\ Len(expanded0) > Len(in0)
    /\ Size(in1) + Size(expanded0) < kExpandedCompactionByteSizeLimit
    /\ Len(GetOverlappingInputs(level + 1, GetRange(expanded0))) = Len(in1)
SetupOtherInputs(level, in0) ==
    LET in1 == GetOverlappingInputs(level + 1, GetRange(in0))
        expanded0 == GetOverlappingInputs(level, GetRange(in0 \o in1))
        inputs0 == IF Expands(level, in0, in1, expanded0) THEN expanded0 ELSE in0
    IN [level |-> level, in0 |-> inputs0, in1 |-> in1,
        grandparents |-> IF level + 2 < kNumLevels
                         THEN GetOverlappingInputs(level + 2, GetRange(inputs0 \o in1))
                         ELSE <<>>,
        deeper |-> UNION {ToSet(files_[l]) : l \in (level + 2)..(kNumLevels - 1)},
        smallest_snapshot |-> IF snapshots_ = <<>> THEN last_sequence ELSE snapshots_[1]]

Started(compaction) ==
    /\ compact_pointer_' = [compact_pointer_ EXCEPT
                               ![compaction.level] = LargestOf(compaction.in0)]

(* PickCompaction: the level that is fullest, from the file after the last *)
(* compaction's end; or a file that too many reads had to look past.       *)
Score(level) == IF level = 0 THEN <<Len(files_[0]), kL0_CompactionTrigger>>
                ELSE <<Size(files_[level]), kMaxBytes * kMultiplier^(level - 1)>>
Fuller(a, b) == Score(a)[1] * Score(b)[2] > Score(b)[1] * Score(a)[2]
CompactionLevel ==
    CHOOSE level \in 0..(kNumLevels - 2) :
        \A other \in 0..(kNumLevels - 2) \ {level} :
            ~ Fuller(other, level) /\ (other < level => Fuller(level, other))
SizeCompaction == Score(CompactionLevel)[1] >= Score(CompactionLevel)[2]
NextFile(level) ==
    LET after == SelectSeq(files_[level],
                    LAMBDA f : compact_pointer_[level] = NoPointer
                               \/ Before(compact_pointer_[level], f.largest))
    IN IF after = <<>> THEN files_[level][1] ELSE after[1]

\* The files that Get looks at for a key, in order.
InRange(k, f) == f.smallest.key <= k /\ k <= f.largest.key
FilesFor(k, s, level) ==
    IF level = 0
    THEN SortSeq(SelectSeq(files_[0], LAMBDA f : InRange(k, f)),
                 LAMBDA f, g : f.number > g.number)
    ELSE LET i == FindFile(files_[level], [key |-> k, seq |-> s])
         IN IF i > Len(files_[level]) \/ k < files_[level][i].smallest.key THEN <<>>
            ELSE <<files_[level][i]>>
\* All of them, with their levels; a second one charges the first with a seek.
Searched(k, s) ==
    FlattenSeq([n \in 1..kNumLevels |->
        LET fs == FilesFor(k, s, n - 1) IN [i \in DOMAIN fs |-> <<n - 1, fs[i]>>]])
Sought == {Searched(k, s)[1] :
             <<k, s>> \in {ks \in Key \X (1..last_sequence) : Len(Searched(ks[1], ks[2])) > 1}}

WithLevel0(level, f) ==
    IF level = 0 THEN GetOverlappingInputs(0, GetRange(<<f>>)) ELSE <<f>>
IsTrivialMove(k) ==
    /\ Len(k.in0) = 1 /\ k.in1 = <<>>
    /\ Size(k.grandparents) <= kMaxGrandParentOverlapBytes

Picked(k) ==
    /\ Started(k)
    /\ IF IsTrivialMove(k)
         THEN /\ files_' = [files_ EXCEPT
                      ![k.level] = SaveTo(k.level, ToSet(k.in0), {}),
                      ![k.level + 1] = SaveTo(k.level + 1, {}, ToSet(k.in0))]
              /\ UNCHANGED c
         ELSE c' = k /\ UNCHANGED files_
    /\ UNCHANGED <<mem, snapshots_, last_sequence, number, written, taken>>

PickBySize ==
    /\ c = NoCompaction /\ SizeCompaction
    /\ LET level == CompactionLevel
       IN Picked(SetupOtherInputs(level, WithLevel0(level, NextFile(level))))
PickBySeek ==
    /\ c = NoCompaction /\ ~ SizeCompaction
    /\ \E lf \in Sought : Picked(SetupOtherInputs(lf[1], WithLevel0(lf[1], lf[2])))

(* CompactRange: at levels above 0, files up to the size of one output.    *)
Limited(level, fs) ==
    LET full == {n \in DOMAIN fs : Size(SubSeq(fs, 1, n)) >= kTargetFileSize}
    IN IF level = 0 \/ full = {} THEN fs ELSE SubSeq(fs, 1, Min(full))
CompactRange(level, r) ==
    LET inputs == Limited(level, GetOverlappingInputs(level, r))
    IN /\ c = NoCompaction /\ inputs # <<>>
       /\ c' = SetupOtherInputs(level, inputs)
       /\ Started(c')
       /\ UNCHANGED <<mem, files_, snapshots_, last_sequence, number, written, taken>>

-----------------------------------------------------------------------------
(* DoCompactionWork: the entries of the inputs in order, what is dropped   *)
(* and where an output ends.                                               *)
Merged == SetToSortSeq(UNION {f.entries : f \in ToSet(c.in0 \o c.in1)}, Before)

IsBaseLevelForKey(k) == \A f \in c.deeper : ~ InRange(k, f)
Obsolete(e) ==
    e.type = "deletion" /\ e.seq <= c.smallest_snapshot /\ IsBaseLevelForKey(e.key)
\* [Mutant: an entry is hidden by any newer one.]
Hidden_Mutant(e) ==
    \E d \in ToSet(Merged) : d.key = e.key /\ d.seq > e.seq
Hidden(e) ==
    \E d \in ToSet(Merged) :
        d.key = e.key /\ d.seq > e.seq /\ d.seq <= c.smallest_snapshot

\* ShouldStopBefore: the grandparents passed since the output began.
Passed(out, e) ==
    LET n == Cardinality({i \in DOMAIN c.grandparents :
                            Before(c.grandparents[i].largest, e)})
    IN [out EXCEPT !.index = Max({@, n}), !.seen = TRUE,
           !.overlapped = @ + IF out.seen
                              THEN Size(SubSeq(c.grandparents, out.index + 1, n)) ELSE 0]
Stopped(out) ==
    IF out.overlapped <= kMaxGrandParentOverlapBytes THEN out
    ELSE [out EXCEPT !.overlapped = 0, !.done = Append(@, out.current), !.current = {}]
Added(out, e) ==
    IF Hidden(e) \/ Obsolete(e) THEN out
    ELSE IF Cardinality(out.current) + 1 >= kTargetFileSize
         THEN [out EXCEPT !.done = Append(@, out.current \cup {e}), !.current = {}]
    ELSE [out EXCEPT !.current = @ \cup {e}]
Outputs ==
    LET out == FoldLeft(LAMBDA o, e : Added(Stopped(Passed(o, e)), e),
                  [done |-> <<>>, current |-> {}, index |-> 0, seen |-> FALSE,
                   overlapped |-> 0], Merged)
        all == SelectSeq(Append(out.done, out.current), LAMBDA es : es # {})
    IN {File(number + i - 1, all[i]) : i \in DOMAIN all}

\* InstallCompactionResults: in the version of now, not of the start.
DoCompactionWork ==
    /\ c # NoCompaction
    /\ files_' = [files_ EXCEPT
            ![c.level] = SaveTo(c.level, ToSet(c.in0), {}),
            ![c.level + 1] = SaveTo(c.level + 1, ToSet(c.in1), Outputs)]
    /\ number' = number + Cardinality(Outputs)
    /\ c' = NoCompaction
    /\ UNCHANGED <<mem, compact_pointer_, snapshots_, last_sequence, written, taken>>

-----------------------------------------------------------------------------
Next ==
    \/ \E k \in Key, type \in Types : Put(k, type)
    \/ GetSnapshot
    \/ \E i \in DOMAIN snapshots_ : ReleaseSnapshot(i)
    \/ CompactMemTable
    \/ PickBySize
    \/ PickBySeek
    \/ \E level \in 0..(kNumLevels - 2), r \in Manual : CompactRange(level, r)
    \/ DoCompactionWork

Spec == Init /\ [][Next]_vars

-----------------------------------------------------------------------------
(* Get: the memtable, then the files searched, and the first hit counts.   *)
Hits(entries, k, s) == {e \in entries : e.key = k /\ e.seq <= s}
Newest(es) == CHOOSE e \in es : \A d \in es : d.seq <= e.seq
ValueOf(es) == IF es = {} \/ Newest(es).type = "deletion" THEN 0 ELSE Newest(es).seq
Get(k, s) ==
    LET hits == SelectSeq(<<Hits(mem, k, s)>>
                            \o [i \in DOMAIN Searched(k, s) |->
                                  Hits(Searched(k, s)[i][2].entries, k, s)],
                          LAMBDA es : es # {})
    IN IF hits = <<>> THEN 0 ELSE ValueOf(hits[1])
Visible == ToSet(snapshots_) \cup {last_sequence}

(* A read finds, for the present and for every snapshot held, the newest   *)
(* write that it may see: not an older one left in a deeper level, nothing *)
(* that was deleted, and never nothing when there is a value. Version::Get *)
(* stops at the first level that knows the key.                            *)
GetIsLatest == \A k \in Key, s \in Visible : Get(k, s) = ValueOf(Hits(written, k, s))

(* The files of a level above 0 do not overlap and are in order, as the    *)
(* binary search needs and MaybeAddFile asserts, although a memtable may   *)
(* be placed in any of three levels while a compaction is at work.         *)
LevelsDisjoint ==
    \A level \in Level \ {0} : \A i \in 1..(Len(files_[level]) - 1) :
        Before(files_[level][i].largest, files_[level][i + 1].smallest)

(* An older entry of a key is never above a newer one: "entries never hop  *)
(* across levels", the comment in Version::Get on searching level by level.*)
NewerIsAbove ==
    \A level \in Level, k \in Key :
        \A f \in ToSet(files_[level]), g \in UNION {ToSet(files_[l]) : l \in (level + 1)..(kNumLevels - 1)} :
            \A e \in f.entries, d \in g.entries : e.key = k /\ d.key = k => d.seq < e.seq
=============================================================================
