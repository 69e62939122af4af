------------------------------ MODULE BlockIter ------------------------------
(***************************************************************************)
(* A block is filled with keys in order, finished, and walked by an        *)
(* iterator in any way. at is where the iterator should stand, by the list *)
(* of the keys that were added.                                            *)
(***************************************************************************)
EXTENDS Block

CONSTANTS Keys, block_restart_interval, MaxEntries

VARIABLES b, finished, it, added, at

vars == <<b, finished, it, added, at>>

Init == /\ b = EmptyBlock /\ finished = FALSE /\ it = NewIterator(EmptyBlock)
        /\ added = <<>> /\ at = 0
AddKey(k) ==
    /\ ~finished /\ Len(added) < MaxEntries
    /\ \A i \in DOMAIN added : Less(added[i], k)
    /\ b' = Add(b, k, Len(added) + 1, Tag(k) % 2, block_restart_interval)
    /\ added' = Append(added, k)
    /\ UNCHANGED <<finished, it, at>>
Finish == ~finished /\ finished' = TRUE /\ it' = NewIterator(b) /\ UNCHANGED <<b, added, at>>

FirstFrom(target) ==
    LET from == {i \in DOMAIN added : ~Less(added[i], target)}
    IN IF from = {} THEN 0 ELSE Min(from)
Move(i, n) == finished /\ it' = i /\ at' = n /\ UNCHANGED <<b, finished, added>>
Walk ==
    \/ \E target \in Keys : Move(Seek(b, it, target), FirstFrom(target))
    \/ Move(SeekToFirst(b, it), IF added = <<>> THEN 0 ELSE 1)
    \/ Move(SeekToLast(b, it), Len(added))
    \/ Valid(b, it) /\ Move(Next_(b, it), IF at = Len(added) THEN 0 ELSE at + 1)
    \/ Valid(b, it) /\ Move(Prev(b, it), at - 1)

Next == (\E k \in Keys : AddKey(k)) \/ Finish \/ Walk
Spec == Init /\ [][Next]_vars

-----------------------------------------------------------------------------
(* Wherever the iterator was and whichever way it went, it stands on the   *)
(* entry that the list of added keys says, with the whole key and its      *)
(* value, and never takes the block for a corrupt one.                     *)
StandsRight ==
    finished =>
        /\ it.ok
        /\ Valid(b, it) <=> at # 0
        /\ at # 0 => it.key = added[at] /\ it.value = at

(* The restart block that the iterator remembers is the one it is in, or   *)
(* the one before when it is on the first entry of a block: never one      *)
(* ahead, from where Prev would miss entries, and never so far behind that *)
(* Prev parses more than one block.                                        *)
RestartIndexNear ==
    finished /\ Valid(b, it) =>
        /\ GetRestartPoint(b, it.restart_index) <= it.current
        /\ it.restart_index + 1 < NumRestarts(b) =>
              it.current <= GetRestartPoint(b, it.restart_index + 1)
=============================================================================
