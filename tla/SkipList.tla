------------------------------ MODULE SkipList ------------------------------
(***************************************************************************)
(* The skip list of a memtable: one writer, which holds a lock, and        *)
(* readers without one. A step is one load or store of a pointer that      *)
(* another thread can see. A node is named by its key; head_ is 0 and NULL *)
(* is Nil, which sorts after all keys.                                     *)
(***************************************************************************)
EXTENDS Integers

CONSTANTS
    Key,
    Nil,
    kMaxHeight,
    Garbage,            \* what is in a node's memory before it is set
    Reader

ASSUME SkipListAssumption ==
    /\ Nil \in Nat /\ Key \subseteq 1..(Nil - 1)
    /\ kMaxHeight \in Nat \ {0}
    /\ Garbage \subseteq Key \cup {Nil} /\ Garbage # {}

VARIABLES
    next_,              \* the pointers of every node, at every level
    max_height_,
    links,              \* how many levels of a node can be reached
    pc, key, x, level, prev, height, i,     \* the writer, in Insert
    call, target, at, rlevel,               \* a reader, in a search
    node_               \* where a reader's iterator stands

list == <<next_, max_height_, links>>
writer == <<pc, key, x, level, prev, height, i>>
searches == <<call, target, at, rlevel>>
vars == <<list, writer, searches, node_>>

head_ == 0
Node == Key \cup {head_}
Level == 0..(kMaxHeight - 1)

-----------------------------------------------------------------------------
(* Insert                                                                  *)
Insert(k) ==
    /\ pc = "idle" /\ links[k] = 0
    /\ pc' = "find" /\ key' = k /\ x' = head_ /\ level' = max_height_ - 1
    /\ UNCHANGED <<list, prev, height, i, searches, node_>>

\* One turn of the loop of FindGreaterOrEqual.
KeyIsAfterNode(k, n) == n < k
Find ==
    LET next == next_[x][level]
    IN /\ pc = "find"
       /\ IF KeyIsAfterNode(key, next)
            THEN x' = next /\ UNCHANGED <<pc, level, prev>>
            ELSE /\ prev' = [prev EXCEPT ![level] = x] /\ UNCHANGED x
                 /\ pc' = IF level = 0 THEN "height" ELSE "find"
                 /\ level' = IF level = 0 THEN 0 ELSE level - 1
       /\ UNCHANGED <<list, key, height, i, searches, node_>>

RandomHeight(h) ==
    /\ pc = "height"
    /\ height' = h /\ i' = 0 /\ pc' = "own"
    /\ prev' = [l \in Level |-> IF max_height_ <= l /\ l < h THEN head_ ELSE prev[l]]
    /\ max_height_' = IF h > max_height_ THEN h ELSE max_height_
    /\ UNCHANGED <<next_, links, key, x, level, searches, node_>>

\* x->NoBarrier_SetNext(i, prev[i]->NoBarrier_Next(i))
\* [Mutant: the node's own pointer is left as it is.]
SetOwn_Mutant ==
    /\ pc = "own" /\ pc' = "publish"
    /\ UNCHANGED <<list, key, x, level, prev, height, i, searches, node_>>
SetOwn ==
    /\ pc = "own" /\ pc' = "publish"
    /\ next_' = [next_ EXCEPT ![key] = [@ EXCEPT ![i] = next_[prev[i]][i]]]
    /\ UNCHANGED <<max_height_, links, key, x, level, prev, height, i, searches, node_>>
\* prev[i]->SetNext(i, x)
Publish ==
    /\ pc = "publish"
    /\ next_' = [next_ EXCEPT ![prev[i]] = [@ EXCEPT ![i] = key]]
    /\ links' = [links EXCEPT ![key] = i + 1]
    /\ i' = i + 1
    /\ pc' = IF i + 1 < height THEN "own" ELSE "idle"
    /\ UNCHANGED <<max_height_, key, x, level, prev, height, searches, node_>>

-----------------------------------------------------------------------------
(* The iterators                                                           *)
Search(r, c, n, l, t) ==
    /\ call[r] = "none"
    /\ call' = [call EXCEPT ![r] = c] /\ target' = [target EXCEPT ![r] = t]
    /\ at' = [at EXCEPT ![r] = n] /\ rlevel' = [rlevel EXCEPT ![r] = l]
    /\ UNCHANGED <<list, writer, node_>>
\* GetMaxHeight, h: the store of max_height_ has no barrier; any value it had.
Seek(r, k, h) == Search(r, "FindGreaterOrEqual", head_, h - 1, k)
\* FindLast is FindLessThan with a key that is after all.
SeekToLast(r, h) == Search(r, "FindLessThan", head_, h - 1, Nil)
Prev(r, h) == node_[r] # Nil /\ Search(r, "FindLessThan", head_, h - 1, node_[r])
SeekToFirst(r) == Search(r, "Next", head_, 0, head_ + 1)
Next_(r) == node_[r] # Nil /\ Search(r, "Next", node_[r], 0, node_[r] + 1)

\* One turn of the loop of FindGreaterOrEqual or FindLessThan, or one load of
\* the pointer at the bottom.
\* [Mutant: the search returns from any level.]
Bottom_Mutant(l) == TRUE
Bottom(l) == l = 0
Step(r) ==
    LET next == next_[at[r]][rlevel[r]]
    IN /\ call[r] # "none"
       /\ \/ /\ KeyIsAfterNode(target[r], next)
             /\ at' = [at EXCEPT ![r] = next] /\ UNCHANGED <<call, rlevel, node_>>
          \/ /\ ~ KeyIsAfterNode(target[r], next) /\ ~ Bottom(rlevel[r])
             /\ rlevel' = [rlevel EXCEPT ![r] = @ - 1] /\ UNCHANGED <<call, at, node_>>
          \/ /\ ~ KeyIsAfterNode(target[r], next) /\ Bottom(rlevel[r])
             /\ node_' = [node_ EXCEPT ![r] = IF call[r] # "FindLessThan" THEN next
                                              ELSE IF at[r] = head_ THEN Nil ELSE at[r]]
             /\ call' = [call EXCEPT ![r] = "none"] /\ UNCHANGED <<at, rlevel>>
       /\ UNCHANGED <<list, writer, target>>

-----------------------------------------------------------------------------
Init ==
    /\ next_ \in [Node -> [Level -> Garbage \cup {Nil}]]
    /\ next_[head_] = [l \in Level |-> Nil]
    /\ \A k \in Key, l \in Level : next_[k][l] \in Garbage
    /\ max_height_ = 1 /\ links = [k \in Key |-> 0]
    /\ pc = "idle" /\ key \in Key /\ x = head_ /\ level = 0
    /\ prev = [l \in Level |-> head_] /\ height = 1 /\ i = 0
    /\ call = [r \in Reader |-> "none"] /\ target = [r \in Reader |-> Nil]
    /\ at = [r \in Reader |-> head_] /\ rlevel = [r \in Reader |-> 0]
    /\ node_ = [r \in Reader |-> Nil]

Write == (\E k \in Key : Insert(k)) \/ Find \/ (\E h \in 1..kMaxHeight : RandomHeight(h))
            \/ SetOwn \/ Publish
Read(r) ==
    \/ \E h \in 1..max_height_ : (\E k \in Key : Seek(r, k, h)) \/ SeekToLast(r, h) \/ Prev(r, h)
    \/ SeekToFirst(r) \/ Next_(r) \/ Step(r)
Next == Write \/ \E r \in Reader : Read(r)
Spec == Init /\ [][Next]_vars
\* A thread that reads is not stopped for ever.
FairSpec == Spec /\ \A r \in Reader : WF_vars(Step(r))

-----------------------------------------------------------------------------
TypeOK ==
    /\ next_ \in [Node -> [Level -> Key \cup {Nil}]]
    /\ max_height_ \in 1..kMaxHeight /\ links \in [Key -> 0..kMaxHeight]
    /\ pc \in {"idle", "find", "height", "own", "publish"}
    /\ key \in Key /\ x \in Node /\ level \in Level /\ prev \in [Level -> Node]
    /\ height \in 1..kMaxHeight /\ i \in 0..kMaxHeight
    /\ call \in [Reader -> {"none", "FindGreaterOrEqual", "FindLessThan", "Next"}]
    /\ target \in [Reader -> 1..Nil] /\ at \in [Reader -> Node]
    /\ rlevel \in [Reader -> Level] /\ node_ \in [Reader -> Key \cup {Nil}]

\* The nodes of the list of a level.
Linked(l) == {head_} \cup {k \in Key : links[k] > l}

(* At every moment, also between the stores of Insert, the list of every   *)
(* level is sorted and leaves out none of its nodes.                       *)
Sorted ==
    \A l \in Level : \A n \in Linked(l) :
        /\ next_[n][l] \in Linked(l) \cup {Nil} /\ next_[n][l] > n
        /\ \A m \in Linked(l) : m > n => m >= next_[n][l]

\* Where the new node goes, at the levels that are already searched.
GoesAfter(l) == prev[l] \in Linked(l) /\ prev[l] < key /\ next_[prev[l]][l] > key
WriterInv ==
    /\ \A k \in Key : links[k] <= max_height_
    /\ pc \in {"find", "height"} => links[key] = 0
    /\ pc = "find" =>
          /\ x \in Linked(level) /\ x < key /\ level < max_height_
          /\ \A l \in Level : level < l /\ l < max_height_ => GoesAfter(l)
    /\ pc = "height" => \A l \in Level : l < max_height_ => GoesAfter(l)
    /\ pc \in {"own", "publish"} =>
          /\ i < height /\ height <= max_height_ /\ links[key] = i
          /\ \A l \in Level : i <= l /\ l < height => GoesAfter(l)
    /\ pc = "publish" => next_[key][i] = next_[prev[i]][i]
ReaderInv ==
    \A r \in Reader :
        /\ node_[r] # Nil => links[node_[r]] > 0
        /\ call[r] # "none" => at[r] \in Linked(rlevel[r]) /\ at[r] < target[r]

IInv == TypeOK /\ Sorted /\ WriterInv /\ ReaderInv

(* Every call of an iterator, whatever Insert does meanwhile and however   *)
(* old the height it starts from, answers what it would if it took one     *)
(* moment: nothing that is in the list is passed over, nothing else found. *)
O == INSTANCE OrderedSet WITH list <- {k \in Key : links[k] > 0}, node <- node_
IsOrderedSet == O!Spec

(* A reader needs no lock and no help of the writer: every search ends,    *)
(* also when Insert stops for ever between two of its stores.              *)
SearchEnds == \A r \in Reader : call[r] # "none" ~> call[r] = "none"
=============================================================================
