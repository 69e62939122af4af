------------------------------ MODULE MCReads ------------------------------
(***************************************************************************)
(* The searches of LevelDB, side by side: a behaviour is one of a single   *)
(* part, the others rest.                                                  *)
(*   "list"    SkipList: a writer, a reader without a lock                 *)
(*   "cursor"  Iterators: two keys in several versions, a block per entry  *)
(*   "turns"   Iterators: three keys, blocks of two entries                *)
(***************************************************************************)
EXTENDS SkipList, Sequences

CONSTANT Parts
VARIABLES part,
          mem, blocks, separators, children_, current_, mdirection_, direction_, valid_,
          saved_key_, saved_value_, op

iterVars == <<mem, blocks, separators, children_, current_, mdirection_, direction_, valid_,
              saved_key_, saved_value_, op>>

I == INSTANCE Iterators WITH Key <- {2, 4}, Target <- {2, 3, 4, 5}, Last_ <- 3,
                             MaxInserts <- 1, BlockSize <- 1
J == INSTANCE Iterators WITH Key <- {2, 4, 6}, Target <- {3, 4, 7}, Last_ <- 3,
                             MaxInserts <- 1, BlockSize <- 2

-----------------------------------------------------------------------------
ListRests == /\ next_ = [n \in Node |-> [l \in Level |-> Nil]]
             /\ max_height_ = 1 /\ links = [k \in Key |-> 0]
             /\ pc = "idle" /\ key = 1 /\ x = head_ /\ level = 0
             /\ prev = [l \in Level |-> head_] /\ height = 1 /\ i = 0
             /\ call = [r \in Reader |-> "none"] /\ target = [r \in Reader |-> Nil]
             /\ at = [r \in Reader |-> head_] /\ rlevel = [r \in Reader |-> 0]
             /\ node_ = [r \in Reader |-> Nil]
IterRests == /\ mem = {} /\ blocks = <<>> /\ separators = <<>>
             /\ children_ = <<I!End, I!End>> /\ current_ = 0 /\ mdirection_ = "forward"
             /\ direction_ = "forward" /\ valid_ = FALSE /\ saved_key_ = 0 /\ saved_value_ = 0
             /\ op = <<>>
MCInit == /\ part \in Parts
          /\ \/ part = "list" /\ Init /\ IterRests
             \/ part = "cursor" /\ ListRests /\ I!Init
             \/ part = "turns" /\ ListRests /\ J!Init

Searching(r) == part = "list" /\ Step(r) /\ UNCHANGED <<part, iterVars>>
\* "cursor" has inserts of both types.
InsertsValues == \A e \in mem' \ mem : e.type = "value"
MCNext == \/ part = "list" /\ Next /\ UNCHANGED <<part, iterVars>>
          \/ part = "cursor" /\ I!Next /\ UNCHANGED <<part, vars>>
          \/ part = "turns" /\ J!Next /\ InsertsValues /\ UNCHANGED <<part, vars>>
allVars == <<part, vars, iterVars>>
MCSpec == MCInit /\ [][MCNext]_allVars
MCFairSpec == MCSpec /\ \A r \in Reader : WF_allVars(Searching(r))

-----------------------------------------------------------------------------
View == IF part = "turns" THEN J!View ELSE I!View
C == INSTANCE Cursor WITH Target <- {2, 3, 4, 5, 7}, view <- View, at <- I!Position

(* Iterators: every sequence of Seek, Next and Prev, with turns and writes *)
(* in between, stands where a cursor over the map as it was when the       *)
(* iterator was made would stand; and moving backwards, the merged         *)
(* iterator stands before all the entries of the key that is yielded, and  *)
(* forwards on the entry.                                                  *)
CursorIsRight == C!Spec /\ [](part # "list" => I!StandsBefore)
=============================================================================
