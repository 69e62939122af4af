----------------------------- MODULE OrderedSet -----------------------------
(***************************************************************************)
(* What a skip list promises the readers of a memtable: a set that only    *)
(* grows, in which every search takes effect at one moment between its     *)
(* call and its answer.                                                    *)
(***************************************************************************)
EXTENDS Integers

CONSTANTS
    Key,                \* positive numbers
    Nil,                \* above all of them: the end of the list
    Reader

VARIABLES
    list,               \* the keys that are in the list
    node,               \* where the iterator of each reader stands, or Nil
    call, target        \* the search that each reader makes, or "none"

\* Searches for the first key from the target on, and for the last before it.
Upward == {"FindGreaterOrEqual", "Next"}
Downward == {"FindLessThan"}

FirstFrom(k, t) ==
    /\ k \in list \cup {Nil} /\ k >= t
    /\ \A j \in list : j >= t => k <= j
LastBefore(k, t) ==
    /\ (k \in list /\ k < t) \/ k = Nil
    /\ \A j \in list : j < t => k # Nil /\ j <= k

Init ==
    /\ list = {} /\ node = [r \in Reader |-> Nil]
    /\ call = [r \in Reader |-> "none"] /\ target = [r \in Reader |-> Nil]

Insert(k) == list' = list \cup {k} /\ UNCHANGED <<node, call, target>>

Call(r, c, t) ==
    /\ call[r] = "none"
    /\ call' = [call EXCEPT ![r] = c] /\ target' = [target EXCEPT ![r] = t]
    /\ UNCHANGED <<list, node>>
Answer(r, k) ==
    /\ \/ call[r] \in Upward /\ FirstFrom(k, target[r])
       \/ call[r] \in Downward /\ LastBefore(k, target[r])
    /\ node' = [node EXCEPT ![r] = k] /\ call' = [call EXCEPT ![r] = "none"]
    /\ UNCHANGED <<list, target>>

Next ==
    \/ \E k \in Key : Insert(k)
    \/ \E r \in Reader :
          \/ \E c \in Upward \cup Downward, t \in 1..Nil : Call(r, c, t)
          \/ \E k \in Key \cup {Nil} : Answer(r, k)
Spec == Init /\ [][Next]_<<list, node, call, target>>
=============================================================================
