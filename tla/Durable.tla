------------------------------ MODULE Durable ------------------------------
(***************************************************************************)
(* What a LevelDB database promises across restarts: a key keeps its value *)
(* until a later write of it. Values are numbered in the order in which    *)
(* they were written.                                                      *)
(***************************************************************************)
EXTENDS Naturals

CONSTANTS Key, Value

VARIABLE store      \* what the database would give after the next Open

None == 0

Init == store = [k \in Key |-> None]

Put(k, v) ==
    /\ \A j \in Key : store[j] < v
    /\ store' = [store EXCEPT ![k] = v]

Next == \E k \in Key, v \in Value : Put(k, v)

Spec == Init /\ [][Next]_store
=============================================================================
