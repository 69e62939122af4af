------------------------------- MODULE Cursor -------------------------------
(***************************************************************************)
(* What an iterator over a database promises: it stands on an entry of a   *)
(* map that does not change while the iterator lives, or on none.          *)
(***************************************************************************)
EXTENDS Integers

CONSTANTS Target        \* what Seek may be called with

VARIABLES
    view,               \* the map, from keys to values
    at,                 \* <<key, value>>, or <<>>
    op                  \* history: the call made last, and its argument

Entry(k) == <<k, view[k]>>
\* The first key of a set, the last one, or none.
First(ks) == IF ks = {} THEN <<>> ELSE Entry(CHOOSE k \in ks : \A j \in ks : k <= j)
Last(ks) == IF ks = {} THEN <<>> ELSE Entry(CHOOSE k \in ks : \A j \in ks : k >= j)

Init == at = <<>> /\ op = <<>> /\ view \in [DOMAIN view -> Int]

Seek(t) == op' = <<"Seek", t>> /\ at' = First({k \in DOMAIN view : k >= t})
SeekToFirst == op' = <<"SeekToFirst">> /\ at' = First(DOMAIN view)
SeekToLast == op' = <<"SeekToLast">> /\ at' = Last(DOMAIN view)
\* A second Next is told from the first: no call is a stuttering step.
Again(name) == IF op = <<name>> THEN <<name, "again">> ELSE <<name>>
Next_ == at # <<>> /\ op' = Again("Next") /\ at' = First({k \in DOMAIN view : k > at[1]})
Prev == at # <<>> /\ op' = Again("Prev") /\ at' = Last({k \in DOMAIN view : k < at[1]})

Next ==
    /\ view' = view
    /\ (\E t \in Target : Seek(t)) \/ SeekToFirst \/ SeekToLast \/ Next_ \/ Prev
Spec == Init /\ [][Next]_<<view, at, op>>
=============================================================================
