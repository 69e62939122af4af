-------------------------- MODULE AddressPartition --------------------------
(***************************************************************************)
(* What the entity columns of the database promise, with no entity ids, no *)
(* tables and no queues: the addresses met so far are partitioned into     *)
(* clusters, an address starts alone in its cluster, and the clusters of   *)
(* the addresses that a transaction spends together become one.  The       *)
(* clusters are then exactly the connected components of the               *)
(* "spent together" relation (the common-input heuristic).                 *)
(*                                                                         *)
(* Module EntityProcess implements this specification.                     *)
(***************************************************************************)
EXTENDS FiniteSets

CONSTANT Address

VARIABLES
    cluster,    \* known address -> the set of addresses clustered with it
    cospent     \* the sets of addresses that were inputs of one transaction

avars == <<cluster, cospent>>

Known == DOMAIN cluster

(* Every known address has a set of known addresses as its cluster.        *)
TypeOK == /\ Known \subseteq Address
          /\ cluster \in [Known -> SUBSET Known]
          /\ cospent \subseteq SUBSET Known

Init == /\ cluster = [a \in {} |-> {}]
        /\ cospent = {}

(* An address that was never seen before is alone in its cluster.          *)
Learn(a) == /\ a \notin Known
            /\ cluster' = [b \in Known \cup {a} |->
                             IF b = a THEN {a} ELSE cluster[b]]
            /\ UNCHANGED cospent

(* The addresses S are the inputs of one transaction.                      *)
CoSpend(S) == LET united == UNION {cluster[a] : a \in S}
              IN /\ S \subseteq Known
                 /\ S # {}
                 /\ cluster' = [b \in Known |-> IF b \in united THEN united
                                                ELSE cluster[b]]
                 /\ cospent' = cospent \cup {S}

Next == \/ \E a \in Address : Learn(a)
        \/ \E S \in SUBSET Address : CoSpend(S)

Spec == Init /\ [][Next]_avars
-----------------------------------------------------------------------------
(* The clusters form a partition of the known addresses.                   *)
IsPartition == \A a, b \in Known : /\ a \in cluster[a]
                                   /\ b \in cluster[a] => cluster[b] = cluster[a]

(* C is a union of connected components of the spent-together relation.    *)
ClosedUnder(C, links) == \A S \in links : S \cap C # {} => S \subseteq C

(* The addresses that a chain of common transactions connects to a: those  *)
(* that no closed set containing a leaves out.                             *)
Component(a) == {b \in Known : \A C \in SUBSET Known :
                                  a \in C /\ ClosedUnder(C, cospent) => b \in C}

(* Clusters are the connected components: addresses are clustered together *)
(* if and only if a chain of transactions spent them together.             *)
ClustersAreComponents == \A a \in Known : cluster[a] = Component(a)

=============================================================================
