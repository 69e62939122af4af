--------------------------- MODULE EntityProcess ---------------------------
(***************************************************************************)
(* The entity clustering of EntityProcess.h, driven by the calls that      *)
(* TransactionProcess makes for each transaction.                          *)
(*                                                                         *)
(* A table is a function whose domain is its set of primary keys: entity   *)
(* is the column addressinfo.entity and addcnt the column                  *)
(* entityinfo.addcnt.  The 4-byte big-endian column values are the numbers *)
(* they encode (module EntityCodec); 0 is the column's default and means   *)
(* that no entity was assigned.                                            *)
(***************************************************************************)
EXTENDS Integers, Sequences, FiniteSets

CONSTANTS
    Address,      \* the 20-byte addresses
    Coinbase,     \* the virtual address 0x30...30 of a block reward's input
    Vectors       \* the address vectors that transactions may have

ASSUME CoinbaseAssumption == Coinbase \notin Address

ASSUME VectorsAssumption == Vectors \subseteq Seq(Address) \ {<<>>}

VARIABLES
    entity,           \* addressinfo: address -> entity
    addcnt,           \* entityinfo: entity -> addcnt
    entitycnt,        \* the last entity id that was given out
    entitychange_v,   \* the entities whose aggregates are to be recomputed
    stage,            \* the next call of TransactionProcess
    input_bv,         \* input_address_bv
    output_bv,        \* the part of output_address_bv not yet handled
    cospent           \* history: the input address sets of past transactions

tables == <<entity, addcnt>>
vars == <<entity, addcnt, entitycnt, entitychange_v, stage, input_bv,
          output_bv, cospent>>

Stages == {"ready", "input_entity", "output_rows", "output_entity"}

Elements(s) == {s[i] : i \in DOMAIN s}

Rows == DOMAIN entity
Entities == DOMAIN addcnt

(* The addresses of entity e.                                              *)
Members(e) == {a \in Rows : entity[a] = e}

(* entitycnt in the resume file before the first month: the first id is 1. *)
InitialCnt == 0

Init == /\ entity = [a \in {} |-> 0]
        /\ addcnt = [e \in {} |-> 0]
        /\ entitycnt = InitialCnt
        /\ entitychange_v = {}
        /\ stage = "ready"
        /\ input_bv = <<>>
        /\ output_bv = <<>>
        /\ cospent = {}
-----------------------------------------------------------------------------
(* TransactionProcess has read its inputs and knows both address vectors.  *)
TakeVectors(in, out) ==
    /\ stage = "ready"
    /\ input_bv' = in
    /\ output_bv' = out
    /\ stage' = "input_entity"
    /\ UNCHANGED <<tables, entitycnt, entitychange_v, cospent>>

(* What the clustering assumes of a transaction: its input addresses are   *)
(* those of outputs that earlier transactions created, or it is a block    *)
(* reward with the virtual address as its only input.                      *)
BeginTransaction(in, out) ==
    /\ in = <<Coinbase>> \/ (in \in Vectors /\ Elements(in) \subseteq Rows)
    /\ TakeVectors(in, out)

IsCoinbase(bv) == bv = <<Coinbase>>

(* The ids read for the inputs.  [Mutant: the first input is left out.]    *)
SpentEntities_Mutant(bv) == {entity[bv[i]] : i \in DOMAIN bv \ {1}} \cup {entity[bv[Len(bv)]]}
SpentEntities(bv) == {entity[a] : a \in Elements(bv)}

(* entity_v[0] of the sorted vector.                                       *)
LeastId(ids) == CHOOSE e \in ids : \A f \in ids : e <= f

(* UPDATE addressinfo SET entity = keep WHERE entity = e, for the other    *)
(* ids e.  [Mutant: only the rows of the inputs themselves are updated.]   *)
Merged_Mutant(ids, keep) == [a \in Rows |-> IF a \in Elements(input_bv)
                                            THEN keep ELSE entity[a]]
Merged(ids, keep) == [a \in Rows |-> IF entity[a] \in ids THEN keep ELSE entity[a]]

(* DELETE FROM entityinfo, for the ids merged away.  [Mutant: no DELETE.]  *)
Remaining_Mutant(ids, keep) == Entities
Remaining(ids, keep) == Entities \ (ids \ {keep})

(* entitychange_v.push_back.                                               *)
RecordChange(e) == entitychange_v' = entitychange_v \cup {e}

(* input_entity_mysql: the entities of the inputs are merged into the one  *)
(* with the least id; the others lose their addresses and their rows.      *)
input_entity_mysql ==
    /\ stage = "input_entity"
    /\ IF IsCoinbase(input_bv)
       THEN UNCHANGED <<tables, entitychange_v, cospent>>
       ELSE LET ids == SpentEntities(input_bv)
                keep == LeastId(ids)
            IN /\ entity' = Merged(ids, keep)
               /\ addcnt' = [e \in Remaining(ids, keep) |-> addcnt[e]]
               /\ RecordChange(keep)
               /\ cospent' = cospent \cup {Elements(input_bv)}
    /\ input_bv' = <<>>
    /\ stage' = "output_rows"
    /\ UNCHANGED <<entitycnt, output_bv>>

(* INSERT INTO addressinfo leaves the entity column at its default.        *)
InsertRow(a) ==
    /\ entity' = [b \in Rows \cup {a} |-> IF b \in Rows THEN entity[b] ELSE 0]
    /\ UNCHANGED <<addcnt, entitycnt, entitychange_v, stage, input_bv,
                   output_bv, cospent>>

(* The loop over the outputs inserts the missing rows.                     *)
output_row(a) ==
    /\ stage = "output_rows"
    /\ a \in Elements(output_bv) \ Rows
    /\ InsertRow(a)

(* The call of output_entity_mysql, which SELECTs the row of every output  *)
(* address: the loop above has ended and they all exist.                   *)
CallOutputEntity ==
    /\ stage = "output_rows"
    /\ stage' = "output_entity"
    /\ UNCHANGED <<tables, entitycnt, entitychange_v, input_bv, output_bv,
                   cospent>>
rows_written == Elements(output_bv) \subseteq Rows /\ CallOutputEntity

(* The loop's exit.                                                        *)
AfterOutput == IF Len(output_bv) <= 1 THEN "ready" ELSE stage

(* insert_entity_mysql: a row with only the id, the aggregates at their    *)
(* default.                                                                *)
insert_entity_mysql(e) ==
    addcnt' = [f \in Entities \cup {e} |-> IF f \in Entities THEN addcnt[f] ELSE 0]

(* One iteration of the loop of output_entity_mysql.  In the else branch   *)
(* the code queues entitycnt, not the entity of the address.               *)
output_entity_mysql ==
    /\ stage = "output_entity"
    /\ LET a == Head(output_bv)
       IN IF entity[a] = 0
          THEN /\ entitycnt' = entitycnt + 1
               /\ entity' = [entity EXCEPT ![a] = entitycnt + 1]
               /\ insert_entity_mysql(entitycnt + 1)
               /\ RecordChange(entitycnt + 1)
          ELSE /\ RecordChange(entitycnt)
               /\ UNCHANGED <<tables, entitycnt>>
    /\ output_bv' = Tail(output_bv)
    /\ stage' = AfterOutput
    /\ UNCHANGED <<input_bv, cospent>>

(* update_entity_mysql, at the end of a month: the rows of the queued ids  *)
(* are recomputed; an id without a row is skipped by its UPDATE.           *)
update_entity_mysql ==
    /\ stage = "ready"
    /\ addcnt' = [e \in Entities |-> IF e \in entitychange_v
                                     THEN Cardinality(Members(e))
                                     ELSE addcnt[e]]
    /\ entitychange_v' = {}
    /\ UNCHANGED <<entity, entitycnt, stage, input_bv, output_bv, cospent>>

Next == \/ \E in \in Vectors \cup {<<Coinbase>>}, out \in Vectors :
              BeginTransaction(in, out)
        \/ input_entity_mysql
        \/ \E a \in Address : output_row(a)
        \/ rows_written
        \/ output_entity_mysql
        \/ update_entity_mysql

Spec == Init /\ [][Next]_vars
-----------------------------------------------------------------------------
(* Types, and which locals are live at which stage of TransactionProcess.  *)
TypeOK == /\ Rows \subseteq Address
          /\ entity \in [Rows -> Nat]
          /\ Entities \subseteq Nat
          /\ addcnt \in [Entities -> Nat]
          /\ entitycnt \in Nat
          /\ entitychange_v \subseteq Nat
          /\ stage \in Stages
          /\ input_bv \in Vectors \cup {<<Coinbase>>, <<>>}
          /\ output_bv \in Seq(Address)

(* An address waits for its entity only until output_entity_mysql reaches  *)
(* it in the same transaction: between transactions every address row has  *)
(* one.  A spent address without one would merge every waiting address     *)
(* into entity 0.                                                          *)
Waiting == {a \in Rows : entity[a] = 0}
AssignedInTime == Waiting \subseteq (IF stage \in {"output_rows", "output_entity"}
                                     THEN Elements(output_bv) ELSE {})

(* The two tables agree: the entityinfo rows are exactly the entities that *)
(* some address has, and none is beyond the counter, so that the next id   *)
(* is new.                                                                 *)
TablesAgree == /\ Entities = {entity[a] : a \in Rows} \ {0}
               /\ \A e \in Entities : e <= entitycnt

(* What the next update_entity_mysql must repair is queued: a row whose    *)
(* addcnt is not the number of its addresses is on entitychange_v.         *)
StaleIsQueued == \A e \in Entities :
                    e \in entitychange_v \/ addcnt[e] = Cardinality(Members(e))

(* The tables are consistent at every moment of a month.                   *)
TablesConsistent == AssignedInTime /\ TablesAgree /\ StaleIsQueued

(* Ids only grow coarser: addresses of one entity stay in one entity, and  *)
(* an id whose row a merge deleted is never given out again.               *)
NeverSplit == \A a, b \in Rows :
                 entity[a] = entity[b] /\ entity[a] # 0 => entity'[a] = entity'[b]
NeverReused == \A e \in 1..entitycnt : e \in Entities' => e \in Entities
MergesAreFinal == [][NeverSplit /\ NeverReused]_vars
-----------------------------------------------------------------------------
Assigned == {a \in Rows : entity[a] # 0}

clusterBar == [a \in Assigned |-> {b \in Assigned : entity[b] = entity[a]}]

AP == INSTANCE AddressPartition WITH cluster <- clusterBar

(* The entity columns implement the partition by common inputs.            *)
ImplementsPartition == AP!Spec

(* Two addresses have the same entity if and only if a chain of            *)
(* transactions spent them together.                                       *)
EntitiesAreComponents == AP!ClustersAreComponents
-----------------------------------------------------------------------------
\* Vectors for TLC: of one or two addresses, equal ones too.
ShortVectors == {<<a>> : a \in Address} \cup (Address \X Address)
=============================================================================
