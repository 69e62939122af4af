------------------------ MODULE EntityProcessProofs ------------------------
(***************************************************************************)
(* Safety of EntityProcess and its refinement of AddressPartition, for     *)
(* every set of addresses and every choice of transactions.                *)
(***************************************************************************)
EXTENDS EntityProcess, FiniteSetTheorems, SequenceTheorems,
        WellFoundedInduction, TLAPS

(* Which vectors are pending at each stage, and that the rows which a      *)
(* SELECT is about to read exist.                                          *)
PendingOK ==
    /\ stage = "input_entity" =>
          input_bv = <<Coinbase>> \/ (input_bv \in Vectors /\ Elements(input_bv) \subseteq Rows)
    /\ stage # "ready" => output_bv # <<>>
    /\ stage = "output_entity" => Elements(output_bv) \subseteq Rows

EntityInv == /\ TypeOK
             /\ IsFiniteSet(Rows)
             /\ PendingOK
             /\ AssignedInTime
             /\ TablesAgree
             /\ StaleIsQueued
-----------------------------------------------------------------------------
(* A nonempty set of ids has a least one: what entity_v[0] is after the    *)
(* sort.                                                                   *)
LEMMA LeastIdExists ==
  ASSUME NEW ids \in SUBSET Nat, ids # {}
  PROVE  LeastId(ids) \in ids /\ \A f \in ids : LeastId(ids) <= f
<1> DEFINE R == {ss \in Nat \X Nat : ss[1] < ss[2]}
<1>0. R = OpToRel(<, Nat)
  BY Zenon DEF OpToRel
<1>1. IsWellFoundedOn(R, Nat)
  BY <1>0, NatLessThanWellFounded, Zenon
<1>2. \A e, f \in Nat : ~ (<<f, e>> \in R) => e <= f
  <2> SUFFICES ASSUME NEW e \in Nat, NEW f \in Nat, ~ (e <= f)
               PROVE  <<f, e>> \in R
    OBVIOUS
  <2>1. f < e
    OBVIOUS
  <2>2. QED
    BY <2>1
<1> HIDE DEF R
<1>3. PICK e \in ids : \A f \in ids : ~ (<<f, e>> \in R)
  BY <1>1, WFMin
<1>4. e \in ids /\ \A f \in ids : e <= f
  BY <1>2, <1>3
<1>5. QED
  BY <1>4 DEF LeastId

(* The elements of a vector: its head and those of its tail; finitely many.*)
LEMMA ElementsOfSeq ==
  ASSUME NEW S, NEW s \in Seq(S)
  PROVE  /\ Elements(s) \subseteq S
         /\ IsFiniteSet(Elements(s))
         /\ s # <<>> => /\ Head(s) \in Elements(s)
                        /\ Tail(s) \in Seq(S)
                        /\ Elements(s) = {Head(s)} \cup Elements(Tail(s))
                        /\ Len(s) <= 1 <=> Tail(s) = <<>>
         /\ s = <<>> => Elements(s) = {}
<1>1. DOMAIN s = 1..Len(s) /\ Len(s) \in Nat /\ \A i \in 1..Len(s) : s[i] \in S
  OBVIOUS
<1>2. Elements(s) \subseteq S
  BY <1>1 DEF Elements
<1>3. IsFiniteSet(Elements(s))
  <2>1. s \in Surjection(1..Len(s), Elements(s))
    BY <1>1 DEF Surjection, Elements
  <2>2. IsFiniteSet(1..Len(s))
    BY <1>1, FS_Interval
  <2>3. QED
    BY <2>1, <2>2, FS_Surjection
<1>4. ASSUME s # <<>>
      PROVE  /\ Head(s) \in Elements(s)
             /\ Tail(s) \in Seq(S)
             /\ Elements(s) = {Head(s)} \cup Elements(Tail(s))
             /\ Len(s) <= 1 <=> Tail(s) = <<>>
  <2>1. /\ Len(s) \in Nat \ {0}
        /\ Tail(s) \in Seq(S)
        /\ Len(Tail(s)) = Len(s) - 1
        /\ Head(s) = s[1]
        /\ \A i \in 1..(Len(s) - 1) : Tail(s)[i] = s[i + 1]
    BY <1>4
  <2>2. Head(s) \in Elements(s)
    BY <1>1, <2>1 DEF Elements
  <2>3. Elements(Tail(s)) = {s[i] : i \in 2..Len(s)}
    <3>1. DOMAIN Tail(s) = 1..(Len(s) - 1)
      BY <2>1
    <3>2. ASSUME NEW x \in Elements(Tail(s))
          PROVE  x \in {s[i] : i \in 2..Len(s)}
      <4>1. PICK i \in 1..(Len(s) - 1) : x = s[i + 1]
        BY <3>1, <3>2, <2>1 DEF Elements
      <4>2. i + 1 \in 2..Len(s)
        BY <2>1
      <4>3. QED
        BY <4>1, <4>2
    <3>3. ASSUME NEW i \in 2..Len(s)
          PROVE  s[i] \in Elements(Tail(s))
      <4>1. i - 1 \in 1..(Len(s) - 1) /\ s[i] = Tail(s)[i - 1]
        BY <2>1
      <4>2. QED
        BY <4>1, <3>1 DEF Elements
    <3>4. QED
      BY <3>2, <3>3
  <2>4. Elements(s) = {s[i] : i \in {1} \cup 2..Len(s)}
    BY <1>1, <2>1 DEF Elements
  <2>5. Elements(s) = {Head(s)} \cup Elements(Tail(s))
    BY <2>1, <2>3, <2>4
  <2>6. Len(s) <= 1 <=> Tail(s) = <<>>
    <3>1. Tail(s) # <<>> => Len(Tail(s)) \in Nat \ {0}
      BY <2>1, EmptySeq
    <3>2. Tail(s) = <<>> => Len(Tail(s)) = 0
      BY EmptySeq
    <3>3. QED
      BY <2>1, <3>1, <3>2
  <2>7. QED
    BY <2>1, <2>2, <2>5, <2>6
<1>5. s = <<>> => Elements(s) = {}
  BY DEF Elements
<1>6. QED
  BY <1>2, <1>3, <1>4, <1>5
-----------------------------------------------------------------------------
(* The facts about ids and rows that every lemma below starts from.        *)
LEMMA Basics ==
  ASSUME EntityInv
  PROVE  /\ \A a \in Rows : entity[a] \in Nat
         /\ 0 \notin Entities
         /\ \A a \in Rows : entity[a] # 0 => entity[a] \in Entities
         /\ \A e \in Entities : \E a \in Rows : entity[a] = e
         /\ \A e \in Entities : e \in Nat /\ e <= entitycnt
BY DEF EntityInv, TypeOK, TablesAgree

(* Taking a transaction's vectors keeps the invariant.                     *)
LEMMA BeginPreserves ==
  ASSUME EntityInv, NEW in \in Vectors \cup {<<Coinbase>>}, NEW out \in Vectors,
         BeginTransaction(in, out)
  PROVE  EntityInv'
<1> USE VectorsAssumption DEF BeginTransaction, TakeVectors, tables, Rows, Entities, Stages
<1>1. TypeOK'
  BY DEF EntityInv, TypeOK
<1>2. PendingOK'
  BY DEF EntityInv, TypeOK, PendingOK, Elements
<1>3. AssignedInTime'
  BY DEF EntityInv, AssignedInTime, Waiting
<1>4. TablesAgree' /\ StaleIsQueued'
  BY DEF EntityInv, TablesAgree, StaleIsQueued, Members
<1>5. QED
  BY <1>1, <1>2, <1>3, <1>4 DEF EntityInv

(* The merge: the spent ids are assigned ids, so the least of them is too, *)
(* and the entities left alone keep their addresses.                       *)
LEMMA InputPreserves ==
  ASSUME EntityInv, input_entity_mysql
  PROVE  EntityInv'
<1> USE DEF input_entity_mysql, tables, Stages
<1>0. /\ stage = "input_entity" /\ stage' = "output_rows"
      /\ input_bv' = <<>> /\ output_bv' = output_bv /\ entitycnt' = entitycnt
  OBVIOUS
<1>1. CASE IsCoinbase(input_bv)
  <2>1. UNCHANGED <<entity, addcnt, entitychange_v>>
    BY <1>1
  <2>2. QED
    BY <1>0, <2>1 DEF EntityInv, TypeOK, PendingOK, AssignedInTime, Waiting,
                      TablesAgree, StaleIsQueued, Members, Rows, Entities
<1>2. CASE ~ IsCoinbase(input_bv)
  <2> DEFINE ids == SpentEntities(input_bv)
             keep == LeastId(ids)
  <2>1. input_bv \in Vectors /\ Elements(input_bv) \subseteq Rows
    BY <1>0, <1>2 DEF EntityInv, PendingOK, IsCoinbase
  <2>2. Elements(input_bv) # {}
    BY <2>1, VectorsAssumption, ElementsOfSeq
  <2>3. Waiting = {}
    BY <1>0 DEF EntityInv, AssignedInTime
  <2>4. ids \subseteq Entities /\ ids # {} /\ ids \subseteq Nat
    BY <2>1, <2>2, <2>3, Basics DEF SpentEntities, Waiting
  <2>5. keep \in ids
    BY <2>4, LeastIdExists
  <2>6. /\ entity' = [a \in Rows |-> IF entity[a] \in ids THEN keep ELSE entity[a]]
        /\ addcnt' = [e \in Entities \ (ids \ {keep}) |-> addcnt[e]]
        /\ entitychange_v' = entitychange_v \cup {keep}
    BY <1>2 DEF Merged, Remaining, RecordChange
  <2> HIDE DEF ids, keep
  <2>7. Rows' = Rows /\ Entities' = Entities \ (ids \ {keep})
    BY <2>6 DEF Rows, Entities
  <2>8. \A a \in Rows : entity'[a] = IF entity[a] \in ids THEN keep ELSE entity[a]
    BY <2>6
  <2>9. TypeOK'
    BY <1>0, <2>4, <2>5, <2>6, <2>7, Basics DEF EntityInv, TypeOK
  <2>10. PendingOK' /\ IsFiniteSet(Rows)'
    BY <1>0, <2>7 DEF EntityInv, PendingOK
  <2>11. AssignedInTime'
    BY <2>3, <2>4, <2>5, <2>7, <2>8, Basics DEF AssignedInTime, Waiting
  <2>12. TablesAgree'
    <3>1. \A e \in Entities' : \E a \in Rows' : entity'[a] = e /\ e # 0
      BY <2>4, <2>5, <2>7, <2>8, Basics
    <3>2. \A a \in Rows' : entity'[a] # 0 => entity'[a] \in Entities'
      BY <2>4, <2>5, <2>7, <2>8, Basics
    <3>3. \A e \in Entities' : e <= entitycnt'
      BY <1>0, <2>7, Basics
    <3>4. QED
      BY <3>1, <3>2, <3>3 DEF TablesAgree
  <2>13. StaleIsQueued'
    <3> SUFFICES ASSUME NEW e \in Entities', e \notin entitychange_v'
                 PROVE  addcnt'[e] = Cardinality(Members(e)')
      BY DEF StaleIsQueued
    <3>1. e \in Entities /\ e \notin ids /\ e # keep /\ e \notin entitychange_v
      BY <2>5, <2>6, <2>7
    <3>2. Members(e)' = Members(e)
      BY <2>7, <2>8, <3>1 DEF Members
    <3>3. addcnt'[e] = addcnt[e]
      BY <2>6, <2>7, <3>1 DEF Entities
    <3>4. QED
      BY <3>1, <3>2, <3>3 DEF EntityInv, StaleIsQueued
  <2>14. QED
    BY <2>9, <2>10, <2>11, <2>12, <2>13 DEF EntityInv
<1>3. QED
  BY <1>1, <1>2

(* A new row waits for its entity and belongs to no entity yet.            *)
LEMMA RowPreserves ==
  ASSUME EntityInv, NEW x \in Address, output_row(x)
  PROVE  EntityInv'
<1>0. /\ stage = "output_rows"
      /\ UNCHANGED <<addcnt, entitycnt, entitychange_v, stage, input_bv, output_bv>>
  BY DEF output_row, InsertRow
<1>1. /\ Rows' = Rows \cup {x} /\ x \in Elements(output_bv)
      /\ \A a \in Rows' : entity'[a] = IF a \in Rows THEN entity[a] ELSE 0
  BY DEF output_row, InsertRow, Rows
<1>2. TypeOK'
  BY <1>0, <1>1, Basics DEF EntityInv, TypeOK, Rows, Entities, output_row, InsertRow
<1>3. IsFiniteSet(Rows')
  BY <1>1, FS_AddElement DEF EntityInv
<1>4. PendingOK'
  BY <1>0, <1>1 DEF EntityInv, PendingOK, Elements
<1>5. AssignedInTime'
  <2>1. Waiting' \subseteq Elements(output_bv)
    BY <1>0, <1>1 DEF EntityInv, AssignedInTime, Waiting
  <2>2. Elements(output_bv)' = Elements(output_bv)
    BY <1>0 DEF Elements
  <2>3. QED
    BY <1>0, <2>1, <2>2 DEF AssignedInTime
<1>6. TablesAgree'
  <2>1. Entities' = Entities
    BY <1>0 DEF Entities
  <2>2. \A e \in Entities : \E a \in Rows' : entity'[a] = e /\ e # 0
    BY <1>1, Basics
  <2>3. \A a \in Rows' : entity'[a] # 0 => entity'[a] \in Entities
    BY <1>1, Basics
  <2>4. \A e \in Entities' : e <= entitycnt'
    BY <1>0, <2>1, Basics
  <2>5. QED
    BY <2>1, <2>2, <2>3, <2>4 DEF TablesAgree
<1>7. StaleIsQueued'
  <2>1. \A e \in Entities : Members(e)' = Members(e)
    BY <1>1, Basics DEF Members
  <2>2. QED
    BY <1>0, <2>1 DEF EntityInv, StaleIsQueued, Entities
<1>8. QED
  BY <1>2, <1>3, <1>4, <1>5, <1>6, <1>7 DEF EntityInv

(* The end of the loop over the outputs keeps the invariant.               *)
LEMMA RowsWrittenPreserves ==
  ASSUME EntityInv, rows_written
  PROVE  EntityInv'
BY DEF rows_written, CallOutputEntity, tables, Stages, EntityInv, TypeOK, PendingOK, AssignedInTime, Waiting,
       TablesAgree, StaleIsQueued, Members, Rows, Entities, Elements

(* A waiting address gets the next id, which no address and no row has.    *)
LEMMA OutputPreserves ==
  ASSUME EntityInv, output_entity_mysql
  PROVE  EntityInv'
<1> DEFINE a == Head(output_bv)
           new == entitycnt + 1
<1> USE DEF Stages
<1>0. /\ stage = "output_entity"
      /\ output_bv \in Seq(Address) /\ output_bv # <<>>
      /\ Elements(output_bv) \subseteq Rows
      /\ entitycnt \in Nat
  BY DEF EntityInv, TypeOK, PendingOK, output_entity_mysql
<1>1. /\ a \in Elements(output_bv)
      /\ Tail(output_bv) \in Seq(Address)
      /\ Elements(output_bv) = {a} \cup Elements(Tail(output_bv))
      /\ Len(output_bv) <= 1 <=> Tail(output_bv) = <<>>
      /\ Tail(output_bv) = <<>> => Elements(Tail(output_bv)) = {}
  BY <1>0, ElementsOfSeq
<1>2. /\ output_bv' = Tail(output_bv) /\ input_bv' = input_bv
      /\ stage' = IF Tail(output_bv) = <<>> THEN "ready" ELSE "output_entity"
      /\ Elements(output_bv)' = Elements(Tail(output_bv))
  BY <1>0, <1>1 DEF output_entity_mysql, AfterOutput, Elements
<1>3. CASE entity[a] = 0
  <2>1. /\ entitycnt' = new
        /\ entity' = [entity EXCEPT ![a] = new]
        /\ addcnt' = [f \in Entities \cup {new} |-> IF f \in Entities THEN addcnt[f] ELSE 0]
        /\ entitychange_v' = entitychange_v \cup {new}
    BY <1>3 DEF output_entity_mysql, insert_entity_mysql, RecordChange
  <2>2. /\ Rows' = Rows /\ a \in Rows
        /\ Entities' = Entities \cup {new}
        /\ \A b \in Rows : entity'[b] = IF b = a THEN new ELSE entity[b]
        /\ new \notin Entities /\ new \in Nat /\ new # 0
    BY <1>0, <1>1, <2>1, Basics DEF Rows, Entities
  <2>3. TypeOK'
    BY SMTT(30), <1>0, <1>1, <1>2, <2>1, <2>2, Basics DEF EntityInv, TypeOK
  <2>4. IsFiniteSet(Rows)' /\ PendingOK'
    BY <1>0, <1>1, <1>2, <2>2 DEF EntityInv, PendingOK
  <2>5. AssignedInTime'
    BY <1>0, <1>1, <1>2, <2>2 DEF EntityInv, AssignedInTime, Waiting
  <2>6. TablesAgree'
    <3>1. \A e \in Entities' : \E b \in Rows' : entity'[b] = e /\ e # 0
      BY <1>3, <2>2, Basics
    <3>2. \A b \in Rows' : entity'[b] # 0 => entity'[b] \in Entities'
      BY <2>2, Basics
    <3>3. \A e \in Entities' : e <= entitycnt'
      BY <1>0, <2>1, <2>2, Basics
    <3>4. QED
      BY <3>1, <3>2, <3>3 DEF TablesAgree
  <2>7. StaleIsQueued'
    <3> SUFFICES ASSUME NEW e \in Entities', e \notin entitychange_v'
                 PROVE  addcnt'[e] = Cardinality(Members(e)')
      BY DEF StaleIsQueued
    <3>1. e \in Entities /\ e # new /\ e # 0 /\ e \notin entitychange_v
      BY <2>1, <2>2, Basics
    <3>2. Members(e)' = Members(e)
      BY <1>3, <2>2, <3>1 DEF Members
    <3>3. addcnt'[e] = addcnt[e]
      BY <2>1, <3>1
    <3>4. QED
      BY <3>1, <3>2, <3>3 DEF EntityInv, StaleIsQueued
  <2>8. QED
    BY <2>3, <2>4, <2>5, <2>6, <2>7 DEF EntityInv
<1>4. CASE entity[a] # 0
  <2>1. /\ UNCHANGED <<entity, addcnt, entitycnt>>
        /\ entitychange_v' = entitychange_v \cup {entitycnt}
    BY <1>4 DEF output_entity_mysql, tables, RecordChange
  <2>2. TypeOK'
    BY <1>0, <1>1, <1>2, <2>1, SMTT(30) DEF EntityInv, TypeOK, Rows, Entities
  <2>3. IsFiniteSet(Rows)' /\ PendingOK'
    BY <1>0, <1>1, <1>2, <2>1 DEF EntityInv, PendingOK, Rows
  <2>4. AssignedInTime'
    BY <1>0, <1>1, <1>2, <1>4, <2>1 DEF EntityInv, AssignedInTime, Waiting, Rows
  <2>5. TablesAgree' /\ StaleIsQueued'
    BY <2>1 DEF EntityInv, TablesAgree, StaleIsQueued, Members, Rows, Entities
  <2>6. QED
    BY <2>2, <2>3, <2>4, <2>5 DEF EntityInv
<1>5. QED
  BY <1>3, <1>4

(* The monthly update repairs the queued rows and empties the queue.       *)
LEMMA UpdatePreserves ==
  ASSUME EntityInv, update_entity_mysql
  PROVE  EntityInv'
<1> USE DEF update_entity_mysql
<1>1. \A e : Cardinality(Members(e)) \in Nat
  <2> SUFFICES ASSUME NEW e
               PROVE  Cardinality(Members(e)) \in Nat
    OBVIOUS
  <2>1. Members(e) \in SUBSET Rows
    BY DEF Members
  <2>2. QED
    BY <2>1, FS_Subset, FS_CardinalityType DEF EntityInv
<1>2. /\ UNCHANGED <<entity, entitycnt, stage, input_bv, output_bv>>
      /\ Rows' = Rows /\ Entities' = Entities
      /\ \A e : Members(e)' = Members(e)
  BY DEF Rows, Entities, Members
<1>3. TypeOK'
  BY <1>1, <1>2 DEF EntityInv, TypeOK
<1>4. IsFiniteSet(Rows)' /\ PendingOK' /\ AssignedInTime' /\ TablesAgree'
  BY <1>2 DEF EntityInv, PendingOK, AssignedInTime, TablesAgree, Waiting, Elements
<1>5. StaleIsQueued'
  BY <1>2 DEF EntityInv, StaleIsQueued
<1>6. QED
  BY <1>3, <1>4, <1>5 DEF EntityInv
-----------------------------------------------------------------------------
(* Empty tables satisfy the invariant.                                     *)
LEMMA EntityInvInit == Init => EntityInv
<1> SUFFICES ASSUME Init PROVE EntityInv
  OBVIOUS
<1>1. Rows = {} /\ Entities = {}
  BY DEF Init, Rows, Entities
<1>2. IsFiniteSet(Rows)
  BY <1>1, FS_EmptySet
<1>3. QED
  BY <1>1, <1>2 DEF Init, InitialCnt, EntityInv, TypeOK, PendingOK, AssignedInTime, Waiting,
                    TablesAgree, StaleIsQueued, Stages

(* Every step keeps the invariant: one case per call.                      *)
LEMMA EntityInvNext == EntityInv /\ [Next]_vars => EntityInv'
<1> SUFFICES ASSUME EntityInv, [Next]_vars
             PROVE  EntityInv'
  OBVIOUS
<1>1. CASE UNCHANGED vars
  BY <1>1 DEF vars, EntityInv, TypeOK, PendingOK, AssignedInTime, Waiting,
              TablesAgree, StaleIsQueued, Members, Rows, Entities, Elements
<1>2. CASE \E in \in Vectors \cup {<<Coinbase>>}, out \in Vectors : BeginTransaction(in, out)
  BY <1>2, BeginPreserves
<1>3. CASE input_entity_mysql
  BY <1>3, InputPreserves
<1>4. CASE \E a \in Address : output_row(a)
  BY <1>4, RowPreserves
<1>8. CASE rows_written
  BY <1>8, RowsWrittenPreserves
<1>5. CASE output_entity_mysql
  BY <1>5, OutputPreserves
<1>6. CASE update_entity_mysql
  BY <1>6, UpdatePreserves
<1>7. QED
  BY <1>1, <1>2, <1>3, <1>4, <1>5, <1>6, <1>8 DEF Next

(* Between transactions every address has an entity, the two tables name   *)
(* the same entities, the next id is new, and every row whose count of     *)
(* addresses is out of date is queued for the monthly update.              *)
THEOREM EntitySafety == Spec => []TablesConsistent
<1>1. EntityInv => TablesConsistent
  BY DEF EntityInv, TablesConsistent
<1>2. QED
  BY <1>1, EntityInvInit, EntityInvNext, PTL DEF Spec

(* The types of tables, queue and locals.                                  *)
THEOREM EntityTypes == Spec => []TypeOK
<1>1. EntityInv => TypeOK
  BY DEF EntityInv
<1>2. QED
  BY <1>1, EntityInvInit, EntityInvNext, PTL DEF Spec
-----------------------------------------------------------------------------
(* What each action does to the entity column: a merge maps equal ids to   *)
(* equal ids, and the only id that can appear is entitycnt + 1.            *)
LEMMA StepKeepsMerges ==
  ASSUME EntityInv, [Next]_vars
  PROVE  NeverSplit /\ NeverReused
<1>0. entitycnt \in Nat /\ Entities \subseteq Nat
  BY DEF EntityInv, TypeOK
<1>1. CASE UNCHANGED <<entity, addcnt>>
  BY <1>1 DEF NeverSplit, NeverReused, Rows, Entities
<1>2. CASE input_entity_mysql /\ ~ IsCoinbase(input_bv)
  <2>1. /\ entity' = Merged(SpentEntities(input_bv), LeastId(SpentEntities(input_bv)))
        /\ addcnt' = [e \in Remaining(SpentEntities(input_bv),
                                     LeastId(SpentEntities(input_bv))) |-> addcnt[e]]
    BY <1>2 DEF input_entity_mysql
  <2>2. NeverSplit
    BY <2>1 DEF NeverSplit, Merged
  <2>3. NeverReused
    BY <2>1 DEF NeverReused, Remaining, Entities
  <2>4. QED
    BY <2>2, <2>3
<1>3. CASE \E a \in Address : output_row(a)
  BY <1>3 DEF output_row, InsertRow, NeverSplit, NeverReused, Rows, Entities
<1>4. CASE output_entity_mysql /\ entity[Head(output_bv)] = 0
  <2> DEFINE a == Head(output_bv)
  <2>1. /\ entity' = [entity EXCEPT ![a] = entitycnt + 1]
        /\ Entities' = Entities \cup {entitycnt + 1}
    BY <1>4 DEF output_entity_mysql, insert_entity_mysql, Entities
  <2>2. NeverSplit
    BY <1>4, <2>1 DEF NeverSplit, Rows
  <2>3. NeverReused
    BY <1>0, <2>1 DEF NeverReused
  <2>4. QED
    BY <2>2, <2>3
<1>5. CASE update_entity_mysql
  BY <1>5 DEF update_entity_mysql, NeverSplit, NeverReused, Rows, Entities
<1>6. QED
  BY <1>1, <1>2, <1>3, <1>4, <1>5 DEF Next, vars, BeginTransaction, TakeVectors, input_entity_mysql,
                                      output_entity_mysql, rows_written, CallOutputEntity, tables

(* No step separates two addresses of one entity, and no step gives out an *)
(* id whose row an earlier merge deleted.                                  *)
THEOREM MergesFinal == Spec => MergesAreFinal
<1>1. EntityInv /\ [Next]_vars => [NeverSplit /\ NeverReused]_vars
  BY StepKeepsMerges
<1>2. QED
  BY <1>1, EntityInvInit, EntityInvNext, PTL DEF Spec, MergesAreFinal
-----------------------------------------------------------------------------
(* The refinement: a merge is a CoSpend of the input addresses, the        *)
(* assignment of a new id is a Learn, and every other step is a stutter.   *)
LEMMA MergeIsCoSpend ==
  ASSUME EntityInv, input_entity_mysql, ~ IsCoinbase(input_bv)
  PROVE  AP!CoSpend(Elements(input_bv)) /\ Elements(input_bv) \in SUBSET Address
<1> DEFINE In == Elements(input_bv)
           ids == SpentEntities(input_bv)
           keep == LeastId(ids)
<1>1. stage = "input_entity" /\ input_bv \in Vectors /\ In \subseteq Rows
  BY DEF EntityInv, PendingOK, IsCoinbase, input_entity_mysql
<1>2. In # {}
  BY <1>1, VectorsAssumption, ElementsOfSeq
<1>3. Assigned = Rows
  BY <1>1 DEF EntityInv, AssignedInTime, Waiting, Assigned
<1>4. ids = {entity[a] : a \in In} /\ ids \subseteq Nat /\ ids # {} /\ 0 \notin ids
  BY <1>1, <1>2, <1>3, Basics DEF SpentEntities, Assigned
<1>5. keep \in ids
  BY <1>4, LeastIdExists
<1>6. /\ entity' = [a \in Rows |-> IF entity[a] \in ids THEN keep ELSE entity[a]]
      /\ cospent' = cospent \cup {In}
  BY DEF input_entity_mysql, Merged
<1> HIDE DEF In, keep
<1>7. Rows' = Rows /\ Assigned' = Assigned
  BY <1>3, <1>4, <1>5, <1>6 DEF Rows, Assigned
<1>8. /\ DOMAIN clusterBar = Rows
      /\ \A a \in Rows : clusterBar[a] = {b \in Rows : entity[b] = entity[a]}
      /\ clusterBar' = [a \in Rows |-> {b \in Rows : entity'[b] = entity'[a]}]
  BY <1>3, <1>7 DEF clusterBar
<1> DEFINE united == UNION {clusterBar[a] : a \in In}
<1>9. united = {b \in Rows : entity[b] \in ids}
  BY <1>1, <1>4, <1>8
<1> HIDE DEF united
<1> HIDE DEF ids
<1>10. ASSUME NEW a \in Rows
       PROVE  {b \in Rows : entity'[b] = entity'[a]}
                = IF a \in united THEN united ELSE clusterBar[a]
  <2>1. \A b \in Rows : entity'[b] = IF entity[b] \in ids THEN keep ELSE entity[b]
    BY <1>6
  <2>2. CASE entity[a] \in ids
    BY <2>1, <2>2, <1>5, <1>9
  <2>3. CASE entity[a] \notin ids
    BY <2>1, <2>3, <1>5, <1>8, <1>9
  <2>4. QED
    BY <2>2, <2>3
<1>11. clusterBar' = [b \in DOMAIN clusterBar |-> IF b \in united THEN united ELSE clusterBar[b]]
  BY <1>8, <1>10
<1>12. In \subseteq Address
  BY <1>1 DEF EntityInv, TypeOK
<1>13. QED
  BY <1>1, <1>2, <1>6, <1>8, <1>11, <1>12 DEF AP!CoSpend, AP!Known, united, In

(* Giving an address a new id is the abstract Learn.                       *)
LEMMA AssignIsLearn ==
  ASSUME EntityInv, output_entity_mysql, entity[Head(output_bv)] = 0
  PROVE  AP!Learn(Head(output_bv)) /\ Head(output_bv) \in Address
<1> DEFINE a == Head(output_bv)
           new == entitycnt + 1
<1>1. a \in Rows /\ a \in Address /\ entitycnt \in Nat
  BY ElementsOfSeq DEF EntityInv, TypeOK, PendingOK, output_entity_mysql
<1>2. entity' = [entity EXCEPT ![a] = new] /\ cospent' = cospent
  BY DEF output_entity_mysql
<1>3. a \notin Assigned
  BY DEF Assigned
<1>4. /\ Rows' = Rows
      /\ \A b \in Rows : entity'[b] = IF b = a THEN new ELSE entity[b]
      /\ new # 0
      /\ \A b \in Rows : entity[b] # new
  BY <1>1, <1>2, Basics DEF Rows
<1>5. Assigned' = Assigned \cup {a}
  BY <1>1, <1>4 DEF Assigned
<1>6. ASSUME NEW b \in Assigned \cup {a}
      PROVE  {c \in Assigned' : entity'[c] = entity'[b]}
               = IF b = a THEN {a} ELSE clusterBar[b]
  <2>1. Assigned \subseteq Rows
    BY DEF Assigned
  <2>2. CASE b = a
    BY <2>1, <2>2, <1>1, <1>4, <1>5
  <2>3. CASE b # a
    BY <2>1, <2>3, <1>1, <1>3, <1>4, <1>5 DEF clusterBar
  <2>4. QED
    BY <2>2, <2>3
<1>7. clusterBar' = [b \in Assigned \cup {a} |-> IF b = a THEN {a} ELSE clusterBar[b]]
  BY <1>5, <1>6 DEF clusterBar
<1>8. DOMAIN clusterBar = Assigned
  BY DEF clusterBar
<1>9. QED
  BY <1>1, <1>2, <1>3, <1>7, <1>8 DEF AP!Learn, AP!Known

(* Every step of the clustering is an abstract step or a stutter.          *)
LEMMA StepRefines ==
  ASSUME EntityInv, [Next]_vars
  PROVE  [AP!Next]_(AP!avars)
<1>1. CASE UNCHANGED <<entity, cospent>>
  BY <1>1 DEF AP!avars, clusterBar, Assigned, Rows
<1>2. CASE input_entity_mysql /\ ~ IsCoinbase(input_bv)
  BY <1>2, MergeIsCoSpend DEF AP!Next
<1>3. CASE \E a \in Address : output_row(a)
  <2>1. Assigned' = Assigned /\ \A a \in Assigned : entity'[a] = entity[a]
    BY <1>3 DEF output_row, InsertRow, Assigned, Rows
  <2>2. clusterBar' = clusterBar /\ cospent' = cospent
    BY <1>3, <2>1 DEF clusterBar, output_row, InsertRow
  <2>3. QED
    BY <2>2 DEF AP!avars
<1>4. CASE output_entity_mysql /\ entity[Head(output_bv)] = 0
  BY <1>4, AssignIsLearn DEF AP!Next
<1>5. QED
  BY <1>1, <1>2, <1>3, <1>4 DEF Next, vars, BeginTransaction, TakeVectors, input_entity_mysql,
                                output_entity_mysql, update_entity_mysql,
                                rows_written, CallOutputEntity, tables

(* The entity columns implement the partition of the addresses by common   *)
(* inputs, whatever the ids, the order of the transactions and the months. *)
THEOREM EntityRefinesPartition == Spec => ImplementsPartition
<1>1. Init => AP!Init
  BY DEF Init, AP!Init, clusterBar, Assigned, Rows
<1>2. EntityInv /\ [Next]_vars => [AP!Next]_(AP!avars)
  BY StepRefines
<1>3. QED
  BY <1>1, <1>2, EntityInvInit, EntityInvNext, PTL DEF Spec, ImplementsPartition, AP!Spec

-----------------------------------------------------------------------------
(* The clusters of AddressPartition are the connected components of the    *)
(* spent-together relation.  That is not inductive.  What is, besides      *)
(* types and the partition, are its two halves: a cluster is closed under  *)
(* cospent (so a component cannot be larger), and it lies inside every     *)
(* closed set that meets it (so a component cannot be smaller).            *)
ClustersClosed == \A a \in AP!Known : AP!ClosedUnder(clusterBar[a], cospent)

ClustersMinimal == \A a \in AP!Known, C \in SUBSET AP!Known :
                      a \in C /\ AP!ClosedUnder(C, cospent) => clusterBar[a] \subseteq C

PartitionInv == AP!TypeOK /\ AP!IsPartition /\ ClustersClosed /\ ClustersMinimal

(* A new address is alone: it is linked to nothing yet.                    *)
LEMMA LearnPreserves ==
  ASSUME PartitionInv, NEW x \in Address, AP!Learn(x)
  PROVE  PartitionInv'
<1> USE DEF AP!Known
<1>0. /\ DOMAIN clusterBar' = DOMAIN clusterBar \cup {x}
      /\ clusterBar'[x] = {x}
      /\ \A b \in DOMAIN clusterBar : clusterBar'[b] = clusterBar[b]
      /\ x \notin DOMAIN clusterBar
      /\ cospent' = cospent
  BY DEF AP!Learn
<1>1. AP!TypeOK'
  BY <1>0 DEF PartitionInv, AP!TypeOK, AP!Learn
<1>2. AP!IsPartition'
  BY <1>0 DEF PartitionInv, AP!TypeOK, AP!IsPartition
<1>3. ClustersClosed'
  <2>1. \A S \in cospent : x \notin S
    BY <1>0 DEF PartitionInv, AP!TypeOK
  <2>2. QED
    BY <1>0, <2>1 DEF PartitionInv, ClustersClosed, AP!ClosedUnder
<1>4. ClustersMinimal'
  <2> SUFFICES ASSUME NEW a \in DOMAIN clusterBar', NEW C \in SUBSET DOMAIN clusterBar',
                      a \in C, AP!ClosedUnder(C, cospent)
               PROVE  clusterBar'[a] \subseteq C
    BY <1>0 DEF ClustersMinimal, AP!ClosedUnder
  <2>1. CASE a = x
    BY <2>1, <1>0
  <2>2. CASE a \in DOMAIN clusterBar
    <3> DEFINE D == C \cap DOMAIN clusterBar
    <3>1. AP!ClosedUnder(D, cospent)
      BY DEF AP!ClosedUnder, PartitionInv, AP!TypeOK
    <3>2. clusterBar[a] \subseteq D
      BY <3>1, <2>2 DEF PartitionInv, ClustersMinimal
    <3>3. QED
      BY <3>2, <2>2, <1>0
  <2>3. QED
    BY <2>1, <2>2, <1>0
<1>5. QED
  BY <1>1, <1>2, <1>3, <1>4 DEF PartitionInv

(* A common transaction unites whole clusters, and every closed set that   *)
(* holds one of its inputs must now hold them all.                         *)
LEMMA CoSpendPreserves ==
  ASSUME PartitionInv, NEW S \in SUBSET Address, AP!CoSpend(S)
  PROVE  PartitionInv'
<1> USE DEF AP!Known
<1> DEFINE U == UNION {clusterBar[a] : a \in S}
<1>0. /\ DOMAIN clusterBar' = DOMAIN clusterBar
      /\ \A b \in DOMAIN clusterBar : clusterBar'[b] = IF b \in U THEN U ELSE clusterBar[b]
      /\ cospent' = cospent \cup {S}
      /\ S \subseteq DOMAIN clusterBar
      /\ S # {}
  BY DEF AP!CoSpend
<1>u. U \subseteq DOMAIN clusterBar /\ S \subseteq U
  BY <1>0 DEF PartitionInv, AP!TypeOK, AP!IsPartition
<1>w. \A b \in DOMAIN clusterBar : b \in U <=> \E s \in S : b \in clusterBar[s]
  OBVIOUS
<1>d. \A b \in DOMAIN clusterBar : b \notin U => clusterBar[b] \cap U = {}
  BY <1>0, <1>w DEF PartitionInv, AP!TypeOK, AP!IsPartition
<1>e. \A b \in DOMAIN clusterBar : b \in U => clusterBar[b] \subseteq U
  BY <1>0, <1>w DEF PartitionInv, AP!TypeOK, AP!IsPartition
<1> HIDE DEF U
<1>1. AP!TypeOK'
  BY <1>0, <1>u DEF PartitionInv, AP!TypeOK, AP!CoSpend, U
<1>2. AP!IsPartition'
  <2> SUFFICES ASSUME NEW a \in DOMAIN clusterBar, NEW b \in DOMAIN clusterBar
               PROVE  /\ a \in clusterBar'[a]
                      /\ b \in clusterBar'[a] => clusterBar'[b] = clusterBar'[a]
    BY <1>0 DEF AP!IsPartition
  <2>1. a \in clusterBar[a] /\ (b \in clusterBar[a] => clusterBar[b] = clusterBar[a]) /\ b \in clusterBar[b]
    BY DEF PartitionInv, AP!IsPartition
  <2>2. QED
    BY <1>0, <1>d, <2>1
<1>3. ClustersClosed'
  <2> SUFFICES ASSUME NEW a \in DOMAIN clusterBar, NEW T \in cospent \cup {S},
                      T \cap clusterBar'[a] # {}
               PROVE  T \subseteq clusterBar'[a]
    BY <1>0 DEF ClustersClosed, AP!ClosedUnder
  <2>0. \A b \in DOMAIN clusterBar : T \in cospent /\ T \cap clusterBar[b] # {} => T \subseteq clusterBar[b]
    BY DEF PartitionInv, ClustersClosed, AP!ClosedUnder
  <2>1. CASE a \notin U
    BY <2>1, <2>0, <1>0, <1>d, <1>u
  <2>2. CASE a \in U
    <3>1. CASE T = S
      BY <3>1, <2>2, <1>0, <1>u
    <3>2. CASE T \in cospent
      <4>1. PICK t \in T : t \in U
        BY <2>2, <1>0
      <4>2. t \in DOMAIN clusterBar /\ t \in clusterBar[t]
        BY <4>1, <1>u DEF PartitionInv, AP!IsPartition
      <4>3. T \subseteq clusterBar[t] /\ clusterBar[t] \subseteq U
        BY <4>1, <4>2, <3>2, <2>0, <1>e
      <4>4. QED
        BY <4>3, <2>2, <1>0
    <3>3. QED
      BY <3>1, <3>2
  <2>3. QED
    BY <2>1, <2>2
<1>4. ClustersMinimal'
  <2> SUFFICES ASSUME NEW a \in DOMAIN clusterBar, NEW C \in SUBSET DOMAIN clusterBar,
                      a \in C, AP!ClosedUnder(C, cospent \cup {S})
               PROVE  clusterBar'[a] \subseteq C
    BY <1>0 DEF ClustersMinimal, AP!ClosedUnder
  <2>1. AP!ClosedUnder(C, cospent) /\ (S \cap C # {} => S \subseteq C)
    BY DEF AP!ClosedUnder
  <2>2. \A b \in DOMAIN clusterBar : b \in C => clusterBar[b] \subseteq C
    BY <2>1 DEF PartitionInv, ClustersMinimal
  <2>3. CASE a \notin U
    BY <2>3, <2>2, <1>0
  <2>4. CASE a \in U
    <3>1. PICK s \in S : a \in clusterBar[s]
      BY <2>4 DEF U
    <3>2. s \in clusterBar[a]
      BY <3>1, <1>0 DEF PartitionInv, AP!IsPartition
    <3>3. S \subseteq C
      BY <3>2, <2>2, <2>1
    <3>4. U \subseteq C
      BY <3>3, <2>2, <1>0 DEF U
    <3>5. QED
      BY <3>4, <2>4, <1>0
  <2>5. QED
    BY <2>3, <2>4
<1>5. QED
  BY <1>1, <1>2, <1>3, <1>4 DEF PartitionInv

(* The invariant gives the characterisation: a cluster is itself a closed  *)
(* set that contains its address.                                          *)
LEMMA InvGivesComponents == PartitionInv => AP!ClustersAreComponents
<1> SUFFICES ASSUME PartitionInv, NEW a \in AP!Known
             PROVE  clusterBar[a] = AP!Component(a)
  BY DEF AP!ClustersAreComponents
<1>1. clusterBar[a] \in SUBSET AP!Known /\ a \in clusterBar[a]
  BY DEF PartitionInv, AP!TypeOK, AP!IsPartition, AP!Known
<1>2. AP!ClosedUnder(clusterBar[a], cospent)
  BY DEF PartitionInv, ClustersClosed
<1>3. \A C \in SUBSET AP!Known : a \in C /\ AP!ClosedUnder(C, cospent) => clusterBar[a] \subseteq C
  BY DEF PartitionInv, ClustersMinimal
<1>4. ASSUME NEW b \in clusterBar[a]
      PROVE  b \in AP!Component(a)
  BY <1>1, <1>3 DEF AP!Component
<1>5. ASSUME NEW b \in AP!Component(a)
      PROVE  b \in clusterBar[a]
  BY <1>1, <1>2 DEF AP!Component
<1>6. QED
  BY <1>4, <1>5

(* Two addresses are in one cluster if and only if a chain of transactions *)
(* spent them together; and the clusters always partition the addresses.   *)
THEOREM PartitionCorrect == AP!Spec => [](AP!IsPartition /\ AP!ClustersAreComponents)
<1>1. AP!Init => PartitionInv
  BY DEF AP!Init, PartitionInv, AP!TypeOK, AP!IsPartition, ClustersClosed, ClustersMinimal,
         AP!ClosedUnder, AP!Known
<1>2. PartitionInv /\ [AP!Next]_(AP!avars) => PartitionInv'
  <2> SUFFICES ASSUME PartitionInv, [AP!Next]_(AP!avars)
               PROVE  PartitionInv'
    OBVIOUS
  <2>1. CASE UNCHANGED AP!avars
    BY <2>1 DEF AP!avars, PartitionInv, AP!TypeOK, AP!IsPartition, ClustersClosed,
                ClustersMinimal, AP!ClosedUnder, AP!Known
  <2>2. CASE \E a \in Address : AP!Learn(a)
    BY <2>2, LearnPreserves
  <2>3. CASE \E S \in SUBSET Address : AP!CoSpend(S)
    BY <2>3, CoSpendPreserves
  <2>4. QED
    BY <2>1, <2>2, <2>3 DEF AP!Next
<1>3. PartitionInv => AP!IsPartition /\ AP!ClustersAreComponents
  BY InvGivesComponents DEF PartitionInv
<1>4. QED
  BY <1>1, <1>2, <1>3, PTL DEF AP!Spec

(* Two addresses have the same entity id if and only if a chain of         *)
(* transactions spent them together.                                       *)
THEOREM EntityIsComponent == Spec => []EntitiesAreComponents
BY EntityRefinesPartition, PartitionCorrect, PTL DEF ImplementsPartition, EntitiesAreComponents
=============================================================================
