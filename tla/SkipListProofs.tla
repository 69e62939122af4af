--------------------------- MODULE SkipListProofs ---------------------------
(***************************************************************************)
(* Proofs about SkipList, for every set of keys, every height and any      *)
(* number of readers: the lists stay sorted between the stores of Insert,  *)
(* and the searches of readers are those of an ordered set.                *)
(***************************************************************************)
EXTENDS SkipList, TLAPS

(* Keys are numbers between head_ and Nil.                                 *)
LEMMA KeyRange ==
    /\ Nil \in Nat /\ \A k \in Key : k \in Nat /\ 0 < k /\ k < Nil
    /\ 0 \notin Key /\ Nil \notin Key /\ kMaxHeight \in Nat \ {0}
BY SkipListAssumption
LEMMA KeyNext == \A k \in Key : k + 1 \in 1..Nil /\ k < k + 1
BY SkipListAssumption

(* The order of numbers, for the provers that know no arithmetic.          *)
LEMMA Order ==
    /\ \A a, b, c \in Nat : a < b /\ (b < c \/ b <= c) => a # c
    /\ \A a, b \in Nat : a > b => a # 0
    /\ \A a, b \in Nat : ~ (a < b) => a >= b
    /\ \A a, b, c, d \in Nat : a < b /\ c >= b /\ (a > d => a >= c) => a <= d
OBVIOUS

(* The target of a search is a number up to Nil.                           *)
LEMMA TargetRange ==
    ASSUME TypeOK, NEW r \in Reader
    PROVE  target[r] \in Nat /\ target[r] <= Nil
<1>1. target[r] \in 1..Nil
  BY DEF TypeOK
<1> QED
  BY <1>1, KeyRange

(* What a load of a pointer can give.                                      *)
LEMMA PointerType ==
    ASSUME next_ \in [Node -> [Level -> Key \cup {Nil}]], NEW n \in Node, NEW l \in Level
    PROVE  next_[n][l] \in Key \cup {Nil}
OBVIOUS

(* A store into one pointer of one node.                                   *)
LEMMA StoreOne ==
    ASSUME NEW A, NEW B, NEW C, NEW f \in [A -> [B -> C]], NEW a \in A, NEW b \in B, NEW c \in C,
           NEW g, g = [f EXCEPT ![a] = [@ EXCEPT ![b] = c]]
    PROVE  /\ g \in [A -> [B -> C]]
           /\ g[a][b] = c
           /\ \A d \in A, e \in B : d # a \/ e # b => g[d][e] = f[d][e]
<1> DEFINE fa == [f[a] EXCEPT ![b] = c]
<1>1. fa \in [B -> C] /\ fa[b] = c /\ \A e \in B : e # b => fa[e] = f[a][e]
  OBVIOUS
<1>2. g = [f EXCEPT ![a] = fa]
  OBVIOUS
<1> HIDE DEF fa
<1>3. g \in [A -> [B -> C]]
  BY <1>1, <1>2
<1>4. g[a] = fa /\ \A d \in A : d # a => g[d] = f[d]
  BY <1>2
<1> QED
  BY <1>1, <1>3, <1>4

(* The list starts empty, whatever is in the memory of the nodes.          *)
LEMMA InitInv == Init => IInv
<1> SUFFICES ASSUME Init PROVE IInv
  OBVIOUS
<1> USE KeyRange
<1>1. TypeOK
  <2>1. next_ \in [Node -> [Level -> Key \cup {Nil}]]
    BY SkipListAssumption DEF Init, Node
  <2>2. /\ max_height_ \in 1..kMaxHeight /\ links \in [Key -> 0..kMaxHeight]
        /\ level \in Level /\ height \in 1..kMaxHeight /\ i \in 0..kMaxHeight
    BY DEF Init, Level
  <2> QED
    BY <2>1, <2>2 DEF Init, TypeOK, Node, Level, head_
<1>2. \A l \in Level : Linked(l) = {0}
  BY DEF Init, Linked, Level, head_
<1>3. Sorted
  BY <1>2, SMTT(30) DEF Init, Sorted, Level, head_, Node
<1>4. WriterInv
  BY DEF Init, WriterInv
<1>5. ReaderInv
  BY DEF Init, ReaderInv
<1> QED
  BY <1>1, <1>3, <1>4, <1>5 DEF IInv

(* Every step keeps the types: the places that Insert and the searches     *)
(* reach are nodes and levels.                                             *)
LEMMA TypeStep == IInv /\ [Next]_vars => TypeOK'
<1> SUFFICES ASSUME IInv, [Next]_vars PROVE TypeOK'
  OBVIOUS
<1> USE KeyRange
<1> USE DEF IInv, TypeOK
<1>0. CASE UNCHANGED vars
  BY <1>0 DEF vars, list, writer, searches
<1>1. ASSUME NEW k \in Key, Insert(k) PROVE TypeOK'
  BY <1>1 DEF Insert, list, searches, Node, head_, Level
<1>2. CASE Find
  <2>1. next_[x][level] \in Key \cup {Nil}
    BY <1>2 DEF Find
  <2>2. KeyIsAfterNode(key, next_[x][level]) => next_[x][level] \in Node
    BY <2>1 DEF KeyIsAfterNode, Node
  <2>3. level # 0 => level - 1 \in Level
    BY DEF Level
  <2>4. 0 \in Level
    BY DEF Level
  <2> QED
    BY <1>2, <2>1, <2>2, <2>3, <2>4 DEF Find, list, searches
<1>3. ASSUME NEW h \in 1..kMaxHeight, RandomHeight(h) PROVE TypeOK'
  BY <1>3 DEF RandomHeight, searches, Node, head_
<1>4. CASE SetOwn
  <2>1. i \in Level /\ key \in Node
    BY <1>4 DEF SetOwn, WriterInv, Level, Node
  <2>a. prev[i] \in Node
    BY <2>1
  <2>2. next_[prev[i]][i] \in Key \cup {Nil}
    BY <2>1, <2>a, PointerType
  <2>3. next_' = [next_ EXCEPT ![key] = [@ EXCEPT ![i] = next_[prev[i]][i]]]
    BY <1>4 DEF SetOwn
  <2>4. next_' \in [Node -> [Level -> Key \cup {Nil}]]
    BY <2>1, <2>2, <2>3, StoreOne
  <2> QED
    BY <1>4, <2>1, <2>4 DEF SetOwn, searches
<1>5. CASE Publish
  <2>1. i \in Level /\ prev[i] \in Node /\ i + 1 \in 0..kMaxHeight
    BY <1>5 DEF Publish, WriterInv, Level
  <2>2. next_' = [next_ EXCEPT ![prev[i]] = [@ EXCEPT ![i] = key]]
    BY <1>5 DEF Publish
  <2>3. next_' \in [Node -> [Level -> Key \cup {Nil}]]
    BY <2>1, <2>2, StoreOne
  <2> QED
    BY <1>5, <2>1, <2>3 DEF Publish, searches
<1>6. ASSUME NEW r \in Reader, Read(r) PROVE TypeOK'
  <2>1. ASSUME NEW c \in {"FindGreaterOrEqual", "FindLessThan", "Next"}, NEW n \in Node,
               NEW l \in Level, NEW t \in 1..Nil, Search(r, c, n, l, t)
        PROVE  TypeOK'
    BY <2>1 DEF Search, list, writer
  <2>2. \A h \in 1..max_height_ : h - 1 \in Level
    BY DEF Level
  <2>3. 0 \in Level /\ 0 \in Node /\ Key \subseteq Node /\ Key \subseteq 1..Nil /\ Nil \in 1..Nil
    BY DEF Level, Node, head_
  <2>4. node_[r] # Nil => node_[r] \in Key
    OBVIOUS
  <2>5. ASSUME NEW h \in 1..max_height_, NEW k \in Key, Seek(r, k, h) PROVE TypeOK'
    BY <2>1, <2>2, <2>3, <2>5 DEF Seek, head_
  <2>6. ASSUME NEW h \in 1..max_height_, SeekToLast(r, h) PROVE TypeOK'
    BY <2>1, <2>2, <2>3, <2>6 DEF SeekToLast, head_
  <2>7. ASSUME NEW h \in 1..max_height_, Prev(r, h) PROVE TypeOK'
    BY <2>1, <2>2, <2>3, <2>4, <2>7 DEF Prev, head_
  <2>8. CASE SeekToFirst(r)
    <3>1. 0 + 1 \in 1..Nil
      OBVIOUS
    <3> QED
      BY <2>1, <2>3, <2>8, <3>1 DEF SeekToFirst, head_
  <2>9. CASE Next_(r)
    <3>2. node_[r] \in Key
      BY <2>9 DEF Next_
    <3>1. node_[r] + 1 \in 1..Nil
      BY <3>2
    <3> QED
      BY <2>1, <2>3, <2>9, <3>1, <3>2 DEF Next_
  <2>10. CASE Step(r)
    <3>1. next_[at[r]][rlevel[r]] \in Key \cup {Nil}
      OBVIOUS
    <3>2. KeyIsAfterNode(target[r], next_[at[r]][rlevel[r]]) => next_[at[r]][rlevel[r]] \in Node
      BY <3>1 DEF KeyIsAfterNode, Node
    <3>3. rlevel[r] # 0 => rlevel[r] - 1 \in Level
      BY DEF Level
    <3>4. at[r] # head_ => at[r] \in Key
      BY DEF Node
    <3> DEFINE next == next_[at[r]][rlevel[r]]
    <3>5. /\ at' = at \/ (next \in Node /\ at' = [at EXCEPT ![r] = next])
          /\ rlevel' = rlevel \/ (rlevel[r] # 0 /\ rlevel' = [rlevel EXCEPT ![r] = @ - 1])
          /\ call' = call \/ call' = [call EXCEPT ![r] = "none"]
          /\ \/ node_' = node_ \/ node_' = [node_ EXCEPT ![r] = next]
             \/ node_' = [node_ EXCEPT ![r] = Nil]
             \/ at[r] # head_ /\ node_' = [node_ EXCEPT ![r] = at[r]]
      BY <2>10, <3>2, Zenon DEF Step, Bottom
    <3>6. UNCHANGED <<next_, max_height_, links, pc, key, x, level, prev, height, i, target>>
      BY <2>10 DEF Step, list, writer
    <3>7. at' \in [Reader -> Node]
      BY <3>5
    <3>8. rlevel' \in [Reader -> Level]
      BY <3>3, <3>5
    <3>9. node_' \in [Reader -> Key \cup {Nil}]
      BY <3>1, <3>4, <3>5
    <3>10. call' \in [Reader -> {"none", "FindGreaterOrEqual", "FindLessThan", "Next"}]
      BY <3>5
    <3> QED
      BY <3>6, <3>7, <3>8, <3>9, <3>10
  <2> QED
    BY <1>6, <2>5, <2>6, <2>7, <2>8, <2>9, <2>10 DEF Read
<1> QED
  BY <1>0, <1>1, <1>2, <1>3, <1>4, <1>5, <1>6 DEF Next, Write

-----------------------------------------------------------------------------
(* The list of a level is in the list of the level below.                  *)
LEMMA Nested ==
    ASSUME TypeOK, NEW l \in Level, l # 0
    PROVE  l - 1 \in Level /\ Linked(l) \subseteq Linked(l - 1)
<1>1. l \in Int /\ l - 1 \in Level
  BY SkipListAssumption DEF Level
<1>2. ASSUME NEW k \in Key, links[k] > l PROVE links[k] > l - 1
  <2>1. links[k] \in Int
    BY SkipListAssumption DEF TypeOK
  <2> QED
    BY <1>1, <1>2, <2>1
<1> QED
  BY <1>1, <1>2 DEF Linked

(* The node that Insert adds is not in the lists it is still to be put in. *)
LEMMA KeyNotLinked ==
    ASSUME IInv, pc \in {"find", "height", "own", "publish"}, NEW l \in Level,
           pc \in {"own", "publish"} => i <= l
    PROVE  key \notin Linked(l)
<1>1. key \in Key /\ links[key] \in Int /\ key # 0
  BY SkipListAssumption, KeyRange DEF IInv, TypeOK
<1>2. links[key] = 0 \/ (links[key] = i /\ i <= l)
  BY DEF IInv, WriterInv
<1> QED
  BY <1>1, <1>2 DEF Linked, Level, head_

(* The store into the new node changes no pointer that can be reached.     *)
LEMMA OwnStore ==
    ASSUME IInv, SetOwn
    PROVE  /\ i \in Level /\ prev[i] \in Linked(i) /\ prev[i] # key
           /\ next_'[key][i] = next_[prev[i]][i]
           /\ \A l \in Level : \A n \in Linked(l) : i <= l => n # key
           /\ \A l \in Level : \A n \in Linked(l) : next_'[n][l] = next_[n][l]
<1>1. i \in Level /\ key \in Node
  BY SkipListAssumption DEF IInv, TypeOK, WriterInv, SetOwn, Level, Node
<1>2. GoesAfter(i)
  <2>1. i <= i /\ i < height
    BY <1>1, SkipListAssumption DEF IInv, TypeOK, WriterInv, SetOwn, Level
  <2> QED
    BY <1>1, <2>1 DEF IInv, WriterInv, SetOwn
<1>3. \A l \in Level : i <= l => key \notin Linked(l)
  BY KeyNotLinked DEF SetOwn
<1>4. prev[i] \in Linked(i) /\ prev[i] # key
  <2>1. i <= i
    BY <1>1 DEF Level
  <2> QED
    BY <1>1, <1>2, <1>3, <2>1 DEF GoesAfter
<1>5. \A l \in Level : Linked(l) \subseteq Node
  BY DEF Linked, Node
<1>6. next_[prev[i]][i] \in Key \cup {Nil}
  BY <1>1, <1>4, <1>5, PointerType DEF IInv, TypeOK
<1>7. /\ next_'[key][i] = next_[prev[i]][i]
      /\ \A d \in Node, e \in Level : d # key \/ e # i => next_'[d][e] = next_[d][e]
  <2>1. next_' = [next_ EXCEPT ![key] = [@ EXCEPT ![i] = next_[prev[i]][i]]]
    BY DEF SetOwn
  <2>2. next_ \in [Node -> [Level -> Key \cup {Nil}]]
    BY DEF IInv, TypeOK
  <2> QED
    BY <1>1, <1>6, <2>1, <2>2, StoreOne
<1>8. ASSUME NEW l \in Level, NEW n \in Linked(l) PROVE next_'[n][l] = next_[n][l]
  <2>1. n # key \/ l # i
    <3>1. i <= i
      BY <1>1 DEF Level
    <3> QED
      BY <1>1, <1>3, <1>8, <3>1
  <2> QED
    BY <1>5, <1>7, <2>1
<1> QED
  BY <1>1, <1>3, <1>4, <1>7, <1>8

(* The store that publishes the new node at a level adds it to the list of *)
(* that level and changes one pointer of it.                               *)
LEMMA PublishStore ==
    ASSUME IInv, Publish
    PROVE  /\ i \in Level /\ GoesAfter(i) /\ key \notin Linked(i)
           /\ \A l \in Level : l = i => Linked(l)' = Linked(l) \cup {key}
           /\ \A l \in Level : l # i => Linked(l)' = Linked(l)
           /\ next_'[prev[i]][i] = key
           /\ next_[key][i] = next_[prev[i]][i]
           /\ \A n \in Node, l \in Level : n # prev[i] \/ l # i => next_'[n][l] = next_[n][l]
<1>1. i \in Level /\ key \in Key /\ links[key] = i /\ i < height
  BY SkipListAssumption DEF IInv, TypeOK, WriterInv, Publish, Level
<1>2. GoesAfter(i) /\ next_[key][i] = next_[prev[i]][i]
  <2>1. i <= i
    BY <1>1 DEF Level
  <2> QED
    BY <1>1, <2>1 DEF IInv, WriterInv, Publish
<1>3. key \notin Linked(i)
  BY <1>1, KeyNotLinked DEF Publish, Level
<1>4. /\ \A l \in Level : l = i => Linked(l)' = Linked(l) \cup {key}
      /\ \A l \in Level : l # i => Linked(l)' = Linked(l)
  <2>1. links' = [links EXCEPT ![key] = i + 1]
    BY DEF Publish
  <2>2. links \in [Key -> 0..kMaxHeight]
    BY DEF IInv, TypeOK
  <2>3. ASSUME NEW k \in Key, NEW l \in Level
        PROVE  links'[k] > l <=> links[k] > l \/ (k = key /\ l = i)
    <3>1. l \in Int /\ i \in Int /\ links[k] \in Int
      BY <1>1, <2>2, SkipListAssumption DEF Level
    <3>2. links'[k] = IF k = key THEN i + 1 ELSE links[k]
      BY <1>1, <2>1, <2>2
    <3> QED
      BY <1>1, <3>1, <3>2
  <2> QED
    BY <1>1, <2>3 DEF Linked
<1>5. prev[i] \in Node
  BY <1>1 DEF IInv, TypeOK
<1>6. /\ next_'[prev[i]][i] = key
      /\ \A d \in Node, e \in Level : d # prev[i] \/ e # i => next_'[d][e] = next_[d][e]
  <2>1. next_' = [next_ EXCEPT ![prev[i]] = [@ EXCEPT ![i] = key]]
    BY DEF Publish
  <2>2. next_ \in [Node -> [Level -> Key \cup {Nil}]]
    BY DEF IInv, TypeOK
  <2> QED
    BY <1>1, <1>5, <2>1, <2>2, StoreOne
<1> QED
  BY <1>1, <1>2, <1>3, <1>4, <1>6

-----------------------------------------------------------------------------
(* The lists are sorted after every step.                                  *)
LEMMA SortedStep == IInv /\ [Next]_vars => Sorted'
<1> SUFFICES ASSUME IInv, [Next]_vars PROVE Sorted'
  OBVIOUS
<1>1. CASE UNCHANGED <<next_, links>>
  BY <1>1 DEF IInv, Sorted, Linked
<1>2. CASE SetOwn
  <2>1. \A l \in Level : Linked(l)' = Linked(l)
    BY <1>2 DEF SetOwn, Linked
  <2>2. \A l \in Level : \A n \in Linked(l) : next_'[n][l] = next_[n][l]
    BY <1>2, OwnStore
  <2> QED
    BY <2>1, <2>2 DEF IInv, Sorted
<1>3. CASE Publish
  <2>1. SUFFICES ASSUME NEW l \in Level, NEW n \in Linked(l)'
                 PROVE  /\ next_'[n][l] \in Linked(l)' \cup {Nil} /\ next_'[n][l] > n
                        /\ \A m \in Linked(l)' : m > n => m >= next_'[n][l]
    BY DEF Sorted
  <2>2. Linked(l) \subseteq Node /\ Node \subseteq Nat /\ Nil \in Nat /\ key \in Node
    BY KeyRange DEF Linked, Node, head_, IInv, TypeOK
  <2>3. \A k \in Linked(l) :
          /\ next_[k][l] \in Linked(l) \cup {Nil} /\ next_[k][l] > k
          /\ \A m \in Linked(l) : m > k => m >= next_[k][l]
    BY DEF IInv, Sorted
  <2>4. CASE l # i
    <3>1. Linked(l)' = Linked(l) /\ next_'[n][l] = next_[n][l]
      BY <1>3, <2>1, <2>2, <2>4, PublishStore
    <3> QED
      BY <2>1, <2>3, <3>1
  <2>5. CASE l = i
    <3> DEFINE p == prev[l]
    <3>1. /\ Linked(l)' = Linked(l) \cup {key} /\ key \notin Linked(l)
          /\ p \in Linked(l) /\ p < key /\ next_[p][l] > key
          /\ next_'[p][l] = key /\ next_[key][l] = next_[p][l]
          /\ \A k \in Node : k # p => next_'[k][l] = next_[k][l]
      BY <1>3, <2>5, PublishStore DEF GoesAfter
    <3> HIDE DEF p
    <3> DEFINE q == next_[p][l]
    <3>a. p \in Nat /\ key \in Nat /\ q \in Linked(l) \cup {Nil} /\ q \in Nat /\ q > key
      BY <2>2, <2>3, <3>1
    <3>b. \A m \in Linked(l) : m \in Nat /\ (m > p => m >= q)
      BY <2>2, <2>3, <3>1
    <3>c. p < key /\ p \in Linked(l) /\ Linked(l)' = Linked(l) \cup {key} /\ key \notin Linked(l)
      BY <3>1
    <3>2. CASE n = p
      <4>1. next_'[n][l] = key
        BY <3>1, <3>2
      <4> HIDE DEF q
      <4>2. \A m \in Linked(l) \cup {key} : m > p => m >= key
        BY <3>a, <3>b
      <4> QED
        BY <3>2, <3>c, <4>1, <4>2
    <3>3. CASE n = key
      <4>1. next_'[n][l] = q
        BY <2>2, <3>1, <3>3
      <4> HIDE DEF q
      <4>2. \A m \in Linked(l) \cup {key} : m > key => m >= q
        BY <3>a, <3>b, <3>c
      <4> QED
        BY <3>3, <3>a, <3>c, <4>1, <4>2
    <3>4. CASE n # p /\ n # key
      <4>1. n \in Linked(l) /\ next_'[n][l] = next_[n][l]
        BY <2>1, <2>2, <3>1, <3>4
      <4>2. next_[n][l] \in Nat /\ n \in Nat
        BY <2>2, <2>3, <4>1
      <4>3. p > n => p >= next_[n][l]
        BY <2>3, <3>1, <4>1
      <4> HIDE DEF q
      <4>4. key > n => key >= next_[n][l]
        BY <3>4, <3>a, <3>b, <3>c, <4>1, <4>2, <4>3
      <4> QED
        BY <2>3, <3>c, <4>1, <4>4
    <3> QED
      BY <3>2, <3>3, <3>4
  <2> QED
    BY <2>4, <2>5
<1>4. UNCHANGED <<next_, links>> \/ SetOwn \/ Publish
  BY DEF Next, Write, Insert, Find, RandomHeight, Read, Seek, SeekToLast, Prev, SeekToFirst,
         Next_, Search, Step, vars, list
<1> QED
  BY <1>1, <1>2, <1>3, <1>4

(* The lists only grow.                                                    *)
LEMMA Grows == IInv /\ [Next]_vars =>
                   /\ \A l \in Level : Linked(l) \subseteq Linked(l)'
                   /\ \A k \in Key : links[k] > 0 => links'[k] > 0
<1> SUFFICES ASSUME IInv, [Next]_vars
             PROVE  /\ \A l \in Level : Linked(l) \subseteq Linked(l)'
                    /\ \A k \in Key : links[k] > 0 => links'[k] > 0
  OBVIOUS
<1>1. CASE UNCHANGED links
  BY <1>1 DEF Linked
<1>2. CASE Publish
  <2>1. \A l \in Level : Linked(l) \subseteq Linked(l)'
    BY <1>2, PublishStore
  <2>2. 0 \in Level
    BY SkipListAssumption DEF Level
  <2> QED
    BY <2>1, <2>2, KeyRange DEF Linked, head_
<1>3. UNCHANGED links \/ Publish
  BY DEF Next, Write, Insert, Find, RandomHeight, SetOwn, Read, Seek, SeekToLast, Prev,
         SeekToFirst, Next_, Search, Step, vars, list
<1> QED
  BY <1>1, <1>2, <1>3

-----------------------------------------------------------------------------
(* What a search reads at a level: the node after one of the list is in    *)
(* the list, or the end, and is further on.                                *)
LEMMA Successor ==
    ASSUME IInv, NEW l \in Level, NEW n \in Linked(l)
    PROVE  /\ n \in Nat /\ next_[n][l] \in Nat /\ next_[n][l] > n
           /\ next_[n][l] \in Linked(l) \cup {Nil}
           /\ \A m \in Linked(l) : m \in Nat /\ (m > n => m >= next_[n][l])
<1>1. Linked(l) \subseteq Nat /\ Nil \in Nat
  BY KeyRange DEF Linked, head_
<1> QED
  BY <1>1 DEF IInv, Sorted

(* The place of the new node is known, level by level, until it is linked. *)
LEMMA WriterStep == IInv /\ [Next]_vars => WriterInv'
<1> SUFFICES ASSUME IInv, [Next]_vars PROVE WriterInv'
  OBVIOUS
<1> USE KeyRange
<1>0. CASE UNCHANGED <<list, writer>>
  BY <1>0 DEF list, writer, IInv, WriterInv, GoesAfter, Linked
<1>1. ASSUME NEW k \in Key, Insert(k) PROVE WriterInv'
  <2>1. /\ pc' = "find" /\ key' = k /\ x' = 0 /\ level' = max_height_ - 1 /\ links[k] = 0
        /\ UNCHANGED <<next_, max_height_, links>>
    BY <1>1 DEF Insert, list, head_
  <2>2. (\A j \in Key : links[j] <= max_height_) /\ max_height_ \in 1..kMaxHeight
    BY DEF IInv, WriterInv, TypeOK
  <2>3. level' < max_height_' /\ x' < key'
    BY <2>1, <2>2
  <2>4. \A l \in Level : ~ (level' < l /\ l < max_height_')
    BY <2>1, <2>2 DEF Level
  <2>5. x' \in Linked(level)'
    BY <2>1 DEF Linked, head_
  <2> QED
    BY <2>1, <2>2, <2>3, <2>4, <2>5 DEF WriterInv
<1>2. CASE Find
  <2> DEFINE n == next_[x][level]
  <2>1. /\ pc = "find" /\ x \in Linked(level) /\ x < key /\ level < max_height_ /\ level \in Level
        /\ links[key] = 0 /\ key \in Key
        /\ \A l \in Level : level < l /\ l < max_height_ => GoesAfter(l)
        /\ \A j \in Key : links[j] <= max_height_
    BY <1>2 DEF Find, IInv, WriterInv, TypeOK
  <2>2. UNCHANGED <<next_, max_height_, links, key>>
    BY <1>2 DEF Find, list
  <2>3. x \in Nat /\ n \in Nat /\ n \in Linked(level) \cup {Nil}
    BY <2>1, Successor
  <2>4. key \notin Linked(level)
    BY <2>1, KeyNotLinked
  <2>5. prev \in [Level -> Node] /\ max_height_ \in 1..kMaxHeight
    BY DEF IInv, TypeOK
  <2>6. CASE n < key
    <3>1. x' = n /\ UNCHANGED <<pc, level, prev>>
      BY <1>2, <2>6 DEF Find, KeyIsAfterNode
    <3>2. n \in Linked(level)
      <4>1. key \in Nat /\ key < Nil /\ Nil \in Nat
        BY <2>1, KeyRange, Zenon
      <4> HIDE DEF n
      <4>2. n # Nil
        BY <2>3, <2>6, <4>1
      <4> QED
        BY <2>3, <4>2, Zenon
    <3> HIDE DEF n
    <3>3. x' \in Linked(level)' /\ x' < key'
      BY <2>2, <2>6, <3>1, <3>2 DEF Linked
    <3> QED
      BY <2>1, <2>2, <3>1, <3>3 DEF WriterInv, GoesAfter, Linked
  <2>7. CASE ~ (n < key)
    <3>1. /\ prev' = [prev EXCEPT ![level] = x] /\ x' = x
          /\ pc' = IF level = 0 THEN "height" ELSE "find"
          /\ level' = IF level = 0 THEN 0 ELSE level - 1
      BY <1>2, <2>7 DEF Find, KeyIsAfterNode
    <3>2. n > key
      BY <2>1, <2>3, <2>4, <2>7
    <3>3. ASSUME NEW l \in Level, level <= l, l < max_height_ PROVE GoesAfter(l)'
      <4>1. CASE l = level
        <5>1. prev'[l] = x
          BY <2>5, <3>1, <4>1
        <5> QED
          BY <2>1, <2>2, <3>2, <4>1, <5>1 DEF GoesAfter, Linked
      <4>2. CASE l # level
        <5>1. prev'[l] = prev[l]
          BY <2>5, <3>1, <4>2
        <5>2. level < l
          BY <2>1, <3>3, <4>2 DEF Level
        <5>3. GoesAfter(l)
          BY <2>1, <3>3, <5>2
        <5> QED
          BY <2>2, <5>1, <5>3 DEF GoesAfter, Linked
      <4> QED
        BY <4>1, <4>2
    <3>4. CASE level = 0
      <4>1. \A l \in Level : l < max_height_' => GoesAfter(l)'
        BY <2>2, <3>3, <3>4 DEF Level
      <4>2. pc' = "height"
        BY <3>1, <3>4
      <4> QED
        BY <2>1, <2>2, <4>1, <4>2 DEF WriterInv
    <3>5. CASE level # 0
      <4>1. pc' = "find" /\ level' = level - 1
        BY <3>1, <3>5
      <4>2. x \in Linked(level - 1) /\ level - 1 \in Level
        BY <2>1, <3>5, Nested DEF IInv
      <4>3. \A l \in Level : level' < l /\ l < max_height_' => GoesAfter(l)'
        BY <2>1, <2>2, <3>3, <4>1 DEF Level
      <4>4. level' < max_height_'
        BY <2>1, <2>2, <2>5, <4>1 DEF Level
      <4>5. x' \in Linked(level)'
        BY <2>2, <3>1, <4>1, <4>2 DEF Linked
      <4> QED
        BY <2>1, <2>2, <3>1, <4>1, <4>3, <4>4, <4>5 DEF WriterInv
    <3> QED
      BY <3>4, <3>5
  <2> QED
    BY <2>6, <2>7
<1>3. ASSUME NEW h \in 1..kMaxHeight, RandomHeight(h) PROVE WriterInv'
  <2>1. /\ pc = "height" /\ pc' = "own" /\ height' = h /\ i' = 0
        /\ prev' = [l \in Level |-> IF max_height_ <= l /\ l < h THEN 0 ELSE prev[l]]
        /\ max_height_' = IF h > max_height_ THEN h ELSE max_height_
        /\ UNCHANGED <<next_, links, key>>
    BY <1>3 DEF RandomHeight, head_
  <2>2. /\ max_height_ \in 1..kMaxHeight /\ links \in [Key -> 0..kMaxHeight] /\ key \in Key
        /\ links[key] = 0 /\ \A j \in Key : links[j] <= max_height_
        /\ \A l \in Level : l < max_height_ => GoesAfter(l)
    BY <2>1 DEF IInv, WriterInv, TypeOK
  <2>3. max_height_' \in Int /\ h <= max_height_' /\ max_height_ <= max_height_'
    BY <2>1, <2>2
  <2>4. \A j \in Key : links'[j] <= max_height_'
    <3>1. \A j \in Key : links[j] \in Int
      BY <2>2
    <3> QED
      BY <2>1, <2>2, <2>3, <3>1
  <2>5. ASSUME NEW l \in Level, l < h PROVE GoesAfter(l)'
    <3>1. CASE l < max_height_
      <4>1. prev'[l] = prev[l]
        BY <2>1, <2>2, <3>1 DEF Level
      <4>2. GoesAfter(l)
        BY <2>2, <3>1
      <4> QED
        BY <2>1, <4>1, <4>2 DEF GoesAfter, Linked
    <3>2. CASE ~ (l < max_height_)
      <4>1. prev'[l] = 0
        BY <2>1, <2>2, <2>5, <3>2 DEF Level
      <4>2. Linked(l) = {0}
        <5>1. \A j \in Key : ~ (links[j] > l)
          <6>1. \A j \in Key : links[j] \in Int
            BY <2>2
          <6> QED
            BY <2>2, <3>2, <6>1 DEF Level
        <5> QED
          BY <5>1 DEF Linked, head_
      <4>3. next_[0][l] = Nil
        <5>1. next_[0][l] \in Nat /\ next_[0][l] > 0 /\ next_[0][l] \in Linked(l) \cup {Nil}
          BY <4>2, Successor, Zenon
        <5>2. next_[0][l] # 0
          BY <5>1, Order, Zenon
        <5> QED
          BY <4>2, <5>1, <5>2, Zenon
      <4> QED
        BY <2>1, <2>2, <4>1, <4>2, <4>3 DEF GoesAfter, Linked
    <3> QED
      BY <3>1, <3>2
  <2>6. 0 < h /\ links'[key'] = 0
    BY <2>1, <2>2
  <2> QED
    BY <2>1, <2>3, <2>4, <2>5, <2>6 DEF WriterInv
<1>4. CASE SetOwn
  <2>1. /\ pc = "own" /\ pc' = "publish"
        /\ UNCHANGED <<max_height_, links, key, prev, height, i>>
    BY <1>4 DEF SetOwn
  <2>2. /\ i < height /\ height <= max_height_ /\ links[key] = i
        /\ \A l \in Level : i <= l /\ l < height => GoesAfter(l)
        /\ \A j \in Key : links[j] <= max_height_
    BY <2>1 DEF IInv, WriterInv
  <2>3. ASSUME NEW l \in Level, i <= l, l < height PROVE GoesAfter(l)'
    <3>1. GoesAfter(l)
      BY <2>2, <2>3
    <3>2. next_'[prev[l]][l] = next_[prev[l]][l]
      BY <1>4, <3>1, OwnStore DEF GoesAfter
    <3> QED
      BY <2>1, <3>1, <3>2 DEF GoesAfter, Linked
  <2>4. next_'[key][i] = next_'[prev[i]][i]
    BY <1>4, OwnStore
  <2> QED
    BY <2>1, <2>2, <2>3, <2>4 DEF WriterInv
<1>5. CASE Publish
  <2>1. /\ pc = "publish" /\ pc' = (IF i + 1 < height THEN "own" ELSE "idle") /\ i' = i + 1
        /\ links' = [links EXCEPT ![key] = i + 1]
        /\ UNCHANGED <<max_height_, key, prev, height>>
    BY <1>5 DEF Publish
  <2>2. /\ i < height /\ height <= max_height_ /\ links[key] = i
        /\ \A l \in Level : i <= l /\ l < height => GoesAfter(l)
        /\ \A j \in Key : links[j] <= max_height_
    BY <2>1 DEF IInv, WriterInv
  <2>3. /\ links \in [Key -> 0..kMaxHeight] /\ key \in Key /\ i \in 0..kMaxHeight
        /\ height \in 1..kMaxHeight /\ max_height_ \in 1..kMaxHeight /\ prev \in [Level -> Node]
    BY DEF IInv, TypeOK
  <2>4. links'[key] = i + 1 /\ \A j \in Key : links'[j] <= max_height_'
    <3>1. \A j \in Key : links'[j] = IF j = key THEN i + 1 ELSE links[j]
      BY <2>1, <2>3
    <3>2. i + 1 <= max_height_
      BY <2>2, <2>3
    <3> QED
      BY <2>1, <2>2, <2>3, <3>1, <3>2
  <2>5. ASSUME NEW l \in Level, i + 1 <= l, l < height PROVE GoesAfter(l)'
    <3>1. i <= l /\ l # i
      BY <2>3, <2>5 DEF Level
    <3>2. GoesAfter(l)
      BY <2>2, <2>5, <3>1
    <3>3. Linked(l)' = Linked(l) /\ next_'[prev[l]][l] = next_[prev[l]][l]
      <4>1. prev[l] \in Node
        BY <2>3
      <4> QED
        BY <1>5, <3>1, <4>1, PublishStore
    <3> QED
      BY <2>1, <3>2, <3>3 DEF GoesAfter
  <2> QED
    BY <2>1, <2>2, <2>4, <2>5 DEF WriterInv
<1>6. ASSUME NEW r \in Reader, Read(r) PROVE UNCHANGED <<list, writer>>
  BY <1>6 DEF Read, Seek, SeekToLast, Prev, SeekToFirst, Next_, Search, Step
<1>7. CASE UNCHANGED vars
  BY <1>0, <1>7 DEF vars
<1> QED
  BY <1>0, <1>1, <1>2, <1>3, <1>4, <1>5, <1>6, <1>7 DEF Next, Write

(* A search stands on a node of the level's list, before its target.       *)
LEMMA ReaderStep == IInv /\ [Next]_vars => ReaderInv'
<1> SUFFICES ASSUME IInv, [Next]_vars, NEW r \in Reader
             PROVE  /\ node_'[r] # Nil => links'[node_'[r]] > 0
                    /\ call'[r] # "none" => at'[r] \in Linked(rlevel[r])' /\ at'[r] < target'[r]
  BY DEF ReaderInv
<1> USE KeyRange
<1>0. /\ node_[r] # Nil => links[node_[r]] > 0
      /\ call[r] # "none" => at[r] \in Linked(rlevel[r]) /\ at[r] < target[r]
      /\ node_[r] \in Key \cup {Nil} /\ rlevel[r] \in Level /\ target[r] \in 1..Nil
  BY DEF IInv, ReaderInv, TypeOK
<1>1. /\ \A l \in Level : Linked(l) \subseteq Linked(l)'
      /\ \A k \in Key : links[k] > 0 => links'[k] > 0
  BY Grows
<1>2. CASE call'[r] = call[r] /\ node_'[r] = node_[r] /\ at'[r] = at[r]
           /\ rlevel'[r] = rlevel[r] /\ target'[r] = target[r]
  <2>1. at[r] \in Linked(rlevel[r]) => at'[r] \in Linked(rlevel[r])'
    BY <1>0, <1>1, <1>2 DEF Linked
  <2> QED
    BY <1>0, <1>1, <1>2, <2>1
<1>3. ASSUME NEW c, NEW n, NEW l \in Level, NEW t, Search(r, c, n, l, t), n \in Linked(l), n < t
      PROVE  /\ node_'[r] # Nil => links'[node_'[r]] > 0
             /\ call'[r] # "none" => at'[r] \in Linked(rlevel[r])' /\ at'[r] < target'[r]
  <2>1. at'[r] = n /\ rlevel'[r] = l /\ target'[r] = t /\ UNCHANGED <<links, node_>>
    BY <1>3 DEF Search, list, IInv, TypeOK
  <2> QED
    BY <1>0, <1>3, <2>1 DEF Linked
<1>4. CASE Read(r)
  <2>1. \A l \in Level : 0 \in Linked(l)
    BY DEF Linked, head_
  <2>2. 0 \in Level /\ \A h \in 1..max_height_ : h - 1 \in Level
    BY DEF Level, IInv, TypeOK
  <2>3. ASSUME NEW h \in 1..max_height_,
               (\E k \in Key : Seek(r, k, h)) \/ SeekToLast(r, h) \/ Prev(r, h)
        PROVE  \E c, t : Search(r, c, 0, h - 1, t) /\ 0 < t
    <3>1. ASSUME NEW k \in Key, Seek(r, k, h) PROVE \E c, t : Search(r, c, 0, h - 1, t) /\ 0 < t
      BY <3>1, Zenon DEF Seek, head_
    <3>2. ASSUME SeekToLast(r, h) PROVE \E c, t : Search(r, c, 0, h - 1, t) /\ 0 < t
      <4>1. 0 < Nil
        BY <1>0
      <4> QED
        BY <3>2, <4>1, Zenon DEF SeekToLast, head_
    <3>3. ASSUME Prev(r, h) PROVE \E c, t : Search(r, c, 0, h - 1, t) /\ 0 < t
      <4>1. 0 < node_[r]
        BY <1>0, <3>3 DEF Prev
      <4> QED
        BY <3>3, <4>1, Zenon DEF Prev, head_
    <3> QED
      BY <2>3, <3>1, <3>2, <3>3
  <2>4. ASSUME NEW h \in 1..max_height_,
               (\E k \in Key : Seek(r, k, h)) \/ SeekToLast(r, h) \/ Prev(r, h)
        PROVE  /\ node_'[r] # Nil => links'[node_'[r]] > 0
               /\ call'[r] # "none" => at'[r] \in Linked(rlevel[r])' /\ at'[r] < target'[r]
    BY <1>3, <2>1, <2>2, <2>3, <2>4
  <2>5. CASE SeekToFirst(r)
    <3>1. Search(r, "Next", 0, 0, 0 + 1) /\ 0 < 0 + 1
      BY <2>5 DEF SeekToFirst, head_
    <3> QED
      BY <1>3, <2>1, <2>2, <3>1
  <2>6. CASE Next_(r)
    <3>1. Search(r, "Next", node_[r], 0, node_[r] + 1) /\ node_[r] \in Key
      BY <1>0, <2>6 DEF Next_
    <3>2. node_[r] \in Linked(0)
      BY <1>0, <2>6, <3>1 DEF Next_, Linked
    <3>3. node_[r] < node_[r] + 1
      BY <3>1
    <3> QED
      BY <1>3, <2>2, <3>1, <3>2, <3>3
  <2>7. CASE Step(r)
    <3> DEFINE n == next_[at[r]][rlevel[r]]
    <3>1. call[r] # "none" /\ at[r] \in Linked(rlevel[r]) /\ at[r] < target[r]
      BY <1>0, <2>7 DEF Step
    <3>2. n \in Linked(rlevel[r]) \cup {Nil} /\ n \in Nat /\ at[r] \in Nat
      BY <1>0, <3>1, Successor
    <3>3. UNCHANGED <<links, target>>
      BY <2>7 DEF Step, list
    <3>t. call \in [Reader -> {"none", "FindGreaterOrEqual", "FindLessThan", "Next"}]
          /\ at \in [Reader -> Node] /\ rlevel \in [Reader -> Level]
          /\ node_ \in [Reader -> Key \cup {Nil}]
      BY DEF IInv, TypeOK
    <3>4. CASE n < target[r]
      <4>1. at'[r] = n /\ UNCHANGED <<rlevel, node_>>
        BY <2>7, <3>4, <3>t DEF Step, KeyIsAfterNode
      <4> HIDE DEF n
      <4>2. n \in Linked(rlevel[r])
        <5>1. target[r] \in Nat /\ target[r] <= Nil
          BY TargetRange, Zenon DEF IInv
        <5>2. n # Nil
          BY <3>2, <3>4, <5>1, Order, Zenon
        <5> QED
          BY <3>2, <5>2, Zenon
      <4> QED
        BY <1>0, <3>3, <3>4, <4>1, <4>2 DEF Linked
    <3>5. CASE ~ (n < target[r]) /\ rlevel[r] # 0
      <4>1. rlevel'[r] = rlevel[r] - 1 /\ UNCHANGED <<at, node_>>
        BY <2>7, <3>5, <3>t DEF Step, KeyIsAfterNode, Bottom
      <4>2. at[r] \in Linked(rlevel[r] - 1)
        BY <1>0, <3>1, <3>5, Nested DEF IInv
      <4> QED
        BY <1>0, <3>1, <3>3, <4>1, <4>2 DEF Linked
    <3>6. CASE ~ (n < target[r]) /\ rlevel[r] = 0
      <4>1. /\ call'[r] = "none"
            /\ node_'[r] = IF call[r] # "FindLessThan" THEN n
                           ELSE IF at[r] = 0 THEN Nil ELSE at[r]
        BY <2>7, <3>6, <3>t DEF Step, KeyIsAfterNode, Bottom, head_
      <4>2. at[r] # 0 => links[at[r]] > 0
        BY <3>1, <3>6 DEF Linked, head_
      <4>3. n # Nil => links[n] > 0
        <5>1. n > at[r]
          BY <1>0, <3>1, Successor
        <5>2. n # 0
          BY <3>2, <5>1, Order, Zenon
        <5> QED
          BY <3>2, <3>6, <5>2 DEF Linked, head_
      <4> QED
        BY <3>3, <4>1, <4>2, <4>3
    <3> QED
      BY <3>4, <3>5, <3>6
  <2> QED
    BY <1>4, <2>4, <2>5, <2>6, <2>7 DEF Read
<1>5. ASSUME NEW q \in Reader, q # r, Read(q)
      PROVE  call'[r] = call[r] /\ node_'[r] = node_[r] /\ at'[r] = at[r]
             /\ rlevel'[r] = rlevel[r] /\ target'[r] = target[r]
  <2>1. ASSUME NEW c, NEW n, NEW l, NEW t, Search(q, c, n, l, t)
        PROVE  call'[r] = call[r] /\ node_'[r] = node_[r] /\ at'[r] = at[r]
               /\ rlevel'[r] = rlevel[r] /\ target'[r] = target[r]
    BY <1>5, <2>1 DEF Search, IInv, TypeOK
  <2>2. CASE Step(q)
    BY <1>5, <2>2 DEF Step, IInv, TypeOK
  <2> QED
    BY <1>5, <2>1, <2>2 DEF Read, Seek, SeekToLast, Prev, SeekToFirst, Next_
<1>6. CASE Write
  <2>1. UNCHANGED <<searches, node_>>
    BY <1>6 DEF Write, Insert, Find, RandomHeight, SetOwn, Publish
  <2> QED
    BY <1>2, <2>1 DEF searches
<1>7. CASE UNCHANGED vars
  BY <1>2, <1>7 DEF vars, searches
<1> QED
  BY <1>2, <1>4, <1>5, <1>6, <1>7 DEF Next

(* In every reachable state the lists are sorted, Insert knows its place   *)
(* and searches are on their way: IInv of SkipList.                        *)
THEOREM Invariant == Spec => []IInv
<1>1. IInv /\ [Next]_vars => IInv'
  BY TypeStep, SortedStep, WriterStep, ReaderStep DEF IInv
<1> QED
  BY InitInv, <1>1, PTL DEF Spec

(* No store of Insert, seen by itself, leaves a list out of order or       *)
(* makes it skip a node.                                                   *)
THEOREM AlwaysSorted == Spec => []Sorted
<1>1. IInv => Sorted
  BY DEF IInv
<1> QED
  BY Invariant, <1>1, PTL

-----------------------------------------------------------------------------
(* The answer of a search is right at the moment of its last load.         *)
LEMMA RightAnswer ==
    ASSUME IInv, NEW r \in Reader, Step(r), rlevel[r] = 0,
           ~ (next_[at[r]][0] < target[r])
    PROVE  \E k \in Key \cup {Nil} : O!Answer(r, k)
<1> USE KeyRange
<1> DEFINE S == {k \in Key : links[k] > 0}
           n == next_[at[r]][0]
<1>0. /\ call[r] \in {"FindGreaterOrEqual", "FindLessThan", "Next"}
      /\ at[r] \in Linked(0) /\ at[r] < target[r] /\ target[r] \in 1..Nil /\ 0 \in Level
      /\ call \in [Reader -> {"none", "FindGreaterOrEqual", "FindLessThan", "Next"}]
      /\ node_ \in [Reader -> Key \cup {Nil}]
  BY DEF Step, IInv, ReaderInv, TypeOK
<1>1. Linked(0) = S \cup {0}
  BY DEF Linked, head_
<1>2. /\ n \in Nat /\ n > at[r] /\ at[r] \in Nat /\ n \in S \cup {Nil}
      /\ \A m \in S : m \in Nat /\ (m > at[r] => m >= n)
  <2>1. n > at[r] /\ n \in Nat /\ at[r] \in Nat /\ n \in Linked(0) \cup {Nil}
    BY <1>0, Successor
  <2>2. \A m \in Linked(0) : m \in Nat /\ (m > at[r] => m >= n)
    BY <1>0, Successor
  <2>3. n # 0
    BY <2>1
  <2> QED
    BY <1>1, <2>1, <2>2, <2>3
<1>3. UNCHANGED <<links, target>> /\ call' = [call EXCEPT ![r] = "none"]
      /\ node_' = [node_ EXCEPT ![r] = IF call[r] # "FindLessThan" THEN n
                                       ELSE IF at[r] = 0 THEN Nil ELSE at[r]]
  BY DEF Step, KeyIsAfterNode, Bottom, head_, list
<1>t. target[r] \in Nat
  BY TargetRange, Zenon DEF IInv
<1>4. n >= target[r]
  BY <1>2, <1>t, Order, Zenon
<1> HIDE DEF n
<1>5. CASE call[r] # "FindLessThan"
  <2>1. O!FirstFrom(n, target[r])
    <3>1. \A j \in S : j >= target[r] => n <= j
      BY <1>0, <1>2
    <3> QED
      BY <1>2, <1>4, <3>1 DEF O!FirstFrom
  <2>2. call[r] \in O!Upward
    BY <1>0, <1>5 DEF O!Upward
  <2>3. node_' = [node_ EXCEPT ![r] = n]
    BY <1>3, <1>5
  <2> QED
    BY <1>2, <1>3, <2>1, <2>2, <2>3, ZenonT(30) DEF O!Answer
<1>6. CASE call[r] = "FindLessThan"
  <2> DEFINE k == IF at[r] = 0 THEN Nil ELSE at[r]
  <2>1. k \in S \cup {Nil} /\ k \in Key \cup {Nil}
    BY <1>0, <1>1
  <2>2. \A j \in S : j < target[r] => j <= at[r]
    BY <1>2, <1>4, <1>t, Order, Zenon
  <2>3. O!LastBefore(k, target[r])
    <3>1. CASE at[r] = 0
      <4>1. ASSUME NEW j \in S PROVE ~ (j < target[r])
        <5>1. j \in Nat /\ 0 < j
          OBVIOUS
        <5> QED
          BY <2>2, <3>1, <5>1
      <4> QED
        BY <3>1, <4>1 DEF O!LastBefore
    <3>2. CASE at[r] # 0
      <4>1. at[r] \in S /\ at[r] # Nil
        BY <1>0, <1>1, <3>2
      <4> QED
        BY <1>0, <2>2, <3>2, <4>1 DEF O!LastBefore
    <3> QED
      BY <3>1, <3>2
  <2>4. call[r] \in O!Downward
    BY <1>6 DEF O!Downward
  <2>5. node_' = [node_ EXCEPT ![r] = k]
    BY <1>3, <1>6
  <2> HIDE DEF k
  <2> QED
    BY <1>3, <2>1, <2>3, <2>4, <2>5 DEF O!Answer
<1> QED
  BY <1>5, <1>6

(* Every step is one of the ordered set, or none: Insert takes effect with *)
(* the store at the bottom, a search with its last load.                   *)
LEMMA StepRefines ==
    ASSUME IInv, [Next]_vars
    PROVE  [O!Next]_<<{k \in Key : links[k] > 0}, node_, call, target>>
<1> USE KeyRange
<1> DEFINE S == {k \in Key : links[k] > 0}
<1>1. CASE UNCHANGED <<links, node_, call, target>>
  BY <1>1
<1>2. CASE Publish
  <2>1. UNCHANGED <<node_, call, target>> /\ key \in Key
    BY <1>2 DEF Publish, searches, IInv, TypeOK
  <2>2. S' = S \/ S' = S \cup {key}
    <3>1. links' = [links EXCEPT ![key] = i + 1] /\ links \in [Key -> 0..kMaxHeight]
          /\ i \in 0..kMaxHeight
      BY <1>2 DEF Publish, IInv, TypeOK
    <3>2. links'[key] > 0 /\ \A k \in Key : k # key => links'[k] = links[k]
      BY <2>1, <3>1
    <3> QED
      BY <2>1, <3>2
  <2>3. CASE S' = S
    BY <2>1, <2>3
  <2>4. CASE S' = S \cup {key}
    BY <2>1, <2>4 DEF O!Next, O!Insert
  <2> QED
    BY <2>2, <2>3, <2>4
<1>3. ASSUME NEW r \in Reader, NEW c \in {"FindGreaterOrEqual", "FindLessThan", "Next"}, NEW n,
             NEW l, NEW t \in 1..Nil, Search(r, c, n, l, t)
      PROVE  O!Next
  <2>1. O!Call(r, c, t)
    BY <1>3 DEF Search, list, O!Call
  <2>2. c \in O!Upward \cup O!Downward
    BY DEF O!Upward, O!Downward
  <2> QED
    BY <2>1, <2>2 DEF O!Next
<1>4. ASSUME NEW r \in Reader, Step(r) PROVE O!Next \/ UNCHANGED <<links, node_, call, target>>
  <2>1. CASE rlevel[r] = 0 /\ ~ (next_[at[r]][0] < target[r])
    <3>1. \E k \in Key \cup {Nil} : O!Answer(r, k)
      BY <1>4, <2>1, RightAnswer
    <3> QED
      BY <3>1 DEF O!Next
  <2>2. CASE ~ (rlevel[r] = 0 /\ ~ (next_[at[r]][0] < target[r]))
    BY <1>4, <2>2 DEF Step, KeyIsAfterNode, Bottom, list
  <2> QED
    BY <2>1, <2>2
<1>5. ASSUME NEW r \in Reader, Read(r) PROVE O!Next \/ UNCHANGED <<links, node_, call, target>>
  <2>1. Key \subseteq 1..Nil /\ Nil \in 1..Nil
    <3>1. target[r] \in 1..Nil
      BY DEF IInv, TypeOK
    <3> QED
      BY <3>1
  <2>2. node_[r] # Nil => node_[r] \in 1..Nil /\ node_[r] + 1 \in 1..Nil
    <3>1. node_[r] \in Key \cup {Nil}
      BY DEF IInv, TypeOK
    <3> QED
      BY <2>1, <3>1, KeyNext
  <2>3. ASSUME NEW h, (\E k \in Key : Seek(r, k, h)) \/ SeekToLast(r, h) \/ Prev(r, h) PROVE O!Next
    BY <1>3, <2>1, <2>2, <2>3 DEF Seek, SeekToLast, Prev
  <2>4. CASE SeekToFirst(r)
    <3>1. 0 + 1 \in 1..Nil
      BY <2>1
    <3> QED
      BY <1>3, <2>4, <3>1 DEF SeekToFirst, head_
  <2>5. CASE Next_(r)
    BY <1>3, <2>2, <2>5 DEF Next_
  <2> QED
    BY <1>4, <1>5, <2>3, <2>4, <2>5 DEF Read
<1>6. ASSUME Insert(key) \/ (\E k \in Key : Insert(k)) \/ Find \/ SetOwn
             \/ (\E h \in 1..kMaxHeight : RandomHeight(h)) \/ UNCHANGED vars
      PROVE  UNCHANGED <<links, node_, call, target>>
  BY <1>6 DEF Insert, Find, RandomHeight, SetOwn, vars, list, searches
<1>7. O!Next \/ UNCHANGED <<links, node_, call, target>> \/ Publish
  BY <1>5, <1>6 DEF Next, Write
<1> QED
  BY <1>1, <1>2, <1>7

(* The skip list is an ordered set that only grows, read without a lock:   *)
(* no search passes over a node that is in the list, finds one that is     *)
(* not, or follows a pointer that is not set.                              *)
THEOREM Refinement == Spec => IsOrderedSet
<1>1. Init => O!Init
  <2>1. Init => {k \in Key : links[k] > 0} = {}
    BY DEF Init
  <2> QED
    BY <2>1, Zenon DEF Init, O!Init
<1>2. IInv /\ [Next]_vars => [O!Next]_<<{k \in Key : links[k] > 0}, node_, call, target>>
  BY StepRefines
<1> QED
  BY <1>1, <1>2, Invariant, PTL DEF Spec, IsOrderedSet, O!Spec
=============================================================================
