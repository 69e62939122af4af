------------------------------ MODULE CondVar ------------------------------
(***************************************************************************)
(* The condition variable of LevelDB's Windows port (port_win.cc): two     *)
(* semaphores, a counter and a second mutex. Its clients are threads that  *)
(* wait, with mu_ held, until an event happens that another thread         *)
(* announces with mu_ held.                                                *)
(***************************************************************************)
EXTENDS Integers, FiniteSets, FiniteSetTheorems, TLAPS

CONSTANTS
    Waiter,            \* the threads that wait
    Ops,               \* the ways in which an event is announced
    Events             \* bound: the number of events

Signaler == "signaler"
Free == "free"

ASSUME CondVarAssumption ==
    /\ IsFiniteSet(Waiter) /\ Signaler \notin Waiter /\ Free \notin Waiter
    /\ Ops \subseteq {"Signal", "SignalAll"}
    /\ Events \in Nat

VARIABLES
    mu_, wait_mtx_,      \* the holder of each mutex
    waiting_, sem1_, sem2_,
    at, i,               \* the next step of each thread, the counter of SignalAll
    event, seen,         \* events announced; the number of them a waiter knew
    before               \* history: the threads that waited when the event came

cvVars == <<mu_, wait_mtx_, waiting_, sem1_, sem2_, at, i, event, seen, before>>

CvInit ==
    /\ mu_ = Free /\ wait_mtx_ = Free
    /\ waiting_ = 0 /\ sem1_ = 0 /\ sem2_ = 0
    /\ at = [t \in Waiter \cup {Signaler} |-> "idle"]
    /\ i = 0 /\ event = 0 /\ seen = [w \in Waiter |-> 0]
    /\ before = {}

Blocked == {w \in Waiter : at[w] \in {"unlock", "sem1"}}

StepTo(t, label) == at' = [at EXCEPT ![t] = label]

-----------------------------------------------------------------------------
(* The client: while (no event since it came) cv.Wait().                   *)
Enter(w) ==
    /\ at[w] = "idle" /\ mu_ = Free
    /\ mu_' = w
    /\ seen' = [seen EXCEPT ![w] = event]
    /\ StepTo(w, "check")
    /\ UNCHANGED <<wait_mtx_, waiting_, sem1_, sem2_, i, event, before>>

Check(w) ==
    /\ at[w] = "check"
    /\ IF seen[w] = event THEN StepTo(w, "wait") /\ UNCHANGED mu_
       ELSE StepTo(w, "idle") /\ mu_' = Free
    /\ UNCHANGED <<wait_mtx_, waiting_, sem1_, sem2_, i, event, seen, before>>

(* CondVar::Wait.                                                          *)
Count(w) ==
    /\ at[w] = "wait" /\ wait_mtx_ = Free
    /\ waiting_' = waiting_ + 1
    /\ StepTo(w, "unlock")
    /\ UNCHANGED <<mu_, wait_mtx_, sem1_, sem2_, i, event, seen, before>>

Unlock(w) ==
    /\ at[w] = "unlock"
    /\ mu_' = Free
    /\ StepTo(w, "sem1")
    /\ UNCHANGED <<wait_mtx_, waiting_, sem1_, sem2_, i, event, seen, before>>

Answer == sem2_ + 1

Woken(w) ==
    /\ at[w] = "sem1" /\ sem1_ > 0
    /\ sem1_' = sem1_ - 1
    /\ StepTo(w, "sem2")
    /\ UNCHANGED <<mu_, wait_mtx_, waiting_, sem2_, i, event, seen, before>>

Shake(w) ==
    /\ at[w] = "sem2"
    /\ sem2_' = Answer
    /\ StepTo(w, "relock")
    /\ UNCHANGED <<mu_, wait_mtx_, waiting_, sem1_, i, event, seen, before>>

Relock(w) ==
    /\ at[w] = "relock" /\ mu_ = Free
    /\ mu_' = w
    /\ StepTo(w, "check")
    /\ UNCHANGED <<wait_mtx_, waiting_, sem1_, sem2_, i, event, seen, before>>

-----------------------------------------------------------------------------
(* The announcing thread: an event, then Signal or SignalAll.              *)
Announce(op) ==
    /\ at[Signaler] = "idle" /\ event < Events /\ mu_ = Free
    /\ mu_' = Signaler
    /\ event' = event + 1
    /\ before' = Blocked
    /\ StepTo(Signaler, op)
    /\ UNCHANGED <<wait_mtx_, waiting_, sem1_, sem2_, i, seen>>

OneLess == waiting_ - 1

(* CondVar::Signal.                                                        *)
Signal ==
    /\ at[Signaler] = "Signal" /\ wait_mtx_ = Free
    /\ IF waiting_ > 0
         THEN /\ waiting_' = OneLess /\ sem1_' = sem1_ + 1
              /\ wait_mtx_' = Signaler
              /\ StepTo(Signaler, "handshake")
         ELSE StepTo(Signaler, "leave") /\ UNCHANGED <<waiting_, sem1_, wait_mtx_>>
    /\ UNCHANGED <<mu_, sem2_, i, event, seen, before>>

\* [Mutant: the answer is not awaited.]
Answered_Mutant == sem2_ >= 0
Answered == sem2_ > 0

Handshake ==
    /\ at[Signaler] = "handshake" /\ Answered
    /\ sem2_' = sem2_ - 1
    /\ wait_mtx_' = Free
    /\ StepTo(Signaler, "leave")
    /\ UNCHANGED <<mu_, waiting_, sem1_, i, event, seen, before>>

(* CondVar::SignalAll: the for loop and the while loop inside it.          *)
SignalAll ==
    /\ at[Signaler] = "SignalAll" /\ wait_mtx_ = Free
    /\ wait_mtx_' = Signaler
    /\ i' = 0
    /\ StepTo(Signaler, "for")
    /\ UNCHANGED <<mu_, waiting_, sem1_, sem2_, event, seen, before>>

For ==
    /\ at[Signaler] = "for"
    /\ IF i < waiting_
         THEN sem1_' = sem1_ + 1 /\ StepTo(Signaler, "while") /\ UNCHANGED wait_mtx_
         ELSE wait_mtx_' = Free /\ StepTo(Signaler, "leave") /\ UNCHANGED sem1_
    /\ UNCHANGED <<mu_, waiting_, sem2_, i, event, seen, before>>

While ==
    /\ at[Signaler] = "while"
    /\ IF waiting_ > 0
         THEN waiting_' = waiting_ - 1 /\ StepTo(Signaler, "all") /\ UNCHANGED i
         ELSE i' = i + 1 /\ StepTo(Signaler, "for") /\ UNCHANGED waiting_
    /\ UNCHANGED <<mu_, wait_mtx_, sem1_, sem2_, event, seen, before>>

HandshakeAll ==
    /\ at[Signaler] = "all" /\ sem2_ > 0
    /\ sem2_' = sem2_ - 1
    /\ StepTo(Signaler, "while")
    /\ UNCHANGED <<mu_, wait_mtx_, waiting_, sem1_, i, event, seen, before>>

Leave ==
    /\ at[Signaler] = "leave"
    /\ mu_' = Free
    /\ StepTo(Signaler, "idle")
    /\ UNCHANGED <<wait_mtx_, waiting_, sem1_, sem2_, i, event, seen, before>>

-----------------------------------------------------------------------------
(* Whether a thread comes to wait is its own choice: Enter is not fair.    *)
WaitStep(w) == Check(w) \/ Count(w) \/ Unlock(w) \/ Woken(w) \/ Shake(w) \/ Relock(w)
SignalStep == Signal \/ Handshake \/ SignalAll \/ For \/ While \/ HandshakeAll \/ Leave

CvNext == \/ \E w \in Waiter : Enter(w) \/ WaitStep(w)
          \/ \E op \in Ops : Announce(op)
          \/ SignalStep

CvSpec == CvInit /\ [][CvNext]_cvVars
CvFairSpec == CvSpec /\ (\A w \in Waiter : WF_cvVars(WaitStep(w))) /\ WF_cvVars(SignalStep)

-----------------------------------------------------------------------------
(* Between two signals the semaphores are empty and the counter is the     *)
(* number of threads that wait: no wake-up is stored for a thread that     *)
(* comes later, and none was given to nobody.                              *)
NoStoredWakeup ==
    at[Signaler] \in {"idle", "leave"} =>
        sem1_ = 0 /\ sem2_ = 0 /\ waiting_ = Cardinality(Blocked)

(* Signal returns to the thread that announces an event, and so does       *)
(* SignalAll when it is called for one thread at most: it does not hang in *)
(* the handshake with both mutexes held.                                   *)
SignalReturns ==
    at[Signaler] = "Signal" \/ (at[Signaler] = "SignalAll" /\ waiting_ <= 1)
        ~> at[Signaler] = "idle"

(* "Wake up all waiting threads." (port_example.h, of SignalAll): those    *)
(* that waited when the event came do not wait for ever.                   *)
WakesAll == at[Signaler] = "SignalAll" ~> Blocked \cap before = {}

(* "If there are some threads waiting, wake up at least one of them"       *)
(* (port_example.h): one of those that waited when the event came, not one *)
(* that came after it.                                                     *)
SignalWakes ==
    at[Signaler] = "leave" /\ before # {} => before \ Blocked # {}

(* A signal wakes a thread that waits and no later one.                    *)
WakesOne == NoStoredWakeup /\ SignalWakes

-----------------------------------------------------------------------------
(* Proofs: the bookkeeping of the two semaphores, for every set of         *)
(* waiters.                                                                *)
WaiterPc == {"idle", "check", "wait", "unlock", "sem1", "sem2", "relock"}
SignalerPc == {"idle", "Signal", "SignalAll", "handshake", "for", "while", "all", "leave"}
TypeOK ==
    /\ mu_ \in Waiter \cup {Signaler, Free} /\ wait_mtx_ \in {Signaler, Free}
    /\ waiting_ \in Nat /\ sem1_ \in Nat /\ sem2_ \in Nat /\ i \in Nat
    /\ at \in [Waiter \cup {Signaler} -> WaiterPc \cup SignalerPc]
    /\ \A w \in Waiter : at[w] \in WaiterPc
    /\ at[Signaler] \in SignalerPc

\* mu_ is held between Enter or Relock and Unlock, and by the announcing thread.
MutexInv ==
    /\ \A w \in Waiter : at[w] \in {"check", "wait", "unlock"} <=> mu_ = w
    /\ at[Signaler] # "idle" <=> mu_ = Signaler

\* Threads that took a wake-up and have not answered.
Shaking == {w \in Waiter : at[w] = "sem2"}
b == Cardinality(Blocked)
k == Cardinality(Shaking)

\* One wake-up at most is under way: in sem1_, with a thread, or answered in sem2_.
None == sem1_ = 0 /\ sem2_ = 0 /\ k = 0
One == sem1_ + k + sem2_ = 1
Account ==
    /\ at[Signaler] \in {"idle", "leave", "Signal", "SignalAll", "for"} => None /\ waiting_ = b
    /\ at[Signaler] = "handshake" => One /\ waiting_ + sem1_ = b
    /\ at[Signaler] = "while" => \/ One /\ waiting_ = b + k + sem2_ /\ waiting_ > 0
                                 \/ None /\ waiting_ = b
    /\ at[Signaler] = "all" => \/ One /\ waiting_ + 1 = b + k + sem2_
                               \/ None /\ waiting_ + 1 = b

\* Nobody begins to wait between the event and the end of the call.
Woke ==
    /\ before \subseteq Waiter
    /\ at[Signaler] # "idle" => Blocked \subseteq before
    /\ at[Signaler] = "Signal" => Blocked = before
    /\ at[Signaler] = "handshake" => waiting_ + 1 = Cardinality(before)
    /\ at[Signaler] = "for" /\ i > 0 => waiting_ = 0
    /\ at[Signaler] = "leave" => before = {} \/ b < Cardinality(before)

IInv == TypeOK /\ MutexInv /\ Account /\ Woke

-----------------------------------------------------------------------------
(* The sets that are counted are finite.                                   *)
LEMMA Counts ==
    /\ IsFiniteSet(Blocked) /\ IsFiniteSet(Shaking) /\ b \in Nat /\ k \in Nat
    /\ b = 0 <=> Blocked = {}
    /\ k = 0 <=> Shaking = {}
<1>1. Blocked \in SUBSET Waiter /\ Shaking \in SUBSET Waiter
  BY DEF Blocked, Shaking
<1>2. IsFiniteSet(Blocked) /\ IsFiniteSet(Shaking)
  BY <1>1, CondVarAssumption, FS_Subset
<1> QED BY <1>2, FS_CardinalityType, FS_EmptySet DEF b, k

(* What a step of one waiter does to the labels.                           *)
LEMMA WaiterMoves ==
    ASSUME TypeOK, NEW w \in Waiter, NEW l \in WaiterPc, StepTo(w, l)
    PROVE  /\ at' \in [Waiter \cup {Signaler} -> WaiterPc \cup SignalerPc]
           /\ at'[w] = l /\ at'[Signaler] = at[Signaler] /\ w # Signaler /\ w # Free
           /\ \A v \in Waiter \ {w} : at'[v] = at[v]
           /\ \A v \in Waiter : at'[v] \in WaiterPc
  BY CondVarAssumption DEF TypeOK, StepTo

(* What a step of the announcing thread does: the waiters stay.            *)
LEMMA SignalerMoves ==
    ASSUME TypeOK, NEW l \in SignalerPc, StepTo(Signaler, l)
    PROVE  /\ at' \in [Waiter \cup {Signaler} -> WaiterPc \cup SignalerPc]
           /\ at'[Signaler] = l
           /\ \A v \in Waiter : at'[v] = at[v] /\ v # Signaler /\ v # Free
           /\ Blocked' = Blocked /\ Shaking' = Shaking /\ b' = b /\ k' = k
<1>1. /\ at' \in [Waiter \cup {Signaler} -> WaiterPc \cup SignalerPc]
      /\ at'[Signaler] = l
      /\ \A v \in Waiter : at'[v] = at[v] /\ v # Signaler /\ v # Free
  BY CondVarAssumption DEF TypeOK, StepTo
<1>2. Blocked' = Blocked /\ Shaking' = Shaking
  BY <1>1 DEF Blocked, Shaking
<1> QED BY <1>1, <1>2 DEF b, k

(* Steps that leave the counted sets and counters alone.                   *)
LEMMA Aside ==
    ASSUME IInv, NEW w \in Waiter, NEW l \in {"idle", "check", "wait"}, StepTo(w, l),
           at[w] \in {"idle", "check", "relock"},
           UNCHANGED <<wait_mtx_, waiting_, sem1_, sem2_, i, before>>,
           mu_' \in Waiter \cup {Signaler, Free}, MutexInv'
    PROVE  IInv'
<1>1. at'[w] = l /\ at'[Signaler] = at[Signaler] /\ \A v \in Waiter \ {w} : at'[v] = at[v]
  BY WaiterMoves DEF IInv, WaiterPc
<1>2. TypeOK'
  BY WaiterMoves DEF IInv, TypeOK, WaiterPc
<1>3. Blocked' = Blocked /\ Shaking' = Shaking
  BY <1>1 DEF Blocked, Shaking
<1>4. b' = b /\ k' = k
  BY <1>3 DEF b, k
<1>5. Account' /\ Woke'
  BY <1>1, <1>3, <1>4 DEF IInv, Account, Woke, None, One
<1> QED BY <1>2, <1>5 DEF IInv

(* A thread that calls takes mu_ when it is free.                          *)
LEMMA EnterKeeps == ASSUME IInv, NEW w \in Waiter, Enter(w) PROVE IInv'
<1>1. MutexInv'
  <2>1. /\ at'[w] = "check" /\ at'[Signaler] = at[Signaler] /\ w # Signaler
        /\ \A v \in Waiter \ {w} : at'[v] = at[v]
    BY WaiterMoves DEF IInv, WaiterPc, Enter
  <2>2. \A v \in Waiter : v # Free
    BY CondVarAssumption
  <2>3. Signaler # Free
    BY DEF Signaler, Free
  <2> QED BY <2>1, <2>2, <2>3 DEF IInv, MutexInv, Enter
<1> QED BY <1>1, Aside DEF Enter, IInv, TypeOK

(* The test of the predicate changes only the label.                       *)
LEMMA CheckKeeps == ASSUME IInv, NEW w \in Waiter, Check(w) PROVE IInv'
<1>1. CASE StepTo(w, "wait") /\ UNCHANGED mu_
  <2>1. MutexInv'
    BY <1>1, WaiterMoves, SMTT(30) DEF IInv, MutexInv, Check, WaiterPc
  <2> QED BY <1>1, <2>1, Aside DEF Check, IInv, TypeOK
<1>2. CASE StepTo(w, "idle") /\ mu_' = Free
  <2>1. MutexInv'
    BY <1>2, WaiterMoves, CondVarAssumption, SMTT(30)
    DEF IInv, MutexInv, Check, WaiterPc, Free, Signaler
  <2> QED BY <1>2, <2>1, Aside DEF Check, IInv, TypeOK
<1> QED BY <1>1, <1>2, SMTT(30) DEF Check

(* Lock at the end of Wait.                                                *)
LEMMA RelockKeeps == ASSUME IInv, NEW w \in Waiter, Relock(w) PROVE IInv'
<1>1. MutexInv'
  <2>1. /\ at'[w] = "check" /\ at'[Signaler] = at[Signaler] /\ w # Signaler
        /\ \A v \in Waiter \ {w} : at'[v] = at[v]
    BY WaiterMoves DEF IInv, WaiterPc, Relock
  <2>2. \A v \in Waiter : v # Free
    BY CondVarAssumption
  <2>3. Signaler # Free
    BY DEF Signaler, Free
  <2> QED BY <2>1, <2>2, <2>3 DEF IInv, MutexInv, Relock
<1> QED BY <1>1, Aside DEF Relock, IInv, TypeOK

(* A thread is counted while it holds mu_: no call of Signal is under way. *)
LEMMA CountKeeps == ASSUME IInv, NEW w \in Waiter, Count(w) PROVE IInv'
<1>1. /\ at'[w] = "unlock" /\ at'[Signaler] = at[Signaler] /\ w # Signaler
      /\ \A v \in Waiter \ {w} : at'[v] = at[v]
  BY WaiterMoves DEF IInv, WaiterPc, Count
<1>2. at[Signaler] = "idle"
  BY <1>1, SMTT(30) DEF IInv, MutexInv, Count
<1>3. TypeOK'
  BY WaiterMoves DEF IInv, TypeOK, WaiterPc, Count
<1>4. MutexInv'
  BY <1>1 DEF IInv, MutexInv, Count
<1>5. Blocked' = Blocked \cup {w} /\ w \notin Blocked /\ Shaking' = Shaking
  BY <1>1 DEF Blocked, Shaking, Count
<1>6. b' = b + 1 /\ k' = k
  BY <1>5, Counts, FS_AddElement, ZenonT(60) DEF b, k
<1>7. Account'
  BY <1>1, <1>2, <1>6, Counts DEF IInv, Account, Count, None, TypeOK
<1>8. Woke'
  BY <1>1, <1>2 DEF IInv, Woke, Count
<1> QED BY <1>3, <1>4, <1>7, <1>8, SMTT(30) DEF IInv

(* mu_ is released by a thread that is already counted as waiting.         *)
LEMMA UnlockKeeps == ASSUME IInv, NEW w \in Waiter, Unlock(w) PROVE IInv'
<1>1. /\ at'[w] = "sem1" /\ at'[Signaler] = at[Signaler] /\ w # Signaler /\ w # Free
      /\ \A v \in Waiter \ {w} : at'[v] = at[v]
  BY WaiterMoves DEF IInv, WaiterPc, Unlock
<1>2. TypeOK'
  BY WaiterMoves DEF IInv, TypeOK, WaiterPc, Unlock
<1>3. MutexInv'
  BY <1>1, CondVarAssumption DEF IInv, MutexInv, Unlock, Free, Signaler
<1>4. Blocked' = Blocked /\ Shaking' = Shaking
  BY <1>1 DEF Blocked, Shaking, Unlock
<1>5. b' = b /\ k' = k
  BY <1>4 DEF b, k
<1>6. Account' /\ Woke'
  BY <1>1, <1>4, <1>5 DEF IInv, Account, Woke, None, One, Unlock
<1> QED BY <1>2, <1>3, <1>6 DEF IInv

(* A wake-up goes from sem1_ to the thread that took it, ...               *)
LEMMA WokenKeeps == ASSUME IInv, NEW w \in Waiter, Woken(w) PROVE IInv'
<1>1. /\ at'[w] = "sem2" /\ at'[Signaler] = at[Signaler]
      /\ \A v \in Waiter \ {w} : at'[v] = at[v]
  BY WaiterMoves DEF IInv, WaiterPc, Woken
<1>2. TypeOK'
  BY WaiterMoves DEF IInv, TypeOK, WaiterPc, Woken
<1>3. MutexInv'
  BY <1>1 DEF IInv, MutexInv, Woken
<1>4. /\ Blocked' = Blocked \ {w} /\ w \in Blocked
      /\ Shaking' = Shaking \cup {w} /\ w \notin Shaking
  BY <1>1 DEF Blocked, Shaking, Woken
<1>5. b' = b - 1
  BY <1>4, Counts, FS_RemoveElement, Zenon DEF b
<1>6. k' = k + 1
  BY <1>4, Counts, FS_AddElement, ZenonT(60) DEF k
<1>7. Account'
  BY <1>1, <1>5, <1>6, Counts DEF IInv, Account, Woken, None, One, TypeOK, SignalerPc
<1>8. at[Signaler] \in {"handshake", "while", "all"}
  BY DEF IInv, Account, Woken, None, TypeOK, SignalerPc
<1>9. Woke'
  BY <1>1, <1>4, <1>8 DEF IInv, Woke, Woken
<1> QED BY <1>2, <1>3, <1>7, <1>9 DEF IInv

(* ... and from the thread to sem2_.                                       *)
LEMMA ShakeKeeps == ASSUME IInv, NEW w \in Waiter, Shake(w) PROVE IInv'
<1>1. /\ at'[w] = "relock" /\ at'[Signaler] = at[Signaler]
      /\ \A v \in Waiter \ {w} : at'[v] = at[v]
  BY WaiterMoves DEF IInv, WaiterPc, Shake
<1>2. TypeOK'
  BY WaiterMoves DEF IInv, TypeOK, WaiterPc, Shake, Answer
<1>3. MutexInv'
  BY <1>1 DEF IInv, MutexInv, Shake
<1>4. Shaking' = Shaking \ {w} /\ w \in Shaking /\ Blocked' = Blocked
  BY <1>1 DEF Blocked, Shaking, Shake
<1>5. k' = k - 1 /\ b' = b /\ k # 0
  BY <1>4, Counts, FS_RemoveElement, ZenonT(60) DEF b, k
<1>6. Account'
  BY <1>1, <1>5, Counts DEF IInv, Account, Shake, Answer, None, One, TypeOK, SignalerPc
<1>7. Woke'
  BY <1>1, <1>4, <1>5 DEF IInv, Woke, Shake
<1> QED BY <1>2, <1>3, <1>6, <1>7 DEF IInv

(* The announcing thread takes mu_ when nobody is between Check and        *)
(* Unlock: who waits now is in before.                                     *)
LEMMA AnnounceKeeps == ASSUME IInv, NEW op \in Ops, Announce(op) PROVE IInv'
<1>1. op \in SignalerPc /\ op \in {"Signal", "SignalAll"}
  BY CondVarAssumption DEF SignalerPc
<1>2. /\ at'[Signaler] = op /\ Blocked' = Blocked /\ b' = b /\ k' = k
      /\ \A v \in Waiter : at'[v] = at[v] /\ v # Signaler /\ v # Free
  BY <1>1, SignalerMoves, SMTT(30) DEF IInv, Announce
<1>3. TypeOK'
  BY <1>1, <1>2, SignalerMoves DEF IInv, TypeOK, Announce
<1>4. MutexInv'
  BY <1>1, <1>2 DEF IInv, MutexInv, Announce
<1>5. Account'
  BY <1>1, <1>2 DEF IInv, Account, None, Announce
<1>6. Woke'
  BY <1>1, <1>2 DEF IInv, Woke, Announce, Blocked
<1> QED BY <1>3, <1>4, <1>5, <1>6 DEF IInv

(* Steps of the call: mu_ is kept, the waiters stay.                       *)
LEMMA CallMoves ==
    ASSUME IInv, NEW l \in SignalerPc \ {"idle"}, StepTo(Signaler, l), at[Signaler] # "idle",
           wait_mtx_' \in {Signaler, Free}, waiting_' \in Nat, sem1_' \in Nat, sem2_' \in Nat,
           i' \in Nat, mu_' = mu_, Account', Woke'
    PROVE  IInv'
<1>1. /\ at'[Signaler] = l
      /\ \A v \in Waiter : at'[v] = at[v] /\ v # Signaler
  BY SignalerMoves DEF IInv
<1>2. TypeOK'
  BY <1>1, SignalerMoves DEF IInv, TypeOK
<1>3. MutexInv'
  BY <1>1 DEF IInv, MutexInv
<1> QED BY <1>2, <1>3, SMTT(30) DEF IInv

(* One wake-up is sent when somebody waits, none otherwise.                *)
LEMMA SignalKeeps == ASSUME IInv, Signal PROVE IInv'
<1>1. CASE waiting_ > 0
  <2>1. StepTo(Signaler, "handshake") /\ "handshake" \in SignalerPc \ {"idle"}
    BY <1>1, SMTT(30) DEF Signal, SignalerPc
  <2>2. at'[Signaler] = "handshake" /\ Blocked' = Blocked /\ b' = b /\ k' = k
    BY <2>1, SignalerMoves DEF IInv
  <2>3. Account'
    BY <1>1, <2>2, Counts, SMTT(30) DEF IInv, Account, None, One, Signal, OneLess, TypeOK
  <2>4. waiting_' + 1 = Cardinality(before)
    BY <1>1 DEF IInv, Account, None, Woke, Signal, OneLess, TypeOK, b
  <2>5. Woke'
    BY <2>2, <2>4, SMTT(30) DEF IInv, Woke, Signal
  <2> QED BY <1>1, <2>1, <2>3, <2>5, CallMoves DEF Signal, OneLess, IInv, TypeOK
<1>2. CASE ~(waiting_ > 0)
  <2>1. StepTo(Signaler, "leave") /\ "leave" \in SignalerPc \ {"idle"}
    BY <1>2, SMTT(30) DEF Signal, SignalerPc
  <2>2. at'[Signaler] = "leave" /\ Blocked' = Blocked /\ b' = b /\ k' = k
    BY <2>1, SignalerMoves DEF IInv
  <2>3. Account'
    BY <1>2, <2>2, SMTT(30) DEF IInv, Account, None, Signal
  <2>4. before = {}
    BY <1>2, Counts, SMTT(30) DEF IInv, Account, Woke, Signal, TypeOK
  <2>5. Woke'
    BY <2>2, <2>4, SMTT(30) DEF IInv, Woke, Signal
  <2> QED BY <1>2, <2>1, <2>3, <2>5, CallMoves DEF Signal, IInv, TypeOK
<1> QED BY <1>1, <1>2, SMTT(30)

(* The answer in sem2_ says that a thread left Blocked.                    *)
LEMMA HandshakeKeeps == ASSUME IInv, Handshake PROVE IInv'
<1>1. StepTo(Signaler, "leave") /\ "leave" \in SignalerPc \ {"idle"}
  BY SMTT(30) DEF Handshake, SignalerPc
<1>2. at'[Signaler] = "leave" /\ Blocked' = Blocked /\ b' = b /\ k' = k
  BY <1>1, SignalerMoves DEF IInv
<1>3. sem2_ = 1 /\ sem1_ = 0 /\ k = 0 /\ waiting_ = b
  BY Counts DEF IInv, Account, One, Handshake, Answered, TypeOK
<1>4. Account'
  BY <1>2, <1>3, SMTT(30) DEF Account, None, Handshake
<1>5. b + 1 = Cardinality(before)
  BY <1>3 DEF IInv, Woke, Handshake
<1>6. b' < Cardinality(before')
  BY <1>2, <1>5, Counts, SMTT(30) DEF Handshake
<1>7. Woke'
  BY <1>2, <1>6 DEF IInv, Woke, Handshake
<1> QED BY <1>1, <1>3, <1>4, <1>7, CallMoves DEF Handshake, IInv, TypeOK

(* SignalAll starts its for loop.                                          *)
LEMMA SignalAllKeeps == ASSUME IInv, SignalAll PROVE IInv'
<1>1. StepTo(Signaler, "for") /\ "for" \in SignalerPc \ {"idle"}
  BY DEF SignalAll, SignalerPc
<1>2. at'[Signaler] = "for" /\ Blocked' = Blocked /\ b' = b /\ k' = k
  BY <1>1, SignalerMoves, SMTT(30) DEF IInv
<1>3. Account'
  BY <1>2 DEF IInv, Account, None, SignalAll
<1>4. Woke'
  BY <1>2, SMTT(30) DEF IInv, Woke, SignalAll
<1> QED BY <1>1, <1>3, <1>4, CallMoves DEF SignalAll, IInv, TypeOK

(* The for loop is left when nobody waits.                                 *)
LEMMA ForKeeps == ASSUME IInv, For PROVE IInv'
<1>1. CASE i < waiting_
  <2>1. StepTo(Signaler, "while") /\ "while" \in SignalerPc \ {"idle"}
    BY <1>1 DEF For, SignalerPc
  <2>2. at'[Signaler] = "while" /\ Blocked' = Blocked /\ b' = b /\ k' = k
    BY <2>1, SignalerMoves, SMTT(30) DEF IInv
  <2>3. Account'
    BY <1>1, <2>2, Counts, SMTT(30) DEF IInv, Account, None, One, For, TypeOK
  <2>4. Woke'
    BY <2>2, SMTT(30) DEF IInv, Woke, For
  <2> QED BY <1>1, <2>1, <2>3, <2>4, CallMoves DEF For, IInv, TypeOK
<1>2. CASE ~(i < waiting_)
  <2>1. StepTo(Signaler, "leave") /\ "leave" \in SignalerPc \ {"idle"}
    BY <1>2, SMTT(30) DEF For, SignalerPc
  <2>2. at'[Signaler] = "leave" /\ Blocked' = Blocked /\ b' = b /\ k' = k
    BY <2>1, SignalerMoves DEF IInv
  <2>3. Account'
    BY <1>2, <2>2 DEF IInv, Account, None, For
  <2>4. b = 0
    BY <1>2, SMTT(30) DEF IInv, Account, Woke, For, TypeOK
  <2>5. IsFiniteSet(before)
    BY CondVarAssumption, FS_Subset DEF IInv, Woke
  <2>6. before = {} \/ b < Cardinality(before)
    BY <2>4, <2>5, FS_CardinalityType, FS_EmptySet, SMTT(30)
  <2>7. Woke'
    BY <2>2, <2>6, SMTT(30) DEF IInv, Woke, For
  <2> QED BY <1>2, <2>1, <2>3, <2>7, CallMoves DEF For, IInv, TypeOK
<1> QED BY <1>1, <1>2

(* The loop inside goes on while somebody waits.                           *)
LEMMA WhileKeeps == ASSUME IInv, While PROVE IInv'
<1>1. CASE waiting_ > 0
  <2>1. StepTo(Signaler, "all") /\ "all" \in SignalerPc \ {"idle"}
    BY <1>1 DEF While, SignalerPc
  <2>2. at'[Signaler] = "all" /\ Blocked' = Blocked /\ b' = b /\ k' = k
    BY <2>1, SignalerMoves, SMTT(30) DEF IInv
  <2>3. Account'
    BY <1>1, <2>2, Counts, SMTT(30) DEF IInv, Account, None, One, While, TypeOK
  <2>4. Woke'
    <3>1. before' = before /\ at[Signaler] = "while"
      BY DEF While
    <3>2. before \subseteq Waiter /\ Blocked \subseteq before
      BY <3>1 DEF IInv, Woke
    <3> QED BY <2>2, <3>1, <3>2 DEF Woke
  <2> QED BY <1>1, <2>1, <2>3, <2>4, CallMoves, SMTT(30) DEF While, IInv, TypeOK
<1>2. CASE ~(waiting_ > 0)
  <2>1. StepTo(Signaler, "for") /\ "for" \in SignalerPc \ {"idle"}
    BY <1>2, SMTT(30) DEF While, SignalerPc
  <2>2. at'[Signaler] = "for" /\ Blocked' = Blocked /\ b' = b /\ k' = k
    BY <2>1, SignalerMoves DEF IInv
  <2>3. Account'
    BY <1>2, <2>2 DEF IInv, Account, None, While
  <2>4. waiting_' = 0
    BY <1>2, SMTT(30) DEF IInv, TypeOK, While
  <2>5. Woke'
    BY <2>2, <2>4 DEF IInv, Woke, While
  <2> QED BY <1>2, <2>1, <2>3, <2>5, CallMoves DEF While, IInv, TypeOK
<1> QED BY <1>1, <1>2

(* SignalAll takes the answer of the thread it woke.                       *)
LEMMA HandshakeAllKeeps == ASSUME IInv, HandshakeAll PROVE IInv'
<1>1. StepTo(Signaler, "while") /\ "while" \in SignalerPc \ {"idle"}
  BY DEF HandshakeAll, SignalerPc
<1>2. at'[Signaler] = "while" /\ Blocked' = Blocked /\ b' = b /\ k' = k
  BY <1>1, SignalerMoves DEF IInv
<1>3. sem2_ = 1 /\ sem1_ = 0 /\ k = 0 /\ waiting_ = b
  BY Counts, SMTT(30) DEF IInv, Account, None, One, HandshakeAll, TypeOK
<1>4. Account'
  BY <1>2, <1>3 DEF Account, None, HandshakeAll
<1>5. Woke'
  BY <1>2 DEF IInv, Woke, HandshakeAll
<1> QED BY <1>1, <1>3, <1>4, <1>5, CallMoves, SMTT(30) DEF HandshakeAll, IInv, TypeOK

(* The call returns with nothing under way.                                *)
LEMMA LeaveKeeps == ASSUME IInv, Leave PROVE IInv'
<1>1. "idle" \in SignalerPc
  BY SMTT(30) DEF SignalerPc
<1>2. /\ at'[Signaler] = "idle" /\ b' = b /\ k' = k
      /\ \A v \in Waiter : at'[v] = at[v] /\ v # Signaler /\ v # Free
  BY <1>1, SignalerMoves DEF IInv, Leave
<1>3. TypeOK'
  BY <1>1, <1>2, SignalerMoves, SMTT(30) DEF IInv, TypeOK, Leave
<1>4. MutexInv'
  BY <1>2, SMTT(30) DEF IInv, MutexInv, Leave, Signaler, Free
<1>5. Account'
  <2>1. at[Signaler] = "leave" /\ UNCHANGED <<waiting_, sem1_, sem2_>>
    BY DEF Leave
  <2>2. None /\ waiting_ = b
    BY <2>1 DEF IInv, Account
  <2>3. None'
    BY <1>2, <2>1, <2>2 DEF None
  <2> QED BY <1>2, <2>1, <2>2, <2>3 DEF Account
<1>6. Woke'
  BY <1>2 DEF IInv, Woke, Leave
<1> QED BY <1>3, <1>4, <1>5, <1>6 DEF IInv

-----------------------------------------------------------------------------
(* The invariant holds before the first call.                              *)
LEMMA InitHolds == CvInit => IInv
<1> SUFFICES ASSUME CvInit PROVE IInv
  OBVIOUS
<1>1. \A t \in Waiter \cup {Signaler} : at[t] = "idle"
  BY DEF CvInit
<1>2. Blocked = {} /\ Shaking = {}
  BY <1>1 DEF Blocked, Shaking
<1>3. b = 0 /\ k = 0
  BY <1>2, Counts, SMTT(30)
<1>4. TypeOK
  BY <1>1 DEF CvInit, TypeOK, WaiterPc, SignalerPc
<1>5. MutexInv
  BY <1>1, CondVarAssumption, SMTT(30) DEF CvInit, MutexInv, Signaler, Free
<1>6. Account /\ Woke
  BY <1>1, <1>3 DEF CvInit, Account, Woke, None
<1> QED BY <1>4, <1>5, <1>6 DEF IInv

(* Every step keeps the invariant.                                         *)
LEMMA CondVarStep == IInv /\ [CvNext]_cvVars => IInv'
<1> SUFFICES ASSUME IInv, [CvNext]_cvVars PROVE IInv'
  BY SMTT(30)
<1>1. CASE UNCHANGED cvVars
  <2>1. Blocked' = Blocked /\ Shaking' = Shaking
    BY <1>1 DEF cvVars, Blocked, Shaking
  <2>2. b' = b /\ k' = k
    BY <2>1, SMTT(30) DEF b, k
  <2>3. TypeOK' /\ MutexInv'
    BY <1>1, Zenon DEF cvVars, IInv, TypeOK, MutexInv
  <2>4. Account'
    BY <1>1, <2>2, Zenon DEF cvVars, IInv, Account, None, One
  <2>5. Woke'
    BY <1>1, <2>1, <2>2, Zenon DEF cvVars, IInv, Woke
  <2> QED BY <2>3, <2>4, <2>5 DEF IInv
<1>2. ASSUME NEW w \in Waiter, Enter(w) \/ WaitStep(w) PROVE IInv'
  BY <1>2, EnterKeeps, CheckKeeps, CountKeeps, UnlockKeeps, WokenKeeps, ShakeKeeps, RelockKeeps,
     SMTT(30) DEF WaitStep
<1>3. ASSUME NEW op \in Ops, Announce(op) PROVE IInv'
  BY <1>3, AnnounceKeeps, SMTT(30)
<1>4. CASE SignalStep
  BY <1>4, SignalKeeps, HandshakeKeeps, SignalAllKeeps, ForKeeps, WhileKeeps, HandshakeAllKeeps,
     LeaveKeeps DEF SignalStep
<1> QED BY <1>1, <1>2, <1>3, <1>4, SMTT(30) DEF CvNext

(* For any number of waiting threads and any mix of Signal and SignalAll,  *)
(* no wake-up is left in a semaphore after a call and waiting_ counts the  *)
(* threads that wait.                                                      *)
THEOREM WakeupsBalance == CvSpec => []NoStoredWakeup
<1>1. IInv => NoStoredWakeup
  BY DEF IInv, Account, None, NoStoredWakeup, b
<1> QED BY <1>1, InitHolds, CondVarStep, PTL DEF CvSpec

(* A call that returns has woken one of the threads that waited when the   *)
(* event came, and not one that came later in its place.                   *)
THEOREM SignalWakesOne == CvSpec => []SignalWakes
<1>1. IInv => SignalWakes
  <2> SUFFICES ASSUME IInv, at[Signaler] = "leave", before # {}, before \ Blocked = {}
               PROVE  FALSE
    BY DEF SignalWakes
  <2>1. Blocked = before
    BY DEF IInv, Woke
  <2>2. b < Cardinality(before)
    BY DEF IInv, Woke
  <2> QED BY <2>1, <2>2, Counts DEF b
<1> QED BY <1>1, InitHolds, CondVarStep, PTL DEF CvSpec

(* Both together: a signal wakes a thread that waits and no later one.     *)
THEOREM WakesWaiter == CvSpec => []WakesOne
BY WakeupsBalance, SignalWakesOne, PTL DEF WakesOne
=============================================================================
