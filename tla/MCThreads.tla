----------------------------- MODULE MCThreads -----------------------------
(***************************************************************************)
(* The threads of LevelDB, side by side: a behaviour is one of a single    *)
(* part, the others rest.                                                  *)
(*   "wake"   CondVar with three waiting threads                           *)
(*   "write"  WriteQueue: plain, sync and large writes, a failing file     *)
(*            operation                                                    *)
(*   "flush"  WriteQueue: sync writes and memtable compactions, a failing  *)
(*            file operation                                               *)
(*   "range"  WriteQueue: sync writes and compactions of a range, two      *)
(*            calls of a thread and one of another                         *)
(*   "single" WriteQueue: three calls of one thread, as in this program: a *)
(*            write or the compaction of a range; a failing file operation *)
(***************************************************************************)
EXTENDS CondVar, WriteQueue

CONSTANTS Parts, w1, w2, w3
VARIABLE part

MCThread == {w1, w2, w3}
Plain == [kind |-> "batch", sync |-> FALSE, size |-> 1]
Synced == [kind |-> "batch", sync |-> TRUE, size |-> 1]
Large == [kind |-> "batch", sync |-> FALSE, size |-> 3]
Flush == [kind |-> "flush", sync |-> FALSE, size |-> 0]
OfRange == [kind |-> "range", sync |-> FALSE, size |-> 0]
MCRequests == {Plain, Synced, Large}

F == INSTANCE WriteQueue WITH Requests <- {Synced, Flush}
G == INSTANCE WriteQueue WITH Requests <- {Synced, OfRange}, MaxCalls <- 2, MaxFaults <- 0
S == INSTANCE WriteQueue WITH Requests <- {Plain, OfRange}, MaxCalls <- 3

-----------------------------------------------------------------------------
MCInit == /\ part \in Parts
          /\ CvInit
          /\ part = "flush" => F!Init
          /\ part = "range" => G!Init
          /\ part = "single" => S!Init
          /\ part \in {"wake", "write"} => Init

(* What a thread does inside a call, what runs beside the threads, and     *)
(* what nobody is obliged to do.                                           *)
InCall(t) == \/ part = "wake" /\ WaitStep(t) /\ UNCHANGED <<part, vars>>
             \/ part = "flush" /\ F!Inside(t) /\ UNCHANGED <<part, cvVars>>
             \/ part = "range" /\ G!Inside(t) /\ UNCHANGED <<part, cvVars>>
             \/ part = "single" /\ S!Inside(t) /\ UNCHANGED <<part, cvVars>>
Beside == \/ part = "wake" /\ SignalStep /\ UNCHANGED <<part, vars>>
          \/ part = "flush" /\ F!Background /\ UNCHANGED <<part, cvVars>>
          \/ part = "range" /\ G!Background /\ UNCHANGED <<part, cvVars>>
          \/ part = "single" /\ S!Background /\ UNCHANGED <<part, cvVars>>
Closing == \/ part = "flush" /\ F!Close /\ UNCHANGED <<part, cvVars>>
           \/ part = "range" /\ G!Close /\ UNCHANGED <<part, cvVars>>
           \/ part = "single" /\ S!Close /\ UNCHANGED <<part, cvVars>>
Enters(t) == part = "wake" /\ Enter(t) /\ UNCHANGED <<part, vars>>
Announces(op) == part = "wake" /\ Announce(op) /\ UNCHANGED <<part, vars>>
(* The threads are alike, so they make their first calls in a fixed order. *)
Turn(t) == t = w1 \/ (t = w2 /\ calls[w1] > 0) \/ (t = w3 /\ calls[w2] > 0)
InRange(t) == t = w1 \/ (t = w2 /\ calls[w2] = 0)
Calls(t) == \/ part = "write" /\ (\E r \in Requests : Write(t, r))
               /\ UNCHANGED <<part, cvVars>>
            \/ part = "flush" /\ (\E r \in {Synced, Flush} : F!Write(t, r))
               /\ UNCHANGED <<part, cvVars>>
            \/ part = "range" /\ InRange(t) /\ (\E r \in {Synced, OfRange} : G!Write(t, r))
               /\ UNCHANGED <<part, cvVars>>
            \/ part = "single" /\ t = w1 /\ (\E r \in {Plain, OfRange} : S!Write(t, r))
               /\ UNCHANGED <<part, cvVars>>
Writing == /\ part = "write"
           /\ Background \/ Close \/ \E t \in Client : Inside(t)
           /\ UNCHANGED <<part, cvVars>>
MCNext == \/ \E t \in MCThread : Enters(t) \/ InCall(t) \/ (Turn(t) /\ Calls(t))
          \/ \E op \in Ops : Announces(op)
          \/ Beside \/ Closing \/ Writing

allVars == <<part, vars, cvVars>>
MCSpec == MCInit /\ [][MCNext]_allVars
MCFairSpec == MCSpec /\ WF_allVars(Beside) /\ WF_allVars(Closing)
                     /\ \A t \in MCThread : WF_allVars(InCall(t))

-----------------------------------------------------------------------------
(* CondVar: Signal returns, and SignalAll for one thread. WriteQueue:      *)
(* every call of a single thread returns; with several, every call returns *)
(* or SignalAll was called for two of them; the destructor returns.        *)
AllReturn ==
    /\ SignalReturns
    /\ part = "single" => \A t \in Client : pc[t] # "idle" ~> pc[t] = "idle"
    /\ part \in {"flush", "range"} =>
          \A t \in Client : pc[t] # "idle" ~> pc[t] = "idle" \/ mutex_ = Stuck
    /\ part # "write" => Closes
=============================================================================
