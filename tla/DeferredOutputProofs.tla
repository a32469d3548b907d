------------------------ MODULE DeferredOutputProofs ------------------------
(* Exactly-once readback for any number of threads, with or without reads
   that raise. *)
EXTENDS DeferredOutput, TLAPS

(* A thread between taking and leaving the lock holds it. *)
Exclusion == \A c \in Callers : pc[c] \in Holding => lock = c

(* Until the step is finalized, only the thread past the read has used up the
   one readback; from then on the outcome is fixed. *)
Progress ==
  /\ finalized => reads = 1 /\ outcome # "none"
  /\ ~finalized /\ (\A c \in Callers : pc[c] \notin {"enqueue", "finish"})
       => reads = 0 /\ outcome = "none"
  /\ queued = IF outcome = "output" THEN 1 ELSE 0
  /\ event => finalized

(* What each point of ensure_finalized may rely on. *)
Points ==
  \A c \in Callers :
    /\ pc[c] = "read" => ~finalized
    /\ pc[c] = "enqueue" => ~finalized /\ reads = 1 /\ outcome = "none"
    /\ pc[c] = "finish" => ~finalized /\ reads = 1 /\ outcome # "none"
    /\ pc[c] \in {"set", "unlock", "replay"} => finalized

IInv == TypeOK /\ Exclusion /\ Progress /\ Points /\ OneOutcome

(* The invariant holds before any thread calls. *)
LEMMA InitIInv == Init => IInv
<1> SUFFICES ASSUME Init PROVE IInv
  OBVIOUS
<1> USE DEF Init, Outcomes
<1>0. queued \in 0 .. 1 /\ reads \in Nat
  OBVIOUS
<1>1. TypeOK
  BY <1>0, Zenon DEF TypeOK
<1>2. Exclusion
  BY DEF Exclusion, Holding
<1>3. Progress
  BY DEF Progress
<1>4. Points
  BY DEF Points
<1>5. OneOutcome
  BY DEF OneOutcome
<1> QED
  BY <1>1, <1>2, <1>3, <1>4, <1>5 DEF IInv

(* Every step of every thread keeps the invariant. *)
LEMMA StepIInv == IInv /\ [Next]_vars => IInv'
<1> SUFFICES ASSUME IInv, [Next]_vars PROVE IInv'
  OBVIOUS
<1> USE FailAssumption, CallersAssumption
<1>1. CASE UNCHANGED vars
  BY <1>1 DEF IInv, TypeOK, Exclusion, Progress, Points, OneOutcome, vars, shared
<1>2. ASSUME NEW c \in Callers, Call(c) \/ Resolve(c) PROVE IInv'
  <2> USE <1>2 DEF IInv, TypeOK, Exclusion, Progress, Points, OneOutcome, Holding,
        Outcomes, Goto, shared
  <2>1. CASE Call(c)
    BY <2>1 DEF Call
  <2>2. CASE Check(c)
    BY <2>2 DEF Check
  <2>3. CASE Acquire(c)
    BY <2>3 DEF Acquire
  <2>4. CASE Recheck(c)
    BY <2>4 DEF Recheck
  <2>5. CASE Read(c)
    BY <2>5 DEF Read
  <2>6. CASE Enqueue(c)
    BY <2>6 DEF Enqueue
  <2>7. CASE Finish(c)
    BY <2>7 DEF Finish
  <2>8. CASE SetEvent(c)
    BY <2>8 DEF SetEvent
  <2>9. CASE Unlock(c)
    BY <2>9 DEF Unlock
  <2>10. CASE Replay(c)
    BY <2>10 DEF Replay
  <2> QED
    BY <2>1, <2>2, <2>3, <2>4, <2>5, <2>6, <2>7, <2>8, <2>9, <2>10 DEF Resolve
<1> QED
  BY <1>1, <1>2 DEF Next

(* The invariant holds in every reachable state. *)
LEMMA Inductive == Spec => []IInv
  BY InitIInv, StepIInv, PTL DEF Spec

(* However many threads resolve the step, the device is read at most once. *)
THEOREM ReadAtMostOnce == Spec => []ReadOnce
<1>1. IInv => ReadOnce
  BY DEF IInv, Progress, Points, ReadOnce
<1> QED
  BY <1>1, Inductive, PTL

(* Every call that returned had the outcome of that one read. *)
THEOREM CallersAgree == Spec => []OneOutcome
<1>1. IInv => OneOutcome
  BY DEF IInv
<1> QED
  BY <1>1, Inductive, PTL

(* A set event finds the completion queued, or a read that raised. *)
THEOREM QueuedBeforeEvent == Spec => []EventMeansQueued
<1>1. IInv => EventMeansQueued
  BY DEF IInv, Progress, EventMeansQueued
<1> QED
  BY <1>1, Inductive, PTL

(* A call that takes the unlocked path finds an outcome to return. *)
THEOREM NeverEmptyHanded == Spec => []NoEmptyReplay
<1>1. IInv => NoEmptyReplay
  BY DEF IInv, Progress, Points, NoEmptyReplay
<1> QED
  BY <1>1, Inductive, PTL

=============================================================================
