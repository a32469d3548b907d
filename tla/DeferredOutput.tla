--------------------------- MODULE DeferredOutput ---------------------------
(***************************************************************************)
(* One submitted decode step whose readback is deferred.  The executor's   *)
(* output thread and the engine thread's drain both resolve it through     *)
(* ensure_finalized; the first of them reads the device, and every later   *)
(* call replays what that read cached, a failure included.  One action per *)
(* shared access, so the double-checked lock is left to interleave.        *)
(***************************************************************************)
EXTENDS Naturals

CONSTANTS
  Callers,        \* threads that may resolve the step
  ReadMayFail     \* whether the readback may raise

ASSUME FailAssumption == ReadMayFail \in BOOLEAN

NoCaller == "nobody"
ASSUME CallersAssumption == NoCaller \notin Callers

VARIABLES
  pc,         \* where a thread is in ensure_finalized
  lock,       \* holder of _finalize_lock
  finalized,  \* _finalized
  event,      \* _completion_event
  outcome,    \* _cached_output or _cached_exception, once one is set
  reads,      \* readbacks the device was asked for
  queued,     \* completions given to the controller's completed queue
  got         \* what the thread's last call returned or raised

shared == <<finalized, event, outcome, reads, queued>>
vars == <<pc, lock, shared, got>>

Outcomes == {"none", "output", "exception"}
Holding == {"recheck", "read", "enqueue", "finish", "set", "unlock"}

Init ==
  /\ pc = [c \in Callers |-> "idle"]
  /\ lock = NoCaller
  /\ finalized = FALSE
  /\ event = FALSE
  /\ outcome = "none"
  /\ reads = 0
  /\ queued = 0
  /\ got = [c \in Callers |-> "none"]

Goto(c, from, to) == pc[c] = from /\ pc' = [pc EXCEPT ![c] = to]

Call(c) == Goto(c, "idle", "check") /\ UNCHANGED <<lock, shared, got>>

(* The unlocked look at _finalized. *)
Check(c) ==
  /\ Goto(c, "check", IF finalized THEN "replay" ELSE "lock")
  /\ UNCHANGED <<lock, shared, got>>

(* Mutant: the lock does not exclude. *)
AcquireShared(c) ==
  /\ Goto(c, "lock", "recheck")
  /\ lock' = c
  /\ UNCHANGED <<shared, got>>

Acquire(c) ==
  /\ lock = NoCaller
  /\ Goto(c, "lock", "recheck")
  /\ lock' = c
  /\ UNCHANGED <<shared, got>>

(* Mutant: no second look under the lock. *)
RecheckNone(c) ==
  /\ Goto(c, "recheck", "read")
  /\ UNCHANGED <<lock, shared, got>>

Recheck(c) ==
  /\ Goto(c, "recheck", IF finalized THEN "unlock" ELSE "read")
  /\ UNCHANGED <<lock, shared, got>>

(* Mutant: the exception is not cached. *)
ReadUncached(c) ==
  /\ reads' = reads + 1
  /\ \/ Goto(c, "read", "enqueue") /\ UNCHANGED outcome
     \/ ReadMayFail /\ Goto(c, "read", "finish") /\ UNCHANGED outcome
  /\ UNCHANGED <<lock, finalized, event, queued, got>>

(* _get_output_impl up to the runner output: the device is read, and a read
   that raises becomes the step's cached exception. *)
Read(c) ==
  /\ reads' = reads + 1
  /\ \/ Goto(c, "read", "enqueue") /\ UNCHANGED outcome
     \/ ReadMayFail /\ Goto(c, "read", "finish") /\ outcome' = "exception"
  /\ UNCHANGED <<lock, finalized, event, queued, got>>

(* The completion joins the completed queue, and the output is cached. *)
Enqueue(c) ==
  /\ Goto(c, "enqueue", "finish")
  /\ queued' = queued + 1
  /\ outcome' = "output"
  /\ UNCHANGED <<lock, finalized, event, reads, got>>

(* Mutant: a failed readback is left open for another attempt. *)
FinishOutput(c) ==
  /\ Goto(c, "finish", "set")
  /\ finalized' = (outcome = "output")
  /\ UNCHANGED <<lock, event, outcome, reads, queued, got>>

(* The finally block: a failed readback is terminal too. *)
Finish(c) ==
  /\ Goto(c, "finish", "set")
  /\ finalized' = TRUE
  /\ UNCHANGED <<lock, event, outcome, reads, queued, got>>

SetEvent(c) ==
  /\ Goto(c, "set", "unlock")
  /\ event' = TRUE
  /\ UNCHANGED <<lock, finalized, outcome, reads, queued, got>>

(* Mutant: the reader that failed keeps the lock. *)
UnlockOutput(c) ==
  /\ Goto(c, "unlock", "replay")
  /\ lock' = IF outcome = "output" THEN NoCaller ELSE lock
  /\ UNCHANGED <<shared, got>>

(* Leaving the with block.  The reader that failed raises what it cached,
   which is what _replay raises for everybody else. *)
Unlock(c) ==
  /\ Goto(c, "unlock", "replay")
  /\ lock' = NoCaller
  /\ UNCHANGED <<shared, got>>

Replay(c) ==
  /\ Goto(c, "replay", "idle")
  /\ got' = [got EXCEPT ![c] = outcome]
  /\ UNCHANGED <<lock, shared>>

Resolve(c) ==
  \/ Check(c) \/ Acquire(c) \/ Recheck(c) \/ Read(c) \/ Enqueue(c)
  \/ Finish(c) \/ SetEvent(c) \/ Unlock(c) \/ Replay(c)

Next == \E c \in Callers : Call(c) \/ Resolve(c)

Spec == Init /\ [][Next]_vars

(* A thread inside ensure_finalized keeps running.  Nothing is assumed of who
   gets the lock next: once the step is finalized, new calls do not take it. *)
FairSpec == Spec /\ \A c \in Callers : WF_vars(Resolve(c))

-----------------------------------------------------------------------------
TypeOK ==
  /\ pc \in [Callers -> {"idle", "check", "lock", "replay"} \cup Holding]
  /\ lock \in Callers \cup {NoCaller}
  /\ finalized \in BOOLEAN
  /\ event \in BOOLEAN
  /\ outcome \in Outcomes
  /\ reads \in Nat
  /\ queued \in 0 .. 1
  /\ got \in [Callers -> Outcomes]

(* The device submission is read back at most once, whichever threads race
   and whether or not the read raises: a second read would corrupt the
   decode's output. *)
ReadOnce == reads <= 1

(* Every call that returned saw the one outcome of that read: nobody returns
   before it is cached, and no two callers disagree. *)
OneOutcome == \A c \in Callers : got[c] # "none" => got[c] = outcome /\ finalized

(* A call never comes back empty-handed, even on the unlocked path. *)
NoEmptyReplay == \A c \in Callers : pc[c] = "replay" => outcome # "none"

(* When the event is set, the completion is already in the completed queue,
   once, unless the read raised.  prune_finished_async_events drops a step by
   its event and relies on the drain that follows to find its result. *)
EventMeansQueued == event => queued = (IF outcome = "output" THEN 1 ELSE 0) /\ finalized

(* Every call comes back: a reader that failed leaves nobody waiting. *)
CallsReturn == \A c \in Callers : pc[c] = "check" ~> pc[c] = "idle"

=============================================================================
