-------------------------- MODULE DecodeInterleave --------------------------
(***************************************************************************)
(* TTDecodeInterleavePolicy: how many consecutive prefill steps may stall  *)
(* the running decodes.  The two counters are passed in and returned as a  *)
(* record, because one policy instance belongs to each TTScheduler and one *)
(* to the lane coordinator.                                                *)
(***************************************************************************)
EXTENDS Naturals

CONSTANTS
  InterleaveEnabled,   \* decode_interleave_enabled
  PrefillSteps,        \* decode_interleave_prefill_steps
  DecodeSteps,         \* decode_interleave_decode_steps
  RunCap               \* bound on the prefill counter, which the code lets grow

ASSUME InterleaveAssumption ==
  /\ InterleaveEnabled \in BOOLEAN
  /\ PrefillSteps \in Nat \ {0}
  /\ DecodeSteps \in Nat \ {0}
  /\ RunCap \in Nat
  /\ RunCap >= PrefillSteps

(* The policy's state: _prefill_run and _decode_run. *)
Runs == [prefill : Nat, decode : Nat]

NoRuns == [prefill |-> 0, decode |-> 0]

(* Mutant: the bound is passed before it is enforced. *)
WantsDecodeStepLate(runs, pendingPrefill, runningDecode) ==
  /\ InterleaveEnabled
  /\ pendingPrefill
  /\ runningDecode
  /\ runs.prefill > PrefillSteps
  /\ runs.decode < DecodeSteps

(* Whether to spend this step on decode although prefill work is pending. *)
WantsDecodeStep(runs, pendingPrefill, runningDecode) ==
  /\ InterleaveEnabled
  /\ pendingPrefill
  /\ runningDecode
  /\ runs.prefill >= PrefillSteps
  /\ runs.decode < DecodeSteps

(* Mutant: a spent decode allowance keeps the prefill run it answered. *)
RecordStepKeepsPrefillRun(runs, isDecode, pendingPrefill) ==
  IF ~pendingPrefill
    THEN NoRuns
    ELSE IF isDecode
           THEN [runs EXCEPT !.decode = IF @ + 1 >= DecodeSteps THEN 0 ELSE @ + 1]
           ELSE [prefill |-> IF runs.prefill < RunCap THEN runs.prefill + 1
                                                      ELSE runs.prefill,
                 decode |-> 0]

(* Advance the counters with the phase the step actually ran.  The prefill
   counter is only ever compared with PrefillSteps, so stopping it at RunCap
   changes no decision. *)
RecordStep(runs, isDecode, pendingPrefill) ==
  IF ~pendingPrefill \/ (isDecode /\ runs.decode + 1 >= DecodeSteps)
    THEN NoRuns
    ELSE IF isDecode
           THEN [prefill |-> runs.prefill, decode |-> runs.decode + 1]
           ELSE [prefill |-> IF runs.prefill < RunCap THEN runs.prefill + 1
                                                      ELSE runs.prefill,
                 decode |-> 0]

=============================================================================
