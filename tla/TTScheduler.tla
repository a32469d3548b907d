---------------------------- MODULE TTScheduler ----------------------------
(***************************************************************************)
(* One TTScheduler in DEFAULT mode: every step is a prefill or a decode    *)
(* step, prefill first, with the interleave policy and the fallback to     *)
(* decode when prefill makes no progress.                                  *)
(*                                                                         *)
(* What the base vLLM pass does with token budgets and KV blocks is left   *)
(* open: it may advance, admit and preempt any requests its caps allow.    *)
(* The KV a request holds is known by its generation, which changes        *)
(* whenever its blocks are freed.                                          *)
(***************************************************************************)
EXTENDS Integers, FiniteSets, DecodeInterleave

CONSTANTS
  Reqs,          \* request ids
  MaxNumSeqs,    \* max_num_seqs: the running cap
  KvGens,        \* bound: how many KV generations of a request are told apart
  ForcedReset    \* whether reset_prefix_cache(reset_running_requests) is called

ASSUME SchedulerAssumption ==
  /\ IsFiniteSet(Reqs)
  /\ MaxNumSeqs \in Nat \ {0}
  /\ KvGens \in Nat \ {0}
  /\ ForcedReset \in BOOLEAN

VARIABLES
  status,    \* where the scheduler keeps a request
  kvGen,     \* the generation of the KV blocks a request holds or will get
  finPend,   \* finished ids not reported yet
  prePend,   \* ids a prefix-cache reset preempted, not reported yet
  runs,      \* the interleave policy's counters
  out        \* the SchedulerOutput the runner is to execute

schedVars == <<status, kvGen, finPend, prePend, runs>>

Gens == 0 .. KvGens - 1
NoStep == [step |-> FALSE]

SchedInit ==
  /\ status = [r \in Reqs |-> "idle"]
  /\ kvGen = [r \in Reqs |-> 0]
  /\ finPend = {}
  /\ prePend = {}
  /\ runs = NoRuns
  /\ out = NoStep

Waiting        == {r \in Reqs : status[r] \in {"waiting", "preempted"}}
PartialPrefill == {r \in Reqs : status[r] = "partial"}
Decoding       == {r \in Reqs : status[r] = "decode"}
Running        == PartialPrefill \cup Decoding

HasPendingPrefill == Waiting # {} \/ PartialPrefill # {}
WantsDecode == WantsDecodeStep(runs, HasPendingPrefill, Decoding # {})

(* The blocks of S are freed: their next ones are of another generation. *)
NextGen(S) == [r \in Reqs |-> IF r \in S THEN (kvGen[r] + 1) % KvGens ELSE kvGen[r]]

AddRequest(r) ==
  /\ out = NoStep
  /\ status[r] = "idle"
  /\ status' = [status EXCEPT ![r] = "waiting"]
  /\ UNCHANGED <<kvGen, finPend, prePend, runs, out>>

(* A stop or an abort.  Whether the base scheduler still reports the
   preemption of a request aborted after a reset is left open. *)
FinishRequest(r) ==
  /\ out = NoStep
  /\ status[r] # "idle"
  /\ status' = [status EXCEPT ![r] = "idle"]
  /\ kvGen' = [kvGen EXCEPT ![r] = 0]
  /\ finPend' = finPend \cup {r}
  /\ prePend' \in {prePend, prePend \ {r}}
  /\ UNCHANGED <<runs, out>>

(* reset_prefix_cache(reset_running_requests=True) preempts all that runs. *)
ResetPrefixCache ==
  /\ ForcedReset
  /\ out = NoStep
  /\ Running # {}
  /\ status' = [r \in Reqs |-> IF r \in Running THEN "preempted" ELSE status[r]]
  /\ kvGen' = NextGen(Running)
  /\ prePend' = prePend \cup Running
  /\ UNCHANGED <<finPend, runs, out>>

(* What the base pass may do with the requests the mode shows it: advance
   `adv', preempt `pre', admit `adm'. *)
BasePass(run, wait, adv, pre, adm) ==
  /\ adv \subseteq run
  /\ pre \subseteq run \ adv
  /\ adm \subseteq wait
  /\ adm # {} => pre = {} /\ Cardinality(Running \cup adm) <= MaxNumSeqs

(* The tail of schedule(): the pass's effect on the queues, and the output. *)
Emit(isDecode, pre, new, resumed, cached, final) ==
  LET sched == new \cup resumed \cup cached IN
  /\ status' = [r \in Reqs |-> IF r \in pre THEN "preempted"
                               ELSE IF r \in final THEN "decode"
                               ELSE IF r \in sched /\ ~isDecode THEN "partial"
                               ELSE status[r]]
  /\ kvGen' = NextGen(pre)
  /\ out' = [step |-> TRUE, decode |-> isDecode, fin |-> finPend, pre |-> prePend \cup pre,
             new |-> new, resumed |-> resumed, cached |-> cached, final |-> final]
  /\ finPend' = {}
  /\ prePend' = {}
  /\ runs' = RecordStep(runs, isDecode, HasPendingPrefill)

(* A prefill step: the running decodes are hidden and the caps lowered by
   their number. *)
SchedulePrefillOnly(adv, pre, adm) ==
  /\ out = NoStep
  /\ HasPendingPrefill /\ ~WantsDecode
  /\ BasePass(PartialPrefill, Waiting, adv, pre, adm)
  /\ adv \cup adm # {} \/ Decoding = {}
  /\ \E final \in SUBSET (adv \cup adm) :
       Emit(FALSE, pre, {r \in adm : status[r] = "waiting"},
            {r \in adm : status[r] = "preempted"}, adv, final)

(* The prefill pass scheduled nothing: decode instead, and carry what that
   pass drained and preempted. *)
ScheduleFallback(prePrefill, adv, pre) ==
  /\ out = NoStep
  /\ HasPendingPrefill /\ ~WantsDecode
  /\ Decoding # {}
  /\ BasePass(PartialPrefill, Waiting, {}, prePrefill, {})
  /\ BasePass(Decoding, {}, adv, pre, {})
  /\ Emit(TRUE, prePrefill \cup pre, {}, {}, adv, {})

(* A decode step: waiting queues and partial prefills are hidden, or empty. *)
ScheduleDecodeOnly(adv, pre) ==
  /\ out = NoStep
  /\ ~HasPendingPrefill \/ WantsDecode
  /\ Decoding # {} \/ finPend # {} \/ prePend # {}
  /\ BasePass(Decoding, {}, adv, pre, {})
  /\ Emit(TRUE, pre, {}, {}, adv, {})

Schedule ==
  \/ \E adv \in SUBSET PartialPrefill : \E pre \in SUBSET (PartialPrefill \ adv) :
       \E adm \in SUBSET Waiting : SchedulePrefillOnly(adv, pre, adm)
  \/ \E prePrefill \in SUBSET PartialPrefill : \E adv \in SUBSET Decoding :
       \E pre \in SUBSET (Decoding \ adv) : ScheduleFallback(prePrefill, adv, pre)
  \/ \E adv \in SUBSET Decoding : \E pre \in SUBSET (Decoding \ adv) :
       ScheduleDecodeOnly(adv, pre)

SchedNext ==
  \/ \E r \in Reqs : AddRequest(r) \/ FinishRequest(r)
  \/ ResetPrefixCache
  \/ Schedule

(* The outputs schedule() can produce. *)
Step == [step : {TRUE}, decode : BOOLEAN, fin : SUBSET Reqs, pre : SUBSET Reqs,
         new : SUBSET Reqs, resumed : SUBSET Reqs, cached : SUBSET Reqs,
         final : SUBSET Reqs]

SchedTypeOK ==
  /\ status \in [Reqs -> {"idle", "waiting", "preempted", "partial", "decode"}]
  /\ kvGen \in [Reqs -> Gens]
  /\ finPend \in SUBSET Reqs
  /\ prePend \in SUBSET Reqs
  /\ runs \in Runs
  /\ out \in Step \cup {NoStep}

=============================================================================
