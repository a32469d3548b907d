--------------------------- MODULE LaneCoordinator ---------------------------
(***************************************************************************)
(* Single-process lane-DP: TTLaneCoordinator drives one TTScheduler per    *)
(* lane in lock step, hands every running request a device row of its      *)
(* lane, and the model runner's TTLaneInputBatch mirrors those rows from   *)
(* the step plan.  Both sides keep the row map on their own; the code      *)
(* raises where they would disagree, and each raise is a value of `fault'. *)
(*                                                                         *)
(* A row is a pair <<lane, slot>>, the code's lane * per_lane + slot.      *)
(* Queue order, token counts and KV blocks are abstracted: a base pass may *)
(* schedule, admit and preempt any requests its caps allow.                *)
(***************************************************************************)
EXTENDS Integers, FiniteSets, DecodeInterleave

CONSTANTS
  Reqs,               \* request ids
  NumLanes,           \* TT data-parallel size
  PerLaneMax,         \* running requests one lane may hold, and its rows
  ActiveCap,          \* max_num_active_seqs of a lane
  PrefixRouting,      \* lane_prefix_cache_routing
  AbortKeepsPreempt   \* base scheduler: an abort leaves a reset's preemption reported

NoReq == "none"

ASSUME LaneAssumption ==
  /\ IsFiniteSet(Reqs)
  /\ NoReq \notin Reqs
  /\ NumLanes \in Nat \ {0}
  /\ PerLaneMax \in Nat \ {0}
  /\ ActiveCap \in 1 .. PerLaneMax
  /\ PrefixRouting \in BOOLEAN
  /\ AbortKeepsPreempt \in BOOLEAN

Lanes == 0 .. NumLanes - 1
Slots == 0 .. PerLaneMax - 1
Rows  == Lanes \X Slots
NoLane == -1
NoRow == <<NoLane, NoLane>>
NoStep == [step |-> FALSE]

VARIABLES
  status,    \* where its lane scheduler keeps a request
  home,      \* the lane scheduler holding the request
  finPend,   \* finished ids the lanes have not reported yet
  prePend,   \* ids a prefix-cache reset preempted, not reported yet
  laneOf,    \* coordinator: _req_to_lane
  rowOf,     \* coordinator: _req_to_row
  free,      \* coordinator: _free_slots_by_lane
  runs,      \* coordinator: the one interleave policy's counters
  out,       \* the step's merged SchedulerOutput on its way to the runner
  held,      \* runner: the lane batch's req_id_to_index
  known,     \* runner: keys of requests
  session,   \* model: the request whose state a row holds (release_request)
  fault,     \* the raise the engine died on
  decodeWait,   \* consecutive prefill steps a running decode has waited
  prefillWait   \* consecutive decode steps the policy put before pending prefill

schedVars == <<status, home, finPend, prePend>>
coordVars == <<laneOf, rowOf, free, runs>>
runnerVars == <<held, known, session>>
waits == <<decodeWait, prefillWait>>
vars == <<schedVars, coordVars, out, runnerVars, fault, waits>>

Faults == {"no_free_slot", "no_row_for_preempted", "row_occupied",
           "unknown_request", "layout_disagrees"}

Step == [step : {TRUE}, fin : SUBSET Reqs, pre : SUBSET Reqs, new : SUBSET Reqs,
         resumed : SUBSET Reqs, cached : SUBSET Reqs,
         rows : [Reqs -> Rows \cup {NoRow}], layout : BOOLEAN]

Init ==
  /\ status = [r \in Reqs |-> "idle"]
  /\ home = [r \in Reqs |-> NoLane]
  /\ finPend = {}
  /\ prePend = {}
  /\ laneOf = [r \in Reqs |-> NoLane]
  /\ rowOf = [r \in Reqs |-> NoRow]
  /\ free = [l \in Lanes |-> Slots]
  /\ runs = NoRuns
  /\ out = NoStep
  /\ held = [r \in Reqs |-> NoRow]
  /\ known = {}
  /\ session = [w \in Rows |-> NoReq]
  /\ fault = "none"
  /\ decodeWait = 0
  /\ prefillWait = 0

-----------------------------------------------------------------------------
(* A lane scheduler's queues. *)

InLane(S, l)   == {r \in S : home[r] = l}
Waiting        == {r \in Reqs : status[r] \in {"waiting", "preempted"}}
PartialPrefill == {r \in Reqs : status[r] = "partial"}
Decoding       == {r \in Reqs : status[r] = "decode"}
Running        == PartialPrefill \cup Decoding

(* The DP load score: a queued request weighs four running ones. *)
Score(l) == 4 * Cardinality(InLane(Waiting, l)) + Cardinality(InLane(Running, l))

(* Lowest score, ties to the lowest lane; a prefix hit may override it. *)
PickLane ==
  IF PrefixRouting
    THEN Lanes
    ELSE {l \in Lanes : \A k \in Lanes :
            Score(l) < Score(k) \/ (Score(l) = Score(k) /\ l <= k)}

(* Whether the lane wants to prefill this step. *)
LocalPrefillIntent(l) ==
  \/ InLane(PartialPrefill, l) # {}
  \/ /\ InLane(Waiting, l) # {}
     /\ \/ InLane(Running, l) = {}
        \/ Cardinality(InLane(Running, l)) < PerLaneMax

PrefillIntent == \E l \in Lanes : LocalPrefillIntent(l)

(* A new id is bound to a lane; an id still bound goes to its own lane. *)
AddRequest(r) ==
  /\ status[r] = "idle"
  /\ \E l \in (IF laneOf[r] # NoLane THEN {laneOf[r]} ELSE PickLane) :
       /\ laneOf' = [laneOf EXCEPT ![r] = l]
       /\ home' = [home EXCEPT ![r] = l]
       /\ status' = [status EXCEPT ![r] = "waiting"]
  /\ UNCHANGED <<finPend, prePend, rowOf, free, runs, out, runnerVars, fault, waits>>

(* A stop or an abort: the lane drops the request and will report it. *)
FinishRequest(r) ==
  /\ status[r] # "idle"
  /\ status' = [status EXCEPT ![r] = "idle"]
  /\ home' = [home EXCEPT ![r] = NoLane]
  /\ finPend' = finPend \cup {r}
  /\ prePend' = IF AbortKeepsPreempt THEN prePend ELSE prePend \ {r}
  /\ UNCHANGED <<coordVars, out, runnerVars, fault, waits>>

(* reset_prefix_cache(reset_running_requests=True): every lane preempts all
   it runs. *)
ResetPrefixCache ==
  /\ Running # {}
  /\ status' = [r \in Reqs |-> IF r \in Running THEN "preempted" ELSE status[r]]
  /\ prePend' = prePend \cup Running
  /\ UNCHANGED <<home, finPend, coordVars, out, runnerVars, fault, waits>>

-----------------------------------------------------------------------------
(* _build_step_plan: give rows back for the finished, the preempted and the
   resumed, then a row of its lane to every scheduled request without one. *)

Drop(map, S) == [r \in Reqs |-> IF r \in S THEN NoRow ELSE map[r]]

(* Mutant: a running request the step leaves out loses its row, as in the
   front-packed batch. *)
ReturnedDropsUnscheduled(fin, pre, resumed, sched) ==
  fin \cup pre \cup resumed \cup (Running \ sched)

(* Whose rows come back with this step. *)
Returned(fin, pre, resumed, sched) == fin \cup pre \cup resumed

(* _release_slot for each of S: the slot returns to the list of its row's
   lane, once. *)
Released(S) ==
  [l \in Lanes |-> free[l] \cup {s \in Slots : \E r \in S : rowOf[r] = <<l, s>>}]

(* The scheduled requests of lane l that _assign_slot must find a slot for. *)
Unplaced(rows, sched, l) == {r \in InLane(sched, l) : rows[r] = NoRow}

(* Mutant: _assign_slot reads the lowest free slot without popping it. *)
AssignmentsWithoutPop(rows, slots, sched) ==
  {f \in [{r \in sched : rows[r] = NoRow} -> Slots] :
     \A l \in Lanes : \A r \in Unplaced(rows, sched, l) :
       f[r] \in slots[l] /\ \A s \in slots[l] : f[r] <= s}

(* _assign_slot pops the lowest free slot of the lane, one request after the
   other in the order the lane scheduled them. *)
Assignments(rows, slots, sched) ==
  {f \in [{r \in sched : rows[r] = NoRow} -> Slots] :
     \A l \in Lanes :
       LET U == Unplaced(rows, sched, l) IN
       /\ \A r \in U : f[r] \in slots[l]
       /\ \A r, q \in U : f[r] = f[q] => r = q
       /\ \A r \in U : \A s \in slots[l] : s < f[r] => \E q \in U : f[q] = s}

BuildStepPlan(fin, pre, new, resumed, cached) ==
  LET sched == new \cup resumed \cup cached
      back  == Returned(fin, pre, resumed, sched)
      rows  == Drop(rowOf, back)
      slots == Released(back)
      short == \E l \in Lanes : Cardinality(Unplaced(rows, sched, l))
                                  > Cardinality(slots[l])
  IN
  \/ /\ short
     /\ fault' = "no_free_slot"
     /\ UNCHANGED <<laneOf, rowOf, free, out>>
  \/ /\ ~short
     /\ \E f \in Assignments(rows, slots, sched) :
          LET newRows == [r \in Reqs |-> IF r \in DOMAIN f
                                           THEN <<home[r], f[r]>> ELSE rows[r]]
          IN  /\ rowOf' = newRows
              /\ free' = [l \in Lanes |-> slots[l] \
                            {f[r] : r \in Unplaced(rows, sched, l)}]
              /\ out' = [step |-> TRUE, fin |-> fin, pre |-> pre, new |-> new,
                         resumed |-> resumed, cached |-> cached, rows |-> newRows,
                         layout |-> \/ \E r \in back : rowOf[r] # NoRow
                                    \/ DOMAIN f # {}]
     /\ laneOf' = [r \in Reqs |-> IF r \in sched THEN home[r]
                                    ELSE IF r \in fin THEN NoLane ELSE laneOf[r]]
     /\ UNCHANGED fault

(* What a base pass over the requests `run' and `wait' may do in each lane:
   advance `adv', preempt `pre', admit `adm'. *)
BasePass(run, wait, adv, pre, adm) ==
  /\ adv \subseteq run
  /\ pre \subseteq run \ adv
  /\ adm \subseteq wait
  /\ \A l \in Lanes :
       InLane(adm, l) # {} =>
         /\ InLane(pre, l) = {}
         /\ Cardinality(InLane(Running \cup adm, l)) <= ActiveCap

AfterPass(pre, done, partial) ==
  [r \in Reqs |-> IF r \in pre THEN "preempted"
                  ELSE IF r \in done THEN "decode"
                  ELSE IF r \in partial THEN "partial"
                  ELSE status[r]]

WantsDecode == WantsDecodeStep(runs, PrefillIntent, Decoding # {})

(* What the step cost the side it left out. *)
CountWaits(isDecode) ==
  /\ decodeWait' = IF isDecode \/ Decoding = {} THEN 0 ELSE decodeWait + 1
  /\ prefillWait' = IF isDecode /\ WantsDecode THEN prefillWait + 1 ELSE 0

(* The tail of every schedule(): report, record the phase, plan the rows. *)
CloseStep(isDecode, fin, pre, new, resumed, cached) ==
  /\ runs' = RecordStep(runs, isDecode, PrefillIntent)
  /\ CountWaits(isDecode)
  /\ BuildStepPlan(fin, pre, new, resumed, cached)
  /\ finPend' = {}
  /\ prePend' = {}
  /\ UNCHANGED <<home, runnerVars>>

(* A prefill step: partial prefills advance and waiting requests are
   admitted, the running decodes hidden.  An empty one stands only when no
   lane has a decode to run instead. *)
SchedulePrefill(adv, pre, adm) ==
  /\ out = NoStep
  /\ PrefillIntent /\ ~WantsDecode
  /\ BasePass(PartialPrefill, Waiting, adv, pre, adm)
  /\ adv \cup adm # {} \/ Decoding = {}
  /\ \E done \in SUBSET (adv \cup adm) :
       status' = AfterPass(pre, done, (adv \cup adm) \ done)
  /\ CloseStep(FALSE, finPend, prePend \cup pre, {r \in adm : status[r] = "waiting"},
               {r \in adm : status[r] = "preempted"}, adv)

(* Mutant: the finished ids the empty prefill pass drained are not carried. *)
ScheduleFallbackDropsFinished(prePrefill, adv, pre) ==
  /\ out = NoStep
  /\ PrefillIntent /\ ~WantsDecode
  /\ Decoding # {}
  /\ BasePass(PartialPrefill, Waiting, {}, prePrefill, {})
  /\ BasePass(Decoding, {}, adv, pre, {})
  /\ status' = AfterPass(prePrefill \cup pre, {}, {})
  /\ CloseStep(TRUE, {}, prePend \cup prePrefill \cup pre, {}, {}, adv)

(* The decode pass after a prefill pass that scheduled nothing; what the
   discarded pass preempted is carried over. *)
ScheduleFallback(prePrefill, adv, pre) ==
  /\ out = NoStep
  /\ PrefillIntent /\ ~WantsDecode
  /\ Decoding # {}
  /\ BasePass(PartialPrefill, Waiting, {}, prePrefill, {})
  /\ BasePass(Decoding, {}, adv, pre, {})
  /\ status' = AfterPass(prePrefill \cup pre, {}, {})
  /\ CloseStep(TRUE, finPend, prePend \cup prePrefill \cup pre, {}, {}, adv)

(* Mutant: finish reports alone do not make the coordinator step. *)
ScheduleDecodeForRequests(adv, pre) ==
  /\ out = NoStep
  /\ ~PrefillIntent \/ WantsDecode
  /\ Running # {}
  /\ BasePass(Decoding, {}, adv, pre, {})
  /\ status' = AfterPass(pre, {}, {})
  /\ CloseStep(TRUE, finPend, prePend \cup pre, {}, {}, adv)

(* A decode step: no lane wants to prefill, or the policy inserts one. *)
ScheduleDecode(adv, pre) ==
  /\ out = NoStep
  /\ ~PrefillIntent \/ WantsDecode
  /\ Running # {} \/ finPend # {} \/ prePend # {}
  /\ BasePass(Decoding, {}, adv, pre, {})
  /\ status' = AfterPass(pre, {}, {})
  /\ CloseStep(TRUE, finPend, prePend \cup pre, {}, {}, adv)

-----------------------------------------------------------------------------
(* The runner: apply_step_plan, and the layout assertion after it. *)

(* Mutant: the runner leaves a preempted request on its row. *)
KeptWithPreempted(o) == Drop(held, o.fin \cup o.resumed)

(* The rows still held once the finished, the preempted and the resumed have
   given theirs back. *)
Kept(o) == Drop(held, o.fin \cup o.pre \cup o.resumed)

(* Placed by this step: new and resumed requests, and a cached one holding
   no row. *)
Added(o) == o.new \cup o.resumed \cup {r \in o.cached : Kept(o)[r] = NoRow}

(* The raise sites.  _free_row demands a row of every preempted request, and
   the finished have given theirs back before. *)
ApplyFaults(o) ==
  {x \in Faults :
     \/ x = "no_row_for_preempted" /\ \E r \in o.pre : Drop(held, o.fin)[r] = NoRow
     \/ x = "unknown_request"
          /\ \E r \in o.resumed \cup o.cached : r \notin known \ o.fin
     \/ x = "row_occupied"
          /\ \E r \in Added(o) : \E q \in Reqs \ {r} :
               \/ Kept(o)[q] = o.rows[r]
               \/ q \in Added(o) /\ o.rows[q] = o.rows[r]
     \/ x = "layout_disagrees"
          /\ o.layout # (\/ \E r \in o.fin \cup o.pre \cup o.resumed : held[r] # NoRow
                        \/ Added(o) # {})}

(* Mutant: the model hears only of finished requests. *)
FreedOnFinish(o) == {held[r] : r \in o.fin}

(* The rows whose model session release_request ends. *)
Freed(o) == {held[r] : r \in o.fin \cup o.pre \cup o.resumed}

(* A request placed on a row nobody released inherits the session there. *)
ApplyStepPlan(o) ==
  /\ held' = [r \in Reqs |-> IF r \in Added(o) THEN o.rows[r] ELSE Kept(o)[r]]
  /\ known' = (known \ o.fin) \cup o.new
  /\ session' = [w \in Rows |->
       IF session[w] # NoReq /\ w \notin Freed(o)
         THEN session[w]
         ELSE IF \E r \in Added(o) : o.rows[r] = w
                THEN CHOOSE r \in Added(o) : o.rows[r] = w
                ELSE NoReq]

ExecuteLaneStep ==
  /\ out # NoStep
  /\ \/ /\ ApplyFaults(out) = {}
        /\ ApplyStepPlan(out)
        /\ UNCHANGED fault
     \/ /\ ApplyFaults(out) # {}
        /\ \E x \in ApplyFaults(out) : fault' = x
        /\ UNCHANGED runnerVars
  /\ out' = NoStep
  /\ UNCHANGED <<schedVars, coordVars, waits>>

ScheduleStep ==
  \/ \E adv \in SUBSET PartialPrefill : \E pre \in SUBSET (PartialPrefill \ adv) :
       \E adm \in SUBSET Waiting : SchedulePrefill(adv, pre, adm)
  \/ \E prePrefill \in SUBSET PartialPrefill, adv \in SUBSET Decoding :
       \E pre \in SUBSET (Decoding \ adv) : ScheduleFallback(prePrefill, adv, pre)
  \/ \E adv \in SUBSET Decoding : \E pre \in SUBSET (Decoding \ adv) :
       ScheduleDecode(adv, pre)

Next ==
  /\ fault = "none"
  /\ \/ \E r \in Reqs : AddRequest(r) \/ FinishRequest(r)
     \/ ResetPrefixCache
     \/ ScheduleStep
     \/ ExecuteLaneStep

Spec == Init /\ [][Next]_vars

(* The engine core keeps stepping while a request is unfinished or a finished
   one is unreported, and every step it schedules it executes. *)
FairSpec ==
  /\ Spec
  /\ WF_vars(fault = "none" /\ ScheduleStep)
  /\ WF_vars(fault = "none" /\ ExecuteLaneStep)

-----------------------------------------------------------------------------
(* Properties. *)

(* The ranges of the coordinator's, the lanes' and the runner's state. *)
TypeOK ==
  /\ status \in [Reqs -> {"idle", "waiting", "preempted", "partial", "decode"}]
  /\ home \in [Reqs -> Lanes \cup {NoLane}]
  /\ finPend \in SUBSET Reqs
  /\ prePend \in SUBSET Reqs
  /\ laneOf \in [Reqs -> Lanes \cup {NoLane}]
  /\ rowOf \in [Reqs -> Rows \cup {NoRow}]
  /\ free \in [Lanes -> SUBSET Slots]
  /\ runs \in Runs
  /\ out \in Step \cup {NoStep}
  /\ held \in [Reqs -> Rows \cup {NoRow}]
  /\ known \in SUBSET Reqs
  /\ session \in [Rows -> Reqs \cup {NoReq}]
  /\ fault \in Faults \cup {"none"}
  /\ decodeWait \in Nat
  /\ prefillWait \in Nat

(* No sequence of arrivals, aborts, cache resets, preemptions and resumes
   reaches a raise of _assign_slot, _free_row, add_request_to_row, the
   request map's lookup or the layout assertion of _execute_lane_step: an
   engine step never kills the engine core over the row bookkeeping. *)
NoFault == fault = "none"

(* Between steps the runner's batch and the coordinator hold the same rows,
   although each keeps its own map and only the step plan connects them. *)
RunnerAgrees == out = NoStep /\ fault = "none" => held = rowOf

(* Two requests never share a row, a row stays in the lane whose KV cache
   manager holds its request, and a lane's free list is exactly what its
   requests leave: no slot leaks and none is handed out twice. *)
RowsExclusive ==
  /\ \A r, q \in Reqs : rowOf[r] # NoRow /\ rowOf[r] = rowOf[q] => r = q
  /\ \A r \in Running : home[r] # NoLane
                        /\ (rowOf[r] # NoRow => rowOf[r] \in {home[r]} \X Slots)
  /\ \A l \in Lanes, s \in Slots : s \in free[l] <=> \A r \in Reqs : rowOf[r] # <<l, s>>

(* A row is a device state slot, so the batch must never move a request that
   keeps running, whatever other requests finish, arrive or are preempted. *)
StableRow ==
  [][\A r \in Reqs :
       status[r] \in {"partial", "decode"} /\ status'[r] \in {"partial", "decode"}
         /\ rowOf[r] # NoRow => rowOf'[r] = rowOf[r]]_vars

(* The model session on a request's row is the request's own: every occupant
   before it was released (release_request) before the row was reused. *)
SessionFollowsRow == \A r \in Reqs : held[r] # NoRow => session[held[r]] = r

(* A running decode waits at most decode_interleave_prefill_steps steps. *)
DecodeStallBound == InterleaveEnabled => decodeWait <= PrefillSteps

(* The policy puts at most decode_interleave_decode_steps decode steps in
   front of pending prefill work. *)
PrefillStallBound == prefillWait <= DecodeSteps

(* A request both preempted and aborted in one step gives its row back, and
   the step does not fail. *)
PreemptedAbortReleasesRow ==
  [][\A r \in Reqs :
       out # NoStep /\ out' = NoStep /\ r \in out.fin \cap out.pre
         => fault' = "none" /\ (held'[r] = NoRow \/ r \in out.new)]_vars

(* The row of a request that ended comes back, on the runner too, unless its
   id is in use again: nothing that drains a finish report may lose it. *)
RowsComeBack ==
  \A r \in Reqs : (status[r] = "idle" /\ held[r] # NoRow)
                    ~> (held[r] = NoRow \/ status[r] # "idle")

=============================================================================
