----------------------- MODULE LaneCoordinatorProofs -----------------------
(***************************************************************************)
(* LaneCoordinator for any number of requests, lanes and slots: the row    *)
(* bookkeeping of the coordinator and of the runner never raises, both     *)
(* sides agree, and the interleave policy's two waits are bounded.         *)
(*                                                                         *)
(* The rows are safe because of a fact no single component states: a       *)
(* request holds a row exactly while its lane runs it or its end has not   *)
(* been reported, so a lane's running cap also bounds the rows it needs.   *)
(***************************************************************************)
EXTENDS LaneCoordinator, FiniteSetTheorems, TLAPS

Live(r) == status[r] \in {"partial", "decode", "preempted"}

(* A request its engine knows is in some lane's queues. *)
HomeOK == \A r \in Reqs : status[r] # "idle" => home[r] \in Lanes

(* The lanes' queues and the coordinator's map: who may hold a row. *)
Holders ==
  /\ \A r \in Running : rowOf[r] \in {home[r]} \X Slots
  /\ \A r \in Reqs : rowOf[r] # NoRow => r \in Running \cup finPend \cup prePend
  /\ \A r \in finPend : ~Live(r)
  /\ \A r \in prePend : status[r] = "preempted" /\ rowOf[r] # NoRow

(* The free lists are the rows nobody holds, and no row has two holders. *)
FreeExact ==
  /\ \A r, q \in Reqs : rowOf[r] # NoRow /\ rowOf[r] = rowOf[q] => r = q
  /\ \A l \in Lanes, s \in Slots : s \in free[l] <=> \A r \in Reqs : rowOf[r] # <<l, s>>

(* The runner lags the coordinator by the step in transit, and that step
   says exactly how. *)
InTransit ==
  IF out = NoStep
    THEN /\ held = rowOf
         /\ \A r \in Reqs : Live(r) => r \in known
    ELSE /\ out.rows = rowOf
         /\ \A r \in out.pre : r \notin out.fin /\ held[r] # NoRow
         /\ \A r \in Added(out) : rowOf[r] # NoRow /\ Kept(out)[r] = NoRow
         /\ \A r \in Reqs \ Added(out) : rowOf[r] = Kept(out)[r]
         /\ \A r \in out.resumed \cup out.cached : r \in known \ out.fin
         /\ \A r \in Reqs : Live(r) => r \in (known \ out.fin) \cup out.new
         /\ out.layout = (\/ \E r \in out.fin \cup out.pre \cup out.resumed :
                               held[r] # NoRow
                          \/ Added(out) # {})

(* A row's session and its holder on the runner name each other. *)
SessionExact ==
  \A w \in Rows, r \in Reqs : session[w] = r <=> held[r] = w

(* What the two counters say about the waits. *)
WaitInv ==
  /\ runs.decode < DecodeSteps
  /\ InterleaveEnabled => decodeWait <= runs.prefill /\ decodeWait <= PrefillSteps
  /\ prefillWait <= runs.decode \/ (runs.prefill = 0 /\ prefillWait <= DecodeSteps)

RowInv == Holders /\ FreeExact /\ InTransit /\ SessionExact /\ NoFault

-----------------------------------------------------------------------------
(* Types. *)

(* RecordStep keeps the policy's counters natural numbers. *)
LEMMA RecordStepType ==
  ASSUME NEW rs \in Runs, NEW d \in BOOLEAN, NEW p \in BOOLEAN
  PROVE  RecordStep(rs, d, p) \in Runs
  BY InterleaveAssumption DEF RecordStep, Runs, NoRuns

(* The tail of schedule(), _build_step_plan included, keeps every variable
   but status in its type. *)
LEMMA CloseStepType ==
  ASSUME TypeOK, NEW d \in BOOLEAN,
         NEW fin \in SUBSET Reqs, NEW pre \in SUBSET Reqs,
         NEW new \in SUBSET Reqs, NEW resumed \in SUBSET Reqs,
         NEW cached \in SUBSET Reqs,
         \A r \in new \cup resumed \cup cached : home[r] \in Lanes,
         status' \in [Reqs -> {"idle", "waiting", "preempted", "partial", "decode"}],
         CloseStep(d, fin, pre, new, resumed, cached)
  PROVE  TypeOK'
<1> DEFINE sched == new \cup resumed \cup cached
           back == Returned(fin, pre, resumed, sched)
           rows == Drop(rowOf, back)
           slots == Released(back)
<1>1. rows \in [Reqs -> Rows \cup {NoRow}] /\ slots \in [Lanes -> SUBSET Slots]
  BY DEF TypeOK, Drop, Released
<1>2. runs' \in Runs
  BY RecordStepType DEF CloseStep, TypeOK, PrefillIntent
<1>3. decodeWait' \in Nat /\ prefillWait' \in Nat
  BY DEF CloseStep, CountWaits, TypeOK
<1>4. /\ laneOf' \in [Reqs -> Lanes \cup {NoLane}]
      /\ rowOf' \in [Reqs -> Rows \cup {NoRow}]
      /\ free' \in [Lanes -> SUBSET Slots]
      /\ out' \in Step \cup {NoStep}
      /\ fault' \in Faults \cup {"none"}
  <2>0. BuildStepPlan(fin, pre, new, resumed, cached)
    BY DEF CloseStep
  <2>1. CASE fault' = "no_free_slot" /\ UNCHANGED <<laneOf, rowOf, free, out>>
    BY <2>1 DEF TypeOK, Faults
  <2>2. CASE ~(fault' = "no_free_slot" /\ UNCHANGED <<laneOf, rowOf, free, out>>)
    <3>1. PICK f \in Assignments(rows, slots, sched) :
            LET newRows == [r \in Reqs |-> IF r \in DOMAIN f
                                             THEN <<home[r], f[r]>> ELSE rows[r]]
            IN  /\ rowOf' = newRows
                /\ free' = [l \in Lanes |-> slots[l] \
                              {f[r] : r \in Unplaced(rows, sched, l)}]
                /\ out' = [step |-> TRUE, fin |-> fin, pre |-> pre, new |-> new,
                           resumed |-> resumed, cached |-> cached, rows |-> newRows,
                           layout |-> \/ \E r \in back : rowOf[r] # NoRow
                                      \/ DOMAIN f # {}]
      BY <2>0, <2>2 DEF BuildStepPlan
    <3>2. /\ fault' = fault
          /\ laneOf' = [r \in Reqs |-> IF r \in sched THEN home[r]
                                    ELSE IF r \in fin THEN NoLane ELSE laneOf[r]]
      BY <2>0, <2>2 DEF BuildStepPlan
    <3>3. f \in [{r \in sched : rows[r] = NoRow} -> Slots]
      BY DEF Assignments
    <3>4. rowOf' \in [Reqs -> Rows \cup {NoRow}]
      BY <1>1, <3>1, <3>3 DEF Rows
    <3>5. free' \in [Lanes -> SUBSET Slots]
      BY <1>1, <3>1
    <3>6. out' \in Step
      BY <3>1, <3>4 DEF Step
    <3>7. laneOf' \in [Reqs -> Lanes \cup {NoLane}]
      BY <3>2 DEF TypeOK
    <3> QED BY <3>2, <3>4, <3>5, <3>6, <3>7 DEF TypeOK
  <2> QED BY <2>1, <2>2
<1>5. /\ finPend' = {} /\ prePend' = {}
      /\ UNCHANGED <<home, held, known, session>>
  BY DEF CloseStep, runnerVars
<1> QED BY <1>2, <1>3, <1>4, <1>5 DEF TypeOK

(* What every kind of schedule() has in common: it preempts `pre' and
   advances `cached' among the running, admits `new' and `resumed' from the
   queues within the lane's cap, and closes the step. *)
Scheduled(d, pre, new, resumed, cached) ==
  /\ out = NoStep
  /\ pre \subseteq Running
  /\ cached \subseteq Running \ pre
  /\ new \subseteq {r \in Reqs : status[r] = "waiting"}
  /\ resumed \subseteq {r \in Reqs : status[r] = "preempted"}
  /\ \A l \in Lanes :
       InLane(new \cup resumed, l) # {} =>
         Cardinality(InLane(Running \cup new \cup resumed, l)) <= ActiveCap
  /\ status' \in [Reqs -> {"idle", "waiting", "preempted", "partial", "decode"}]
  /\ \A r \in pre : status'[r] = "preempted"
  /\ \A r \in new \cup resumed \cup cached : status'[r] \in {"partial", "decode"}
  /\ \A r \in Reqs \ (pre \cup new \cup resumed \cup cached) : status'[r] = status[r]
  /\ ~d => PrefillIntent /\ ~WantsDecode
  /\ CloseStep(d, finPend, prePend \cup pre, new, resumed, cached)

(* Each of the three kinds of step is one of these. *)
LEMMA ScheduleShape ==
  ASSUME TypeOK, ScheduleStep
  PROVE  \E d \in BOOLEAN, pre, new, resumed, cached \in SUBSET Reqs :
           Scheduled(d, pre, new, resumed, cached)
<1>1. CASE \E adv \in SUBSET PartialPrefill : \E pre \in SUBSET (PartialPrefill \ adv) :
             \E adm \in SUBSET Waiting : SchedulePrefill(adv, pre, adm)
  <2>1. PICK adv \in SUBSET PartialPrefill : \E pre \in SUBSET (PartialPrefill \ adv) :
             \E adm \in SUBSET Waiting : SchedulePrefill(adv, pre, adm)
    BY <1>1
  <2>2. PICK pre \in SUBSET (PartialPrefill \ adv) :
             \E adm \in SUBSET Waiting : SchedulePrefill(adv, pre, adm)
    BY <2>1
  <2>3. PICK adm \in SUBSET Waiting : SchedulePrefill(adv, pre, adm)
    BY <2>2
  <2> DEFINE new == {r \in adm : status[r] = "waiting"}
             resumed == {r \in adm : status[r] = "preempted"}
  <2>4. adm = new \cup resumed /\ pre \subseteq Reqs /\ adv \subseteq Reqs
        /\ new \subseteq Reqs /\ resumed \subseteq Reqs
    BY DEF Waiting, PartialPrefill
  <2>5. PICK done \in SUBSET (adv \cup adm) :
          status' = AfterPass(pre, done, (adv \cup adm) \ done)
    BY <2>3 DEF SchedulePrefill
  <2>6. /\ status' \in [Reqs -> {"idle", "waiting", "preempted", "partial", "decode"}]
        /\ \A r \in pre : status'[r] = "preempted"
        /\ \A r \in adv \cup adm : status'[r] \in {"partial", "decode"}
        /\ \A r \in Reqs \ (pre \cup adv \cup adm) : status'[r] = status[r]
    BY <2>4, <2>5 DEF AfterPass, TypeOK, Waiting, PartialPrefill
  <2>7. \A l \in Lanes : InLane(adm, l) # {} =>
          Cardinality(InLane(Running \cup adm, l)) <= ActiveCap
    BY <2>3 DEF SchedulePrefill, BasePass
  <2>8. CloseStep(FALSE, finPend, prePend \cup pre, new, resumed, adv)
        /\ PrefillIntent /\ ~WantsDecode /\ out = NoStep
    BY <2>3 DEF SchedulePrefill
  <2>9. Running \cup adm = Running \cup new \cup resumed
    BY <2>4
  <2>10. Scheduled(FALSE, pre, new, resumed, adv)
    BY <2>4, <2>6, <2>7, <2>8, <2>9 DEF Scheduled, Running, PartialPrefill, Waiting
  <2> QED BY <2>4, <2>10
<1>2. CASE \E prePrefill \in SUBSET PartialPrefill, adv \in SUBSET Decoding :
             \E pre \in SUBSET (Decoding \ adv) : ScheduleFallback(prePrefill, adv, pre)
  <2>1. PICK prePrefill \in SUBSET PartialPrefill, adv \in SUBSET Decoding :
             \E pre \in SUBSET (Decoding \ adv) : ScheduleFallback(prePrefill, adv, pre)
    BY <1>2
  <2>2. PICK pre \in SUBSET (Decoding \ adv) : ScheduleFallback(prePrefill, adv, pre)
    BY <2>1
  <2>3. Scheduled(TRUE, prePrefill \cup pre, {}, {}, adv)
    <3>1. /\ status' \in [Reqs -> {"idle", "waiting", "preempted", "partial", "decode"}]
          /\ \A r \in (prePrefill \cup pre) : status'[r] = "preempted"
          /\ \A r \in adv : status'[r] \in {"partial", "decode"}
          /\ \A r \in Reqs \ ((prePrefill \cup pre) \cup adv) : status'[r] = status[r]
      BY <2>2 DEF ScheduleFallback, AfterPass, TypeOK, PartialPrefill, Decoding
    <3>2. (prePrefill \cup pre) \subseteq Running /\ adv \subseteq Running \ ((prePrefill \cup pre))
      BY DEF Running, PartialPrefill, Decoding
    <3>3. prePend \cup prePrefill \cup pre = prePend \cup (prePrefill \cup pre)
      OBVIOUS
    <3>4. out = NoStep /\ CloseStep(TRUE, finPend, prePend \cup (prePrefill \cup pre), {}, {}, adv)
      BY <2>2, <3>3 DEF ScheduleFallback
    <3>5. \A l \in Lanes : InLane({} \cup {}, l) = {}
      BY DEF InLane
    <3> QED BY <3>1, <3>2, <3>4, <3>5 DEF Scheduled
  <2>4. prePrefill \cup pre \in SUBSET Reqs /\ adv \in SUBSET Reqs
    BY DEF PartialPrefill, Decoding
  <2> QED BY <2>3, <2>4
<1>3. CASE \E adv \in SUBSET Decoding : \E pre \in SUBSET (Decoding \ adv) :
             ScheduleDecode(adv, pre)
  <2>1. PICK adv \in SUBSET Decoding : \E pre \in SUBSET (Decoding \ adv) :
             ScheduleDecode(adv, pre)
    BY <1>3
  <2>2. PICK pre \in SUBSET (Decoding \ adv) : ScheduleDecode(adv, pre)
    BY <2>1
  <2>3. Scheduled(TRUE, pre, {}, {}, adv)
    <3>1. /\ status' \in [Reqs -> {"idle", "waiting", "preempted", "partial", "decode"}]
          /\ \A r \in pre : status'[r] = "preempted"
          /\ \A r \in adv : status'[r] \in {"partial", "decode"}
          /\ \A r \in Reqs \ (pre \cup adv) : status'[r] = status[r]
      BY <2>2 DEF ScheduleDecode, AfterPass, TypeOK, PartialPrefill, Decoding
    <3>2. pre \subseteq Running /\ adv \subseteq Running \ (pre)
      BY DEF Running, PartialPrefill, Decoding
    <3>4. out = NoStep /\ CloseStep(TRUE, finPend, prePend \cup pre, {}, {}, adv)
      BY <2>2 DEF ScheduleDecode
    <3>5. \A l \in Lanes : InLane({} \cup {}, l) = {}
      BY DEF InLane
    <3> QED BY <3>1, <3>2, <3>4, <3>5 DEF Scheduled
  <2>4. pre \in SUBSET Reqs /\ adv \in SUBSET Reqs
    BY DEF Decoding
  <2> QED BY <2>3, <2>4
<1> QED BY <1>1, <1>2, <1>3 DEF ScheduleStep

(* apply_step_plan keeps the runner's maps in their types. *)
LEMMA ExecuteType ==
  ASSUME TypeOK, ExecuteLaneStep
  PROVE  TypeOK'
<1>1. out \in Step /\ out' = NoStep
  BY DEF ExecuteLaneStep, TypeOK
<1>2. Added(out) \subseteq Reqs /\ Kept(out) \in [Reqs -> Rows \cup {NoRow}]
  BY <1>1 DEF Added, Kept, Drop, Step, TypeOK
<1>3. CASE UNCHANGED runnerVars /\ fault' \in Faults
  BY <1>1, <1>3 DEF TypeOK, ExecuteLaneStep, schedVars, coordVars, runnerVars, waits
<1>4. CASE ApplyStepPlan(out) /\ UNCHANGED fault
  <2>1. held' \in [Reqs -> Rows \cup {NoRow}]
    BY <1>1, <1>2, <1>4 DEF ApplyStepPlan, Step
  <2>2. known' \subseteq Reqs
    BY <1>1, <1>4 DEF ApplyStepPlan, Step, TypeOK
  <2>3. \A w \in Rows : (\E r \in Added(out) : out.rows[r] = w) =>
          (CHOOSE r \in Added(out) : out.rows[r] = w) \in Reqs
    BY <1>2
  <2>4. session' \in [Rows -> Reqs \cup {NoReq}]
    BY <1>4, <2>3 DEF ApplyStepPlan, TypeOK
  <2> QED BY <1>1, <1>4, <2>1, <2>2, <2>4
        DEF TypeOK, ExecuteLaneStep, schedVars, coordVars, waits
<1> QED BY <1>3, <1>4 DEF ExecuteLaneStep, ApplyFaults

(* One step keeps the types and the lanes of live requests. *)
LEMMA NextType ==
  ASSUME TypeOK, HomeOK, [Next]_vars
  PROVE  TypeOK' /\ HomeOK'
<1>1. ASSUME NEW r \in Reqs, AddRequest(r) PROVE TypeOK' /\ HomeOK'
  <2>1. PICK l \in (IF laneOf[r] # NoLane THEN {laneOf[r]} ELSE PickLane) :
          /\ laneOf' = [laneOf EXCEPT ![r] = l]
          /\ home' = [home EXCEPT ![r] = l]
          /\ status' = [status EXCEPT ![r] = "waiting"]
    BY <1>1 DEF AddRequest
  <2>2. l \in Lanes
    BY DEF TypeOK, PickLane
  <2> QED BY <1>1, <2>1, <2>2 DEF AddRequest, TypeOK, HomeOK, runnerVars, waits
<1>2. ASSUME NEW r \in Reqs, FinishRequest(r) PROVE TypeOK' /\ HomeOK'
  BY <1>2 DEF FinishRequest, TypeOK, HomeOK, coordVars, runnerVars, waits
<1>3. CASE ResetPrefixCache
  BY <1>3 DEF ResetPrefixCache, TypeOK, HomeOK, coordVars, runnerVars, waits,
              Running, PartialPrefill, Decoding
<1>4. CASE ScheduleStep
  <2>1. PICK d \in BOOLEAN, pre, new, resumed, cached \in SUBSET Reqs :
          Scheduled(d, pre, new, resumed, cached)
    BY <1>4, ScheduleShape
  <2>2. \A r \in new \cup resumed \cup cached : home[r] \in Lanes
    BY <2>1 DEF Scheduled, HomeOK, Running, PartialPrefill, Decoding
  <2>3. prePend \cup pre \in SUBSET Reqs /\ finPend \in SUBSET Reqs
    BY DEF TypeOK
  <2>4. CloseStep(d, finPend, prePend \cup pre, new, resumed, cached)
        /\ status' \in [Reqs -> {"idle", "waiting", "preempted", "partial", "decode"}]
    BY <2>1 DEF Scheduled
  <2>5. TypeOK'
    BY <2>2, <2>3, <2>4, CloseStepType
  <2>6. HomeOK'
    BY <2>1 DEF HomeOK, Scheduled, CloseStep, Running, PartialPrefill, Decoding
  <2> QED BY <2>5, <2>6
<1>5. CASE ExecuteLaneStep
  <2>1. HomeOK'
    BY <1>5 DEF ExecuteLaneStep, HomeOK, schedVars
  <2> QED BY <1>5, <2>1, ExecuteType
<1>6. CASE UNCHANGED vars
  BY <1>6 DEF vars, schedVars, coordVars, runnerVars, waits, TypeOK, HomeOK
<1> QED BY <1>1, <1>2, <1>3, <1>4, <1>5, <1>6 DEF Next

(* A freshly constructed coordinator and runner are well typed. *)
LEMMA InitType == Init => TypeOK /\ HomeOK
  BY LaneAssumption, InterleaveAssumption
  DEF Init, TypeOK, HomeOK, Runs, NoRuns, Rows, Lanes, Slots, Step, NoStep

(* Every state the coordinator, the lanes and the runner reach is well typed,
   rows and slots inside their ranges. *)
THEOREM TypeCorrect == Spec => []TypeOK
<1>1. TypeOK /\ HomeOK /\ [Next]_vars => (TypeOK /\ HomeOK)'
  BY NextType
<1> QED BY <1>1, InitType, PTL DEF Spec

-----------------------------------------------------------------------------
(* The rows. *)

(* The absent row is no row: its slot is no slot. *)
LEMMA NoRowIsNoPair == \A l : \A s \in Slots : <<l, s>> # NoRow
  BY LaneAssumption DEF NoRow, Slots, NoLane

(* The intermediate values of _build_step_plan, by the names it has in
   BuildStepPlan. *)
PlanOf(pre, new, resumed, cached, sched, back, rows, slots) ==
  /\ sched = new \cup resumed \cup cached
  /\ back = Returned(finPend, prePend \cup pre, resumed, sched)
  /\ rows = Drop(rowOf, back)
  /\ slots = Released(back)

Newcomers(pre, new, resumed, sched, back, rows) ==
  /\ {r \in sched : rows[r] = NoRow} = new \cup resumed
  /\ \A r \in Running \ pre : r \notin back
  /\ back = finPend \cup prePend \cup pre \cup resumed
  /\ \A r \in Reqs : rows[r] # NoRow => r \in Running \ pre

(* A scheduled request without a row was just admitted: the running keep
   theirs, and the queued have given theirs back by the time they are
   admitted. *)
LEMMA NewcomersAreUnplaced ==
  ASSUME TypeOK, Holders,
         NEW d, NEW pre, NEW new, NEW resumed, NEW cached,
         Scheduled(d, pre, new, resumed, cached),
         NEW sched, NEW back, NEW rows, NEW slots,
         PlanOf(pre, new, resumed, cached, sched, back, rows, slots)
  PROVE  Newcomers(pre, new, resumed, sched, back, rows)
<1>0. /\ sched = new \cup resumed \cup cached
      /\ back = Returned(finPend, prePend \cup pre, resumed, sched)
      /\ rows = Drop(rowOf, back)
  BY DEF PlanOf
<1>1. back = finPend \cup prePend \cup pre \cup resumed
  BY <1>0 DEF Returned
<1>2. /\ cached \subseteq Running \ pre
      /\ \A r \in new : r \in Reqs /\ status[r] = "waiting"
      /\ \A r \in resumed : r \in Reqs /\ status[r] = "preempted"
  BY DEF Scheduled
<1>3. \A r \in Running : r \in Reqs /\ status[r] \in {"partial", "decode"}
  BY DEF Running, PartialPrefill, Decoding
<1>4. \A r \in Running \ pre : r \notin back
  BY <1>1, <1>2, <1>3 DEF Holders, Live
<1>5. \A r \in cached : rows[r] # NoRow
  <2>1. \A r \in cached : rows[r] = rowOf[r]
    BY <1>0, <1>2, <1>3, <1>4 DEF Drop
  <2>2. \A r \in cached : rowOf[r] \in {home[r]} \X Slots
    BY <1>2 DEF Holders
  <2>3. \A r \in cached : \E s \in Slots : rowOf[r] = <<home[r], s>>
    BY <2>2
  <2> QED BY <2>1, <2>3, NoRowIsNoPair
<1>6. \A r \in new \cup resumed : rows[r] = NoRow
  BY <1>0, <1>1, <1>2, <1>3 DEF Drop, Holders
<1>7. \A r \in Reqs : rows[r] # NoRow => r \in Running \ pre
  BY <1>0, <1>1 DEF Drop, Holders
<1> QED BY <1>0, <1>1, <1>4, <1>5, <1>6, <1>7 DEF Newcomers

(* No lane runs out of rows: its running cap bounds the rows its requests
   hold and those the admitted need. *)
LEMMA NoShortage ==
  ASSUME TypeOK, HomeOK, Holders, FreeExact,
         NEW d, NEW pre, NEW new, NEW resumed, NEW cached,
         Scheduled(d, pre, new, resumed, cached),
         NEW sched, NEW back, NEW rows, NEW slots,
         PlanOf(pre, new, resumed, cached, sched, back, rows, slots),
         NEW l \in Lanes
  PROVE  Cardinality(Unplaced(rows, sched, l)) <= Cardinality(slots[l])
<1> DEFINE A == InLane(new \cup resumed, l)
           R == InLane(Running, l)
           H == {s \in Slots : \E r \in R : rowOf[r] = <<l, s>>}
<1>0. /\ {r \in sched : rows[r] = NoRow} = new \cup resumed
      /\ back = finPend \cup prePend \cup pre \cup resumed
      /\ \A r \in Reqs : rows[r] # NoRow => r \in Running \ pre
      /\ slots = Released(back)
  <2>1. Newcomers(pre, new, resumed, sched, back, rows)
    BY NewcomersAreUnplaced
  <2> QED BY <2>1 DEF Newcomers, PlanOf
<1>1. Unplaced(rows, sched, l) = A
  BY <1>0 DEF Unplaced, InLane
<1>2. R \subseteq Reqs /\ A \subseteq Reqs /\ R \cap A = {}
  BY DEF InLane, Running, PartialPrefill, Decoding, Scheduled
<1>3. /\ IsFiniteSet(Reqs) /\ IsFiniteSet(R) /\ IsFiniteSet(A)
      /\ Cardinality(R) \in Nat /\ Cardinality(A) \in Nat
  BY <1>2, LaneAssumption, FS_Subset, FS_CardinalityType
<1>4. slots[l] \subseteq Slots
  BY <1>0 DEF Released, TypeOK
<1>5. IsFiniteSet(Slots) /\ Cardinality(Slots) = PerLaneMax
  <2>1. PerLaneMax \in Nat \ {0}
    BY LaneAssumption
  <2>2. IsFiniteSet(0 .. PerLaneMax - 1)
        /\ Cardinality(0 .. PerLaneMax - 1) = PerLaneMax
    BY <2>1, FS_Interval
  <2> QED BY <2>2 DEF Slots
<1>6. /\ IsFiniteSet(slots[l]) /\ Cardinality(slots[l]) \in Nat
      /\ IsFiniteSet(H) /\ Cardinality(H) \in Nat
  BY <1>4, <1>5, FS_Subset, FS_CardinalityType
<1>7. CASE A = {}
  <2>1. Cardinality(Unplaced(rows, sched, l)) = 0
    BY <1>1, <1>7, FS_EmptySet
  <2> QED BY <1>6, <2>1
<1>8. CASE A # {}
  <2>1. Slots \subseteq slots[l] \cup H
    <3>1. SUFFICES ASSUME NEW s \in Slots, s \notin slots[l] PROVE s \in H
      OBVIOUS
    <3>2. s \notin free[l] /\ \A r \in back : rowOf[r] # <<l, s>>
      BY <1>0, <3>1 DEF Released
    <3>3. PICK r \in Reqs : rowOf[r] = <<l, s>>
      BY <3>2 DEF FreeExact
    <3>4. r \notin back /\ rowOf[r] # NoRow
      BY <3>2, <3>3, NoRowIsNoPair
    <3>5. r \in Running
      BY <1>0, <3>4 DEF Holders
    <3>6. rowOf[r] \in {home[r]} \X Slots
      BY <3>5 DEF Holders
    <3>7. home[r] = l
      BY <3>3, <3>6
    <3> QED BY <3>3, <3>5, <3>7 DEF InLane
  <2>2. Cardinality(H) <= Cardinality(R)
    <3> DEFINE g == [s \in H |-> CHOOSE r \in R : rowOf[r] = <<l, s>>]
    <3>1. \A s \in H : g[s] \in R /\ rowOf[g[s]] = <<l, s>>
      OBVIOUS
    <3>2. \A s, t \in H : g[s] = g[t] => s = t
      <4>1. SUFFICES ASSUME NEW s \in H, NEW t \in H, g[s] = g[t] PROVE s = t
        OBVIOUS
      <4>2. <<l, s>> = <<l, t>>
        BY <3>1, <4>1
      <4> QED BY <4>2
    <3>3. g \in [H -> R]
      BY <3>1
    <3> HIDE DEF g, H, R
    <3>4. g \in Injection(H, R)
      BY <3>2, <3>3 DEF Injection, IsInjective
    <3> QED BY <1>3, <3>4, FS_Injection
  <2>3. PerLaneMax <= Cardinality(slots[l]) + Cardinality(H)
    <3>1. /\ IsFiniteSet(slots[l] \cup H)
          /\ Cardinality(slots[l] \cup H) = Cardinality(slots[l]) + Cardinality(H)
                                              - Cardinality(slots[l] \cap H)
      BY <1>6, FS_Union
    <3>2. IsFiniteSet(slots[l] \cap H) /\ Cardinality(slots[l] \cap H) \in Nat
      <4>1. slots[l] \cap H \in SUBSET H
        OBVIOUS
      <4> HIDE DEF H
      <4> QED BY <1>6, <4>1, FS_Subset, FS_CardinalityType
    <3>3. Cardinality(Slots) <= Cardinality(slots[l] \cup H)
      <4> HIDE DEF H
      <4> QED BY <2>1, <3>1, FS_Subset
    <3> HIDE DEF H
    <3> QED BY <1>5, <1>6, <3>1, <3>2, <3>3, LaneAssumption
  <2>4. Cardinality(R) + Cardinality(A) <= PerLaneMax
    <3>1. InLane(Running \cup new \cup resumed, l) = R \cup A
      BY DEF InLane
    <3>2. Cardinality(R \cup A) <= ActiveCap
      BY <1>8, <3>1 DEF Scheduled
    <3> HIDE DEF R, A
    <3>3. Cardinality(R \cup A) = Cardinality(R) + Cardinality(A)
      <4>1. Cardinality(R \cup A) = Cardinality(R) + Cardinality(A)
                                      - Cardinality(R \cap A)
        BY <1>3, FS_Union
      <4>2. Cardinality(R \cap A) = 0
        BY <1>2, FS_EmptySet
      <4> QED BY <1>3, <4>1, <4>2
    <3> QED BY <1>3, <3>2, <3>3, LaneAssumption
  <2> HIDE DEF R, A, H
  <2> QED BY <1>1, <1>3, <1>6, <2>2, <2>3, <2>4, LaneAssumption
<1> QED BY <1>7, <1>8

(* The row map and the rest of what a step that does not raise assigns, f
   the slots it hands out. *)
PlanResult(f, fin, pre, new, resumed, cached, sched, back, rows, slots) ==
  /\ rowOf' = [r \in Reqs |-> IF r \in new \cup resumed
                                THEN <<home[r], f[r]>> ELSE rows[r]]
  /\ free' = [l \in Lanes |-> slots[l] \
                {f[r] : r \in InLane(new \cup resumed, l)}]
  /\ out' = [step |-> TRUE, fin |-> fin, pre |-> pre, new |-> new,
             resumed |-> resumed, cached |-> cached, rows |-> rowOf',
             layout |-> \/ \E r \in back : rowOf[r] # NoRow
                        \/ new \cup resumed # {}]
  /\ \A l \in Lanes : \A r \in InLane(new \cup resumed, l) : f[r] \in slots[l]
  /\ \A l \in Lanes : \A r, q \in InLane(new \cup resumed, l) : f[r] = f[q] => r = q

(* A scheduled step takes the non-raising branch of _build_step_plan, and
   its slots are distinct free slots of each lane. *)
LEMMA PlanSucceeds ==
  ASSUME TypeOK, HomeOK, Holders, FreeExact,
         NEW d, NEW pre, NEW new, NEW resumed, NEW cached,
         Scheduled(d, pre, new, resumed, cached)
  PROVE  /\ fault' = fault
         /\ \E sched, back, rows, slots :
              /\ PlanOf(pre, new, resumed, cached, sched, back, rows, slots)
              /\ \E f \in [new \cup resumed -> Slots] :
                   PlanResult(f, finPend, prePend \cup pre, new, resumed, cached,
                              sched, back, rows, slots)
<1> DEFINE sched == new \cup resumed \cup cached
           back == Returned(finPend, prePend \cup pre, resumed, sched)
           rows == Drop(rowOf, back)
           slots == Released(back)
<1>1. BuildStepPlan(finPend, prePend \cup pre, new, resumed, cached)
  BY DEF Scheduled, CloseStep
<1>2. PlanOf(pre, new, resumed, cached, sched, back, rows, slots)
  BY DEF PlanOf
<1>3. /\ \A l \in Lanes : Cardinality(Unplaced(rows, sched, l)) <= Cardinality(slots[l])
      /\ Newcomers(pre, new, resumed, sched, back, rows)
  <2> HIDE DEF sched, back, rows, slots
  <2>1. Newcomers(pre, new, resumed, sched, back, rows)
    BY <1>2, NewcomersAreUnplaced
  <2>2. \A l \in Lanes : Cardinality(Unplaced(rows, sched, l)) <= Cardinality(slots[l])
    BY <1>2, NoShortage
  <2> QED BY <2>1, <2>2
<1>5. ASSUME NEW l \in Lanes
      PROVE  Unplaced(rows, sched, l) = InLane(new \cup resumed, l)
  <2> HIDE DEF sched, back, rows, slots
  <2> QED BY <1>3 DEF Newcomers, Unplaced, InLane
<1>6. ~\E l \in Lanes : Cardinality(Unplaced(rows, sched, l)) > Cardinality(slots[l])
  <2>1. SUFFICES ASSUME NEW l \in Lanes,
                        Cardinality(Unplaced(rows, sched, l)) > Cardinality(slots[l])
                 PROVE  FALSE
    OBVIOUS
  <2>2. slots[l] \subseteq Slots /\ InLane(new \cup resumed, l) \subseteq Reqs
    BY DEF Released, TypeOK, InLane, Scheduled
  <2> HIDE DEF sched, back, rows, slots
  <2>3. Cardinality(slots[l]) \in Nat
    <3>1. IsFiniteSet(Slots)
      BY LaneAssumption, FS_Interval DEF Slots
    <3> QED BY <2>2, <3>1, FS_Subset, FS_CardinalityType
  <2>4. Cardinality(Unplaced(rows, sched, l)) \in Nat
    BY <1>5, <2>2, LaneAssumption, FS_Subset, FS_CardinalityType
  <2> QED BY <1>3, <2>1, <2>3, <2>4
<1>7. fault' = fault
  BY <1>1, <1>6 DEF BuildStepPlan
<1>8. PICK f \in Assignments(rows, slots, sched) :
        LET newRows == [r \in Reqs |-> IF r \in DOMAIN f
                                         THEN <<home[r], f[r]>> ELSE rows[r]]
        IN  /\ rowOf' = newRows
            /\ free' = [l \in Lanes |-> slots[l] \
                          {f[r] : r \in Unplaced(rows, sched, l)}]
            /\ out' = [step |-> TRUE, fin |-> finPend, pre |-> prePend \cup pre,
                       new |-> new, resumed |-> resumed, cached |-> cached,
                       rows |-> newRows,
                       layout |-> \/ \E r \in back : rowOf[r] # NoRow
                                  \/ DOMAIN f # {}]
  BY <1>1, <1>6 DEF BuildStepPlan
<1> HIDE DEF sched, back, rows, slots
<1>9. /\ f \in [new \cup resumed -> Slots]
      /\ DOMAIN f = new \cup resumed
  BY <1>3 DEF Assignments, Newcomers
<1>10. /\ \A l \in Lanes : \A r \in InLane(new \cup resumed, l) : f[r] \in slots[l]
       /\ \A l \in Lanes : \A r, q \in InLane(new \cup resumed, l) : f[r] = f[q] => r = q
  <2>1. ASSUME NEW l \in Lanes
        PROVE  /\ \A r \in Unplaced(rows, sched, l) : f[r] \in slots[l]
               /\ \A r, q \in Unplaced(rows, sched, l) : f[r] = f[q] => r = q
    BY DEF Assignments
  <2>2. ASSUME NEW l \in Lanes
        PROVE  /\ \A r \in InLane(new \cup resumed, l) : f[r] \in slots[l]
               /\ \A r, q \in InLane(new \cup resumed, l) : f[r] = f[q] => r = q
    <3> DEFINE u == Unplaced(rows, sched, l)
    <3>1. (\A r \in u : f[r] \in slots[l]) /\ \A r, q \in u : f[r] = f[q] => r = q
      BY <2>1
    <3>2. u = InLane(new \cup resumed, l)
      BY <1>5
    <3> HIDE DEF u
    <3> QED BY <3>1, <3>2
  <2> QED BY <2>2
<1>11. \A l \in Lanes : {f[r] : r \in Unplaced(rows, sched, l)}
                          = {f[r] : r \in InLane(new \cup resumed, l)}
  BY <1>5
<1>12. PlanResult(f, finPend, prePend \cup pre, new, resumed, cached, sched, back,
                  rows, slots)
  BY <1>8, <1>9, <1>10, <1>11 DEF PlanResult
<1> QED BY <1>2, <1>7, <1>9, <1>12

(* Scheduling preserves the row invariant. *)
LEMMA ScheduleRows ==
  ASSUME TypeOK, HomeOK, RowInv,
         NEW d, NEW pre, NEW new, NEW resumed, NEW cached,
         Scheduled(d, pre, new, resumed, cached)
  PROVE  RowInv'
<1> DEFINE N == new \cup resumed
<1>0. Holders /\ FreeExact /\ InTransit /\ SessionExact /\ NoFault
  BY DEF RowInv
<1>3. fault' = fault
  BY <1>0, PlanSucceeds
<1>4. PICK sched, back, rows, slots :
        /\ PlanOf(pre, new, resumed, cached, sched, back, rows, slots)
        /\ \E f \in [new \cup resumed -> Slots] :
             PlanResult(f, finPend, prePend \cup pre, new, resumed, cached,
                        sched, back, rows, slots)
  BY <1>0, PlanSucceeds
<1>A. PICK f \in [new \cup resumed -> Slots] :
        PlanResult(f, finPend, prePend \cup pre, new, resumed, cached,
                   sched, back, rows, slots)
  BY <1>4
<1>1. rows = Drop(rowOf, back) /\ slots = Released(back)
  BY <1>4 DEF PlanOf
<1>2. Newcomers(pre, new, resumed, sched, back, rows)
  BY <1>0, <1>4, NewcomersAreUnplaced
<1>5. /\ N \subseteq Reqs
      /\ \A r \in N : home[r] \in Lanes /\ r \in InLane(N, home[r])
      /\ \A r \in N : f[r] \in Slots
  BY DEF Scheduled, HomeOK, InLane
<1>6. \A r \in Reqs : rows[r] = IF r \in back THEN NoRow ELSE rowOf[r]
  BY <1>1 DEF Drop
<1>7. \A l \in Lanes : \A s \in Slots :
        s \in slots[l] <=> \A r \in Reqs : rows[r] # <<l, s>>
  <2>1. \A l \in Lanes : \A s \in Slots :
          s \in slots[l] <=> s \in free[l] \/ \E r \in back : rowOf[r] = <<l, s>>
    BY <1>1 DEF Released
  <2>2. back \subseteq Reqs
    BY <1>2 DEF Newcomers, Scheduled, TypeOK, Running, PartialPrefill, Decoding
  <2>3. SUFFICES ASSUME NEW l \in Lanes, NEW s \in Slots
                 PROVE  s \in slots[l] <=> \A r \in Reqs : rows[r] # <<l, s>>
    OBVIOUS
  <2>4. s \in free[l] <=> \A r \in Reqs : rowOf[r] # <<l, s>>
    BY <1>0 DEF FreeExact
  <2>5. \A r, q \in Reqs : rowOf[r] = <<l, s>> /\ rowOf[q] = <<l, s>> => r = q
    BY <1>0, NoRowIsNoPair DEF FreeExact
  <2>6. <<l, s>> # NoRow
    BY NoRowIsNoPair
  <2>7. ASSUME s \in slots[l], NEW r \in Reqs PROVE rows[r] # <<l, s>>
    <3>1. CASE s \in free[l]
      BY <1>6, <2>4, <2>6, <3>1
    <3>2. CASE \E q \in back : rowOf[q] = <<l, s>>
      BY <1>6, <2>2, <2>5, <2>6, <3>2
    <3> QED BY <2>1, <2>7, <3>1, <3>2
  <2>8. ASSUME \A r \in Reqs : rows[r] # <<l, s>> PROVE s \in slots[l]
    <3>1. CASE \E q \in Reqs : rowOf[q] = <<l, s>>
      BY <1>6, <2>1, <2>8, <3>1
    <3>2. CASE ~\E q \in Reqs : rowOf[q] = <<l, s>>
      BY <2>1, <2>4, <3>2
    <3> QED BY <3>1, <3>2
  <2> QED BY <2>7, <2>8
<1>8. \A r \in Reqs : rowOf'[r] = IF r \in N THEN <<home[r], f[r]>> ELSE rows[r]
  BY <1>A DEF PlanResult
<1>9. \A l \in Lanes : free'[l] = slots[l] \ {f[r] : r \in InLane(N, l)}
  BY <1>A DEF PlanResult
<1>10. /\ home' = home /\ finPend' = {} /\ prePend' = {}
       /\ held' = held /\ known' = known /\ session' = session
  BY DEF Scheduled, CloseStep, runnerVars
<1>11. FreeExact'
  <2> HIDE DEF N
  <2>1. \A r, q \in Reqs : rowOf'[r] # NoRow /\ rowOf'[r] = rowOf'[q] => r = q
    <3>1. SUFFICES ASSUME NEW r \in Reqs, NEW q \in Reqs,
                          rowOf'[r] # NoRow, rowOf'[r] = rowOf'[q]
                   PROVE  r = q
      OBVIOUS
    <3>2. CASE r \in N /\ q \in N
      <4>1. <<home[r], f[r]>> = <<home[q], f[q]>>
        BY <1>8, <3>1, <3>2
      <4>2. home[r] = home[q] /\ f[r] = f[q]
        BY <4>1
      <4> QED BY <1>A, <1>5, <3>2, <4>2 DEF PlanResult, N
    <3>3. CASE r \in N /\ q \notin N
      <4>1. rows[q] = <<home[r], f[r]>>
        BY <1>8, <3>1, <3>3
      <4>2. f[r] \in slots[home[r]]
        BY <1>A, <1>5, <3>3 DEF PlanResult, N
      <4> QED BY <1>5, <1>7, <3>3, <4>1, <4>2
    <3>4. CASE r \notin N /\ q \in N
      <4>1. rows[r] = <<home[q], f[q]>>
        BY <1>8, <3>1, <3>4
      <4>2. f[q] \in slots[home[q]]
        BY <1>A, <1>5, <3>4 DEF PlanResult, N
      <4> QED BY <1>5, <1>7, <3>4, <4>1, <4>2
    <3>5. CASE r \notin N /\ q \notin N
      BY <1>0, <1>6, <1>8, <3>1, <3>5 DEF FreeExact
    <3> QED BY <3>2, <3>3, <3>4, <3>5
  <2>2. \A l \in Lanes, s \in Slots :
          s \in free'[l] <=> \A r \in Reqs : rowOf'[r] # <<l, s>>
    <3>1. SUFFICES ASSUME NEW l \in Lanes, NEW s \in Slots
                   PROVE  s \in free'[l] <=> \A r \in Reqs : rowOf'[r] # <<l, s>>
      OBVIOUS
    <3>2. s \in free'[l] <=> s \in slots[l] /\ \A r \in InLane(N, l) : f[r] # s
      BY <1>9
    <3>3. \A r \in N : r \in InLane(N, l) <=> home[r] = l
      BY DEF InLane
    <3>4. \A r \in N : <<home[r], f[r]>> = <<l, s>> <=> home[r] = l /\ f[r] = s
      OBVIOUS
    <3>5. \A r \in N : rows[r] = NoRow
      BY <1>2 DEF Newcomers, N
    <3>6. InLane(N, l) \subseteq N
      BY DEF InLane
    <3>7. s \in slots[l] <=> \A r \in Reqs : rows[r] # <<l, s>>
      BY <1>7
    <3>8. ASSUME s \in free'[l], NEW r \in Reqs PROVE rowOf'[r] # <<l, s>>
      BY <1>8, <3>2, <3>3, <3>4, <3>7, <3>8
    <3>9. ASSUME \A r \in Reqs : rowOf'[r] # <<l, s>> PROVE s \in free'[l]
      <4>1. \A r \in Reqs : rows[r] # <<l, s>>
        BY <1>8, <3>5, <3>9, NoRowIsNoPair
      <4>2. \A r \in InLane(N, l) : f[r] # s
        BY <1>5, <1>8, <3>3, <3>4, <3>6, <3>9
      <4> QED BY <3>2, <3>7, <4>1, <4>2
    <3> QED BY <3>8, <3>9
  <2> QED BY <2>1, <2>2 DEF FreeExact
<1>12. /\ Running' = (Running \ pre) \cup N
       /\ \A r \in Reqs : Live(r)' => Live(r) \/ r \in new
  <2>1. /\ pre \subseteq Running
        /\ cached \subseteq Running \ pre
        /\ new \subseteq {r \in Reqs : status[r] = "waiting"}
        /\ resumed \subseteq {r \in Reqs : status[r] = "preempted"}
        /\ \A r \in pre : status'[r] = "preempted"
        /\ \A r \in new \cup resumed \cup cached : status'[r] \in {"partial", "decode"}
        /\ \A r \in Reqs \ (pre \cup new \cup resumed \cup cached) : status'[r] = status[r]
    BY DEF Scheduled
  <2> QED BY <2>1 DEF Running, PartialPrefill, Decoding, Live
<1>13. Holders'
  <2>1. \A r \in Running' : rowOf'[r] \in {home'[r]} \X Slots
    <3>1. \A r \in N : <<home[r], f[r]>> \in {home[r]} \X Slots
      BY <1>5
    <3>2. \A r \in Running \ pre : r \in Reqs /\ r \notin back
                                   /\ rowOf[r] \in {home[r]} \X Slots
      BY <1>0, <1>2 DEF Holders, Newcomers, Running, PartialPrefill, Decoding
    <3> QED
      <4> SUFFICES ASSUME NEW r \in Running' PROVE rowOf'[r] \in {home'[r]} \X Slots
        OBVIOUS
      <4>1. home'[r] = home[r]
        BY <1>10
      <4>2. CASE r \in N
        BY <1>5, <1>8, <3>1, <4>1, <4>2
      <4>3. CASE r \in Running \ pre /\ r \notin N
        BY <1>6, <1>8, <3>2, <4>1, <4>3
      <4> QED BY <1>12, <4>2, <4>3
  <2>2. \A r \in Reqs : rowOf'[r] # NoRow => r \in Running'
    <3>1. \A r \in Reqs : rows[r] # NoRow => r \in Running \ pre
      BY <1>2 DEF Newcomers
    <3> QED BY <1>8, <1>12, <3>1
  <2> QED BY <1>10, <2>1, <2>2 DEF Holders
<1>14. InTransit'
  <2>1. out = NoStep /\ held = rowOf /\ \A r \in Reqs : Live(r) => r \in known
    BY <1>0 DEF Scheduled, InTransit
  <2>2. /\ out'.fin = finPend /\ out'.pre = prePend \cup pre /\ out'.new = new
        /\ out'.resumed = resumed /\ out'.cached = cached /\ out'.rows = rowOf'
        /\ out'.step = TRUE
        /\ out'.layout = (\/ \E r \in back : rowOf[r] # NoRow
                          \/ N # {})
    BY <1>A DEF PlanResult
  <2>3. out' # NoStep
    BY <2>2 DEF NoStep
  <2>4. out'.fin \cup out'.pre \cup out'.resumed = back
    BY <1>2, <2>2 DEF Newcomers
  <2>5. Kept(out)' = rows
    <3>1. Kept(out)' = [r \in Reqs |-> IF r \in out'.fin \cup out'.pre \cup out'.resumed
                                         THEN NoRow ELSE held'[r]]
      BY DEF Kept, Drop
    <3> QED BY <1>1, <1>10, <2>1, <2>4, <3>1 DEF Drop
  <2>6. Added(out)' = N
    <3>1. \A r \in cached : r \notin N => rows[r] # NoRow
      BY <1>2, <1>4 DEF Newcomers, PlanOf
    <3> QED BY <2>2, <2>5, <3>1 DEF Added
  <2>7. \A r \in out'.pre : r \notin out'.fin /\ held'[r] # NoRow
    <3>1. \A r \in pre : r \in Running
      BY DEF Scheduled
    <3>2. \A r \in Running : r \notin finPend /\ rowOf[r] # NoRow
      <4>1. \A r \in Running : \E s \in Slots : rowOf[r] = <<home[r], s>>
        BY <1>0 DEF Holders
      <4> QED BY <1>0, <4>1, NoRowIsNoPair DEF Holders, Live, Running, PartialPrefill,
                                               Decoding
    <3>3. \A r \in prePend : r \notin finPend /\ rowOf[r] # NoRow
      BY <1>0 DEF Holders, Live, TypeOK
    <3> QED BY <1>10, <2>1, <2>2, <3>1, <3>2, <3>3
  <2>8. \A r \in N : rowOf'[r] # NoRow /\ rows[r] = NoRow
    BY <1>2, <1>5, <1>8, NoRowIsNoPair DEF Newcomers
  <2>9. \A r \in Reqs \ N : rowOf'[r] = rows[r]
    BY <1>8
  <2>10. \A r \in resumed \cup cached : r \in known \ finPend
    <3>1. \A r \in resumed \cup cached : r \in Reqs /\ Live(r)
      BY DEF Scheduled, Live, Running, PartialPrefill, Decoding
    <3> QED BY <1>0, <2>1, <3>1 DEF Holders
  <2>11. \A r \in Reqs : Live(r)' => r \in (known \ finPend) \cup new
    BY <1>0, <1>12, <2>1 DEF Holders
  <2>12. out'.layout = (\/ \E r \in back : held'[r] # NoRow
                        \/ Added(out)' # {})
    BY <1>10, <2>1, <2>2, <2>6
  <2> HIDE DEF N
  <2>13. /\ \A r \in Added(out)' : rowOf'[r] # NoRow /\ Kept(out)'[r] = NoRow
         /\ \A r \in Reqs \ Added(out)' : rowOf'[r] = Kept(out)'[r]
         /\ \A r \in out'.resumed \cup out'.cached : r \in known' \ out'.fin
         /\ \A r \in Reqs : Live(r)' => r \in (known' \ out'.fin) \cup out'.new
         /\ out'.layout = (\/ \E r \in out'.fin \cup out'.pre \cup out'.resumed :
                                held'[r] # NoRow
                           \/ Added(out)' # {})
    BY <1>10, <2>2, <2>4, <2>5, <2>6, <2>8, <2>9, <2>10, <2>11, <2>12
  <2> QED BY <2>2, <2>3, <2>7, <2>13 DEF InTransit
<1>15. SessionExact' /\ NoFault'
  BY <1>0, <1>3, <1>10 DEF SessionExact, NoFault
<1> QED BY <1>11, <1>13, <1>14, <1>15 DEF RowInv

(* The step in transit raises nothing on the runner. *)
LEMMA NoApplyFault ==
  ASSUME TypeOK, FreeExact, InTransit, out # NoStep
  PROVE  ApplyFaults(out) = {}
<1>1. /\ out.rows = rowOf
      /\ \A r \in out.pre : r \notin out.fin /\ held[r] # NoRow
      /\ \A r \in Added(out) : rowOf[r] # NoRow /\ Kept(out)[r] = NoRow
      /\ \A r \in Reqs \ Added(out) : rowOf[r] = Kept(out)[r]
      /\ \A r \in out.resumed \cup out.cached : r \in known \ out.fin
      /\ out.layout = (\/ \E r \in out.fin \cup out.pre \cup out.resumed : held[r] # NoRow
                       \/ Added(out) # {})
  BY DEF InTransit
<1>2. out \in Step
  BY DEF TypeOK
<1>3. out.pre \subseteq Reqs /\ Added(out) \subseteq Reqs
  BY <1>2 DEF Step, Added
<1>4. \A r \in out.pre : Drop(held, out.fin)[r] # NoRow
  BY <1>1, <1>3 DEF Drop
<1>5. ~\E r \in Added(out) : \E q \in Reqs \ {r} :
         \/ Kept(out)[q] = out.rows[r]
         \/ q \in Added(out) /\ out.rows[q] = out.rows[r]
  BY <1>1, <1>3 DEF FreeExact
<1> QED BY <1>1, <1>4, <1>5 DEF ApplyFaults

(* Executing the step in transit keeps the row invariant: the runner is where
   the coordinator is. *)
LEMMA ExecuteRows ==
  ASSUME TypeOK, RowInv, ExecuteLaneStep
  PROVE  RowInv'
<1>0. Holders /\ FreeExact /\ InTransit /\ SessionExact /\ NoFault
  BY DEF RowInv
<1>1. out # NoStep /\ out' = NoStep /\ out \in Step
  BY DEF ExecuteLaneStep, TypeOK
<1>2. ApplyStepPlan(out) /\ fault' = fault
  <2>1. ApplyFaults(out) = {}
    BY <1>0, <1>1, NoApplyFault
  <2> QED BY <2>1 DEF ExecuteLaneStep
<1>3. /\ status' = status /\ home' = home /\ finPend' = finPend /\ prePend' = prePend
      /\ rowOf' = rowOf /\ free' = free
  BY DEF ExecuteLaneStep, schedVars, coordVars
<1>4. Holders' /\ FreeExact' /\ NoFault'
  BY <1>0, <1>2, <1>3 DEF Holders, FreeExact, NoFault, Running, PartialPrefill,
                          Decoding, Live
<1>5. /\ out.rows = rowOf
      /\ \A r \in Added(out) : rowOf[r] # NoRow /\ Kept(out)[r] = NoRow
      /\ \A r \in Reqs \ Added(out) : rowOf[r] = Kept(out)[r]
      /\ \A r \in Reqs : Live(r) => r \in (known \ out.fin) \cup out.new
  BY <1>0, <1>1 DEF InTransit
<1>6. held' = rowOf
  <2>1. \A r \in Reqs : held'[r] = rowOf[r]
    BY <1>2, <1>5 DEF ApplyStepPlan
  <2>2. held' \in [Reqs -> Rows \cup {NoRow}] /\ rowOf \in [Reqs -> Rows \cup {NoRow}]
    BY ExecuteType, <1>3 DEF TypeOK
  <2> QED BY <2>1, <2>2
<1>7. InTransit'
  BY <1>1, <1>2, <1>3, <1>5, <1>6 DEF InTransit, ApplyStepPlan, Live
<1>8. SessionExact'
  <2>1. SUFFICES ASSUME NEW w \in Rows, NEW r \in Reqs
                 PROVE  session'[w] = r <=> rowOf[r] = w
    BY <1>6 DEF SessionExact
  <2>2. session'[w] = IF session[w] # NoReq /\ w \notin Freed(out)
                        THEN session[w]
                        ELSE IF \E q \in Added(out) : rowOf[q] = w
                               THEN CHOOSE q \in Added(out) : rowOf[q] = w
                               ELSE NoReq
    BY <1>2, <1>5 DEF ApplyStepPlan
  <2>3. NoReq \notin Reqs /\ w # NoRow
    BY LaneAssumption DEF Rows, NoRow, Lanes, NoLane
  <2>4. Added(out) \subseteq Reqs
    BY <1>1 DEF Step, Added
  <2>5. \A q \in Reqs : session[w] = q <=> held[q] = w
    BY <1>0 DEF SessionExact
  <2>6. \A p, q \in Reqs : rowOf[p] = w /\ rowOf[q] = w => p = q
    BY <1>0, <2>3 DEF FreeExact
  <2>7. \A q \in Reqs : Kept(out)[q] = IF q \in out.fin \cup out.pre \cup out.resumed
                                          THEN NoRow ELSE held[q]
    BY DEF Kept, Drop
  <2>8. w \in Freed(out) <=> \E q \in out.fin \cup out.pre \cup out.resumed : held[q] = w
    BY DEF Freed
  <2>9. session[w] \in Reqs \cup {NoReq} /\ out.fin \cup out.pre \cup out.resumed \subseteq Reqs
    BY <1>1 DEF TypeOK, Step
  <2>10. CASE session[w] # NoReq /\ w \notin Freed(out)
    <3>1. PICK q \in Reqs : session[w] = q
      BY <2>9, <2>10
    <3>2. held[q] = w /\ Kept(out)[q] = w
      BY <2>5, <2>7, <2>8, <2>10, <3>1
    <3>3. rowOf[q] = w
      BY <1>5, <2>3, <3>2
    <3> QED BY <2>2, <2>6, <2>10, <3>1, <3>3
  <2>11. CASE ~(session[w] # NoReq /\ w \notin Freed(out))
    <3>1. \A q \in Reqs : Kept(out)[q] # w
      <4>1. SUFFICES ASSUME NEW q \in Reqs, Kept(out)[q] = w PROVE FALSE
        OBVIOUS
      <4>2. q \notin out.fin \cup out.pre \cup out.resumed /\ held[q] = w
        BY <2>3, <2>7, <4>1
      <4>3. session[w] = q
        BY <2>5, <4>2
      <4>4. PICK p \in out.fin \cup out.pre \cup out.resumed : held[p] = w
        BY <2>3, <2>8, <2>11, <4>3
      <4>5. session[w] = p
        BY <2>5, <2>9, <4>4
      <4> QED BY <4>2, <4>3, <4>4, <4>5
    <3>2. rowOf[r] = w => r \in Added(out)
      BY <1>5, <3>1
    <3>3. CASE \E q \in Added(out) : rowOf[q] = w
      <4>1. (CHOOSE q \in Added(out) : rowOf[q] = w) \in Added(out)
            /\ rowOf[CHOOSE q \in Added(out) : rowOf[q] = w] = w
        BY <3>3
      <4> QED BY <2>2, <2>4, <2>6, <2>11, <3>3, <4>1
    <3>4. CASE ~\E q \in Added(out) : rowOf[q] = w
      BY <2>2, <2>3, <2>11, <3>2, <3>4
    <3> QED BY <3>3, <3>4
  <2> QED BY <2>10, <2>11
<1> QED BY <1>4, <1>7, <1>8 DEF RowInv

(* A client's call leaves what is in transit alone. *)
LEMMA TransitKept ==
  ASSUME InTransit, UNCHANGED <<rowOf, out, held, known>>, \A r \in Reqs : Live(r)' => Live(r)
  PROVE  InTransit'
<1>1. CASE out = NoStep
  BY <1>1 DEF InTransit
<1>2. CASE out # NoStep
  <2>1. Kept(out)' = Kept(out) /\ Added(out)' = Added(out)
    BY DEF Kept, Added, Drop
  <2>2. /\ (out.rows = rowOf)' /\ \A r \in out'.pre : r \notin out'.fin /\ held'[r] # NoRow
        /\ \A r \in Added(out)' : rowOf'[r] # NoRow /\ Kept(out)'[r] = NoRow
        /\ \A r \in Reqs \ Added(out)' : rowOf'[r] = Kept(out)'[r]
        /\ \A r \in out'.resumed \cup out'.cached : r \in known' \ out'.fin
    BY <1>2, <2>1 DEF InTransit
  <2>3. \A r \in Reqs : Live(r)' => r \in (known' \ out'.fin) \cup out'.new
    BY <1>2 DEF InTransit
  <2>4. (out.layout = (\/ \E r \in out.fin \cup out.pre \cup out.resumed : held[r] # NoRow
                       \/ Added(out) # {}))'
    <3>1. out.layout = (\/ \E r \in out.fin \cup out.pre \cup out.resumed : held[r] # NoRow
                        \/ Added(out) # {})
      BY <1>2 DEF InTransit
    <3> QED BY <2>1, <3>1, Zenon
  <2> QED BY <1>2, <2>2, <2>3, <2>4 DEF InTransit
<1> QED BY <1>1, <1>2

(* One step keeps the row invariant, provided that the base scheduler drops
   the report of a preemption when the request is aborted. *)
LEMMA NextRows ==
  ASSUME ~AbortKeepsPreempt, TypeOK, HomeOK, RowInv, [Next]_vars
  PROVE  RowInv'
<1>0. Holders /\ FreeExact /\ InTransit /\ SessionExact /\ NoFault
  BY DEF RowInv
<1>1. ASSUME NEW r \in Reqs, AddRequest(r) PROVE RowInv'
  <2>1. /\ status[r] = "idle"
        /\ \A q \in Reqs \ {r} : status'[q] = status[q] /\ home'[q] = home[q]
        /\ status'[r] = "waiting"
        /\ UNCHANGED <<finPend, prePend, rowOf, free, out, held, known, session, fault>>
    BY <1>1 DEF AddRequest, runnerVars, TypeOK
  <2>2. Running' = Running /\ \A q \in Reqs : Live(q)' <=> Live(q)
    BY <2>1 DEF Running, PartialPrefill, Decoding, Live
  <2>3. r \notin Running
    BY <2>1 DEF Running, PartialPrefill, Decoding
  <2>4. Holders'
    BY <1>0, <2>1, <2>2, <2>3 DEF Holders, TypeOK, Running, PartialPrefill, Decoding
  <2>5. FreeExact' /\ SessionExact' /\ NoFault'
    BY <1>0, <2>1 DEF FreeExact, SessionExact, NoFault
  <2>7. InTransit'
    BY <1>0, <2>1, <2>2, TransitKept
  <2> QED BY <2>4, <2>5, <2>7 DEF RowInv
<1>2. ASSUME NEW r \in Reqs, FinishRequest(r) PROVE RowInv'
  <2>1. /\ \A q \in Reqs \ {r} : status'[q] = status[q] /\ home'[q] = home[q]
        /\ status'[r] = "idle"
        /\ finPend' = finPend \cup {r} /\ prePend' = prePend \ {r}
        /\ UNCHANGED <<rowOf, free, out, held, known, session, fault>>
    BY <1>2 DEF FinishRequest, runnerVars, coordVars, TypeOK
  <2>2. Running' = Running \ {r} /\ \A q \in Reqs : Live(q)' => Live(q) /\ q # r
    BY <2>1 DEF Running, PartialPrefill, Decoding, Live
  <2>4. Holders'
    BY <1>0, <2>1, <2>2 DEF Holders, TypeOK, Running, PartialPrefill, Decoding
  <2>5. FreeExact' /\ SessionExact' /\ NoFault'
    BY <1>0, <2>1 DEF FreeExact, SessionExact, NoFault
  <2>7. InTransit'
    BY <1>0, <2>1, <2>2, TransitKept
  <2> QED BY <2>4, <2>5, <2>7 DEF RowInv
<1>3. CASE ResetPrefixCache
  <2>1. /\ \A q \in Reqs : status'[q] = IF q \in Running THEN "preempted" ELSE status[q]
        /\ prePend' = prePend \cup Running
        /\ UNCHANGED <<home, finPend, rowOf, free, out, held, known, session, fault>>
    BY <1>3 DEF ResetPrefixCache, runnerVars, coordVars
  <2>2. Running' = {} /\ \A q \in Reqs : Live(q)' <=> Live(q)
    BY <2>1 DEF Running, PartialPrefill, Decoding, Live
  <2>3. \A q \in Running : q \in Reqs /\ rowOf[q] # NoRow
    <3>1. \A q \in Running : \E s \in Slots : rowOf[q] = <<home[q], s>>
      BY <1>0 DEF Holders
    <3> QED BY <3>1, NoRowIsNoPair DEF Running, PartialPrefill, Decoding
  <2>4. Holders'
    BY <1>0, <2>1, <2>2, <2>3 DEF Holders, TypeOK
  <2>5. FreeExact' /\ SessionExact' /\ NoFault'
    BY <1>0, <2>1 DEF FreeExact, SessionExact, NoFault
  <2>7. InTransit'
    BY <1>0, <2>1, <2>2, TransitKept
  <2> QED BY <2>4, <2>5, <2>7 DEF RowInv
<1>4. CASE ScheduleStep
  BY <1>4, ScheduleShape, ScheduleRows
<1>5. CASE ExecuteLaneStep
  BY <1>5, ExecuteRows
<1>6. CASE UNCHANGED vars
  <2>1. UNCHANGED <<status, home, finPend, prePend, rowOf, free, out, held, known,
                    session, fault>>
    BY <1>6 DEF vars, schedVars, coordVars, runnerVars
  <2>2. Running' = Running /\ \A q \in Reqs : Live(q)' <=> Live(q)
    BY <2>1 DEF Running, PartialPrefill, Decoding, Live
  <2>3. Kept(out)' = Kept(out) /\ Added(out)' = Added(out)
    BY <2>1 DEF Kept, Added, Drop
  <2>4. Holders' /\ FreeExact' /\ SessionExact' /\ NoFault'
    <3>1. Holders'
      BY <1>0, <2>1, <2>2 DEF Holders, TypeOK
    <3>2. FreeExact' /\ SessionExact' /\ NoFault'
      BY <1>0, <2>1 DEF FreeExact, SessionExact, NoFault
    <3> QED BY <3>1, <3>2
  <2>5. InTransit'
    BY <1>0, <2>1, <2>2, <2>3 DEF InTransit
  <2> QED BY <2>4, <2>5 DEF RowInv
<1> QED BY <1>1, <1>2, <1>3, <1>4, <1>5, <1>6 DEF Next

(* With no request placed, every row is free and no session is open. *)
LEMMA InitRows == Init => RowInv
<1>1. SUFFICES ASSUME Init PROVE RowInv
  OBVIOUS
<1>2. Running = {} /\ \A r \in Reqs : ~Live(r)
  BY <1>1 DEF Init, Running, PartialPrefill, Decoding, Live
<1>3. Holders /\ InTransit /\ NoFault
  BY <1>1, <1>2 DEF Init, Holders, InTransit, NoFault
<1>4. FreeExact
  BY <1>1, NoRowIsNoPair DEF Init, FreeExact
<1>5. SessionExact
  <2>1. \A w \in Rows : w # NoRow
    BY LaneAssumption DEF Rows, NoRow, Lanes, NoLane
  <2> QED BY <1>1, <2>1, LaneAssumption DEF Init, SessionExact
<1> QED BY <1>3, <1>4, <1>5 DEF RowInv

(* The row invariant implies what the runs check. *)
LEMMA RowInvConsequences ==
  TypeOK /\ HomeOK /\ RowInv => NoFault /\ RunnerAgrees /\ RowsExclusive /\ SessionFollowsRow
<1>1. SUFFICES ASSUME TypeOK, HomeOK, RowInv
               PROVE  NoFault /\ RunnerAgrees /\ RowsExclusive /\ SessionFollowsRow
  OBVIOUS
<1>2. NoFault /\ RunnerAgrees
  BY <1>1 DEF RowInv, RunnerAgrees, InTransit
<1>3. RowsExclusive
  <2>1. \A r \in Running : home[r] # NoLane
    <3>1. \A r \in Running : home[r] \in Lanes
      BY <1>1 DEF HomeOK, Running, PartialPrefill, Decoding
    <3> QED BY <3>1, LaneAssumption DEF Lanes, NoLane
  <2> QED BY <1>1, <2>1 DEF RowInv, FreeExact, Holders, RowsExclusive
<1>4. SessionFollowsRow
  BY <1>1 DEF TypeOK, RowInv, SessionExact, SessionFollowsRow
<1> QED BY <1>2, <1>3, <1>4

(* The row invariant holds throughout. *)
LEMMA RowInvHolds ==
  ASSUME ~AbortKeepsPreempt
  PROVE  Spec => [](TypeOK /\ HomeOK /\ RowInv)
<1>1. TypeOK /\ HomeOK /\ RowInv /\ [Next]_vars => (TypeOK /\ HomeOK /\ RowInv)'
  BY NextType, NextRows
<1> QED BY <1>1, InitType, InitRows, PTL DEF Spec

(* No arrival, abort, cache reset, preemption or resume, in any order and for
   any number of lanes and slots, makes the coordinator or the runner raise
   over the rows. *)
THEOREM NeverFaults ==
  ASSUME ~AbortKeepsPreempt
  PROVE  Spec => []NoFault
<1>1. TypeOK /\ HomeOK /\ RowInv => NoFault
  BY DEF RowInv
<1> QED BY <1>1, RowInvHolds, PTL

(* The runner's rows are the coordinator's whenever no step is in transit. *)
THEOREM RunnerAlwaysAgrees ==
  ASSUME ~AbortKeepsPreempt
  PROVE  Spec => []RunnerAgrees
<1>1. TypeOK /\ HomeOK /\ RowInv => RunnerAgrees
  BY RowInvConsequences
<1> QED BY <1>1, RowInvHolds, PTL

(* No row has two holders, no running request leaves its lane, and the free
   lists are exact. *)
THEOREM RowsAlwaysExclusive ==
  ASSUME ~AbortKeepsPreempt
  PROVE  Spec => []RowsExclusive
<1>1. TypeOK /\ HomeOK /\ RowInv => RowsExclusive
  BY RowInvConsequences
<1> QED BY <1>1, RowInvHolds, PTL

(* No request inherits the model session of an earlier occupant of its row. *)
THEOREM SessionsFollowRows ==
  ASSUME ~AbortKeepsPreempt
  PROVE  Spec => []SessionFollowsRow
<1>1. TypeOK /\ HomeOK /\ RowInv => SessionFollowsRow
  BY RowInvConsequences
<1> QED BY <1>1, RowInvHolds, PTL

(* A request that keeps running keeps its row: a step moves only the requests
   it admits. *)
THEOREM RowsAreStable ==
  ASSUME ~AbortKeepsPreempt
  PROVE  Spec => StableRow
<1> DEFINE Kept1 == \A r \in Reqs :
                      status[r] \in {"partial", "decode"} /\ status'[r] \in {"partial", "decode"}
                        /\ rowOf[r] # NoRow => rowOf'[r] = rowOf[r]
<1>1. ASSUME TypeOK, HomeOK, RowInv, [Next]_vars PROVE [Kept1]_vars
  <2>1. CASE rowOf' = rowOf
    BY <2>1
  <2>2. CASE ScheduleStep
    <3>1. PICK d \in BOOLEAN, pre, new, resumed, cached \in SUBSET Reqs :
            Scheduled(d, pre, new, resumed, cached)
      BY <1>1, <2>2, ScheduleShape
    <3>2. Holders /\ FreeExact
      BY <1>1 DEF RowInv
    <3>3. PICK sched, back, rows, slots :
            /\ PlanOf(pre, new, resumed, cached, sched, back, rows, slots)
            /\ \E f \in [new \cup resumed -> Slots] :
                 PlanResult(f, finPend, prePend \cup pre, new, resumed, cached,
                            sched, back, rows, slots)
      BY <1>1, <3>1, <3>2, PlanSucceeds
    <3>4. Newcomers(pre, new, resumed, sched, back, rows)
      BY <1>1, <3>1, <3>2, <3>3, NewcomersAreUnplaced
    <3>5. \A r \in Reqs \ (new \cup resumed) : rowOf'[r] = rows[r]
      BY <3>3 DEF PlanResult
    <3>6. \A r \in Reqs : status[r] \in {"partial", "decode"}
                            /\ status'[r] \in {"partial", "decode"}
                            => r \in Running \ pre /\ r \notin new \cup resumed
      BY <3>1 DEF Scheduled, Running, PartialPrefill, Decoding
    <3>7. \A r \in Running \ pre : r \in Reqs /\ rows[r] = rowOf[r]
      BY <3>3, <3>4 DEF Newcomers, PlanOf, Drop, Running, PartialPrefill, Decoding
    <3> QED BY <3>5, <3>6, <3>7
  <2> QED BY <1>1, <2>1, <2>2 DEF Next, AddRequest, FinishRequest, ResetPrefixCache,
                                  ExecuteLaneStep, coordVars, vars
<1>2. TypeOK /\ HomeOK /\ RowInv /\ [Next]_vars => [Kept1]_vars
  BY <1>1
<1> QED BY <1>2, RowInvHolds, PTL DEF Spec, StableRow

-----------------------------------------------------------------------------
(* The interleave policy. *)

(* One schedule() keeps the waits within what the counters record. *)
LEMMA ScheduleWaits ==
  ASSUME TypeOK, WaitInv,
         NEW d \in BOOLEAN, NEW pre, NEW new, NEW resumed, NEW cached,
         Scheduled(d, pre, new, resumed, cached)
  PROVE  WaitInv'
<1> DEFINE p == PrefillIntent
           w == WantsDecode
<1>1. /\ runs' = RecordStep(runs, d, p)
      /\ decodeWait' = IF d \/ Decoding = {} THEN 0 ELSE decodeWait + 1
      /\ prefillWait' = IF d /\ w THEN prefillWait + 1 ELSE 0
      /\ ~d => p /\ ~w
  BY DEF Scheduled, CloseStep, CountWaits
<1>2. w <=> /\ InterleaveEnabled
            /\ p
            /\ Decoding # {}
            /\ runs.prefill >= PrefillSteps
            /\ runs.decode < DecodeSteps
  BY DEF WantsDecode, WantsDecodeStep
<1>3. /\ runs.prefill \in Nat /\ runs.decode \in Nat
      /\ decodeWait \in Nat /\ prefillWait \in Nat
  BY DEF TypeOK, Runs
<1>4. /\ runs.decode < DecodeSteps
      /\ InterleaveEnabled => decodeWait <= runs.prefill /\ decodeWait <= PrefillSteps
      /\ prefillWait <= runs.decode \/ (runs.prefill = 0 /\ prefillWait <= DecodeSteps)
  BY DEF WaitInv
<1>5. /\ PrefillSteps \in Nat \ {0} /\ DecodeSteps \in Nat \ {0}
      /\ RunCap \in Nat /\ RunCap >= PrefillSteps
  BY InterleaveAssumption
<1> HIDE DEF p, w
<1>6. CASE ~p
  <2>1. d /\ ~w /\ runs' = NoRuns
    BY <1>1, <1>2, <1>6 DEF RecordStep
  <2>2. decodeWait' = 0 /\ prefillWait' = 0
    BY <1>1, <2>1
  <2>3. runs'.decode = 0 /\ runs'.prefill = 0
    BY <2>1 DEF NoRuns
  <2> QED BY <1>5, <2>2, <2>3 DEF WaitInv
<1>7. CASE p /\ d
  <2>3. decodeWait' = 0
    BY <1>1, <1>7
  <2>4. \/ prefillWait' = 0
        \/ prefillWait' = prefillWait + 1 /\ prefillWait <= runs.decode
    <3>1. CASE w
      <4>1. prefillWait' = prefillWait + 1
        BY <1>1, <1>7, <3>1
      <4>2. runs.prefill >= PrefillSteps
        BY <1>2, <3>1
      <4>3. prefillWait <= runs.decode
        BY <1>3, <1>4, <1>5, <4>2
      <4> QED BY <4>1, <4>3
    <3>2. CASE ~w
      BY <1>1, <1>7, <3>2
    <3> QED BY <3>1, <3>2
  <2>1. CASE runs.decode + 1 >= DecodeSteps
    <3>1. runs' = NoRuns
      BY <1>1, <1>7, <2>1 DEF RecordStep
    <3>2. runs.decode + 1 = DecodeSteps
      BY <1>3, <1>4, <1>5, <2>1
    <3>3. runs'.decode = 0 /\ runs'.prefill = 0
      BY <3>1 DEF NoRuns
    <3> QED BY <1>3, <1>5, <2>3, <2>4, <3>2, <3>3 DEF WaitInv
  <2>2. CASE ~(runs.decode + 1 >= DecodeSteps)
    <3>1. runs' = [prefill |-> runs.prefill, decode |-> runs.decode + 1]
      BY <1>1, <1>7, <2>2 DEF RecordStep
    <3>2. runs'.prefill = runs.prefill /\ runs'.decode = runs.decode + 1
      BY <3>1
    <3> QED BY <1>3, <1>5, <2>2, <2>3, <2>4, <3>2 DEF WaitInv
  <2> QED BY <2>1, <2>2
<1>8. CASE p /\ ~d
  <2>1. runs' = [prefill |-> IF runs.prefill < RunCap THEN runs.prefill + 1
                                                      ELSE runs.prefill,
                 decode |-> 0]
    BY <1>1, <1>8 DEF RecordStep
  <2>2. /\ runs'.decode = 0
        /\ runs'.prefill = IF runs.prefill < RunCap THEN runs.prefill + 1
                                                    ELSE runs.prefill
    BY <2>1
  <2>3. prefillWait' = 0 /\ decodeWait' = IF Decoding = {} THEN 0 ELSE decodeWait + 1
    BY <1>1, <1>8
  <2>4. InterleaveEnabled /\ Decoding # {} => runs.prefill < PrefillSteps
    BY <1>1, <1>2, <1>3, <1>4, <1>5, <1>8
  <2> QED BY <1>3, <1>4, <1>5, <2>2, <2>3, <2>4 DEF WaitInv
<1> QED BY <1>6, <1>7, <1>8

(* Every step keeps the waits within what the policy's counters allow. *)
LEMMA NextWaits ==
  ASSUME TypeOK, WaitInv, [Next]_vars
  PROVE  WaitInv'
<1>1. CASE UNCHANGED <<runs, waits>>
  BY <1>1 DEF WaitInv, waits
<1>2. CASE ScheduleStep
  BY <1>2, ScheduleShape, ScheduleWaits
<1> QED BY <1>1, <1>2 DEF Next, AddRequest, FinishRequest, ResetPrefixCache,
                          ExecuteLaneStep, coordVars, vars

(* With interleaving on, no running decode waits for more prefill steps in a
   row than decode_interleave_prefill_steps. *)
THEOREM DecodeStallBounded == Spec => []DecodeStallBound
<1>1. Init => WaitInv
  BY InterleaveAssumption DEF Init, WaitInv, NoRuns
<1>2. TypeOK /\ WaitInv /\ [Next]_vars => WaitInv'
  BY NextWaits
<1>3. WaitInv => DecodeStallBound
  BY DEF WaitInv, DecodeStallBound
<1> QED BY <1>1, <1>2, <1>3, TypeCorrect, PTL DEF Spec

(* The policy never puts more decode steps in a row before pending prefill
   work than decode_interleave_decode_steps. *)
THEOREM PrefillStallBounded == Spec => []PrefillStallBound
<1>1. Init => WaitInv
  BY InterleaveAssumption DEF Init, WaitInv, NoRuns
<1>2. TypeOK /\ WaitInv /\ [Next]_vars => WaitInv'
  BY NextWaits
<1>3. TypeOK /\ WaitInv => PrefillStallBound
  BY InterleaveAssumption DEF TypeOK, Runs, WaitInv, PrefillStallBound
<1> QED BY <1>1, <1>2, <1>3, TypeCorrect, PTL DEF Spec

=============================================================================
