-------------------------- MODULE FrontPackedRunner --------------------------
(***************************************************************************)
(* The model runner outside lane mode.  Its persistent batch is packed to  *)
(* the front, so a request's row changes as others leave; its recurrent    *)
(* state stays in a device slot, which only a decode's gather moves.  The  *)
(* runner keeps a map from request to slot, allocates slots to prefills,   *)
(* asks each decode for the gather that brings states to their rows, and   *)
(* commits the new map once the model has accepted that decode.            *)
(*                                                                         *)
(* device and session belong to the model adapter and are external: whose  *)
(* state a slot holds, and which request its session was opened for.  A    *)
(* released state, and the one an earlier chunk left elsewhere, count as   *)
(* gone: nobody may read them.                                             *)
(* Row i of the code is position i + 1 of batch.                           *)
(***************************************************************************)
EXTENDS TTScheduler, Sequences

CONSTANT DecodeMayRaise   \* whether decode_forward may raise

ASSUME RunnerAssumption == DecodeMayRaise \in BOOLEAN

NumSlots == MaxNumSeqs
Slots == 0 .. NumSlots - 1
NoSlot == -1
NoReq == "none"

VARIABLES
  known,           \* keys of requests
  batch,           \* the persistent batch: request ids by row
  reqKv,           \* generations in the request's cached block_ids
  rowKv,           \* generations in the block-table row of a batched request
  slotOf,          \* _req_state_slot
  settle,          \* _pending_state_slot_settle (<<>>: None)
  moves,           \* _pending_state_slot_moves (<<>>: None)
  layoutChanged,   \* _decode_layout_changed_since_last_decode
  submit,          \* the built decode's gather, until it is submitted
  device,          \* adapter: the request whose state a slot holds
  session,         \* adapter: the request a slot's session is open for
  fault            \* the raise the engine died on

None == <<>>
batchVars == <<known, batch, reqKv, rowKv>>
slotVars == <<slotOf, settle, moves, layoutChanged>>
adapterVars == <<device, session>>
vars == <<schedVars, out, batchVars, slotVars, submit, adapterVars, fault>>

Faults == {"unknown_request", "no_free_slot", "no_slot_for_decode", "not_a_permutation"}

Init ==
  /\ SchedInit
  /\ known = {}
  /\ batch = <<>>
  /\ reqKv = [r \in Reqs |-> {}]
  /\ rowKv = [r \in Reqs |-> {}]
  /\ slotOf = [r \in Reqs |-> NoSlot]
  /\ settle = None
  /\ moves = None
  /\ layoutChanged = TRUE
  /\ submit = None
  /\ device = [s \in Slots |-> NoReq]
  /\ session = [s \in Slots |-> NoReq]
  /\ fault = "none"

-----------------------------------------------------------------------------
(* _update_states. *)

Rows(b) == {b[i] : i \in DOMAIN b}
Sched(o) == o.new \cup o.resumed \cup o.cached

(* Rows taken out of the batch: finished requests, then the unscheduled. *)
Removed(o) == Rows(batch) \cap (o.fin \cup (Reqs \ Sched(o)))

(* Rows put into it: new requests, and cached ones that are not there. *)
AddedRows(o) == o.new \cup ((o.resumed \cup o.cached) \ (Rows(batch) \ Removed(o)))

(* The batch after removing and adding requests, added in any order.  They
   take the lowest holes first, then the end; condense fills a hole that is
   left with the last row, so survivors move only from beyond the new end. *)
Repacked(old, removed, added) ==
  LET keep == {i \in DOMAIN old : old[i] \notin removed}
      n    == Cardinality(keep) + Cardinality(added)
      From(r) == CHOOSE i \in keep : old[i] = r
  IN  {b \in [1 .. n -> {old[i] : i \in keep} \cup added] :
         /\ \A i, j \in 1 .. n : b[i] = b[j] => i = j
         /\ \A i \in keep : i <= n => b[i] = old[i]
         /\ \A i, j \in (1 .. n) \ keep : i < j =>
              /\ b[j] \in added => b[i] \in added
              /\ b[i] \notin added => From(b[i]) > From(b[j])}

(* The slots of the requests whose sessions _release_model_request ends. *)
ReleasedSlots(o) == {slotOf[r] : r \in o.fin \cup o.pre}

(* Mutant: a request the step merely leaves out loses its slot. *)
LiveSlotsScheduled(o) ==
  [r \in Reqs |-> IF r \in o.fin \cup o.pre \cup (Reqs \ Sched(o)) THEN NoSlot ELSE slotOf[r]]

(* Mutant: a preempted request keeps its slot until it resumes. *)
LiveSlotsPreempted(o) == [r \in Reqs |-> IF r \in o.fin THEN NoSlot ELSE slotOf[r]]

(* _release_dead_state_slots: what is left of the slot map. *)
LiveSlots(o) == [r \in Reqs |-> IF r \in o.fin \cup o.pre THEN NoSlot ELSE slotOf[r]]

(* Mutant: a resume appends its block ids. *)
ReqKvAppended(o) ==
  [r \in Reqs |-> IF r \in o.new THEN {kvGen[r]}
                  ELSE IF r \in o.resumed \cup o.cached THEN reqKv[r] \cup {kvGen[r]}
                  ELSE IF r \in o.fin THEN {} ELSE reqKv[r]]

(* apply_cached_req_state_update: a resume replaces the block ids. *)
ReqKvAfter(o) ==
  [r \in Reqs |-> IF r \in o.new \cup o.resumed THEN {kvGen[r]}
                  ELSE IF r \in o.cached THEN reqKv[r] \cup {kvGen[r]}
                  ELSE IF r \in o.fin THEN {} ELSE reqKv[r]]

(* The block-table rows: an added row is a copy of the request's ids, and a
   row that stayed has the step's new ids appended, resumed or not. *)
RowKvAfter(o) ==
  [r \in Reqs |-> IF r \in AddedRows(o) THEN ReqKvAfter(o)[r]
                  ELSE IF r \in Removed(o) THEN {}
                  ELSE IF r \in o.resumed \cup o.cached THEN rowKv[r] \cup {kvGen[r]}
                  ELSE rowKv[r]]

(* Mutant: the flag tells only of the last step. *)
LayoutChangedLast(o) == Removed(o) \cup AddedRows(o) # {}

(* The flag is sticky: a prefill step's change waits for the next decode. *)
LayoutChanged(o) == layoutChanged \/ Removed(o) \cup AddedRows(o) # {}

UpdateStates(o) ==
  /\ batch' \in Repacked(batch, Removed(o), AddedRows(o))
  /\ known' = (known \ o.fin) \cup o.new
  /\ reqKv' = ReqKvAfter(o)
  /\ rowKv' = RowKvAfter(o)
  /\ layoutChanged' = LayoutChanged(o)

(* What the adapter keeps after the release_request calls of _update_states. *)
Unreleased(o, kept) ==
  [s \in Slots |-> IF s \in ReleasedSlots(o) THEN NoReq ELSE kept[s]]

-----------------------------------------------------------------------------
(* Building and submitting the step. *)

(* Mutant: only the requests of this step are respected. *)
HeldNone(rows, live) == {}

(* Slots of live requests the prefill leaves out. *)
Held(rows, live) == {live[q] : q \in known' \ Rows(rows)} \ {NoSlot}

(* _alloc_prefill_state_slots: row after row, its own number if that is
   free, else the lowest free slot.  Empty when a row finds none. *)
PrefillSlots(rows, live) ==
  {f \in [DOMAIN rows -> Slots] :
     \A i \in DOMAIN rows :
       LET taken == Held(rows, live) \cup {f[j] : j \in 1 .. i - 1} IN
       /\ f[i] \notin taken
       /\ i - 1 \notin taken => f[i] = i - 1
       /\ i - 1 \in taken => \A s \in Slots \ taken : f[i] <= s}

(* prefill_forward writes each row's state into its slot; the last chunk of
   a prompt opens the session there. *)
ExecutePrefill(o) ==
  LET rows == batch' live == LiveSlots(o) IN
  /\ \/ /\ PrefillSlots(rows, live) = {}
        /\ fault' = "no_free_slot"
        /\ UNCHANGED <<slotOf, device, session>>
     \/ \E f \in PrefillSlots(rows, live) :
          LET Into(s) == {i \in DOMAIN rows : f[i] = s} IN
          /\ slotOf' = [r \in Reqs |-> IF r \in Rows(rows)
                          THEN f[CHOOSE i \in DOMAIN rows : rows[i] = r] ELSE live[r]]
          /\ device' = [s \in Slots |->
               IF Into(s) # {} THEN rows[CHOOSE i \in Into(s) : TRUE]
               ELSE IF device[s] \in Rows(rows) THEN NoReq ELSE Unreleased(o, device)[s]]
          /\ session' = [s \in Slots |->
               IF \E i \in Into(s) : rows[i] \in o.final
                 THEN rows[CHOOSE i \in Into(s) : TRUE] ELSE Unreleased(o, session)[s]]
          /\ UNCHANGED fault
  /\ out' = NoStep
  /\ UNCHANGED <<settle, moves, submit>>

(* Row i reads slot remap[i]; the slots no row reads keep their order. *)
Remaps(rows, live) ==
  {m \in [Slots -> Slots] :
     /\ \A i \in DOMAIN rows : m[i - 1] = live[rows[i]]
     /\ \A i, j \in Slots : m[i] = m[j] => i = j
     /\ \A i, j \in Len(rows) .. NumSlots - 1 : i < j => m[i] < m[j]}

Identity(m) == \A s \in Slots : m[s] = s

(* Mutant: the map is moved along the gather, not against it. *)
GatheredForward(m, live) ==
  [r \in Reqs |-> IF live[r] = NoSlot THEN NoSlot ELSE m[live[r]]]

(* The map once the gather m has run, the requests off the batch included. *)
Gathered(m, live) ==
  [r \in Reqs |-> IF live[r] = NoSlot THEN NoSlot
                  ELSE CHOOSE s \in Slots : m[s] = live[r]]

(* _decode_state_slot_remap only proposes the new map. *)
Propose(m, live) ==
  IF Identity(m) THEN settle' = None /\ moves' = None
                 ELSE settle' = Gathered(m, live) /\ moves' = m

BuildDecode(o) ==
  LET rows == batch' live == LiveSlots(o) IN
  /\ slotOf' = live
  /\ session' = Unreleased(o, session)
  /\ device' = Unreleased(o, device)
  /\ \/ /\ \E r \in Rows(rows) : live[r] = NoSlot
        /\ fault' = "no_slot_for_decode"
        /\ UNCHANGED <<settle, moves, submit>>
     \/ /\ \A r \in Rows(rows) : live[r] # NoSlot
        /\ Remaps(rows, live) = {}
        /\ fault' = "not_a_permutation"
        /\ UNCHANGED <<settle, moves, submit>>
     \/ /\ \A r \in Rows(rows) : live[r] # NoSlot
        /\ \E m \in Remaps(rows, live) : Propose(m, live) /\ submit' = m
        /\ UNCHANGED fault
  /\ UNCHANGED out

(* Nothing scheduled: the step ends after the bookkeeping. *)
SkipStep(o) ==
  /\ slotOf' = LiveSlots(o)
  /\ session' = Unreleased(o, session)
  /\ device' = Unreleased(o, device)
  /\ out' = NoStep
  /\ UNCHANGED <<settle, moves, submit, fault>>

ExecuteModel ==
  /\ out # NoStep /\ submit = None
  /\ IF (out.resumed \cup out.cached) \subseteq known \ out.fin
       THEN /\ UpdateStates(out)
            /\ IF Sched(out) = {} THEN SkipStep(out)
               ELSE IF out.decode THEN BuildDecode(out) ELSE ExecutePrefill(out)
       ELSE /\ fault' = "unknown_request"
            /\ UNCHANGED <<out, batchVars, slotVars, submit, adapterVars>>
  /\ UNCHANGED schedVars

(* Mutant: the adapter is not told of the moves. *)
SettleWithoutNotice ==
  /\ slotOf' = IF settle = None THEN slotOf ELSE settle
  /\ settle' = None
  /\ moves' = None
  /\ UNCHANGED session

(* note_decode_state_slots_settled: commit the map, then tell the adapter,
   whose sessions follow (note_state_slots_moved). *)
Settle ==
  /\ slotOf' = IF settle = None THEN slotOf ELSE settle
  /\ settle' = None
  /\ moves' = None
  /\ session' = IF moves = None THEN session ELSE [s \in Slots |-> session[moves[s]]]

(* The model accepts the decode: it has gathered the states. *)
DecodeAccepted ==
  /\ submit # None
  /\ device' = [s \in Slots |-> device[submit[s]]]
  /\ layoutChanged' = FALSE
  /\ Settle
  /\ submit' = None
  /\ out' = NoStep
  /\ UNCHANGED <<schedVars, batchVars, fault>>

(* Mutant: the map is committed though the gather never ran. *)
RefusedButSettled ==
  /\ DecodeMayRaise
  /\ submit # None
  /\ submit' = None
  /\ out' = NoStep
  /\ Settle
  /\ UNCHANGED <<schedVars, batchVars, layoutChanged, device, fault>>

(* decode_forward raises: neither the gather nor the commit happens. *)
DecodeRefused ==
  /\ DecodeMayRaise
  /\ submit # None
  /\ submit' = None
  /\ out' = NoStep
  /\ UNCHANGED <<schedVars, batchVars, slotVars, adapterVars, fault>>

RunnerNext == ExecuteModel \/ DecodeAccepted \/ DecodeRefused

Next ==
  /\ fault = "none"
  /\ \/ SchedNext /\ UNCHANGED <<batchVars, slotVars, submit, adapterVars, fault>>
     \/ RunnerNext

Spec == Init /\ [][Next]_vars

-----------------------------------------------------------------------------
(* Properties. *)

TypeOK ==
  /\ SchedTypeOK
  /\ known \in SUBSET Reqs
  /\ Rows(batch) \subseteq Reqs /\ Len(batch) <= NumSlots
  /\ reqKv \in [Reqs -> SUBSET Gens]
  /\ rowKv \in [Reqs -> SUBSET Gens]
  /\ slotOf \in [Reqs -> Slots \cup {NoSlot}]
  /\ settle \in [Reqs -> Slots \cup {NoSlot}] \cup {None}
  /\ moves \in [Slots -> Slots] \cup {None}
  /\ submit \in [Slots -> Slots] \cup {None}
  /\ layoutChanged \in BOOLEAN
  /\ fault \in Faults \cup {"none"}

(* No sequence of arrivals, aborts, preemptions, cache resets and refused
   decodes reaches the raises of the request lookup, of
   _alloc_prefill_state_slots or of _decode_state_slot_remap. *)
NoFault == fault = "none"

(* Between steps the slot map names, for every request that decodes, the slot
   that holds its state, however often decodes
   moved it and prefills of others ran meanwhile. *)
StateFollowsRequest ==
  out = NoStep => \A r \in Decoding :
    slotOf[r] # NoSlot /\ device[slotOf[r]] = r

(* A decode that is about to be submitted gathers to every row the state of
   the request in that row. *)
DecodeReadsOwnState ==
  submit # None => \A i \in DOMAIN batch :
    device[submit[i - 1]] = batch[i]

(* The adapter's sessions and the runner's slot map name the same requests,
   so a release by slot ends the session of that request and no other, and
   no session outlives its request's slot. *)
SessionsMatchSlots ==
  out = NoStep =>
    /\ \A s \in Slots : session[s] # NoReq => slotOf[session[s]] = s
    /\ \A r \in Decoding : session[slotOf[r]] = r

(* A slot is claimed only by a request that runs or whose end or preemption
   has still to be reported: no claim leaks, so allocation cannot run dry. *)
NoSlotLeak ==
  out = NoStep => \A r \in Reqs :
    slotOf[r] # NoSlot => r \in Running \cup finPend \cup prePend

(* A change of the rows is announced to the next decode, whatever prefill or
   empty steps come in between: only a decode the model accepted retires it. *)
LayoutChangeAnnounced ==
  [][/\ batch' # batch => layoutChanged'
     /\ layoutChanged /\ ~layoutChanged' => submit # None /\ submit' = None]_vars

(* The block table of a batched request is its cached block ids, and between
   steps those of a running one are the blocks it owns: the model never
   addresses blocks the scheduler took back. *)
RowBlocksCurrent ==
  \A i \in DOMAIN batch :
    /\ rowKv[batch[i]] = reqKv[batch[i]]
    /\ out = NoStep /\ batch[i] \in Running => reqKv[batch[i]] = {kvGen[batch[i]]}

=============================================================================
