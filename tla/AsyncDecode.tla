----------------------------- MODULE AsyncDecode -----------------------------
(***************************************************************************)
(* Overlapped decoding outside lane mode: the scheduler's output frames    *)
(* and reset discards, the runner's persistent state, the async decode     *)
(* controller with its pending and completed queues, the device-resident   *)
(* decode inputs, and the two threads that resolve a step.  The engine     *)
(* loop is vLLM's step_with_batch_queue with two steps in the queue; it    *)
(* and the base scheduler are external.                                    *)
(*                                                                         *)
(* A token is its position in the request's output when it was computed    *)
(* from the right inputs, and 0 otherwise.  The model speaks version 1 of  *)
(* the reload contract, keeps decode inputs resident under a trace, and    *)
(* serves a draftless step of a speculating launch as a plain decode.      *)
(* Page tables, logits, grammar and failing submissions are left out.      *)
(***************************************************************************)
EXTENDS Naturals, FiniteSets, SequencesExt

CONSTANTS
  Reqs,             \* request ids, never reused
  HostSampled,      \* requests whose sampling needs the host
  Speculable,       \* requests drafted for ({}: the launch does not speculate)
  Chunked,          \* requests whose prompt may take two prefill steps
  SeparateOutput,   \* whether the executor resolves steps on a thread of its own
  MaxTokens,        \* tokens after which a request stops by itself
  MaxDisruptions    \* bound on aborts, preemptions and resets together

ASSUME ReqsAssumption ==
  /\ IsFiniteSet(Reqs)
  /\ HostSampled \subseteq Reqs
  /\ Speculable \subseteq Reqs
  /\ Chunked \subseteq Reqs
ASSUME OutputAssumption == SeparateOutput \in BOOLEAN
ASSUME BoundsAssumption == MaxTokens \in Nat \ {0} /\ MaxDisruptions \in Nat

QueueSize == 2                \* batch_queue_size
Ids == 1 .. QueueSize + 2     \* queued, being built, popped but not applied

VARIABLES
  \* scheduler
  status, hist,     \* request phase, and the tokens delivered for it
  stale, drop,      \* num_stale_output_tokens in steps, drop_stale_output
  frames,           \* _pending_async_output_frames
  discards,         \* _pending_forced_reset_discard_counts
  finPend,          \* finished ids not yet reported to the runner
  \* runner
  known, batch,     \* keys of requests, members of the persistent batch
  slotted,          \* keys of _req_state_slot
  layoutChanged,    \* _decode_layout_changed_since_last_decode
  app,              \* output_token_ids of the cached request state
  proposed,         \* _proposed_draft_token_ids: the token a draft continues
  accepted,         \* requests with _req_accepted_counts above one
  \* controller
  chain,            \* _decode_chain_valid and the _previous_* flags
  pending,          \* _pending_async_steps with _pending_async_overlap_ok
  completed,        \* _completed_decode_steps
  \* device and engine
  resident,         \* the token a batched row holds for its next decode
  step,             \* steps by id: what was submitted, output, stage
  queue,            \* batch queue, oldest first
  cur, pc,          \* step in execute_model, and where the engine is
  disruptions,      \* disruptions so far
  fault             \* the raise the engine died on

streams == <<status, hist>>
schedVars == <<streams, stale, drop, frames, discards, finPend>>
batchVars == <<known, batch, slotted, layoutChanged>>
specVars == <<proposed, accepted>>
controlVars == <<chain, pending, completed>>
runnerVars == <<batchVars, app, specVars, controlVars, resident>>
engineVars == <<queue, cur, pc>>
vars == <<schedVars, runnerVars, step, engineVars, disruptions, fault>>

Statuses == {"new", "waiting", "partial", "running", "preempted", "done"}
Kinds == {"none", "prefill", "decode", "verify"}
Stages == {"submitted", "queued", "resolved"}
NoCounts == [r \in Reqs |-> 0]
NoOutput == [r \in Reqs |-> <<>>]
FreeStep == [kind |-> "none", sched |-> {}, rows |-> {}, out |-> NoOutput, stage |-> "resolved"]
NoStep == [id |-> 0, kind |-> "none", sched |-> {}, rows |-> {}, new |-> {}, resumed |-> {},
           fin |-> {}, pre |-> {}, disc |-> NoCounts]

Init ==
  /\ status = [r \in Reqs |-> "new"]
  /\ hist = NoOutput
  /\ stale = NoCounts
  /\ drop = [r \in Reqs |-> FALSE]
  /\ frames = NoCounts
  /\ discards = NoCounts
  /\ finPend = {}
  /\ known = {}
  /\ batch = {}
  /\ slotted = {}
  /\ layoutChanged = TRUE
  /\ app = NoOutput
  /\ proposed = NoCounts
  /\ accepted = {}
  /\ chain = [valid |-> FALSE, device |-> FALSE, verified |-> FALSE, hostAnswered |-> FALSE]
  /\ pending = <<>>
  /\ completed = <<>>
  /\ resident = NoCounts
  /\ step = [i \in Ids |-> FreeStep]
  /\ queue = <<>>
  /\ cur = NoStep
  /\ pc = "idle"
  /\ disruptions = 0
  /\ fault = "none"

Speculates == Speculable # {}

(* Steps nobody refers to any more are forgotten. *)
Kept(s, used) == [i \in Ids |-> IF i \in used THEN s[i] ELSE FreeStep]
PendingIds == {pending[i].id : i \in DOMAIN pending}
UsedIds == PendingIds \cup ToSet(queue) \cup ToSet(completed)

Disrupt == disruptions < MaxDisruptions /\ disruptions' = disruptions + 1

-----------------------------------------------------------------------------
(* Requests come and go between the engine's steps. *)

Live(r) == status[r] \notin {"new", "done"}

AddRequest(r) ==
  /\ pc = "idle" /\ status[r] = "new"
  /\ status' = [status EXCEPT ![r] = "waiting"]
  /\ UNCHANGED <<hist, stale, drop, frames, discards, finPend, runnerVars, step, engineVars,
                 disruptions, fault>>

(* Aborts are taken between steps and while the loop waits for a result. *)
Abort(r) ==
  /\ pc \in {"idle", "pop"} /\ Live(r) /\ Disrupt
  /\ status' = [status EXCEPT ![r] = "done"]
  /\ finPend' = finPend \cup {r}
  /\ UNCHANGED <<hist, stale, drop, frames, discards, runnerVars, step, engineVars, fault>>

InFlight(r) == Cardinality({i \in DOMAIN queue : r \in step[queue[i]].sched})

(* num_output_placeholders: frames reserved since the last preemption. *)
Placeholders(r) == frames[r] > stale[r]

(* Mutant: steps are counted where frames are meant. *)
ResetDiscardsSteps(r) == InFlight(r)

(* The frames a reset of r leaves for the runner to discard. *)
ResetDiscards(r) == IF Placeholders(r) THEN frames[r] ELSE 0

(* reset_prefix_cache(reset_running_requests=True): everything that runs is
   preempted in drop mode, and its frames in flight are not to be applied. *)
ResetPrefixCache ==
  LET hit == {r \in Reqs : status[r] \in {"running", "partial"}}
  IN  /\ pc = "idle" /\ hit # {} /\ Disrupt
      /\ status' = [r \in Reqs |-> IF r \in hit THEN "preempted" ELSE status[r]]
      /\ stale' = [r \in Reqs |-> IF r \in hit THEN InFlight(r) ELSE stale[r]]
      /\ drop' = [r \in Reqs |-> r \in hit \/ drop[r]]
      /\ discards' = [r \in Reqs |-> discards[r] + IF r \in hit THEN ResetDiscards(r) ELSE 0]
      /\ UNCHANGED <<hist, frames, finPend, runnerVars, step, engineVars, fault>>

-----------------------------------------------------------------------------
(* The scheduler.  A step is prefill or decode, never both. *)

HasRequests == finPend # {} \/ \E r \in Reqs : Live(r)

(* A preempted request with results still to be delivered waits for them. *)
Prefillable ==
  {r \in Reqs : \/ status[r] \in {"waiting", "partial"}
                \/ status[r] = "preempted" /\ (stale[r] = 0 \/ drop[r])}

(* A request whose results in flight end it is not scheduled further. *)
Decodable ==
  {r \in Reqs : status[r] = "running" /\ (InFlight(r) = 0 \/ Len(hist[r]) + 1 < MaxTokens)}

(* _update_after_schedule: every row that produces output reserves a frame. *)
FramesReserved(rows) == [r \in Reqs |-> frames[r] + IF r \in rows THEN 1 ELSE 0]

(* Preempted by a reset, and not resumed. *)
ResetPreempted == {r \in Reqs : status[r] = "preempted" /\ drop[r]}

(* The scheduler output; what finished since the last step is handed over once.
   What a reset preempted is reported with the pass's own preemptions, and again
   until it resumes, by when the runner has nothing left of it to release. *)
Publish(kind, sched, rows, pre) ==
  /\ cur' = [id |-> CHOOSE i \in Ids : i \notin UsedIds,
             kind |-> kind, sched |-> sched, rows |-> rows,
             new |-> {r \in sched : status[r] = "waiting"},
             resumed |-> {r \in sched : status[r] = "preempted"},
             fin |-> finPend, pre |-> pre \cup ResetPreempted, disc |-> discards]
  /\ frames' = FramesReserved(rows)
  /\ finPend' = {}
  /\ discards' = NoCounts
  /\ pc' = "preflight"
  /\ UNCHANGED <<hist, runnerVars, step, queue, fault>>

SchedulePrefill ==
  /\ pc = "idle" /\ Len(queue) < QueueSize
  /\ \E sched \in (SUBSET Prefillable) \ {{}} :
       \E chunk \in SUBSET {r \in sched \cap Chunked : status[r] # "partial"} :
         /\ Publish("prefill", sched, sched \ chunk, {})
         /\ status' = [r \in Reqs |-> IF r \in chunk THEN "partial"
                                      ELSE IF r \in sched THEN "running" ELSE status[r]]
  /\ UNCHANGED <<stale, drop, disruptions>>

(* A decode pass may preempt; a pass that comes out empty counts only when
   no prefill waits.  Preempted requests owe the results in flight, which
   stay valid. *)
ScheduleDecode ==
  /\ pc = "idle" /\ Len(queue) < QueueSize /\ HasRequests
  /\ \E pre \in SUBSET {r \in Reqs : status[r] = "running"} :
       LET sched == Decodable \ pre
       IN  /\ sched # {} \/ Prefillable = {}
           /\ IF pre = {} THEN UNCHANGED disruptions ELSE Disrupt
           /\ Publish(IF sched = {} THEN "none" ELSE "decode", sched, sched, pre)
           /\ status' = [r \in Reqs |-> IF r \in pre THEN "preempted" ELSE status[r]]
           /\ stale' = [r \in Reqs |-> IF r \in pre THEN InFlight(r) ELSE stale[r]]
           /\ drop' = [r \in Reqs |-> drop[r] /\ r \notin pre]

-----------------------------------------------------------------------------
(* Before the batch changes: may the next step be built over what is still
   in flight, or must that be read back first? *)

(* steady_decode_scheduler_invariants_met. *)
SteadyCandidate ==
  /\ cur.kind # "prefill"
  /\ ~layoutChanged
  /\ chain.valid /\ chain.device
  /\ batch = cur.sched
  /\ batch \cap HostSampled = {}

(* _next_step_verifies, over given proposals and accepted counts. *)
NextVerifies(prop, acc) ==
  /\ Speculates /\ pending # <<>>
  /\ cur.sched \subseteq Speculable
  /\ \E r \in cur.sched : prop[r] # 0 \/ r \in acc

(* Mutant: what is pending is not asked whether it tolerates company. *)
MustDrainForNext ==
  /\ pending # <<>>
  /\ \/ cur.disc # NoCounts
     \/ ~SteadyCandidate
     \/ NextVerifies(proposed, accepted)

(* must_drain_pending_async_steps. *)
MustDrain ==
  /\ pending # <<>>
  /\ \/ cur.disc # NoCounts
     \/ ~SteadyCandidate
     \/ \E i \in DOMAIN pending : ~pending[i].overlapOk
     \/ NextVerifies(proposed, accepted)

Preflight ==
  /\ pc = "preflight"
  /\ pc' = IF MustDrain THEN "wait" ELSE "update"
  /\ UNCHANGED <<schedVars, runnerVars, step, queue, cur, disruptions, fault>>

(* Mutant: the drain waits for the events and resolves nothing itself. *)
WaitForEvents ==
  /\ pc \in {"wait", "waitAgain"}
  /\ \A i \in DOMAIN pending : step[pending[i].id].stage = "resolved"
  /\ pc' = IF pc = "wait" THEN "update" ELSE "prune"
  /\ UNCHANGED <<schedVars, runnerVars, step, queue, cur, disruptions, fault>>

(* wait_for_all_pending_async_steps: finalise the oldest unresolved step, and
   block while the output thread is inside it. *)
WaitForPending ==
  /\ pc \in {"wait", "waitAgain"}
  /\ LET open == {i \in DOMAIN pending : step[pending[i].id].stage # "resolved"}
         id   == pending[CHOOSE i \in open : \A j \in open : i <= j].id
     IN  IF open = {}
         THEN /\ pc' = IF pc = "wait" THEN "update" ELSE "prune"
              /\ UNCHANGED <<step, completed>>
         ELSE /\ step[id].stage = "submitted"
              /\ step' = [step EXCEPT ![id].stage = "resolved"]
              /\ completed' = Append(completed, id)
              /\ UNCHANGED pc
  /\ UNCHANGED <<schedVars, batchVars, app, specVars, chain, pending, resident, queue, cur,
                 disruptions, fault>>

(* Pending steps that are left once resolved ones are taken from the front. *)
Pruned ==
  LET open == {i \in DOMAIN pending : step[pending[i].id].stage # "resolved"}
  IN  IF open = {} THEN <<>>
      ELSE SubSeq(pending, CHOOSE i \in open : \A j \in open : i <= j, Len(pending))

(* _update_states; the pruning that begins the first apply follows at once. *)
UpdateStates ==
  /\ pc = "update"
  /\ known' = (known \ cur.fin) \cup cur.new
  /\ slotted' = slotted \ (cur.fin \cup cur.pre)
  /\ batch' = cur.sched
  /\ layoutChanged' = (layoutChanged \/ batch # cur.sched)
  /\ app' = [r \in Reqs |-> IF r \in cur.fin THEN <<>> ELSE app[r]]
  /\ pending' = Pruned
  /\ pc' = "apply"
  /\ UNCHANGED <<schedVars, specVars, chain, completed, resident, step, queue, cur,
                 disruptions, fault>>

(* The pruning that begins the second apply. *)
PruneAgain ==
  /\ pc = "prune"
  /\ pending' = Pruned
  /\ pc' = "applyAgain"
  /\ UNCHANGED <<schedVars, batchVars, app, specVars, chain, completed, resident, step, queue,
                 cur, disruptions, fault>>

-----------------------------------------------------------------------------
(* Applying completed results, oldest first. *)

Discarding == IF pc = "apply" THEN cur.disc ELSE NoCounts

(* Results published for r from position i of the completed queue on. *)
ResultsFrom(i, r) ==
  Cardinality({j \in i .. Len(completed) : step[completed[j]].out[r] # <<>>})

(* Mutant: the discard count takes the oldest results. *)
SkippedOldest(i) ==
  cur.fin \cup {r \in Reqs : /\ step[completed[i]].out[r] # <<>>
                             /\ ResultsFrom(1, r) - ResultsFrom(i + 1, r) <= Discarding[r]}

(* Requests of the i-th result that keep their state as it is: finished ones,
   and those whose newest results a reset discards. *)
Skipped(i) ==
  cur.fin \cup {r \in Reqs : /\ step[completed[i]].out[r] # <<>>
                             /\ ResultsFrom(i, r) <= Discarding[r]}

Applied(r) ==
  app[r] \o FlattenSeq([i \in DOMAIN completed |->
                          IF r \in Skipped(i) THEN <<>> ELSE step[completed[i]].out[r]])

MissingResults == \E r \in Reqs : ResultsFrom(1, r) < Discarding[r]
UnknownRequest ==
  \E i \in DOMAIN completed :
    /\ step[completed[i]].kind # "verify"
    /\ ~(step[completed[i]].rows \ Skipped(i) \subseteq known)

(* Requests whose results of the given kinds reach the runner's state. *)
AppliedFor(kinds) ==
  UNION {step[completed[i]].rows \ Skipped(i) :
           i \in {j \in DOMAIN completed : step[completed[j]].kind \in kinds}}

(* _apply_committed_spec_tokens_to_state: who has more than one accepted. *)
AcceptedAfter ==
  LET committed == AppliedFor({"verify"}) \cap (batch \cup slotted)
      many == {r \in committed : \E i \in DOMAIN completed :
                 /\ step[completed[i]].kind = "verify" /\ r \notin Skipped(i)
                 /\ Len(step[completed[i]].out[r]) > 1}
  IN  (accepted \ committed) \cup many

(* Every applied decode proposes anew, or erases, for rows in the batch. *)
ProposedAfter(drafted) ==
  [r \in Reqs |-> IF ~Speculates \/ r \notin AppliedFor({"decode", "verify"}) \cap batch
                  THEN proposed[r]
                  ELSE IF r \in drafted THEN Len(Applied(r)) ELSE 0]

(* Mutant: results are not taken back. *)
ScrubbedNone(s) == s

(* Late results of finished requests are taken back from the output. *)
Scrubbed(s) ==
  [i \in Ids |-> IF i \in ToSet(completed)
                 THEN [s[i] EXCEPT !.out = [r \in Reqs |-> IF r \in cur.fin THEN <<>> ELSE @[r]]]
                 ELSE s[i]]

(* Mutant: a proposal made while applying is not looked at. *)
AfterApplySubmit(prop, acc) == "submit"

(* apply_completed_decode_steps_before_build looks once more for a verify. *)
AfterApply(prop, acc) ==
  IF pc = "apply" /\ NextVerifies(prop, acc) THEN "waitAgain" ELSE "submit"

ApplyCompleted ==
  /\ pc \in {"apply", "applyAgain"}
  /\ IF MissingResults \/ UnknownRequest
     THEN /\ fault' = IF MissingResults THEN "missing_results" ELSE "unknown_request"
          /\ pc' = "failed"
          /\ UNCHANGED <<app, specVars, completed, step>>
     ELSE \E drafted \in SUBSET (Speculable \cap AppliedFor({"decode", "verify"}) \cap batch) :
            /\ app' = [r \in Reqs |-> Applied(r)]
            /\ proposed' = ProposedAfter(drafted)
            /\ accepted' = AcceptedAfter
            /\ step' = Kept(Scrubbed(step), PendingIds \cup ToSet(queue))
            /\ completed' = <<>>
            /\ pc' = AfterApply(proposed', accepted')
            /\ UNCHANGED fault
  /\ UNCHANGED <<schedVars, batchVars, chain, pending, resident, queue, cur, disruptions>>

-----------------------------------------------------------------------------
(* Building and submitting. *)

DeviceSampling == cur.sched \cap HostSampled = {}

(* _drafts_to_verify and _step_verifies. *)
Drafted == {r \in cur.sched : Speculates /\ proposed[r] # 0}
Verifies ==
  /\ Speculates /\ cur.sched \subseteq Speculable
  /\ Drafted # {} \/ cur.sched \cap accepted # {}

(* plan_decode_reload: the decode starts a new chain of resident inputs. *)
Transition ==
  \/ ~chain.valid \/ layoutChanged \/ chain.device # DeviceSampling
  \/ (chain.verified \/ chain.hostAnswered) /\ ~Verifies

ReloadInputs == Verifies \/ ~DeviceSampling \/ Transition

(* can_use_steady_decode_fast_path: overlap_safe is no reload of any kind. *)
Steady == DeviceSampling /\ ~layoutChanged /\ ~ReloadInputs

(* The token a forward produces after the given history, and after the
   resident token. *)
AfterHistory(s) == IF s = [i \in DOMAIN s |-> i] THEN Len(s) + 1 ELSE 0
AfterResident(t) == IF t = 0 THEN 0 ELSE t + 1

(* A request reads the resident inputs at its row, which a layout change may
   have given to another. *)
FirstToken(r) ==
  IF cur.kind = "decode" /\ ~ReloadInputs
  THEN IF layoutChanged THEN 0 ELSE AfterResident(resident[r])
  ELSE AfterHistory(app[r])

Tokens(first, n) == [i \in 1 .. n |-> IF first = 0 THEN 0 ELSE first + i - 1]

(* What the resident inputs hold after a decode.  Only a plain decode that
   ran on the device writes them, and feeds back its token if it sampled. *)
ResidentAfter(hostAnswered) ==
  IF Verifies \/ hostAnswered
  THEN [r \in Reqs |-> IF layoutChanged THEN 0 ELSE resident[r]]
  ELSE [r \in Reqs |-> IF r \notin cur.sched THEN 0
                       ELSE IF DeviceSampling THEN FirstToken(r) ELSE Len(app[r])]

(* The queue takes the step; the loop rests if it has room and the oldest
   result is not in yet, else it turns to the oldest. *)
Enqueue(s, st) ==
  /\ queue' = Append(queue, cur.id)
  /\ step' = [step EXCEPT ![cur.id] =
                [kind |-> st.kind, sched |-> cur.sched, rows |-> cur.rows, out |-> st.out,
                 stage |-> st.stage]]
  /\ cur' = NoStep
  /\ LET oldest == step'[Head(queue')]
         async  == oldest.kind \in {"decode", "verify"}
     IN  \/ Len(queue') < QueueSize /\ cur.sched # {} /\ async /\ pc' = "idle"
         \/ /\ Len(queue') = QueueSize \/ cur.sched = {} \/ oldest.stage = "resolved"
            /\ pc' = "pop"

(* Nothing was scheduled: no forward runs. *)
SubmitNothing ==
  /\ pc = "submit" /\ cur.kind = "none"
  /\ Enqueue(step, [kind |-> "none", out |-> NoOutput, stage |-> "resolved"])
  /\ UNCHANGED <<schedVars, runnerVars, disruptions, fault>>

(* A prefill runs and samples at once; its final rows join the completed
   queue.  It invalidates the resident chain and the accepted counts. *)
SubmitPrefill ==
  /\ pc = "submit" /\ cur.kind = "prefill"
  /\ Enqueue(step, [kind |-> "prefill", stage |-> "resolved",
                    out |-> [r \in Reqs |-> IF r \in cur.rows THEN <<FirstToken(r)>> ELSE <<>>]])
  /\ completed' = IF cur.rows = {} THEN completed ELSE Append(completed, cur.id)
  /\ chain' = [chain EXCEPT !.valid = FALSE]
  /\ resident' = NoCounts
  /\ accepted' = accepted \ cur.sched
  /\ slotted' = slotted \cup cur.sched
  /\ UNCHANGED <<schedVars, known, batch, layoutChanged, app, proposed, pending, disruptions,
                 fault>>

OverlapOk(hostAnswered) == Steady /\ ~hostAnswered

(* submit_async_decode: a verify commits up to its draft and one more; a
   drafter may answer a plain decode from the host. *)
SubmitDecode ==
  /\ pc = "submit" /\ cur.kind = "decode"
  /\ \E width \in [Drafted -> 1 .. 2], hostAnswered \in {FALSE, Speculates /\ ~Verifies} :
       LET n(r) == IF Verifies /\ r \in Drafted THEN width[r] ELSE 1
       IN  /\ Enqueue(step, [kind |-> IF Verifies THEN "verify" ELSE "decode",
                             stage |-> "submitted",
                             out |-> [r \in Reqs |-> IF r \in cur.sched
                                                     THEN Tokens(FirstToken(r), n(r)) ELSE <<>>]])
           /\ resident' = ResidentAfter(hostAnswered)
           /\ chain' = [valid |-> TRUE, device |-> DeviceSampling, verified |-> Verifies,
                        hostAnswered |-> hostAnswered]
           /\ pending' = Append(pending, [id |-> cur.id,
                                          overlapOk |-> ~Verifies /\ OverlapOk(hostAnswered)])
  /\ layoutChanged' = FALSE
  /\ proposed' = [r \in Reqs |-> IF r \in cur.sched THEN 0 ELSE proposed[r]]
  /\ accepted' = IF Verifies THEN accepted ELSE accepted \ cur.sched
  /\ UNCHANGED <<schedVars, known, batch, slotted, app, completed, disruptions, fault>>

-----------------------------------------------------------------------------
(* Where the executor has an output thread, it resolves steps in submission
   order; otherwise the engine does when it takes the result. *)

Outstanding == {i \in DOMAIN queue : step[queue[i]].stage # "resolved"}
Oldest == queue[CHOOSE i \in Outstanding : \A j \in Outstanding : i <= j]

OutputQueues ==
  /\ SeparateOutput /\ Outstanding # {} /\ step[Oldest].stage = "submitted"
  /\ step' = [step EXCEPT ![Oldest].stage = "queued"]
  /\ completed' = Append(completed, Oldest)
  /\ UNCHANGED <<schedVars, batchVars, app, specVars, chain, pending, resident, engineVars,
                 disruptions, fault>>

OutputSetsEvent ==
  /\ Outstanding # {} /\ step[Oldest].stage = "queued"
  /\ step' = [step EXCEPT ![Oldest].stage = "resolved"]
  /\ UNCHANGED <<schedVars, runnerVars, engineVars, disruptions, fault>>

ResolveAtPop ==
  /\ pc = "pop" /\ ~SeparateOutput /\ queue # <<>> /\ step[Head(queue)].stage = "submitted"
  /\ step' = [step EXCEPT ![Head(queue)].stage = "resolved"]
  /\ completed' = Append(completed, Head(queue))
  /\ UNCHANGED <<schedVars, batchVars, app, specVars, chain, pending, resident, engineVars,
                 disruptions, fault>>

-----------------------------------------------------------------------------
(* The scheduler takes the oldest result. *)

Rest ==
  /\ pc = "idle" /\ ~HasRequests /\ queue # <<>>
  /\ pc' = "pop"
  /\ UNCHANGED <<schedVars, runnerVars, step, queue, cur, disruptions, fault>>

(* Tokens of r the scheduler takes from a step's output: none for a finished
   request, none while results of a reset are being dropped, and no more
   than the request may still have. *)
Delivered(s, r) ==
  IF ~Live(r) \/ (stale[r] > 0 /\ drop[r]) THEN <<>>
  ELSE SubSeq(s.out[r], 1, Min({Len(s.out[r]), MaxTokens - Len(hist[r])}))

(* Mutant: a frame is released for every step scheduled. *)
FramesPerStep(s) ==
  [r \in Reqs |-> IF r \in s.sched /\ frames[r] > 0 THEN frames[r] - 1 ELSE frames[r]]

(* tt_release_output_frames. *)
FramesAfter(s) ==
  [r \in Reqs |-> IF r \in s.rows /\ frames[r] > 0 THEN frames[r] - 1 ELSE frames[r]]

(* update_from_output; any token may be the one that ends its request. *)
UpdateFromOutput ==
  LET s   == step[Head(queue)]
      got == [r \in Reqs |-> Delivered(s, r)]
      may == {r \in Reqs : got[r] # <<>>}
  IN  /\ pc = "pop" /\ queue # <<>> /\ s.stage = "resolved"
      /\ \E atFirst \in SUBSET may, atLast \in SUBSET may :
           LET upTo == [r \in Reqs |-> IF r \in atFirst THEN <<Head(got[r])>> ELSE got[r]]
               ends == {r \in may : \/ r \in atFirst \cup atLast
                                    \/ Len(hist[r]) + Len(got[r]) = MaxTokens}
           IN  /\ hist' = [r \in Reqs |-> hist[r] \o upTo[r]]
               /\ status' = [r \in Reqs |-> IF r \in ends THEN "done" ELSE status[r]]
               /\ finPend' = finPend \cup ends
      /\ stale' = [r \in Reqs |-> IF r \in s.sched /\ stale[r] > 0 THEN stale[r] - 1 ELSE stale[r]]
      /\ frames' = FramesAfter(s)
      /\ queue' = Tail(queue)
      /\ step' = Kept(step, PendingIds \cup ToSet(completed) \cup ToSet(Tail(queue)))
      /\ pc' = "idle"
      /\ UNCHANGED <<drop, discards, runnerVars, cur, disruptions, fault>>

-----------------------------------------------------------------------------
Engine ==
  \/ SchedulePrefill \/ ScheduleDecode \/ Preflight \/ WaitForPending \/ UpdateStates
  \/ PruneAgain \/ ApplyCompleted \/ SubmitNothing \/ SubmitPrefill \/ SubmitDecode
  \/ Rest \/ ResolveAtPop \/ UpdateFromOutput
OutputThread == OutputQueues \/ OutputSetsEvent
Clients == ResetPrefixCache \/ \E r \in Reqs : AddRequest(r) \/ Abort(r)

Next == Engine \/ OutputThread \/ Clients

Spec == Init /\ [][Next]_vars

(* Both threads keep running; clients owe nothing. *)
FairSpec == Spec /\ WF_vars(Engine) /\ WF_vars(OutputThread)

-----------------------------------------------------------------------------
TypeOK ==
  /\ status \in [Reqs -> Statuses]
  /\ hist \in [Reqs -> Seq(0 .. MaxTokens)]
  /\ stale \in [Reqs -> 0 .. QueueSize]
  /\ drop \in [Reqs -> BOOLEAN]
  /\ frames \in [Reqs -> 0 .. QueueSize]
  /\ discards \in [Reqs -> 0 .. QueueSize]
  /\ finPend \cup known \cup batch \cup slotted \cup accepted \subseteq Reqs
  /\ layoutChanged \in BOOLEAN
  /\ app \in [Reqs -> Seq(Nat)]
  /\ proposed \in [Reqs -> Nat]
  /\ resident \in [Reqs -> Nat]
  /\ chain \in [valid: BOOLEAN, device: BOOLEAN, verified: BOOLEAN, hostAnswered: BOOLEAN]
  /\ \A i \in DOMAIN pending : pending[i] \in [id: Ids, overlapOk: BOOLEAN]
  /\ ToSet(completed) \cup ToSet(queue) \subseteq Ids
  /\ Len(queue) <= QueueSize
  /\ \A i \in Ids : step[i].kind \in Kinds /\ step[i].stage \in Stages
  /\ pc \in {"idle", "preflight", "wait", "update", "apply", "waitAgain", "prune",
             "applyAgain", "submit", "pop", "failed"}

(* The raises of the apply path are out of reach: a reset never asks for more
   results than have been read back, and no result names a request the runner
   does not know. *)
NoFault == fault = "none"

Stream == INSTANCE TokenStream WITH finished <- {r \in Reqs : status[r] = "done"}

(* Overlap, drafting, preemption and resets do not show in the tokens: what a
   request is delivered is the model's continuation of its own history. *)
StreamKept == Stream!Spec

(* Tokens of r in the i-th step in flight, and those of them all that the
   scheduler will still take. *)
InQueue(r, i) == IF i \in DOMAIN queue THEN Len(step[queue[i]].out[r]) ELSE 0
Owed(r) == IF stale[r] > 0 /\ drop[r] THEN 0 ELSE InQueue(r, 1) + InQueue(r, 2)

(* Every forward starts from the right token, host input or resident one: the
   one after what r was delivered and is still owed. *)
InputsCurrent ==
  pc = "submit" /\ cur.kind # "none" =>
    \A r \in cur.sched : FirstToken(r) = Len(hist[r]) + Owed(r) + 1

(* A step is submitted over an outstanding one only if it is a steady plain
   decode and the outstanding one allows it; a verify or a prefill never is
   (_overlapped_unsafe_submissions stays zero). *)
OverlapsOnlySteady ==
  pc = "submit" /\ cur.kind # "none" /\ pending # <<>> =>
    /\ cur.kind = "decode" /\ Steady
    /\ \A i \in DOMAIN pending : pending[i].overlapOk

(* Once the runner has been told that r finished, no result of r waits for
   the scheduler. *)
LateResultsWithdrawn ==
  \A r \in Reqs : status[r] = "done" /\ r \notin finPend \cup cur.fin =>
    \A i \in DOMAIN queue : step[queue[i]].out[r] = <<>>

(* The frame counts a reset reads are the frames not yet returned. *)
FramesOutstanding ==
  \A r \in Reqs :
    frames[r] = Cardinality({i \in DOMAIN queue : r \in step[queue[i]].rows})
                + IF r \in cur.rows THEN 1 ELSE 0

(* A draft is verified at the position it was drafted for
   (_publish_draft: an entry nothing rewrote would be verified against a
   token the request has already moved past). *)
DraftsContinueTail ==
  pc = "submit" /\ cur.kind = "decode" /\ Verifies =>
    \A r \in Drafted : proposed[r] = Len(app[r])

(* Every request that arrives finishes. *)
RequestsFinish == \A r \in Reqs : status[r] = "waiting" ~> status[r] = "done"

=============================================================================
