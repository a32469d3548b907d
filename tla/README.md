# Formal models of vllm-tt-plugin

TLA+ modules, TLC configurations and TLAPS proofs for the parts of
`vllm_tt_plugin` that decide *which request runs when, in which device row, with
whose state*. Paths below are relative to the repository root.

The plugin runs inside vLLM's engine core: a scheduler builds a
`SchedulerOutput`, the model runner applies it to a persistent batch, a model
adapter executes it on the device. Both sides keep their own copy of the same
facts (rows, slots, block tables, finished requests), and only the scheduler
output connects them. On this hardware a row or slot also holds device-resident
recurrent state, so a disagreement is silent corruption of another request's
output. That is what most of the properties here are about.

## 1. Inventory

| Component | Code | State it keeps | Operations | What makes it correct |
|---|---|---|---|---|
| Decode interleave policy | `scheduler.py` `TTDecodeInterleavePolicy` | two counters | decide, record | neither decode nor prefill stalls beyond its bound |
| Default-mode scheduler | `scheduler.py` `TTScheduler` | vLLM queues, finished and preempted ids, discard counts, block-step and speculative decisions | schedule (prefill-only, decode-only, fallback), add, finish, reset, update from output | one phase per step; nothing drained by a discarded pass is lost; each result is applied to the step it belongs to |
| Lane coordinator | `lane_scheduler.py` `TTLaneCoordinator` | request→lane, request→row, free slots per lane, one interleave policy | same interface, fanned out over one `TTScheduler` per lane | rows exclusive, in their lane, stable while running; free lists exact |
| Lane input batch | `input_batch.py` `TTLaneInputBatch` | request→row on the runner | `apply_step_plan` | the same rows as the coordinator; a model session ends before its row is reused |
| Front-packed runner state | `model_runner.py`, `input_batch.py` | persistent batch, cached request states, block-table rows, request→slot map, proposed map | `_update_states`, prefill allocation, decode gather, commit | state follows its request through compaction and gathers, also when a decode is refused |
| Async decode controller | `async_decode.py` | pending and completed queues, deferred outputs, resident-input contract | submit, finalise, drain, discard | each readback finalised once; results in order; late results dropped |
| Decode reload contract | `async_decode.py`, `model_runner.py` | what the device's resident inputs contain | plan, commit | a steady decode never reads inputs the host changed |
| Block output and session mirror | `scheduler.py` | per-request step decisions, session mirror, reservations | repair and clamp a request, decide, reserve, commit | a decision is consumed by the step it was made for; the mirror is the model's session |
| Speculative decoding in the runner | `spec_decode.py`, `spec_admission.py`, `model_runner.py` | plan, published drafts, accepted counts | admit a launch and a request, build a verify or a plain step, walk, propose | controls hold whatever shares a step; counts name the model's candidate state |
| Speculative accept walk | `spec_accept.py` | none | accept | the emitted tokens are what one-token decoding would emit, with the same distribution |
| Prefix-cache routing | `prefix_routing.py` | mirror of each rank's cache, queued prefill | route, record, clear | credit only for what a rank was sent |
| Platform configuration | `platform.py`, `config.py` | the vLLM configuration, rewritten | check, rewrite, pair a scheduler, in two processes | what is admitted serves; the second run changes nothing |
| Admission handle | `platform.py` | weak reference to a configuration | check another engine in | the requests of a live block engine meet its own contract |
| Chunked prefill | `scheduler.py` | per-request progress | round a chunk down to the model's grid | prompts advance, and resume on a block or the grid |
| Stage outputs | `stage_outputs.py`, `scheduler.py`, `platform.py`, `model_runner.py` | frames published per request | pop, admit a pool, guard resets and pauses | no request with frames is preempted; its frames come in order, none missing |
| Worker | `worker.py` | KV pool size, fitted context | size, fit | every block has its pages |
| Loader, launcher, registry, discovery | several | process state | start-up, I/O | – |

**Interactions.** Engine core → scheduler: `add_request`, `finish_requests`,
`reset_prefix_cache`, `schedule`. Scheduler → runner: the `SchedulerOutput`
(with the lane step plan in lane mode). Runner → adapter: `prefill_forward`,
`decode_forward`, `release_request`, `note_state_slots_moved`. Adapter → runner:
a readback that the engine thread or an output thread finalises.

**What is hard here.** A finish report reaches the runner one step after the
scheduler dropped the request; a prefill pass that schedules nothing has already
drained those reports; a forced cache reset preempts all running requests at
once; requests may resume in the very step that reports their preemption; the
batch compacts while device state stays in place; a decode may raise after its
slot map was prepared; asynchronous results arrive after their request ended.
`PROJECT.json` lists each hazard at its line with the properties that cover it,
or the reason none does yet.

## 2. Modules

```
DecodeInterleave           the policy as operators on a record
 ├─ LaneCoordinator        lane-DP: coordinator + lane schedulers + lane batch
 │    ├─ MCLaneCoordinator      instances for TLC
 │    └─ LaneCoordinatorProofs  theorems for every instance
 └─ TTScheduler            one scheduler in DEFAULT mode
      └─ FrontPackedRunner      with the non-lane model runner
           ├─ MCFrontPacked           instances for TLC
           └─ FrontPackedRunnerProofs theorems for every batch

DeferredOutput             one deferred readback, raced for by threads
 └─ DeferredOutputProofs   theorems for every set of threads
TokenStream                abstract: what decoding promises a client
 ↑ implemented by
AsyncDecode                overlapped decoding, from frames to resident inputs
 └─ AsyncDecodeProofs      theorems for any requests, lengths and disruptions

BlockOutput                block decisions, reservations, the session mirror
 └─ BlockOutputProofs      theorems for every width, tile and length
SpecAccept                 the accept walk of a verify
SpecServing                a launch that speculates, from plan to tokens
LaunchConfig               from an operator's flags to a scheduler that serves
ProcessAdmission           engines sharing a process, and the admission handle
PrefixRouting              data-parallel routing by the mirror
ChunkedPrefill             chunks rounded to the alignment grid
 └─ ChunkedPrefillProofs   theorems about the rounding, and about the queues
StageFrames                requests that cannot resume, and their frames
Subsequences               parts of a sequence, for the last three
SubsequencesProofs         lemmas on numbers, sets and sequences
PartsProofs                theorems about SpecAccept, SpecServing, LaunchConfig,
                           ProcessAdmission, PrefixRouting and StageFrames
MCParts                    these seven and BlockOutput, instances for TLC
```

### DecodeInterleave
`TTDecodeInterleavePolicy`. `WantsDecodeStep` is `wants_decode_step`,
`RecordStep` is `record_step`; the two counters travel as a record because there
is one policy per scheduler and one in the coordinator. The prefill counter is
stopped at `RunCap >= PrefillSteps`; it is only compared with `PrefillSteps`, so
no decision changes.

### LaneCoordinator
Lane schedulers, coordinator, and the runner's lane batch in one module, because
the properties relate the three.

| Model | Code |
|---|---|
| `status`, `home` | the queues of each lane's `TTScheduler`: waiting, preempted-and-waiting, running with prompt left (`partial`), running on output (`decode`) |
| `finPend`, `prePend` | ids the base schedulers will report in their next output |
| `laneOf`, `rowOf`, `free`, `runs` | `_req_to_lane`, `_req_to_row`, `_free_slots_by_lane`, the coordinator's policy |
| `out` | the merged output and its step plan between `schedule()` and `execute_model()` |
| `held`, `known` | the lane batch's `req_id_to_index`, the runner's `requests` |
| `session` | whose state the adapter keeps for a row (external) |
| `fault` | which `raise` the engine died on |
| `decodeWait`, `prefillWait` | history counters, for the stall bounds only |

Actions: `AddRequest` (with `PickLane`, the score with ties to the lowest lane,
or any lane when prefix routing may override it), `FinishRequest`,
`ResetPrefixCache`, `SchedulePrefill`, `ScheduleFallback`, `ScheduleDecode` (each
with the whole tail of `schedule()`, `BuildStepPlan` included), and
`ExecuteLaneStep` (`apply_step_plan` plus the layout assertion). Arrivals, aborts
and resets may fall between a schedule and its execution. A row is a pair
`<<lane, slot>>`, for the code's `lane * per_lane + slot`.

### TTScheduler
`schedule()` in DEFAULT mode: prefill first, the interleave policy, the
prefill-only pass with decodes hidden, the fallback to decode with the carried
events, the decode-only pass. What vLLM's base pass decides from token budgets
and free blocks is `BasePass`: it may advance, admit and preempt any requests the
caps allow, and it does not admit in a pass in which it preempted. KV blocks
appear as a *generation* per request that changes whenever its blocks are freed;
`KvGens` bounds how many are told apart. Scheduler events happen only between
steps (`out = NoStep`): with the executors `platform.py` admits, `schedule()` and
`execute_model()` alternate on the engine thread in synchronous mode.

### FrontPackedRunner
Extends `TTScheduler` with the model runner outside lane mode.

| Model | Code |
|---|---|
| `batch` | the persistent batch by row (code row `i` is position `i + 1`) |
| `known`, `reqKv` | `requests` and their `block_ids` |
| `rowKv` | the block-table row of a batched request |
| `slotOf` | `_req_state_slot` |
| `settle`, `moves` | `_pending_state_slot_settle`, `_pending_state_slot_moves` |
| `layoutChanged` | `_decode_layout_changed_since_last_decode` |
| `submit` | the gather of a built decode that is not yet accepted |
| `device`, `session` | adapter: whose state a slot holds, for whom a session is open (external) |

`ExecuteModel` is `_update_states` followed by one of: nothing scheduled, a
prefill (`_alloc_prefill_state_slots`, then the adapter writes state and opens
the session on a final chunk), or a decode built but not submitted
(`_decode_state_slot_remap`). `DecodeAccepted` is the device's gather with
`note_decode_state_slots_settled`, `DecodeRefused` is `decode_forward` raising.
`Repacked` states what removal, filling of holes and `condense` do to the batch,
for every order of additions. A state that was released, or left behind in an
old slot by an earlier chunk, counts as gone.

### DeferredOutput
`DeferredDecodeOutput.ensure_finalized`, one action per shared access: the
unlocked look at `_finalized`, taking the lock, the second look, the readback
(which may raise), queueing the completion, the two writes of the `finally`
block, releasing the lock, `_replay`. Any number of threads calls it any number
of times; in the code these are the executor's output thread and the engine
thread's drain.

### TokenStream and AsyncDecode
`TokenStream` is the promise to a client: the delivered tokens of a request only
grow, each is the model's continuation of those before it, and a finished
request gets no more. `AsyncDecode` implements it (`StreamKept ==
Stream!Spec`). It is one module for the scheduler's asynchronous book-keeping,
the front-packed runner, the async decode controller, the device's resident
inputs and the engine loop, because its properties relate all of them.

A token is written as its position in the output if it was computed from the
right inputs, and as 0 otherwise: a forward from host inputs yields
`Len + 1` when the host history is gapless, a forward from resident inputs yields
one more than the resident token of its row. So a lost, repeated or misplaced
token shows as a stream that is not `1, 2, 3, …`.

| Model | Code |
|---|---|
| `status`, `hist`, `stale`, `drop` | base scheduler: request phase, tokens delivered, stale outputs owed and whether they are dropped (external) |
| `frames`, `discards`, `finPend` | `_pending_async_output_frames`, `_pending_forced_reset_discard_counts`, finished ids for the next output |
| `known`, `batch`, `slotted`, `layoutChanged`, `app` | `requests`, persistent batch, `_req_state_slot` keys, layout flag, `output_token_ids` |
| `proposed`, `accepted` | `_proposed_draft_token_ids` (by the position it continues), requests whose `_req_accepted_counts` exceeds one |
| `chain` | `_decode_chain_valid` and the three `_previous_*` flags |
| `pending`, `completed` | `_pending_async_steps` with `_pending_async_overlap_ok`, `_completed_decode_steps` |
| `resident` | the device's token per batched row |
| `step`, `queue`, `cur`, `pc` | steps by id, the engine's batch queue, the step in `execute_model`, where the engine is |

An engine step runs `Schedule…` → `Preflight` (`must_drain_pending_async_steps`)
→ `WaitForPending` → `UpdateStates` → `ApplyCompleted`
(`apply_ready_completed_decode_steps`) → perhaps a second wait and apply
(`apply_completed_decode_steps_before_build`) → `Submit…`, which also puts the
step in the engine's queue; `UpdateFromOutput` takes the oldest result. The
output thread (`OutputQueues`, `OutputSetsEvent`) runs between any two of these.
Its two actions are the two visible effects of `ensure_finalized`; that they
happen once and in this order is what `DeferredOutput` shows. A result carries a
set of drafts of one or two tokens, so a verify may accept or reject.

### BlockOutput
A scheduler that serves a block-output model: plain (one request, synchronous,
a whole block on every step) or adaptive (a block only for the request that
decodes alone and owns the model's session; one token per request otherwise),
the latter also with two steps in flight. A request that arrives without the
front end's validation is repaired first.

| Model | Code |
|---|---|
| `prompt`, `limit` | the request after `_repair_unvalidated_block_request` |
| `reserved`, `computed`, `emitted` | `num_output_placeholders`, `num_computed_tokens`, output tokens |
| `inflight[i].block` | the decisions a step carries from `_update_after_schedule` to `update_from_output` |
| `owner` | `_spec_session_owner`, moved by `_mirror_spec_session` |
| `session` | the model's own session (external), which learns of an end one step later |

`Submit` is the whole of `_update_after_schedule`, `Commit` of
`update_from_output` with `_update_request_with_output` and its four raises;
`FinishRequests` includes the reset that aborts all that runs, since a block
cannot be resumed.

### SpecAccept
`accept_speculated_tokens` for one row, from the columns' logits to the committed
tokens. Weights are integers, so that "same distribution" is an equation; the
model's weights, the penalty and the grammar are stand-ins that depend on their
history, because *which history a column reads* is what the code has to get
right. `Score` builds the verify with its controls, `Accept` walks and commits.
The reference, `PlainLogits`, is the ordinary one-token sampler.

### SpecServing
`resolve_speculative_plan`, request admission, and per step: which drafts are
taken (`_drafts_to_verify`), whether the step is declined (`_spec_decode_rows`),
a verify (`_step_verifies`) and in which mode (`_spec_mode_for_step`), what each
row commits and what is published for the next step. Drafts are counted, not
named. `svState` is the number of candidate states the model holds for a row;
`svUnmet` collects the controls a commit went without. A plan also says where ordinary
steps are sampled, and whether the device applies penalties and returns logprobs. How many drafts a drafter
offers and a walk accepts comes from `SvAmounts`, the bound of its runs.

### LaunchConfig and ProcessAdmission
`LaunchConfig` has the platform hook as two operators, `Refused` (the raises) and
`Updated` (the rewrites), applied in the front end (`Configure`) and again in
the engine on its own output (`Reconfigure`); then `FitContext` (KV pool and
length) and `BuildScheduler`. A configuration is a record of the flags the hook
reads, a model a record of what it declares; `LcConfs` and `LcCaps` are all of them.

`ProcessAdmission` has the hook's effect on `_tt_vllm_config`: the handle is
cleared on entry, restored when the hook raises and set at its end. It is weak,
so the life of a configuration (`paLife`) matters: an engine that is gone may
still be named until its configuration is collected.

### PrefixRouting
`route_dp_request` with `pick_prefix_cache_target`, `PrefixCacheMirror` and the
reset that clears it. A block is named by the prompt prefix it ends, which is
what the hash chain stands for. `prSent` is history: all an engine was sent since
the last reset. Clearing the mirror and resetting the engines is one action: in
the code a request routed between the two leaves a record of a cache that is
gone, which costs time only. `Targets` is every choice the rule may come to: where the
balancer's scan starts (`eng_start_index`) and what KV usage adds to each engine's score
belong to vLLM and are free.

### ChunkedPrefill
Prefill steps over token counts: `AlignedChunk` is `_align_prefill_chunk_end`,
`Chunk` the caps before it, `Walked` the base scheduler's walk (external), a function
along the queues. A launch has any alignment, budget and threshold that
`_validate_prefill_chunk_alignment` lets start (`CpInit`): alignments that are not whole KV
blocks are among them, since nothing checks that. A prompt with multimodal features is in
`cpFeatured`, and its chunks end anywhere. `Within` and `Picked` of `Subsequences` say what a queue keeps.

### StageFrames
Requests of a model with `supports_stage_outputs`, which publish a frame per
decode step and could not rebuild the frames after a preemption. Four places of
the code keep them from one, and the module relates the four:

| Model | Code |
|---|---|
| `PoolHolds` | `_require_kv_for_every_sequence`, at the scheduler's construction |
| `PrefillCap`, `StagePrefill`, `StageDecode` | the lowered caps and the hidden queues of the split `schedule()`; `Allocated` is the base scheduler's walk with its block allocation (external) |
| `EngineAborts`, `ResetStageCache` | `reset_prefix_cache_tt`: aborts and tells the clients, where the engine can |
| `RefusesReset`, `KeepPause` | the scheduler's guard behind it, the pause guard before it |
| `Execute` | the runner's raise on a reported preemption, `pop_tt_stage_outputs` |

A request's blocks follow from its computed tokens. Any step may be a decode step:
the interleave policy has a module of its own.

## 3. What the runs check

| Run | Instance | Shows |
|---|---|---|
| `lane_rows` | 2 lanes × 2 slots, 3 requests, any routing | no raise, coordinator = runner between steps, no inherited session, free lists exact, rows exclusive, a running request never moves |
| `lane_engine` | 1 lane × 2 slots, 2 requests, bounds 2/2, fairness | both documented stall bounds; the row of an ended request comes back |
| `front_slots` | 2 slots, 3 requests, resets, refusals | no raise, no leaked slot, decodes read their own state though gathers were refused, layout changes announced |
| `front_gather` | 3 slots, 3 requests, 2 generations, no reset, no refusal | state follows its request through gathers that are cycles; sessions match slots; block tables hold the blocks owned |
| `deferred_output` | 3 threads, a readback that may raise, fairness | one read, one outcome for all, completion queued before the event, every call returns |
| `async` | 2 speculable requests, one sampled on the host with a chunked prompt, 5 tokens, 2 disruptions | no raise in the apply path, late results withdrawn, frame counts exact, every forward starts from the right token, only steady plain decodes overlap, `TokenStream` implemented |
| `async_live` | no output thread, 2 requests, 4 tokens, fairness | every request finishes: no drain waits for an event nobody sets |
| `lane_reset_abort` | violation | finding 1 |
| `front_reset_blocks` | violation | finding 2 |
| `async_stale_draft` | violation | finding 3 |
| `parts` | eight machines side by side, see below | each module's properties: `NoFault`, `ReservedIsOwed`, `MirrorAgrees`, `CanvasFits` (BlockOutput), `CommitsAsPlain`, `KeepsDistribution` (SpecAccept), `ServedFaithfully`, `StepsAreServed` (SpecServing), `AdmittedServes` (LaunchConfig), `ContractIsLive` (ProcessAdmission), `CreditIsSent` (PrefixRouting), `ChunksAdvance` (ChunkedPrefill), `FramesUnbroken` (StageFrames) |
| `admission` | violation | finding 4 |

**Eight machines in one run.** `BlockOutput`, `SpecAccept`, `SpecServing`,
`LaunchConfig`, `ProcessAdmission`, `PrefixRouting`, `ChunkedPrefill` and
`StageFrames` share no variable. `MCParts` lets the initial state choose the one
that moves, while the others stand in one initial state of theirs: the run visits
the union of eight state spaces, not their product. No instance differs from what a
run of its own would have; they count about 620 000 states together. `BlockOutput`:
three requests on two places, a width of three on tiles of two, prompts empty,
fitting and too long, limits absent, not whole and too large. `SpecAccept`: two
drafts, four tokens, every pair of controls. `SpecServing`: two requests, every kind
of control, plans that differ from a base in one respect or two. `LaunchConfig`:
seven launches, each changed in up to two declarations or flags, which is where two
checks meet. `ProcessAdmission`: two block and two one-token engines.
`PrefixRouting`: two engines of one place, prompts that share and that do not,
a mirror that forgets after two blocks, the balancer's scan from either engine, KV
pressure on either or none. `ChunkedPrefill`: a grid of two blocks, one that is not made
of blocks, and none, text and multimodal prompts,
budgets on and off the grid, with and without a threshold. `StageFrames`: three
requests on two places, prompts of one chunk and of two, a pool that holds two
whole requests exactly and one a block short, engines with and without the notifier.

**Bounds.** One request more than a lane or a batch has slots makes every
admission that must wait happen, and with it every reuse of a row by another
request; with routing left open all three may meet in one lane, or be spread over
both. That active caps below the slots change nothing is left to the proofs, which
hold for all of them. Two slots make every gather its own inverse, so a map moved in the wrong
direction would not show: hence the run with three. `front_gather` takes no
resets and no refusals, which `front_slots` has; a decode whose gather was refused and is
repeated is checked there (`DecodeReadsOwnState`), and for any number of slots proved
(section 4). Two KV generations tell freed
blocks from new ones. Interleave bounds of 2/2 tell an off-by-one from a missing
reset; where only the phase order matters they are 1/1. Requests are
interchangeable in the lane and front-packed modules (no order on ids is used),
so symmetry is used in their safety runs and, for two of the requests, in `parts`, not
in the liveness runs;
in the asynchronous runs the requests differ.

`QueueSize` is two, the depth at which the engine's batch queue runs for
asynchronous scheduling, so at most one step is outstanding while the next is
built; step ids are recycled, four being enough for two queued, one being built
and one taken but not applied. `MaxTokens` has to reach five, for a request to
have a prefill, a first decode that reloads, and two decodes of which the second
overlaps the first steadily, and one more to follow it; a verify of two tokens then
fits beside a plain decode. `MaxDisruptions` bounds aborts, preemptions
and resets together; two let a reset follow a preemption whose results are still
in flight. Three threads in `deferred_output` are one more than the code has: a
second waiter for the lock.

**Fairness.** `FairSpec` assumes weak fairness of scheduling and of executing a
scheduled step. The engine core's loop steps while a request is unfinished or a
finish is unreported, and executes each step it scheduled. No fairness is
assumed of arrivals, aborts or resets, nor that a base pass makes progress.
`DeferredOutput` assumes that a thread inside `ensure_finalized` keeps running,
and nothing about who gets the lock. `AsyncDecode` assumes that the engine loop
and the output thread keep running; in `async_live` there is no output thread
(`SeparateOutput = FALSE`, vLLM's uniprocess executor resolves a step when its
result is taken), which is the case in which waiting for events would hang.

Deadlock is checked in the lane, front-packed and deferred-output runs: an idle
engine can always receive a request, so a state without successor would be a
`fault`. It is not checked in the asynchronous runs, whose requests are finite
in number and never return, nor in `parts` and `admission`, where a launch ends
refused or serving and an engine ends: the system stops when all is done.

## 4. What is proved

`LaneCoordinatorProofs` proves, for every set of requests, number of lanes and
slots, and interleave bounds: `TypeCorrect`, `NeverFaults`, `RunnerAlwaysAgrees`,
`RowsAlwaysExclusive`, `SessionsFollowRows`, `RowsAreStable`,
`DecodeStallBounded`, `PrefillStallBounded`.

Assumptions: `LaneAssumption` and `InterleaveAssumption` (finite requests,
positive sizes, active cap at most the slots). The five theorems about rows also
assume `~AbortKeepsPreempt`; finding 1 is what happens without it.

**The argument.** `RowsExclusive` and `NoFault` are not inductive: that a free
slot exists when a request is placed depends on who may hold a row at all. The
strengthening `RowInv` has four parts.
- `Holders`: running requests hold a row of their lane; a held row belongs to a
  running request or to one whose end or preemption is still unreported. At the
  moment of placing, the reported ones have given their rows back, so the rows a
  lane needs are its running requests, which the active cap bounds by the slots
  (`NoShortage`, a counting argument with the finite-set theorems).
- `FreeExact`: the free lists are the complement of the rows held.
- `InTransit`: while a step is on its way, the runner's map is the coordinator's
  before that step, and the step says exactly how they differ; hence every
  raise site of `apply_step_plan` is out of reach (`NoApplyFault`).
- `SessionExact`: sessions and rows name each other.

The stall bounds follow from `WaitInv`, which relates the history counters to
the policy's own: a decode has waited at most as many steps as the current
prefill run, and a spent decode allowance resets that run.

`DeferredOutputProofs` proves, for every set of threads and whether or not the
readback may raise: `ReadAtMostOnce`, `CallersAgree`, `QueuedBeforeEvent`,
`NeverEmptyHanded`. The assumptions are `FailAssumption` and `CallersAssumption` (the value that says the
lock is free is not a thread). The strengthening `IInv` adds to the type
invariant `Exclusion` (a thread between taking and releasing the lock is its
holder, hence alone), `Progress` (until the step is finalized, `reads` and
`outcome` are at their initial values unless some thread stands between the read
and the `finally` block; afterwards they are fixed; `queued` follows the outcome) and `Points` (what
a thread may rely on at each point, such as `~finalized` while it reads and
`finalized` once it is past the lock).

`ChunkedPrefillProofs` proves of `AlignedChunk`, for every alignment, block, budget and
kind of prompt: `ChunkEndsOnGrid` (a chunk never exceeds its share; it is all of it if
that ends the sequence, if the prompt is multimodal or if nothing is rounded; else it is
empty or ends on the grid or on a block, and where the grid is made of whole blocks, a
prompt that stood on a block is left on one) and `ChunkAdvances` (a full step gets on
with its request). Both need a step that can reach the grid, which
`_validate_prefill_chunk_alignment` ensures at start; neither assumes that the grid is
made of blocks. From them
`ChunksAlwaysAdvance` follows for any number of requests: the walk along the queues
gives a request nothing only once it has given another one something, or has stopped
behind one, and `CpInv` adds to the property that no request is queued twice and that
each queued one has some of its prompt left.

`PartsProofs` has the theorems about the machines that `parts` runs side by side. They
share no variable, and each is proved from its own specification and assumption.
- **ProcessAdmission** (`PaAssumption`, any number of configurations):
  `AdmissionTypes` and `ContractAlwaysLive`. `ContractIsLive` speaks of the time
  outside the hook only and is not inductive. `Named` adds what holds while the hook
  runs with the handle cleared: a live block engine can only be the one applying its
  configuration again, and the snapshot names it. That no other engine is inside is
  `OnlyItself`: a live engine's configuration survives the collection, so the entry
  guard raises.
- **SpecServing** (any requests, drafts, room, launches): `ServingIsFaithful` and
  `ServingIsComplete`. `SvInv` says that an admitted plan has a walk and a draft cap for
  every batch, and that each resident request asks for nothing the plan cannot serve.
  The proof shows for each way a step can go (sampled by the device, declined, verified
  in either mode) that sharing it takes nothing away; the counts stay those of the model
  through preemptions and rows that are left out.
- **SpecAccept** (any vocabulary of three tokens or more, number of drafts, length of
  output; the raw weights, penalty, grammar and controls are those of the module):
  `SpeculationCommitsAsPlain` and `SpeculationKeepsDistribution`. `SaInv` says
  that the output is the ordinary sampler's and that each column of the verify in
  flight is scored after the output and the drafts before it. The walk is then cut
  where the first draft differs, or is rejected, so what is committed is a plain
  output again. The distribution is arithmetic on the total weight: rejecting `d` and
  drawing from the residual gives the others what they had (`SharesKept`), and a residual
  without weight means that the draft had all of it.
- **PrefixRouting** (any engines, requests, prompts, capacity): `CreditsAreSent`.
  `PrInv` says that the mirror names an engine for a block only if the engine was sent
  it since the last reset, which recording, evicting and resetting preserve.
- **StageFrames** (any requests, any pool that is not refused): `FramesAreUnbroken`.
  `SfInv` counts: no more requests run than `max_num_seqs`, each holds at most the
  blocks of the longest context, so a pool that `PoolHolds` allows has a block for
  every request that asks for its next one, and the walk never preempts
  (`FreeIs`, `AllocatedFacts`).
- **LaunchConfig** (any set of models and configurations, tile and block size):
  `AdmittedLaunchServes`. `FoldedIs` says what the hook makes of each field, `LeftStays`
  that a second application changes nothing, and `RefusedLate` goes through every
  refusal of the hook to show that only one, the slot-move hook of a folded adaptive
  model, can be new on the hook's own output. `LcInvariant` keeps, for each stage of
  the launch, that the configuration is the hook's and was not refused; the room,
  owners and batch of a serving launch follow from that (`SizedServes`). The
  assumption gives the fields their types and says that an operator does not set the
  lane count, which the hook writes (`config.py:58-76`).

`SubsequencesProofs` has no result of its own. It holds what those proofs kept needing:
least and greatest elements, a recursion along `0 .. n` (`Iterates`, which says that
the recursive function exists and meets its equations), and what `Picked` and `Within`
keep of a sequence.

`FrontPackedRunnerProofs` proves, for every set of requests, number of slots and
KV generations and every interleave policy, under `SchedulerAssumption` and
`InterleaveAssumption` only: `TypeCorrect`, `NeverFaults`, `StatesFollow`,
`DecodesReadOwnState`, `SessionsAlwaysMatch`, `SlotsNeverLeak`,
`LayoutAlwaysAnnounced`, and `BlocksStayCurrent`: the block table is right as long
as no forced reset happened (`~ForcedReset => RowBlocksCurrent`; finding 2 is what
a reset does). `TTScheduler` is proved about as part of it.
- The runner applies a step after the scheduler has decided it, so every relation
  between queues, slot map and adapter is stated relative to what is *due*: the
  reported ends and preemptions (`Ended`, `Gone`), the requests that join
  (`New`, `Joining`) and those that open a session (`Opening`) are those of the
  step on its way while the runner has it, and otherwise what the scheduler will
  report next. `Report`, `Requests`, `SlotMap` and `Sessions` hold in every
  state in this reading, and between steps they are the properties the runs check.
- `SlotMap` has the three facts that keep slots apart: one claim per slot, a
  claim holds its request's state, every running request that does not join
  has one. That a free slot exists when one is allocated is counted
  (`Cardinality(Running) <= MaxNumSeqs`), and that the greedy allocation, an
  enumeration of the free slots, is defined at all is a lemma of its own.
- `Built` describes a gather that is built and not yet submitted: a permutation
  that takes each slot to the row of its request. An accepted decode then moves
  states, sessions and claims alike, a refused one moves none.

`BlockOutputProofs` proves, for any number of requests, width, tile, model length,
frontier and cap, under `LaunchAssumption` only: `TypeCorrect`, `NeverDies`
(the four raises of `_update_request_with_output` are out of reach),
`PlaceholdersAreOwed`, `MirrorsAgree`, `CanvasesFit`. What makes them inductive:
- `Blocks`: a request that decodes a block stands at the head of the running queue,
  where no decode pass preempts it, for as long as the block is in flight; with two
  steps in flight nothing else says that the block's owner is still there.
- `Mirror`: a running owner of the session was alone in the last step, so the
  decision of the next step sees the session the model will have.
- `Accounts`: what a request in each phase has computed, reserved and still has to
  come (a preempted request's stale results are its steps in flight).
- `Rooms` and `Canvases`: what the repair left of a prompt and a limit fits the model;
  a plain block request has filled whole canvases and has room for one more. They
  rest on lemmas about rounding to tiles (`UpWithin`, `DownBeyond`, `NextCanvas`,
  `Fitted`), which hold for every tile and width.

`AsyncDecodeProofs` proves, for every set of requests, every choice of those sampled
on the host, speculating or chunked, and any length and number of disruptions:
`TypeCorrect`, `NeverFaults`, `FramesExact`, `OverlapsSteady`, `LateWithdrawn`,
`InputsAlwaysCurrent`, and `StreamImplemented`, the refinement of `TokenStream`. The
assumptions are the module's own about its constants. `InputsCurrent` and `StreamKept`
speak of two ends of a pipeline, and nothing about either end alone is inductive.
- The `Line` is what the runner has still to apply, oldest first: results read back,
  then the steps of the queue that will be. It holds at most two results, all from
  steps of the queue once the runner has applied what was complete (`Lines`).
- `Flow` relates the two ends: what a client has and what the scheduler will still
  take from the queue (`Total`) is as long as what the runner has applied and what the
  line will still give it, and each part continues the one before. The result that a
  forced reset discards counts on neither side: the one the scheduler drops
  (`Dropped`) is the one the runner is told to discard (`Lost`), because at most one
  result of a request is stale and it is still there (`Resets`).
- `Resident`: while the chain may be continued, the device holds token `Total` of every
  row of the batch. With `Flow` this is what makes a forward from resident inputs
  start where a forward from host inputs would, after the drain.
- `Overlap` carries, through the build of a step over an outstanding one, the facts
  the preflight has checked; `Order` and `Current` say which steps can be outstanding
  at each point of the engine's step, whatever the output thread does meanwhile.
- The refinement follows from `Delivery` and from histories that only grow, and not
  after the end (`HistoriesGrow`).

**Only model-checked.** `RowsComeBack`, `CallsReturn` and `RequestsFinish`:
liveness under fairness is outside this prover's reach. Every invariant and every
safety property of steps that a passing run checks is also a theorem.

## 5. Findings

1. `lane_reset_abort`. If a forced reset preempts a request that is aborted
   before the next step, and the base scheduler still reports the preemption
   beside the finish, the coordinator returns the row once, as
   `tests/test_lane_scheduler.py:731-732` demands, but the runner's
   `apply_step_plan` frees it for the finish and then raises for the preemption
   (`input_batch.py:1009`). Whether the base scheduler reports both is not
   decided in this repository; `AbortKeepsPreempt` is TRUE in this run only.
2. `front_reset_blocks`. A request preempted by a forced reset that resumes in
   the step reporting it is still in the persistent batch, so `_update_states`
   appends its new blocks to the row's freed ones (`model_runner.py:1077`),
   while the cached state has them replaced (`input_batch.py:185-187`).
   `tests/test_block_scheduler.py:1152-1157` schedules such a step.

3. `async_stale_draft`. Request R has two results in flight under asynchronous
   speculation; the first is accepted, then a forced reset discards the second.
   The build of R's resume prefill applies the first result and publishes a
   proposal for R, and `_reset_spec_state_for_prefill`, which runs later in that
   build, does not clear it (`model_runner.py:2110`). The first decode after the
   prefill verifies a draft for a position R has passed, which the comments at
   `model_runner.py:1473-1475`, `1578-1580` and `2102-2103` exclude. The stream
   stays right in all runs, because a verify checks what it is given: the cost is
   a wasted verify.

4. `admission`. The guard that keeps a block engine from starting beside another
   engine asks only the engine the handle names, which is the one configured
   last. Two engines of one-token models share a process; the later one ends and
   is collected, so the weak handle names nothing; a block engine is then
   admitted while the earlier one serves, which the comments at
   `platform.py:1861-1863` and `2622-2624` exclude. `ContractIsLive` holds all the
   same: the block engine's requests meet its own contract.

## 6. Abstractions and what is not modelled

- Token counts, prompts, sampled tokens and KV block numbers are abstracted to
  request phase and KV generation. Queue order is left open.
- vLLM's base scheduler, the model adapter and the device are external; they are
  modelled from how the plugin uses them.
- The lane coordinator's routing is any lane; the rule itself is in
  `PrefixRouting`, for data-parallel engines. Asynchronous scheduling is in
  `AsyncDecode` and `BlockOutput` only, not in the lane and front-packed modules.
- `BlockOutput`: repairs of multimodal features, embeddings and sampling controls
  change no scheduling state and are left out; prompts are not split.
- `SpecAccept`: logits are integer weights; top-p, min-p and temperature are
  numerics; logprobs are not modelled. `SpecServing` leaves out the
  drafter's own state and lets it offer anything.
- `LaunchConfig`: environment overrides, device and MPI settings, multimodal
  switches and messages are left out; a model's own hooks that raise are not
  modelled. An operator who turns chunking off and sets a smaller
  `max_num_scheduled_tokens` is outside `PromptFits`: the budget is raised only
  when the hook turns chunking off (`platform.py:204-216`). Of adaptive models folded
  into lanes of one request each, the missing slot-move hook is found only by the
  second run of the hook; `AdmittedServes` names that case.
- `ChunkedPrefill`: an alignment that is not a multiple of the KV block makes a prompt
  resume inside a block, and nothing in the code checks it (`config.py:702-718`). The
  module admits such launches, and `ChunksAdvance` asks of them only that a prompt
  resumes on the grid or on a block.
- `PrefixRouting`: one front end; the switch and vLLM clients of another shape are left
  out.
- `SpecServing`: of the reasons to sample on the host, the seeded-host policy and a
  `top_k` beyond the device's are left out.
- `AsyncDecode` leaves out page tables, grammar hand-over and deferred device
  sampling, submissions and reads that raise, adapters of contract version 0, the
  lane path (`tests` of which drive the same controller), submissions without
  device output, `max_model_len`, and the reuse of a request id. What a reset preempted is reported until
  it resumes rather than once, which the runner does not tell apart. A batch of
  mixed sampling is sampled on the host as a whole. Which drafts a proposer
  offers is free.
- Parking of streaming-input sessions (`kv_holding_waiting`) is decided by the
  base scheduler and not modelled.
- Not modelled at all: device and fabric set-up in the worker, launcher, loader,
  registry and device discovery (start-up code and I/O); payloads of stage frames,
  model inputs, logprobs and host sampling (data carriers and numerics); the patches
  of vLLM's input processor and argument parser.
- `StageFrames`: one full-attention cache group, no prefix-cache hits (which only
  lower the demand), no chunk alignment, no streaming-input sessions; what the model
  returns is taken to be well formed.

## 7. Plan

Done: the lane path, the front-packed path, the deferred readback, overlapped
decoding, block output and the machines of `parts`, each checked and with its safety
properties proved.

To model: row leases (grant, hold, return) as an abstract specification the lane
coordinator refines; the lane path of the asynchronous controller, submissions that
raise, deferred device sampling and page tables in `AsyncDecode`; the front end's
refusals of requests for block models.

## 8. Running

    tlc -workers 2 -config MCLaneRows.cfg MCLaneCoordinator
    tlc -workers 2 -config MCFrontSlots.cfg MCFrontPacked
    tlc -workers 2 -config MCDeferredOutput.cfg DeferredOutput
    tlc -workers 2 -config MCAsync.cfg AsyncDecode
    tlc -workers 2 -config MCParts.cfg MCParts
    tlapm LaneCoordinatorProofs.tla
    tlapm DeferredOutputProofs.tla
    tlapm SubsequencesProofs.tla
    tlapm PartsProofs.tla
    tlapm ChunkedPrefillProofs.tla
    tlapm FrontPackedRunnerProofs.tla
    tlapm BlockOutputProofs.tla
    tlapm AsyncDecodeProofs.tla

The longest runs, `lane_rows`, `parts` and `async`, take about three minutes each, the
others under a minute and a half. `AsyncDecodeProofs` takes about eight minutes to
check from nothing, `PartsProofs` about seven, the other proofs less.
