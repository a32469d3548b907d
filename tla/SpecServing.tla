----------------------------- MODULE SpecServing -----------------------------
(***************************************************************************)
(* A launch that speculates, from its plan to the tokens it commits: which *)
(* launches and requests are admitted, which steps are verifies and in     *)
(* which accept mode, which drafts they carry, what is committed of them   *)
(* and which drafts are published for the next step.  A request asks for   *)
(* controls; a walk over token ids applies none of them, an ordinary step  *)
(* or a walk over logits all.  The mode is one per step, while the rows    *)
(* come and go between the steps.                                          *)
(*                                                                         *)
(* Drafts are counted, not named.  The proposer, the sampler, the accept   *)
(* decision, the candidate states a verify leaves in the model (svState)   *)
(* and the base scheduler are external; the walk itself is SpecAccept.     *)
(***************************************************************************)
EXTENDS Integers, FiniteSets, SequencesExt

CONSTANTS
  SvReqs,        \* request ids; as many run at once
  SvK,           \* num_speculative_tokens
  SvRoom,        \* output tokens that fit a request before max_model_len
  SvMinTokens,   \* min_tokens of a request that sets one
  SvNeeds,       \* the sets of controls a request may ask for
  SvAmounts,     \* numbers of drafts to consider
  SvLaunches     \* the launches to consider

(* What a request may ask of the tokens it is sent. *)
SvControls == {"sampled", "penalised", "logprobs", "grammar", "filters", "min_tokens"}

(* SpecPlan, and what the model and the launch declare besides. *)
SpecPlans ==
  [modes : SUBSET {"argmax_ids", "logits", "fused_sample"}, narrow : BOOLEAN,
   drafter : {"ngram", "on_device", "roundtrip", "resolved"}, k : Nat,
   kByRows : Seq([rows : Nat, k : Nat]), device : {"host", "samples", "draws_ids"},
   deviceGrammar : BOOLEAN, devicePenalties : BOOLEAN, deviceLogprobs : BOOLEAN,
   async : BOOLEAN]

ASSUME SvAssumption ==
  /\ IsFiniteSet(SvReqs) /\ SvK \in Nat \ {0} /\ SvRoom \in Nat /\ SvMinTokens \in Nat
  /\ SvAmounts \subseteq Nat
  /\ SvNeeds \subseteq SUBSET SvControls /\ SvLaunches \subseteq SpecPlans

VARIABLES
  svPlan,        \* the launch, and its resolved plan once admitted
  svUp,          \* the launch is admitted
  svNeeds,       \* per running request, its controls; NotHere otherwise
  svLen,         \* output tokens committed
  svDrafts,      \* drafts published for its next step
  svCounts,      \* _req_accepted_counts
  svState,       \* model: candidate states the last verify left for the row
  svUnmet,       \* controls the last step committed tokens without
  svFault        \* the raise the runner died on

svRows == <<svNeeds, svLen, svDrafts, svCounts, svState>>
svVars == <<svPlan, svUp, svRows, svUnmet, svFault>>

NotHere == {"not here"}
Resident == {r \in SvReqs : svNeeds[r] # NotHere}
MaxNumSeqsSv == Cardinality(SvReqs)

SvInit ==
  /\ svPlan \in SvLaunches
  /\ svUp = FALSE
  /\ svNeeds = [r \in SvReqs |-> NotHere]
  /\ svLen = [r \in SvReqs |-> 0]
  /\ svDrafts = [r \in SvReqs |-> 0]
  /\ svCounts = [r \in SvReqs |-> 1]
  /\ svState = [r \in SvReqs |-> 1]
  /\ svUnmet = {}
  /\ svFault = "none"

-----------------------------------------------------------------------------
(* Admission. *)

ServesLogits == "logits" \in svPlan.modes

(* SpecPlan.__post_init__: a cap per number of live rows, up to effective_k. *)
PlanIsValid(plan) ==
  /\ plan.k >= 1 /\ plan.modes # {}
  /\ \A i \in DOMAIN plan.kByRows : plan.kByRows[i].k \in 1 .. plan.k
  /\ \A i, j \in DOMAIN plan.kByRows : i < j => plan.kByRows[i].rows < plan.kByRows[j].rows
  /\ plan.kByRows # <<>> => \E i \in DOMAIN plan.kByRows : plan.kByRows[i].k = plan.k

(* Mutant: the mapping need not reach the last row. *)
CoversMost(plan) == plan.kByRows # <<>> => Last(plan.kByRows).rows >= MaxNumSeqsSv - 1

(* The mapping has a cap for every batch the launch admits. *)
CoversRows(plan) == plan.kByRows # <<>> => Last(plan.kByRows).rows >= MaxNumSeqsSv

(* A drafter fed the hidden state through the runner cannot draft after a step
   that is no verify. *)
KeepsNarrow(plan) == plan.narrow /\ plan.drafter # "roundtrip"

(* resolve_speculative_plan.  The scheduler budgets and the drafters propose
   the drafts of the plan from here on: it is published as
   num_speculative_tokens. *)
ResolvePlan ==
  /\ ~svUp
  /\ PlanIsValid(svPlan) /\ CoversRows(svPlan) /\ svPlan.k <= SvK
  /\ svPlan.modes \cap {"logits", "argmax_ids"} # {}
  /\ svPlan' = [svPlan EXCEPT !.narrow = KeepsNarrow(svPlan), !.drafter = "resolved"]
  /\ svUp' = TRUE
  /\ UNCHANGED <<svRows, svUnmet, svFault>>

(* _reject_unsupported_speculative_request *)
Serves(needs) ==
  \/ ServesLogits
  \/ /\ needs \cap {"logprobs", "grammar", "filters", "min_tokens"} = {}
     /\ needs \cap {"sampled", "penalised"} # {} => svPlan.narrow

(* A request is admitted; its prefill committed one token. *)
Arrive(r, needs) ==
  /\ svUp /\ svNeeds[r] = NotHere
  /\ Serves(needs)
  /\ svNeeds' = [svNeeds EXCEPT ![r] = needs]
  /\ svLen' = [svLen EXCEPT ![r] = 1]
  /\ svUnmet' = {}
  /\ UNCHANGED <<svPlan, svUp, svDrafts, svCounts, svState, svFault>>

(* _forget_finished_spec_state *)
Finish(r) ==
  /\ r \in Resident
  /\ svNeeds' = [svNeeds EXCEPT ![r] = NotHere]
  /\ svLen' = [svLen EXCEPT ![r] = 0]
  /\ svDrafts' = [svDrafts EXCEPT ![r] = 0]
  /\ svCounts' = [svCounts EXCEPT ![r] = 1]
  /\ svState' = [svState EXCEPT ![r] = 1]
  /\ svUnmet' = {}
  /\ UNCHANGED <<svPlan, svUp, svFault>>

(* Mutant: the accepted count survives the prefill it resumes with. *)
KeepCounts(rows) == svCounts

(* _reset_spec_state_for_prefill *)
ResetCounts(rows) == [r \in SvReqs |-> IF r \in rows THEN 1 ELSE svCounts[r]]

(* A preempted request resumes: a prefill computes its tokens again and commits
   one more.  The model's candidate states are lost.  The scheduler drops the
   drafts it holds; those of an asynchronous launch are the runner's, and stay. *)
Resume(r) ==
  /\ r \in Resident /\ svLen[r] < SvRoom
  /\ svLen' = [svLen EXCEPT ![r] = @ + 1]
  /\ svDrafts' = IF svPlan.async THEN svDrafts ELSE [svDrafts EXCEPT ![r] = 0]
  /\ svCounts' = ResetCounts({r})
  /\ svState' = [svState EXCEPT ![r] = 1]
  /\ svUnmet' = {}
  /\ UNCHANGED <<svPlan, svUp, svNeeds, svFault>>

-----------------------------------------------------------------------------
(* What a step may do with its rows. *)

(* What a request needs of the tokens it commits next: min_tokens only until it
   has them. *)
Pending(r) == IF svLen[r] < SvMinTokens THEN svNeeds[r] ELSE svNeeds[r] \ {"min_tokens"}

(* check_perform_device_sampling, for a decode over these rows: every resident
   row counts, but for grammars, which count when scheduled.  deviceLogprobs: a
   mesh of 8 or 32 devices, whose model returns the logprobs asked for. *)
DeviceSamples(rows) ==
  LET guided  == \E r \in rows : "grammar" \in svNeeds[r]
      needed  == UNION {Pending(r) : r \in Resident}
  IN
  /\ svPlan.device # "host"
  /\ needed \cap {"filters", "min_tokens"} = {}
  /\ "penalised" \in needed => svPlan.devicePenalties
  /\ "logprobs" \in needed => svPlan.deviceLogprobs /\ ~guided
  /\ guided => svPlan.deviceGrammar

(* _decode_device_sampled: a grammar resident but not scheduled keeps the step
   on the host. *)
DecodeDeviceSampled(rows) ==
  /\ DeviceSamples(rows)
  /\ (\E r \in Resident : "grammar" \in svNeeds[r]) => \E r \in rows : "grammar" \in svNeeds[r]

(* Mutant: ids the device drew certify a penalised request too. *)
CertifiableWhenDrawn(r, device) ==
  LET drawn == device /\ svPlan.device = "draws_ids"
  IN  Pending(r) \subseteq (IF drawn THEN {"sampled", "penalised"} ELSE {})

(* _request_is_argmax_certifiable *)
ArgmaxCertifiable(r, device) ==
  LET drawn == device /\ svPlan.device = "draws_ids"
  IN  Pending(r) \subseteq (IF drawn THEN {"sampled"} ELSE {})

(* _request_is_speculable *)
Speculable(r, device) == ServesLogits \/ ArgmaxCertifiable(r, device)

(* _spec_mode_for_step *)
SpecMode(rows, device) ==
  IF ~ServesLogits THEN "argmax_ids"
  ELSE IF "argmax_ids" \notin svPlan.modes THEN "logits"
  ELSE IF \A r \in rows : ArgmaxCertifiable(r, device) THEN "argmax_ids" ELSE "logits"

(* Mutant: any draft makes the step a verify. *)
StepVerifiesAnyDraft(rows, valid, device) ==
  ~svPlan.narrow \/ \E r \in rows : valid[r] > 0 \/ svCounts[r] > 1

(* _step_verifies *)
StepVerifies(rows, valid, device) ==
  \/ ~svPlan.narrow
  \/ /\ \A r \in rows : Speculable(r, device)
     /\ \E r \in rows : valid[r] > 0 \/ svCounts[r] > 1

(* SpecPlan.draft_cap *)
DraftCap(live) ==
  IF svPlan.kByRows = <<>> THEN svPlan.k
  ELSE LET fits == {i \in DOMAIN svPlan.kByRows : live <= svPlan.kByRows[i].rows}
       IN  IF fits = {} THEN 0 ELSE svPlan.kByRows[Min(fits)].k

(* _drafts_to_verify: the published drafts, within the scheduled budget; under
   asynchronous scheduling the budget is a reservation of placeholders. *)
DraftsToVerify(rows, budget) == [r \in rows |-> Min({svDrafts[r], budget})]

(* Mutant: a step without drafts is declined although a commit is open. *)
DeclinedWithoutDrafts(rows, drafts) == svPlan.narrow /\ \A r \in rows : drafts[r] = 0

(* _spec_decode_rows: the declined step, an ordinary decode without side
   tensors. *)
Declined(rows, drafts) ==
  svPlan.narrow /\ \A r \in rows : drafts[r] = 0 /\ svCounts[r] <= 1

(* Mutant: drafts whose grammar rows are placeholders are walked. *)
ValidatedAll(r, valid, handedOver) == valid

(* _grammar_validated_drafts: under asynchronous scheduling a grammar's bitmask
   covers the drafts only if they were handed over before it was filled. *)
Validated(r, valid, handedOver) ==
  IF svPlan.async /\ "grammar" \in svNeeds[r] /\ ~handedOver THEN 0 ELSE valid

(* spec_grammar_bitmask_for_tt_batch: columns of r with a bitmask of their own. *)
MaskedColumns(r, valid, handedOver) ==
  IF svPlan.async THEN (IF handedOver THEN 1 + valid ELSE 1) ELSE 1 + valid

-----------------------------------------------------------------------------
(* A decode step, with the tail that commits it and publishes drafts. *)

(* _publish_draft: every proposer's, for a row the step committed. *)
Published(r, offered, device) == IF Speculable(r, device) THEN offered ELSE 0

(* What the tail publishes: an offer per row, fitting what it can still hold. *)
Proposals(rows, offer, device, len) ==
  [r \in SvReqs |-> IF r \in rows THEN Published(r, Min({offer[r], SvRoom - len[r]}), device)
                    ELSE svDrafts[r]]

(* Controls a row's commit of n tokens goes without. *)
UnmetBy(r, mode, device, n, masked) ==
  CASE mode = "none"       -> {}
    [] mode = "logits"     -> IF n > masked THEN {"grammar"} \cap Pending(r) ELSE {}
    [] mode = "argmax_ids" -> IF device /\ svPlan.device = "draws_ids"
                              THEN Pending(r) \ {"sampled"} ELSE Pending(r)

(* An ordinary decode: a token per row.  The counts it was sent are resolved by
   it; `sent' says whether they were. *)
OrdinaryStep(rows, offer, device, sent) ==
  LET len == [r \in SvReqs |-> IF r \in rows THEN svLen[r] + 1 ELSE svLen[r]] IN
  /\ svLen' = len
  /\ svCounts' = [r \in SvReqs |-> IF r \in rows THEN 1 ELSE svCounts[r]]
  /\ svState' = [r \in SvReqs |-> IF r \in rows THEN 1 ELSE svState[r]]
  /\ svDrafts' = Proposals(rows, offer, device, len)
  /\ svUnmet' = IF ~sent /\ \E r \in rows : svState[r] # 1 THEN {"state"} ELSE {}
  /\ UNCHANGED svFault

(* A verify: each row commits its accepted prefix, as long as it fits. *)
VerifyStep(rows, valid, offer, accepted, device, handedOver) ==
  LET mode == SpecMode(rows, device)
      walked(r) == Validated(r, valid[r], handedOver)
      sampledOnDevice == device /\ mode = "argmax_ids"
      kept == [r \in rows |-> Min({1 + Min({accepted[r], walked(r)}), SvRoom - svLen[r]})]
      len == [r \in SvReqs |-> IF r \in rows THEN svLen[r] + kept[r] ELSE svLen[r]]
  IN
  IF mode = "argmax_ids" /\ \E r \in rows : "logprobs" \in svNeeds[r]
  THEN svFault' = "logprobs" /\ UNCHANGED <<svLen, svCounts, svState, svDrafts, svUnmet>>
  ELSE /\ svLen' = len
       /\ svCounts' = [r \in SvReqs |-> IF r \in rows THEN Max({kept[r], 1}) ELSE svCounts[r]]
       /\ svState' = [r \in SvReqs |-> IF r \in rows THEN Max({kept[r], 1}) ELSE svState[r]]
       /\ svDrafts' = Proposals(rows, offer, sampledOnDevice, len)
       /\ svUnmet' = UNION {UnmetBy(r, mode, device, kept[r], MaskedColumns(r, valid[r], handedOver))
                              : r \in rows}
       /\ UNCHANGED svFault

(* One step over `rows', with a budget of drafts for each. *)
Decode(rows, budget, offer, accepted, handedOver) ==
  LET device == DecodeDeviceSampled(rows)
      drafts == DraftsToVerify(rows, budget)
      cap    == DraftCap(Cardinality(rows))
      valid  == [r \in rows |-> Min({drafts[r], cap})]
  IN
  /\ svUp /\ svFault = "none"
  /\ rows # {} /\ rows \subseteq Resident /\ \A r \in rows : svLen[r] < SvRoom
  /\ IF Declined(rows, drafts) THEN OrdinaryStep(rows, offer, device, FALSE)
     ELSE IF cap = 0 \/ \E r \in rows : drafts[r] > svPlan.k
     THEN svFault' = "drafts" /\ UNCHANGED <<svLen, svCounts, svState, svDrafts, svUnmet>>
     ELSE IF StepVerifies(rows, valid, device)
     THEN VerifyStep(rows, valid, offer, accepted, device, handedOver)
     ELSE OrdinaryStep(rows, offer, device, TRUE)
  /\ UNCHANGED <<svPlan, svUp, svNeeds>>

(* Drafts a row is offered, or has accepted: no more than a block has. *)
Amounts(rows) == [rows -> {Min({n, svPlan.k}) : n \in SvAmounts}]

SvNext ==
  \/ ResolvePlan
  \/ \E r \in SvReqs, needs \in SvNeeds : Arrive(r, needs)
  \/ \E r \in SvReqs : Finish(r) \/ Resume(r)
  \/ \E rows \in SUBSET Resident, budget \in 1 .. svPlan.k, handedOver \in {svPlan.async, FALSE} :
       \E offer, accepted \in Amounts(rows) : Decode(rows, budget, offer, accepted, handedOver)

SvSpec == SvInit /\ [][SvNext]_svVars

-----------------------------------------------------------------------------
(* Properties. *)

(* Whatever shares its steps, a request is answered under every control it
   asked for: no token is committed by a walk that could not apply them, no
   drafted column by a grammar row that was not its own, and the count kept for
   a row selects the candidate state the model holds, across declined steps,
   steps that leave the row out and preemptions. *)
ServedFaithfully == svUnmet = {} /\ svCounts = svState

(* The runner's own raises stay unreachable on an admitted launch: every step
   has a draft cap and drafts within the block, and no row that asked for
   logprobs is answered by ids. *)
StepsAreServed == svFault = "none"

=============================================================================
