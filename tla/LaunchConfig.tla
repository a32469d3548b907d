---------------------------- MODULE LaunchConfig ----------------------------
(***************************************************************************)
(* From the flags of an operator to a scheduler that serves.  The platform *)
(* hook checks the configuration against the model's capabilities and      *)
(* rewrites it: it turns features off, folds data parallelism into lanes,  *)
(* publishes the draft length and pairs the scheduler class.  It runs in   *)
(* the front-end process and again in the engine's on its own output; then *)
(* the worker fits the context to its KV pool and the scheduler is built.  *)
(*                                                                         *)
(* The launcher (its checks before the hook, and one local rank per engine *)
(* of a data-parallel launch) and the model's declarations are external.   *)
(***************************************************************************)
EXTENDS Integers, FiniteSets, SequencesExt

CONSTANTS
  LcLaunches,    \* [caps, conf]: what a model declares, what an operator asks
  LcTile,        \* _TT_TOKEN_TILE_SIZE
  LcBlock        \* cache_config.block_size

(* What a model declares. *)
LcCaps ==
  [width : Nat \ {0}, adaptive : BOOLEAN, frontier : Nat, extent : Nat, topk : BOOLEAN,
   grammar : BOOLEAN, drawn : BOOLEAN, device : BOOLEAN, apc : BOOLEAN, chunks : BOOLEAN,
   asyncDecode : BOOLEAN, asyncSpec : BOOLEAN, folds : BOOLEAN, moe : BOOLEAN,
   stageIn : BOOLEAN, stageOut : BOOLEAN,
   hooks : SUBSET {"release_request", "release_persistent_capture", "note_state_slots_moved"},
   spec : BOOLEAN, drafter : BOOLEAN, planK : Nat, planRows : Nat, tokens : Nat]

(* What the configuration holds, with a name for each kind of class. *)
LcConfs ==
  [maxLen : Nat, autofit : BOOLEAN, chunked : BOOLEAN, batched : Nat, scheduled : Nat,
   threshold : Nat, align : Nat, seqs : Nat \ {0}, dp : Nat \ {0}, lanes : Nat \ {0},
   executor : {"uni", "mp"}, async : BOOLEAN, method : {"none", "ngram", "custom_class"},
   k : Nat, seededHost : BOOLEAN, sampling : {"all", "decode_only", "none"}, caching : BOOLEAN,
   rust : BOOLEAN, logitsProcs : BOOLEAN, diffusion : BOOLEAN, canvas : Nat,
   scheduler : {"none", "vllm", "tt", "stage", "lane", "other"}, worker : {"tt", "stage", "bare"}]

(* The lanes are the hook's to count: an operator asks for none. *)
ASSUME LcAssumption ==
  /\ LcTile \in Nat \ {0} /\ LcBlock \in Nat \ {0}
  /\ \A l \in LcLaunches : l.caps \in LcCaps /\ l.conf \in LcConfs /\ l.conf.lanes = 1

VARIABLES
  lcCaps,        \* model_capabilities of the model class
  lcAsked,       \* the configuration the operator asked for
  lcConf,        \* vllm_config
  lcStage        \* how far the launch is, or where it was refused

lcVars == <<lcCaps, lcAsked, lcConf, lcStage>>

Ceil(n, d) == (n + d - 1) \div d

(* SchedulerConfig.verify_max_model_len *)
BudgetsHold(c) ==
  /\ c.batched >= c.seqs
  /\ ~c.chunked => c.batched >= c.maxLen

LcInit ==
  /\ \E l \in LcLaunches :
       /\ BudgetsHold(l.conf)
       /\ lcCaps = l.caps /\ lcAsked = l.conf /\ lcConf = l.conf
  /\ lcStage = "asked"

IsBlock(m) == m.width > 1
Lanes(c) == c.dp = 1 /\ c.lanes > 1
PerLane(c) == IF Lanes(c) THEN c.seqs \div c.lanes ELSE c.seqs

-----------------------------------------------------------------------------
(* What the hook rewrites. *)

(* Mutant: the threshold that splits long prompts survives. *)
KeepThreshold(c) ==
  LET fit == IF c.chunked THEN c.maxLen ELSE 0
  IN  [c EXCEPT !.chunked = FALSE,
                !.batched = Max({@, fit}),
                !.scheduled = IF @ = 0 THEN 0 ELSE Max({@, fit})]

(* _disable_chunked_prefill: the budgets are raised to a whole prompt only when
   this turns the feature off. *)
Unsplit(c) ==
  LET fit == IF c.chunked THEN c.maxLen ELSE 0
  IN  [c EXCEPT !.chunked = FALSE,
                !.batched = Max({@, fit}),
                !.scheduled = IF @ = 0 THEN 0 ELSE Max({@, fit}),
                !.threshold = 0]

(* _apply_chunked_prefill_policy *)
ChunkPolicy(m, c) == IF m.chunks /\ c.chunked /\ ~IsBlock(m) THEN c ELSE Unsplit(c)

Supported(m, c) ==
  [c EXCEPT !.caching = @ /\ m.apc,
            !.canvas = IF IsBlock(m) THEN 0 ELSE @,
            !.async = @ /\ m.asyncDecode]

(* _convert_dp_to_lanes, _collapse_parallel_config_to_single_process *)
FoldLanes(m, c) ==
  IF c.dp > 1 /\ m.folds
  THEN [c EXCEPT !.lanes = c.dp, !.seqs = @ * c.dp, !.dp = 1, !.executor = "uni"]
  ELSE c

Folded(m, c) == FoldLanes(m, Supported(m, ChunkPolicy(m, c)))

(* The model verifies no more drafts than it is asked for. *)
PlanK(m, c) == Min({c.k, m.planK})

PublishedPlan(m, c) == IF c.method = "none" THEN c ELSE [c EXCEPT !.k = PlanK(m, c)]

(* issubclass of the scheduler classes: vLLM's, TTScheduler, a class a worker
   of another package declares. *)
Derives(class, base) ==
  \/ class = base
  \/ <<class, base>> \in {<<"tt", "vllm">>, <<"stage", "tt">>, <<"stage", "vllm">>}

Declared(worker) ==
  CASE worker = "tt" -> "tt" [] worker = "stage" -> "stage" [] OTHER -> "undeclared"

(* resolve_tt_scheduler_cls; "refused" for what it raises on. *)
PairedScheduler(c) ==
  LET own == Declared(c.worker) IN
  CASE own = "undeclared" -> "refused"
    [] own # "undeclared" /\ Lanes(c) ->
         IF own = "tt" /\ (c.scheduler \in {"none", "lane"} \/ Derives(own, c.scheduler))
         THEN "lane" ELSE "refused"
    [] OTHER ->
         IF c.scheduler = "none" \/ Derives(own, c.scheduler) THEN own
         ELSE IF Derives(c.scheduler, own) THEN c.scheduler ELSE "refused"

(* The configuration the hook leaves. *)
Updated(m, c) ==
  LET d == PublishedPlan(m, Folded(m, c)) IN [d EXCEPT !.scheduler = PairedScheduler(d)]

-----------------------------------------------------------------------------
(* What the hook refuses. *)

(* Declarations of a model that contradict each other. *)
Contradicts(m) ==
  \/ IsBlock(m) /\ (m.topk \/ m.grammar \/ m.apc)
  \/ m.adaptive /\ ~IsBlock(m)
  \/ m.frontier > 0 /\ ~m.adaptive
  \/ m.extent # 0 /\ m.extent < m.width
  \/ (m.grammar \/ m.drawn) /\ ~m.device

(* _min_block_output_max_model_len *)
MinLen(m) == LcTile * Ceil(LcTile + m.width, LcTile)

RequiredHooks(m, c) ==
  {"release_request", "release_persistent_capture"}
    \cup (IF m.adaptive /\ c.seqs > 1 THEN {"note_state_slots_moved"} ELSE {})

(* A model that commits blocks owns its steps: what it must declare, *)
BlockModelRefuses(m, c) ==
  \/ ~(RequiredHooks(m, c) \subseteq m.hooks)
  \/ c.canvas \notin {0, m.width} \/ c.diffusion
  \/ c.maxLen < MinLen(m)

(* and what may not surround it. *)
BlockLaunchRefuses(m, c) ==
  \/ ~m.adaptive /\ (c.seqs # 1 \/ c.dp # 1 \/ c.lanes # 1 \/ c.async)
  \/ c.executor = "mp" /\ ~m.adaptive
  \/ c.rust \/ c.logitsProcs

(* Who draws the tokens. *)
SamplingRefuses(m, c) ==
  \/ c.seededHost /\ (c.method # "none" \/ IsBlock(m))
  \/ c.sampling # "none" /\ ~m.device
  \/ IsBlock(m) /\ c.sampling \notin (IF m.adaptive THEN {"all", "decode_only"} ELSE {"all"})

(* Mutant: the plan is resolved for one lane's batch. *)
PlanForLane(m, c) ==
  /\ m.spec /\ PlanK(m, c) > 0
  /\ m.planRows = 0 \/ m.planRows >= PerLane(c)
  /\ ~c.rust
  /\ c.method = "custom_class" => m.drafter

(* resolve_speculative_plan, after the fold: the batch is the whole launch's. *)
PlanHolds(m, c) ==
  /\ m.spec /\ PlanK(m, c) > 0
  /\ m.planRows = 0 \/ m.planRows >= c.seqs
  /\ ~c.rust
  /\ c.method = "custom_class" => m.drafter

(* resolve_tt_supports_stage_outputs: async is refused by declaration. *)
StageRefuses(m, c) ==
  \/ m.stageIn /\ Lanes(c)
  \/ m.stageOut /\ (Lanes(c) \/ IsBlock(m) \/ c.method # "none" \/ m.asyncDecode)

SpecRefuses(m, d) == (d.async /\ ~m.asyncSpec) \/ ~PlanHolds(m, d)

(* validate_tt_lane_config *)
LanesRefuse(d) == d.seqs % d.lanes # 0 \/ d.seqs < d.lanes

(* c: as asked, d: as folded. *)
Refused(m, c, d) ==
  \/ Contradicts(m)
  \/ SamplingRefuses(m, c)
  \/ IsBlock(m) /\ (c.method # "none" \/ BlockModelRefuses(m, c) \/ BlockLaunchRefuses(m, c))
  \/ d.method # "none" /\ SpecRefuses(m, d)
  \/ m.moe /\ d.dp > 1 /\ ~Lanes(d)
  \/ PairedScheduler(PublishedPlan(m, d)) = "refused"
  \/ StageRefuses(m, d)
  \/ Lanes(d) /\ LanesRefuse(d)
  \/ ~BudgetsHold(d)

(* check_and_update_config, in the front-end process. *)
Configure ==
  /\ lcStage = "asked"
  /\ IF Refused(lcCaps, lcConf, Folded(lcCaps, lcConf))
     THEN lcStage' = "refused" /\ UNCHANGED lcConf
     ELSE lcStage' = "admitted" /\ lcConf' = Updated(lcCaps, lcConf)
  /\ UNCHANGED <<lcCaps, lcAsked>>

(* The engine process and its worker apply the hook again, to the configuration
   it left; each rank of a data-parallel launch sees itself alone. *)
Reconfigure ==
  LET c == [lcConf EXCEPT !.dp = 1] IN
  /\ lcStage = "admitted"
  /\ IF Refused(lcCaps, c, Folded(lcCaps, c))
     THEN lcStage' = "refused again" /\ UNCHANGED lcConf
     ELSE lcStage' = "resolved" /\ lcConf' = Updated(lcCaps, c)
  /\ UNCHANGED <<lcCaps, lcAsked>>

-----------------------------------------------------------------------------
(* The worker and the scheduler. *)

(* get_num_available_blocks_tt: the model's budget and, for every request of
   one lane, a block or a canvas. *)
PoolBlocks(m, c) == Ceil(m.tokens + Max({LcBlock, m.width}) * PerLane(c), LcBlock)

(* Mutant: the pool is all context. *)
FittedWhole(m, c) == LcBlock * PoolBlocks(m, c)

(* The longest context that leaves a canvas in the pool. *)
FittedLen(m, c) == LcBlock * PoolBlocks(m, c) - m.width

(* _fit_block_output_max_model_len, or the check of a length that was given. *)
FitContext ==
  LET fitted == FittedLen(lcCaps, lcConf) IN
  /\ lcStage = "resolved"
  /\ IF ~IsBlock(lcCaps) \/ fitted >= lcConf.maxLen
     THEN lcStage' = "sized" /\ UNCHANGED lcConf
     ELSE IF lcConf.autofit /\ fitted >= MinLen(lcCaps)
     THEN lcStage' = "sized" /\ lcConf' = [lcConf EXCEPT !.maxLen = fitted]
     ELSE lcStage' = "refused" /\ UNCHANGED lcConf
  /\ UNCHANGED <<lcCaps, lcAsked>>

(* _effective_prefill_step_limit *)
StepLimit(c) ==
  LET budget == IF c.scheduled > 0 THEN c.scheduled ELSE c.batched
  IN  IF c.threshold > 0 THEN Min({budget, c.threshold}) ELSE budget

(* Mutant: a declared extent is not reserved. *)
LookaheadByWidth(m, c) ==
  Max({0, IF c.method = "custom_class" THEN c.k + 1 ELSE 0,
          IF IsBlock(m) THEN 2 * m.width ELSE 0})

(* num_lookahead_tokens, with spec_lookahead_tokens. *)
Lookahead(m, c) ==
  Max({0, IF c.method = "custom_class" THEN c.k + 1 ELSE 0,
          IF IsBlock(m) THEN Max({2 * m.width, m.extent}) ELSE 0})

(* _require_kv_for_every_sequence: block 0 is the null block. *)
PoolHoldsAll(m, c) == PoolBlocks(m, c) - 1 >= c.seqs * Ceil(c.maxLen, LcBlock)

(* TTScheduler.__init__ *)
BuildScheduler ==
  /\ lcStage = "sized"
  /\ lcStage' =
       IF \/ lcConf.chunked /\ lcConf.align > 1 /\ StepLimit(lcConf) < lcConf.align
          \/ lcCaps.stageOut /\ ~PoolHoldsAll(lcCaps, lcConf)
       THEN "refused"
       ELSE IF IsBlock(lcCaps) /\ lcConf.caching THEN "asserted" ELSE "serving"
  /\ UNCHANGED <<lcCaps, lcAsked, lcConf>>

LcNext == Configure \/ Reconfigure \/ FitContext \/ BuildScheduler

LcSpec == LcInit /\ [][LcNext]_lcVars

-----------------------------------------------------------------------------
(* Properties. *)

(* A prompt of any admitted length can be scheduled: whole in one step where the
   model cannot resume a split one, on the grid otherwise.  An operator who turns
   chunking off and sets a smaller scheduling budget is not covered: the budget
   is raised only when the hook turns chunking off. *)
PromptFits(m, c) ==
  IF c.chunked THEN m.chunks /\ (c.align > 1 => StepLimit(c) >= c.align)
  ELSE /\ c.threshold = 0
       /\ lcAsked.chunked \/ c.scheduled = 0 => StepLimit(c) >= c.maxLen

(* The positions a step may write are reserved for its request: the rows a block
   verifies, or those a drafter writes ahead of the committed ones. *)
StepFits(m, c) ==
  /\ IsBlock(m) =>
       /\ Lookahead(m, c) >= m.extent
       /\ c.maxLen >= MinLen(m)
       /\ LcBlock * PoolBlocks(m, c) >= c.maxLen + m.width
  /\ c.method = "custom_class" => Lookahead(m, c) > PlanK(m, c)

(* One owner of a step's width, and one of its order: a block model of one
   session serves one request in one engine, without overlap; nothing overlaps
   or speculates that the model did not declare. *)
StepOwned(m, c) ==
  /\ IsBlock(m) => c.method = "none" /\ ~c.chunked /\ c.canvas = 0
  /\ IsBlock(m) /\ ~m.adaptive => c.seqs = 1 /\ lcAsked.dp = 1 /\ ~c.async
  /\ IsBlock(m) /\ c.seqs > 1 => "note_state_slots_moved" \in m.hooks
  /\ c.async => m.asyncDecode /\ (c.method # "none" => m.asyncSpec)
  /\ c.method # "none" =>
       /\ c.k \in 1 .. Min({lcAsked.k, m.planK})
       /\ m.planRows # 0 => m.planRows >= c.seqs
  /\ m.stageOut => m.width = 1 /\ c.lanes = 1 /\ ~c.async /\ c.method = "none"
  /\ c.rust => ~IsBlock(m) /\ c.method = "none"

(* Folding keeps the batch an operator asked for per rank. *)
FoldKept(m, c) ==
  /\ PerLane(c) = lcAsked.seqs
  /\ m.folds => c.lanes = lcAsked.dp
  /\ (c.scheduler = "lane") = (c.lanes > 1)

(* A launch the front end admitted serves every request the front end admits:
   the hook applied to its own output neither refuses it nor changes it, no
   assertion of the scheduler stops it, every prompt can be scheduled and every
   step has its pages and its one owner.  The one launch refused late is that of
   an adaptive model whose ranks are folded into lanes of one request each: it
   needs the slot-move hook only after the fold. *)
AdmittedServes ==
  /\ lcStage # "asserted"
  /\ lcStage = "refused again" =>
       lcCaps.adaptive /\ lcAsked.seqs = 1 /\ lcConf.lanes > 1
  /\ lcStage = "resolved" =>
       Updated(lcCaps, lcConf) = lcConf
  /\ lcStage = "serving" =>
       /\ PromptFits(lcCaps, lcConf)
       /\ StepFits(lcCaps, lcConf)
       /\ StepOwned(lcCaps, lcConf)
       /\ FoldKept(lcCaps, lcConf)

=============================================================================
