------------------------------ MODULE MCParts ------------------------------
(* The machines that share no state with the rest, checked side by side: the
   initial state chooses the part that moves, and the others stand still. *)
EXTENDS BlockOutput, SpecAccept, SpecServing, LaunchConfig, ProcessAdmission,
        PrefixRouting, ChunkedPrefill, StageFrames

VARIABLE part    \* the machine that moves

-----------------------------------------------------------------------------
(* Launches that speculate: a base, changed in one respect or two. *)

MCPlan ==
  [modes |-> {"argmax_ids", "logits"}, narrow |-> TRUE, drafter |-> "ngram", k |-> 2,
   kByRows |-> <<>>, device |-> "draws_ids", deviceGrammar |-> TRUE,
   devicePenalties |-> TRUE, deviceLogprobs |-> FALSE, async |-> FALSE]
MCRows(rows, k) == [rows |-> rows, k |-> k]
MCPlanChanges ==
  {<<"modes", {"logits"}>>, <<"modes", {"fused_sample"}>>, <<"narrow", FALSE>>,
   <<"drafter", "roundtrip">>, <<"k", 1>>, <<"kByRows", <<MCRows(1, 2)>>>>,
   <<"kByRows", <<MCRows(1, 2), MCRows(2, 1)>>>>, <<"device", "host">>, <<"async", TRUE>>}
MCIdsOnly == [MCPlan EXCEPT !.modes = {"argmax_ids"}]
MCLogprobsOnly == [MCPlan EXCEPT !.devicePenalties = FALSE, !.deviceLogprobs = TRUE]
MCPlans ==
  {MCPlan, MCIdsOnly, MCLogprobsOnly} \cup {[MCPlan EXCEPT ![c[1]] = c[2]] : c \in MCPlanChanges}
  \cup {[MCIdsOnly EXCEPT ![c[1]] = c[2]] : c \in {<<"narrow", FALSE>>, <<"async", TRUE>>}}

-----------------------------------------------------------------------------
(* Launches: models that declare different things, each changed in what it
   declares or what its operator asks, in one respect or two. *)

MCHooks == {"release_request", "release_persistent_capture", "note_state_slots_moved"}
MCCaps ==
  [width |-> 1, adaptive |-> FALSE, frontier |-> 0, extent |-> 0, topk |-> FALSE,
   grammar |-> FALSE, drawn |-> FALSE, device |-> TRUE, apc |-> TRUE, chunks |-> TRUE,
   asyncDecode |-> TRUE, asyncSpec |-> FALSE, folds |-> FALSE, moe |-> FALSE,
   stageIn |-> FALSE, stageOut |-> FALSE, hooks |-> MCHooks, spec |-> TRUE,
   drafter |-> TRUE, planK |-> 2, planRows |-> 0, tokens |-> 16]
MCConf ==
  [maxLen |-> 16, autofit |-> FALSE, chunked |-> TRUE, batched |-> 8, scheduled |-> 0,
   threshold |-> 0, align |-> 4, seqs |-> 2, dp |-> 1, lanes |-> 1, executor |-> "uni",
   async |-> TRUE, method |-> "none", k |-> 3, seededHost |-> FALSE, sampling |-> "all",
   caching |-> TRUE, rust |-> FALSE, logitsProcs |-> FALSE, diffusion |-> FALSE,
   canvas |-> 0, scheduler |-> "none", worker |-> "tt"]

MCOneToken == [caps |-> MCCaps, conf |-> MCConf]
MCSpec ==
  [caps |-> [MCCaps EXCEPT !.asyncSpec = TRUE], conf |-> [MCConf EXCEPT !.method = "custom_class"]]
MCStage ==
  [caps |-> [MCCaps EXCEPT !.stageOut = TRUE, !.asyncDecode = FALSE],
   conf |-> [MCConf EXCEPT !.seqs = 1]]
MCPlainBlock ==
  [caps |-> [MCCaps EXCEPT !.width = 4, !.apc = FALSE],
   conf |-> [MCConf EXCEPT !.seqs = 1, !.async = FALSE, !.canvas = 4]]
MCAdaptive ==
  [caps |-> [MCCaps EXCEPT !.width = 4, !.adaptive = TRUE, !.apc = FALSE], conf |-> MCConf]
MCFolded(l) == [l EXCEPT !.caps.folds = TRUE, !.conf.dp = 2]

MCDeclarations ==
  {<<"width", 4>>, <<"adaptive", TRUE>>, <<"frontier", 8>>, <<"extent", 10>>, <<"extent", 3>>,
   <<"topk", TRUE>>, <<"grammar", TRUE>>, <<"drawn", TRUE>>, <<"device", FALSE>>, <<"apc", TRUE>>,
   <<"chunks", FALSE>>, <<"asyncDecode", TRUE>>, <<"asyncDecode", FALSE>>, <<"asyncSpec", TRUE>>,
   <<"folds", TRUE>>, <<"moe", TRUE>>, <<"stageIn", TRUE>>, <<"stageOut", TRUE>>, <<"hooks", {}>>,
   <<"hooks", MCHooks \ {"note_state_slots_moved"}>>, <<"spec", FALSE>>, <<"drafter", FALSE>>,
   <<"planK", 0>>, <<"planRows", 2>>, <<"tokens", 64>>, <<"tokens", 4>>}
MCFlags ==
  {<<"chunked", FALSE>>, <<"batched", 16>>, <<"scheduled", 6>>, <<"threshold", 3>>, <<"align", 0>>,
   <<"seqs", 1>>, <<"seqs", 3>>, <<"dp", 2>>, <<"executor", "mp">>, <<"async", TRUE>>,
   <<"method", "ngram">>, <<"method", "custom_class">>, <<"k", 1>>, <<"seededHost", TRUE>>,
   <<"sampling", "none">>, <<"sampling", "decode_only">>, <<"caching", FALSE>>, <<"rust", TRUE>>,
   <<"logitsProcs", TRUE>>, <<"diffusion", TRUE>>, <<"canvas", 4>>, <<"scheduler", "vllm">>,
   <<"scheduler", "stage">>, <<"scheduler", "other">>, <<"scheduler", "lane">>,
   <<"worker", "stage">>, <<"worker", "bare">>, <<"maxLen", 4>>, <<"autofit", TRUE>>}
MCChanges == {"caps"} \X MCDeclarations \cup {"conf"} \X MCFlags
MCChanged(l, c) == [l EXCEPT ![c[1]][c[2][1]] = c[2][2]]
MCLaunches ==
  {MCChanged(MCChanged(l, c), d) :
     l \in {MCOneToken, MCSpec, MCStage, MCPlainBlock, MCAdaptive, MCFolded(MCAdaptive),
            MCFolded(MCSpec)},
     c \in MCChanges, d \in MCChanges}

-----------------------------------------------------------------------------
(* Prompts of full blocks, one a prefix-disjoint rival of the other. *)
MCPrompts == {<<1, 1>>, <<2>>}

Parts == {"block", "accept", "serving", "launch", "admission", "routing", "chunks",
          "stage"}

PartsInit ==
  /\ part \in Parts
  /\ Init /\ (part # "block" => launch = Plain)
  /\ SaInit /\ (part # "accept" => saCtl = NoControls)
  /\ SvInit /\ (part # "serving" => svPlan = MCPlan)
  /\ IF part = "launch" THEN LcInit
     ELSE /\ lcCaps = MCCaps /\ lcAsked = MCConf /\ lcConf = MCConf /\ lcStage = "asked"
  /\ PaInit
  /\ PrInit
  /\ CpInit /\ (part # "chunks" => cpAlign = 4 /\ cpBudget = 4 /\ cpThreshold = 0)
  /\ SfInit /\ (part # "stage" => sfNotifies)

PartsNext ==
  /\ UNCHANGED part
  /\ IF part = "block" THEN Next ELSE UNCHANGED vars
  /\ IF part = "accept" THEN SaNext ELSE UNCHANGED saVars
  /\ IF part = "serving" THEN SvNext ELSE UNCHANGED svVars
  /\ IF part = "launch" THEN LcNext ELSE UNCHANGED lcVars
  /\ IF part = "admission" THEN PaNext ELSE UNCHANGED paVars
  /\ IF part = "routing" THEN PrNext ELSE UNCHANGED prVars
  /\ IF part = "chunks" THEN CpNext ELSE UNCHANGED cpVars
  /\ IF part = "stage" THEN SfNext ELSE UNCHANGED sfVars

PartsSpec ==
  PartsInit /\
  [][PartsNext]_<<part, vars, saVars, svVars, lcVars, paVars, prVars, cpVars, sfVars>>

(* Requests are interchangeable in every part: the two that all parts have. *)
PartsSymmetry == Permutations(SvReqs)

=============================================================================
