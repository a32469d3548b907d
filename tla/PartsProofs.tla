---------------------------- MODULE PartsProofs ----------------------------
(***************************************************************************)
(* Theorems about the machines that MCParts runs side by side, each for    *)
(* every value of its constants: the process-wide admission handle, who is *)
(* served by speculation and what a verify commits, what a prefix-cache    *)
(* dispatch may claim, the frames of a pipeline stage, and the launches the *)
(* hook admits.                                                            *)
(***************************************************************************)
EXTENDS LaunchConfig, SpecAccept, SpecServing, PrefixRouting, StageFrames, ProcessAdmission,
        SubsequencesProofs

-----------------------------------------------------------------------------
(* Process admission. *)

Blockly(c) == c \in PaBlocks /\ paLife[c] = "live"

(* Outside the hook the handle names every live block engine, hence there is at
   most one; inside it such an engine can only be the one whose configuration is
   being applied again, and the snapshot of the handle names it. *)
Named ==
  /\ paBusy = NoConfig => \A b \in PaBlocks : Blockly(b) => paHandle = b
  /\ paBusy # NoConfig => \A b \in PaBlocks : Blockly(b) => paBusy = b /\ paPrevious = b

(* What the collector frees had no engine. *)
LEMMA CollectKeeps ==
  ASSUME PaTypeOK
  PROVE  /\ AfterCollect(paLife) \in [PaConfigs -> {"unborn", "starting", "live", "dead", "gone"}]
         /\ \A c \in PaConfigs : (AfterCollect(paLife)[c] = "live") <=> (paLife[c] = "live")
BY DEF PaTypeOK, AfterCollect

(* Every reachable state of the handle and the engines is well typed. *)
LEMMA TypeStep == PaTypeOK /\ [PaNext]_paVars => PaTypeOK'
<1> SUFFICES ASSUME PaTypeOK, [PaNext]_paVars PROVE PaTypeOK'
  OBVIOUS
<1>1. CASE ApplyFails
  BY <1>1 DEF ApplyFails, HandleRestored, PaTypeOK
<1>2. CASE LeaveHook
  BY <1>2, CollectKeeps DEF LeaveHook, PaTypeOK
<1>3. ASSUME NEW c \in PaConfigs, EnterHook(c) PROVE PaTypeOK'
  BY <1>3, CollectKeeps DEF EnterHook, PaTypeOK
<1>4. ASSUME NEW c \in PaConfigs, Teardown(c) \/ Collect(c) PROVE PaTypeOK'
  BY <1>4 DEF Teardown, Collect, PaTypeOK
<1>5. CASE UNCHANGED paVars
  BY <1>5 DEF paVars, PaTypeOK
<1> QED BY <1>1, <1>2, <1>3, <1>4, <1>5 DEF PaNext

(* A live block engine named by the handle keeps every other engine out of the
   hook: its configuration is in memory, before and after a collection. *)
LEMMA OnlyItself ==
  ASSUME PaTypeOK, Named, NEW c \in PaConfigs, EnterHook(c), paBusy' # NoConfig,
         NEW b \in PaBlocks, Blockly(b)
  PROVE  c = b /\ paHandle = b
<1>1. paBusy = NoConfig /\ b \in PaConfigs /\ paHandle = b
  BY PaAssumption DEF EnterHook, Named
<1>2. paLife[b] = "live" /\ AfterCollect(paLife)[b] = "live" /\ b # NoConfig
  BY <1>1, CollectKeeps, PaAssumption DEF Blockly
<1>3. Deref(paLife, paHandle) = b /\ Deref(AfterCollect(paLife), paHandle) = b
  BY <1>1, <1>2 DEF Deref, InMemory
<1>4. ASSUME c # b PROVE FALSE
  <2>1. OtherBlock(c, b)
    BY <1>2, <1>4 DEF OtherBlock
  <2> QED BY <1>1, <1>3, <2>1 DEF EnterHook
<1> QED BY <1>1, <1>4

(* Every step of an engine, the hook or the collector keeps Named. *)
LEMMA NamedStep == PaTypeOK /\ Named /\ [PaNext]_paVars => Named'
<1> SUFFICES ASSUME PaTypeOK, Named, [PaNext]_paVars PROVE Named'
  OBVIOUS
<1> USE PaAssumption
<1>1. CASE ApplyFails
  BY <1>1 DEF ApplyFails, HandleRestored, Named, Blockly, PaTypeOK
<1>2. CASE LeaveHook
  BY <1>2, CollectKeeps DEF LeaveHook, Named, Blockly, PaTypeOK
<1>3. ASSUME NEW c \in PaConfigs, EnterHook(c) PROVE Named'
  <2>1. CASE paBusy' = NoConfig
    <3>1. /\ paBusy = NoConfig /\ paHandle' = paHandle
          /\ \A b \in PaConfigs : paLife'[b] = "live" => paLife[b] = "live"
      BY <1>3, <2>1, CollectKeeps DEF EnterHook, PaTypeOK
    <3> QED BY <2>1, <3>1 DEF Named, Blockly
  <2>2. CASE paBusy' # NoConfig
    <3>1. /\ paBusy' = c /\ paPrevious' = paHandle
          /\ \A b \in PaConfigs : paLife'[b] = "live" => paLife[b] = "live"
      BY <1>3, <2>2, CollectKeeps DEF EnterHook, PaTypeOK
    <3>2. \A b \in PaBlocks : Blockly(b) => c = b /\ paHandle = b
      BY <1>3, <2>2, OnlyItself
    <3> QED BY <2>2, <3>1, <3>2 DEF Named, Blockly
  <2> QED BY <2>1, <2>2
<1>4. ASSUME NEW c \in PaConfigs, Teardown(c) \/ Collect(c) PROVE Named'
  BY <1>4 DEF Teardown, Collect, Named, Blockly, PaTypeOK
<1>5. CASE UNCHANGED paVars
  BY <1>5 DEF paVars, Named, Blockly
<1> QED BY <1>1, <1>2, <1>3, <1>4, <1>5 DEF PaNext

(* Outside the hook, Named says that a live block engine meets its own contract. *)
LEMMA NamedIsContract == PaTypeOK /\ Named => ContractIsLive
BY PaAssumption DEF PaTypeOK, Named, Blockly, ContractIsLive, Contract, Deref, InMemory

(* Whatever engines start, fail, run the hook again, end and are collected, the
   handle, the hook's snapshot and the engines' phases stay well typed. *)
THEOREM AdmissionTypes == PaSpec => []PaTypeOK
<1>1. PaInit => PaTypeOK
  BY DEF PaInit, PaTypeOK
<1> QED BY <1>1, TypeStep, PTL DEF PaSpec

(* The requests of a live block engine are always checked against its own
   contract, however many engines share the process. *)
THEOREM ContractAlwaysLive == PaSpec => []ContractIsLive
<1>1. PaInit => PaTypeOK /\ Named
  BY PaAssumption DEF PaInit, PaTypeOK, Named, Blockly
<1> QED BY <1>1, TypeStep, NamedStep, NamedIsContract, PTL DEF PaSpec

-----------------------------------------------------------------------------
(* Speculative serving. *)

(* An admitted plan has a mode it can walk in and a draft cap for every batch;
   who is served by it asks for nothing its walks leave out. *)
PlanServes ==
  /\ PlanIsValid(svPlan) /\ CoversRows(svPlan)
  /\ svPlan.modes \cap {"logits", "argmax_ids"} # {}

SvTypeOK ==
  /\ svPlan \in SpecPlans /\ svUp \in BOOLEAN
  /\ svNeeds \in [SvReqs -> (SUBSET SvControls) \cup {NotHere}]
  /\ svLen \in [SvReqs -> Nat] /\ svDrafts \in [SvReqs -> Nat]
  /\ svCounts \in [SvReqs -> Nat \ {0}]

(* The count kept for a row is the model's candidate state, whoever is there is
   served in full by the launch, and nothing went wrong so far. *)
SvInv ==
  /\ SvTypeOK
  /\ svUp => PlanServes
  /\ \A r \in Resident : svUp /\ Serves(svNeeds[r])
  /\ svCounts = svState
  /\ svUnmet = {}
  /\ svFault = "none"

(* What a control is. *)
LEMMA ControlsAre ==
  NotHere \notin SUBSET SvControls
BY DEF NotHere, SvControls

(* The initial states satisfy the invariant. *)
LEMMA SvInitInv == SvInit => SvInv
<1> SUFFICES ASSUME SvInit PROVE SvInv
  OBVIOUS
<1>1. SvTypeOK
  <2>1. svPlan \in SpecPlans /\ svUp \in BOOLEAN
    BY SvAssumption DEF SvInit
  <2>2. svNeeds \in [SvReqs -> (SUBSET SvControls) \cup {NotHere}]
    BY DEF SvInit
  <2>3. svLen \in [SvReqs -> Nat] /\ svDrafts \in [SvReqs -> Nat] /\ svCounts \in [SvReqs -> Nat \ {0}]
    BY DEF SvInit
  <2> QED BY <2>1, <2>2, <2>3 DEF SvTypeOK
<1>2. Resident = {}
  BY DEF SvInit, Resident
<1> QED BY <1>1, <1>2 DEF SvInit, SvInv

(* The fields of a plan. *)
LEMMA PlanFields ==
  ASSUME SvTypeOK
  PROVE  /\ svPlan.narrow \in BOOLEAN
         /\ svPlan.k \in Nat /\ svPlan.kByRows \in Seq([rows : Nat, k : Nat])
         /\ svPlan.async \in BOOLEAN /\ svPlan.deviceGrammar \in BOOLEAN
BY DEF SvTypeOK, SpecPlans

(* Every batch of an admitted launch has a draft cap. *)
LEMMA CapIsPositive ==
  ASSUME SvTypeOK, PlanServes, NEW rows \in SUBSET SvReqs
  PROVE  DraftCap(Cardinality(rows)) \in Nat \ {0}
<1> DEFINE caps == svPlan.kByRows
           live == Cardinality(rows)
           fits == {i \in DOMAIN caps : live <= caps[i].rows}
<1>1. svPlan.k \in Nat \ {0} /\ caps \in Seq([rows : Nat, k : Nat])
  BY PlanFields DEF PlanServes, PlanIsValid
<1>2. live \in Nat /\ live <= Cardinality(SvReqs) /\ Cardinality(SvReqs) \in Nat
  BY SvAssumption, FS_Subset, FS_CardinalityType
<1>3. CASE caps = <<>>
  BY <1>1, <1>3 DEF DraftCap
<1>4. CASE caps # <<>>
  <2>1. Len(caps) \in DOMAIN caps /\ DOMAIN caps = 1 .. Len(caps) /\ Len(caps) \in Nat
    BY <1>1, <1>4
  <2>2. caps[Len(caps)].rows >= Cardinality(SvReqs)
    BY <1>4 DEF PlanServes, CoversRows, MaxNumSeqsSv, Last
  <2>3. caps[Len(caps)].rows \in Nat
    <3>1. caps[Len(caps)] \in [rows : Nat, k : Nat]
      <4>1. caps \in Seq([rows : Nat, k : Nat])
        BY <1>1
      <4> HIDE DEF caps
      <4> QED BY <4>1, <2>1, ElementOfSeq
    <3> QED BY <3>1
  <2>4. Len(caps) \in fits
    BY <1>2, <2>1, <2>2, <2>3
  <2>5. Min(fits) \in fits
    <3>1. fits \subseteq Nat /\ fits # {}
      BY <2>1, <2>4
    <3> HIDE DEF fits
    <3> QED BY <3>1, MinOfSet
  <2>6. caps[Min(fits)].k \in 1 .. svPlan.k
    BY <2>5 DEF PlanServes, PlanIsValid
  <2>7. DraftCap(live) = caps[Min(fits)].k
    BY <1>4, <2>4 DEF DraftCap
  <2> QED BY <1>1, <2>6, <2>7
<1> QED BY <1>3, <1>4

(* A step whose rows are certifiable leaves nothing out. *)
LEMMA CertifiedIsMet ==
  ASSUME NEW r, NEW device, NEW n, NEW masked, ArgmaxCertifiable(r, device)
  PROVE  UnmetBy(r, "argmax_ids", device, n, masked) = {}
<1>1. UnmetBy(r, "argmax_ids", device, n, masked) =
        IF device /\ svPlan.device = "draws_ids" THEN Pending(r) \ {"sampled"} ELSE Pending(r)
  BY DEF UnmetBy
<1> QED BY <1>1 DEF ArgmaxCertifiable

(* A launch that only walks ids, and every step of which is a verify, serves
   only requests without controls. *)
LEMMA PlainIsMet ==
  ASSUME SvInv, NEW r \in Resident, ~ServesLogits, ~svPlan.narrow, NEW device
  PROVE  ArgmaxCertifiable(r, device)
<1>1. svNeeds[r] \in SUBSET SvControls
  <2>1. svNeeds \in [SvReqs -> (SUBSET SvControls) \cup {NotHere}]
    BY DEF SvInv, SvTypeOK
  <2> QED BY <2>1 DEF Resident
<1>2. svNeeds[r] = {}
  BY <1>1 DEF SvInv, Serves, SvControls
<1> QED BY <1>2 DEF ArgmaxCertifiable, Pending

(* What a step that leaves the launch alone has to keep. *)
LEMMA SvKept ==
  ASSUME SvInv, svPlan' = svPlan, svUp' = svUp,
         svNeeds' \in [SvReqs -> (SUBSET SvControls) \cup {NotHere}],
         \A r \in Resident' : svUp /\ Serves(svNeeds'[r]),
         svLen' \in [SvReqs -> Nat], svDrafts' \in [SvReqs -> Nat],
         svCounts' \in [SvReqs -> Nat \ {0}], svCounts' = svState',
         svUnmet' = {}, svFault' = "none"
  PROVE  SvInv'
<1>1. SvTypeOK'
  BY DEF SvInv, SvTypeOK
<1>2. PlanServes' <=> PlanServes
  BY DEF PlanServes
<1>3. \A needs : Serves(needs)' <=> Serves(needs)
  BY DEF Serves, ServesLogits
<1>4. (\A r \in Resident : svUp /\ Serves(svNeeds[r]))'
  BY <1>3 DEF Serves, ServesLogits
<1> QED BY <1>1, <1>2, <1>4 DEF SvInv

(* Nobody is there before the launch is admitted. *)
LEMMA ResolvePlanInv == SvInv /\ ResolvePlan => SvInv'
<1> SUFFICES ASSUME SvInv, ResolvePlan PROVE SvInv'
  OBVIOUS
<1>1. svPlan \in SpecPlans
  BY DEF SvInv, SvTypeOK
<1>2. /\ svPlan' = [svPlan EXCEPT !.narrow = KeepsNarrow(svPlan), !.drafter = "resolved"]
      /\ svUp' = TRUE /\ ~svUp
      /\ PlanIsValid(svPlan) /\ CoversRows(svPlan)
      /\ svPlan.modes \cap {"logits", "argmax_ids"} # {}
      /\ svNeeds' = svNeeds /\ svLen' = svLen /\ svDrafts' = svDrafts /\ svCounts' = svCounts
      /\ svState' = svState /\ svUnmet' = svUnmet /\ svFault' = svFault
  BY DEF ResolvePlan, svRows
<1>3. KeepsNarrow(svPlan) \in BOOLEAN
  BY <1>1 DEF KeepsNarrow, SpecPlans
<1>4. svPlan' \in SpecPlans
  <2> DEFINE n == KeepsNarrow(svPlan)
  <2>1. n \in BOOLEAN /\ svPlan' = [svPlan EXCEPT !.narrow = n, !.drafter = "resolved"]
    BY <1>2, <1>3
  <2> HIDE DEF n
  <2>2. [svPlan EXCEPT !.narrow = n] \in SpecPlans
    BY <1>1, <2>1 DEF SpecPlans
  <2>3. svPlan' = [[svPlan EXCEPT !.narrow = n] EXCEPT !.drafter = "resolved"]
    BY <2>1
  <2>4. PICK p \in SpecPlans : svPlan' = [p EXCEPT !.drafter = "resolved"]
    BY <2>2, <2>3
  <2> QED BY <2>4 DEF SpecPlans
<1>5. /\ svPlan'.modes = svPlan.modes /\ svPlan'.k = svPlan.k
      /\ svPlan'.kByRows = svPlan.kByRows
  <2> DEFINE n == KeepsNarrow(svPlan)
  <2>1. svPlan' = [svPlan EXCEPT !.narrow = n, !.drafter = "resolved"]
    BY <1>2
  <2> HIDE DEF n
  <2> QED BY <1>1, <2>1 DEF SpecPlans
<1>6. PlanServes'
  BY <1>2, <1>5 DEF PlanServes, PlanIsValid, CoversRows
<1>7. Resident = {} /\ Resident' = Resident
  BY <1>2 DEF SvInv, Resident
<1>8. SvTypeOK'
  BY <1>2, <1>4 DEF SvInv, SvTypeOK
<1> QED BY <1>2, <1>6, <1>7, <1>8 DEF SvInv

(* A request that is admitted can be served. *)
LEMMA ArriveInv ==
  ASSUME SvInv, NEW r \in SvReqs, NEW needs \in SvNeeds, Arrive(r, needs)
  PROVE  SvInv'
<1>1. needs \in SUBSET SvControls
  BY SvAssumption
<1>2. svNeeds \in [SvReqs -> (SUBSET SvControls) \cup {NotHere}] /\ svLen \in [SvReqs -> Nat]
  BY DEF SvInv, SvTypeOK
<1>3. /\ svNeeds' = [svNeeds EXCEPT ![r] = needs] /\ svLen' = [svLen EXCEPT ![r] = 1]
      /\ svUp /\ Serves(needs) /\ svUnmet' = {}
      /\ svPlan' = svPlan /\ svUp' = svUp /\ svDrafts' = svDrafts /\ svCounts' = svCounts
      /\ svState' = svState /\ svFault' = svFault
  BY DEF Arrive
<1>4. svNeeds' \in [SvReqs -> (SUBSET SvControls) \cup {NotHere}] /\ svLen' \in [SvReqs -> Nat]
  BY <1>1, <1>2, <1>3
<1>5. \A q \in Resident' : svUp /\ Serves(svNeeds'[q])
  BY <1>2, <1>3 DEF SvInv, Resident
<1> QED BY <1>3, <1>4, <1>5, SvKept DEF SvInv, SvTypeOK

(* A finished request leaves the count of a fresh row. *)
LEMMA FinishInv ==
  ASSUME SvInv, NEW r \in SvReqs, Finish(r)
  PROVE  SvInv'
<1>1. /\ svNeeds \in [SvReqs -> (SUBSET SvControls) \cup {NotHere}]
      /\ svLen \in [SvReqs -> Nat] /\ svDrafts \in [SvReqs -> Nat]
      /\ svCounts \in [SvReqs -> Nat \ {0}] /\ svCounts = svState
  BY DEF SvInv, SvTypeOK
<1>2. /\ svNeeds' = [svNeeds EXCEPT ![r] = NotHere] /\ svLen' = [svLen EXCEPT ![r] = 0]
      /\ svDrafts' = [svDrafts EXCEPT ![r] = 0] /\ svCounts' = [svCounts EXCEPT ![r] = 1]
      /\ svState' = [svState EXCEPT ![r] = 1] /\ svUnmet' = {}
      /\ svPlan' = svPlan /\ svUp' = svUp /\ svFault' = svFault
  BY DEF Finish
<1>3. /\ svNeeds' \in [SvReqs -> (SUBSET SvControls) \cup {NotHere}]
      /\ svLen' \in [SvReqs -> Nat] /\ svDrafts' \in [SvReqs -> Nat]
      /\ svCounts' \in [SvReqs -> Nat \ {0}] /\ svCounts' = svState'
  BY <1>1, <1>2
<1>4. \A q \in Resident' : svUp /\ Serves(svNeeds'[q])
  BY <1>1, <1>2 DEF SvInv, Resident
<1> QED BY <1>2, <1>3, <1>4, SvKept DEF SvInv

(* A resumed request has no candidate state and no count of one. *)
LEMMA ResumeInv ==
  ASSUME SvInv, NEW r \in SvReqs, Resume(r)
  PROVE  SvInv'
<1>1. /\ svNeeds \in [SvReqs -> (SUBSET SvControls) \cup {NotHere}]
      /\ svLen \in [SvReqs -> Nat] /\ svDrafts \in [SvReqs -> Nat]
      /\ svCounts \in [SvReqs -> Nat \ {0}] /\ svCounts = svState
  BY DEF SvInv, SvTypeOK
<1>2. /\ svLen' = [svLen EXCEPT ![r] = @ + 1]
      /\ svDrafts' = IF svPlan.async THEN svDrafts ELSE [svDrafts EXCEPT ![r] = 0]
      /\ svCounts' = [q \in SvReqs |-> IF q \in {r} THEN 1 ELSE svCounts[q]]
      /\ svState' = [svState EXCEPT ![r] = 1] /\ svUnmet' = {}
      /\ svPlan' = svPlan /\ svUp' = svUp /\ svFault' = svFault /\ svNeeds' = svNeeds
  BY DEF Resume, ResetCounts
<1>3. svLen' \in [SvReqs -> Nat] /\ svDrafts' \in [SvReqs -> Nat]
  BY <1>1, <1>2
<1>4. svCounts' \in [SvReqs -> Nat \ {0}] /\ svCounts' = svState'
  <2>1. svCounts' \in [SvReqs -> Nat \ {0}]
    BY <1>1, <1>2
  <2>2. svState' \in [SvReqs -> Nat \ {0}]
    BY <1>1, <1>2
  <2>3. \A q \in SvReqs : svCounts'[q] = svState'[q]
    BY <1>1, <1>2
  <2> QED BY <2>1, <2>2, <2>3
<1>5. \A q \in Resident' : svUp /\ Serves(svNeeds'[q])
  BY <1>2 DEF SvInv, Resident
<1> QED BY <1>1, <1>2, <1>3, <1>4, <1>5, SvKept DEF SvInv

(* What a step publishes is a number of drafts per row. *)
LEMMA ProposalsType ==
  ASSUME NEW rows \in SUBSET SvReqs, NEW offer \in [rows -> Nat], NEW device,
         NEW len \in [SvReqs -> Nat], svDrafts \in [SvReqs -> Nat],
         \A r \in rows : len[r] <= SvRoom
  PROVE  Proposals(rows, offer, device, len) \in [SvReqs -> Nat]
<1>1. ASSUME NEW r \in SvReqs, r \in rows
      PROVE  Published(r, Min({offer[r], SvRoom - len[r]}), device) \in Nat
  <2>1. offer[r] \in Nat /\ SvRoom - len[r] \in Nat
    BY <1>1, SvAssumption
  <2>2. Min({offer[r], SvRoom - len[r]}) \in Nat
    BY <2>1, MinOfTwo
  <2> QED BY <2>2 DEF Published
<1> QED BY <1>1 DEF Proposals

(* An ordinary step is taken without the counts only where none is open. *)
LEMMA OrdinaryStepInv ==
  ASSUME SvInv, NEW rows \in SUBSET Resident, NEW offer \in [rows -> Nat],
         NEW device, NEW sent \in BOOLEAN, OrdinaryStep(rows, offer, device, sent),
         \A r \in rows : svLen[r] < SvRoom,
         ~sent => \A r \in rows : svCounts[r] <= 1,
         UNCHANGED <<svPlan, svUp, svNeeds>>
  PROVE  SvInv'
<1> DEFINE len == [r \in SvReqs |-> IF r \in rows THEN svLen[r] + 1 ELSE svLen[r]]
           ones == [r \in SvReqs |-> IF r \in rows THEN 1 ELSE svCounts[r]]
<1>1. /\ svNeeds \in [SvReqs -> (SUBSET SvControls) \cup {NotHere}]
      /\ svLen \in [SvReqs -> Nat] /\ svDrafts \in [SvReqs -> Nat]
      /\ svCounts \in [SvReqs -> Nat \ {0}] /\ svState = svCounts /\ rows \in SUBSET SvReqs
  BY DEF SvInv, SvTypeOK, Resident
<1>2. /\ svLen' = len /\ svCounts' = ones /\ svState' = ones
      /\ svDrafts' = Proposals(rows, offer, device, len)
      /\ svUnmet' = IF ~sent /\ \E r \in rows : svState[r] # 1 THEN {"state"} ELSE {}
      /\ svFault' = svFault
  BY <1>1 DEF OrdinaryStep
<1>3. len \in [SvReqs -> Nat] /\ \A r \in rows : len[r] <= SvRoom
  BY <1>1, SvAssumption
<1>4. ones \in [SvReqs -> Nat \ {0}]
  BY <1>1
<1> HIDE DEF len, ones
<1>5. svDrafts' \in [SvReqs -> Nat]
  BY <1>1, <1>2, <1>3, ProposalsType
<1>6. ~sent => \A r \in rows : svState[r] = 1
  BY <1>1
<1>7. svUnmet' = {}
  BY <1>2, <1>6
<1>8. \A q \in Resident' : svUp /\ Serves(svNeeds'[q])
  BY DEF SvInv, Resident
<1> QED BY <1>1, <1>2, <1>3, <1>4, <1>5, <1>7, <1>8, SvKept DEF SvInv

(* What a walk commits of a row that has room: at least one token, and no more
   than one behind its walked drafts. *)
LEMMA KeptIs ==
  ASSUME NEW accepted \in Int, NEW walked \in Int, NEW room \in Nat \ {0}, accepted >= 0, walked >= 0
  PROVE  /\ Min({1 + Min({accepted, walked}), room}) \in Nat \ {0}
         /\ Min({1 + Min({accepted, walked}), room}) <= 1 + walked
         /\ Min({1 + Min({accepted, walked}), room}) <= room
<1>1. Min({accepted, walked}) = IF accepted <= walked THEN accepted ELSE walked
  BY MinOfTwo
<1> DEFINE least == Min({accepted, walked})
<1>2. least \in Nat /\ least <= walked
  BY <1>1
<1> HIDE DEF least
<1>3. 1 + least \in Int
  BY <1>2
<1>4. Min({1 + least, room}) = IF 1 + least <= room THEN 1 + least ELSE room
  BY <1>3, MinOfTwo
<1> QED BY <1>2, <1>4 DEF least

(* A grammar's columns that are walked have a bitmask of their own. *)
LEMMA WalkedIsMasked ==
  ASSUME SvTypeOK, NEW r \in SvReqs, NEW valid \in Int, valid >= 0, NEW handedOver \in BOOLEAN,
         NEW n \in Int, n <= 1 + Validated(r, valid, handedOver),
         handedOver => svPlan.async
  PROVE  UnmetBy(r, "logits", FALSE, n, MaskedColumns(r, valid, handedOver)) = {}
<1>1. "grammar" \in svNeeds[r] => n <= MaskedColumns(r, valid, handedOver)
  BY PlanFields DEF Validated, MaskedColumns
<1>2. "grammar" \notin svNeeds[r] => "grammar" \notin Pending(r)
  BY DEF Pending
<1>3. MaskedColumns(r, valid, handedOver) \in Int
  BY DEF MaskedColumns
<1>4. UnmetBy(r, "logits", FALSE, n, MaskedColumns(r, valid, handedOver)) =
        IF n > MaskedColumns(r, valid, handedOver) THEN {"grammar"} \cap Pending(r) ELSE {}
  BY DEF UnmetBy
<1>5. CASE "grammar" \in svNeeds[r]
  <2> DEFINE M == MaskedColumns(r, valid, handedOver)
  <2>1. n <= M /\ M \in Int
    BY <1>1, <1>3, <1>5
  <2> HIDE DEF M
  <2>2. ~(n > M)
    BY <2>1
  <2> QED BY <1>4, <2>2 DEF M
<1>6. CASE "grammar" \notin svNeeds[r]
  BY <1>2, <1>4, <1>6
<1> QED BY <1>5, <1>6

(* Each row of a verify is certifiable when the verify walks ids. *)
LEMMA IdsAreCertified ==
  ASSUME SvInv, NEW rows \in SUBSET Resident, NEW valid, NEW device,
         StepVerifies(rows, valid, device), SpecMode(rows, device) = "argmax_ids",
         NEW r \in rows
  PROVE  ArgmaxCertifiable(r, device)
<1>1. CASE ServesLogits
  <2>1. SpecMode(rows, device) = IF "argmax_ids" \notin svPlan.modes THEN "logits"
          ELSE IF \A q \in rows : ArgmaxCertifiable(q, device) THEN "argmax_ids" ELSE "logits"
    BY <1>1 DEF SpecMode
  <2> QED BY <2>1
<1>2. CASE ~ServesLogits /\ ~svPlan.narrow
  BY <1>2, PlainIsMet
<1>3. CASE ~ServesLogits /\ svPlan.narrow
  BY <1>3 DEF StepVerifies, Speculable
<1> QED BY <1>1, <1>2, <1>3

(* A verify commits nothing that its walk could not serve, and keeps for each
   row the count of the candidate state it leaves. *)
LEMMA VerifyStepInv ==
  ASSUME SvInv, NEW rows \in SUBSET Resident, NEW valid \in [rows -> Nat],
         NEW offer \in [rows -> Nat], NEW accepted \in [rows -> Nat],
         NEW device \in BOOLEAN, NEW handedOver \in BOOLEAN, handedOver => svPlan.async,
         \A r \in rows : svLen[r] < SvRoom,
         StepVerifies(rows, valid, device),
         VerifyStep(rows, valid, offer, accepted, device, handedOver),
         UNCHANGED <<svPlan, svUp, svNeeds>>
  PROVE  SvInv'
<1> DEFINE mode == SpecMode(rows, device)
           walked(r) == Validated(r, valid[r], handedOver)
           kept == [r \in rows |-> Min({1 + Min({accepted[r], walked(r)}), SvRoom - svLen[r]})]
           len == [r \in SvReqs |-> IF r \in rows THEN svLen[r] + kept[r] ELSE svLen[r]]
           counts == [r \in SvReqs |-> IF r \in rows THEN Max({kept[r], 1}) ELSE svCounts[r]]
           unmet(r) == UnmetBy(r, mode, device, kept[r], MaskedColumns(r, valid[r], handedOver))
<1>1. /\ svNeeds \in [SvReqs -> (SUBSET SvControls) \cup {NotHere}]
      /\ svLen \in [SvReqs -> Nat] /\ svDrafts \in [SvReqs -> Nat]
      /\ svCounts \in [SvReqs -> Nat \ {0}] /\ svState = svCounts /\ rows \in SUBSET SvReqs
      /\ SvTypeOK /\ svFault = "none"
  BY DEF SvInv, SvTypeOK, Resident
<1>2. ~(mode = "argmax_ids" /\ \E r \in rows : "logprobs" \in svNeeds[r])
  <2>1. SUFFICES ASSUME mode = "argmax_ids", NEW r \in rows, "logprobs" \in svNeeds[r] PROVE FALSE
    OBVIOUS
  <2>2. ArgmaxCertifiable(r, device)
    BY <2>1, IdsAreCertified
  <2>3. "logprobs" \in Pending(r)
    BY <2>1 DEF Pending
  <2> QED BY <2>2, <2>3 DEF ArgmaxCertifiable
<1>3. /\ svLen' = len /\ svCounts' = counts /\ svState' = counts
      /\ svDrafts' = Proposals(rows, offer, device /\ mode = "argmax_ids", len)
      /\ svUnmet' = UNION {unmet(r) : r \in rows}
      /\ svFault' = svFault
  <2> HIDE DEF mode
  <2>1. svState' = [r \in SvReqs |-> IF r \in rows THEN Max({kept[r], 1}) ELSE svState[r]]
    BY <1>2 DEF VerifyStep, mode
  <2>2. svState' = counts
    BY <1>1, <2>1
  <2> QED BY <1>2, <2>2 DEF VerifyStep, mode
<1>4. ASSUME NEW r \in rows
      PROVE  /\ kept[r] \in Nat \ {0} /\ kept[r] <= 1 + walked(r)
             /\ walked(r) \in Nat /\ kept[r] <= SvRoom - svLen[r]
  <2>1. walked(r) \in Nat
    BY DEF Validated
  <2>2. SvRoom - svLen[r] \in Nat \ {0}
    BY <1>1, SvAssumption
  <2> DEFINE a == accepted[r]  w == walked(r)  room == SvRoom - svLen[r]
  <2>3. a \in Nat /\ w \in Nat /\ room \in Nat \ {0}
    BY <2>1, <2>2
  <2>4. kept[r] = Min({1 + Min({a, w}), room})
    OBVIOUS
  <2> HIDE DEF a, w, room
  <2>5. a \in Int /\ w \in Int /\ a >= 0 /\ w >= 0
    BY <2>3
  <2>6. /\ Min({1 + Min({a, w}), room}) \in Nat \ {0}
        /\ Min({1 + Min({a, w}), room}) <= 1 + w
        /\ Min({1 + Min({a, w}), room}) <= room
    BY <2>3, <2>5, KeptIs
  <2> HIDE DEF kept, walked
  <2> QED BY <2>3, <2>4, <2>6 DEF w, room
<1>5. ASSUME NEW r \in rows PROVE unmet(r) = {}
  <2>1. CASE mode = "argmax_ids"
    <3>1. ArgmaxCertifiable(r, device)
      BY <2>1, IdsAreCertified
    <3>2. unmet(r) = UnmetBy(r, "argmax_ids", device, kept[r], MaskedColumns(r, valid[r], handedOver))
      BY <2>1
    <3> QED BY <3>1, <3>2, CertifiedIsMet
  <2>2. CASE mode # "argmax_ids"
    <3>1. mode = "logits"
      BY <2>2 DEF SpecMode
    <3>2. unmet(r) = UnmetBy(r, "logits", device, kept[r], MaskedColumns(r, valid[r], handedOver))
      BY <3>1
    <3>3. UnmetBy(r, "logits", device, kept[r], MaskedColumns(r, valid[r], handedOver)) =
          UnmetBy(r, "logits", FALSE, kept[r], MaskedColumns(r, valid[r], handedOver))
      BY DEF UnmetBy
    <3>4. valid[r] \in Int /\ valid[r] >= 0 /\ r \in SvReqs
      BY <1>1
    <3>5. kept[r] \in Int /\ kept[r] <= 1 + Validated(r, valid[r], handedOver)
      BY <1>4
    <3>6. UnmetBy(r, "logits", FALSE, kept[r], MaskedColumns(r, valid[r], handedOver)) = {}
      <4> HIDE DEF kept
      <4> QED BY <1>1, <3>4, <3>5, WalkedIsMasked
    <3> QED BY <3>2, <3>3, <3>6
  <2> QED BY <2>1, <2>2
<1>6. svUnmet' = {}
  <2> HIDE DEF unmet
  <2> QED BY <1>3, <1>5
<1>7. len \in [SvReqs -> Nat] /\ \A r \in rows : len[r] <= SvRoom
  <2> HIDE DEF kept
  <2> QED BY <1>1, <1>4, SvAssumption
<1>8. counts \in [SvReqs -> Nat \ {0}]
  <2>1. ASSUME NEW r \in rows PROVE Max({kept[r], 1}) \in Nat \ {0}
    <3>1. kept[r] \in Nat \ {0}
      BY <1>4
    <3>2. \A n \in Nat \ {0} : Max({n, 1}) = n
      BY MaxOfTwo
    <3> HIDE DEF kept
    <3> QED BY <3>1, <3>2
  <2> HIDE DEF kept
  <2> QED BY <1>1, <2>1
<1>9. svDrafts' \in [SvReqs -> Nat]
  <2> HIDE DEF len, mode
  <2> QED BY <1>1, <1>3, <1>7, ProposalsType
<1>10. \A q \in Resident' : svUp /\ Serves(svNeeds'[q])
  BY DEF SvInv, Resident
<1> HIDE DEF len, counts
<1> QED BY <1>1, <1>3, <1>6, <1>7, <1>8, <1>9, <1>10, SvKept

(* A decode keeps the invariant, whatever its rows, budget, offers and luck. *)
LEMMA DecodeInv ==
  ASSUME SvInv, NEW rows \in SUBSET Resident, NEW budget \in 1 .. svPlan.k,
         NEW handedOver \in {svPlan.async, FALSE},
         NEW offer \in Amounts(rows), NEW accepted \in Amounts(rows),
         Decode(rows, budget, offer, accepted, handedOver)
  PROVE  SvInv'
<1> DEFINE device == DecodeDeviceSampled(rows)
           drafts == DraftsToVerify(rows, budget)
           cap    == DraftCap(Cardinality(rows))
           valid  == [r \in rows |-> Min({drafts[r], cap})]
<1>1. SvTypeOK /\ svUp /\ PlanServes /\ rows \in SUBSET SvReqs
  BY DEF SvInv, Decode, Resident
<1>2. svPlan.k \in Nat \ {0} /\ budget \in Nat \ {0} /\ budget <= svPlan.k
  <2>1. svPlan.k \in Nat /\ svPlan.k >= 1
    BY <1>1, PlanFields DEF PlanServes, PlanIsValid
  <2> QED BY <2>1
<1>3. cap \in Nat \ {0}
  BY <1>1, CapIsPositive
<1>4. offer \in [rows -> Nat] /\ accepted \in [rows -> Nat]
  <2> DEFINE some == {Min({n, svPlan.k}) : n \in SvAmounts}
  <2>1. ASSUME NEW n \in SvAmounts PROVE Min({n, svPlan.k}) \in Nat
    <3>1. n \in Nat
      BY SvAssumption
    <3> QED BY <1>2, <3>1, MinOfTwo
  <2>2. some \subseteq Nat
    BY <2>1
  <2> HIDE DEF some
  <2>3. offer \in [rows -> some] /\ accepted \in [rows -> some]
    BY DEF Amounts, some
  <2> QED BY <2>2, <2>3
<1>5. device \in BOOLEAN
  BY DEF DecodeDeviceSampled
<1>6. handedOver \in BOOLEAN /\ (handedOver => svPlan.async)
  BY <1>1, PlanFields
<1>7. \A r \in rows : drafts[r] \in Nat /\ drafts[r] <= svPlan.k
  <2> SUFFICES ASSUME NEW r \in rows PROVE drafts[r] \in Nat /\ drafts[r] <= svPlan.k
    OBVIOUS
  <2>1. svDrafts[r] \in Nat
    BY <1>1 DEF SvTypeOK
  <2>2. drafts[r] = Min({svDrafts[r], budget})
    BY DEF DraftsToVerify
  <2> HIDE DEF drafts
  <2> QED BY <1>2, <2>1, <2>2, MinOfTwo
<1>8. valid \in [rows -> Nat]
  <2>1. ASSUME NEW r \in rows PROVE Min({drafts[r], cap}) \in Nat
    <3>1. drafts[r] \in Nat
      BY <1>7
    <3> HIDE DEF drafts, cap
    <3> QED BY <1>3, <3>1, MinOfTwo
  <2> HIDE DEF drafts, cap
  <2> QED BY <2>1
<1> HIDE DEF device, drafts, cap, valid
<1>9. ~(cap = 0 \/ \E r \in rows : drafts[r] > svPlan.k)
  BY <1>2, <1>3, <1>7
<1>10. /\ UNCHANGED <<svPlan, svUp, svNeeds>>
       /\ \A r \in rows : svLen[r] < SvRoom
       /\ \/ Declined(rows, drafts) /\ OrdinaryStep(rows, offer, device, FALSE)
          \/ /\ StepVerifies(rows, valid, device)
             /\ VerifyStep(rows, valid, offer, accepted, device, handedOver)
          \/ OrdinaryStep(rows, offer, device, TRUE)
  BY <1>9 DEF Decode, device, drafts, cap, valid
<1>11. CASE Declined(rows, drafts) /\ OrdinaryStep(rows, offer, device, FALSE)
  <2>1. \A r \in rows : svCounts[r] <= 1
    BY <1>11 DEF Declined
  <2> QED BY <1>4, <1>10, <1>11, <2>1, OrdinaryStepInv
<1>12. CASE /\ StepVerifies(rows, valid, device)
            /\ VerifyStep(rows, valid, offer, accepted, device, handedOver)
  BY <1>4, <1>5, <1>6, <1>8, <1>10, <1>12, VerifyStepInv
<1>13. CASE OrdinaryStep(rows, offer, device, TRUE)
  BY <1>4, <1>10, <1>13, OrdinaryStepInv
<1> QED BY <1>10, <1>11, <1>12, <1>13

(* Whatever shares its steps, no row is served less than it asked for, and the
   runner's own raises stay unreachable: the invariant holds. *)
THEOREM SvInvariant == SvSpec => []SvInv
<1>1. SvInit => SvInv
  BY SvInitInv
<1>2. SvInv /\ [SvNext]_svVars => SvInv'
  <2> SUFFICES ASSUME SvInv, [SvNext]_svVars PROVE SvInv'
    OBVIOUS
  <2>1. CASE ResolvePlan
    BY <2>1, ResolvePlanInv
  <2>2. CASE \E r \in SvReqs, needs \in SvNeeds : Arrive(r, needs)
    BY <2>2, ArriveInv
  <2>3. CASE \E r \in SvReqs : Finish(r) \/ Resume(r)
    BY <2>3, FinishInv, ResumeInv
  <2>4. CASE \E rows \in SUBSET Resident, budget \in 1 .. svPlan.k,
                handedOver \in {svPlan.async, FALSE} :
               \E offer, accepted \in Amounts(rows) :
                 Decode(rows, budget, offer, accepted, handedOver)
    <3>1. PICK rows \in SUBSET Resident, budget \in 1 .. svPlan.k,
               handedOver \in {svPlan.async, FALSE} :
               \E offer, accepted \in Amounts(rows) :
                 Decode(rows, budget, offer, accepted, handedOver)
      BY <2>4
    <3>2. PICK offer \in Amounts(rows), accepted \in Amounts(rows) :
               Decode(rows, budget, offer, accepted, handedOver)
      BY <3>1
    <3> QED BY <3>2, DecodeInv
  <2>5. CASE UNCHANGED svVars
    BY <2>5 DEF svVars, svRows, SvInv, SvTypeOK, Resident, Serves, ServesLogits, PlanServes
  <2> QED BY <2>1, <2>2, <2>3, <2>4, <2>5 DEF SvNext
<1> QED BY <1>1, <1>2, PTL DEF SvSpec

(* A request is answered under every control it asked for, with the count of
   the state the model holds for it. *)
THEOREM ServingIsFaithful == SvSpec => []ServedFaithfully
<1>1. SvInv => ServedFaithfully
  BY DEF SvInv, ServedFaithfully
<1> QED BY <1>1, SvInvariant, PTL

(* No step of an admitted launch raises. *)
THEOREM ServingIsComplete == SvSpec => []StepsAreServed
<1>1. SvInv => StepsAreServed
  BY DEF SvInv, StepsAreServed
<1> QED BY <1>1, SvInvariant, PTL

-----------------------------------------------------------------------------
(* Weights: what the accept walk of a verify reads and draws from. *)

Weights == [Tokens -> Nat]

(* There are three tokens at least. *)
LEMMA TokensAre ==
  /\ SaVocab \in Nat /\ SaVocab > 2 /\ Tokens = 1 .. SaVocab
  /\ 1 \in Tokens /\ 2 \in Tokens /\ 3 \in Tokens /\ SaVocab \in Tokens
BY SaAssumption DEF Tokens

(* The partial sums of a distribution. *)
SumsUpTo(w, sum) ==
  sum[0] = 0 /\ \A v \in Tokens : sum[v] = sum[v - 1] + w[v]

(* The total weight is the last of them. *)
LEMMA TotalIs ==
  ASSUME NEW w \in Weights
  PROVE  \E sum \in [0 .. SaVocab -> Nat] : SumsUpTo(w, sum) /\ Total(w) = sum[SaVocab]
<1> DEFINE n == SaVocab
           V == Nat
           step == [v \in 1 .. n |-> [x \in V |-> x + w[v]]]
           Body(f) == [v \in 0 .. n |-> IF v = 0 THEN 0 ELSE f[v - 1] + w[v]]
           F == CHOOSE f : f = Body(f)
<1>1. n \in Nat /\ Tokens = 1 .. n /\ \A v \in 1 .. n : w[v] \in Nat
  BY TokensAre DEF Weights
<1>2. \A x \in V, v \in 1 .. n : x + w[v] \in V
  BY <1>1
<1>3. Total(w) = F[n]
  BY DEF Total
<1> HIDE DEF n
<1>4. step \in [1 .. n -> [V -> V]]
  BY <1>2
<1>5. PICK g : Iteration(n, V, 0, step, g)
  <2> HIDE DEF step
  <2>1. 0 \in V
    OBVIOUS
  <2> QED BY <1>1, <1>4, <2>1, Iterates
<1>6. g \in [0 .. n -> V] /\ g[0] = 0 /\ \A i \in 1 .. n : g[i] = step[i][g[i - 1]]
  <2> HIDE DEF step
  <2> QED BY <1>5 DEF Iteration
<1>7. \A i \in 1 .. n : g[i] = g[i - 1] + w[i]
  <2> SUFFICES ASSUME NEW i \in 1 .. n PROVE g[i] = g[i - 1] + w[i]
    OBVIOUS
  <2>1. g[i - 1] \in V
    <3>1. i - 1 \in 0 .. n
      BY <1>1
    <3> HIDE DEF step
    <3> QED BY <1>6, <3>1
  <2>2. step[i][g[i - 1]] = g[i - 1] + w[i]
    BY <2>1
  <2> HIDE DEF step
  <2> QED BY <1>6, <2>2
<1>8. g = Body(g)
  <2> HIDE DEF step
  <2>1. \A i \in 0 .. n : g[i] = IF i = 0 THEN 0 ELSE g[i - 1] + w[i]
    BY <1>1, <1>6, <1>7
  <2> QED BY <1>6, <2>1
<1>9. F = Body(F)
  <2> HIDE DEF Body
  <2> QED BY <1>8
<1> HIDE DEF F, step
<1>10. \A i \in 0 .. n : F[i] = IF i = 0 THEN 0 ELSE F[i - 1] + w[i]
  <2>1. \A i \in 0 .. n : Body(F)[i] = IF i = 0 THEN 0 ELSE F[i - 1] + w[i]
    OBVIOUS
  <2> HIDE DEF Body
  <2> QED BY <1>9, <2>1
<1> DEFINE P == {i \in 0 .. n : F[i] = g[i]}
<1>11. 0 \in P
  BY <1>1, <1>6, <1>10
<1>12. ASSUME NEW i \in 1 .. n, i - 1 \in P PROVE i \in P
  <2>1. F[i] = F[i - 1] + w[i] /\ g[i] = g[i - 1] + w[i] /\ F[i - 1] = g[i - 1] /\ i \in 0 .. n
    BY <1>1, <1>7, <1>10, <1>12
  <2> QED BY <2>1
<1>13. n \in P
  <2> HIDE DEF P
  <2>1. \A i \in 0 .. n : i \in P
    BY <1>1, <1>11, <1>12, UpTo
  <2> QED BY <1>1, <2>1
<1>14. Total(w) = g[n]
  BY <1>3, <1>13
<1>15. SumsUpTo(w, g)
  BY <1>1, <1>6, <1>7 DEF SumsUpTo
<1> QED BY <1>6, <1>14, <1>15 DEF n

(* Nothing has weight when the total is zero. *)
LEMMA TotalZero ==
  ASSUME NEW w \in Weights
  PROVE  /\ Total(w) \in Nat
         /\ Total(w) = 0 => \A v \in Tokens : w[v] = 0
<1>1. PICK sum \in [0 .. SaVocab -> Nat] : SumsUpTo(w, sum) /\ Total(w) = sum[SaVocab]
  BY TotalIs
<1> DEFINE n == SaVocab
<1>2. /\ n \in Nat /\ Tokens = 1 .. n /\ \A v \in 1 .. n : w[v] \in Nat
      /\ \A i \in 0 .. n : sum[i] \in Nat
  BY TokensAre DEF Weights
<1>3. \A i \in 1 .. n : sum[i] = sum[i - 1] + w[i] /\ i - 1 \in 0 .. n
  BY <1>1, <1>2 DEF SumsUpTo
<1> HIDE DEF n
<1>4. ASSUME sum[n] = 0 PROVE \A v \in 1 .. n : w[v] = 0
  <2> DEFINE P == {k \in 0 .. n : sum[n - k] = 0}
  <2>1. 0 \in P
    BY <1>2, <1>4
  <2>2. ASSUME NEW k \in 1 .. n, k - 1 \in P PROVE k \in P
    <3> DEFINE i == n - (k - 1)
    <3>1. i \in 1 .. n /\ n - k = i - 1 /\ k \in 0 .. n
      BY <1>2
    <3>2. sum[i] = 0
      BY <2>2
    <3>3. sum[i] = sum[i - 1] + w[i] /\ sum[i - 1] \in Nat /\ w[i] \in Nat
      BY <1>2, <1>3, <3>1
    <3> HIDE DEF i
    <3>4. sum[i - 1] = 0
      BY <3>2, <3>3
    <3> QED BY <3>1, <3>4
  <2>3. \A k \in 0 .. n : k \in P
    <3> HIDE DEF P
    <3> QED BY <1>2, <2>1, <2>2, UpTo
  <2>4. \A i \in 0 .. n : sum[i] = 0
    <3> SUFFICES ASSUME NEW i \in 0 .. n PROVE sum[i] = 0
      OBVIOUS
    <3>1. n - i \in 0 .. n /\ n - (n - i) = i
      BY <1>2
    <3>2. n - i \in P
      BY <2>3, <3>1
    <3> QED BY <3>1, <3>2
  <2> SUFFICES ASSUME NEW v \in 1 .. n PROVE w[v] = 0
    OBVIOUS
  <2>5. sum[v] = sum[v - 1] + w[v] /\ v \in 0 .. n /\ v - 1 \in 0 .. n /\ w[v] \in Nat
    BY <1>2, <1>3
  <2>6. sum[v] = 0 /\ sum[v - 1] = 0
    BY <2>4, <2>5
  <2> QED BY <2>5, <2>6
<1>5. Total(w) = sum[n] /\ sum[n] \in Nat
  BY <1>1, <1>2 DEF n
<1> QED BY <1>2, <1>4, <1>5

(* And the total is zero when nothing has weight. *)
LEMMA ZeroTotal ==
  ASSUME NEW w \in Weights, \A v \in Tokens : w[v] = 0
  PROVE  Total(w) = 0
<1>1. PICK sum \in [0 .. SaVocab -> Nat] : SumsUpTo(w, sum) /\ Total(w) = sum[SaVocab]
  BY TotalIs
<1> DEFINE n == SaVocab
           P == {k \in 0 .. n : sum[k] = 0}
<1>2. n \in Nat /\ Tokens = 1 .. n
  BY TokensAre
<1>3. \A i \in 1 .. n : sum[i] = sum[i - 1] + w[i] /\ w[i] = 0
  BY <1>1, <1>2 DEF SumsUpTo
<1>4. 0 \in P
  BY <1>1, <1>2 DEF SumsUpTo
<1>5. ASSUME NEW i \in 1 .. n, i - 1 \in P PROVE i \in P
  <2>1. i \in 0 .. n /\ sum[i] = sum[i - 1] + w[i] /\ w[i] = 0 /\ sum[i - 1] = 0
    BY <1>2, <1>3, <1>5
  <2> QED BY <2>1
<1>6. n \in P
  <2> HIDE DEF P, n
  <2>1. \A i \in 0 .. n : i \in P
    BY <1>2, <1>4, <1>5, UpTo
  <2> QED BY <1>2, <2>1
<1> QED BY <1>1, <1>6

(* Taking a draft out of a distribution takes its weight from the total. *)
LEMMA ResidualTotal ==
  ASSUME NEW w \in Weights, NEW d \in Tokens
  PROVE  Residual(w, d) \in Weights /\ Total(w) = Total(Residual(w, d)) + w[d]
<1> DEFINE r == Residual(w, d)
<1>1. r \in Weights /\ r[d] = 0 /\ \A v \in Tokens \ {d} : r[v] = w[v]
  BY DEF Residual, Weights
<1> HIDE DEF r
<1>2. PICK sum \in [0 .. SaVocab -> Nat] : SumsUpTo(w, sum) /\ Total(w) = sum[SaVocab]
  BY TotalIs
<1>3. PICK left \in [0 .. SaVocab -> Nat] : SumsUpTo(r, left) /\ Total(r) = left[SaVocab]
  BY <1>1, TotalIs
<1> DEFINE n == SaVocab
           P == {k \in 0 .. n : sum[k] = left[k] + (IF k >= d THEN w[d] ELSE 0)}
<1>4. /\ n \in Nat /\ Tokens = 1 .. n /\ d \in 1 .. n
      /\ \A v \in 1 .. n : w[v] \in Nat /\ r[v] \in Nat
      /\ \A i \in 0 .. n : sum[i] \in Nat /\ left[i] \in Nat
  BY <1>1, TokensAre DEF Weights
<1>5. 0 \in P
  BY <1>2, <1>3, <1>4 DEF SumsUpTo
<1> DEFINE extra(k) == IF k >= d THEN w[d] ELSE 0
<1>6. ASSUME NEW k \in 1 .. n, k - 1 \in P PROVE k \in P
  <2>1. sum[k] = sum[k - 1] + w[k] /\ left[k] = left[k - 1] + r[k]
    BY <1>2, <1>3, <1>4 DEF SumsUpTo
  <2>2. k \in 0 .. n /\ k - 1 \in 0 .. n /\ k \in Tokens
    BY <1>4
  <2>3. /\ sum[k - 1] \in Nat /\ left[k - 1] \in Nat /\ w[k] \in Nat /\ r[k] \in Nat /\ w[d] \in Nat
        /\ d \in Nat /\ k \in Nat
    BY <1>4, <2>2
  <2>4. (k = d => r[k] = 0) /\ (k # d => r[k] = w[k])
    BY <1>1, <2>2
  <2>5. sum[k - 1] = left[k - 1] + extra(k - 1)
    BY <1>6
  <2>6. sum[k] = left[k] + extra(k)
    <3>1. CASE k = d
      <4>1. extra(k) = w[d] /\ extra(k - 1) = 0
        BY <2>3, <3>1
      <4> HIDE DEF extra, P
      <4> QED BY <2>1, <2>3, <2>4, <2>5, <3>1, <4>1
    <3>2. CASE k > d
      <4>1. extra(k) = w[d] /\ extra(k - 1) = w[d]
        BY <2>3, <3>2
      <4> HIDE DEF extra, P
      <4> QED BY <2>1, <2>3, <2>4, <2>5, <3>2, <4>1
    <3>3. CASE k < d
      <4>1. extra(k) = 0 /\ extra(k - 1) = 0
        BY <2>3, <3>3
      <4> HIDE DEF extra, P
      <4> QED BY <2>1, <2>3, <2>4, <2>5, <3>3, <4>1
    <3> QED BY <2>3, <3>1, <3>2, <3>3
  <2> QED BY <2>2, <2>6
<1>7. n \in P
  <2> HIDE DEF P, n
  <2>1. \A i \in 0 .. n : i \in P
    BY <1>4, <1>5, <1>6, UpTo
  <2> QED BY <1>4, <2>1
<1>8. sum[n] = left[n] + w[d]
  BY <1>4, <1>7
<1> QED BY <1>1, <1>2, <1>3, <1>8 DEF r

(* A distribution has a heaviest token. *)
LEMMA HeaviestExists ==
  ASSUME NEW w \in Weights
  PROVE  \E v \in Tokens : \A u \in Tokens : w[u] <= w[v]
<1> DEFINE n == SaVocab
           P == {k \in 0 .. n : k > 0 => \E v \in 1 .. k : \A u \in 1 .. k : w[u] <= w[v]}
<1>1. n \in Nat /\ n > 0 /\ Tokens = 1 .. n /\ \A v \in 1 .. n : w[v] \in Nat
  BY TokensAre DEF Weights
<1> HIDE DEF n
<1>2. 0 \in P
  BY <1>1
<1>3. ASSUME NEW k \in 1 .. n, k - 1 \in P PROVE k \in P
  <2>1. CASE k = 1
    <3>1. \A u \in 1 .. k : w[u] <= w[1]
      BY <1>1, <2>1
    <3> QED BY <1>1, <2>1, <3>1
  <2>2. CASE k > 1
    <3>1. PICK v \in 1 .. k - 1 : \A u \in 1 .. k - 1 : w[u] <= w[v]
      BY <1>1, <1>3, <2>2
    <3>2. v \in 1 .. k /\ w[v] \in Nat /\ w[k] \in Nat /\ \A u \in 1 .. k : u = k \/ u \in 1 .. k - 1
      BY <1>1, <3>1
    <3>3. CASE w[k] <= w[v]
      <4>1. \A u \in 1 .. k : w[u] <= w[v]
        BY <3>1, <3>2, <3>3
      <4> QED BY <1>1, <3>2, <4>1
    <3>4. CASE w[k] > w[v]
      <4>1. \A u \in 1 .. k - 1 : w[u] \in Nat /\ w[u] <= w[k]
        BY <1>1, <3>1, <3>2, <3>4
      <4>2. \A u \in 1 .. k : w[u] <= w[k]
        BY <3>2, <4>1
      <4> QED BY <1>1, <4>2
    <3> QED BY <3>2, <3>3, <3>4
  <2> QED BY <1>1, <2>1, <2>2
<1>4. n \in P
  <2> HIDE DEF P
  <2>1. \A i \in 0 .. n : i \in P
    BY <1>1, <1>2, <1>3, UpTo
  <2> QED BY <1>1, <2>1
<1> QED BY <1>1, <1>4

(* The argmax is one. *)
LEMMA BestIs ==
  ASSUME NEW w \in Weights
  PROVE  /\ Best(w) \in Tokens /\ \A u \in Tokens : w[u] <= w[Best(w)]
         /\ (\E u \in Tokens : w[u] > 0) => w[Best(w)] > 0
<1> DEFINE B == {v \in Tokens : \A u \in Tokens : w[u] <= w[v]}
<1>1. B # {} /\ B \subseteq Nat
  BY HeaviestExists, TokensAre
<1>2. Best(w) = Min(B)
  BY DEF Best
<1>3. Best(w) \in B
  <2> HIDE DEF B
  <2> QED BY <1>1, <1>2, MinOfSet
<1>4. \A u \in Tokens : w[u] \in Nat
  BY DEF Weights
<1> QED BY <1>3, <1>4

(* Top-k keeps the heaviest token, and gives no weight to any. *)
LEMMA TopKIs ==
  ASSUME NEW w \in Weights, saCtl.topk \in Nat, saCtl.topk > 0
  PROVE  /\ TopK(w) \in Weights
         /\ \A v \in Tokens : TopK(w)[v] > 0 => w[v] > 0
         /\ (\E v \in Tokens : w[v] > 0) => \E v \in Tokens : TopK(w)[v] > 0
<1> DEFINE heavier(v) == {u \in Tokens : w[u] > w[v]}
           p == TopK(w)
<1>1. p = [v \in Tokens |-> IF Cardinality(heavier(v)) < saCtl.topk THEN w[v] ELSE 0]
  BY DEF TopK
<1>2. \A v \in Tokens : w[v] \in Nat
  BY DEF Weights
<1> HIDE DEF p
<1>3. p \in Weights
  BY <1>1, <1>2 DEF Weights
<1>4. \A v \in Tokens : p[v] > 0 => w[v] > 0
  BY <1>1
<1>5. ASSUME NEW x \in Tokens, w[x] > 0 PROVE \E v \in Tokens : p[v] > 0
  <2>1. PICK v \in Tokens : \A u \in Tokens : w[u] <= w[v]
    BY HeaviestExists
  <2>2. heavier(v) = {}
    BY <1>2, <2>1
  <2>3. Cardinality(heavier(v)) = 0
    BY <2>2, FS_EmptySet
  <2> HIDE DEF heavier
  <2>4. p[v] = w[v]
    BY <1>1, <2>3
  <2>5. w[x] \in Nat /\ w[v] \in Nat /\ w[x] <= w[v]
    BY <1>2, <2>1
  <2> QED BY <1>5, <2>4, <2>5
<1> QED BY <1>3, <1>4, <1>5 DEF p

(* The favoured token wins the race of a distribution if it may, and one that
   may wins it. *)
LEMMA WinnerIs ==
  ASSUME NEW w \in Weights, NEW race \in Tokens, \E v \in Tokens : w[v] > 0
  PROVE  RaceWinner(w, race) \in Tokens /\ w[RaceWinner(w, race)] > 0
<1>1. CASE w[race] > 0
  BY <1>1 DEF RaceWinner
<1>2. CASE ~(w[race] > 0)
  BY <1>2, BestIs DEF RaceWinner
<1> QED BY <1>1, <1>2

(* What is left when a draft with less than all the weight is rejected. *)
LEMMA ResidualPositive ==
  ASSUME NEW w \in Weights, NEW d \in Tokens, \E v \in Tokens : w[v] > 0,
         w[d] = 0 \/ w[d] # Total(w)
  PROVE  /\ Residual(w, d) \in Weights
         /\ \E v \in Tokens : Residual(w, d)[v] > 0
         /\ \A v \in Tokens : Residual(w, d)[v] > 0 => w[v] > 0
<1> DEFINE r == Residual(w, d)
<1>1. r \in Weights /\ Total(w) = Total(r) + w[d]
  BY ResidualTotal
<1>2. \A v \in Tokens : w[v] \in Nat /\ (v # d => r[v] = w[v]) /\ (v = d => r[v] = 0)
  BY DEF Residual, Weights
<1> HIDE DEF r
<1>3. CASE w[d] = 0
  BY <1>1, <1>2, <1>3 DEF r
<1>4. CASE w[d] # Total(w)
  <2>1. Total(r) # 0
    BY <1>1, <1>2, <1>4, TotalZero
  <2>2. Total(r) \in Nat /\ \A v \in Tokens : r[v] \in Nat
    BY <1>1, TotalZero DEF Weights
  <2>3. PICK v \in Tokens : r[v] > 0
    <3>1. ASSUME \A v \in Tokens : r[v] = 0 PROVE Total(r) = 0
      BY <1>1, <3>1, ZeroTotal
    <3> QED BY <2>1, <2>2, <3>1
  <2> QED BY <1>1, <1>2, <2>3 DEF r
<1> QED BY <1>3, <1>4

-----------------------------------------------------------------------------
(* What the ordinary sampler may draw. *)

(* The controls a request may have. *)
LEMMA SaControlsAre ==
  ASSUME saCtl \in Controls
  PROVE  /\ saCtl.greedy \in BOOLEAN /\ saCtl.grammar \in BOOLEAN /\ saCtl.penalised \in BOOLEAN
         /\ saCtl.topk \in {2, SaVocab} /\ saCtl.allowed \in {Tokens, Tokens \ {2}}
         /\ saCtl.words \in {{}, {<<1, 3>>}} /\ saCtl.min \in {0, 2}
         /\ saCtl.grammar => "grammar" \in InUse(saCtl)
         /\ saCtl.penalised => "penalised" \in InUse(saCtl)
         /\ saCtl.allowed # Tokens => "allowed" \in InUse(saCtl)
         /\ saCtl.words # {} => "words" \in InUse(saCtl)
         /\ saCtl.min # 0 => "min" \in InUse(saCtl)
         /\ saCtl.topk # SaVocab => "topk" \in InUse(saCtl)
BY DEF Controls, InUse, NoControls

(* At most two of them are in use. *)
LEMMA TwoInUse ==
  ASSUME saCtl \in Controls, NEW a \in InUse(saCtl), NEW b \in InUse(saCtl), NEW c \in InUse(saCtl)
  PROVE  a = b \/ b = c \/ a = c
<1> DEFINE used == InUse(saCtl)
<1>1. Cardinality(used) <= 2
  BY DEF Controls
<1>2. IsFiniteSet(used)
  <2> DEFINE all == {"topk", "allowed", "grammar", "words", "min", "penalised"}
  <2>1. used \subseteq all
    BY DEF InUse, NoControls
  <2>2. IsFiniteSet({}) /\ Cardinality({}) = 0
    BY FS_EmptySet
  <2>3. \A S, x : IsFiniteSet(S) => IsFiniteSet(S \cup {x})
    BY FS_AddElement
  <2>4. IsFiniteSet({} \cup {"topk"} \cup {"allowed"} \cup {"grammar"} \cup {"words"} \cup {"min"} \cup {"penalised"})
    BY <2>2, <2>3
  <2>5. all = {} \cup {"topk"} \cup {"allowed"} \cup {"grammar"} \cup {"words"} \cup {"min"} \cup {"penalised"}
    OBVIOUS
  <2>6. IsFiniteSet(all)
    BY <2>4, <2>5
  <2> HIDE DEF all, used
  <2> QED BY <2>1, <2>6, FS_Subset
<1>3. a \in used /\ b \in used /\ c \in used
  OBVIOUS
<1> HIDE DEF used
<1> SUFFICES ASSUME a # b, b # c, a # c PROVE FALSE
  OBVIOUS
<1> DEFINE one == {} \cup {a}  two == one \cup {b}  three == two \cup {c}  none == {}
<1>4. IsFiniteSet(none) /\ Cardinality(none) = 0
  BY FS_EmptySet
<1>5. one = none \cup {a} /\ a \notin none /\ b \notin one /\ c \notin two /\ three \subseteq used
  BY <1>3
<1>6. two = one \cup {b} /\ three = two \cup {c}
  OBVIOUS
<1> HIDE DEF none, one, two, three
<1>7. IsFiniteSet(one) /\ Cardinality(one) = 1
  BY <1>4, <1>5, FS_AddElement
<1>8. IsFiniteSet(two) /\ Cardinality(two) = 2
  BY <1>5, <1>6, <1>7, FS_AddElement
<1>9. IsFiniteSet(three) /\ Cardinality(three) = 3
  <2>1. IsFiniteSet(two) /\ c \notin two /\ three = two \cup {c}
    BY <1>5, <1>6, <1>8
  <2>2. IsFiniteSet(three) /\ Cardinality(three) = Cardinality(two) + 1
    BY <2>1, FS_AddElement
  <2> QED BY <1>8, <2>2
<1>10. Cardinality(three) <= Cardinality(used) /\ Cardinality(used) \in Nat
  BY <1>2, <1>5, FS_Subset, FS_CardinalityType
<1> QED BY <1>1, <1>9, <1>10

(* Every token has weight for the model, and keeps some when it is penalised. *)
LEMMA WeightPositive ==
  ASSUME NEW h \in Seq(Tokens), NEW v \in Tokens
  PROVE  /\ RawWeight(h, v) \in Nat /\ RawWeight(h, v) > 0
         /\ Penalised(h, RawWeight(h, v), v) \in Nat /\ Penalised(h, RawWeight(h, v), v) > 0
<1>1. LastOf(h) \in Nat
  <2>1. CASE h = <<>>
    BY <2>1 DEF LastOf
  <2>2. CASE h # <<>>
    <3>1. h[Len(h)] \in Tokens
      BY <2>2
    <3> QED BY <2>2, <3>1, TokensAre DEF LastOf, Last
  <2> QED BY <2>1, <2>2
<1> DEFINE x == LastOf(h) + v  y == x % SaVocab  w == RawWeight(h, v)
           same == {i \in DOMAIN h : h[i] = v}
<1>2. x \in Nat /\ SaVocab \in Nat /\ SaVocab > 0
  BY <1>1, TokensAre
<1>3. w = 2 * y + 2
  BY DEF RawWeight
<1> HIDE DEF x, w
<1>4. y \in Nat
  BY <1>2
<1> HIDE DEF y
<1>5. w \in Nat /\ w > 0
  BY <1>3, <1>4
<1>6. Cardinality(same) \in Nat
  <2>1. Len(h) \in Nat /\ DOMAIN h = 1 .. Len(h)
    OBVIOUS
  <2>2. IsFiniteSet(1 .. Len(h))
    BY <2>1, FS_Interval
  <2>3. same \subseteq 1 .. Len(h)
    BY <2>1
  <2> HIDE DEF same
  <2> QED BY <2>2, <2>3, FS_Subset, FS_CardinalityType
<1> DEFINE k == w - 3 * Cardinality(same)
<1>7. k \in Int /\ Penalised(h, w, v) = Max({1, k})
  BY <1>5, <1>6 DEF Penalised
<1> HIDE DEF k
<1>8. Max({1, k}) = IF 1 >= k THEN 1 ELSE k
  BY <1>7, MaxOfTwo
<1>9. Penalised(h, w, v) \in Nat /\ Penalised(h, w, v) > 0
  BY <1>7, <1>8
<1> QED BY <1>5, <1>9 DEF w

(* The tokens the controls leave after a history. *)
Left(h, v) ==
  /\ v \in saCtl.allowed
  /\ saCtl.grammar => Follows(h, v)
  /\ ~EndsWord(h, v, saCtl.words)
  /\ v = StopToken => Len(h) >= saCtl.min

(* They are those with weight, and there is one after every history: two
   controls do not rule out three tokens. *)
LEMMA PlainIs ==
  ASSUME saCtl \in Controls, NEW h \in Seq(Tokens)
  PROVE  /\ PlainLogits(h) \in Weights
         /\ \A v \in Tokens : PlainLogits(h)[v] > 0 <=> Left(h, v)
         /\ \E v \in Tokens : PlainLogits(h)[v] > 0
<1> DEFINE w == PlainLogits(h)
           weight(v) == IF saCtl.penalised THEN Penalised(h, RawWeight(h, v), v) ELSE RawWeight(h, v)
<1>1. \A v \in Tokens : weight(v) \in Nat /\ weight(v) > 0
  BY WeightPositive
<1>2. w = [v \in Tokens |-> IF Left(h, v) THEN weight(v) ELSE 0]
  BY DEF PlainLogits, Left
<1> HIDE DEF w, weight
<1>3. w \in Weights
  BY <1>1, <1>2 DEF Weights
<1>4. \A v \in Tokens : w[v] > 0 <=> Left(h, v)
  BY <1>1, <1>2
<1>5. \E v \in Tokens : Left(h, v)
  <2> SUFFICES ASSUME ~Left(h, 1), ~Left(h, 2), ~Left(h, 3) PROVE FALSE
    BY TokensAre
  <2>1. saCtl.grammar /\ h # <<>> /\ Last(h) = 1
    <3>1. 1 \in saCtl.allowed /\ 1 # StopToken
      BY SaControlsAre, TokensAre DEF StopToken
    <3>2. ~EndsWord(h, 1, saCtl.words)
      BY SaControlsAre DEF EndsWord
    <3> QED BY <3>1, <3>2 DEF Left, Follows
  <2>2. saCtl.allowed # Tokens
    <3>1. 2 # StopToken /\ 2 \in Tokens
      BY TokensAre DEF StopToken
    <3>2. ~EndsWord(h, 2, saCtl.words)
      BY SaControlsAre DEF EndsWord
    <3>3. Follows(h, 2)
      BY <2>1 DEF Follows
    <3> QED BY <3>1, <3>2, <3>3 DEF Left
  <2>3. saCtl.words # {} \/ saCtl.min # 0
    <3>1. 3 \in saCtl.allowed
      BY SaControlsAre, TokensAre
    <3>2. Follows(h, 3)
      BY <2>1 DEF Follows
    <3>3. saCtl.words = {} => ~EndsWord(h, 3, saCtl.words)
      BY DEF EndsWord
    <3>4. Len(h) \in Nat
      OBVIOUS
    <3> QED BY <3>1, <3>2, <3>3, <3>4 DEF Left
  <2>4. "grammar" \in InUse(saCtl) /\ "allowed" \in InUse(saCtl)
    BY <2>1, <2>2, SaControlsAre
  <2>5. CASE saCtl.words # {}
    <3>1. "words" \in InUse(saCtl)
      BY <2>5, SaControlsAre
    <3> QED BY <2>4, <3>1, TwoInUse
  <2>6. CASE saCtl.min # 0
    <3>1. "min" \in InUse(saCtl)
      BY <2>6, SaControlsAre
    <3> QED BY <2>4, <3>1, TwoInUse
  <2> QED BY <2>3, <2>5, <2>6
<1>6. \E v \in Tokens : w[v] > 0
  BY <1>4, <1>5
<1> QED BY <1>3, <1>4, <1>6 DEF w

-----------------------------------------------------------------------------
(* The columns of a verify. *)

(* What the j-th column is scored after, when all the drafts before it are
   committed. *)
After(drafts, j) == saOut \o SubSeq(drafts, 1, j)

(* Histories lengthen by a draft. *)
LEMMA HistoryIs ==
  ASSUME saOut \in Seq(Tokens), NEW valid \in 0 .. SaK, NEW drafts \in DraftBlocks(valid),
         NEW j \in 0 .. valid
  PROVE  /\ History(j, drafts, valid) = After(drafts, j)
         /\ After(drafts, j) \in Seq(Tokens) /\ Len(After(drafts, j)) = Len(saOut) + j
<1>1. /\ SaK \in Nat /\ valid \in Nat /\ j \in Nat /\ j <= valid /\ valid <= SaK
  BY SaAssumption
<1>2. Min({j, valid}) = j
  BY <1>1, MinOfTwo
<1>3. \A i \in 1 .. j : drafts[i] \in Tokens
  <2> SUFFICES ASSUME NEW i \in 1 .. j PROVE drafts[i] \in Tokens
    OBVIOUS
  <2>1. i \in 1 .. SaK /\ ~(i > valid)
    BY <1>1
  <2> QED BY <2>1 DEF DraftBlocks
<1>4. drafts \in Seq(Tokens \cup {Pad}) /\ Len(drafts) = SaK
  <2>1. drafts \in [1 .. SaK -> Tokens \cup {Pad}]
    BY DEF DraftBlocks
  <2> QED BY <1>1, <2>1, FunctionIsSeq
<1> DEFINE s == SubSeq(drafts, 1, j)
<1>5. s \in Seq(Tokens) /\ Len(s) = j
  <2>1. s = [i \in 1 .. j |-> drafts[i]]
    BY <1>1, <1>4
  <2>2. s \in [1 .. j -> Tokens]
    BY <1>3, <2>1
  <2> HIDE DEF s
  <2> QED BY <1>1, <2>2, FunctionIsSeq
<1> HIDE DEF s
<1>6. saOut \o s \in Seq(Tokens) /\ Len(saOut \o s) = Len(saOut) + j
  BY <1>5
<1> QED BY <1>2, <1>6 DEF History, After, s

(* How far the grammar takes the drafts. *)
LEMMA LeadingIs ==
  ASSUME NEW valid \in 0 .. SaK, NEW drafts, NEW n \in 0 .. valid,
         \A i \in 1 .. n : Follows(After(drafts, i - 1), drafts[i])
  PROVE  n <= LeadingDrafts(drafts, valid) /\ LeadingDrafts(drafts, valid) \in 0 .. valid
<1> DEFINE T == {k \in 0 .. valid : \A i \in 1 .. k : Follows(After(drafts, i - 1), drafts[i])}
<1>1. T \in SUBSET (0 .. valid) /\ n \in T /\ valid \in Nat
  BY SaAssumption
<1>2. LeadingDrafts(drafts, valid) = Max(T)
  BY DEF LeadingDrafts, After
<1> HIDE DEF T
<1>3. Max(T) \in T /\ \A k \in T : k <= Max(T)
  BY <1>1, MaxOfSet
<1> QED BY <1>1, <1>2, <1>3

(* A column reads the controls as the ordinary sampler does after the same
   history, when the drafts before it have weight. *)
LEMMA ColumnIsPlain ==
  ASSUME saCtl \in Controls, saOut \in Seq(Tokens),
         NEW valid \in 0 .. SaK, NEW drafts \in DraftBlocks(valid), NEW m \in 0 .. valid,
         \A i \in 1 .. m : Logits(i - 1, drafts, valid)[drafts[i]] > 0
  PROVE  Logits(m, drafts, valid) = PlainLogits(After(drafts, m))
<1>1. SaK \in Nat /\ valid \in Nat /\ m \in Nat /\ m <= valid /\ valid <= SaK
  BY SaAssumption
<1>2. \A j \in 0 .. m : /\ History(j, drafts, valid) = After(drafts, j)
                        /\ After(drafts, j) \in Seq(Tokens)
                        /\ Len(After(drafts, j)) = Len(saOut) + j
  <2> SUFFICES ASSUME NEW j \in 0 .. m
               PROVE  /\ History(j, drafts, valid) = After(drafts, j)
                      /\ After(drafts, j) \in Seq(Tokens)
                      /\ Len(After(drafts, j)) = Len(saOut) + j
    OBVIOUS
  <2>1. j \in 0 .. valid
    BY <1>1
  <2> QED BY <2>1, HistoryIs
<1>3. \A i \in 1 .. m : drafts[i] \in Tokens
  <2> SUFFICES ASSUME NEW i \in 1 .. m PROVE drafts[i] \in Tokens
    OBVIOUS
  <2>1. i \in 1 .. SaK /\ ~(i > valid)
    BY <1>1
  <2> QED BY <2>1 DEF DraftBlocks
<1>4. ASSUME saCtl.grammar PROVE \A i \in 1 .. m : Follows(After(drafts, i - 1), drafts[i])
  <2> DEFINE P == {k \in 0 .. m : \A i \in 1 .. k : Follows(After(drafts, i - 1), drafts[i])}
  <2>1. 0 \in P
    BY <1>1
  <2>2. ASSUME NEW k \in 1 .. m, k - 1 \in P PROVE k \in P
    <3>1. k - 1 \in 0 .. m /\ k - 1 \in 0 .. valid /\ k \in 0 .. m
      BY <1>1
    <3>2. \A i \in 1 .. k - 1 : Follows(After(drafts, i - 1), drafts[i])
      BY <2>2
    <3>3. k - 1 <= LeadingDrafts(drafts, valid)
      BY <3>1, <3>2, LeadingIs
    <3>4. GrammarAllows(k - 1, drafts, valid) = {v \in Tokens : Follows(After(drafts, k - 1), v)}
      BY <1>2, <1>4, <3>1, <3>3 DEF GrammarAllows
    <3>5. drafts[k] \in Tokens /\ Logits(k - 1, drafts, valid)[drafts[k]] > 0
      BY <1>3
    <3>6. drafts[k] \in GrammarAllows(k - 1, drafts, valid)
      BY <3>5 DEF Logits
    <3>7. Follows(After(drafts, k - 1), drafts[k])
      BY <3>4, <3>6
    <3>8. \A i \in 1 .. k : i = k \/ i \in 1 .. k - 1
      BY <1>1
    <3>9. \A i \in 1 .. k : Follows(After(drafts, i - 1), drafts[i])
      BY <3>2, <3>7, <3>8
    <3> QED BY <3>1, <3>9
  <2>3. m \in P
    <3> HIDE DEF P
    <3>1. \A i \in 0 .. m : i \in P
      BY <1>1, <2>1, <2>2, UpTo
    <3> QED BY <1>1, <3>1
  <2> QED BY <2>3
<1> DEFINE h == After(drafts, m)
<1>5. History(m, drafts, valid) = h /\ h \in Seq(Tokens) /\ Len(h) = Len(saOut) + m /\ Len(saOut) \in Nat
  BY <1>1, <1>2
<1>6. \A v \in Tokens : v \in GrammarAllows(m, drafts, valid) <=> (saCtl.grammar => Follows(h, v))
  <2>1. CASE saCtl.grammar
    <3>1. m <= LeadingDrafts(drafts, valid)
      BY <1>4, <2>1, LeadingIs
    <3> QED BY <1>5, <2>1, <3>1 DEF GrammarAllows
  <2>2. CASE ~saCtl.grammar
    BY <2>2 DEF GrammarAllows
  <2> QED BY <2>1, <2>2
<1> HIDE DEF h
<1>7. ASSUME NEW v \in Tokens
      PROVE  v \in FilterAllows(m, drafts, valid)
               <=> /\ v \in saCtl.allowed
                   /\ ~EndsWord(h, v, saCtl.words)
                   /\ v = StopToken => Len(h) >= saCtl.min
  <2>1. saCtl.min \in Nat
    BY SaControlsAre
  <2>2. m < saCtl.min - Len(saOut) <=> ~(Len(h) >= saCtl.min)
    BY <1>1, <1>5, <2>1
  <2> QED BY <1>5, <2>2 DEF FilterAllows
<1>8. \A v \in Tokens :
        PenalisedWeight(m, drafts, valid, v)
          = IF saCtl.penalised THEN Penalised(h, RawWeight(h, v), v) ELSE RawWeight(h, v)
  BY <1>5 DEF PenalisedWeight
<1> QED BY <1>6, <1>7, <1>8 DEF Logits, PlainLogits, h

(* A verify in flight is scored after the committed output. *)
Scored(b) ==
  /\ b.valid \in 0 .. SaK /\ b.drafts \in DraftBlocks(b.valid)
  /\ b.mode = "argmax_ids" => saCtl.greedy /\ InUse(saCtl) = {}
  /\ b.logits = [j \in 1 .. SaK + 1 |->
                   IF b.mode = "logits" THEN Logits(j - 1, b.drafts, b.valid)
                   ELSE [v \in Tokens |-> RawWeight(History(j - 1, b.drafts, b.valid), v)]]
  /\ b.mode \in {"logits", "argmax_ids"}

(* So does a column of any verify in flight. *)
LEMMA ScoredIsPlain ==
  ASSUME saCtl \in Controls, saOut \in Seq(Tokens), NEW b, Scored(b), NEW m \in 0 .. b.valid,
         \A i \in 1 .. m : b.logits[i][b.drafts[i]] > 0
  PROVE  b.logits[m + 1] = PlainLogits(After(b.drafts, m))
<1> DEFINE drafts == b.drafts  valid == b.valid
<1>1. /\ valid \in 0 .. SaK /\ drafts \in DraftBlocks(valid) /\ m \in 0 .. valid
      /\ SaK \in Nat /\ valid \in Nat /\ m \in Nat /\ m <= valid /\ valid <= SaK
  BY SaAssumption DEF Scored
<1>2. \A j \in 1 .. SaK + 1 :
        b.logits[j] = IF b.mode = "logits" THEN Logits(j - 1, drafts, valid)
                      ELSE [v \in Tokens |-> RawWeight(History(j - 1, drafts, valid), v)]
  BY DEF Scored
<1>3. b.logits[m + 1] = IF b.mode = "logits" THEN Logits(m, drafts, valid)
                        ELSE [v \in Tokens |-> RawWeight(History(m, drafts, valid), v)]
  <2>1. m + 1 \in 1 .. SaK + 1 /\ (m + 1) - 1 = m
    BY <1>1
  <2> QED BY <1>2, <2>1
<1>4. \A i \in 1 .. m : b.logits[i][drafts[i]] > 0
  OBVIOUS
<1>5. CASE b.mode = "logits"
  <2>1. \A i \in 1 .. m : i \in 1 .. SaK + 1
    BY <1>1
  <2>2. \A i \in 1 .. m : Logits(i - 1, drafts, valid)[drafts[i]] > 0
    BY <1>2, <1>4, <1>5, <2>1
  <2> HIDE DEF drafts, valid
  <2>3. Logits(m, drafts, valid) = PlainLogits(After(drafts, m))
    BY <1>1, <2>2, ColumnIsPlain
  <2> QED BY <1>3, <1>5, <2>3 DEF drafts
<1>6. CASE b.mode # "logits"
  <2>1. InUse(saCtl) = {}
    BY <1>6 DEF Scored
  <2>2. /\ saCtl.allowed = Tokens /\ ~saCtl.grammar /\ ~saCtl.penalised /\ saCtl.words = {}
        /\ saCtl.min = 0
    BY <2>1, SaControlsAre
  <2> HIDE DEF drafts, valid
  <2>3. History(m, drafts, valid) = After(drafts, m) /\ After(drafts, m) \in Seq(Tokens)
    BY <1>1, HistoryIs
  <2> DEFINE h == After(drafts, m)
  <2>4. Len(h) >= 0
    BY <2>3
  <2>5. \A v \in Tokens : ~EndsWord(h, v, {})
    BY DEF EndsWord
  <2>6. PlainLogits(h) = [v \in Tokens |-> RawWeight(h, v)]
    <3> HIDE DEF h
    <3> QED BY <2>2, <2>4, <2>5 DEF PlainLogits
  <2> QED BY <1>3, <1>6, <2>3, <2>6 DEF drafts
<1> QED BY <1>5, <1>6

(* A walk that goes on only past drafts with weight reads the ordinary
   sampler's weights all the way. *)
LEMMA ReachedIsPlain ==
  ASSUME saCtl \in Controls, saOut \in Seq(Tokens), NEW b, Scored(b), NEW n \in 0 .. b.valid,
         \A i \in 1 .. n : b.logits[i] = PlainLogits(After(b.drafts, i - 1))
                             => b.logits[i][b.drafts[i]] > 0
  PROVE  /\ \A i \in 1 .. n : b.logits[i][b.drafts[i]] > 0
         /\ \A i \in 1 .. n + 1 : b.logits[i] = PlainLogits(After(b.drafts, i - 1))
<1> DEFINE P == {k \in 0 .. n : \A i \in 1 .. k : b.logits[i][b.drafts[i]] > 0}
<1>1. n \in Nat /\ b.valid \in Nat /\ n <= b.valid
  BY SaAssumption DEF Scored
<1>2. 0 \in P
  BY <1>1
<1>3. ASSUME NEW k \in 1 .. n, k - 1 \in P PROVE k \in P
  <2>1. k - 1 \in 0 .. b.valid /\ (k - 1) + 1 = k /\ k \in 0 .. n
    BY <1>1
  <2>2. \A i \in 1 .. k - 1 : b.logits[i][b.drafts[i]] > 0
    BY <1>3
  <2>3. b.logits[k] = PlainLogits(After(b.drafts, k - 1))
    <3> DEFINE m == k - 1
    <3>1. m \in 0 .. b.valid /\ m + 1 = k /\ \A i \in 1 .. m : b.logits[i][b.drafts[i]] > 0
      BY <2>1, <2>2
    <3> HIDE DEF m, P
    <3>2. b.logits[m + 1] = PlainLogits(After(b.drafts, m))
      BY <3>1, ScoredIsPlain
    <3> QED BY <3>1, <3>2 DEF m
  <2>4. b.logits[k][b.drafts[k]] > 0
    BY <2>3
  <2>5. \A i \in 1 .. k : i = k \/ i \in 1 .. k - 1
    BY <1>1
  <2>6. \A i \in 1 .. k : b.logits[i][b.drafts[i]] > 0
    BY <2>2, <2>4, <2>5
  <2> QED BY <2>1, <2>6
<1>4. n \in P
  <2> HIDE DEF P
  <2>1. \A i \in 0 .. n : i \in P
    BY <1>1, <1>2, <1>3, UpTo
  <2> QED BY <1>1, <2>1
<1>5. \A i \in 1 .. n : b.logits[i][b.drafts[i]] > 0
  BY <1>4
<1>6. ASSUME NEW i \in 1 .. n + 1 PROVE b.logits[i] = PlainLogits(After(b.drafts, i - 1))
  <2> DEFINE m == i - 1
  <2>1. m \in 0 .. b.valid /\ m + 1 = i /\ \A k \in 1 .. m : b.logits[k][b.drafts[k]] > 0
    BY <1>1, <1>5
  <2> HIDE DEF m, P
  <2>2. b.logits[m + 1] = PlainLogits(After(b.drafts, m))
    BY <2>1, ScoredIsPlain
  <2> QED BY <2>1, <2>2 DEF m
<1> QED BY <1>5, <1>6

(* The count cuts a row at its first rejected draft, or after its bonus. *)
LEMMA CountIs ==
  ASSUME NEW accepted, NEW valid \in 0 .. SaK
  PROVE  /\ CountFrom(accepted, valid) \in 1 .. valid + 1
         /\ \A j \in 1 .. CountFrom(accepted, valid) - 1 : accepted[j]
         /\ CountFrom(accepted, valid) <= valid => ~accepted[CountFrom(accepted, valid)]
<1> DEFINE R == {j \in 1 .. valid : ~accepted[j]}
           c == CountFrom(accepted, valid)
<1>1. valid \in Nat /\ c = IF R = {} THEN valid + 1 ELSE Min(R)
  BY SaAssumption DEF CountFrom
<1>2. CASE R = {}
  BY <1>1, <1>2
<1>3. CASE R # {}
  <2>1. R \subseteq Nat /\ c = Min(R)
    BY <1>1, <1>3
  <2> HIDE DEF R, c
  <2>2. c \in R /\ \A j \in R : c <= j
    BY <1>3, <2>1, MinOfSet
  <2>3. c \in 1 .. valid /\ ~accepted[c]
    BY <2>2 DEF R
  <2>4. \A j \in 1 .. c - 1 : j \in 1 .. valid /\ ~(c <= j)
    BY <1>1, <2>3
  <2>5. \A j \in 1 .. c - 1 : accepted[j]
    BY <2>2, <2>4 DEF R
  <2> QED BY <1>1, <2>3, <2>5 DEF c
<1> QED BY <1>2, <1>3

(* What the ordinary sampler may draw from its weights. *)
Drawn(w, v) == IF saCtl.greedy THEN v = Best(w) ELSE v \in Tokens /\ TopK(w)[v] > 0

(* A row that commits accepted drafts and one token more, each of which the
   ordinary sampler may draw where it stands. *)
GoodRow(b, new) ==
  /\ new \in Seq(Tokens) /\ Len(new) \in 1 .. b.valid + 1
  /\ \A j \in 1 .. Len(new) - 1 : new[j] = b.drafts[j]
  /\ \A j \in 1 .. Len(new) : Drawn(PlainLogits(After(b.drafts, j - 1)), new[j])

(* The drafts of a row are tokens. *)
LEMMA DraftIsToken ==
  ASSUME NEW b, Scored(b), NEW j \in 1 .. b.valid
  PROVE  b.drafts[j] \in Tokens /\ j \in 1 .. SaK
<1>1. b.valid \in Nat /\ SaK \in Nat /\ b.valid <= SaK /\ b.drafts \in DraftBlocks(b.valid)
  BY SaAssumption DEF Scored
<1>2. j \in 1 .. SaK /\ ~(j > b.valid)
  BY <1>1
<1> QED BY <1>1, <1>2 DEF DraftBlocks

(* The beginning of a function on an interval is a sequence. *)
LEMMA Beginning ==
  ASSUME NEW n \in Nat, NEW f, f = [i \in 1 .. n |-> f[i]], NEW c \in 0 .. n,
         \A i \in 1 .. c : f[i] \in Tokens
  PROVE  /\ SubSeq(f, 1, c) \in Seq(Tokens) /\ Len(SubSeq(f, 1, c)) = c
         /\ \A i \in 1 .. c : SubSeq(f, 1, c)[i] = f[i]
<1> DEFINE S == {f[i] : i \in 1 .. n}
           g == [i \in 1 .. c |-> f[i]]
<1>1. f \in [1 .. n -> S]
  OBVIOUS
<1> HIDE DEF S
<1>2. f \in Seq(S) /\ Len(f) = n
  BY <1>1, FunctionIsSeq
<1>3. SubSeq(f, 1, c) = g
  BY <1>2
<1>4. c \in Nat /\ g \in [1 .. c -> Tokens] /\ \A i \in 1 .. c : g[i] = f[i]
  OBVIOUS
<1> HIDE DEF g
<1>5. g \in Seq(Tokens) /\ Len(g) = c
  BY <1>4, FunctionIsSeq
<1> QED BY <1>3, <1>4, <1>5

(* A greedy row commits argmaxes, and goes on past a draft that is one. *)
ArgmaxRow(b, ids, c, new) ==
  /\ c \in 1 .. b.valid + 1 /\ \A j \in 1 .. c - 1 : ids[j] = b.drafts[j]
  /\ ids = [j \in 1 .. SaK + 1 |-> Best(b.logits[j])] /\ new = [j \in 1 .. c |-> ids[j]]

(* So each of its tokens is the ordinary sampler's. *)
LEMMA GreedyRow ==
  ASSUME saCtl \in Controls, saOut \in Seq(Tokens), NEW b, Scored(b), saCtl.greedy,
         NEW ids, NEW c, NEW new, ArgmaxRow(b, ids, c, new)
  PROVE  GoodRow(b, new)
<1> USE DEF ArgmaxRow
<1>1. SaK \in Nat /\ b.valid \in Nat /\ b.valid <= SaK /\ c \in Nat /\ c - 1 \in 0 .. b.valid
      /\ c <= SaK + 1
  BY SaAssumption DEF Scored
<1> DEFINE h(i) == After(b.drafts, i - 1)
<1>2. \A i \in 1 .. c : h(i) \in Seq(Tokens)
  <2> SUFFICES ASSUME NEW i \in 1 .. c PROVE h(i) \in Seq(Tokens)
    OBVIOUS
  <2> DEFINE m == i - 1
  <2>1. m \in 0 .. b.valid /\ b.valid \in 0 .. SaK /\ b.drafts \in DraftBlocks(b.valid)
    BY <1>1 DEF Scored
  <2> HIDE DEF m
  <2>2. After(b.drafts, m) \in Seq(Tokens)
    BY <2>1, HistoryIs
  <2> QED BY <2>2 DEF m
<1>3. \A i \in 1 .. c : /\ Best(PlainLogits(h(i))) \in Tokens
                        /\ PlainLogits(h(i))[Best(PlainLogits(h(i)))] > 0
  <2> HIDE DEF h
  <2> QED BY <1>2, PlainIs, BestIs
<1>4. \A i \in 1 .. c - 1 : b.logits[i] = PlainLogits(h(i)) => b.logits[i][b.drafts[i]] > 0
  <2> SUFFICES ASSUME NEW i \in 1 .. c - 1, b.logits[i] = PlainLogits(h(i))
               PROVE  b.logits[i][b.drafts[i]] > 0
    OBVIOUS
  <2>1. i \in 1 .. c /\ i \in 1 .. SaK + 1
    BY <1>1
  <2>2. b.drafts[i] = Best(b.logits[i])
    BY <2>1
  <2> HIDE DEF h
  <2> QED BY <1>3, <2>1, <2>2
<1>5. \A i \in 1 .. c : b.logits[i] = PlainLogits(h(i))
  <2> DEFINE n == c - 1
  <2>1. n \in 0 .. b.valid /\ n + 1 = c
        /\ \A i \in 1 .. n : b.logits[i] = PlainLogits(After(b.drafts, i - 1))
                             => b.logits[i][b.drafts[i]] > 0
    BY <1>1, <1>4
  <2> HIDE DEF n, h
  <2>2. \A i \in 1 .. n + 1 : b.logits[i] = PlainLogits(After(b.drafts, i - 1))
    BY <2>1, ReachedIsPlain
  <2> QED BY <2>1, <2>2 DEF h
<1>6. \A i \in 1 .. c : new[i] = Best(PlainLogits(h(i)))
  <2> SUFFICES ASSUME NEW i \in 1 .. c PROVE new[i] = Best(PlainLogits(h(i)))
    OBVIOUS
  <2>1. i \in 1 .. SaK + 1
    BY <1>1
  <2> QED BY <1>5, <2>1
<1> HIDE DEF h
<1>7. new \in [1 .. c -> Tokens]
  <2>1. \A i \in 1 .. c : new[i] \in Tokens
    BY <1>3, <1>6
  <2> QED BY <2>1
<1>8. new \in Seq(Tokens) /\ Len(new) = c
  <2>1. \A n \in Nat : \A f \in [1 .. n -> Tokens] : f \in Seq(Tokens) /\ Len(f) = n
    BY FunctionIsSeq
  <2> QED BY <1>1, <1>7, <2>1
<1>9. \A j \in 1 .. c - 1 : new[j] = b.drafts[j]
  <2>1. \A j \in 1 .. c - 1 : j \in 1 .. c
    BY <1>1
  <2> QED BY <2>1
<1> QED BY <1>6, <1>8, <1>9 DEF GoodRow, Drawn, h

(* A token id is its own draft. *)
LEMMA InVocabularyIs ==
  ASSUME NEW d \in Tokens
  PROVE  InVocabulary(d) = d
<1>1. d \in Int /\ d >= 1
  BY TokensAre
<1> QED BY <1>1, MaxOfTwo DEF InVocabulary

(* A sampled row commits drafts that kept weight, and a token that the race of
   the correction or of the bonus favours. *)
LEMMA RandomRow ==
  ASSUME saCtl \in Controls, saOut \in Seq(Tokens), NEW b, Scored(b), ~saCtl.greedy,
         NEW coins, NEW race \in Tokens
  PROVE  GoodRow(b, Committed(b, coins, race))
<1> DEFINE walk == RandomWalk(b, coins, race)
           acc == walk.accepted
           f == walk.candidates
           c == CountFrom(acc, b.valid)
           new == SubSeq(f, 1, c)
           p(j) == TopK(b.logits[j])
           d(j) == InVocabulary(b.drafts[j])
           h(i) == After(b.drafts, i - 1)
<1>1. Committed(b, coins, race) = new
  BY DEF Committed
<1>2. /\ \A j \in 1 .. SaK : acc[j] = Accepts(p(j), d(j), coins[j])
      /\ f = [j \in 1 .. SaK + 1 |->
                IF j = b.valid + 1 THEN RaceWinner(p(j), race)
                ELSE IF j > SaK THEN Pad
                ELSE IF acc[j] THEN b.drafts[j]
                ELSE RaceWinner(Residual(p(j), d(j)), race)]
  BY DEF RandomWalk
<1>3. SaK \in Nat /\ b.valid \in Nat /\ b.valid <= SaK /\ b.valid \in 0 .. SaK
  BY SaAssumption DEF Scored
<1> HIDE DEF walk, acc, f
<1>4. c \in 1 .. b.valid + 1 /\ (\A j \in 1 .. c - 1 : acc[j]) /\ (c <= b.valid => ~acc[c])
  BY <1>3, CountIs
<1> HIDE DEF c
<1>5. c \in Nat /\ c - 1 \in 0 .. b.valid /\ c <= SaK + 1 /\ c >= 1
  BY <1>3, <1>4
<1>6. \A j \in 1 .. b.valid : b.drafts[j] \in Tokens /\ d(j) = b.drafts[j] /\ j \in 1 .. SaK
  BY DraftIsToken, InVocabularyIs
<1>7. \A i \in 1 .. c : h(i) \in Seq(Tokens)
  <2> SUFFICES ASSUME NEW i \in 1 .. c PROVE h(i) \in Seq(Tokens)
    OBVIOUS
  <2> DEFINE m == i - 1
  <2>1. m \in 0 .. b.valid /\ b.valid \in 0 .. SaK /\ b.drafts \in DraftBlocks(b.valid)
    BY <1>3, <1>5 DEF Scored
  <2> HIDE DEF m
  <2>2. After(b.drafts, m) \in Seq(Tokens)
    BY <2>1, HistoryIs
  <2> QED BY <2>2 DEF m
<1>8. saCtl.topk \in Nat /\ saCtl.topk > 0
  BY SaControlsAre, TokensAre
<1>9. ASSUME NEW i \in 1 .. c, b.logits[i] = PlainLogits(h(i))
      PROVE  /\ p(i) \in Weights /\ \E v \in Tokens : p(i)[v] > 0
             /\ \A v \in Tokens : p(i)[v] > 0 => b.logits[i][v] > 0
  <2>1. PlainLogits(h(i)) \in Weights /\ \E v \in Tokens : PlainLogits(h(i))[v] > 0
    BY <1>7, PlainIs
  <2> DEFINE w == b.logits[i]
  <2>2. w \in Weights /\ \E v \in Tokens : w[v] > 0
    BY <1>9, <2>1
  <2> HIDE DEF w
  <2>3. /\ TopK(w) \in Weights /\ \E v \in Tokens : TopK(w)[v] > 0
        /\ \A v \in Tokens : TopK(w)[v] > 0 => w[v] > 0
    BY <1>8, <2>2, TopKIs
  <2> QED BY <2>3 DEF w
<1>10. \A i \in 1 .. c - 1 : b.drafts[i] \in Tokens /\ p(i)[b.drafts[i]] > 0 /\ f[i] = b.drafts[i]
  <2> SUFFICES ASSUME NEW i \in 1 .. c - 1
               PROVE  b.drafts[i] \in Tokens /\ p(i)[b.drafts[i]] > 0 /\ f[i] = b.drafts[i]
    OBVIOUS
  <2>1. i \in 1 .. b.valid /\ i \in 1 .. SaK + 1 /\ i # b.valid + 1 /\ ~(i > SaK)
    BY <1>3, <1>5
  <2>2. acc[i] /\ b.drafts[i] \in Tokens /\ d(i) = b.drafts[i] /\ i \in 1 .. SaK
    BY <1>4, <1>6, <2>1
  <2> HIDE DEF p, d
  <2>3. f[i] = b.drafts[i]
    BY <1>2, <2>1, <2>2
  <2>4. Accepts(p(i), d(i), coins[i])
    BY <1>2, <2>2
  <2> QED BY <2>2, <2>3, <2>4 DEF Accepts
<1>11. \A i \in 1 .. c : b.logits[i] = PlainLogits(h(i))
  <2> DEFINE n == c - 1
  <2>1. n \in 0 .. b.valid /\ n + 1 = c
    BY <1>5
  <2>2. \A i \in 1 .. n : b.logits[i] = PlainLogits(After(b.drafts, i - 1))
                             => b.logits[i][b.drafts[i]] > 0
    <3> SUFFICES ASSUME NEW i \in 1 .. n, b.logits[i] = PlainLogits(After(b.drafts, i - 1))
                 PROVE  b.logits[i][b.drafts[i]] > 0
      OBVIOUS
    <3>1. i \in 1 .. c
      BY <1>5
    <3>2. \A v \in Tokens : p(i)[v] > 0 => b.logits[i][v] > 0
      BY <1>9, <3>1
    <3> QED BY <1>10, <3>2
  <2> HIDE DEF n, h, p
  <2>3. \A i \in 1 .. n + 1 : b.logits[i] = PlainLogits(After(b.drafts, i - 1))
    BY <2>1, <2>2, ReachedIsPlain
  <2> QED BY <2>1, <2>3 DEF h
<1>12. /\ p(c) \in Weights /\ \E v \in Tokens : p(c)[v] > 0
  <2>1. c \in 1 .. c
    BY <1>5
  <2> QED BY <1>9, <1>11, <2>1
<1>13. f[c] \in Tokens /\ p(c)[f[c]] > 0
  <2> HIDE DEF p, d, h
  <2>1. c \in 1 .. SaK + 1
    BY <1>5
  <2>2. CASE c = b.valid + 1
    <3>1. f[c] = RaceWinner(p(c), race)
      BY <1>2, <2>1, <2>2
    <3> QED BY <1>12, <3>1, WinnerIs
  <2>3. CASE c # b.valid + 1
    <3>1. c \in 1 .. b.valid /\ ~(c > SaK) /\ ~acc[c]
      BY <1>3, <1>4, <1>5, <2>3
    <3>2. d(c) \in Tokens /\ c \in 1 .. SaK
      BY <1>6, <3>1
    <3>3. f[c] = RaceWinner(Residual(p(c), d(c)), race) /\ ~Accepts(p(c), d(c), coins[c])
      BY <1>2, <2>1, <2>3, <3>1, <3>2
    <3> DEFINE w == p(c)  x == d(c)  r == Residual(w, x)
    <3>4. w[x] = 0 \/ w[x] # Total(w)
      <4>1. w[x] \in Nat
        BY <1>12, <3>2 DEF Weights
      <4> QED BY <3>3, <4>1 DEF Accepts
    <3>5. w \in Weights /\ x \in Tokens /\ \E v \in Tokens : w[v] > 0
      BY <1>12, <3>2
    <3> HIDE DEF w, x, r
    <3>6. /\ r \in Weights /\ \E v \in Tokens : r[v] > 0
          /\ \A v \in Tokens : r[v] > 0 => w[v] > 0
      BY <3>4, <3>5, ResidualPositive DEF r
    <3>7. RaceWinner(r, race) \in Tokens /\ r[RaceWinner(r, race)] > 0
      BY <3>6, WinnerIs
    <3>8. f[c] = RaceWinner(r, race)
      BY <3>3 DEF r, w, x
    <3>9. f[c] \in Tokens /\ w[f[c]] > 0
      BY <3>6, <3>7, <3>8
    <3> QED BY <3>9 DEF w
  <2> QED BY <2>2, <2>3
<1>14. \A i \in 1 .. c : f[i] \in Tokens /\ p(i)[f[i]] > 0
  <2> HIDE DEF p
  <2>1. \A i \in 1 .. c : i = c \/ i \in 1 .. c - 1
    BY <1>5
  <2> QED BY <1>10, <1>13, <2>1
<1>15. /\ new \in Seq(Tokens) /\ Len(new) = c
       /\ \A i \in 1 .. c : new[i] = f[i]
  <2> DEFINE n == SaK + 1
  <2>1. n \in Nat /\ f = [i \in 1 .. n |-> f[i]] /\ c \in 0 .. n
    BY <1>2, <1>3, <1>5
  <2>2. \A i \in 1 .. c : f[i] \in Tokens
    BY <1>14
  <2> HIDE DEF n, p
  <2> QED BY <2>1, <2>2, Beginning
<1> HIDE DEF new
<1>16. \A j \in 1 .. c - 1 : new[j] = b.drafts[j]
  <2>1. \A j \in 1 .. c - 1 : j \in 1 .. c
    BY <1>5
  <2> HIDE DEF p
  <2> QED BY <1>10, <1>15, <2>1
<1>17. \A j \in 1 .. c : Drawn(PlainLogits(h(j)), new[j])
  <2> SUFFICES ASSUME NEW j \in 1 .. c PROVE Drawn(PlainLogits(h(j)), new[j])
    OBVIOUS
  <2>1. new[j] = f[j] /\ f[j] \in Tokens /\ TopK(b.logits[j])[f[j]] > 0 /\ b.logits[j] = PlainLogits(h(j))
    BY <1>11, <1>14, <1>15
  <2> HIDE DEF h
  <2> QED BY <2>1 DEF Drawn
<1> HIDE DEF p, d
<1> QED BY <1>1, <1>4, <1>15, <1>16, <1>17 DEF GoodRow

(* Either way of committing a row is good. *)
LEMMA CommittedRow ==
  ASSUME saCtl \in Controls, saOut \in Seq(Tokens), NEW b, Scored(b), b.mode = "logits",
         NEW coins, NEW race \in Tokens
  PROVE  GoodRow(b, Committed(b, coins, race))
<1>1. CASE ~saCtl.greedy
  BY <1>1, RandomRow
<1>2. CASE saCtl.greedy
  <2> DEFINE ids == [j \in 1 .. SaK + 1 |-> Best(b.logits[j])]
             acc == [j \in 1 .. SaK |-> ids[j] = b.drafts[j]]
             c == CountFrom(acc, b.valid)
             new == [j \in 1 .. c |-> ids[j]]
  <2>1. Committed(b, coins, race) = SubSeq(ids, 1, c)
    BY <1>2 DEF Committed, GreedyWalk
  <2>2. SaK \in Nat /\ b.valid \in Nat /\ b.valid <= SaK /\ b.valid \in 0 .. SaK
    BY SaAssumption DEF Scored
  <2>3. c \in 1 .. b.valid + 1 /\ \A j \in 1 .. c - 1 : acc[j]
    <3> HIDE DEF acc
    <3> QED BY <2>2, CountIs
  <2>4. \A j \in 1 .. c - 1 : ids[j] = b.drafts[j]
    <3> SUFFICES ASSUME NEW j \in 1 .. c - 1 PROVE ids[j] = b.drafts[j]
      OBVIOUS
    <3>1. c \in Nat /\ c - 1 <= b.valid
      BY <2>2, <2>3
    <3> HIDE DEF ids, c, acc
    <3>2. j \in 1 .. SaK /\ acc[j]
      BY <2>2, <2>3, <3>1
    <3> QED BY <3>2 DEF acc
  <2> HIDE DEF acc, c
  <2>5. SubSeq(ids, 1, c) = new
    <3> DEFINE S == {ids[i] : i \in 1 .. SaK + 1}
    <3>1. ids \in [1 .. SaK + 1 -> S] /\ SaK + 1 \in Nat /\ c \in 1 .. SaK + 1
      BY <2>2, <2>3
    <3> HIDE DEF S, ids
    <3>2. ids \in Seq(S) /\ Len(ids) = SaK + 1
      BY <3>1, FunctionIsSeq
    <3> QED BY <3>1, <3>2
  <2> HIDE DEF new
  <2>6. ids = [j \in 1 .. SaK + 1 |-> Best(b.logits[j])] /\ new = [j \in 1 .. c |-> ids[j]]
    BY DEF new
  <2> HIDE DEF ids
  <2>7. ArgmaxRow(b, ids, c, new)
    BY <2>3, <2>4, <2>6 DEF ArgmaxRow
  <2>8. GoodRow(b, new)
    BY <1>2, <2>7, GreedyRow
  <2> QED BY <2>1, <2>5, <2>8
<1> QED BY <1>1, <1>2

(* So is a row of argmax ids. *)
LEMMA GreedyIdsRow ==
  ASSUME saCtl \in Controls, saOut \in Seq(Tokens), NEW b, Scored(b), b.mode = "argmax_ids"
  PROVE  GoodRow(b, GreedyCommitted(b))
<1> DEFINE ids == [j \in 1 .. SaK + 1 |-> Best(b.logits[j])]
           acc == [j \in 1 .. SaK |-> Best(b.logits[j]) = b.drafts[j]]
           c == CountFrom(acc, b.valid)
           new == [j \in 1 .. c |-> ids[j]]
<1>1. saCtl.greedy
  BY DEF Scored
<1>2. SaK \in Nat /\ b.valid \in Nat /\ b.valid <= SaK /\ b.valid \in 0 .. SaK
  BY SaAssumption DEF Scored
<1>3. c \in 1 .. b.valid + 1 /\ \A j \in 1 .. c - 1 : acc[j]
  <2> HIDE DEF acc
  <2> QED BY <1>2, CountIs
<1>4. GreedyCommitted(b) = [j \in 1 .. c |-> Best(b.logits[j])]
  BY DEF GreedyCommitted, CountFrom
<1>5. c \in Nat /\ c - 1 <= b.valid /\ c <= SaK + 1
  BY <1>2, <1>3
<1>6. \A j \in 1 .. c - 1 : ids[j] = b.drafts[j]
  <2> SUFFICES ASSUME NEW j \in 1 .. c - 1 PROVE ids[j] = b.drafts[j]
    OBVIOUS
  <2> HIDE DEF c
  <2>1. acc[j]
    BY <1>3
  <2> HIDE DEF acc
  <2>2. j \in 1 .. SaK /\ j \in 1 .. SaK + 1
    BY <1>2, <1>5
  <2> QED BY <2>1, <2>2 DEF acc
<1> HIDE DEF acc, c
<1>7. GreedyCommitted(b) = new
  <2>1. \A j \in 1 .. c : j \in 1 .. SaK + 1
    BY <1>2, <1>5
  <2>2. new = [j \in 1 .. c |-> Best(b.logits[j])]
    BY <2>1
  <2> HIDE DEF new
  <2> QED BY <1>4, <2>2
<1> HIDE DEF new
<1>8. ids = [j \in 1 .. SaK + 1 |-> Best(b.logits[j])] /\ new = [j \in 1 .. c |-> ids[j]]
  BY DEF new
<1> HIDE DEF ids
<1>9. ArgmaxRow(b, ids, c, new)
  BY <1>3, <1>6, <1>8 DEF ArgmaxRow
<1>10. GoodRow(b, new)
  BY <1>1, <1>9, GreedyRow
<1> QED BY <1>7, <1>10

(* The scheduler trims the output of a request: it keeps a beginning of it. *)
LEMMA TrimmedIs ==
  ASSUME NEW out \in Seq(Tokens)
  PROVE  \E m \in 0 .. Len(out) : Trimmed(out) = SubSeq(out, 1, m)
<1> DEFINE stops == {i \in DOMAIN out : out[i] = StopToken} \cup {Len(out), SaMaxOut}
           m == Min(stops)
<1>1. Len(out) \in Nat /\ SaMaxOut \in Nat /\ DOMAIN out = 1 .. Len(out)
  BY SaAssumption
<1>2. stops \subseteq Nat /\ Len(out) \in stops
  BY <1>1
<1>3. Trimmed(out) = SubSeq(out, 1, m)
  BY DEF Trimmed
<1> HIDE DEF stops
<1>4. m \in stops /\ \A n \in stops : m <= n
  BY <1>2, MinOfSet
<1>5. m \in 0 .. Len(out)
  <2> DEFINE n == Len(out)
  <2>1. m \in Nat /\ m <= n /\ n \in Nat
    BY <1>1, <1>2, <1>4
  <2> HIDE DEF m, n
  <2>2. m \in 0 .. n
    BY <2>1
  <2> QED BY <2>2 DEF n
<1> QED BY <1>3, <1>5

(* An output every token of which the ordinary sampler may draw after the
   tokens before. *)
PlainOutput(out) ==
  \A i \in 1 .. Len(out) : Drawn(PlainLogits(SubSeq(out, 1, i - 1)), out[i])

(* That is what is committed. *)
LEMMA CommitsIsPlain ==
  ASSUME saOut \in Seq(Tokens)
  PROVE  CommitsAsPlain <=> PlainOutput(saOut)
BY DEF CommitsAsPlain, PlainOutput, Drawn

(* A good row continues one, and so does any beginning of it. *)
LEMMA RowContinues ==
  ASSUME saOut \in Seq(Tokens), PlainOutput(saOut), NEW b, Scored(b), NEW new, GoodRow(b, new)
  PROVE  Trimmed(saOut \o new) \in Seq(Tokens) /\ PlainOutput(Trimmed(saOut \o new))
<1> DEFINE out == saOut \o new  k == Len(saOut)
<1>1. /\ new \in Seq(Tokens) /\ Len(new) \in 1 .. b.valid + 1 /\ b.valid \in Nat /\ k \in Nat
      /\ Len(new) \in Nat
  BY SaAssumption DEF GoodRow, Scored
<1>2. /\ out \in Seq(Tokens) /\ Len(out) = k + Len(new)
      /\ \A i \in 1 .. k : out[i] = saOut[i]
      /\ \A j \in 1 .. Len(new) : out[k + j] = new[j]
  BY <1>1
<1>3. \A i \in 1 .. k : SubSeq(out, 1, i - 1) = SubSeq(saOut, 1, i - 1)
  <2> SUFFICES ASSUME NEW i \in 1 .. k PROVE SubSeq(out, 1, i - 1) = SubSeq(saOut, 1, i - 1)
    OBVIOUS
  <2>1. SubSeq(saOut, 1, i - 1) = [x \in 1 .. i - 1 |-> saOut[x]]
    BY <1>1
  <2> HIDE DEF out
  <2>2. SubSeq(out, 1, i - 1) = [x \in 1 .. i - 1 |-> out[x]]
    BY <1>1, <1>2
  <2>3. \A x \in 1 .. i - 1 : out[x] = saOut[x]
    BY <1>1, <1>2
  <2> QED BY <2>1, <2>2, <2>3
<1>4. \A j \in 1 .. Len(new) : SubSeq(out, 1, (k + j) - 1) = After(b.drafts, j - 1)
  <2> SUFFICES ASSUME NEW j \in 1 .. Len(new)
               PROVE  SubSeq(out, 1, (k + j) - 1) = After(b.drafts, j - 1)
    OBVIOUS
  <2> DEFINE m == j - 1  s == SubSeq(b.drafts, 1, m)  past == saOut \o s
  <2>1. m \in 0 .. b.valid /\ m \in Nat /\ (k + j) - 1 = k + m
    BY <1>1
  <2>2. \A x \in 1 .. m : x \in 1 .. Len(new) /\ x \in 1 .. Len(new) - 1
    BY <1>1, <2>1
  <2>3. \A x \in 1 .. m : new[x] = b.drafts[x] /\ b.drafts[x] \in Tokens
    <3>1. \A x \in 1 .. m : new[x] = b.drafts[x]
      BY <2>2 DEF GoodRow
    <3>2. \A x \in 1 .. m : new[x] \in Tokens
      BY <1>1, <2>2
    <3> QED BY <3>1, <3>2
  <2>4. s = [x \in 1 .. m |-> b.drafts[x]]
    <3>1. b.drafts \in [1 .. SaK -> Tokens \cup {Pad}] /\ SaK \in Nat /\ m <= SaK /\ b.valid <= SaK
      BY <1>1, <2>1, SaAssumption DEF Scored, DraftBlocks
    <3> DEFINE f == b.drafts
    <3>2. f \in Seq(Tokens \cup {Pad}) /\ Len(f) = SaK
      <4>1. f \in [1 .. SaK -> Tokens \cup {Pad}]
        BY <3>1
      <4> HIDE DEF f
      <4> QED BY <3>1, <4>1, FunctionIsSeq
    <3> HIDE DEF f, m
    <3>3. SubSeq(f, 1, m) = [x \in 1 .. m |-> f[x]]
      BY <2>1, <3>1, <3>2
    <3> QED BY <3>3 DEF f
  <2>5. s \in Seq(Tokens) /\ Len(s) = m
    <3>1. s \in [1 .. m -> Tokens]
      BY <2>3, <2>4
    <3> HIDE DEF s, m
    <3> QED BY <2>1, <3>1, FunctionIsSeq
  <2>6. \A x \in 1 .. m : s[x] = new[x]
    BY <2>3, <2>4
  <2> HIDE DEF s, m
  <2>7. /\ past \in Seq(Tokens) /\ Len(past) = k + m
        /\ \A x \in 1 .. k : past[x] = saOut[x]
        /\ \A x \in 1 .. m : past[k + x] = s[x]
    <3>1. saOut \in Seq(Tokens) /\ s \in Seq(Tokens) /\ Len(s) = m /\ Len(saOut) = k
      BY <2>5
    <3> HIDE DEF k
    <3>2. past \in Seq(Tokens) /\ Len(past) = k + m
      BY <3>1
    <3>3. \A x \in 1 .. k : past[x] = saOut[x]
      BY <3>1
    <3>4. \A x \in 1 .. Len(s) : past[Len(saOut) + x] = s[x]
      BY <3>1
    <3> QED BY <3>1, <3>2, <3>3, <3>4
  <2> HIDE DEF past, out
  <2> DEFINE n == k + m
  <2>8. SubSeq(out, 1, n) = [x \in 1 .. n |-> out[x]]
    BY <1>1, <1>2, <2>1, <2>2
  <2>9. past = [x \in 1 .. n |-> past[x]]
    BY <1>1, <2>1, <2>7
  <2>10. \A x \in 1 .. n : out[x] = past[x]
    <3> SUFFICES ASSUME NEW x \in 1 .. n PROVE out[x] = past[x]
      OBVIOUS
    <3>1. CASE x <= k
      BY <1>1, <1>2, <2>7, <3>1
    <3>2. CASE x > k
      <4> DEFINE y == x - k
      <4>1. y \in 1 .. m /\ x = k + y
        BY <1>1, <2>1, <3>2
      <4> HIDE DEF y
      <4> QED BY <1>2, <2>2, <2>6, <2>7, <4>1
    <3> QED BY <1>1, <3>1, <3>2
  <2>11. SubSeq(out, 1, n) = past
    BY <2>8, <2>9, <2>10
  <2> QED BY <2>1, <2>11 DEF After, past, s, m, n
<1>5. \A i \in 1 .. Len(out) : Drawn(PlainLogits(SubSeq(out, 1, i - 1)), out[i])
  <2> SUFFICES ASSUME NEW i \in 1 .. Len(out)
               PROVE  Drawn(PlainLogits(SubSeq(out, 1, i - 1)), out[i])
    OBVIOUS
  <2> HIDE DEF out
  <2>1. CASE i <= k
    <3>1. i \in 1 .. k
      BY <1>1, <1>2, <2>1
    <3>2. Drawn(PlainLogits(SubSeq(saOut, 1, i - 1)), saOut[i])
      BY <3>1 DEF PlainOutput
    <3> QED BY <1>2, <1>3, <3>1, <3>2
  <2>2. CASE i > k
    <3> DEFINE j == i - k
    <3>1. j \in 1 .. Len(new) /\ i = k + j
      BY <1>1, <1>2, <2>2
    <3> HIDE DEF j, k
    <3>2. Drawn(PlainLogits(After(b.drafts, j - 1)), new[j])
      BY <3>1 DEF GoodRow
    <3> QED BY <1>2, <1>4, <3>1, <3>2
  <2> QED BY <1>1, <1>2, <2>1, <2>2
<1> HIDE DEF out
<1>6. PICK m \in 0 .. Len(out) : Trimmed(out) = SubSeq(out, 1, m)
  BY <1>2, TrimmedIs
<1> DEFINE cut == SubSeq(out, 1, m)
<1>7. cut = [x \in 1 .. m |-> out[x]] /\ Len(cut) = m /\ cut \in Seq(Tokens) /\ m \in Nat
  BY <1>2, <1>6
<1>8. \A i \in 1 .. m : SubSeq(cut, 1, i - 1) = SubSeq(out, 1, i - 1) /\ cut[i] = out[i]
                        /\ i \in 1 .. Len(out)
  <2> SUFFICES ASSUME NEW i \in 1 .. m
               PROVE  SubSeq(cut, 1, i - 1) = SubSeq(out, 1, i - 1) /\ cut[i] = out[i]
                      /\ i \in 1 .. Len(out)
    OBVIOUS
  <2>1. i \in 1 .. Len(out) /\ cut[i] = out[i]
    BY <1>2, <1>6, <1>7
  <2>2. SubSeq(out, 1, i - 1) = [x \in 1 .. i - 1 |-> out[x]]
    BY <1>2, <2>1
  <2> HIDE DEF cut
  <2>3. SubSeq(cut, 1, i - 1) = [x \in 1 .. i - 1 |-> cut[x]]
    BY <1>7
  <2>4. \A x \in 1 .. i - 1 : cut[x] = out[x]
    BY <1>7
  <2> QED BY <2>1, <2>2, <2>3, <2>4
<1>9. PlainOutput(cut)
  <2> HIDE DEF cut
  <2> QED BY <1>5, <1>7, <1>8 DEF PlainOutput
<1> QED BY <1>6, <1>7, <1>9 DEF out

-----------------------------------------------------------------------------
(* The invariant of a row, and what it implies. *)

(* The committed output is the ordinary sampler's, and the verify in flight is
   scored after it. *)
SaInv ==
  /\ saCtl \in Controls /\ saOut \in Seq(Tokens) /\ PlainOutput(saOut)
  /\ saBlock # NoBlock => Scored(saBlock)

(* A request starts with neither. *)
LEMMA SaInitInv == SaInit => SaInv
<1> SUFFICES ASSUME SaInit PROVE SaInv
  OBVIOUS
<1>1. saOut = <<>> /\ saBlock = NoBlock /\ saCtl \in Controls
  BY DEF SaInit
<1>2. PlainOutput(saOut)
  BY <1>1 DEF PlainOutput
<1> QED BY <1>1, <1>2 DEF SaInv

(* What a row may commit does not change with the verify in flight. *)
LEMMA PlainOutputStays ==
  ASSUME saCtl' = saCtl
  PROVE  PlainOutput(saOut)' <=> PlainOutput(saOut')
BY DEF PlainOutput, Drawn, PlainLogits, TopK

(* A verify is scored. *)
LEMMA ScoreInv ==
  ASSUME SaInv, NEW mode \in {"logits", "argmax_ids"}, NEW valid \in 0 .. SaK,
         NEW drafts \in DraftBlocks(valid), Score(mode, drafts, valid)
  PROVE  SaInv'
<1>1. /\ saCtl' = saCtl /\ saOut' = saOut
      /\ mode = "argmax_ids" => saCtl.greedy /\ InUse(saCtl) = {}
      /\ saBlock' = [mode |-> mode, drafts |-> drafts, valid |-> valid,
                     logits |-> [j \in 1 .. SaK + 1 |->
                       IF mode = "logits" THEN Logits(j - 1, drafts, valid)
                       ELSE [v \in Tokens |-> RawWeight(History(j - 1, drafts, valid), v)]]]
  BY DEF Score
<1>2. Scored(saBlock')
  BY <1>1 DEF Scored
<1>3. Scored(saBlock)' <=> Scored(saBlock')
  BY <1>1 DEF Scored, InUse, Logits, GrammarAllows, LeadingDrafts, History, FilterAllows,
              PenalisedWeight
<1>4. PlainOutput(saOut)'
  BY <1>1, PlainOutputStays DEF SaInv
<1> QED BY <1>1, <1>2, <1>3, <1>4 DEF SaInv

(* Its row is walked and committed. *)
LEMMA AcceptInv ==
  ASSUME SaInv, NEW noise \in Noise, Accept(noise.coins, noise.race)
  PROVE  SaInv'
<1> DEFINE b == saBlock
           new == IF b.mode = "argmax_ids" THEN GreedyCommitted(b)
                  ELSE Committed(b, noise.coins, noise.race)
<1>1. /\ saCtl' = saCtl /\ saOut' = Trimmed(saOut \o new) /\ saBlock' = NoBlock
      /\ saCtl \in Controls /\ saOut \in Seq(Tokens) /\ PlainOutput(saOut) /\ Scored(b)
      /\ noise.race \in Tokens
  BY DEF Accept, SaInv, Noise
<1>2. b.mode = "logits" \/ b.mode = "argmax_ids"
  BY <1>1 DEF Scored
<1>3. GoodRow(b, new)
  <2>1. CASE b.mode = "logits"
    <3>1. GoodRow(b, Committed(b, noise.coins, noise.race))
      BY <1>1, <2>1, CommittedRow
    <3> QED BY <2>1, <3>1
  <2>2. CASE b.mode = "argmax_ids"
    <3>1. GoodRow(b, GreedyCommitted(b))
      BY <1>1, <2>2, GreedyIdsRow
    <3> QED BY <2>2, <3>1
  <2> QED BY <1>2, <2>1, <2>2
<1> HIDE DEF new, b
<1>4. Trimmed(saOut \o new) \in Seq(Tokens) /\ PlainOutput(Trimmed(saOut \o new))
  BY <1>1, <1>3, RowContinues
<1>5. PlainOutput(saOut)' /\ saOut' \in Seq(Tokens)
  BY <1>1, <1>4, PlainOutputStays
<1> QED BY <1>1, <1>5 DEF SaInv

(* A step keeps the invariant. *)
LEMMA SaStep ==
  ASSUME SaInv, [SaNext]_saVars
  PROVE  SaInv'
<1>1. ASSUME NEW mode \in {"logits", "argmax_ids"}, NEW valid \in 0 .. SaK,
             NEW drafts \in DraftBlocks(valid), Score(mode, drafts, valid)
      PROVE  SaInv'
  BY <1>1, ScoreInv
<1>2. ASSUME NEW noise \in Noise, Accept(noise.coins, noise.race) PROVE SaInv'
  BY <1>2, AcceptInv
<1>3. CASE UNCHANGED saVars
  <2>1. saCtl' = saCtl /\ saOut' = saOut /\ saBlock' = saBlock
    BY <1>3 DEF saVars
  <2>2. PlainOutput(saOut)'
    BY <2>1, PlainOutputStays DEF SaInv
  <2>3. Scored(saBlock)' <=> Scored(saBlock)
    BY <2>1 DEF Scored, InUse, Logits, GrammarAllows, LeadingDrafts, History, FilterAllows,
                PenalisedWeight
  <2> QED BY <2>1, <2>2, <2>3 DEF SaInv
<1> QED BY <1>1, <1>2, <1>3 DEF SaNext

(* Every token that a verify commits is one the ordinary sampler could have
   drawn after the tokens before it, and for a greedy row the one it would have
   chosen: for any vocabulary of three tokens or more, any number of drafts and
   any length, whatever was drafted, padded, rejected or trimmed. *)
THEOREM SpeculationCommitsAsPlain == SaSpec => []CommitsAsPlain
<1>1. SaInv => CommitsAsPlain
  BY CommitsIsPlain DEF SaInv
<1>2. SaInv /\ [SaNext]_saVars => SaInv'
  BY SaStep
<1> QED BY <1>1, <1>2, SaInitInv, PTL DEF SaSpec

(* Drafts that can all be reached. *)
LEMMA ReachableIs ==
  ASSUME NEW b, Scored(b), NEW j \in 1 .. Reachable(b)
  PROVE  /\ j \in 1 .. b.valid
         /\ \A i \in 1 .. j - 1 : TopK(b.logits[i])[b.drafts[i]] > 0
<1> DEFINE good(i) == TopK(b.logits[i])[b.drafts[i]] > 0
           S == {k \in 1 .. b.valid : \A i \in 1 .. k - 1 : good(i)}
           n == Cardinality(S)
           m == j - 1
<1>1. b.valid \in Nat
  BY SaAssumption DEF Scored
<1>2. Reachable(b) = n
  BY DEF Reachable
<1> HIDE DEF good
<1>3. IsFiniteSet(S) /\ n \in Nat
  <2> DEFINE v == b.valid
  <2>1. S \subseteq 1 .. v
    OBVIOUS
  <2>2. v \in Int /\ 1 \in Int
    BY <1>1
  <2> HIDE DEF S, v
  <2>3. IsFiniteSet(1 .. v)
    BY <2>2, FS_Interval
  <2> QED BY <2>1, <2>3, FS_Subset, FS_CardinalityType
<1>4. j \in Nat /\ j > 0 /\ j <= n /\ m \in Nat
  BY <1>2, <1>3
<1>5. ASSUME j \notin S PROVE FALSE
  <2>1. S \subseteq 1 .. m
    <3> SUFFICES ASSUME NEW k \in S, ~(k \in 1 .. m) PROVE FALSE
      OBVIOUS
    <3>1. k \in 1 .. b.valid /\ k >= j /\ \A i \in 1 .. k - 1 : good(i)
      BY <1>1, <1>4
    <3>2. j \in 1 .. b.valid /\ \A i \in 1 .. j - 1 : i \in 1 .. k - 1
      BY <1>1, <1>4, <3>1
    <3>3. \A i \in 1 .. j - 1 : good(i)
      BY <3>1, <3>2
    <3> QED BY <1>5, <3>2, <3>3
  <2>2. IsFiniteSet(1 .. m) /\ Cardinality(1 .. m) = m
    BY <1>4, FS_Interval
  <2> HIDE DEF S
  <2>3. n <= m
    BY <2>1, <2>2, FS_Subset
  <2> HIDE DEF n
  <2> QED BY <1>3, <1>4, <2>3
<1>6. j \in S
  BY <1>5
<1> QED BY <1>6 DEF good

(* Shares of a total, multiplied out. *)
LEMMA Shares ==
  ASSUME NEW a \in Nat, NEW b \in Nat, NEW R \in Nat, NEW T \in Nat
  PROVE  (a * R + R * b) * T = (a + b) * T * R
<1>1. a * R \in Nat /\ R * b \in Nat /\ (a + b) * T \in Nat /\ a * T \in Nat /\ b * T \in Nat
  BY SMTT(30)
<1>2. (a * R + R * b) * T = (a * R) * T + (R * b) * T
  BY <1>1, SMTT(30)
<1>3. (a + b) * T * R = (a * T) * R + (b * T) * R
  BY <1>1, SMTT(30)
<1>4. (a * R) * T = (a * T) * R /\ (R * b) * T = (b * T) * R
  BY <1>1, SMTT(30)
<1> QED BY <1>2, <1>3, <1>4

(* Accepting a draft by its share and correcting a rejection from the residual
   gives each token its own share. *)
LEMMA SharesKept ==
  ASSUME NEW w \in Weights, NEW d \in Tokens, NEW x \in Tokens
  PROVE  LET taken == IF x = d THEN w[d] ELSE 0
             r == Residual(w, d)
             T == Total(w)
             R == Total(r)
         IN  IF R = 0 THEN taken * T = w[x] * T
             ELSE (taken * R + (T - w[d]) * r[x]) * T = w[x] * T * R
<1> DEFINE taken == IF x = d THEN w[d] ELSE 0
           r == Residual(w, d)
           T == Total(w)
           R == Total(r)
           y == r[x]
<1>1. r \in Weights /\ T = R + w[d]
  BY ResidualTotal
<1>2. T \in Nat /\ R \in Nat
  BY <1>1, TotalZero
<1>3. w[d] \in Nat /\ w[x] \in Nat /\ taken \in Nat
  BY DEF Weights
<1>4. (x = d => r[x] = 0) /\ (x # d => r[x] = w[x])
  BY DEF Residual, Weights
<1>5. y \in Nat /\ w[x] = taken + y
  BY <1>3, <1>4
<1>6. R = 0 => w[x] = taken
  <2>1. R = 0 => r[x] = 0
    BY <1>1, TotalZero
  <2> HIDE DEF taken, r
  <2> QED BY <1>3, <1>5, <2>1
<1>7. T - w[d] = R
  BY <1>1, <1>2, <1>3
<1> HIDE DEF taken, T, R, y, r
<1>8. (taken * R + R * y) * T = (taken + y) * T * R
  BY <1>2, <1>3, <1>5, Shares
<1>9. IF R = 0 THEN taken * T = w[x] * T
      ELSE (taken * R + (T - w[d]) * y) * T = w[x] * T * R
  BY <1>5, <1>6, <1>7, <1>8
<1> QED BY <1>9 DEF taken, T, R, y, r

(* A drafted position that a sampled walk can reach keeps the ordinary
   sampler's distribution exactly. *)
THEOREM SpeculationKeepsDistribution == SaSpec => []KeepsDistribution
<1>1. SaInv => KeepsDistribution
  <2> SUFFICES ASSUME SaInv, saBlock # NoBlock, ~saCtl.greedy,
                      NEW j \in 1 .. Reachable(saBlock), NEW x \in Tokens
               PROVE  LET w == TopK(saBlock.logits[j])
                          p == TopK(PlainLogits(saOut \o SubSeq(saBlock.drafts, 1, j - 1)))
                          d == saBlock.drafts[j]
                          r == Residual(w, d)
                          T == Total(w)
                          R == Total(r)
                          taken == IF x = d THEN w[d] ELSE 0
                      IN  IF R = 0 THEN taken * Total(p) = p[x] * T
                          ELSE (taken * R + (T - w[d]) * r[x]) * Total(p) = p[x] * T * R
    BY DEF KeepsDistribution
  <2> DEFINE b == saBlock  m == j - 1  h(i) == After(b.drafts, i - 1)
  <2>1. saCtl \in Controls /\ saOut \in Seq(Tokens) /\ Scored(b)
    BY DEF SaInv
  <2> HIDE DEF b
  <2>2. /\ j \in 1 .. b.valid
        /\ \A i \in 1 .. m : TopK(b.logits[i])[b.drafts[i]] > 0
    BY <2>1, ReachableIs DEF b
  <2>3. b.valid \in Nat /\ b.valid <= SaK /\ SaK \in Nat /\ m \in 0 .. b.valid /\ m + 1 = j
        /\ b.valid \in 0 .. SaK /\ b.drafts \in DraftBlocks(b.valid)
    BY <2>1, <2>2, SaAssumption DEF Scored
  <2>4. \A i \in 1 .. j : h(i) \in Seq(Tokens)
    <3> SUFFICES ASSUME NEW i \in 1 .. j PROVE h(i) \in Seq(Tokens)
      OBVIOUS
    <3> DEFINE k == i - 1
    <3>1. k \in 0 .. b.valid
      BY <2>2, <2>3
    <3> HIDE DEF k
    <3>2. After(b.drafts, k) \in Seq(Tokens)
      BY <2>1, <2>3, <3>1, HistoryIs
    <3> QED BY <3>2 DEF k
  <2>5. saCtl.topk \in Nat /\ saCtl.topk > 0
    BY <2>1, SaControlsAre, TokensAre
  <2>6. ASSUME NEW i \in 1 .. m, b.logits[i] = PlainLogits(After(b.drafts, i - 1))
        PROVE  b.logits[i][b.drafts[i]] > 0
    <3>1. i \in 1 .. j /\ i \in 1 .. b.valid
      BY <2>2, <2>3
    <3>2. PlainLogits(h(i)) \in Weights
      BY <2>1, <2>4, <3>1, PlainIs
    <3> DEFINE w == b.logits[i]
    <3>3. w \in Weights
      BY <2>6, <3>2
    <3>4. b.drafts[i] \in Tokens
      BY <2>1, <3>1, DraftIsToken
    <3> HIDE DEF w, m, h
    <3>5. \A v \in Tokens : TopK(w)[v] > 0 => w[v] > 0
      BY <2>5, <3>3, TopKIs
    <3> QED BY <2>2, <3>4, <3>5 DEF w
  <2>7. b.logits[j] = PlainLogits(h(j))
    <3> HIDE DEF m
    <3>1. \A i \in 1 .. m + 1 : b.logits[i] = PlainLogits(After(b.drafts, i - 1))
      BY <2>1, <2>3, <2>6, ReachedIsPlain
    <3> QED BY <2>2, <2>3, <3>1
  <2>8. PlainLogits(h(j)) \in Weights
    BY <2>1, <2>2, <2>4, PlainIs
  <2> DEFINE w == TopK(b.logits[j])  d == b.drafts[j]
  <2>9. w \in Weights
    <3> HIDE DEF h
    <3> QED BY <2>5, <2>7, <2>8, TopKIs
  <2>10. d \in Tokens
    BY <2>1, <2>2, DraftIsToken
  <2>11. w = TopK(PlainLogits(saOut \o SubSeq(b.drafts, 1, j - 1)))
    BY <2>7 DEF After
  <2> HIDE DEF w, d
  <2>12. LET taken == IF x = d THEN w[d] ELSE 0
             r == Residual(w, d)
             T == Total(w)
             R == Total(r)
         IN  IF R = 0 THEN taken * T = w[x] * T
             ELSE (taken * R + (T - w[d]) * r[x]) * T = w[x] * T * R
    BY <2>9, <2>10, SharesKept
  <2>13. w = TopK(saBlock.logits[j]) /\ d = saBlock.drafts[j]
         /\ w = TopK(PlainLogits(saOut \o SubSeq(saBlock.drafts, 1, j - 1)))
    BY <2>11 DEF w, d, b
  <2> QED BY <2>12, <2>13
<1>2. SaInv /\ [SaNext]_saVars => SaInv'
  BY SaStep
<1> QED BY <1>1, <1>2, SaInitInv, PTL DEF SaSpec

-----------------------------------------------------------------------------
(* Prefix routing. *)

(* Mirror entries that name engines which were sent the block, and dispatches
   credited with no more than their engine was sent. *)
TrueEntries(sent) ==
  {m \in [block : Seq(Nat), at : SUBSET Engines] : \A e \in m.at : m.block \in sent[e]}
Credits ==
  {d \in [req : PrReqs, engine : Engines, uncached : Nat \ {0}, tokens : Nat \ {0},
          reusable : Nat] : d.tokens - d.uncached <= d.reusable}

(* The mirror never claims a block that its engine was not sent. *)
PrInv ==
  /\ prSent \in [Engines -> SUBSET Seq(Nat)]
  /\ prMirror \in Seq(TrueEntries(prSent))
  /\ prDispatched \in Seq(Credits)
  /\ prCounts \in [Engines -> [waiting : Nat, running : Nat]]

(* How occupied an engine is, is a number. *)
LEMMA OccupancyType ==
  ASSUME PrInv, NEW e \in Engines
  PROVE  Occupancy(e) \in Nat
<1>1. prCounts[e].waiting \in Nat /\ prCounts[e].running \in Nat
  BY DEF PrInv
<1>2. InFlightAt(e) \in Nat
  <2>1. IsFiniteSet({r \in PrReqs : prFlight[r].at = e})
    BY PrAssumption, FS_Subset
  <2> QED BY <2>1, FS_CardinalityType DEF InFlightAt
<1> DEFINE a == InFlightAt(e)  b == prCounts[e].waiting + prCounts[e].running
<1>3. a \in Nat /\ b \in Nat
  BY <1>1, <1>2
<1>4. Occupancy(e) = Max({a, b})
  BY DEF Occupancy
<1> HIDE DEF a, b
<1> QED BY <1>3, <1>4, MaxOfTwo

(* There are engines. *)
LEMMA EnginesExist ==
  Engines \subseteq Nat /\ Engines # {} /\ Caller \notin Engines
<1>1. PrEngines \in Nat \ {0}
  BY PrAssumption
<1>2. 1 \in Engines
  BY <1>1 DEF Engines
<1> QED BY <1>1, <1>2 DEF Engines, Caller

(* What a choice takes from the balancer. *)
LEMMA BalanceType ==
  ASSUME NEW balance \in Balances
  PROVE  balance.start \in Engines /\ balance.pressure \in [Engines -> Nat]
BY PrAssumption DEF Balances

(* The score of an engine is a number, and so is its place in the scan. *)
LEMMA ScoreType ==
  ASSUME PrInv, NEW balance \in Balances
  PROVE  /\ [e \in Engines |-> Load(e, balance)] \in [Engines -> Nat]
         /\ [e \in Engines |-> ScanPlace(e, balance)] \in [Engines -> Nat]
<1>1. balance.start \in Engines /\ balance.pressure \in [Engines -> Nat]
  BY BalanceType
<1>2. ASSUME NEW e \in Engines PROVE Load(e, balance) \in Nat
  <2>1. Occupancy(e) \in Nat /\ balance.pressure[e] \in Nat
    BY <1>1, OccupancyType
  <2> QED BY <2>1 DEF Load
<1>3. ASSUME NEW e \in Engines PROVE ScanPlace(e, balance) \in Nat
  <2>1. \A a, b \in Nat, n \in Nat \ {0} : (a + n - b) % n \in Nat
    BY SMTT(30)
  <2>2. e \in Nat /\ balance.start \in Nat /\ PrEngines \in Nat \ {0}
    BY <1>1, PrAssumption, EnginesExist
  <2> QED BY <2>1, <2>2 DEF ScanPlace
<1> QED BY <1>2, <1>3

(* Of some engines, one has the least load, and of these the first place. *)
LEMMA LeastOf ==
  ASSUME NEW some \in SUBSET Engines, some # {},
         NEW load \in [Engines -> Nat], NEW place \in [Engines -> Nat]
  PROVE  \E e \in some : \A f \in some :
           \/ load[e] < load[f]
           \/ load[e] = load[f] /\ place[e] <= place[f]
<1> DEFINE loads == {load[f] : f \in some}
<1>1. loads \subseteq Nat /\ loads # {}
  OBVIOUS
<1>2. PICK m \in loads : \A n \in loads : m <= n
  <2> HIDE DEF loads
  <2> QED BY <1>1, LeastElement
<1> DEFINE light == {f \in some : load[f] = m}
           places == {place[f] : f \in light}
<1>3. places \subseteq Nat /\ places # {}
  OBVIOUS
<1>4. PICK k \in places : \A n \in places : k <= n
  <2> HIDE DEF places
  <2> QED BY <1>3, LeastElement
<1>5. PICK e \in light : place[e] = k
  BY <1>4
<1>6. ASSUME NEW f \in some
      PROVE  \/ load[e] < load[f]
             \/ load[e] = load[f] /\ place[e] <= place[f]
  <2>1. load[f] \in loads /\ load[e] = m
    BY <1>5
  <2>2. m <= load[f] /\ m \in Nat /\ load[f] \in Nat
    BY <1>1, <1>2, <2>1
  <2>3. CASE load[f] = m
    <3>1. place[f] \in places
      BY <2>3
    <3> QED BY <1>4, <1>5, <2>1, <2>3, <3>1
  <2>4. CASE load[f] # m
    <3>1. m < load[f]
      BY <2>2, <2>4
    <3> QED BY <2>1, <3>1
  <2> QED BY <2>3, <2>4
<1> QED BY <1>5, <1>6

(* Least names an engine, wherever the scan starts. *)
LEMMA LeastIn ==
  ASSUME PrInv, NEW balance \in Balances
  PROVE  Least(balance) \in Engines
<1> DEFINE load == [e \in Engines |-> Load(e, balance)]
           place == [e \in Engines |-> ScanPlace(e, balance)]
<1>1. \E e \in Engines : \A f \in Engines :
        load[e] < load[f] \/ (load[e] = load[f] /\ place[e] <= place[f])
  <2>1. load \in [Engines -> Nat] /\ place \in [Engines -> Nat]
    BY ScoreType
  <2> HIDE DEF load, place
  <2> QED BY <2>1, LeastOf, EnginesExist
<1>2. \E e \in Engines : \A f \in Engines :
        \/ Load(e, balance) < Load(f, balance)
        \/ Load(e, balance) = Load(f, balance) /\ ScanPlace(e, balance) <= ScanPlace(f, balance)
  BY <1>1
<1> QED BY <1>2 DEF Least

(* One engine has the most hits, of these the least load, of these the first place. *)
SomeMost(hits, load, place) ==
  \E e \in Engines : \A f \in Engines :
    \/ hits[e] > hits[f]
    \/ hits[e] = hits[f] /\ load[e] < load[f]
    \/ hits[e] = hits[f] /\ load[e] = load[f] /\ place[e] <= place[f]

LEMMA MostOf ==
  ASSUME NEW b \in Nat, NEW hits \in [Engines -> 0 .. b],
         NEW load \in [Engines -> Nat], NEW place \in [Engines -> Nat]
  PROVE  SomeMost(hits, load, place)
<1> DEFINE found == {hits[f] : f \in Engines}
<1>1. found \in SUBSET (0 .. b) /\ found # {}
  BY EnginesExist
<1>2. PICK m \in found : \A n \in found : n <= m
  <2> HIDE DEF found
  <2> QED BY <1>1, MaxOfSet
<1> DEFINE best == {f \in Engines : hits[f] = m}
<1>3. best \in SUBSET Engines /\ best # {}
  OBVIOUS
<1>4. PICK e \in best : \A f \in best :
           \/ load[e] < load[f]
           \/ load[e] = load[f] /\ place[e] <= place[f]
  <2> HIDE DEF best
  <2> QED BY <1>3, LeastOf
<1>5. ASSUME NEW f \in Engines
      PROVE  \/ hits[e] > hits[f]
             \/ hits[e] = hits[f] /\ load[e] < load[f]
             \/ hits[e] = hits[f] /\ load[e] = load[f] /\ place[e] <= place[f]
  <2>1. hits[f] \in found /\ hits[e] = m /\ hits[f] \in 0 .. b /\ m \in 0 .. b
    BY <1>1
  <2>2. hits[f] <= m
    BY <1>2, <2>1
  <2>3. CASE hits[f] = m
    <3>1. f \in best
      BY <2>3
    <3> QED BY <1>4, <2>1, <2>3, <3>1
  <2>4. CASE hits[f] # m
    <3>1. hits[f] < m
      BY <2>1, <2>2, <2>4
    <3> QED BY <2>1, <3>1
  <2> QED BY <2>3, <2>4
<1> QED BY <1>4, <1>5 DEF SomeMost

(* Holder names an engine, when no hits exceed a bound. *)
LEMMA HolderIn ==
  ASSUME PrInv, NEW balance \in Balances, NEW b \in Nat, NEW hits \in [Engines -> 0 .. b]
  PROVE  Holder(hits, balance) \in Engines
<1> DEFINE load == [e \in Engines |-> Load(e, balance)]
           place == [e \in Engines |-> e]
<1>1. SomeMost(hits, load, place)
  <2>1. load \in [Engines -> Nat] /\ place \in [Engines -> Nat]
    BY ScoreType, EnginesExist
  <2> HIDE DEF load, place
  <2> QED BY <2>1, MostOf
<1>2. \E e \in Engines : \A f \in Engines :
        \/ hits[e] > hits[f]
        \/ hits[e] = hits[f] /\ Load(e, balance) < Load(f, balance)
        \/ hits[e] = hits[f] /\ Load(e, balance) = Load(f, balance) /\ e <= f
  BY <1>1 DEF SomeMost
<1> QED BY <1>2 DEF Holder

(* The blocks of a prompt are prefixes of it. *)
LEMMA BlocksType ==
  ASSUME NEW p \in Seq(Nat)
  PROVE  /\ Blocks(p) \in Seq(Seq(Nat)) /\ Len(Blocks(p)) = Len(p)
         /\ \A i \in 1 .. Len(p) : Blocks(p)[i] \in ToSet(Blocks(p))
         /\ ToSet(Blocks(p)) \subseteq Seq(Nat)
<1>1. DOMAIN p = 1 .. Len(p) /\ Len(p) \in Nat
  OBVIOUS
<1>2. \A i \in 1 .. Len(p) : SubSeq(p, 1, i) \in Seq(Nat)
  OBVIOUS
<1>3. Blocks(p) \in [1 .. Len(p) -> Seq(Nat)]
  BY <1>1, <1>2 DEF Blocks
<1>4. Blocks(p) \in Seq(Seq(Nat)) /\ Len(Blocks(p)) = Len(p)
  BY <1>1, <1>3
<1>5. DOMAIN Blocks(p) = 1 .. Len(p)
  BY <1>3
<1>6. ToSet(Blocks(p)) \subseteq Seq(Nat)
  BY <1>3, <1>5 DEF ToSet
<1> QED BY <1>4, <1>5, <1>6 DEF ToSet

(* What the mirror says an engine holds, it was sent. *)
LEMMA HeldIsSent ==
  ASSUME PrInv, NEW e \in Engines
  PROVE  HeldBy(e) \subseteq prSent[e]
<1>1. ASSUME NEW i \in DOMAIN prMirror, e \in prMirror[i].at
      PROVE  prMirror[i].block \in prSent[e]
  <2>1. prMirror[i] \in TrueEntries(prSent)
    BY <1>1 DEF PrInv
  <2> QED BY <1>1, <2>1 DEF TrueEntries
<1> QED BY <1>1 DEF HeldBy

(* The leading run is no longer than the prompt, and no shorter when more
   blocks are held. *)
LEMMA RunMonotone ==
  ASSUME NEW p \in Seq(Nat), NEW held, NEW more, held \subseteq more
  PROVE  /\ LeadingRun(p, held) \in 0 .. Len(p)
         /\ LeadingRun(p, more) \in 0 .. Len(p)
         /\ LeadingRun(p, held) <= LeadingRun(p, more)
<1> DEFINE Runs(h) == {n \in 0 .. Len(p) : \A i \in 1 .. n : Blocks(p)[i] \in h}
<1>1. Len(p) \in Nat
  OBVIOUS
<1>2. \A h : Runs(h) \in SUBSET (0 .. Len(p)) /\ Runs(h) # {}
  <2> SUFFICES ASSUME NEW h PROVE 0 \in Runs(h)
    OBVIOUS
  <2> QED BY <1>1
<1>3. Runs(held) \subseteq Runs(more)
  OBVIOUS
<1>4. \A h : LeadingRun(p, h) = Max(Runs(h))
  BY DEF LeadingRun
<1> HIDE DEF Runs
<1>5. \A h : Max(Runs(h)) \in Runs(h) /\ \A n \in Runs(h) : n <= Max(Runs(h))
  BY <1>1, <1>2, MaxOfSet
<1>6. Max(Runs(held)) \in Runs(more)
  BY <1>3, <1>5
<1> QED BY <1>2, <1>4, <1>5, <1>6

(* A prompt has a token. *)
LEMMA PromptHasTokens ==
  ASSUME NEW p \in PrPrompts
  PROVE  PromptTokens(p) \in Nat \ {0}
<1>1. /\ PrSize \in Nat \ {0} /\ PrTail \in Nat /\ p \in Seq(Nat)
      /\ PrTail = 0 => p # <<>>
  BY PrAssumption
<1>2. Len(p) \in Nat
  BY <1>1
<1>3. PrSize * Len(p) \in Nat
  BY <1>1, <1>2, ProductGrows
<1>4. CASE PrTail # 0
  BY <1>1, <1>3, <1>4 DEF PromptTokens
<1>5. CASE PrTail = 0
  <2>1. Len(p) >= 1
    BY <1>1, <1>2, <1>5
  <2>2. PrSize * 1 <= PrSize * Len(p)
    BY <1>1, <1>2, <2>1, ProductGrows
  <2> DEFINE x == PrSize * Len(p)
  <2>3. x \in Nat /\ x >= 1
    BY <1>1, <1>3, <2>2
  <2> HIDE DEF x
  <2>4. x + PrTail \in Nat \ {0}
    BY <1>5, <2>3
  <2> QED BY <2>4 DEF PromptTokens, x
<1> QED BY <1>4, <1>5

(* A request is credited with what its engine was sent, and with less than its
   prompt. *)
LEMMA CachedBound ==
  ASSUME PrInv, NEW p \in PrPrompts, NEW e \in Engines
  PROVE  /\ CachedTokens(p, e) \in 0 .. PromptTokens(p) - 1
         /\ SentTokens(p, e) \in Nat
         /\ CachedTokens(p, e) <= SentTokens(p, e)
<1>1. PrSize \in Nat \ {0} /\ p \in Seq(Nat)
  BY PrAssumption
<1> DEFINE own == LeadingRun(p, HeldBy(e))
           sent == LeadingRun(p, prSent[e])
<1>2. own \in Nat /\ sent \in Nat /\ own <= sent
  BY <1>1, HeldIsSent, RunMonotone
<1> DEFINE a == PrSize * own  b == PrSize * sent  c == PromptTokens(p) - 1
<1>3. CachedTokens(p, e) = Min({a, c}) /\ SentTokens(p, e) = b
  BY DEF CachedTokens, SentTokens
<1> HIDE DEF own, sent
<1>4. a \in Nat /\ b \in Nat /\ a <= b
  BY <1>1, <1>2, ProductGrows
<1>5. c \in Nat
  BY PromptHasTokens
<1> HIDE DEF a, b
<1>6. Min({a, c}) = IF a <= c THEN a ELSE c
  <2> HIDE DEF c
  <2> QED BY <1>4, <1>5, MinOfTwo
<1> QED BY <1>3, <1>4, <1>5, <1>6

(* Whatever the balancer has, the request goes to an engine. *)
LEMMA TargetsIn ==
  ASSUME PrInv, NEW b \in Nat, NEW hits \in [Engines -> 0 .. b],
         NEW pinned \in Engines \cup {Caller}
  PROVE  Targets(pinned, hits) \subseteq Engines
<1>1. ASSUME NEW balance \in Balances PROVE Target(hits, balance) \in Engines
  <2>1. Holder(hits, balance) \in Engines /\ Least(balance) \in Engines
    BY HolderIn, LeastIn
  <2> QED BY <2>1 DEF Target
<1> QED BY <1>1 DEF Targets

(* What Recorded writes names only engines that were sent the block, the new
   dispatch included. *)
LEMMA RecordedTrue ==
  ASSUME PrInv, NEW p \in PrPrompts, NEW e \in Engines, NEW sent,
         sent = [prSent EXCEPT ![e] = @ \cup ToSet(Blocks(p))]
  PROVE  /\ sent \in [Engines -> SUBSET Seq(Nat)]
         /\ Recorded(p, e) \in Seq(TrueEntries(sent))
<1>1. p \in Seq(Nat) /\ PrCapacity \in Nat \ {0}
  BY PrAssumption
<1>2. sent \in [Engines -> SUBSET Seq(Nat)]
  BY <1>1, BlocksType DEF PrInv
<1>3. \A f \in Engines : prSent[f] \subseteq sent[f]
  BY DEF PrInv
<1>4. TrueEntries(prSent) \subseteq TrueEntries(sent)
  BY <1>3 DEF TrueEntries
<1>5. prMirror \in Seq(TrueEntries(sent))
  <2>1. prMirror \in Seq(TrueEntries(prSent))
    BY DEF PrInv
  <2> QED BY <1>4, <2>1, SeqWithin
<1> DEFINE K == {i \in DOMAIN prMirror : prMirror[i].block \notin ToSet(Blocks(p))}
           old == Picked(prMirror, K)
           new == [i \in DOMAIN p |-> [block |-> Blocks(p)[i], at |-> HeldAt(Blocks(p)[i]) \cup {e}]]
           all == old \o new
           start == Max({1, Len(all) - PrCapacity + 1})
<1>6. old \in Seq(TrueEntries(sent))
  <2> HIDE DEF K
  <2> QED BY <1>5, PickedIn
<1>7. ASSUME NEW i \in 1 .. Len(p)
      PROVE  [block |-> Blocks(p)[i], at |-> HeldAt(Blocks(p)[i]) \cup {e}] \in TrueEntries(sent)
  <2> DEFINE x == Blocks(p)[i]
  <2>1. x \in Seq(Nat) /\ x \in ToSet(Blocks(p))
    BY <1>1, BlocksType
  <2>2. x \in sent[e]
    BY <2>1 DEF PrInv
  <2> HIDE DEF x
  <2>3. ASSUME NEW f \in HeldAt(x) PROVE f \in Engines /\ x \in sent[f]
    <3>1. PICK j \in DOMAIN prMirror : prMirror[j].block = x /\ f \in prMirror[j].at
      BY DEF HeldAt
    <3>2. prMirror[j] \in TrueEntries(sent)
      BY <1>5
    <3> QED BY <3>1, <3>2 DEF TrueEntries
  <2>4. [block |-> x, at |-> HeldAt(x) \cup {e}] \in TrueEntries(sent)
    BY <2>1, <2>2, <2>3 DEF TrueEntries
  <2> QED BY <2>4 DEF x
<1>8. new \in Seq(TrueEntries(sent))
  <2> DEFINE Entry(i) == [block |-> Blocks(p)[i], at |-> HeldAt(Blocks(p)[i]) \cup {e}]
  <2>1. DOMAIN p = 1 .. Len(p) /\ Len(p) \in Nat
    BY <1>1
  <2>2. new = [i \in 1 .. Len(p) |-> Entry(i)]
    BY <2>1
  <2>3. \A i \in 1 .. Len(p) : Entry(i) \in TrueEntries(sent)
    BY <1>7
  <2> HIDE DEF new, Entry
  <2>4. new \in [1 .. Len(p) -> TrueEntries(sent)]
    BY <2>2, <2>3
  <2> QED BY <2>1, <2>4, FunctionIsSeq
<1>9. Recorded(p, e) = SubSeq(all, start, Len(all))
  BY DEF Recorded
<1> HIDE DEF old, new
<1>10. all \in Seq(TrueEntries(sent))
  BY <1>6, <1>8
<1> HIDE DEF all
<1>11. Len(all) \in Nat
  BY <1>10
<1>12. start \in Nat /\ start >= 1
  <2> DEFINE k == Len(all) - PrCapacity + 1
  <2>1. k \in Int
    BY <1>1, <1>11
  <2> HIDE DEF k
  <2>2. Max({1, k}) = IF 1 >= k THEN 1 ELSE k
    BY <2>1, MaxOfTwo
  <2> QED BY <2>1, <2>2 DEF k
<1> HIDE DEF start
<1>13. SubSeq(all, start, Len(all)) \in Seq(TrueEntries(sent))
  BY <1>10, <1>11, <1>12
<1> QED BY <1>2, <1>9, <1>13

(* A routed request is credited with what was sent. *)
LEMMA RouteInv ==
  ASSUME PrInv, NEW r \in PrReqs, NEW p \in PrPrompts, NEW pinned \in Engines \cup {Caller},
         NEW reads \in BOOLEAN, Route(r, p, pinned, reads)
  PROVE  PrInv'
<1> DEFINE hits == [e \in Engines |-> IF reads THEN CachedTokens(p, e) ELSE 0]
           Sent(e) == [req |-> r, engine |-> e, uncached |-> PromptTokens(p) - hits[e],
                       tokens |-> PromptTokens(p), reusable |-> IF reads THEN SentTokens(p, e) ELSE 0]
<1>1. PromptTokens(p) \in Nat \ {0}
  BY PromptHasTokens
<1>2. hits \in [Engines -> 0 .. PromptTokens(p) - 1]
  BY <1>1, CachedBound
<1>3. Targets(pinned, hits) \subseteq Engines
  <2> HIDE DEF hits
  <2> QED BY <1>1, <1>2, TargetsIn
<1>4. PICK e \in Engines :
      /\ prCounts' = IF pinned = Caller THEN [prCounts EXCEPT ![e].waiting = @ + 1] ELSE prCounts
      /\ prMirror' = Recorded(p, e)
      /\ prDispatched' = Append(prDispatched, Sent(e))
      /\ prSent' = [prSent EXCEPT ![e] = @ \cup ToSet(Blocks(p))]
  BY <1>3 DEF Route
<1> DEFINE d == Sent(e)
<1>5. hits[e] <= IF reads THEN SentTokens(p, e) ELSE 0
  <2>1. CASE reads
    BY <2>1, CachedBound
  <2>2. CASE ~reads
    BY <2>2
  <2> QED BY <2>1, <2>2
<1>6. SentTokens(p, e) \in Nat
  BY CachedBound
<1> HIDE DEF hits
<1>7. d \in Credits
  <2> DEFINE t == PromptTokens(p)  h == hits[e]  s == IF reads THEN SentTokens(p, e) ELSE 0
  <2>1. t \in Nat \ {0} /\ h \in 0 .. t - 1 /\ s \in Nat /\ h <= s
    BY <1>1, <1>2, <1>5, <1>6
  <2> HIDE DEF t, h, s
  <2>2. t - h \in Nat \ {0} /\ t - (t - h) <= s
    BY <2>1
  <2>3. [req |-> r, engine |-> e, uncached |-> t - h, tokens |-> t, reusable |-> s] \in Credits
    BY <2>1, <2>2 DEF Credits
  <2> QED BY <2>3 DEF t, h, s
<1> HIDE DEF Sent
<1>8. prDispatched' \in Seq(Credits)
  <2>1. prDispatched \in Seq(Credits) /\ prDispatched' = Append(prDispatched, d)
    BY <1>4 DEF PrInv
  <2> HIDE DEF d
  <2> QED BY <1>7, <2>1
<1>9. prSent' \in [Engines -> SUBSET Seq(Nat)] /\ prMirror' \in Seq(TrueEntries(prSent'))
  BY <1>4, RecordedTrue
<1>10. prCounts' \in [Engines -> [waiting : Nat, running : Nat]]
  <2>1. prCounts \in [Engines -> [waiting : Nat, running : Nat]]
    BY DEF PrInv
  <2>2. prCounts' = [prCounts EXCEPT ![e].waiting = @ + 1] \/ prCounts' = prCounts
    BY <1>4
  <2> QED BY <2>1, <2>2
<1> QED BY <1>8, <1>9, <1>10 DEF PrInv

(* A reset forgets the mirror and every credit. *)
LEMMA ResetInv ==
  ASSUME PrInv, Reset
  PROVE  PrInv'
<1>1. prSent' \in [Engines -> SUBSET Seq(Nat)] /\ prMirror' \in Seq(TrueEntries(prSent'))
  BY DEF Reset
<1>2. ASSUME NEW i \in DOMAIN prDispatched
      PROVE  [CreditDropped(prDispatched[i]) EXCEPT !.reusable = 0] \in Credits
  <2>1. prDispatched[i] \in Credits
    BY <1>2 DEF PrInv
  <2>2. PICK d \in Credits : d = prDispatched[i]
    BY <2>1
  <2>3. [CreditDropped(d) EXCEPT !.reusable = 0]
          = [req |-> d.req, engine |-> d.engine, uncached |-> d.tokens, tokens |-> d.tokens, reusable |-> 0]
    <3>1. CreditDropped(d) = [req |-> d.req, engine |-> d.engine, uncached |-> d.tokens,
                              tokens |-> d.tokens, reusable |-> d.reusable]
      BY DEF CreditDropped, Credits
    <3> QED BY <3>1
  <2>4. [req |-> d.req, engine |-> d.engine, uncached |-> d.tokens, tokens |-> d.tokens, reusable |-> 0]
          \in Credits
    BY DEF Credits
  <2> QED BY <2>2, <2>3, <2>4
<1>3. prDispatched' \in Seq(Credits)
  <2>1. DOMAIN prDispatched = 1 .. Len(prDispatched) /\ Len(prDispatched) \in Nat
    BY DEF PrInv
  <2>2. prDispatched' \in [1 .. Len(prDispatched) -> Credits]
    BY <1>2, <2>1 DEF Reset
  <2> QED BY <2>1, <2>2
<1>4. prCounts' \in [Engines -> [waiting : Nat, running : Nat]]
  BY DEF Reset, PrInv
<1> QED BY <1>1, <1>3, <1>4 DEF PrInv

(* Published counts are numbers. *)
LEMMA PublishInv ==
  ASSUME PrInv, Publish
  PROVE  PrInv'
<1>1. \A S \in SUBSET PrReqs : Cardinality(S) \in Nat
  BY PrAssumption, FS_Subset, FS_CardinalityType
<1>2. prCounts' \in [Engines -> [waiting : Nat, running : Nat]]
  BY <1>1 DEF Publish
<1> QED BY <1>2 DEF Publish, PrInv

(* A request that leaves takes its dispatch along. *)
LEMMA LeaveInv ==
  ASSUME PrInv, NEW r \in PrReqs, Leave(r)
  PROVE  PrInv'
<1>1. prDispatched' \in Seq(Credits)
  BY PickedIn DEF Leave, PrInv
<1> QED BY <1>1 DEF Leave, PrInv

(* A step keeps the mirror true. *)
LEMMA PrStep ==
  ASSUME PrInv, [PrNext]_prVars
  PROVE  PrInv'
<1>1. CASE \E r \in PrReqs, p \in PrPrompts, pinned \in Engines \cup {Caller}, reads \in BOOLEAN :
             Route(r, p, pinned, reads)
  BY <1>1, RouteInv
<1>2. CASE Reset
  BY <1>2, ResetInv
<1>3. ASSUME NEW r \in PrReqs, Run(r) PROVE PrInv'
  BY <1>3 DEF Run, PrInv
<1>4. CASE \E r \in PrReqs : Leave(r)
  BY <1>4, LeaveInv
<1>5. CASE Publish
  BY <1>5, PublishInv
<1>6. CASE UNCHANGED prVars
  BY <1>6 DEF prVars, PrInv
<1> QED BY <1>1, <1>2, <1>3, <1>4, <1>5, <1>6 DEF PrNext

(* The mirror names an engine for a block only when the engine was sent it, in
   every reachable state: what makes a credit derived from it honest. *)
THEOREM PrInvariant == PrSpec => []PrInv
<1>1. PrInit => PrInv
  BY DEF PrInit, PrInv
<1>2. PrInv /\ [PrNext]_prVars => PrInv'
  BY PrStep
<1> QED BY <1>1, <1>2, PTL DEF PrSpec

(* pick_prefix_cache_target's credits: for every number of engines and requests
   and every capacity of the mirror, no request in flight is credited with more
   of its prompt than its engine was sent since the last reset. *)
THEOREM CreditsAreSent == PrSpec => []CreditIsSent
<1>1. PrInv => CreditIsSent
  <2> SUFFICES ASSUME PrInv, NEW i \in DOMAIN prDispatched
               PROVE  /\ prDispatched[i].uncached >= 1
                      /\ prDispatched[i].tokens - prDispatched[i].uncached <= prDispatched[i].reusable
    BY DEF CreditIsSent
  <2>1. prDispatched[i] \in Credits
    BY DEF PrInv
  <2> QED BY <2>1 DEF Credits
<1> QED BY <1>1, PrInvariant, PTL

-----------------------------------------------------------------------------
(* Stage frames. *)

(* The frame indices of a request that has so many tokens computed. *)
FrameRun(done, prompt) == [i \in 1 .. done - prompt |-> i - 1]

(* A frame more. *)
LEMMA FrameRuns ==
  ASSUME NEW prompt \in Nat, NEW done \in Nat
  PROVE  /\ done <= prompt => FrameRun(done, prompt) = <<>>
         /\ done >= prompt => FrameRun(done + 1, prompt) = Append(FrameRun(done, prompt), done - prompt)
<1>1. ASSUME done <= prompt PROVE FrameRun(done, prompt) = <<>>
  <2>1. 1 .. done - prompt = {}
    BY <1>1
  <2> QED BY <2>1 DEF FrameRun
<1>2. ASSUME done >= prompt
      PROVE  FrameRun(done + 1, prompt) = Append(FrameRun(done, prompt), done - prompt)
  <2> DEFINE n == done - prompt
  <2>1. n \in Nat /\ done + 1 - prompt = n + 1
    BY <1>2
  <2>2. FrameRun(done, prompt) = [i \in 1 .. n |-> i - 1]
        /\ FrameRun(done + 1, prompt) = [i \in 1 .. n + 1 |-> i - 1]
    BY <2>1 DEF FrameRun
  <2> HIDE DEF n
  <2>3. [i \in 1 .. n |-> i - 1] \in Seq(Nat) /\ Len([i \in 1 .. n |-> i - 1]) = n
    BY <2>1
  <2>4. Append([i \in 1 .. n |-> i - 1], n) = [i \in 1 .. n + 1 |-> i - 1]
    BY <2>1, <2>3
  <2> QED BY <2>2, <2>4 DEF n
<1> QED BY <1>1, <1>2

(* At first there are none. *)
LEMMA NoFrames == FrameRun(0, 0) = <<>>
<1>1. 1 .. 0 - 0 = {}
  OBVIOUS
<1> QED BY <1>1 DEF FrameRun

(* Where a request stands: it has the frames of the tokens it decoded, waits
   with nothing computed, and runs with its prompt partly computed, or with one
   token to compute. *)
Stands(r) ==
  /\ sfFrames[r] = FrameRun(sfDone[r], sfPrompt[r])
  /\ sfPrompt[r] = 0 => sfDone[r] = 0
  /\ r \in ToSet(sfWaiting) =>
       sfDone[r] = 0 /\ sfTokens[r] = sfPrompt[r] /\ sfPrompt[r] > 0 /\ sfTokens[r] < SfMaxLen
  /\ r \in ToSet(sfRunning) =>
       /\ sfPrompt[r] > 0 /\ sfTokens[r] < SfMaxLen
       /\ sfTokens[r] = IF sfDone[r] < sfPrompt[r] THEN sfPrompt[r] ELSE sfDone[r] + 1

Queued ==
  /\ sfRunning \in Seq(SfReqs) /\ sfWaiting \in Seq(SfReqs)
  /\ Distinct(sfRunning) /\ Distinct(sfWaiting) /\ ToSet(sfRunning) \cap ToSet(sfWaiting) = {}
  /\ Len(sfRunning) <= SfMaxNumSeqs
  /\ \A r \in ToSet(sfRunning) \cup ToSet(sfWaiting) : sfPrompt[r] > 0

(* No more requests run than the KV pool holds, each where it stands. *)
SfInv ==
  /\ sfPool \in Nat /\ PoolHolds(sfPool)
  /\ sfPrompt \in [SfReqs -> Nat] /\ sfTokens \in [SfReqs -> Nat] /\ sfDone \in [SfReqs -> Nat]
  /\ sfFrames \in [SfReqs -> Seq(Nat)]
  /\ Queued
  /\ ~sfReported /\ ~sfRaised /\ ~sfLost
  /\ \A r \in SfReqs : Stands(r)

(* More tokens need no fewer blocks. *)
LEMMA BlocksGrow ==
  ASSUME NEW a \in Nat, NEW b \in Nat, a <= b
  PROVE  BlocksFor(a) \in Nat /\ BlocksFor(b) \in Nat /\ BlocksFor(a) <= BlocksFor(b)
<1> DEFINE u == SfBlock
           x == a + u - 1
           y == b + u - 1
           p == x \div u
           q == y \div u
<1>1. u \in Nat \ {0}
  BY SfAssumption
<1>2. x \in Nat /\ y \in Nat /\ x <= y
  BY <1>1
<1>3. BlocksFor(a) = p /\ BlocksFor(b) = q
  BY DEF BlocksFor
<1> HIDE DEF u, x, y
<1>4. p \in Nat /\ u * p <= x
  BY <1>1, <1>2, SMTT(30)
<1>5. q \in Nat /\ y < u * q + u
  BY <1>1, <1>2, SMTT(30)
<1> HIDE DEF p, q
<1>6. ASSUME q < p PROVE FALSE
  <2>1. u * (q + 1) <= u * p
    BY <1>1, <1>4, <1>5, <1>6, ProductGrows
  <2>2. u * (q + 1) = u * q + u
    BY <1>1, <1>5, SMTT(30)
  <2> DEFINE v == u * p  w == u * q
  <2>3. v \in Nat /\ w \in Nat
    BY <1>1, <1>4, <1>5, ProductGrows
  <2>4. w + u <= v /\ v <= x /\ y < w + u
    BY <1>4, <1>5, <2>1, <2>2
  <2> HIDE DEF v, w
  <2> QED BY <1>1, <1>2, <2>3, <2>4
<1> QED BY <1>3, <1>4, <1>5, <1>6

(* The blocks held when the running requests have computed chunks more. *)
HeldWith(chunks) ==
  {h \in ToSet(sfRunning) \X (1 .. BlocksFor(SfMaxLen)) :
     h[2] <= BlocksFor(sfDone[h[1]] + chunks[h[1]])}

(* They fit the pool. *)
LEMMA HeldFits ==
  ASSUME SfInv, NEW chunks
  PROVE  /\ IsFiniteSet(HeldWith(chunks)) /\ Cardinality(HeldWith(chunks)) \in Nat
         /\ Cardinality(HeldWith(chunks)) <= sfPool - 1
<1> DEFINE B == BlocksFor(SfMaxLen)
           n == Len(sfRunning)
           all == ToSet(sfRunning) \X (1 .. B)
<1>1. SfMaxLen \in Nat /\ SfMaxNumSeqs \in Nat
  BY SfAssumption
<1>2. B \in Nat
  BY <1>1, BlocksGrow
<1>3. sfRunning \in Seq(SfReqs) /\ Distinct(sfRunning) /\ n <= SfMaxNumSeqs /\ n \in Nat
  BY DEF SfInv, Queued
<1>4. IsFiniteSet(ToSet(sfRunning)) /\ Cardinality(ToSet(sfRunning)) = n
  BY <1>3, LengthIs
<1>5. sfPool - 1 >= SfMaxNumSeqs * B /\ sfPool \in Nat
  BY DEF SfInv, PoolHolds
<1> HIDE DEF B, n
<1>6. IsFiniteSet(1 .. B) /\ Cardinality(1 .. B) = B
  BY <1>2, FS_Interval
<1>7. IsFiniteSet(all) /\ Cardinality(all) = n * B
  BY <1>4, <1>6, FS_Product
<1>8. HeldWith(chunks) \subseteq all
  BY DEF HeldWith, B
<1> HIDE DEF all
<1>9. /\ IsFiniteSet(HeldWith(chunks)) /\ Cardinality(HeldWith(chunks)) \in Nat
      /\ Cardinality(HeldWith(chunks)) <= n * B
  BY <1>7, <1>8, FS_Subset, FS_CardinalityType
<1>10. n * B <= SfMaxNumSeqs * B /\ n * B \in Nat /\ SfMaxNumSeqs * B \in Nat
  <2>1. B * n \in Nat /\ B * SfMaxNumSeqs \in Nat /\ B * n <= B * SfMaxNumSeqs
    BY <1>1, <1>2, <1>3, ProductGrows
  <2>2. n * B = B * n /\ SfMaxNumSeqs * B = B * SfMaxNumSeqs
    BY <1>1, <1>2, <1>3, SMTT(30)
  <2> QED BY <2>1, <2>2
<1> DEFINE c == Cardinality(HeldWith(chunks))  v == n * B  w == SfMaxNumSeqs * B
<1>11. c \in Nat /\ v \in Nat /\ w \in Nat /\ c <= v /\ v <= w /\ sfPool - 1 >= w /\ sfPool \in Nat
  BY <1>5, <1>9, <1>10
<1> HIDE DEF c, v, w
<1>12. c <= sfPool - 1
  BY <1>11
<1> QED BY <1>9, <1>12 DEF c

(* A running request's chunk takes the blocks it lacks. *)
LEMMA HeldGrows ==
  ASSUME SfInv, NEW chunks \in [SfReqs -> Nat], NEW r \in ToSet(sfRunning), chunks[r] = 0,
         NEW n \in Nat, n <= sfTokens[r] - sfDone[r]
  PROVE  /\ BlocksFor(sfDone[r] + n) - BlocksFor(sfDone[r]) \in Nat
         /\ Cardinality(HeldWith([chunks EXCEPT ![r] = n])) =
              Cardinality(HeldWith(chunks)) + (BlocksFor(sfDone[r] + n) - BlocksFor(sfDone[r]))
<1> DEFINE B == BlocksFor(SfMaxLen)
           more == [chunks EXCEPT ![r] = n]
           a == BlocksFor(sfDone[r])
           b == BlocksFor(sfDone[r] + n)
           added == {r} \X (a + 1 .. b)
<1>1. /\ r \in SfReqs /\ sfDone[r] \in Nat /\ sfTokens[r] \in Nat /\ sfTokens[r] < SfMaxLen
      /\ SfMaxLen \in Nat /\ ToSet(sfRunning) \subseteq SfReqs
  <2>1. sfRunning \in Seq(SfReqs)
    BY DEF SfInv, Queued
  <2>2. ToSet(sfRunning) \subseteq SfReqs
    BY <2>1, ElementsOf
  <2> QED BY <2>2, SfAssumption DEF SfInv, Stands
<1>2. sfDone[r] + n \in Nat /\ sfDone[r] + n <= SfMaxLen
  BY <1>1
<1>3. a \in Nat /\ b \in Nat /\ a <= b
  BY <1>1, <1>2, BlocksGrow
<1>4. B \in Nat /\ b <= B
  BY <1>1, <1>2, BlocksGrow
<1>5. more[r] = n /\ \A q \in SfReqs \ {r} : more[q] = chunks[q]
  BY <1>1
<1>6. sfDone[r] + chunks[r] = sfDone[r]
  BY <1>1
<1> HIDE DEF more
<1>7. \A h : h \in HeldWith(more) <=> h \in HeldWith(chunks) \cup added
  <2> SUFFICES ASSUME NEW q, NEW i
               PROVE  <<q, i>> \in HeldWith(more) <=> <<q, i>> \in HeldWith(chunks) \cup added
    BY DEF HeldWith
  <2>1. <<q, i>> \in HeldWith(more) <=>
          q \in ToSet(sfRunning) /\ i \in 1 .. B /\ i <= BlocksFor(sfDone[q] + more[q])
    BY DEF HeldWith
  <2>2. <<q, i>> \in HeldWith(chunks) <=>
          q \in ToSet(sfRunning) /\ i \in 1 .. B /\ i <= BlocksFor(sfDone[q] + chunks[q])
    BY DEF HeldWith
  <2>3. <<q, i>> \in added <=> q = r /\ i \in a + 1 .. b
    OBVIOUS
  <2>4. CASE q = r
    <3>1. BlocksFor(sfDone[q] + more[q]) = b /\ BlocksFor(sfDone[q] + chunks[q]) = a
      BY <1>5, <1>6, <2>4
    <3> HIDE DEF a, b, B
    <3> QED BY <1>3, <1>4, <2>1, <2>2, <2>3, <2>4, <3>1
  <2>5. CASE q # r
    BY <1>1, <1>5, <2>1, <2>2, <2>3, <2>5
  <2> QED BY <2>4, <2>5
<1>8. HeldWith(more) = HeldWith(chunks) \cup added
  BY <1>7
<1>9. HeldWith(chunks) \cap added = {}
  <2> SUFFICES ASSUME NEW i \in a + 1 .. b PROVE <<r, i>> \notin HeldWith(chunks)
    OBVIOUS
  <2>1. ~(i <= BlocksFor(sfDone[r] + chunks[r]))
    BY <1>3, <1>6
  <2> QED BY <2>1 DEF HeldWith
<1>10. IsFiniteSet(HeldWith(chunks)) /\ Cardinality(HeldWith(chunks)) \in Nat
  BY HeldFits
<1> HIDE DEF a, b
<1>11. IsFiniteSet(added) /\ Cardinality(added) = b - a
  <2> DEFINE first == a + 1  one == {r}  new == first .. b
  <2>1. IsFiniteSet(one) /\ Cardinality(one) = 1
    BY FS_Singleton
  <2>2. first \in Int /\ b \in Int /\ b - first + 1 = b - a /\ (first > b => b - a = 0)
    BY <1>3
  <2>3. IsFiniteSet(new) /\ Cardinality(new) = b - a
    <3> HIDE DEF first
    <3> QED BY <2>2, FS_Interval
  <2> HIDE DEF one, new
  <2>4. IsFiniteSet(one \X new) /\ Cardinality(one \X new) = 1 * (b - a)
    BY <2>1, <2>3, FS_Product
  <2>5. added = one \X new
    BY DEF one, new
  <2> HIDE DEF added
  <2> QED BY <1>3, <2>4, <2>5
<1> HIDE DEF added
<1>12. Cardinality(HeldWith(more)) = Cardinality(HeldWith(chunks)) + (b - a)
  <2>1. Cardinality(HeldWith(chunks) \cup added)
          = Cardinality(HeldWith(chunks)) + Cardinality(added) - Cardinality(HeldWith(chunks) \cap added)
    BY <1>10, <1>11, FS_Union
  <2>2. Cardinality(HeldWith(chunks) \cap added) = 0
    BY <1>9, FS_EmptySet
  <2> QED BY <1>3, <1>8, <1>10, <1>11, <2>1, <2>2
<1> QED BY <1>3, <1>12 DEF a, b, more

(* What the walk has at one request. *)
SfWalks ==
  [free : Int, left : Nat, chunks : [SfReqs -> Nat], active : Nat, stop : BOOLEAN, preempts : BOOLEAN]

(* What one request takes of the walk. *)
Takes(w, r, waits, cap, v, n) ==
  /\ n \in Nat /\ n <= sfTokens[r] - sfDone[r]
  /\ v.chunks = [w.chunks EXCEPT ![r] = n]
  /\ v.active = IF waits /\ n > 0 THEN w.active + 1 ELSE w.active
  /\ waits /\ n > 0 => w.active < cap
  /\ ~waits => v.free = sfPool - 1 - Cardinality(HeldWith(v.chunks))

(* Those that wait or run. *)
LEMMA QueuedIs ==
  ASSUME SfInv
  PROVE  /\ sfRunning \in Seq(SfReqs) /\ sfWaiting \in Seq(SfReqs)
         /\ Distinct(sfRunning) /\ Distinct(sfWaiting) /\ ToSet(sfRunning) \cap ToSet(sfWaiting) = {}
         /\ Len(sfRunning) <= SfMaxNumSeqs
         /\ ToSet(sfRunning) \subseteq SfReqs /\ ToSet(sfWaiting) \subseteq SfReqs
         /\ \A r \in ToSet(sfRunning) \cup ToSet(sfWaiting) :
              /\ sfTokens[r] \in Nat /\ sfDone[r] \in Nat /\ sfPrompt[r] \in Nat \ {0}
              /\ sfDone[r] < sfTokens[r] /\ sfTokens[r] < SfMaxLen
<1>1. /\ sfRunning \in Seq(SfReqs) /\ sfWaiting \in Seq(SfReqs)
      /\ Distinct(sfRunning) /\ Distinct(sfWaiting) /\ ToSet(sfRunning) \cap ToSet(sfWaiting) = {}
      /\ Len(sfRunning) <= SfMaxNumSeqs
  BY DEF SfInv, Queued
<1>2. ToSet(sfRunning) \subseteq SfReqs /\ ToSet(sfWaiting) \subseteq SfReqs
  BY <1>1, ElementsOf
<1>3. ASSUME NEW r \in ToSet(sfRunning) \cup ToSet(sfWaiting)
      PROVE  /\ sfTokens[r] \in Nat /\ sfDone[r] \in Nat /\ sfPrompt[r] \in Nat \ {0}
             /\ sfDone[r] < sfTokens[r] /\ sfTokens[r] < SfMaxLen
  <2>1. /\ r \in SfReqs /\ sfTokens[r] \in Nat /\ sfDone[r] \in Nat /\ sfPrompt[r] \in Nat
        /\ Stands(r)
    BY <1>2 DEF SfInv
  <2> QED BY <2>1 DEF Stands
<1> QED BY <1>1, <1>2, <1>3

(* One request of the walk: no running one is preempted. *)
LEMMA VisitedFacts ==
  ASSUME SfInv, NEW w \in SfWalks, NEW r \in ToSet(sfRunning) \cup ToSet(sfWaiting),
         w.chunks[r] = 0, NEW waits \in BOOLEAN, NEW cap \in Nat, ~w.preempts,
         ~waits => /\ r \in ToSet(sfRunning)
                   /\ w.free = sfPool - 1 - Cardinality(HeldWith(w.chunks))
  PROVE  /\ Visited(w, r, waits, cap) \in SfWalks /\ ~Visited(w, r, waits, cap).preempts
         /\ \E n : Takes(w, r, waits, cap, Visited(w, r, waits, cap), n)
<1> DEFINE want == sfTokens[r] - sfDone[r]
           n == Min({w.left, want})
           need == BlocksFor(sfDone[r] + n) - BlocksFor(sfDone[r])
           v == Visited(w, r, waits, cap)
<1>1. /\ w.free \in Int /\ w.left \in Nat /\ w.chunks \in [SfReqs -> Nat] /\ w.active \in Nat
      /\ w.stop \in BOOLEAN /\ w.preempts \in BOOLEAN
  BY DEF SfWalks
<1>2. r \in SfReqs /\ want \in Nat /\ sfDone[r] \in Nat
  BY QueuedIs
<1> HIDE DEF want
<1>3. n \in Nat /\ n <= w.left /\ n <= want
  BY <1>1, <1>2, MinOfTwo
<1>4. v = IF w.stop \/ n = 0 \/ (waits /\ (w.active >= cap \/ need > w.free))
          THEN [w EXCEPT !.stop = @ \/ waits]
          ELSE IF need > w.free THEN [w EXCEPT !.stop = TRUE, !.preempts = TRUE]
          ELSE [w EXCEPT !.free = @ - need, !.left = @ - n, !.chunks[r] = n,
                         !.active = IF waits THEN @ + 1 ELSE @]
  BY DEF Visited, want
<1> HIDE DEF n, v
<1>5. need \in Int
  BY <1>2, <1>3, BlocksGrow
<1>6. ~waits => /\ Cardinality(HeldWith([w.chunks EXCEPT ![r] = n])) = Cardinality(HeldWith(w.chunks)) + need
                /\ Cardinality(HeldWith([w.chunks EXCEPT ![r] = n])) <= sfPool - 1
  BY <1>1, <1>3, HeldGrows, HeldFits DEF want
<1> HIDE DEF need
<1>7. CASE w.stop \/ n = 0 \/ (waits /\ (w.active >= cap \/ need > w.free))
  <2>1. v = [w EXCEPT !.stop = @ \/ waits]
    BY <1>4, <1>7
  <2>2. v = [free |-> w.free, left |-> w.left, chunks |-> w.chunks, active |-> w.active,
             stop |-> w.stop \/ waits, preempts |-> w.preempts]
    BY <2>1 DEF SfWalks
  <2>3. v \in SfWalks /\ ~v.preempts
    BY <1>1, <2>2 DEF SfWalks
  <2>4. v.chunks = [w.chunks EXCEPT ![r] = 0]
    BY <1>1, <2>2
  <2>5. Takes(w, r, waits, cap, v, 0)
    BY <1>2, <2>2, <2>4 DEF Takes, want
  <2> QED BY <2>3, <2>5 DEF v
<1>8. CASE ~(w.stop \/ n = 0 \/ (waits /\ (w.active >= cap \/ need > w.free)))
  <2>1. ~(need > w.free)
    <3>1. CASE waits
      BY <1>8, <3>1
    <3>2. CASE ~waits
      <4> DEFINE c == Cardinality(HeldWith(w.chunks))
                 d == Cardinality(HeldWith([w.chunks EXCEPT ![r] = n]))
      <4>1. c \in Nat /\ d = c + need /\ d <= sfPool - 1 /\ w.free = sfPool - 1 - c /\ sfPool \in Nat
        BY <1>6, <3>2, HeldFits DEF SfInv
      <4> HIDE DEF c, d
      <4> QED BY <1>5, <4>1
    <3> QED BY <3>1, <3>2
  <2>2. v = [w EXCEPT !.free = @ - need, !.left = @ - n, !.chunks[r] = n,
                      !.active = IF waits THEN @ + 1 ELSE @]
    BY <1>4, <1>8, <2>1
  <2>3. v = [free |-> w.free - need, left |-> w.left - n, chunks |-> [w.chunks EXCEPT ![r] = n],
             active |-> IF waits THEN w.active + 1 ELSE w.active,
             stop |-> w.stop, preempts |-> w.preempts]
    BY <2>2 DEF SfWalks
  <2>4. [w.chunks EXCEPT ![r] = n] \in [SfReqs -> Nat] /\ w.left - n \in Nat /\ w.free - need \in Int
    <3>1. w.left - n \in Nat
      BY <1>1, <1>3
    <3>2. w.free - need \in Int
      BY <1>1, <1>5
    <3>3. [w.chunks EXCEPT ![r] = n] \in [SfReqs -> Nat]
      BY <1>1, <1>2, <1>3
    <3> QED BY <3>1, <3>2, <3>3
  <2>5. v \in SfWalks /\ ~v.preempts
    BY <1>1, <2>3, <2>4 DEF SfWalks
  <2>6. ~waits => v.free = sfPool - 1 - Cardinality(HeldWith(v.chunks))
    <3> SUFFICES ASSUME ~waits PROVE v.free = sfPool - 1 - Cardinality(HeldWith(v.chunks))
      OBVIOUS
    <3> DEFINE c == Cardinality(HeldWith(w.chunks))
               d == Cardinality(HeldWith(v.chunks))
    <3>1. c \in Nat /\ d = c + need /\ w.free = sfPool - 1 - c /\ sfPool \in Nat /\ v.free = w.free - need
      BY <1>6, <2>3, HeldFits DEF SfInv
    <3> HIDE DEF c, d
    <3>2. v.free = sfPool - 1 - d
      BY <1>5, <3>1
    <3> QED BY <3>2 DEF d
  <2>7. Takes(w, r, waits, cap, v, n)
    BY <1>1, <1>3, <1>8, <2>3, <2>6 DEF Takes, want
  <2> QED BY <2>5, <2>7 DEF v
<1> QED BY <1>7, <1>8

(* Whatever it takes, the walk goes on from a walk. *)
LEMMA VisitedType ==
  ASSUME SfInv, NEW w \in SfWalks, NEW r \in ToSet(sfRunning) \cup ToSet(sfWaiting),
         NEW waits \in BOOLEAN, NEW cap \in Nat
  PROVE  Visited(w, r, waits, cap) \in SfWalks
<1> DEFINE want == sfTokens[r] - sfDone[r]
           n == Min({w.left, want})
           need == BlocksFor(sfDone[r] + n) - BlocksFor(sfDone[r])
           v == Visited(w, r, waits, cap)
<1>1. /\ w.free \in Int /\ w.left \in Nat /\ w.chunks \in [SfReqs -> Nat] /\ w.active \in Nat
      /\ w.stop \in BOOLEAN /\ w.preempts \in BOOLEAN
  BY DEF SfWalks
<1>2. r \in SfReqs /\ want \in Nat /\ sfDone[r] \in Nat
  BY QueuedIs
<1> HIDE DEF want
<1>3. n \in Nat /\ n <= w.left /\ n <= want
  BY <1>1, <1>2, MinOfTwo
<1>4. v = IF w.stop \/ n = 0 \/ (waits /\ (w.active >= cap \/ need > w.free))
          THEN [w EXCEPT !.stop = @ \/ waits]
          ELSE IF need > w.free THEN [w EXCEPT !.stop = TRUE, !.preempts = TRUE]
          ELSE [w EXCEPT !.free = @ - need, !.left = @ - n, !.chunks[r] = n,
                         !.active = IF waits THEN @ + 1 ELSE @]
  BY DEF Visited, want
<1> HIDE DEF n, v
<1>5. need \in Int
  BY <1>2, <1>3, BlocksGrow
<1> HIDE DEF need
<1>6. [w EXCEPT !.stop = @ \/ waits] \in SfWalks
  BY DEF SfWalks
<1>7. [w EXCEPT !.stop = TRUE, !.preempts = TRUE] \in SfWalks
  BY DEF SfWalks
<1>8. [w EXCEPT !.free = @ - need, !.left = @ - n, !.chunks[r] = n,
                !.active = IF waits THEN @ + 1 ELSE @] \in SfWalks
  <2>1. w.left - n \in Nat
    BY <1>1, <1>3
  <2>2. w.free - need \in Int
    BY <1>1, <1>5
  <2>3. [w.chunks EXCEPT ![r] = n] \in [SfReqs -> Nat]
    BY <1>1, <1>2, <1>3
  <2>4. (IF waits THEN w.active + 1 ELSE w.active) \in Nat
    BY <1>1
  <2> DEFINE u == [w EXCEPT !.free = @ - need, !.left = @ - n, !.chunks[r] = n,
                            !.active = IF waits THEN @ + 1 ELSE @]
  <2>5. u = [w EXCEPT !.free = @ - need, !.left = @ - n, !.chunks[r] = n,
                      !.active = IF waits THEN @ + 1 ELSE @]
    OBVIOUS
  <2> HIDE DEF u
  <2>6. u = [free |-> w.free - need, left |-> w.left - n, chunks |-> [w.chunks EXCEPT ![r] = n],
             active |-> IF waits THEN w.active + 1 ELSE w.active,
             stop |-> w.stop, preempts |-> w.preempts]
    BY <2>5 DEF SfWalks
  <2>7. u \in SfWalks
    BY <1>1, <2>1, <2>2, <2>3, <2>4, <2>6 DEF SfWalks
  <2> QED BY <2>7 DEF u
<1>9. v \in SfWalks
  BY <1>4, <1>6, <1>7, <1>8
<1> QED BY <1>9 DEF v

(* What the walk starts from: all that is held is held by running requests. *)
AllocatedStart(running) ==
  [free |-> Free, left |-> SfBudget, chunks |-> [r \in SfReqs |-> 0],
   active |-> Len(running), stop |-> FALSE, preempts |-> FALSE]

(* It starts with what the pool has left. *)
LEMMA FreeIs ==
  ASSUME SfInv, NEW running \in Seq(SfReqs)
  PROVE  /\ AllocatedStart(running) \in SfWalks
         /\ Free = sfPool - 1 - Cardinality(HeldWith([r \in SfReqs |-> 0]))
<1> DEFINE none == [r \in SfReqs |-> 0]
<1>1. none \in [SfReqs -> Nat] /\ \A r \in SfReqs : none[r] = 0
  OBVIOUS
<1> HIDE DEF none
<1>2. ASSUME NEW r \in ToSet(sfRunning)
      PROVE  /\ sfDone[r] + none[r] = sfDone[r]
             /\ BlocksFor(sfDone[r]) \in Nat /\ BlocksFor(sfDone[r]) <= BlocksFor(SfMaxLen)
             /\ BlocksFor(SfMaxLen) \in Nat
  <2>1. /\ r \in SfReqs /\ sfDone[r] \in Nat /\ sfTokens[r] \in Nat
        /\ sfDone[r] < sfTokens[r] /\ sfTokens[r] < SfMaxLen
    BY QueuedIs
  <2>2. SfMaxLen \in Nat
    BY SfAssumption
  <2>3. sfDone[r] <= SfMaxLen
    BY <2>1, <2>2
  <2>4. sfDone[r] + none[r] = sfDone[r]
    BY <1>1, <2>1
  <2> QED BY <2>1, <2>2, <2>3, <2>4, BlocksGrow
<1>3. HeldBlocks = HeldWith(none)
  <2>1. ASSUME NEW h \in HeldBlocks PROVE h \in HeldWith(none)
    <3>1. PICK r \in ToSet(sfRunning) : h \in {r} \X (1 .. BlocksFor(sfDone[r]))
      BY DEF HeldBlocks
    <3>2. PICK i \in 1 .. BlocksFor(sfDone[r]) : h = <<r, i>>
      BY <3>1
    <3> QED BY <1>2, <3>2 DEF HeldWith
  <2>2. ASSUME NEW h \in HeldWith(none) PROVE h \in HeldBlocks
    <3>1. PICK r \in ToSet(sfRunning), i \in 1 .. BlocksFor(SfMaxLen) :
            h = <<r, i>> /\ i <= BlocksFor(sfDone[r] + none[r])
      BY DEF HeldWith
    <3>2. i \in 1 .. BlocksFor(sfDone[r])
      BY <1>2, <3>1
    <3> QED BY <3>1, <3>2 DEF HeldBlocks
  <2> QED BY <2>1, <2>2
<1>4. Cardinality(HeldWith(none)) \in Nat /\ sfPool \in Nat
  BY HeldFits DEF SfInv
<1>5. Free = sfPool - 1 - Cardinality(HeldWith(none)) /\ Free \in Int
  BY <1>3, <1>4 DEF Free
<1>6. Len(running) \in Nat /\ SfBudget \in Nat
  BY SfAssumption
<1> QED BY <1>1, <1>5, <1>6 DEF none, AllocatedStart, SfWalks

(* The states the walk goes through. *)
AllocatedUpTo(running, waiting, cap, walk) ==
  /\ walk[0] = AllocatedStart(running)
  /\ \A i \in 1 .. Len(running \o waiting) :
       walk[i] = Visited(walk[i - 1], (running \o waiting)[i], i > Len(running), cap)

(* The walk of a step ends where its states lead. *)
LEMMA AllocatedIs ==
  ASSUME SfInv, NEW running \in Seq(SfReqs), NEW waiting \in Seq(SfReqs), NEW cap \in Nat,
         ToSet(running) \subseteq ToSet(sfRunning), ToSet(waiting) \subseteq ToSet(sfWaiting)
  PROVE  \E walk \in [0 .. Len(running \o waiting) -> SfWalks] :
           /\ AllocatedUpTo(running, waiting, cap, walk)
           /\ Allocated(running, waiting, cap) = walk[Len(running \o waiting)]
<1> DEFINE queue == running \o waiting
           n == Len(queue)
           m == Len(running)
           none == AllocatedStart(running)
           step == [i \in 1 .. n |-> [w \in SfWalks |-> Visited(w, queue[i], i > m, cap)]]
           Body(f) == [i \in 0 .. n |-> IF i = 0 THEN none ELSE Visited(f[i - 1], queue[i], i > m, cap)]
           F == CHOOSE f : f = Body(f)
<1>1. /\ n \in Nat /\ m \in Nat
      /\ \A i \in 1 .. n : queue[i] \in ToSet(sfRunning) \cup ToSet(sfWaiting)
  <2>1. queue \in Seq(SfReqs) /\ ToSet(queue) = ToSet(running) \cup ToSet(waiting)
    BY Joined
  <2> HIDE DEF queue
  <2>2. Len(queue) \in Nat /\ \A i \in 1 .. Len(queue) : queue[i] \in ToSet(queue)
    BY <2>1, ElementsOf
  <2> QED BY <2>1, <2>2
<1>2. none \in SfWalks
  BY FreeIs
<1>3. Allocated(running, waiting, cap) = F[n]
  BY DEF Allocated, AllocatedStart
<1> HIDE DEF queue, n, m, none
<1>4. \A w \in SfWalks, i \in 1 .. n : Visited(w, queue[i], i > m, cap) \in SfWalks
  <2> SUFFICES ASSUME NEW w \in SfWalks, NEW i \in 1 .. n
               PROVE  Visited(w, queue[i], i > m, cap) \in SfWalks
    OBVIOUS
  <2>1. (i > m) \in BOOLEAN
    OBVIOUS
  <2> DEFINE waits == i > m
  <2> HIDE DEF waits
  <2>2. Visited(w, queue[i], waits, cap) \in SfWalks
    BY <1>1, <2>1, VisitedType DEF waits
  <2> QED BY <2>2 DEF waits
<1>5. step \in [1 .. n -> [SfWalks -> SfWalks]]
  BY <1>4
<1>6. PICK g : Iteration(n, SfWalks, none, step, g)
  <2> HIDE DEF step
  <2> QED BY <1>1, <1>2, <1>5, Iterates
<1>7. g \in [0 .. n -> SfWalks] /\ g[0] = none /\ \A i \in 1 .. n : g[i] = step[i][g[i - 1]]
  <2> HIDE DEF step
  <2> QED BY <1>6 DEF Iteration
<1>8. \A i \in 1 .. n : g[i] = Visited(g[i - 1], queue[i], i > m, cap)
  <2> SUFFICES ASSUME NEW i \in 1 .. n PROVE g[i] = Visited(g[i - 1], queue[i], i > m, cap)
    OBVIOUS
  <2>1. g[i - 1] \in SfWalks
    <3>1. i - 1 \in 0 .. n
      BY <1>1
    <3> HIDE DEF step
    <3> QED BY <1>7, <3>1
  <2>2. step[i][g[i - 1]] = Visited(g[i - 1], queue[i], i > m, cap)
    BY <2>1
  <2> HIDE DEF step
  <2> QED BY <1>7, <2>2
<1>9. g = Body(g)
  <2> HIDE DEF step
  <2>1. \A i \in 0 .. n : g[i] = IF i = 0 THEN none ELSE Visited(g[i - 1], queue[i], i > m, cap)
    BY <1>1, <1>7, <1>8
  <2> QED BY <1>7, <2>1
<1>10. F = Body(F)
  <2> HIDE DEF Body
  <2> QED BY <1>9
<1> HIDE DEF F
<1>11. F[0] = none /\ \A i \in 1 .. n : F[i] = Visited(F[i - 1], queue[i], i > m, cap)
  <2>1. \A i \in 0 .. n : Body(F)[i] = IF i = 0 THEN none ELSE Visited(F[i - 1], queue[i], i > m, cap)
    OBVIOUS
  <2> HIDE DEF Body
  <2>2. \A i \in 0 .. n : F[i] = IF i = 0 THEN none ELSE Visited(F[i - 1], queue[i], i > m, cap)
    BY <1>10, <2>1
  <2> QED BY <1>1, <2>2
<1>12. F = [i \in 0 .. n |-> F[i]]
  <2>1. \E h : F = [i \in 0 .. n |-> h[i]]
    <3>1. Body(F) = [i \in 0 .. n |-> Body(F)[i]]
      OBVIOUS
    <3> HIDE DEF Body
    <3> QED BY <1>10, <3>1
  <2> QED BY <2>1
<1>13. \A i \in 0 .. n : F[i] \in SfWalks
  <2> DEFINE P == {i \in 0 .. n : F[i] \in SfWalks}
  <2>1. 0 \in P
    BY <1>1, <1>2, <1>11
  <2>2. \A i \in 1 .. n : i - 1 \in P => i \in P
    BY <1>1, <1>4, <1>11
  <2>3. \A i \in 0 .. n : i \in P
    <3> HIDE DEF P
    <3> QED BY <1>1, <2>1, <2>2, UpTo
  <2> QED BY <2>3
<1>14. F \in [0 .. n -> SfWalks] /\ n \in 0 .. n
  BY <1>1, <1>12, <1>13
<1>15. AllocatedUpTo(running, waiting, cap, F)
  BY <1>11 DEF AllocatedUpTo, n, m, none, queue
<1> QED BY <1>3, <1>14, <1>15 DEF n, queue

(* Waiting requests that get a chunk. *)
AdmittedBy(chunks, waiting) == {r \in ToSet(waiting) : chunks[r] > 0}

(* The walk preempts nobody, gives chunks within what is left of a request, and
   admits no more than the cap leaves room for. *)
LEMMA AllocatedFacts ==
  ASSUME SfInv, NEW running \in Seq(SfReqs), NEW waiting \in Seq(SfReqs), NEW cap \in Nat,
         ToSet(running) \subseteq ToSet(sfRunning), ToSet(waiting) \subseteq ToSet(sfWaiting),
         Distinct(running), Distinct(waiting), NEW w, w = Allocated(running, waiting, cap)
  PROVE  /\ w.chunks \in [SfReqs -> Nat] /\ ~w.preempts
         /\ \A r \in SfReqs : w.chunks[r] > 0 =>
              /\ r \in ToSet(running) \cup ToSet(waiting)
              /\ w.chunks[r] <= sfTokens[r] - sfDone[r]
         /\ \/ AdmittedBy(w.chunks, waiting) = {}
            \/ Len(running) + Cardinality(AdmittedBy(w.chunks, waiting)) <= cap
<1> DEFINE queue == running \o waiting
           n == Len(queue)
           m == Len(running)
<1>1. PICK walk \in [0 .. n -> SfWalks] : AllocatedUpTo(running, waiting, cap, walk) /\ w = walk[n]
  BY AllocatedIs
<1> DEFINE Fair(v, i) ==
             /\ ~v.preempts
             /\ \A r \in SfReqs : v.chunks[r] > 0 =>
                  v.chunks[r] <= sfTokens[r] - sfDone[r] /\ \E j \in 1 .. i : queue[j] = r
             /\ v.active = m + Cardinality(AdmittedBy(v.chunks, waiting))
             /\ AdmittedBy(v.chunks, waiting) = {} \/ v.active <= cap
             /\ i <= m => v.free = sfPool - 1 - Cardinality(HeldWith(v.chunks))
           P == {i \in 0 .. n : Fair(walk[i], i)}
<1>2. /\ ToSet(sfRunning) \cap ToSet(sfWaiting) = {}
      /\ ToSet(sfRunning) \subseteq SfReqs /\ ToSet(sfWaiting) \subseteq SfReqs
  BY QueuedIs
<1>3. /\ queue \in Seq(SfReqs) /\ Distinct(queue) /\ n = m + Len(waiting)
      /\ ToSet(queue) = ToSet(running) \cup ToSet(waiting)
  <2>1. ToSet(running) \cap ToSet(waiting) = {}
    BY <1>2
  <2> QED BY <2>1, Joined
<1>4. /\ n \in Nat /\ m \in Nat /\ m <= n
      /\ \A i \in 1 .. m : queue[i] \in ToSet(running)
      /\ \A i \in m + 1 .. n : queue[i] \in ToSet(waiting)
  <2>1. /\ m \in Nat /\ Len(waiting) \in Nat
        /\ \A i \in 1 .. m : queue[i] = running[i]
        /\ \A i \in m + 1 .. m + Len(waiting) : queue[i] = waiting[i - m] /\ i - m \in 1 .. Len(waiting)
    OBVIOUS
  <2>2. /\ ToSet(running) = {running[i] : i \in 1 .. m}
        /\ ToSet(waiting) = {waiting[i] : i \in 1 .. Len(waiting)}
    BY ElementsOf
  <2>3. n = m + Len(waiting)
    BY <1>3
  <2>4. \A i \in 1 .. m : queue[i] \in ToSet(running)
    BY <2>1, <2>2
  <2>5. \A i \in m + 1 .. n : queue[i] \in ToSet(waiting)
    BY <2>1, <2>2, <2>3
  <2> HIDE DEF queue, n, m
  <2> QED BY <2>1, <2>3, <2>4, <2>5
<1>5. \A i \in 1 .. n : queue[i] \in ToSet(queue) /\ queue[i] \in SfReqs
                        /\ \A j \in 1 .. i - 1 : queue[j] # queue[i]
  <2>1. \A i \in 1 .. n : queue[i] \in ToSet(queue) /\ ToSet(queue) \subseteq SfReqs
    <3> HIDE DEF queue
    <3>1. ToSet(queue) = {queue[i] : i \in 1 .. Len(queue)} /\ ToSet(queue) \subseteq SfReqs
      BY <1>3, ElementsOf
    <3> QED BY <3>1
  <2>2. ASSUME NEW i \in 1 .. n, NEW j \in 1 .. i - 1 PROVE queue[j] # queue[i]
    <3>1. j \in 1 .. n /\ j # i
      BY <1>4
    <3> HIDE DEF queue
    <3> QED BY <1>3, <3>1 DEF Distinct
  <2> QED BY <2>1, <2>2
<1>6. /\ walk[0] = AllocatedStart(running)
      /\ \A i \in 1 .. n : walk[i] = Visited(walk[i - 1], queue[i], i > m, cap)
  BY <1>1 DEF AllocatedUpTo
<1> HIDE DEF queue, n, m
<1>7. \A chunks : IsFiniteSet(AdmittedBy(chunks, waiting))
                  /\ Cardinality(AdmittedBy(chunks, waiting)) \in Nat
  <2>1. IsFiniteSet(ToSet(waiting))
    BY LengthIs
  <2>2. \A chunks : AdmittedBy(chunks, waiting) \subseteq ToSet(waiting)
    BY DEF AdmittedBy
  <2> QED BY <2>1, <2>2, FS_Subset, FS_CardinalityType
<1>8. 0 \in P
  <2> DEFINE v == AllocatedStart(running)
  <2>1. /\ v.chunks = [r \in SfReqs |-> 0] /\ v.free = Free /\ v.active = m /\ ~v.preempts
    BY DEF AllocatedStart, m
  <2> HIDE DEF v
  <2>2. \A r \in SfReqs : v.chunks[r] = 0
    BY <2>1
  <2>3. AdmittedBy(v.chunks, waiting) = {}
    BY <1>2, <2>2 DEF AdmittedBy
  <2>4. v.free = sfPool - 1 - Cardinality(HeldWith(v.chunks))
    BY <2>1, FreeIs
  <2>5. v.active = m + Cardinality(AdmittedBy(v.chunks, waiting))
    <3>1. Cardinality(AdmittedBy(v.chunks, waiting)) = 0
      BY <2>3, FS_EmptySet
    <3> QED BY <1>4, <2>1, <3>1
  <2>6. Fair(v, 0)
    BY <2>1, <2>2, <2>3, <2>4, <2>5
  <2>7. walk[0] = v
    BY <1>6 DEF v
  <2> HIDE DEF Fair
  <2> QED BY <1>4, <2>6, <2>7
<1>9. ASSUME NEW i \in 1 .. n, i - 1 \in P PROVE i \in P
  <2> DEFINE v == walk[i - 1]
             u == walk[i]
             r == queue[i]
             waits == i > m
  <2>1. v \in SfWalks /\ Fair(v, i - 1) /\ i - 1 \in 0 .. n /\ i \in 0 .. n
    <3>1. i - 1 \in 0 .. n /\ i \in 0 .. n
      BY <1>4
    <3> QED BY <1>1, <1>9, <3>1
  <2>2. u = Visited(v, r, waits, cap)
    BY <1>6
  <2>3. /\ r \in SfReqs /\ r \in ToSet(queue) /\ waits \in BOOLEAN
        /\ ~waits => r \in ToSet(running) /\ i - 1 <= m
        /\ waits => r \in ToSet(waiting) /\ ~(i <= m)
    BY <1>4, <1>5
  <2>4. v.chunks[r] = 0 /\ v.chunks \in [SfReqs -> Nat] /\ v.active \in Nat
    <3>1. ~(\E j \in 1 .. i - 1 : queue[j] = r)
      BY <1>5
    <3>2. ~(v.chunks[r] > 0)
      BY <2>1, <2>3, <3>1
    <3>3. v.chunks \in [SfReqs -> Nat] /\ v.active \in Nat
      BY <2>1 DEF SfWalks
    <3> HIDE DEF v, r
    <3> QED BY <2>3, <3>2, <3>3
  <2>5. /\ ~v.preempts
        /\ \A q \in SfReqs : v.chunks[q] > 0 =>
             v.chunks[q] <= sfTokens[q] - sfDone[q] /\ \E j \in 1 .. i - 1 : queue[j] = q
        /\ v.active = m + Cardinality(AdmittedBy(v.chunks, waiting))
        /\ AdmittedBy(v.chunks, waiting) = {} \/ v.active <= cap
        /\ i - 1 <= m => v.free = sfPool - 1 - Cardinality(HeldWith(v.chunks))
    BY <2>1
  <2>r. queue[i] = r
    OBVIOUS
  <2>w. waits <=> ~(i <= m)
    BY <1>4
  <2> HIDE DEF Fair, v, u, r, waits
  <2>6. r \in ToSet(sfRunning) \cup ToSet(sfWaiting) /\ (~waits => r \in ToSet(sfRunning))
    BY <1>3, <2>3
  <2>7. /\ ~u.preempts
        /\ \E k : Takes(v, r, waits, cap, u, k)
    BY <2>1, <2>2, <2>3, <2>4, <2>5, <2>6, VisitedFacts
  <2>8. PICK k : Takes(v, r, waits, cap, u, k)
    BY <2>7
  <2>9. /\ k \in Nat /\ k <= sfTokens[r] - sfDone[r]
        /\ u.chunks[r] = k /\ \A q \in SfReqs \ {r} : u.chunks[q] = v.chunks[q]
        /\ u.active = IF waits /\ k > 0 THEN v.active + 1 ELSE v.active
        /\ waits /\ k > 0 => v.active < cap
        /\ ~waits => u.free = sfPool - 1 - Cardinality(HeldWith(u.chunks))
    BY <2>3, <2>4, <2>8 DEF Takes
  <2>10. ASSUME NEW q \in SfReqs, u.chunks[q] > 0
         PROVE  u.chunks[q] <= sfTokens[q] - sfDone[q] /\ \E j \in 1 .. i : queue[j] = q
    <3>1. CASE q = r
      <4>1. i \in 1 .. i
        BY <1>4
      <4> QED BY <2>r, <2>9, <3>1, <4>1
    <3>2. CASE q # r
      <4>1. v.chunks[q] > 0
        BY <2>9, <2>10, <3>2
      <4>2. PICK j \in 1 .. i - 1 : queue[j] = q
        BY <2>5, <4>1
      <4>3. j \in 1 .. i
        BY <1>4
      <4> QED BY <2>5, <2>9, <3>2, <4>1, <4>2, <4>3
    <3> QED BY <3>1, <3>2
  <2> DEFINE A == AdmittedBy(v.chunks, waiting)
             C == AdmittedBy(u.chunks, waiting)
  <2>11. u.active = m + Cardinality(C) /\ (C = {} \/ u.active <= cap)
    <3>1. CASE waits /\ k > 0
      <4>1. C = A \cup {r} /\ r \notin A
        BY <1>2, <2>3, <2>4, <2>9, <3>1 DEF AdmittedBy
      <4> HIDE DEF A, C
      <4>2. IsFiniteSet(A) /\ Cardinality(A) \in Nat
        BY <1>7 DEF A
      <4>3. Cardinality(C) = Cardinality(A) + 1
        BY <4>1, <4>2, FS_AddElement
      <4>4. v.active = m + Cardinality(A)
        BY <2>5 DEF A
      <4> QED BY <1>4, <2>4, <2>9, <3>1, <4>2, <4>3, <4>4
    <3>2. CASE ~(waits /\ k > 0)
      <4>1. C = A
        <5>1. \A q \in ToSet(waiting) : u.chunks[q] = v.chunks[q]
          <6> SUFFICES ASSUME NEW q \in ToSet(waiting) PROVE u.chunks[q] = v.chunks[q]
            OBVIOUS
          <6>1. CASE q = r
            <7>1. waits
              BY <1>2, <2>3, <6>1
            <7>2. k = 0
              BY <2>9, <3>2, <7>1
            <7> QED BY <2>4, <2>9, <6>1, <7>2
          <6>2. CASE q # r
            BY <1>2, <2>9, <6>2
          <6> QED BY <6>1, <6>2
        <5> QED BY <5>1 DEF AdmittedBy
      <4> QED BY <2>5, <2>9, <3>2, <4>1
    <3> QED BY <3>1, <3>2
  <2>12. i <= m => u.free = sfPool - 1 - Cardinality(HeldWith(u.chunks))
    BY <2>w, <2>9
  <2>13. Fair(u, i)
    BY <2>7, <2>10, <2>11, <2>12 DEF Fair
  <2> QED BY <2>1, <2>13 DEF u
<1>10. n \in P
  <2> HIDE DEF P
  <2>1. \A i \in 0 .. n : i \in P
    BY <1>4, <1>8, <1>9, UpTo
  <2> QED BY <1>4, <2>1
<1>11. w \in SfWalks /\ Fair(w, n)
  BY <1>1, <1>4, <1>10
<1>12. \A r \in SfReqs : w.chunks[r] > 0 =>
         r \in ToSet(queue) /\ w.chunks[r] <= sfTokens[r] - sfDone[r]
  BY <1>5, <1>11
<1>13. w.chunks \in [SfReqs -> Nat] /\ ~w.preempts
  BY <1>11 DEF SfWalks
<1>14. \/ AdmittedBy(w.chunks, waiting) = {}
       \/ m + Cardinality(AdmittedBy(w.chunks, waiting)) <= cap
  BY <1>11
<1> QED BY <1>3, <1>12, <1>13, <1>14 DEF m

(* A step of the runner leaves every request where it stands. *)
LEMMA ExecuteInv ==
  ASSUME SfInv, NEW walk, NEW decodes, NEW running \in Seq(SfReqs), NEW stops,
         walk.chunks \in [SfReqs -> Nat], ~walk.preempts,
         \A r \in SfReqs : walk.chunks[r] > 0 =>
           /\ r \in ToSet(sfRunning) \cup ToSet(sfWaiting)
           /\ walk.chunks[r] <= sfTokens[r] - sfDone[r]
           /\ r \in decodes <=> sfDone[r] >= sfPrompt[r],
         Distinct(running), Len(running) <= SfMaxNumSeqs,
         ToSet(running) = ToSet(sfRunning) \cup AdmittedBy(walk.chunks, sfWaiting),
         Execute(walk, decodes, running, stops),
         UNCHANGED <<sfPool, sfReported, sfLost>>
  PROVE  SfInv'
<1> DEFINE chunks == walk.chunks
           done == [r \in SfReqs |-> sfDone[r] + chunks[r]]
           produced == {r \in SfReqs : chunks[r] > 0 /\ done[r] = sfTokens[r]}
           tokens == [r \in SfReqs |-> IF r \in produced THEN sfTokens[r] + 1 ELSE sfTokens[r]]
           frames == [r \in SfReqs |->
                       IF r \in decodes /\ chunks[r] > 0 THEN Append(sfFrames[r], FrameIndex(r))
                       ELSE sfFrames[r]]
           gone == stops \cup {r \in produced : tokens[r] >= SfMaxLen}
<1>1. /\ stops \subseteq produced
      /\ sfPrompt' = [r \in SfReqs |-> IF r \in gone THEN 0 ELSE sfPrompt[r]]
      /\ sfTokens' = [r \in SfReqs |-> IF r \in gone THEN 0 ELSE tokens[r]]
      /\ sfDone' = [r \in SfReqs |-> IF r \in gone THEN 0 ELSE done[r]]
      /\ sfFrames' = [r \in SfReqs |-> IF r \in gone THEN <<>> ELSE frames[r]]
      /\ sfRunning' = Within(running, SfReqs \ gone)
      /\ sfWaiting' = Within(sfWaiting, {r \in SfReqs : chunks[r] = 0})
      /\ sfRaised' = sfRaised
  <2>1. ~(walk.preempts \/ sfReported)
    BY DEF SfInv
  <2> QED BY <2>1 DEF Execute, Settled
<1> HIDE DEF chunks
<1>2. /\ sfPrompt \in [SfReqs -> Nat] /\ sfTokens \in [SfReqs -> Nat] /\ sfDone \in [SfReqs -> Nat]
      /\ sfFrames \in [SfReqs -> Seq(Nat)] /\ SfMaxLen \in Nat
      /\ \A r \in SfReqs : Stands(r)
  BY SfAssumption DEF SfInv
<1>3. /\ chunks \in [SfReqs -> Nat]
      /\ \A r \in SfReqs : chunks[r] > 0 =>
           /\ r \in ToSet(sfRunning) \cup ToSet(sfWaiting)
           /\ chunks[r] <= sfTokens[r] - sfDone[r]
           /\ r \in decodes <=> sfDone[r] >= sfPrompt[r]
      /\ ToSet(running) = ToSet(sfRunning) \cup {r \in ToSet(sfWaiting) : chunks[r] > 0}
  BY DEF chunks, AdmittedBy
<1>4. /\ ToSet(sfRunning) \cap ToSet(sfWaiting) = {} /\ Distinct(sfWaiting)
      /\ ToSet(sfRunning) \subseteq SfReqs /\ ToSet(sfWaiting) \subseteq SfReqs
      /\ sfWaiting \in Seq(SfReqs)
  BY QueuedIs
<1>5. \A r \in SfReqs : /\ done[r] = sfDone[r] + chunks[r]
                        /\ r \in produced <=> chunks[r] > 0 /\ sfDone[r] + chunks[r] = sfTokens[r]
                        /\ tokens[r] = IF r \in produced THEN sfTokens[r] + 1 ELSE sfTokens[r]
                        /\ r \in gone => r \in produced
                        /\ r \in produced \ gone => tokens[r] < SfMaxLen
                        /\ frames[r] = IF r \in decodes /\ chunks[r] > 0
                                       THEN Append(sfFrames[r], sfDone[r] - sfPrompt[r]) ELSE sfFrames[r]
  <2> SUFFICES ASSUME NEW r \in SfReqs
               PROVE  /\ done[r] = sfDone[r] + chunks[r]
                      /\ r \in produced <=> chunks[r] > 0 /\ sfDone[r] + chunks[r] = sfTokens[r]
                      /\ tokens[r] = IF r \in produced THEN sfTokens[r] + 1 ELSE sfTokens[r]
                      /\ r \in gone => r \in produced
                      /\ r \in produced \ gone => tokens[r] < SfMaxLen
                      /\ frames[r] = IF r \in decodes /\ chunks[r] > 0
                                     THEN Append(sfFrames[r], sfDone[r] - sfPrompt[r]) ELSE sfFrames[r]
    OBVIOUS
  <2>1. done[r] = sfDone[r] + chunks[r]
    OBVIOUS
  <2>2. frames[r] = IF r \in decodes /\ chunks[r] > 0
                    THEN Append(sfFrames[r], sfDone[r] - sfPrompt[r]) ELSE sfFrames[r]
    BY DEF FrameIndex
  <2> HIDE DEF done, frames
  <2>3. r \in produced <=> chunks[r] > 0 /\ sfDone[r] + chunks[r] = sfTokens[r]
    BY <2>1
  <2> HIDE DEF produced
  <2>4. tokens[r] = IF r \in produced THEN sfTokens[r] + 1 ELSE sfTokens[r]
    OBVIOUS
  <2>5. tokens[r] \in Nat
    BY <1>2, <2>4
  <2> HIDE DEF tokens
  <2>6. (r \in gone => r \in produced) /\ (r \in produced \ gone => tokens[r] < SfMaxLen)
    BY <1>1, <1>2, <2>5
  <2> HIDE DEF gone
  <2> QED BY <2>1, <2>2, <2>3, <2>4, <2>6
<1>6. gone \subseteq SfReqs
  BY <1>1
<1> HIDE DEF done, produced, tokens, frames, gone
<1>7. /\ sfRunning' \in Seq(SfReqs) /\ Distinct(sfRunning') /\ Len(sfRunning') <= SfMaxNumSeqs
      /\ ToSet(sfRunning') = ToSet(running) \cap (SfReqs \ gone)
  <2>1. /\ Within(running, SfReqs \ gone) \in Seq(SfReqs) /\ Distinct(Within(running, SfReqs \ gone))
        /\ ToSet(Within(running, SfReqs \ gone)) = ToSet(running) \cap (SfReqs \ gone)
        /\ Len(Within(running, SfReqs \ gone)) \in 0 .. Len(running)
    BY WithinFacts
  <2> DEFINE rest == Within(running, SfReqs \ gone)
  <2>2. sfRunning' = rest
    BY <1>1
  <2>3. Len(running) \in Nat /\ SfMaxNumSeqs \in Nat /\ Len(rest) \in 0 .. Len(running)
    BY <2>1, SfAssumption
  <2> HIDE DEF rest
  <2>4. Len(rest) <= SfMaxNumSeqs
    BY <2>3
  <2> QED BY <2>1, <2>2, <2>4 DEF rest
<1>8. /\ sfWaiting' \in Seq(SfReqs) /\ Distinct(sfWaiting')
      /\ ToSet(sfWaiting') = {r \in ToSet(sfWaiting) : chunks[r] = 0}
  BY <1>1, <1>4, WithinFacts
<1>9. ToSet(sfRunning') \cap ToSet(sfWaiting') = {}
  BY <1>3, <1>4, <1>7, <1>8
<1>10. ASSUME NEW r \in SfReqs
       PROVE  /\ sfPrompt'[r] \in Nat /\ sfTokens'[r] \in Nat /\ sfDone'[r] \in Nat
              /\ sfFrames'[r] \in Seq(Nat)
              /\ Stands(r)'
              /\ r \in ToSet(sfRunning') \cup ToSet(sfWaiting') => sfPrompt'[r] > 0
  <2>1. /\ sfPrompt[r] \in Nat /\ sfTokens[r] \in Nat /\ sfDone[r] \in Nat /\ chunks[r] \in Nat
        /\ sfFrames[r] \in Seq(Nat)
        /\ sfFrames[r] = FrameRun(sfDone[r], sfPrompt[r])
        /\ sfPrompt[r] = 0 => sfDone[r] = 0
    BY <1>2, <1>3 DEF Stands
  <2>2. CASE r \in gone
    <3>1. sfPrompt'[r] = 0 /\ sfTokens'[r] = 0 /\ sfDone'[r] = 0 /\ sfFrames'[r] = <<>>
      BY <1>1, <2>2
    <3>2. r \notin ToSet(sfRunning') /\ r \notin ToSet(sfWaiting')
      BY <1>5, <1>7, <1>8, <2>2
    <3>3. FrameRun(0, 0) = <<>>
      BY NoFrames
    <3>4. sfFrames'[r] = FrameRun(sfDone'[r], sfPrompt'[r])
      BY <3>1, <3>3
    <3> QED BY <3>1, <3>2, <3>4 DEF Stands
  <2>3. CASE r \notin gone
    <3>1. sfPrompt'[r] = sfPrompt[r] /\ sfTokens'[r] = tokens[r]
          /\ sfDone'[r] = sfDone[r] + chunks[r] /\ sfFrames'[r] = frames[r]
      BY <1>1, <1>5, <2>3
    <3>2. CASE chunks[r] = 0
      <4>1. sfTokens'[r] = sfTokens[r] /\ sfDone'[r] = sfDone[r] /\ sfFrames'[r] = sfFrames[r]
        BY <1>5, <2>1, <3>1, <3>2
      <4>2. /\ r \in ToSet(sfRunning') => r \in ToSet(sfRunning)
            /\ r \in ToSet(sfWaiting') => r \in ToSet(sfWaiting)
        BY <1>3, <1>7, <1>8, <3>2
      <4>3. Stands(r)
        BY <1>2
      <4>4. r \in ToSet(sfRunning) \cup ToSet(sfWaiting) => sfPrompt[r] > 0
        BY <4>3 DEF Stands
      <4>5. Stands(r)'
        BY <3>1, <4>1, <4>2, <4>3 DEF Stands
      <4> QED BY <2>1, <3>1, <4>1, <4>2, <4>4, <4>5
    <3>3. CASE chunks[r] > 0
      <4>1. /\ r \in ToSet(sfRunning) \cup ToSet(sfWaiting)
            /\ chunks[r] <= sfTokens[r] - sfDone[r]
            /\ r \in decodes <=> sfDone[r] >= sfPrompt[r]
        BY <1>3, <3>3
      <4>2. r \notin ToSet(sfWaiting')
        BY <1>8, <3>3
      <4>3. /\ sfPrompt[r] > 0 /\ sfTokens[r] < SfMaxLen
            /\ sfTokens[r] = IF sfDone[r] < sfPrompt[r] THEN sfPrompt[r] ELSE sfDone[r] + 1
        BY <1>2, <2>1, <4>1 DEF Stands
      <4>4. /\ tokens[r] = IF r \in produced THEN sfTokens[r] + 1 ELSE sfTokens[r]
            /\ r \in produced <=> sfDone[r] + chunks[r] = sfTokens[r]
            /\ r \in produced => tokens[r] < SfMaxLen
        BY <1>5, <2>3, <3>3
      <4>5. /\ sfTokens'[r] \in Nat /\ sfDone'[r] \in Nat /\ sfTokens'[r] < SfMaxLen
            /\ sfTokens'[r] = IF sfDone'[r] < sfPrompt[r] THEN sfPrompt[r] ELSE sfDone'[r] + 1
        <5>1. CASE r \in produced
          BY <1>2, <2>1, <3>1, <3>3, <4>1, <4>3, <4>4, <5>1
        <5>2. CASE r \notin produced
          <6>1. sfTokens'[r] = sfTokens[r] /\ sfDone[r] + chunks[r] # sfTokens[r]
            BY <3>1, <4>4, <5>2
          <6> DEFINE d == sfDone[r]  c == chunks[r]  t == sfTokens[r]
          <6>2. d + c < t
            <7>1. d \in Nat /\ c \in Nat /\ t \in Nat /\ c <= t - d /\ d + c # t
              BY <2>1, <4>1, <6>1
            <7> HIDE DEF d, c, t
            <7> QED BY <7>1
          <6>3. sfDone[r] < sfPrompt[r]
            BY <2>1, <3>3, <4>3, <6>2
          <6> QED BY <2>1, <3>1, <4>3, <6>1, <6>2, <6>3
        <5> QED BY <5>1, <5>2
      <4>6. sfFrames'[r] = FrameRun(sfDone'[r], sfPrompt[r]) /\ sfFrames'[r] \in Seq(Nat)
        <5>1. CASE sfDone[r] >= sfPrompt[r]
          <6>1. chunks[r] = 1 /\ sfDone'[r] = sfDone[r] + 1
            BY <2>1, <3>1, <3>3, <4>1, <4>3, <5>1
          <6>2. sfFrames'[r] = Append(sfFrames[r], sfDone[r] - sfPrompt[r])
            BY <1>5, <3>1, <3>3, <4>1, <5>1
          <6>3. FrameRun(sfDone[r] + 1, sfPrompt[r])
                  = Append(FrameRun(sfDone[r], sfPrompt[r]), sfDone[r] - sfPrompt[r])
            BY <2>1, <5>1, FrameRuns
          <6>4. sfDone[r] - sfPrompt[r] \in Nat
            BY <2>1, <5>1
          <6>5. Append(sfFrames[r], sfDone[r] - sfPrompt[r]) \in Seq(Nat)
            BY <2>1, <6>4
          <6> QED BY <2>1, <6>1, <6>2, <6>3, <6>5
        <5>2. CASE ~(sfDone[r] >= sfPrompt[r])
          <6>1. sfDone[r] <= sfPrompt[r] /\ sfDone'[r] <= sfPrompt[r] /\ sfDone'[r] \in Nat
            BY <2>1, <3>1, <4>1, <4>3, <4>5, <5>2
          <6>2. sfFrames'[r] = sfFrames[r]
            BY <1>5, <3>1, <4>1, <5>2
          <6>3. FrameRun(sfDone[r], sfPrompt[r]) = <<>> /\ FrameRun(sfDone'[r], sfPrompt[r]) = <<>>
            BY <2>1, <6>1, FrameRuns
          <6> QED BY <2>1, <6>2, <6>3
        <5> QED BY <5>1, <5>2
      <4>7. Stands(r)'
        BY <3>1, <4>2, <4>3, <4>5, <4>6 DEF Stands
      <4> QED BY <2>1, <3>1, <4>3, <4>5, <4>6, <4>7
    <3> QED BY <2>1, <3>2, <3>3
  <2> QED BY <2>2, <2>3
<1>11. /\ sfPrompt' \in [SfReqs -> Nat] /\ sfTokens' \in [SfReqs -> Nat] /\ sfDone' \in [SfReqs -> Nat]
       /\ sfFrames' \in [SfReqs -> Seq(Nat)]
  <2>1. /\ sfPrompt' = [r \in SfReqs |-> sfPrompt'[r]] /\ sfTokens' = [r \in SfReqs |-> sfTokens'[r]]
        /\ sfDone' = [r \in SfReqs |-> sfDone'[r]] /\ sfFrames' = [r \in SfReqs |-> sfFrames'[r]]
    BY <1>1
  <2> QED BY <1>10, <2>1
<1>12. Queued'
  <2>1. ToSet(sfRunning') \subseteq SfReqs /\ ToSet(sfWaiting') \subseteq SfReqs
    BY <1>4, <1>7, <1>8
  <2>2. \A r \in ToSet(sfRunning') \cup ToSet(sfWaiting') : sfPrompt'[r] > 0
    BY <1>10, <2>1
  <2> QED BY <1>7, <1>8, <1>9, <2>2 DEF Queued
<1>13. /\ sfPool' \in Nat /\ PoolHolds(sfPool') /\ ~sfReported' /\ ~sfRaised' /\ ~sfLost'
  BY <1>1 DEF SfInv
<1> QED BY <1>10, <1>11, <1>12, <1>13 DEF SfInv

(* The running queue splits into partial prefills and decodes. *)
LEMMA Split ==
  ASSUME SfInv
  PROVE  /\ PartialPrefills \in Seq(SfReqs) /\ Distinct(PartialPrefills)
         /\ PureDecodes \in Seq(SfReqs) /\ Distinct(PureDecodes)
         /\ ToSet(PartialPrefills) = {r \in ToSet(sfRunning) : sfDone[r] < sfPrompt[r]}
         /\ ToSet(PureDecodes) = {r \in ToSet(sfRunning) : sfDone[r] >= sfPrompt[r]}
         /\ Len(PartialPrefills) \in Nat /\ Len(PureDecodes) \in Nat
         /\ Len(PartialPrefills) + Len(PureDecodes) <= SfMaxNumSeqs
<1>1. /\ sfRunning \in Seq(SfReqs) /\ Distinct(sfRunning) /\ Len(sfRunning) <= SfMaxNumSeqs
      /\ ToSet(sfRunning) \subseteq SfReqs
      /\ \A r \in ToSet(sfRunning) : sfDone[r] \in Nat /\ sfPrompt[r] \in Nat
  BY QueuedIs
<1>2. /\ PartialPrefills \in Seq(SfReqs) /\ Distinct(PartialPrefills)
      /\ ToSet(PartialPrefills) = {r \in ToSet(sfRunning) : sfDone[r] < sfPrompt[r]}
  <2>1. ToSet(sfRunning) \cap {r \in SfReqs : Partial(r)} = {r \in ToSet(sfRunning) : sfDone[r] < sfPrompt[r]}
    BY <1>1 DEF Partial
  <2> QED BY <1>1, <2>1, WithinFacts DEF PartialPrefills
<1>3. /\ PureDecodes \in Seq(SfReqs) /\ Distinct(PureDecodes)
      /\ ToSet(PureDecodes) = {r \in ToSet(sfRunning) : sfDone[r] >= sfPrompt[r]}
  <2>1. ToSet(sfRunning) \cap {r \in SfReqs : PureDecode(r)} = {r \in ToSet(sfRunning) : sfDone[r] >= sfPrompt[r]}
    BY <1>1 DEF PureDecode, Partial
  <2> QED BY <1>1, <2>1, WithinFacts DEF PureDecodes
<1> DEFINE R == ToSet(sfRunning)  P == ToSet(PartialPrefills)  D == ToSet(PureDecodes)
<1>4. R = P \cup D /\ P \cap D = {}
  <2>1. \A r \in R : sfDone[r] < sfPrompt[r] \/ sfDone[r] >= sfPrompt[r]
    BY <1>1
  <2>2. \A r \in R : ~(sfDone[r] < sfPrompt[r] /\ sfDone[r] >= sfPrompt[r])
    BY <1>1
  <2> QED BY <1>2, <1>3, <2>1, <2>2
<1>5. /\ IsFiniteSet(P) /\ Cardinality(P) = Len(PartialPrefills)
      /\ IsFiniteSet(D) /\ Cardinality(D) = Len(PureDecodes)
      /\ Cardinality(R) = Len(sfRunning)
  BY <1>1, <1>2, <1>3, LengthIs
<1> HIDE DEF R, P, D
<1>6. Len(PartialPrefills) \in Nat /\ Len(PureDecodes) \in Nat
  BY <1>2, <1>3
<1>7. Cardinality(R) = Cardinality(P) + Cardinality(D)
  <2>1. Cardinality(P \cup D) = Cardinality(P) + Cardinality(D) - Cardinality(P \cap D)
    BY <1>5, FS_Union
  <2>2. Cardinality(P \cap D) = 0
    BY <1>4, FS_EmptySet
  <2> QED BY <1>4, <1>5, <1>6, <2>1, <2>2
<1>8. Len(PartialPrefills) + Len(PureDecodes) <= SfMaxNumSeqs
  BY <1>1, <1>5, <1>6, <1>7
<1> QED BY <1>2, <1>3, <1>6, <1>8

(* A prefill step: the lowered cap leaves room for the hidden decodes. *)
LEMMA StagePrefillInv ==
  ASSUME SfInv, NEW stops, StagePrefill(stops)
  PROVE  SfInv'
<1> DEFINE walk == PrefillWalk
           P == PartialPrefills
           D == PureDecodes
           admitted == Within(sfWaiting, {r \in SfReqs : walk.chunks[r] > 0})
           running == (P \o admitted) \o D
           none == {}
<1>1. Execute(walk, none, running, stops) /\ UNCHANGED <<sfPool, sfReported, sfLost>>
  BY DEF StagePrefill
<1>2. /\ P \in Seq(SfReqs) /\ Distinct(P) /\ D \in Seq(SfReqs) /\ Distinct(D)
      /\ ToSet(P) = {r \in ToSet(sfRunning) : sfDone[r] < sfPrompt[r]}
      /\ ToSet(D) = {r \in ToSet(sfRunning) : sfDone[r] >= sfPrompt[r]}
      /\ Len(P) \in Nat /\ Len(D) \in Nat /\ Len(P) + Len(D) <= SfMaxNumSeqs
  BY Split
<1>3. /\ sfWaiting \in Seq(SfReqs) /\ Distinct(sfWaiting) /\ ToSet(sfWaiting) \subseteq SfReqs
      /\ ToSet(sfRunning) \subseteq SfReqs /\ ToSet(sfRunning) \cap ToSet(sfWaiting) = {}
      /\ SfMaxNumSeqs \in Nat
  BY QueuedIs, SfAssumption
<1>4. PrefillCap = (IF SfMaxNumSeqs - Len(D) >= 0 THEN SfMaxNumSeqs - Len(D) ELSE 0) /\ PrefillCap \in Nat
  <2> DEFINE k == SfMaxNumSeqs - Len(D)
  <2>1. k \in Int /\ PrefillCap = Max({0, k})
    BY <1>2, <1>3 DEF PrefillCap
  <2> HIDE DEF k
  <2>2. PrefillCap = IF 0 >= k THEN 0 ELSE k
    BY <2>1, MaxOfTwo
  <2>3. PrefillCap \in Nat /\ PrefillCap = IF k >= 0 THEN k ELSE 0
    BY <2>1, <2>2
  <2> QED BY <2>3 DEF k
<1>5. walk = Allocated(P, sfWaiting, PrefillCap)
  BY DEF PrefillWalk
<1> HIDE DEF walk, P, D
<1>6. /\ walk.chunks \in [SfReqs -> Nat] /\ ~walk.preempts
      /\ \A r \in SfReqs : walk.chunks[r] > 0 =>
           r \in ToSet(P) \cup ToSet(sfWaiting) /\ walk.chunks[r] <= sfTokens[r] - sfDone[r]
      /\ \/ AdmittedBy(walk.chunks, sfWaiting) = {}
         \/ Len(P) + Cardinality(AdmittedBy(walk.chunks, sfWaiting)) <= PrefillCap
  <2>1. ToSet(P) \subseteq ToSet(sfRunning)
    BY <1>2
  <2>2. /\ P \in Seq(SfReqs) /\ Distinct(P) /\ sfWaiting \in Seq(SfReqs) /\ Distinct(sfWaiting)
        /\ PrefillCap \in Nat /\ ToSet(sfWaiting) \subseteq ToSet(sfWaiting)
    BY <1>2, <1>3, <1>4
  <2> DEFINE cap == PrefillCap
  <2> HIDE DEF cap
  <2>3. cap \in Nat /\ walk = Allocated(P, sfWaiting, cap)
    BY <1>5, <2>2 DEF cap
  <2>4. /\ walk.chunks \in [SfReqs -> Nat] /\ ~walk.preempts
        /\ \A r \in SfReqs : walk.chunks[r] > 0 =>
             r \in ToSet(P) \cup ToSet(sfWaiting) /\ walk.chunks[r] <= sfTokens[r] - sfDone[r]
        /\ \/ AdmittedBy(walk.chunks, sfWaiting) = {}
           \/ Len(P) + Cardinality(AdmittedBy(walk.chunks, sfWaiting)) <= cap
    BY <2>1, <2>2, <2>3, AllocatedFacts
  <2> QED BY <2>4 DEF cap
<1>7. /\ admitted \in Seq(SfReqs) /\ Distinct(admitted)
      /\ ToSet(admitted) = AdmittedBy(walk.chunks, sfWaiting)
  <2> DEFINE K == {r \in SfReqs : walk.chunks[r] > 0}
  <2>1. ToSet(sfWaiting) \cap K = AdmittedBy(walk.chunks, sfWaiting)
    BY <1>3 DEF AdmittedBy
  <2>2. admitted = Within(sfWaiting, K)
    OBVIOUS
  <2> HIDE DEF admitted, K
  <2> QED BY <1>3, <2>1, <2>2, WithinFacts
<1> HIDE DEF admitted
<1>8. Len(admitted) = Cardinality(AdmittedBy(walk.chunks, sfWaiting)) /\ Len(admitted) \in Nat
  BY <1>7, LengthIs
<1>9. Len(P) + Len(admitted) + Len(D) <= SfMaxNumSeqs
  <2>1. CASE AdmittedBy(walk.chunks, sfWaiting) = {}
    <3>1. Len(admitted) = 0
      BY <1>8, <2>1, FS_EmptySet
    <3> QED BY <1>2, <1>3, <3>1
  <2>2. CASE Len(P) + Cardinality(AdmittedBy(walk.chunks, sfWaiting)) <= PrefillCap
    BY <1>2, <1>3, <1>4, <1>8, <2>2
  <2> QED BY <1>6, <2>1, <2>2
<1> DEFINE X == P \o admitted
<1>10. /\ X \in Seq(SfReqs) /\ Distinct(X) /\ Len(X) = Len(P) + Len(admitted)
       /\ ToSet(X) = ToSet(P) \cup ToSet(admitted)
  <2>1. ToSet(P) \cap ToSet(admitted) = {}
    BY <1>2, <1>3, <1>7 DEF AdmittedBy
  <2> QED BY <1>2, <1>7, <2>1, Joined
<1>11. running = X \o D
  OBVIOUS
<1> HIDE DEF X, running
<1>12. /\ running \in Seq(SfReqs) /\ Distinct(running) /\ Len(running) = Len(X) + Len(D)
       /\ ToSet(running) = ToSet(X) \cup ToSet(D)
  <2>1. \A r \in ToSet(sfRunning) : sfDone[r] \in Nat /\ sfPrompt[r] \in Nat
    BY QueuedIs
  <2>2. ToSet(P) \cap ToSet(D) = {}
    BY <1>2, <2>1
  <2>3. ToSet(X) \cap ToSet(D) = {}
    BY <1>2, <1>3, <1>7, <1>10, <2>2 DEF AdmittedBy
  <2>4. D \in Seq(SfReqs) /\ Distinct(D)
    BY <1>2
  <2> HIDE DEF D
  <2> QED BY <1>10, <1>11, <2>3, <2>4, Joined
<1>13. ToSet(running) = ToSet(sfRunning) \cup AdmittedBy(walk.chunks, sfWaiting)
  <2>1. \A r \in ToSet(sfRunning) : sfDone[r] < sfPrompt[r] \/ sfDone[r] >= sfPrompt[r]
    BY QueuedIs
  <2>2. ToSet(P) \cup ToSet(D) = ToSet(sfRunning)
    BY <1>2, <2>1
  <2> QED BY <1>7, <1>10, <1>12, <2>2
<1>14. Len(running) <= SfMaxNumSeqs
  BY <1>2, <1>8, <1>9, <1>10, <1>12
<1>15. ASSUME NEW r \in SfReqs, walk.chunks[r] > 0
       PROVE  /\ r \in ToSet(sfRunning) \cup ToSet(sfWaiting)
              /\ walk.chunks[r] <= sfTokens[r] - sfDone[r]
              /\ r \in none <=> sfDone[r] >= sfPrompt[r]
  <2>1. r \in ToSet(P) \cup ToSet(sfWaiting) /\ walk.chunks[r] <= sfTokens[r] - sfDone[r]
    BY <1>6, <1>15
  <2>2. sfDone[r] \in Nat /\ sfPrompt[r] \in Nat /\ Stands(r)
    BY DEF SfInv
  <2>3. ~(sfDone[r] >= sfPrompt[r])
    <3>1. CASE r \in ToSet(P)
      BY <1>2, <2>2, <3>1
    <3>2. CASE r \in ToSet(sfWaiting)
      BY <2>2, <3>2 DEF Stands
    <3> QED BY <2>1, <3>1, <3>2
  <2> QED BY <1>2, <2>1, <2>3
<1> HIDE DEF none
<1> QED BY <1>1, <1>6, <1>12, <1>13, <1>14, <1>15, ExecuteInv

(* A decode step. *)
LEMMA StageDecodeInv ==
  ASSUME SfInv, NEW stops, StageDecode(stops)
  PROVE  SfInv'
<1> DEFINE none == <<>>
           P == PartialPrefills
           D == PureDecodes
           walk == Allocated(D, none, SfMaxNumSeqs)
           running == D \o P
<1>1. Execute(walk, ToSet(D), running, stops) /\ UNCHANGED <<sfPool, sfReported, sfLost>>
  BY DEF StageDecode
<1>2. /\ P \in Seq(SfReqs) /\ Distinct(P) /\ D \in Seq(SfReqs) /\ Distinct(D)
      /\ ToSet(P) = {r \in ToSet(sfRunning) : sfDone[r] < sfPrompt[r]}
      /\ ToSet(D) = {r \in ToSet(sfRunning) : sfDone[r] >= sfPrompt[r]}
      /\ Len(P) \in Nat /\ Len(D) \in Nat /\ Len(P) + Len(D) <= SfMaxNumSeqs
  BY Split
<1>3. /\ none \in Seq(SfReqs) /\ Distinct(none) /\ ToSet(none) = {} /\ SfMaxNumSeqs \in Nat
  BY SfAssumption DEF Distinct, ToSet
<1>4. /\ ToSet(sfRunning) \subseteq SfReqs /\ ToSet(sfRunning) \cap ToSet(sfWaiting) = {}
      /\ \A r \in ToSet(sfRunning) : sfDone[r] \in Nat /\ sfPrompt[r] \in Nat
  BY QueuedIs
<1> HIDE DEF none, P, D
<1>5. /\ walk.chunks \in [SfReqs -> Nat] /\ ~walk.preempts
      /\ \A r \in SfReqs : walk.chunks[r] > 0 =>
           r \in ToSet(D) \cup ToSet(none) /\ walk.chunks[r] <= sfTokens[r] - sfDone[r]
  <2>1. ToSet(D) \subseteq ToSet(sfRunning) /\ ToSet(none) \subseteq ToSet(sfWaiting)
    BY <1>2, <1>3
  <2> QED BY <1>2, <1>3, <2>1, AllocatedFacts
<1> HIDE DEF walk
<1>6. /\ running \in Seq(SfReqs) /\ Distinct(running) /\ Len(running) = Len(D) + Len(P)
      /\ ToSet(running) = ToSet(D) \cup ToSet(P)
  <2>1. ToSet(D) \cap ToSet(P) = {}
    BY <1>2, <1>4
  <2> QED BY <1>2, <2>1, Joined
<1> HIDE DEF running
<1>7. AdmittedBy(walk.chunks, sfWaiting) = {}
  <2> SUFFICES ASSUME NEW r \in ToSet(sfWaiting), walk.chunks[r] > 0 PROVE FALSE
    BY DEF AdmittedBy
  <2>1. r \in SfReqs
    BY QueuedIs
  <2>2. r \in ToSet(sfRunning)
    BY <1>2, <1>3, <1>5, <2>1
  <2> QED BY <1>4, <2>2
<1>8. ToSet(running) = ToSet(sfRunning) \cup AdmittedBy(walk.chunks, sfWaiting)
  <2>1. \A r \in ToSet(sfRunning) : sfDone[r] < sfPrompt[r] \/ sfDone[r] >= sfPrompt[r]
    BY <1>4
  <2>2. ToSet(P) \cup ToSet(D) = ToSet(sfRunning)
    BY <1>2, <2>1
  <2> QED BY <1>6, <1>7, <2>2
<1>9. Len(running) <= SfMaxNumSeqs
  BY <1>2, <1>3, <1>6
<1>10. ASSUME NEW r \in SfReqs, walk.chunks[r] > 0
       PROVE  /\ r \in ToSet(sfRunning) \cup ToSet(sfWaiting)
              /\ walk.chunks[r] <= sfTokens[r] - sfDone[r]
              /\ r \in ToSet(D) <=> sfDone[r] >= sfPrompt[r]
  BY <1>2, <1>3, <1>5, <1>10
<1> QED BY <1>1, <1>5, <1>6, <1>8, <1>9, <1>10, ExecuteInv

(* A new request waits with nothing computed. *)
LEMMA NewStageRequestInv ==
  ASSUME SfInv, NEW r \in SfReqs, NEW tokens \in SfPrompts, NewStageRequest(r, tokens)
  PROVE  SfInv'
<1>1. /\ sfPrompt[r] = 0 /\ sfPrompt' = [sfPrompt EXCEPT ![r] = tokens]
      /\ sfTokens' = [sfTokens EXCEPT ![r] = tokens] /\ sfWaiting' = Append(sfWaiting, r)
      /\ sfDone' = sfDone /\ sfFrames' = sfFrames /\ sfRunning' = sfRunning /\ sfPool' = sfPool
      /\ sfReported' = sfReported /\ sfRaised' = sfRaised /\ sfLost' = sfLost
  BY DEF NewStageRequest
<1>2. /\ sfPrompt \in [SfReqs -> Nat] /\ sfTokens \in [SfReqs -> Nat] /\ sfDone \in [SfReqs -> Nat]
      /\ sfFrames \in [SfReqs -> Seq(Nat)] /\ \A q \in SfReqs : Stands(q)
  BY DEF SfInv
<1>3. tokens \in Nat \ {0} /\ tokens < SfMaxLen
  BY SfAssumption
<1>4. /\ sfWaiting \in Seq(SfReqs) /\ Distinct(sfWaiting)
      /\ ToSet(sfRunning) \subseteq SfReqs /\ ToSet(sfWaiting) \subseteq SfReqs
      /\ ToSet(sfRunning) \cap ToSet(sfWaiting) = {}
      /\ \A q \in ToSet(sfRunning) \cup ToSet(sfWaiting) : sfPrompt[q] > 0
  BY QueuedIs DEF SfInv, Queued
<1>5. r \notin ToSet(sfRunning) /\ r \notin ToSet(sfWaiting)
  BY <1>1, <1>4
<1>6. /\ sfWaiting' \in Seq(SfReqs) /\ Distinct(sfWaiting')
      /\ ToSet(sfWaiting') = ToSet(sfWaiting) \cup {r}
  BY <1>1, <1>4, <1>5, Appended
<1>7. ASSUME NEW q \in SfReqs PROVE Stands(q)'
  <2>1. CASE q = r
    <3>1. sfDone[r] = 0 /\ sfFrames[r] = FrameRun(0, 0)
      BY <1>1, <1>2 DEF Stands
    <3>2. FrameRun(0, 0) = <<>> /\ FrameRun(0, tokens) = <<>>
      BY <1>3, NoFrames, FrameRuns
    <3>3. sfPrompt'[r] = tokens /\ sfTokens'[r] = tokens
      BY <1>1, <1>2
    <3> QED BY <1>1, <1>3, <1>5, <2>1, <3>1, <3>2, <3>3 DEF Stands
  <2>2. CASE q # r
    <3>1. sfPrompt'[q] = sfPrompt[q] /\ sfTokens'[q] = sfTokens[q]
          /\ (q \in ToSet(sfWaiting') => q \in ToSet(sfWaiting))
      BY <1>1, <1>2, <1>6, <2>2
    <3> QED BY <1>1, <1>2, <3>1 DEF Stands
  <2> QED BY <2>1, <2>2
<1>8. Queued'
  <2>1. ToSet(sfRunning) \cap ToSet(sfWaiting') = {}
    BY <1>4, <1>5, <1>6
  <2>2. \A q \in ToSet(sfRunning) \cup ToSet(sfWaiting') : sfPrompt'[q] > 0
    BY <1>1, <1>2, <1>3, <1>4, <1>6
  <2> QED BY <1>1, <1>6, <2>1, <2>2 DEF Queued, SfInv
<1>9. sfPrompt' \in [SfReqs -> Nat] /\ sfTokens' \in [SfReqs -> Nat]
  BY <1>1, <1>2, <1>3
<1> QED BY <1>1, <1>2, <1>7, <1>8, <1>9 DEF SfInv

(* A request that is taken out leaves the others where they stand; those of a
   reset and of an abort are settled with what they had. *)
LEMMA SettledInv ==
  ASSUME SfInv, NEW gone \in SUBSET SfReqs,
         Settled(gone, sfPrompt, sfTokens, sfDone, sfFrames, sfRunning),
         NEW R, sfWaiting' = Within(sfWaiting, R), ToSet(sfWaiting) \cap gone \cap R = {},
         sfPool' = sfPool, ~sfReported', ~sfRaised', ~sfLost'
  PROVE  SfInv'
<1>1. /\ sfPrompt' = [r \in SfReqs |-> IF r \in gone THEN 0 ELSE sfPrompt[r]]
      /\ sfTokens' = [r \in SfReqs |-> IF r \in gone THEN 0 ELSE sfTokens[r]]
      /\ sfDone' = [r \in SfReqs |-> IF r \in gone THEN 0 ELSE sfDone[r]]
      /\ sfFrames' = [r \in SfReqs |-> IF r \in gone THEN <<>> ELSE sfFrames[r]]
      /\ sfRunning' = Within(sfRunning, SfReqs \ gone)
      /\ sfWaiting' = Within(sfWaiting, R)
  BY DEF Settled
<1>2. /\ sfPrompt \in [SfReqs -> Nat] /\ sfTokens \in [SfReqs -> Nat] /\ sfDone \in [SfReqs -> Nat]
      /\ sfFrames \in [SfReqs -> Seq(Nat)] /\ \A r \in SfReqs : Stands(r)
  BY DEF SfInv
<1>3. /\ sfRunning \in Seq(SfReqs) /\ Distinct(sfRunning) /\ Len(sfRunning) <= SfMaxNumSeqs
      /\ sfWaiting \in Seq(SfReqs) /\ Distinct(sfWaiting)
      /\ ToSet(sfRunning) \subseteq SfReqs /\ ToSet(sfWaiting) \subseteq SfReqs
      /\ ToSet(sfRunning) \cap ToSet(sfWaiting) = {}
      /\ \A r \in ToSet(sfRunning) \cup ToSet(sfWaiting) : sfPrompt[r] > 0
  BY QueuedIs DEF SfInv, Queued
<1>4. /\ sfRunning' \in Seq(SfReqs) /\ Distinct(sfRunning') /\ Len(sfRunning') <= SfMaxNumSeqs
      /\ ToSet(sfRunning') = ToSet(sfRunning) \cap (SfReqs \ gone)
  <2> DEFINE rest == Within(sfRunning, SfReqs \ gone)
  <2>1. /\ rest \in Seq(SfReqs) /\ Distinct(rest)
        /\ ToSet(rest) = ToSet(sfRunning) \cap (SfReqs \ gone)
        /\ Len(rest) \in 0 .. Len(sfRunning)
    BY <1>3, WithinFacts
  <2>2. sfRunning' = rest /\ Len(sfRunning) \in Nat /\ SfMaxNumSeqs \in Nat
    BY <1>1, <1>3, SfAssumption
  <2> HIDE DEF rest
  <2>3. Len(rest) <= SfMaxNumSeqs
    BY <1>3, <2>1, <2>2
  <2> QED BY <2>1, <2>2, <2>3
<1>5. /\ sfWaiting' \in Seq(SfReqs) /\ Distinct(sfWaiting')
      /\ ToSet(sfWaiting') = ToSet(sfWaiting) \cap R
  BY <1>1, <1>3, WithinFacts
<1>6. ASSUME NEW r \in SfReqs PROVE Stands(r)'
  <2>1. CASE r \in gone
    <3>1. sfPrompt'[r] = 0 /\ sfTokens'[r] = 0 /\ sfDone'[r] = 0 /\ sfFrames'[r] = <<>>
      BY <1>1, <2>1
    <3>2. r \notin ToSet(sfRunning') /\ r \notin ToSet(sfWaiting')
      BY <1>4, <1>5, <2>1
    <3>3. FrameRun(0, 0) = <<>>
      BY NoFrames
    <3> QED BY <3>1, <3>2, <3>3 DEF Stands
  <2>2. CASE r \notin gone
    <3>1. /\ sfPrompt'[r] = sfPrompt[r] /\ sfTokens'[r] = sfTokens[r] /\ sfDone'[r] = sfDone[r]
          /\ sfFrames'[r] = sfFrames[r]
      BY <1>1, <2>2
    <3>2. /\ r \in ToSet(sfRunning') => r \in ToSet(sfRunning)
          /\ r \in ToSet(sfWaiting') => r \in ToSet(sfWaiting)
      BY <1>4, <1>5
    <3> QED BY <1>2, <3>1, <3>2 DEF Stands
  <2> QED BY <2>1, <2>2
<1>7. Queued'
  <2>1. ToSet(sfRunning') \cap ToSet(sfWaiting') = {}
    BY <1>3, <1>4, <1>5
  <2>2. \A r \in ToSet(sfRunning') \cup ToSet(sfWaiting') : r \in SfReqs /\ r \notin gone /\ sfPrompt[r] > 0
    BY <1>3, <1>4, <1>5
  <2>3. \A r \in ToSet(sfRunning') \cup ToSet(sfWaiting') : sfPrompt'[r] > 0
    BY <1>1, <2>2
  <2> QED BY <1>4, <1>5, <2>1, <2>3 DEF Queued
<1>8. /\ sfPrompt' \in [SfReqs -> Nat] /\ sfTokens' \in [SfReqs -> Nat] /\ sfDone' \in [SfReqs -> Nat]
      /\ sfFrames' \in [SfReqs -> Seq(Nat)]
  <2>1. <<>> \in Seq(Nat)
    OBVIOUS
  <2> QED BY <1>1, <1>2, <2>1
<1> QED BY <1>6, <1>7, <1>8 DEF SfInv

(* A reset aborts what runs or leaves it, and never preempts. *)
LEMMA StageResetInv ==
  ASSUME SfInv, ResetStageCache
  PROVE  SfInv'
<1> DEFINE none == <<>>
           left == IF EngineAborts THEN none ELSE sfRunning
           gone == ToSet(sfRunning) \ ToSet(left)
           preempted == IF RefusesReset(left) THEN none ELSE left
<1>1. none \in Seq(SfReqs) /\ ToSet(none) = {}
  BY DEF ToSet
<1>2. preempted = none
  BY DEF RefusesReset
<1>3. /\ Settled(gone, sfPrompt, sfTokens,
            [r \in SfReqs |-> IF r \in ToSet(preempted) THEN 0 ELSE sfDone[r]],
            sfFrames, IF preempted = none THEN left ELSE none)
      /\ sfWaiting' = preempted \o sfWaiting
      /\ sfReported' = (sfReported \/ preempted # none)
      /\ sfLost' = (sfLost \/ (gone # {} /\ ~sfNotifies))
      /\ sfPool' = sfPool /\ sfRaised' = sfRaised
  BY DEF ResetStageCache
<1> HIDE DEF preempted
<1>4. [r \in SfReqs |-> IF r \in ToSet(preempted) THEN 0 ELSE sfDone[r]] = sfDone
  <2>1. ToSet(preempted) = {}
    BY <1>1, <1>2
  <2> QED BY <2>1 DEF SfInv
<1>5. /\ sfRunning \in Seq(SfReqs) /\ sfWaiting \in Seq(SfReqs) /\ ToSet(sfRunning) \subseteq SfReqs
      /\ ToSet(sfRunning) \cap ToSet(sfWaiting) = {}
  BY QueuedIs
<1>6. Within(left, SfReqs \ gone) = Within(sfRunning, SfReqs \ gone)
  <2>1. CASE EngineAborts
    <3>1. left = none /\ gone = ToSet(sfRunning)
      BY <1>1, <2>1
    <3> DEFINE R == SfReqs \ gone
    <3>2. Within(sfRunning, R) = none
      <4>1. ToSet(sfRunning) \cap R = {}
        BY <3>1
      <4> HIDE DEF R
      <4>2. ToSet(Within(sfRunning, R)) = {} /\ Within(sfRunning, R) \in Seq(SfReqs)
        BY <1>5, <4>1, WithinFacts
      <4> QED BY <4>2, Elementless
    <3>3. Within(left, R) = none
      <4> HIDE DEF R, none
      <4>1. ToSet(Within(none, R)) = {} /\ Within(none, R) \in Seq(SfReqs)
        BY <1>1, WithinFacts
      <4>2. Within(none, R) = <<>>
        BY <4>1, Elementless
      <4> QED BY <3>1, <4>2 DEF none
    <3> QED BY <3>2, <3>3
  <2>2. CASE ~EngineAborts
    BY <2>2
  <2> QED BY <2>1, <2>2
<1>7. Settled(gone, sfPrompt, sfTokens, sfDone, sfFrames, sfRunning)
  <2>1. Settled(gone, sfPrompt, sfTokens, sfDone, sfFrames, left)
    BY <1>2, <1>3, <1>4
  <2> HIDE DEF left, gone
  <2> QED BY <1>6, <2>1 DEF Settled
<1>8. sfWaiting' = Within(sfWaiting, SfReqs)
  <2>1. sfWaiting' = sfWaiting
    BY <1>2, <1>3, <1>5
  <2> QED BY <1>5, <2>1, WithinAll
<1>9. ~sfReported' /\ ~sfLost' /\ ~sfRaised' /\ sfPool' = sfPool
  <2>1. gone # {} => EngineAborts
    OBVIOUS
  <2>2. ~(gone # {} /\ ~sfNotifies)
    BY <2>1 DEF EngineAborts
  <2> HIDE DEF gone
  <2> QED BY <1>2, <1>3, <2>2 DEF SfInv
<1>10. gone \in SUBSET SfReqs /\ ToSet(sfWaiting) \cap gone \cap SfReqs = {}
  BY <1>5
<1> HIDE DEF gone
<1> QED BY <1>7, <1>8, <1>9, <1>10, SettledInv

(* Its client takes a request out. *)
LEMMA AbortStageInv ==
  ASSUME SfInv, NEW r \in SfReqs, AbortStageRequest(r)
  PROVE  SfInv'
<1> DEFINE gone == {r}  rest == SfReqs \ {r}
<1>1. /\ Settled(gone, sfPrompt, sfTokens, sfDone, sfFrames, sfRunning)
      /\ sfWaiting' = Within(sfWaiting, rest)
      /\ sfPool' = sfPool /\ ~sfReported' /\ ~sfRaised' /\ ~sfLost'
  BY DEF AbortStageRequest, SfInv
<1>2. gone \in SUBSET SfReqs /\ ToSet(sfWaiting) \cap gone \cap rest = {}
  OBVIOUS
<1> HIDE DEF gone, rest
<1> QED BY <1>1, <1>2, SettledInv

(* A step keeps every request where it stands. *)
LEMMA SfStep ==
  ASSUME SfInv, [SfNext]_sfVars
  PROVE  SfInv'
<1>1. ASSUME NEW stops \in SUBSET SfReqs, StagePrefill(stops) PROVE SfInv'
  BY <1>1, StagePrefillInv
<1>2. ASSUME NEW stops \in SUBSET SfReqs, StageDecode(stops) PROVE SfInv'
  BY <1>2, StageDecodeInv
<1>3. ASSUME NEW r \in SfReqs, NEW tokens \in SfPrompts, NewStageRequest(r, tokens) PROVE SfInv'
  BY <1>3, NewStageRequestInv
<1>4. ASSUME NEW r \in SfReqs, AbortStageRequest(r) PROVE SfInv'
  BY <1>4, AbortStageInv
<1>5. CASE ResetStageCache
  BY <1>5, StageResetInv
<1>6. CASE UNCHANGED <<sfPool, sfRequests, sfRunning, sfWaiting, sfReported, sfRaised, sfLost>>
  <2>1. \A r \in SfReqs : Stands(r)' <=> Stands(r)
    BY <1>6 DEF Stands, sfRequests
  <2>2. Queued' <=> Queued
    BY <1>6 DEF Queued, sfRequests
  <2> QED BY <1>6, <2>1, <2>2 DEF SfInv, sfRequests
<1>7. ASSUME NEW clears \in BOOLEAN, KeepPause(clears) PROVE SfInv'
  BY <1>6, <1>7 DEF KeepPause
<1>8. CASE ResumeStage
  BY <1>6, <1>8 DEF ResumeStage
<1>9. CASE UNCHANGED sfVars
  BY <1>6, <1>9 DEF sfVars, sfRequests
<1> QED BY <1>1, <1>2, <1>3, <1>4, <1>5, <1>7, <1>8, <1>9 DEF SfNext

(* At first there is no request, in a pool that was not refused. *)
LEMMA SfInitInv ==
  SfInit => SfInv
<1> SUFFICES ASSUME SfInit PROVE SfInv
  OBVIOUS
<1>1. /\ sfPool \in Nat /\ PoolHolds(sfPool) /\ sfRunning = <<>> /\ sfWaiting = <<>>
      /\ sfPrompt = [r \in SfReqs |-> 0] /\ sfTokens = [r \in SfReqs |-> 0]
      /\ sfDone = [r \in SfReqs |-> 0] /\ sfFrames = [r \in SfReqs |-> <<>>]
      /\ ~sfReported /\ ~sfRaised /\ ~sfLost
  BY SfAssumption DEF SfInit
<1>2. ToSet(sfRunning) = {} /\ ToSet(sfWaiting) = {}
  BY <1>1 DEF ToSet
<1>3. FrameRun(0, 0) = <<>> /\ <<>> \in Seq(Nat)
  BY NoFrames
<1>4. \A r \in SfReqs : Stands(r)
  BY <1>1, <1>2, <1>3 DEF Stands
<1>5. Queued
  <2>1. Len(sfRunning) <= SfMaxNumSeqs
    BY <1>1, SfAssumption
  <2> QED BY <1>1, <1>2, <2>1 DEF Queued, Distinct
<1> QED BY <1>1, <1>3, <1>4, <1>5 DEF SfInv

(* A request that cannot resume is never preempted, for any number of requests
   and every pool that is not refused: no step raises, no client waits in vain,
   and the frames of a request are consecutive from the first. *)
THEOREM FramesAreUnbroken == SfSpec => []FramesUnbroken
<1>1. SfInv => FramesUnbroken
  BY DEF SfInv, Stands, FrameRun, FramesUnbroken
<1>2. SfInv /\ [SfNext]_sfVars => SfInv'
  BY SfStep
<1> QED BY <1>1, <1>2, SfInitInv, PTL DEF SfSpec

-----------------------------------------------------------------------------
(* Launches. *)

(* What two configurations share that differ in their ranks, draft length and
   scheduler class. *)
Alike(d, c) ==
  /\ c.maxLen = d.maxLen /\ c.autofit = d.autofit /\ c.chunked = d.chunked
  /\ c.batched = d.batched /\ c.scheduled = d.scheduled /\ c.threshold = d.threshold
  /\ c.align = d.align /\ c.seqs = d.seqs /\ c.lanes = d.lanes /\ c.executor = d.executor
  /\ c.async = d.async /\ c.method = d.method /\ c.seededHost = d.seededHost
  /\ c.sampling = d.sampling /\ c.caching = d.caching /\ c.rust = d.rust
  /\ c.logitsProcs = d.logitsProcs /\ c.diffusion = d.diffusion /\ c.canvas = d.canvas
  /\ c.worker = d.worker

Folds(m, a) == a.dp > 1 /\ m.folds

(* What the hook has made of a configuration but its plan and scheduler class. *)
Hooked(m, a, d) ==
  /\ d \in LcConfs
  /\ d.maxLen = a.maxLen /\ d.autofit = a.autofit /\ d.align = a.align /\ d.method = a.method
  /\ d.seededHost = a.seededHost /\ d.sampling = a.sampling /\ d.rust = a.rust
  /\ d.logitsProcs = a.logitsProcs /\ d.diffusion = a.diffusion /\ d.worker = a.worker
  /\ d.chunked = (a.chunked /\ m.chunks /\ ~IsBlock(m))
  /\ ~d.chunked => d.threshold = 0
  /\ a.chunked /\ ~d.chunked =>
       d.batched >= a.maxLen /\ (d.scheduled = 0 \/ d.scheduled >= a.maxLen)
  /\ ~a.chunked => d.batched = a.batched /\ d.scheduled = a.scheduled
  /\ d.caching = (a.caching /\ m.apc) /\ d.async = (a.async /\ m.asyncDecode)
  /\ d.canvas = IF IsBlock(m) THEN 0 ELSE a.canvas
  /\ d.seqs = IF Folds(m, a) THEN a.seqs * a.dp ELSE a.seqs
  /\ d.lanes = IF Folds(m, a) THEN a.dp ELSE a.lanes
  /\ d.executor = IF Folds(m, a) THEN "uni" ELSE a.executor

(* Chunked prefill is kept or turned off. *)
LEMMA ChunkPolicyIs ==
  ASSUME NEW m \in LcCaps, NEW c \in LcConfs
  PROVE  LET u == ChunkPolicy(m, c) IN
         /\ u \in LcConfs
         /\ u.chunked = (c.chunked /\ m.chunks /\ ~IsBlock(m))
         /\ ~u.chunked => u.threshold = 0
         /\ c.chunked /\ ~u.chunked =>
              u.batched >= c.maxLen /\ (u.scheduled = 0 \/ u.scheduled >= c.maxLen)
         /\ ~c.chunked => u.batched = c.batched /\ u.scheduled = c.scheduled
         /\ u.maxLen = c.maxLen /\ u.autofit = c.autofit /\ u.align = c.align /\ u.seqs = c.seqs
         /\ u.dp = c.dp /\ u.lanes = c.lanes /\ u.executor = c.executor /\ u.async = c.async
         /\ u.method = c.method /\ u.k = c.k /\ u.seededHost = c.seededHost
         /\ u.sampling = c.sampling /\ u.caching = c.caching /\ u.rust = c.rust
         /\ u.logitsProcs = c.logitsProcs /\ u.diffusion = c.diffusion /\ u.canvas = c.canvas
         /\ u.scheduler = c.scheduler /\ u.worker = c.worker
<1> DEFINE keeps == m.chunks /\ c.chunked /\ ~IsBlock(m)
<1>1. c.chunked \in BOOLEAN /\ m.chunks \in BOOLEAN /\ IsBlock(m) \in BOOLEAN
      /\ c.batched \in Nat /\ c.scheduled \in Nat /\ c.maxLen \in Nat
  BY DEF LcConfs, LcCaps, IsBlock
<1>2. CASE keeps
  <2>1. ChunkPolicy(m, c) = c
    BY <1>2 DEF ChunkPolicy
  <2> QED BY <1>1, <1>2, <2>1
<1>3. CASE ~keeps
  <2> DEFINE fit == IF c.chunked THEN c.maxLen ELSE 0
             x == Max({c.batched, fit})
             y == IF c.scheduled = 0 THEN 0 ELSE Max({c.scheduled, fit})
             u == [c EXCEPT !.chunked = FALSE, !.batched = x, !.scheduled = y, !.threshold = 0]
  <2>1. ChunkPolicy(m, c) = u
    BY <1>3 DEF ChunkPolicy, Unsplit
  <2>2. fit \in Nat
    BY <1>1
  <2>3. x = (IF c.batched >= fit THEN c.batched ELSE fit)
        /\ Max({c.scheduled, fit}) = (IF c.scheduled >= fit THEN c.scheduled ELSE fit)
    <3> HIDE DEF fit
    <3> QED BY <1>1, <2>2, MaxOfTwo
  <2> HIDE DEF x
  <2>4. x \in Nat /\ y \in Nat
    <3> HIDE DEF fit
    <3> QED BY <1>1, <2>2, <2>3
  <2>5. c.chunked => x >= c.maxLen /\ (y = 0 \/ y >= c.maxLen)
    BY <1>1, <2>3
  <2>6. ~c.chunked => x = c.batched /\ y = c.scheduled
    BY <1>1, <2>3
  <2> HIDE DEF y, fit
  <2>7. u \in LcConfs
    BY <2>4 DEF LcConfs
  <2>8. /\ u.chunked = FALSE /\ u.batched = x /\ u.scheduled = y /\ u.threshold = 0
        /\ u.maxLen = c.maxLen /\ u.autofit = c.autofit /\ u.align = c.align /\ u.seqs = c.seqs
        /\ u.dp = c.dp /\ u.lanes = c.lanes /\ u.executor = c.executor /\ u.async = c.async
        /\ u.method = c.method /\ u.k = c.k /\ u.seededHost = c.seededHost
        /\ u.sampling = c.sampling /\ u.caching = c.caching /\ u.rust = c.rust
        /\ u.logitsProcs = c.logitsProcs /\ u.diffusion = c.diffusion /\ u.canvas = c.canvas
        /\ u.scheduler = c.scheduler /\ u.worker = c.worker
    BY DEF LcConfs
  <2> HIDE DEF u
  <2> QED BY <1>1, <1>3, <2>1, <2>5, <2>6, <2>7, <2>8
<1> QED BY <1>2, <1>3

(* What is folded. *)
LEMMA FoldedIs ==
  ASSUME NEW m \in LcCaps, NEW a \in LcConfs
  PROVE  LET d == Folded(m, a) IN
         /\ Hooked(m, a, d) /\ d.k = a.k /\ d.scheduler = a.scheduler
         /\ d.dp = IF Folds(m, a) THEN 1 ELSE a.dp
<1> DEFINE p == ChunkPolicy(m, a)
<1>1. /\ p \in LcConfs
      /\ p.chunked = (a.chunked /\ m.chunks /\ ~IsBlock(m))
      /\ ~p.chunked => p.threshold = 0
      /\ a.chunked /\ ~p.chunked =>
           p.batched >= a.maxLen /\ (p.scheduled = 0 \/ p.scheduled >= a.maxLen)
      /\ ~a.chunked => p.batched = a.batched /\ p.scheduled = a.scheduled
      /\ p.maxLen = a.maxLen /\ p.autofit = a.autofit /\ p.align = a.align /\ p.seqs = a.seqs
      /\ p.dp = a.dp /\ p.lanes = a.lanes /\ p.executor = a.executor /\ p.async = a.async
      /\ p.method = a.method /\ p.k = a.k /\ p.seededHost = a.seededHost
      /\ p.sampling = a.sampling /\ p.caching = a.caching /\ p.rust = a.rust
      /\ p.logitsProcs = a.logitsProcs /\ p.diffusion = a.diffusion /\ p.canvas = a.canvas
      /\ p.scheduler = a.scheduler /\ p.worker = a.worker
  BY ChunkPolicyIs
<1> HIDE DEF p
<1> DEFINE caching == p.caching /\ m.apc
           canvas == IF IsBlock(m) THEN 0 ELSE p.canvas
           async == p.async /\ m.asyncDecode
           s == [p EXCEPT !.caching = caching, !.canvas = canvas, !.async = async]
<1>2. Supported(m, p) = s
  BY DEF Supported
<1>3. caching \in BOOLEAN /\ canvas \in Nat /\ async \in BOOLEAN
  BY <1>1 DEF LcConfs, LcCaps
<1>4. caching = (a.caching /\ m.apc) /\ canvas = (IF IsBlock(m) THEN 0 ELSE a.canvas)
      /\ async = (a.async /\ m.asyncDecode)
  BY <1>1
<1> HIDE DEF caching, canvas, async
<1>5. s \in LcConfs
  BY <1>1, <1>3 DEF LcConfs
<1>6. /\ s.caching = caching /\ s.canvas = canvas /\ s.async = async
      /\ s.maxLen = p.maxLen /\ s.autofit = p.autofit /\ s.align = p.align /\ s.seqs = p.seqs
      /\ s.dp = p.dp /\ s.lanes = p.lanes /\ s.executor = p.executor
      /\ s.chunked = p.chunked /\ s.batched = p.batched /\ s.scheduled = p.scheduled
      /\ s.threshold = p.threshold
      /\ s.method = p.method /\ s.k = p.k /\ s.seededHost = p.seededHost
      /\ s.sampling = p.sampling /\ s.rust = p.rust
      /\ s.logitsProcs = p.logitsProcs /\ s.diffusion = p.diffusion
      /\ s.scheduler = p.scheduler /\ s.worker = p.worker
  BY <1>1 DEF LcConfs
<1> HIDE DEF s
<1> DEFINE d == Folded(m, a)
<1>7. d = FoldLanes(m, s)
  BY <1>2 DEF Folded, p
<1>8. Folds(m, a) <=> s.dp > 1 /\ m.folds
  BY <1>1, <1>6 DEF Folds
<1> HIDE DEF d
<1>9. CASE ~Folds(m, a)
  <2>1. d = s
    BY <1>7, <1>8, <1>9 DEF FoldLanes
  <2> QED BY <1>1, <1>4, <1>5, <1>6, <1>9, <2>1 DEF Hooked, d
<1>10. CASE Folds(m, a)
  <2> DEFINE seqs == s.seqs * s.dp
             f == [s EXCEPT !.lanes = s.dp, !.seqs = seqs, !.dp = 1, !.executor = "uni"]
  <2>1. d = f
    BY <1>7, <1>8, <1>10 DEF FoldLanes
  <2>2. s.dp \in Nat \ {0} /\ s.seqs \in Nat \ {0}
    BY <1>5 DEF LcConfs
  <2>3. seqs \in Nat \ {0} /\ seqs = a.seqs * a.dp
    <3>1. seqs = a.seqs * a.dp
      BY <1>1, <1>6
    <3>2. \A x, y \in Nat \ {0} : x * y \in Nat \ {0}
      BY SMTT(30)
    <3> QED BY <2>2, <3>1, <3>2
  <2> HIDE DEF seqs
  <2>4. f \in LcConfs
    <3> DEFINE x == s.dp  g == [s EXCEPT !.lanes = x, !.seqs = seqs]
    <3>1. x \in Nat \ {0}
      BY <2>2
    <3> HIDE DEF x
    <3>2. g \in LcConfs
      BY <1>5, <2>3, <3>1 DEF LcConfs
    <3> DEFINE h == [g EXCEPT !.dp = 1]
    <3>3. f = [h EXCEPT !.executor = "uni"]
      BY <1>5 DEF LcConfs, x
    <3> HIDE DEF g, f
    <3>4. h \in LcConfs
      <4> DEFINE one == 1
      <4>1. one \in Nat \ {0} /\ h = [g EXCEPT !.dp = one]
        OBVIOUS
      <4> HIDE DEF one, h
      <4> QED BY <3>2, <4>1 DEF LcConfs
    <3> HIDE DEF h
    <3> QED BY <3>3, <3>4 DEF LcConfs
  <2>5. /\ f.lanes = s.dp /\ f.seqs = seqs /\ f.dp = 1 /\ f.executor = "uni"
        /\ f.caching = s.caching /\ f.canvas = s.canvas /\ f.async = s.async
        /\ f.maxLen = s.maxLen /\ f.autofit = s.autofit /\ f.align = s.align
        /\ f.chunked = s.chunked /\ f.batched = s.batched /\ f.scheduled = s.scheduled
        /\ f.threshold = s.threshold
        /\ f.method = s.method /\ f.k = s.k /\ f.seededHost = s.seededHost
        /\ f.sampling = s.sampling /\ f.rust = s.rust
        /\ f.logitsProcs = s.logitsProcs /\ f.diffusion = s.diffusion
        /\ f.scheduler = s.scheduler /\ f.worker = s.worker
    BY <1>5 DEF LcConfs
  <2> HIDE DEF f
  <2> QED BY <1>1, <1>4, <1>6, <1>10, <2>1, <2>3, <2>4, <2>5 DEF Hooked, d
<1> QED BY <1>9, <1>10

(* A model plans no more drafts than it is asked for. *)
LEMMA PlanKIs ==
  ASSUME NEW m \in LcCaps, NEW c \in LcConfs
  PROVE  PlanK(m, c) \in Nat /\ PlanK(m, c) = IF c.k <= m.planK THEN c.k ELSE m.planK
<1> DEFINE x == c.k  y == m.planK
<1>1. x \in Nat /\ y \in Nat /\ PlanK(m, c) = Min({x, y})
  BY DEF LcConfs, LcCaps, PlanK
<1> HIDE DEF x, y
<1>2. Min({x, y}) = IF x <= y THEN x ELSE y
  BY <1>1, MinOfTwo
<1> QED BY <1>1, <1>2 DEF x, y

(* What the next process sees of what the hook leaves. *)
AsLeft(m, a, c) ==
  LET d == Folded(m, a) IN
  /\ c \in LcConfs /\ Alike(d, c) /\ c.dp = 1
  /\ c.k = IF d.method = "none" THEN d.k ELSE PlanK(m, d)
  /\ c.scheduler = PairedScheduler(PublishedPlan(m, d))

(* A class is paired with the lanes, the worker and the class that was asked for. *)
LEMMA PairedIs ==
  ASSUME NEW c \in LcConfs
  PROVE  /\ PairedScheduler(c) \in {"none", "vllm", "tt", "stage", "lane", "other", "refused"}
         /\ \A d \in LcConfs :
              d.worker = c.worker /\ (Lanes(d) <=> Lanes(c)) /\ d.scheduler = c.scheduler =>
                PairedScheduler(d) = PairedScheduler(c)
         /\ \A d \in LcConfs :
              /\ d.worker = c.worker /\ (Lanes(d) <=> Lanes(c))
              /\ d.scheduler = PairedScheduler(c) /\ PairedScheduler(c) # "refused"
              => PairedScheduler(d) = d.scheduler
         /\ PairedScheduler(c) # "refused" => (PairedScheduler(c) = "lane" <=> Lanes(c))
<1>1. c.worker \in {"tt", "stage", "bare"}
      /\ c.scheduler \in {"none", "vllm", "tt", "stage", "lane", "other"}
  BY DEF LcConfs
<1>2. /\ c.worker = "tt" => Declared(c.worker) = "tt"
      /\ c.worker = "stage" => Declared(c.worker) = "stage"
      /\ c.worker = "bare" => Declared(c.worker) = "undeclared"
  BY DEF Declared
<1>3. \A d \in LcConfs : d.worker = c.worker => Declared(d.worker) = Declared(c.worker)
  OBVIOUS
<1>4. PairedScheduler(c) \in {"none", "vllm", "tt", "stage", "lane", "other", "refused"}
  BY <1>1, <1>2 DEF PairedScheduler
<1>5. PairedScheduler(c) # "refused" => (PairedScheduler(c) = "lane" <=> Lanes(c))
  BY <1>1, <1>2 DEF PairedScheduler, Derives
<1>6. ASSUME NEW d \in LcConfs, d.worker = c.worker, Lanes(d) <=> Lanes(c),
             d.scheduler = c.scheduler
      PROVE  PairedScheduler(d) = PairedScheduler(c)
  BY <1>1, <1>2, <1>6 DEF PairedScheduler
<1>7. ASSUME NEW d \in LcConfs, d.worker = c.worker, Lanes(d) <=> Lanes(c),
             d.scheduler = PairedScheduler(c), PairedScheduler(c) # "refused"
      PROVE  PairedScheduler(d) = d.scheduler
  <2>1. CASE c.worker = "tt"
    BY <1>1, <1>2, <1>7, <2>1 DEF PairedScheduler, Derives
  <2>2. CASE c.worker = "stage"
    BY <1>1, <1>2, <1>7, <2>2 DEF PairedScheduler, Derives
  <2>3. CASE c.worker = "bare"
    BY <1>1, <1>2, <1>7, <2>3 DEF PairedScheduler, Derives
  <2> QED BY <1>1, <2>1, <2>2, <2>3
<1> QED BY <1>4, <1>5, <1>6, <1>7

(* What the hook leaves, seen by one rank. *)
LEMMA LeftIs ==
  ASSUME NEW m \in LcCaps, NEW a \in LcConfs, a.lanes = 1,
         PairedScheduler(PublishedPlan(m, Folded(m, a))) # "refused"
  PROVE  AsLeft(m, a, [Updated(m, a) EXCEPT !.dp = 1]) /\ Updated(m, a) \in LcConfs
<1> DEFINE d == Folded(m, a)
           n == PlanK(m, d)
           e == PublishedPlan(m, d)
           r == PairedScheduler(e)
           u == [e EXCEPT !.scheduler = r]
           c == [u EXCEPT !.dp = 1]
<1>1. d \in LcConfs
  BY FoldedIs DEF Hooked
<1>2. Updated(m, a) = u
  BY DEF Updated
<1>3. e = IF d.method = "none" THEN d ELSE [d EXCEPT !.k = n]
  BY DEF PublishedPlan
<1> HIDE DEF d
<1>4. n \in Nat
  BY <1>1, PlanKIs
<1> HIDE DEF n, e
<1>5. /\ e \in LcConfs /\ Alike(d, e) /\ e.dp = d.dp
      /\ e.k = (IF d.method = "none" THEN d.k ELSE n) /\ e.scheduler = d.scheduler
  <2>1. CASE d.method = "none"
    BY <1>1, <1>3, <2>1 DEF Alike
  <2>2. CASE d.method # "none"
    <3>1. e = [d EXCEPT !.k = n]
      BY <1>3, <2>2
    <3>2. e \in LcConfs
      BY <1>1, <1>4, <3>1 DEF LcConfs
    <3>3. Alike(d, e) /\ e.dp = d.dp /\ e.k = n /\ e.scheduler = d.scheduler
      BY <1>1, <3>1 DEF LcConfs, Alike
    <3> QED BY <2>2, <3>2, <3>3
  <2> QED BY <2>1, <2>2
<1>6. r \in {"none", "vllm", "tt", "stage", "lane", "other"}
  <2>1. r # "refused"
    BY DEF r, e, d
  <2> QED BY <1>5, <2>1, PairedIs
<1> HIDE DEF r
<1>7. /\ u \in LcConfs /\ Alike(e, u) /\ u.dp = e.dp /\ u.k = e.k /\ u.scheduler = r
  <2>1. u \in LcConfs
    BY <1>5, <1>6 DEF LcConfs
  <2>2. Alike(e, u) /\ u.dp = e.dp /\ u.k = e.k /\ u.scheduler = r
    BY <1>5 DEF LcConfs, Alike
  <2> QED BY <2>1, <2>2
<1> HIDE DEF u
<1>8. c \in LcConfs /\ Alike(u, c) /\ c.dp = 1 /\ c.k = u.k /\ c.scheduler = u.scheduler
  <2>1. c \in LcConfs
    BY <1>7 DEF LcConfs
  <2>2. Alike(u, c) /\ c.dp = 1 /\ c.k = u.k /\ c.scheduler = u.scheduler
    BY <1>7 DEF LcConfs, Alike
  <2> QED BY <2>1, <2>2
<1> HIDE DEF c
<1>9. Alike(d, c)
  BY <1>5, <1>7, <1>8 DEF Alike
<1>10. c.k = (IF d.method = "none" THEN d.k ELSE PlanK(m, d)) /\ c.scheduler = r
  BY <1>5, <1>7, <1>8 DEF n
<1>11. c = [Updated(m, a) EXCEPT !.dp = 1]
  BY <1>2 DEF c
<1>12. AsLeft(m, a, c)
  BY <1>8, <1>9, <1>10 DEF AsLeft, d, e, r
<1> QED BY <1>2, <1>7, <1>11, <1>12

(* Configurations with the same fields are the same. *)
LEMMA SameConf ==
  ASSUME NEW c \in LcConfs, NEW d \in LcConfs, Alike(c, d), d.dp = c.dp, d.k = c.k,
         d.scheduler = c.scheduler
  PROVE  c = d
BY DEF LcConfs, Alike

(* The hook applied to what it left changes nothing more. *)
LEMMA LeftStays ==
  ASSUME NEW m \in LcCaps, NEW a \in LcConfs, a.lanes = 1,
         PairedScheduler(PublishedPlan(m, Folded(m, a))) # "refused",
         NEW c, AsLeft(m, a, c)
  PROVE  /\ Folded(m, c) = c /\ PublishedPlan(m, c) = c /\ PairedScheduler(c) = c.scheduler
         /\ Updated(m, c) = c /\ c.scheduler # "refused"
         /\ c.method # "none" => PlanK(m, c) = c.k
         /\ c.scheduler = "lane" <=> Lanes(c)
         /\ Lanes(c) <=> Lanes(Folded(m, a))
<1> DEFINE d == Folded(m, a)  f == Folded(m, c)
<1>1. /\ Hooked(m, a, d) /\ d.k = a.k /\ d.scheduler = a.scheduler
      /\ d.dp = IF Folds(m, a) THEN 1 ELSE a.dp
      /\ d \in LcConfs /\ c \in LcConfs /\ Alike(d, c) /\ c.dp = 1
      /\ c.k = (IF d.method = "none" THEN d.k ELSE PlanK(m, d))
      /\ c.scheduler = PairedScheduler(PublishedPlan(m, d))
  BY FoldedIs DEF AsLeft, Hooked
<1>2. Hooked(m, c, f) /\ f.k = c.k /\ f.scheduler = c.scheduler /\ f.dp = 1 /\ ~Folds(m, c)
  <2>1. ~Folds(m, c)
    BY <1>1 DEF Folds
  <2> QED BY <1>1, <2>1, FoldedIs
<1> HIDE DEF f
<1>3. f = c
  <2>1. c.chunked \in BOOLEAN /\ m.chunks \in BOOLEAN /\ IsBlock(m) \in BOOLEAN
        /\ c.caching \in BOOLEAN /\ c.async \in BOOLEAN /\ m.apc \in BOOLEAN
        /\ m.asyncDecode \in BOOLEAN
        /\ a.chunked \in BOOLEAN /\ a.caching \in BOOLEAN /\ a.async \in BOOLEAN
    BY <1>1 DEF LcConfs, LcCaps, IsBlock
  <2>2. c.chunked => m.chunks /\ ~IsBlock(m)
    BY <1>1, <2>1 DEF Alike, Hooked
  <2>3. f.chunked = c.chunked
    BY <1>2, <2>1, <2>2 DEF Hooked
  <2>4. f.caching = c.caching /\ f.async = c.async
    <3>1. (c.caching => m.apc) /\ (c.async => m.asyncDecode)
      BY <1>1, <2>1 DEF Alike, Hooked
    <3> QED BY <1>2, <2>1, <3>1 DEF Hooked
  <2>5. f.canvas = c.canvas
    <3>1. IsBlock(m) => c.canvas = 0
      BY <1>1 DEF Alike, Hooked
    <3> QED BY <1>2, <3>1 DEF Hooked
  <2>6. f.batched = c.batched /\ f.scheduled = c.scheduled /\ f.threshold = c.threshold
    <3>1. CASE c.chunked
      <4>1. ChunkPolicy(m, c) = c
        BY <2>2, <3>1 DEF ChunkPolicy
      <4>2. f = Supported(m, c)
        <5>1. ~(c.dp > 1)
          BY <1>1
        <5>2. Supported(m, c).dp = c.dp
          BY <1>1 DEF Supported, LcConfs
        <5> QED BY <4>1, <5>1, <5>2 DEF Folded, FoldLanes, f
      <4> QED BY <1>1, <4>2 DEF Supported, LcConfs
    <3>2. CASE ~c.chunked
      <4>1. f.batched = c.batched /\ f.scheduled = c.scheduled
        BY <1>2, <3>2 DEF Hooked
      <4>2. f.threshold = 0
        BY <1>2, <2>3, <3>2 DEF Hooked
      <4>3. c.threshold = 0
        BY <1>1, <3>2 DEF Alike, Hooked
      <4> QED BY <4>1, <4>2, <4>3
    <3> QED BY <3>1, <3>2
  <2>7. Alike(c, f)
    BY <1>2, <2>3, <2>4, <2>5, <2>6 DEF Hooked, Alike
  <2>8. f \in LcConfs
    BY <1>2 DEF Hooked
  <2> QED BY <1>1, <1>2, <2>7, <2>8, SameConf
<1>4. c.method # "none" => PlanK(m, c) = c.k
  <2> SUFFICES ASSUME c.method # "none" PROVE PlanK(m, c) = c.k
    OBVIOUS
  <2>1. c.k = PlanK(m, d)
    BY <1>1 DEF Alike
  <2>2. d.k \in Nat /\ m.planK \in Nat
    BY <1>1 DEF LcConfs, LcCaps
  <2> HIDE DEF d
  <2>3. PlanK(m, d) = IF d.k <= m.planK THEN d.k ELSE m.planK
    BY <1>1, PlanKIs
  <2>4. PlanK(m, c) = IF c.k <= m.planK THEN c.k ELSE m.planK
    BY <1>1, PlanKIs
  <2> QED BY <2>1, <2>2, <2>3, <2>4
<1>5. PublishedPlan(m, c) = c
  <2>1. CASE c.method = "none"
    BY <2>1 DEF PublishedPlan
  <2>2. CASE c.method # "none"
    <3>1. PublishedPlan(m, c) = [c EXCEPT !.k = c.k]
      BY <1>4, <2>2 DEF PublishedPlan
    <3> QED BY <1>1, <3>1 DEF LcConfs
  <2> QED BY <2>1, <2>2
<1>6. Lanes(c) <=> Lanes(d)
  <2>1. c.lanes = d.lanes /\ a.dp \in Nat \ {0}
    BY <1>1 DEF Alike, LcConfs
  <2>2. CASE Folds(m, a)
    BY <1>1, <2>1, <2>2 DEF Lanes
  <2>3. CASE ~Folds(m, a)
    <3>1. d.lanes = 1
      BY <1>1, <2>3 DEF Hooked
    <3> QED BY <2>1, <3>1 DEF Lanes
  <2> QED BY <2>2, <2>3
<1> DEFINE e == PublishedPlan(m, d)
<1>7. e \in LcConfs /\ e.worker = d.worker /\ (Lanes(e) <=> Lanes(d)) /\ e.scheduler = d.scheduler
  <2>1. PlanK(m, d) \in Nat
    BY <1>1, PlanKIs
  <2>2. CASE d.method = "none"
    BY <1>1, <2>2 DEF PublishedPlan
  <2>3. CASE d.method # "none"
    <3> DEFINE n == PlanK(m, d)
    <3>1. e = [d EXCEPT !.k = n] /\ n \in Nat
      BY <2>1, <2>3 DEF PublishedPlan
    <3> HIDE DEF n, e, d
    <3>2. e \in LcConfs
      BY <1>1, <3>1 DEF LcConfs
    <3>3. e.worker = d.worker /\ e.scheduler = d.scheduler /\ e.dp = d.dp /\ e.lanes = d.lanes
      BY <1>1, <3>1 DEF LcConfs
    <3> QED BY <3>2, <3>3 DEF Lanes
  <2> QED BY <2>2, <2>3
<1>8. PairedScheduler(e) # "refused"
  OBVIOUS
<1> HIDE DEF e, d
<1>9. c.worker = e.worker /\ (Lanes(c) <=> Lanes(e)) /\ c.scheduler = PairedScheduler(e)
  BY <1>1, <1>6, <1>7 DEF Alike, e
<1>10. PairedScheduler(c) = c.scheduler
  BY <1>1, <1>7, <1>8, <1>9, PairedIs
<1>11. c.scheduler = "lane" <=> Lanes(c)
  BY <1>7, <1>8, <1>9, PairedIs
<1>12. Updated(m, c) = c
  <2>1. Updated(m, c) = [c EXCEPT !.scheduler = c.scheduler]
    BY <1>3, <1>5, <1>10 DEF Updated, f
  <2> QED BY <1>1, <2>1 DEF LcConfs
<1> QED BY <1>3, <1>4, <1>5, <1>6, <1>8, <1>9, <1>10, <1>11, <1>12 DEF f, d

(* The hook took a configuration. *)
Took(m, a, c) ==
  /\ m \in LcCaps /\ a \in LcConfs /\ a.lanes = 1 /\ BudgetsHold(a)
  /\ ~Refused(m, a, Folded(m, a)) /\ AsLeft(m, a, c)

(* What a taken configuration keeps of the one that was asked for. *)
LEMMA TookIs ==
  ASSUME NEW m, NEW a, NEW c, Took(m, a, c)
  PROVE  LET d == Folded(m, a) IN
         /\ m \in LcCaps /\ a \in LcConfs /\ c \in LcConfs /\ d \in LcConfs
         /\ a.lanes = 1 /\ Hooked(m, a, d) /\ d.k = a.k /\ d.scheduler = a.scheduler
         /\ d.dp = (IF Folds(m, a) THEN 1 ELSE a.dp)
         /\ Alike(d, c) /\ c.dp = 1
         /\ Folded(m, c) = c /\ PairedScheduler(PublishedPlan(m, c)) # "refused"
         /\ Updated(m, c) = c
         /\ c.method # "none" => c.k = PlanK(m, d) /\ PlanK(m, c) = c.k
         /\ c.scheduler = "lane" <=> Lanes(c)
         /\ Lanes(c) <=> Lanes(d)
         /\ IsBlock(m) \in BOOLEAN /\ m.adaptive \in BOOLEAN
<1> DEFINE d == Folded(m, a)
<1>1. /\ m \in LcCaps /\ a \in LcConfs /\ a.lanes = 1 /\ AsLeft(m, a, c)
      /\ PairedScheduler(PublishedPlan(m, d)) # "refused"
  BY DEF Took, Refused
<1>2. /\ Hooked(m, a, d) /\ d.k = a.k /\ d.scheduler = a.scheduler
      /\ d.dp = (IF Folds(m, a) THEN 1 ELSE a.dp)
  BY <1>1, FoldedIs
<1>3. /\ Folded(m, c) = c /\ PublishedPlan(m, c) = c /\ PairedScheduler(c) = c.scheduler
      /\ Updated(m, c) = c /\ c.scheduler # "refused"
      /\ c.method # "none" => PlanK(m, c) = c.k
      /\ c.scheduler = "lane" <=> Lanes(c)
      /\ Lanes(c) <=> Lanes(d)
  BY <1>1, LeftStays
<1>4. c \in LcConfs /\ Alike(d, c) /\ c.dp = 1 /\ (c.method # "none" => c.k = PlanK(m, d))
  BY <1>1 DEF AsLeft, Alike
<1>5. d \in LcConfs
  BY <1>2 DEF Hooked
<1>6. IsBlock(m) \in BOOLEAN /\ m.adaptive \in BOOLEAN
  BY <1>1 DEF IsBlock, LcCaps
<1> HIDE DEF d
<1>7. PairedScheduler(PublishedPlan(m, c)) # "refused"
  BY <1>3
<1> QED BY <1>1, <1>2, <1>3, <1>4, <1>5, <1>6, <1>7 DEF d

(* What the hook has not refused. *)
LEMMA TookHolds ==
  ASSUME NEW m, NEW a, NEW c, Took(m, a, c)
  PROVE  LET d == Folded(m, a) IN
         /\ ~Contradicts(m) /\ ~SamplingRefuses(m, a)
         /\ IsBlock(m) =>
              a.method = "none" /\ ~BlockModelRefuses(m, a) /\ ~BlockLaunchRefuses(m, a)
         /\ d.method # "none" => ~SpecRefuses(m, d)
         /\ ~StageRefuses(m, d) /\ (Lanes(d) => ~LanesRefuse(d)) /\ BudgetsHold(d)
BY DEF Took, Refused

(* Applied to its own output the hook refuses one launch: the requests of an
   adaptive model's ranks of one request share a batch since the fold. *)
LEMMA RefusedLate ==
  ASSUME NEW m, NEW a, NEW c, Took(m, a, c), Refused(m, c, c)
  PROVE  m.adaptive /\ a.seqs = 1 /\ c.lanes > 1
<1> DEFINE d == Folded(m, a)
<1>1. /\ m \in LcCaps /\ a \in LcConfs /\ c \in LcConfs /\ d \in LcConfs
      /\ a.lanes = 1 /\ Hooked(m, a, d) /\ Alike(d, c) /\ c.dp = 1
      /\ PairedScheduler(PublishedPlan(m, c)) # "refused"
      /\ c.method # "none" => c.k = PlanK(m, d) /\ PlanK(m, c) = c.k
      /\ Lanes(c) <=> Lanes(d)
      /\ IsBlock(m) \in BOOLEAN /\ m.adaptive \in BOOLEAN
  BY TookIs
<1>2. /\ ~Contradicts(m) /\ ~SamplingRefuses(m, a)
      /\ IsBlock(m) =>
           a.method = "none" /\ ~BlockModelRefuses(m, a) /\ ~BlockLaunchRefuses(m, a)
      /\ d.method # "none" => ~SpecRefuses(m, d)
      /\ ~StageRefuses(m, d) /\ (Lanes(d) => ~LanesRefuse(d)) /\ BudgetsHold(d)
  BY TookHolds
<1> HIDE DEF d
<1>3. ~SamplingRefuses(m, c)
  BY <1>1, <1>2 DEF SamplingRefuses, Alike, Hooked
<1>4. c.method # "none" => ~SpecRefuses(m, c)
  BY <1>1, <1>2 DEF SpecRefuses, PlanHolds, Alike
<1>5. ~(m.moe /\ c.dp > 1 /\ ~Lanes(c))
  BY <1>1
<1>6. ~StageRefuses(m, c)
  BY <1>1, <1>2 DEF StageRefuses, Alike
<1>7. ~(Lanes(c) /\ LanesRefuse(c))
  BY <1>1, <1>2 DEF LanesRefuse, Alike
<1>8. BudgetsHold(c)
  BY <1>1, <1>2 DEF BudgetsHold, Alike
<1>9. IsBlock(m) /\ (c.method # "none" \/ BlockModelRefuses(m, c) \/ BlockLaunchRefuses(m, c))
  BY <1>1, <1>2, <1>3, <1>4, <1>5, <1>6, <1>7, <1>8 DEF Refused
<1>10. c.method = "none"
  BY <1>1, <1>2, <1>9 DEF Alike, Hooked
<1>11. ~BlockLaunchRefuses(m, c)
  <2>1. ~c.rust /\ ~c.logitsProcs
    BY <1>1, <1>2, <1>9 DEF BlockLaunchRefuses, Alike, Hooked
  <2>2. ASSUME ~m.adaptive
        PROVE  c.seqs = 1 /\ c.dp = 1 /\ c.lanes = 1 /\ ~c.async /\ c.executor # "mp"
    <3>1. a.seqs = 1 /\ a.dp = 1 /\ ~a.async /\ a.executor # "mp"
      BY <1>2, <1>9, <2>2 DEF BlockLaunchRefuses
    <3>2. ~Folds(m, a)
      BY <3>1 DEF Folds
    <3> QED BY <1>1, <3>1, <3>2 DEF Alike, Hooked
  <2> QED BY <1>1, <2>1, <2>2 DEF BlockLaunchRefuses
<1>12. ~(RequiredHooks(m, c) \subseteq m.hooks)
  <2>1. BlockModelRefuses(m, c)
    BY <1>9, <1>10, <1>11
  <2>2. c.canvas = 0 /\ c.diffusion = a.diffusion /\ c.maxLen = a.maxLen
    BY <1>1, <1>9 DEF Alike, Hooked
  <2>3. ~a.diffusion /\ ~(a.maxLen < MinLen(m))
    BY <1>2, <1>9 DEF BlockModelRefuses
  <2> QED BY <2>1, <2>2, <2>3 DEF BlockModelRefuses
<1>13. RequiredHooks(m, a) \subseteq m.hooks
  BY <1>2, <1>9 DEF BlockModelRefuses
<1>14. m.adaptive /\ c.seqs > 1 /\ ~(a.seqs > 1)
  BY <1>12, <1>13 DEF RequiredHooks
<1>15. a.seqs \in Nat \ {0} /\ a.dp \in Nat \ {0}
  BY <1>1 DEF LcConfs
<1>16. a.seqs = 1
  BY <1>14, <1>15
<1>17. Folds(m, a)
  BY <1>1, <1>14, <1>16 DEF Alike, Hooked
<1>18. c.lanes = a.dp /\ a.dp > 1
  BY <1>1, <1>17 DEF Alike, Hooked, Folds
<1> QED BY <1>14, <1>16, <1>18

(* The owner of a step's width, and of its order, is one. *)
LEMMA TookOwned ==
  ASSUME NEW m, NEW c, Took(m, lcAsked, c), ~Refused(m, c, c)
  PROVE  StepOwned(m, c)
<1> DEFINE a == lcAsked  d == Folded(m, a)
<1>1. /\ m \in LcCaps /\ a \in LcConfs /\ c \in LcConfs /\ d \in LcConfs
      /\ a.lanes = 1 /\ Hooked(m, a, d) /\ d.k = a.k /\ Alike(d, c) /\ c.dp = 1
      /\ d.dp = (IF Folds(m, a) THEN 1 ELSE a.dp)
      /\ c.method # "none" => c.k = PlanK(m, d) /\ PlanK(m, c) = c.k
      /\ IsBlock(m) \in BOOLEAN /\ m.adaptive \in BOOLEAN
  BY TookIs
<1>2. /\ ~Contradicts(m)
      /\ IsBlock(m) =>
           a.method = "none" /\ ~BlockModelRefuses(m, a) /\ ~BlockLaunchRefuses(m, a)
      /\ d.method # "none" => ~SpecRefuses(m, d)
      /\ ~StageRefuses(m, d)
  BY TookHolds
<1>3. /\ c.seqs \in Nat \ {0} /\ a.dp \in Nat \ {0} /\ d.k \in Nat /\ m.planK \in Nat
      /\ m.width \in Nat \ {0} /\ d.lanes \in Nat \ {0}
  BY <1>1 DEF LcConfs, LcCaps
<1> HIDE DEF d, a
<1>4. IsBlock(m) => c.method = "none" /\ ~c.chunked /\ c.canvas = 0
  BY <1>1, <1>2 DEF Alike, Hooked
<1>5. ASSUME IsBlock(m), ~m.adaptive
      PROVE  c.seqs = 1 /\ a.dp = 1 /\ ~c.async
  <2>1. a.seqs = 1 /\ a.dp = 1 /\ ~a.async
    BY <1>2, <1>5 DEF BlockLaunchRefuses
  <2>2. ~Folds(m, a)
    BY <2>1 DEF Folds
  <2> QED BY <1>1, <2>1, <2>2 DEF Alike, Hooked
<1>6. ASSUME IsBlock(m), c.seqs > 1
      PROVE  "note_state_slots_moved" \in m.hooks
  <2>1. m.adaptive
    BY <1>1, <1>5, <1>6
  <2>2. RequiredHooks(m, c) \subseteq m.hooks
    BY <1>6 DEF Refused, BlockModelRefuses
  <2> QED BY <1>6, <2>1, <2>2 DEF RequiredHooks
<1>7. c.async => m.asyncDecode /\ (c.method # "none" => m.asyncSpec)
  BY <1>1, <1>2 DEF Alike, Hooked, SpecRefuses
<1>8. ASSUME c.method # "none"
      PROVE  /\ c.k \in 1 .. Min({a.k, m.planK})
             /\ m.planRows # 0 => m.planRows >= c.seqs
  <2>1. PlanHolds(m, d)
    BY <1>1, <1>2, <1>8 DEF SpecRefuses, Alike
  <2>2. c.k = PlanK(m, d) /\ PlanK(m, d) > 0 /\ PlanK(m, d) \in Nat
    BY <1>1, <1>8, <2>1, PlanKIs DEF PlanHolds
  <2>3. c.k = Min({a.k, m.planK})
    BY <1>1, <2>2 DEF PlanK
  <2>4. c.seqs = d.seqs
    BY <1>1 DEF Alike
  <2> QED BY <2>1, <2>2, <2>3, <2>4 DEF PlanHolds
<1>9. ASSUME m.stageOut
      PROVE  m.width = 1 /\ c.lanes = 1 /\ ~c.async /\ c.method = "none"
  <2>1. ~Lanes(d) /\ ~IsBlock(m) /\ d.method = "none" /\ ~m.asyncDecode
    BY <1>2, <1>9 DEF StageRefuses
  <2>2. m.width = 1
    BY <1>3, <2>1 DEF IsBlock
  <2>3. c.method = "none" /\ ~c.async /\ c.lanes = d.lanes
    BY <1>1, <2>1 DEF Alike, Hooked
  <2>4. d.lanes = 1
    <3>1. ~Folds(m, a)
      BY <1>1, <1>3, <2>1 DEF Folds, Lanes, Hooked
    <3> QED BY <1>1, <3>1 DEF Hooked
  <2> QED BY <2>2, <2>3, <2>4
<1>10. c.rust => ~IsBlock(m) /\ c.method = "none"
  BY <1>1, <1>2 DEF Alike, Hooked, BlockLaunchRefuses, SpecRefuses, PlanHolds
<1> QED BY <1>4, <1>5, <1>6, <1>7, <1>8, <1>9, <1>10 DEF StepOwned, a

(* The batch of each rank survives the fold. *)
LEMMA TookFolds ==
  ASSUME NEW m, NEW c, Took(m, lcAsked, c)
  PROVE  FoldKept(m, c)
<1> DEFINE a == lcAsked  d == Folded(m, a)
<1>1. /\ a \in LcConfs /\ a.lanes = 1 /\ Hooked(m, a, d) /\ Alike(d, c) /\ c.dp = 1
      /\ c.scheduler = "lane" <=> Lanes(c)
  BY TookIs
<1>2. a.seqs \in Nat \ {0} /\ a.dp \in Nat \ {0}
  BY <1>1 DEF LcConfs
<1> HIDE DEF d, a
<1>3. CASE Folds(m, a)
  <2>1. c.seqs = a.seqs * a.dp /\ c.lanes = a.dp /\ a.dp > 1
    BY <1>1, <1>3 DEF Alike, Hooked, Folds
  <2>2. \A s, r \in Nat \ {0} : (s * r) \div r = s
    BY SMTT(30)
  <2>3. (a.seqs * a.dp) \div a.dp = a.seqs
    BY <1>2, <2>2
  <2> HIDE DEF Alike
  <2>4. Lanes(c)
    BY <1>1, <2>1 DEF Lanes
  <2>5. PerLane(c) = a.seqs
    BY <2>1, <2>3, <2>4 DEF PerLane
  <2> QED BY <1>1, <2>1, <2>4, <2>5 DEF FoldKept, a
<1>4. CASE ~Folds(m, a)
  <2>1. c.seqs = a.seqs /\ c.lanes = 1
    BY <1>1, <1>4 DEF Alike, Hooked
  <2>2. ~Lanes(c)
    BY <2>1 DEF Lanes
  <2>3. m.folds => a.dp = 1
    BY <1>2, <1>4 DEF Folds
  <2> QED BY <1>1, <2>1, <2>2, <2>3 DEF FoldKept, PerLane, a
<1> QED BY <1>3, <1>4

(* A split prompt may be resumed, a whole one fits a step. *)
LEMMA TookPrompts ==
  ASSUME NEW m, NEW c, Took(m, lcAsked, c)
  PROVE  /\ c.chunked => m.chunks
         /\ ~c.chunked =>
              /\ c.threshold = 0
              /\ lcAsked.chunked \/ c.scheduled = 0 => StepLimit(c) >= lcAsked.maxLen
<1> DEFINE a == lcAsked  d == Folded(m, a)
<1>1. /\ m \in LcCaps /\ a \in LcConfs /\ c \in LcConfs /\ Hooked(m, a, d) /\ Alike(d, c)
  BY TookIs
<1>2. BudgetsHold(a)
  BY DEF Took
<1>3. /\ c.batched \in Nat /\ c.scheduled \in Nat /\ a.maxLen \in Nat
      /\ a.chunked \in BOOLEAN /\ c.chunked \in BOOLEAN
  BY <1>1 DEF LcConfs
<1> HIDE DEF d, a
<1>4. c.chunked => m.chunks
  BY <1>1 DEF Alike, Hooked
<1>5. ASSUME ~c.chunked
      PROVE  /\ c.threshold = 0
             /\ a.chunked \/ c.scheduled = 0 => StepLimit(c) >= a.maxLen
  <2>1. c.threshold = 0
    BY <1>1, <1>5 DEF Alike, Hooked
  <2>2. StepLimit(c) = IF c.scheduled > 0 THEN c.scheduled ELSE c.batched
    BY <2>1 DEF StepLimit
  <2>3. CASE a.chunked
    <3>1. c.batched >= a.maxLen /\ (c.scheduled = 0 \/ c.scheduled >= a.maxLen)
      BY <1>1, <1>5, <2>3 DEF Alike, Hooked
    <3> QED BY <1>3, <2>1, <2>2, <3>1
  <2>4. CASE ~a.chunked
    <3>1. c.batched = a.batched /\ a.batched >= a.maxLen
      BY <1>1, <1>2, <2>4 DEF Alike, Hooked, BudgetsHold
    <3> QED BY <1>3, <2>1, <2>2, <2>4, <3>1
  <2> QED BY <2>3, <2>4
<1> QED BY <1>4, <1>5 DEF a

(* What a scheduler looks ahead covers each of its needs. *)
LEMMA LookaheadCovers ==
  ASSUME NEW m \in LcCaps, NEW c \in LcConfs
  PROVE  /\ IsBlock(m) => Lookahead(m, c) >= m.extent
         /\ c.method = "custom_class" => Lookahead(m, c) > c.k
<1> DEFINE w == 2 * m.width
           e == m.extent
           b == Max({w, e})
           x == IF c.method = "custom_class" THEN c.k + 1 ELSE 0
           y == IF IsBlock(m) THEN b ELSE 0
           T == {0, x, y}
           n == x + y
<1>1. w \in Nat /\ e \in Nat /\ x \in Nat /\ c.k \in Nat
  BY DEF LcCaps, LcConfs
<1> HIDE DEF w, e, x
<1>2. b \in Nat /\ b >= e
  <2>1. b = IF w >= e THEN w ELSE e
    BY <1>1, MaxOfTwo
  <2> QED BY <1>1, <2>1
<1>3. Lookahead(m, c) = Max(T)
  BY DEF Lookahead, w, e, x
<1> HIDE DEF b
<1>4. y \in Nat
  BY <1>2
<1> HIDE DEF y
<1>5. n \in Nat /\ T \in SUBSET (0 .. n) /\ T # {} /\ x \in T /\ y \in T
  BY <1>1, <1>4
<1> HIDE DEF n, T
<1>6. Max(T) \in 0 .. n /\ x <= Max(T) /\ y <= Max(T)
  BY <1>5, MaxOfSet
<1>7. IsBlock(m) => Max(T) >= e
  BY <1>1, <1>2, <1>4, <1>5, <1>6 DEF y
<1>8. c.method = "custom_class" => Max(T) > c.k
  <2>1. c.method = "custom_class" => x = c.k + 1
    BY DEF x
  <2> QED BY <1>1, <1>5, <1>6, <2>1
<1> QED BY <1>3, <1>7, <1>8 DEF e

(* Counts of pages, and the shortest context. *)
LEMMA PagesAre ==
  ASSUME NEW m \in LcCaps, NEW c \in LcConfs
  PROVE  /\ LcBlock * PoolBlocks(m, c) \in Int
         /\ MinLen(m) \in Nat
         /\ FittedLen(m, c) = LcBlock * PoolBlocks(m, c) - m.width
         /\ m.width \in Nat
<1>1. LcBlock \in Nat \ {0} /\ LcTile \in Nat \ {0}
  BY LcAssumption
<1>2. /\ m.width \in Nat \ {0} /\ m.tokens \in Nat
      /\ c.seqs \in Nat \ {0} /\ c.lanes \in Nat \ {0} /\ c.dp \in Nat \ {0}
  BY DEF LcCaps, LcConfs
<1>3. \A i \in Int, d \in Nat \ {0} : i \div d \in Int
  OBVIOUS
<1>4. \A i, j \in Int : i * j \in Int
  OBVIOUS
<1>5. PerLane(c) \in Int
  BY <1>2, <1>3 DEF PerLane
<1>6. Max({LcBlock, m.width}) \in Int
  <2> DEFINE x == LcBlock  y == m.width
  <2>1. x \in Int /\ y \in Int
    BY <1>1, <1>2
  <2> HIDE DEF x, y
  <2>2. Max({x, y}) \in Int
    BY <2>1, MaxOfTwo
  <2> QED BY <2>2 DEF x, y
<1>7. LcBlock * PoolBlocks(m, c) \in Int
  <2> DEFINE p == Max({LcBlock, m.width}) * PerLane(c)
             q == m.tokens + p + LcBlock - 1
  <2>1. p \in Int
    BY <1>4, <1>5, <1>6
  <2>2. PoolBlocks(m, c) = q \div LcBlock
    BY DEF PoolBlocks, Ceil
  <2> HIDE DEF p
  <2>3. q \in Int
    BY <1>1, <1>2, <2>1
  <2> HIDE DEF q
  <2>4. PoolBlocks(m, c) \in Int
    BY <1>1, <1>3, <2>2, <2>3
  <2> HIDE DEF PoolBlocks
  <2> QED BY <1>1, <1>4, <2>4
<1>8. MinLen(m) \in Nat
  <2> DEFINE q == LcTile + m.width + LcTile - 1
  <2>1. q \in Nat
    BY <1>1, <1>2
  <2>2. MinLen(m) = LcTile * (q \div LcTile)
    BY DEF MinLen, Ceil
  <2> HIDE DEF q
  <2>3. \A i \in Nat, d \in Nat \ {0} : i \div d \in Nat
    BY SMTT(30)
  <2>4. \A i, j \in Nat : i * j \in Nat
    BY SMTT(30)
  <2>5. q \div LcTile \in Nat
    BY <1>1, <2>1, <2>3
  <2> QED BY <1>1, <2>2, <2>4, <2>5
<1>9. FittedLen(m, c) = LcBlock * PoolBlocks(m, c) - m.width
  BY DEF FittedLen
<1> QED BY <1>2, <1>7, <1>8, <1>9

(* Room for a block in a context that was fitted, with nothing else changed. *)
Sized(m, a, c) ==
  LET w == [c EXCEPT !.maxLen = a.maxLen] IN
  /\ c \in LcConfs /\ Took(m, a, w) /\ ~Refused(m, w, w)
  /\ c.maxLen <= a.maxLen
  /\ IsBlock(m) => /\ c.maxLen >= MinLen(m)
                   /\ LcBlock * PoolBlocks(m, c) >= c.maxLen + m.width

(* Where a launch can be. *)
LcInvariant ==
  /\ lcCaps \in LcCaps /\ lcAsked \in LcConfs /\ lcAsked.lanes = 1 /\ BudgetsHold(lcAsked)
  /\ lcStage \in {"asked", "refused", "admitted", "refused again", "resolved", "sized", "serving"}
  /\ lcStage = "asked" => lcConf = lcAsked
  /\ lcStage = "admitted" => Took(lcCaps, lcAsked, [lcConf EXCEPT !.dp = 1]) /\ lcConf \in LcConfs
  /\ lcStage = "refused again" => lcCaps.adaptive /\ lcAsked.seqs = 1 /\ lcConf.lanes > 1
  /\ lcStage = "resolved" =>
       Took(lcCaps, lcAsked, lcConf) /\ ~Refused(lcCaps, lcConf, lcConf)
  /\ lcStage \in {"sized", "serving"} => Sized(lcCaps, lcAsked, lcConf)
  /\ lcStage = "serving" =>
       (lcConf.chunked /\ lcConf.align > 1 => StepLimit(lcConf) >= lcConf.align)

(* A context that is fitted leaves a canvas in the pool. *)
LEMMA FittedIs ==
  ASSUME NEW m, NEW a, NEW c, Took(m, a, c), ~Refused(m, c, c), NEW n \in Nat,
         n <= a.maxLen,
         IsBlock(m) => n >= MinLen(m) /\ FittedLen(m, c) >= n
  PROVE  Sized(m, a, [c EXCEPT !.maxLen = n])
<1> DEFINE d == Folded(m, a)
           e == [c EXCEPT !.maxLen = n]
           w == [e EXCEPT !.maxLen = a.maxLen]
<1>1. m \in LcCaps /\ a \in LcConfs /\ c \in LcConfs /\ Hooked(m, a, d) /\ Alike(d, c)
  BY TookIs
<1>2. c.maxLen = a.maxLen
  BY <1>1 DEF Alike, Hooked
<1>3. e \in LcConfs /\ e.maxLen = n /\ e.seqs = c.seqs /\ e.lanes = c.lanes /\ e.dp = c.dp
  BY <1>1 DEF LcConfs
<1>4. w = c
  <2>1. w = [c EXCEPT !.maxLen = c.maxLen]
    BY <1>1, <1>2 DEF LcConfs
  <2> QED BY <1>1, <2>1 DEF LcConfs
<1> HIDE DEF e
<1>5. PoolBlocks(m, e) = PoolBlocks(m, c)
  BY <1>3 DEF PoolBlocks, PerLane, Lanes
<1>6. /\ LcBlock * PoolBlocks(m, c) \in Int /\ m.width \in Nat
      /\ FittedLen(m, c) = LcBlock * PoolBlocks(m, c) - m.width
  BY <1>1, PagesAre
<1> DEFINE pages == LcBlock * PoolBlocks(m, c)
<1> HIDE DEF pages
<1>7. IsBlock(m) => n >= MinLen(m) /\ pages >= n + m.width
  BY <1>6 DEF pages
<1>8. IsBlock(m) => e.maxLen >= MinLen(m) /\ LcBlock * PoolBlocks(m, e) >= e.maxLen + m.width
  BY <1>3, <1>5, <1>7 DEF pages
<1>9. Sized(m, a, e)
  <2>1. Took(m, a, w) /\ ~Refused(m, w, w)
    BY <1>4
  <2> HIDE DEF w
  <2>2. Took(m, a, w) /\ ~Refused(m, w, w) /\ e \in LcConfs /\ e.maxLen <= a.maxLen
    BY <1>3, <2>1
  <2> QED BY <1>8, <2>2 DEF Sized, w
<1> QED BY <1>9 DEF e

(* A served launch has its room, its owners and its batch. *)
LEMMA SizedServes ==
  ASSUME NEW m, NEW c, Sized(m, lcAsked, c)
  PROVE  /\ IsBlock(m) => ~c.caching
         /\ (c.chunked /\ c.align > 1 => StepLimit(c) >= c.align) => PromptFits(m, c)
         /\ StepFits(m, c) /\ StepOwned(m, c) /\ FoldKept(m, c)
<1> DEFINE a == lcAsked  w == [c EXCEPT !.maxLen = a.maxLen]  d == Folded(m, a)
<1>1. /\ c \in LcConfs /\ Took(m, lcAsked, w) /\ ~Refused(m, w, w) /\ c.maxLen <= a.maxLen
      /\ IsBlock(m) => /\ c.maxLen >= MinLen(m)
                       /\ LcBlock * PoolBlocks(m, c) >= c.maxLen + m.width
  BY DEF Sized
<1>2. /\ w.chunked = c.chunked /\ w.batched = c.batched /\ w.scheduled = c.scheduled
      /\ w.threshold = c.threshold /\ w.align = c.align /\ w.seqs = c.seqs
      /\ w.lanes = c.lanes /\ w.dp = c.dp /\ w.async = c.async /\ w.method = c.method
      /\ w.k = c.k /\ w.caching = c.caching /\ w.rust = c.rust /\ w.canvas = c.canvas
      /\ w.scheduler = c.scheduler
  BY <1>1 DEF LcConfs
<1> HIDE DEF w
<1>3. /\ m \in LcCaps /\ a \in LcConfs /\ Hooked(m, a, d) /\ Alike(d, w)
      /\ w.method # "none" => PlanK(m, w) = w.k
  BY <1>1, TookIs
<1>4. IsBlock(m) => ~c.caching
  <2>1. ~Contradicts(m)
    BY <1>1, TookHolds
  <2> QED BY <1>2, <1>3, <2>1 DEF Contradicts, Alike, Hooked
<1>5. StepOwned(m, c)
  <2>1. StepOwned(m, w)
    BY <1>1, TookOwned
  <2> QED BY <1>2, <2>1 DEF StepOwned
<1>6. FoldKept(m, c)
  <2>1. FoldKept(m, w)
    BY <1>1, TookFolds
  <2> QED BY <1>2, <2>1 DEF FoldKept, PerLane, Lanes
<1>7. StepFits(m, c)
  <2>1. /\ IsBlock(m) => Lookahead(m, c) >= m.extent
        /\ c.method = "custom_class" => Lookahead(m, c) > c.k
    BY <1>1, <1>3, LookaheadCovers
  <2>2. c.method = "custom_class" => PlanK(m, c) = c.k
    BY <1>2, <1>3 DEF PlanK
  <2> QED BY <1>1, <2>1, <2>2 DEF StepFits
<1>8. ASSUME c.chunked /\ c.align > 1 => StepLimit(c) >= c.align
      PROVE  PromptFits(m, c)
  <2>1. /\ w.chunked => m.chunks
        /\ ~w.chunked =>
             /\ w.threshold = 0
             /\ a.chunked \/ w.scheduled = 0 => StepLimit(w) >= a.maxLen
    BY <1>1, TookPrompts
  <2>2. StepLimit(c) = StepLimit(w)
    BY <1>2 DEF StepLimit
  <2>3. CASE c.chunked
    BY <1>2, <1>8, <2>1, <2>3 DEF PromptFits
  <2>4. CASE ~c.chunked
    <3>1. c.maxLen \in Nat /\ a.maxLen \in Nat /\ c.scheduled \in Nat /\ c.batched \in Nat
      BY <1>1, <1>3 DEF LcConfs
    <3>2. StepLimit(c) = IF c.scheduled > 0 THEN c.scheduled ELSE c.batched
      BY <1>2, <2>1, <2>4 DEF StepLimit
    <3>3. StepLimit(c) \in Nat
      BY <3>1, <3>2
    <3>4. a.chunked \/ c.scheduled = 0 => StepLimit(c) >= c.maxLen
      BY <1>1, <1>2, <2>1, <2>2, <2>4, <3>1, <3>3
    <3> QED BY <1>2, <2>1, <2>4, <3>4 DEF PromptFits, a
  <2> QED BY <2>3, <2>4
<1> QED BY <1>4, <1>5, <1>6, <1>7, <1>8

(* A launch starts as it was asked for. *)
LEMMA LcInitial ==
  ASSUME LcInit
  PROVE  LcInvariant
<1>1. PICK l \in LcLaunches : BudgetsHold(l.conf) /\ lcCaps = l.caps /\ lcAsked = l.conf
                              /\ lcConf = l.conf
  BY DEF LcInit
<1>2. l.caps \in LcCaps /\ l.conf \in LcConfs /\ l.conf.lanes = 1
  BY LcAssumption
<1>3. lcStage = "asked"
  BY DEF LcInit
<1> QED BY <1>1, <1>2, <1>3 DEF LcInvariant

(* The hook is applied to what was asked for. *)
LEMMA ConfigureKeeps ==
  ASSUME LcInvariant, Configure
  PROVE  LcInvariant'
<1> DEFINE m == lcCaps  a == lcAsked
<1>1. /\ m \in LcCaps /\ a \in LcConfs /\ a.lanes = 1 /\ BudgetsHold(a) /\ lcConf = a
      /\ lcCaps' = m /\ lcAsked' = a
  BY DEF LcInvariant, Configure
<1>2. CASE Refused(m, lcConf, Folded(m, lcConf))
  <2>1. lcStage' = "refused"
    BY <1>2 DEF Configure
  <2> QED BY <1>1, <2>1 DEF LcInvariant, BudgetsHold
<1>3. CASE ~Refused(m, lcConf, Folded(m, lcConf))
  <2> DEFINE u == Updated(m, a)  c == [u EXCEPT !.dp = 1]
  <2>1. lcStage' = "admitted" /\ lcConf' = u
    BY <1>1, <1>3 DEF Configure
  <2>2. ~Refused(m, a, Folded(m, a))
    BY <1>1, <1>3
  <2>3. PairedScheduler(PublishedPlan(m, Folded(m, a))) # "refused"
    BY <2>2 DEF Refused
  <2>4. AsLeft(m, a, c) /\ u \in LcConfs
    BY <1>1, <2>3, LeftIs
  <2>5. Took(m, a, c)
    BY <1>1, <2>2, <2>4 DEF Took
  <2> HIDE DEF u
  <2>6. Took(lcCaps, lcAsked, [lcConf EXCEPT !.dp = 1])'
    BY <1>1, <2>1, <2>5
  <2> QED BY <1>1, <2>1, <2>4, <2>6 DEF LcInvariant, BudgetsHold
<1> QED BY <1>2, <1>3

(* The hook is applied to what it left. *)
LEMMA ReconfigureKeeps ==
  ASSUME LcInvariant, Reconfigure
  PROVE  LcInvariant'
<1> DEFINE m == lcCaps  a == lcAsked  c == [lcConf EXCEPT !.dp = 1]
<1>1. /\ m \in LcCaps /\ a \in LcConfs /\ a.lanes = 1 /\ BudgetsHold(a)
      /\ lcConf \in LcConfs /\ Took(m, a, c) /\ lcCaps' = m /\ lcAsked' = a
  BY DEF LcInvariant, Reconfigure
<1>2. Folded(m, c) = c /\ Updated(m, c) = c
  BY <1>1, TookIs
<1>3. CASE Refused(m, c, Folded(m, c))
  <2>1. lcStage' = "refused again" /\ lcConf' = lcConf
    BY <1>3 DEF Reconfigure
  <2>2. c.lanes = lcConf.lanes
    BY <1>1 DEF LcConfs
  <2>3. m.adaptive /\ a.seqs = 1 /\ c.lanes > 1
    BY <1>1, <1>2, <1>3, RefusedLate
  <2> HIDE DEF c
  <2> QED BY <1>1, <2>1, <2>2, <2>3 DEF LcInvariant, BudgetsHold
<1>4. CASE ~Refused(m, c, Folded(m, c))
  <2>1. lcStage' = "resolved" /\ lcConf' = c
    BY <1>2, <1>4 DEF Reconfigure
  <2>2. ~Refused(m, c, c)
    BY <1>2, <1>4
  <2> HIDE DEF c
  <2>3. (Took(lcCaps, lcAsked, lcConf) /\ ~Refused(lcCaps, lcConf, lcConf))'
    BY <1>1, <2>1, <2>2
  <2> QED BY <1>1, <2>1, <2>3 DEF LcInvariant, BudgetsHold
<1> QED BY <1>3, <1>4

(* The context is fitted to the pool. *)
LEMMA FitContextKeeps ==
  ASSUME LcInvariant, FitContext
  PROVE  LcInvariant'
<1> DEFINE m == lcCaps  a == lcAsked  c == lcConf  f == FittedLen(m, c)
<1>1. /\ m \in LcCaps /\ a \in LcConfs /\ a.lanes = 1 /\ BudgetsHold(a)
      /\ Took(m, a, c) /\ ~Refused(m, c, c) /\ lcCaps' = m /\ lcAsked' = a
  BY DEF LcInvariant, FitContext
<1>2. c \in LcConfs /\ Hooked(m, a, Folded(m, a)) /\ Alike(Folded(m, a), c)
  BY <1>1, TookIs
<1>3. c.maxLen = a.maxLen /\ a.maxLen \in Nat /\ MinLen(m) \in Nat /\ f \in Int
  <2>1. c.maxLen = a.maxLen
    BY <1>2 DEF Alike, Hooked
  <2>2. a.maxLen \in Nat
    BY <1>1 DEF LcConfs
  <2>3. MinLen(m) \in Nat /\ f \in Int
    BY <1>1, <1>2, PagesAre
  <2> QED BY <2>1, <2>2, <2>3
<1> HIDE DEF f
<1>4. CASE lcStage' = "refused"
  BY <1>1, <1>4 DEF LcInvariant, BudgetsHold
<1>5. CASE lcStage' = "sized" /\ lcConf' = c /\ (~IsBlock(m) \/ f >= c.maxLen)
  <2>1. IsBlock(m) => a.maxLen >= MinLen(m)
    <3>1. ASSUME IsBlock(m) PROVE ~(a.maxLen < MinLen(m))
      <4>1. ~BlockModelRefuses(m, a)
        BY <1>1, <3>1, TookHolds
      <4> QED BY <4>1 DEF BlockModelRefuses
    <3> QED BY <1>3, <3>1
  <2>2. Sized(m, a, [c EXCEPT !.maxLen = a.maxLen])
    BY <1>1, <1>3, <1>5, <2>1, FittedIs DEF f
  <2>3. [c EXCEPT !.maxLen = a.maxLen] = c
    <3>1. [c EXCEPT !.maxLen = a.maxLen] = [c EXCEPT !.maxLen = c.maxLen]
      BY <1>3
    <3> QED BY <1>2, <3>1 DEF LcConfs
  <2>4. Sized(m, a, c)
    BY <2>2, <2>3
  <2>5. Sized(lcCaps, lcAsked, lcConf)'
    BY <1>1, <1>5, <2>4
  <2> QED BY <1>1, <1>5, <2>5 DEF LcInvariant, BudgetsHold
<1>6. CASE /\ lcStage' = "sized" /\ lcConf' = [c EXCEPT !.maxLen = f]
           /\ f < c.maxLen /\ f >= MinLen(m)
  <2>1. f \in Nat /\ f <= a.maxLen /\ FittedLen(m, c) >= f
    BY <1>3, <1>6 DEF f
  <2>2. Sized(m, a, [c EXCEPT !.maxLen = f])
    BY <1>1, <1>6, <2>1, FittedIs
  <2>3. Sized(lcCaps, lcAsked, lcConf)'
    BY <1>1, <1>6, <2>2
  <2> QED BY <1>1, <1>6, <2>3 DEF LcInvariant, BudgetsHold
<1>7. \/ lcStage' = "refused"
      \/ lcStage' = "sized" /\ lcConf' = c /\ (~IsBlock(m) \/ f >= c.maxLen)
      \/ /\ lcStage' = "sized" /\ lcConf' = [c EXCEPT !.maxLen = f]
         /\ f < c.maxLen /\ f >= MinLen(m)
  <2>1. c.maxLen \in Nat
    BY <1>3
  <2> QED BY <1>3, <2>1 DEF FitContext, f
<1> QED BY <1>4, <1>5, <1>6, <1>7

(* The scheduler is built, and no assertion stops it. *)
LEMMA BuildSchedulerKeeps ==
  ASSUME LcInvariant, BuildScheduler
  PROVE  LcInvariant'
<1>1. /\ lcCaps \in LcCaps /\ lcAsked \in LcConfs /\ lcAsked.lanes = 1 /\ BudgetsHold(lcAsked)
      /\ Sized(lcCaps, lcAsked, lcConf)
      /\ lcCaps' = lcCaps /\ lcAsked' = lcAsked /\ lcConf' = lcConf
  BY DEF LcInvariant, BuildScheduler
<1>2. ~(IsBlock(lcCaps) /\ lcConf.caching)
  BY <1>1, SizedServes
<1>3. \/ lcStage' = "refused"
      \/ /\ lcStage' = "serving"
         /\ ~(lcConf.chunked /\ lcConf.align > 1 /\ StepLimit(lcConf) < lcConf.align)
  BY <1>2 DEF BuildScheduler
<1>4. lcConf.align \in Nat /\ StepLimit(lcConf) \in Int
  <2> DEFINE b == IF lcConf.scheduled > 0 THEN lcConf.scheduled ELSE lcConf.batched
             t == lcConf.threshold
  <2>1. b \in Nat /\ t \in Nat /\ lcConf.align \in Nat
    BY <1>1 DEF Sized, LcConfs
  <2>2. StepLimit(lcConf) = IF t > 0 THEN Min({b, t}) ELSE b
    BY DEF StepLimit
  <2> HIDE DEF b, t
  <2> QED BY <2>1, <2>2, MinOfTwo
<1>5. CASE lcStage' = "refused"
  BY <1>1, <1>5 DEF LcInvariant, BudgetsHold
<1>6. CASE /\ lcStage' = "serving"
           /\ lcConf.chunked /\ lcConf.align > 1 => StepLimit(lcConf) >= lcConf.align
  <2>1. Sized(lcCaps, lcAsked, lcConf)'
    BY <1>1
  <2>2. (lcConf.chunked /\ lcConf.align > 1 => StepLimit(lcConf) >= lcConf.align)'
    BY <1>1, <1>6 DEF StepLimit
  <2> QED BY <1>1, <1>6, <2>1, <2>2 DEF LcInvariant, BudgetsHold
<1> QED BY <1>3, <1>4, <1>5, <1>6

(* Where a launch can be holds of every launch. *)
LEMMA LaunchesAre == LcSpec => []LcInvariant
<1>1. LcInit => LcInvariant
  BY LcInitial
<1>2. LcInvariant /\ [LcNext]_lcVars => LcInvariant'
  <2> SUFFICES ASSUME LcInvariant, [LcNext]_lcVars PROVE LcInvariant'
    OBVIOUS
  <2>1. CASE Configure
    BY <2>1, ConfigureKeeps
  <2>2. CASE Reconfigure
    BY <2>2, ReconfigureKeeps
  <2>3. CASE FitContext
    BY <2>3, FitContextKeeps
  <2>4. CASE BuildScheduler
    BY <2>4, BuildSchedulerKeeps
  <2>5. CASE UNCHANGED lcVars
    <3>1. lcCaps' = lcCaps /\ lcAsked' = lcAsked /\ lcConf' = lcConf /\ lcStage' = lcStage
      BY <2>5 DEF lcVars
    <3> QED BY <3>1 DEF LcInvariant, BudgetsHold, Sized, StepLimit
  <2> QED BY <2>1, <2>2, <2>3, <2>4, <2>5 DEF LcNext
<1> QED BY <1>1, <1>2, PTL DEF LcSpec

(* A launch the front end admitted serves whatever the front end admits: for every
   model, configuration, tile and block size, the hook applied to its own output
   keeps it, no assertion of the scheduler stops it, and once it serves every
   prompt can be scheduled, every step has its pages and its one owner, and each
   rank its batch.  The one launch refused late is an adaptive model's, folded to
   lanes of one request. *)
THEOREM AdmittedLaunchServes == LcSpec => []AdmittedServes
<1>1. LcInvariant => AdmittedServes
  <2> SUFFICES ASSUME LcInvariant PROVE AdmittedServes
    OBVIOUS
  <2>1. lcStage # "asserted"
    BY DEF LcInvariant
  <2>2. lcStage = "refused again" => lcCaps.adaptive /\ lcAsked.seqs = 1 /\ lcConf.lanes > 1
    BY DEF LcInvariant
  <2>3. lcStage = "resolved" => Updated(lcCaps, lcConf) = lcConf
    <3>1. lcStage = "resolved" => Took(lcCaps, lcAsked, lcConf)
      BY DEF LcInvariant
    <3> QED BY <3>1, TookIs
  <2>4. ASSUME lcStage = "serving"
        PROVE  /\ PromptFits(lcCaps, lcConf) /\ StepFits(lcCaps, lcConf)
               /\ StepOwned(lcCaps, lcConf) /\ FoldKept(lcCaps, lcConf)
    <3>1. /\ Sized(lcCaps, lcAsked, lcConf)
          /\ lcConf.chunked /\ lcConf.align > 1 => StepLimit(lcConf) >= lcConf.align
      BY <2>4 DEF LcInvariant
    <3> QED BY <3>1, SizedServes
  <2> QED BY <2>1, <2>2, <2>3, <2>4 DEF AdmittedServes
<1> QED BY <1>1, LaunchesAre, PTL

=============================================================================
