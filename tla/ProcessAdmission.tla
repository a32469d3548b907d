-------------------------- MODULE ProcessAdmission --------------------------
(***************************************************************************)
(* The process-level admission handle of the platform: a weak reference to *)
(* the configuration whose block contract validate_request and             *)
(* get_max_output_tokens read.  Engines come and go in one process; a      *)
(* torn-down engine's configuration may survive in reference cycles until  *)
(* it is collected.  The hook clears the handle, applies the configuration *)
(* and sets the handle, and may raise on the way.                          *)
(*                                                                         *)
(* The engines, which build a configuration, run the hook on it again and  *)
(* drop it, and the collector are external.                                *)
(***************************************************************************)
EXTENDS FiniteSets

CONSTANTS
  PaConfigs,     \* configurations, each with a model
  PaBlocks       \* those of block-output models

NoConfig == "no config"

ASSUME PaAssumption == PaBlocks \subseteq PaConfigs /\ NoConfig \notin PaConfigs

VARIABLES
  paLife,        \* "unborn", "starting", "live": its engine serves, "dead":
                 \* only cycles hold it, "gone": collected
  paHandle,      \* _tt_vllm_config: the configuration it refers to
  paBusy,        \* the configuration the hook is applying
  paPrevious     \* previous_handle of that call

paVars == <<paLife, paHandle, paBusy, paPrevious>>

PaTypeOK ==
  /\ paLife \in [PaConfigs -> {"unborn", "starting", "live", "dead", "gone"}]
  /\ paHandle \in PaConfigs \cup {NoConfig}
  /\ paBusy \in PaConfigs \cup {NoConfig}
  /\ paPrevious \in PaConfigs \cup {NoConfig}

PaInit ==
  /\ paLife = [c \in PaConfigs |-> "unborn"]
  /\ paHandle = NoConfig
  /\ paBusy = NoConfig
  /\ paPrevious = NoConfig

(* A weak reference yields what is not collected, engine or not. *)
InMemory(life, c) == c # NoConfig /\ life[c] \in {"starting", "live", "dead"}

(* _resolve_tt_admission_handle, _deref_admission_handle *)
Deref(life, handle) == IF InMemory(life, handle) THEN handle ELSE NoConfig

(* gc.collect() *)
AfterCollect(life) ==
  [c \in PaConfigs |-> IF life[c] = "dead" THEN "gone" ELSE life[c]]

(* Mutant: only an engine that is itself of a block model is kept out. *)
OtherBlockOnly(c, previous) ==
  previous \notin {NoConfig, c} /\ previous \in PaBlocks /\ c \in PaBlocks

(* Another configuration, of a block model, is in memory. *)
OtherBlock(c, previous) == previous \notin {NoConfig, c} /\ previous \in PaBlocks

(* check_and_update_config up to the call that applies the configuration: c is
   new, or its engine runs the hook again.  The collector runs only when the
   guard would raise. *)
EnterHook(c) ==
  LET blocked == OtherBlock(c, Deref(paLife, paHandle))
      life == IF blocked THEN AfterCollect(paLife) ELSE paLife
  IN
  /\ paBusy = NoConfig /\ paLife[c] \in {"unborn", "live"}
  /\ IF OtherBlock(c, Deref(life, paHandle))
     THEN \* the guard raises; a new configuration is dropped
       /\ paLife' = [life EXCEPT ![c] = IF @ = "unborn" THEN "dead" ELSE @]
       /\ UNCHANGED <<paHandle, paBusy, paPrevious>>
     ELSE
       /\ paLife' = [life EXCEPT ![c] = IF @ = "unborn" THEN "starting" ELSE @]
       /\ paBusy' = c
       /\ paPrevious' = paHandle
       /\ paHandle' = NoConfig

(* Mutant: the handle stays cleared. *)
HandleLost == NoConfig

(* The snapshot a raise restores. *)
HandleRestored == paPrevious

(* _apply_check_and_update_config raised: a new engine does not start, one that
   ran the hook again may go on. *)
ApplyFails ==
  /\ paBusy # NoConfig
  /\ \/ paLife' = [paLife EXCEPT ![paBusy] = "dead"]
     \/ paLife[paBusy] = "live" /\ UNCHANGED paLife
  /\ paHandle' = HandleRestored
  /\ paBusy' = NoConfig /\ paPrevious' = NoConfig

(* The rest of the hook: a block engine does not start beside the engine the
   previous handle names. *)
LeaveHook ==
  LET Rival(life) == Deref(life, paPrevious) \notin {NoConfig, paBusy}
      guarded == paBusy \in PaBlocks /\ Rival(paLife)
      life == IF guarded THEN AfterCollect(paLife) ELSE paLife
  IN
  /\ paBusy # NoConfig
  /\ IF guarded /\ Rival(life)
     THEN /\ paLife' = [life EXCEPT ![paBusy] = "dead"]
          /\ paHandle' = paPrevious
     ELSE /\ paLife' = [life EXCEPT ![paBusy] = "live"]
          /\ paHandle' = paBusy
  /\ paBusy' = NoConfig /\ paPrevious' = NoConfig

(* An engine is torn down. *)
Teardown(c) ==
  /\ paLife[c] = "live" /\ c # paBusy
  /\ paLife' = [paLife EXCEPT ![c] = "dead"]
  /\ UNCHANGED <<paHandle, paBusy, paPrevious>>

(* The last reference to a dead configuration goes. *)
Collect(c) ==
  /\ paLife[c] = "dead"
  /\ paLife' = [paLife EXCEPT ![c] = "gone"]
  /\ UNCHANGED <<paHandle, paBusy, paPrevious>>

PaNext ==
  \/ ApplyFails \/ LeaveHook
  \/ \E c \in PaConfigs : EnterHook(c) \/ Teardown(c) \/ Collect(c)

PaSpec == PaInit /\ [][PaNext]_paVars

-----------------------------------------------------------------------------
(* Properties. *)

(* _get_block_output_contract: the engine whose contract requests are checked
   against, if it is a block model's. *)
Contract ==
  IF Deref(paLife, paHandle) \in PaBlocks THEN Deref(paLife, paHandle) ELSE NoConfig

(* Whatever engines start, fail to start, run the hook again and end around it,
   the requests of a live block engine are checked against its own contract. *)
ContractIsLive ==
  paBusy = NoConfig => \A b \in PaBlocks : paLife[b] = "live" => Contract = b

(* "A block-output engine must not START alongside" another engine: violated,
   because the handle names only the engine configured last.  Two engines of
   one-token models may share a process; when the later one ends, the handle
   names nothing, and a block engine starts beside the earlier one. *)
BlockEngineAlone ==
  paBusy = NoConfig =>
    \A b \in PaBlocks, c \in PaConfigs :
      b # c => ~(paLife[b] = "live" /\ paLife[c] = "live")

=============================================================================
