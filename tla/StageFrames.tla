---------------------------- MODULE StageFrames ----------------------------
(***************************************************************************)
(* A pipeline-stage model completes a stage frame in each decode step of a *)
(* request.  A preempted request would be prefilled again from its tokens, *)
(* without the frames it already emitted, so such a request must never be  *)
(* preempted: the KV pool is refused unless it holds every sequence, the   *)
(* split schedule respects the running cap, and a cache reset aborts the   *)
(* running requests or is refused.  The runner raises on what gets past.   *)
(*                                                                         *)
(* Launches of these models are synchronous (LaunchConfig).  The base      *)
(* scheduler's walk and its block allocation are external; a preemption    *)
(* ends the run, since the runner raises when the step reports it.         *)
(***************************************************************************)
EXTENDS Integers, FiniteSets, SequencesExt, Subsequences

CONSTANTS
  SfReqs,         \* request ids
  SfMaxNumSeqs,   \* max_num_seqs
  SfMaxLen,       \* max_model_len
  SfBlock,        \* block_size
  SfBudget,       \* max_num_batched_tokens
  SfPrompts,      \* prompt lengths
  SfPools         \* num_blocks of the KV pools to consider

ASSUME SfAssumption ==
  /\ SfMaxNumSeqs \in Nat \ {0} /\ SfBlock \in Nat \ {0}
  /\ SfBudget \in Nat /\ SfBudget >= SfMaxNumSeqs
  /\ SfMaxLen \in Nat /\ SfPrompts \subseteq 1 .. SfMaxLen - 1 /\ SfPools \subseteq Nat

VARIABLES
  sfPool,      \* num_blocks
  sfNotifies,  \* the engine has _send_abort_outputs (EngineCoreProc)
  sfPrompt,    \* num_prompt_tokens of a request, 0 if it is not there
  sfTokens,    \* its num_tokens
  sfDone,      \* its num_computed_tokens
  sfFrames,    \* the frame indices published for it, in order
  sfRunning,   \* the running queue
  sfWaiting,   \* the waiting queue
  sfPaused,    \* pause_state is PAUSED_ALL
  sfReported,  \* a reset preempted: the next step reports it
  sfRaised,    \* the runner raised on a preemption
  sfLost       \* a request was removed and its client not told

sfVars == <<sfPool, sfNotifies, sfPrompt, sfTokens, sfDone, sfFrames, sfRunning, sfWaiting,
            sfPaused, sfReported, sfRaised, sfLost>>
sfRequests == <<sfPrompt, sfTokens, sfDone, sfFrames>>

BlocksFor(tokens) == (tokens + SfBlock - 1) \div SfBlock

(* Mutant: block 0, the null block, is counted as usable. *)
PoolHoldsWithNull(pool) == pool >= SfMaxNumSeqs * BlocksFor(SfMaxLen)

(* _require_kv_for_every_sequence *)
PoolHolds(pool) == pool - 1 >= SfMaxNumSeqs * BlocksFor(SfMaxLen)

SfInit ==
  /\ sfPool \in {p \in SfPools : PoolHolds(p)}
  /\ sfNotifies \in BOOLEAN
  /\ sfPrompt = [r \in SfReqs |-> 0]
  /\ sfTokens = [r \in SfReqs |-> 0]
  /\ sfDone = [r \in SfReqs |-> 0]
  /\ sfFrames = [r \in SfReqs |-> <<>>]
  /\ sfRunning = <<>> /\ sfWaiting = <<>>
  /\ sfPaused = FALSE /\ sfReported = FALSE /\ sfRaised = FALSE /\ sfLost = FALSE

(* is_prefill_chunk of a running request *)
Partial(r) == sfDone[r] < sfPrompt[r]
PureDecode(r) == ~Partial(r)
PartialPrefills == Within(sfRunning, {r \in SfReqs : Partial(r)})
PureDecodes == Within(sfRunning, {r \in SfReqs : PureDecode(r)})

(* The KV blocks the running requests hold, numbered in each of them. *)
HeldBlocks == UNION {{r} \X (1 .. BlocksFor(sfDone[r])) : r \in ToSet(sfRunning)}
Free == sfPool - 1 - Cardinality(HeldBlocks)

(* One request of the base scheduler's walk: a running request that finds no
   block has one preempted, a waiting one ends the walk, as does the cap on
   active requests. *)
Visited(walk, r, waits, cap) ==
  LET n == Min({walk.left, sfTokens[r] - sfDone[r]})
      need == BlocksFor(sfDone[r] + n) - BlocksFor(sfDone[r])
  IN  IF walk.stop \/ n = 0 \/ (waits /\ (walk.active >= cap \/ need > walk.free))
      THEN [walk EXCEPT !.stop = @ \/ waits]
      ELSE IF need > walk.free THEN [walk EXCEPT !.stop = TRUE, !.preempts = TRUE]
      ELSE [walk EXCEPT !.free = @ - need, !.left = @ - n, !.chunks[r] = n,
                        !.active = IF waits THEN @ + 1 ELSE @]

(* A step of it over the queues it is shown. *)
Allocated(running, waiting, cap) ==
  LET queue == running \o waiting
      walk[i \in 0 .. Len(queue)] ==
        IF i = 0 THEN [free |-> Free, left |-> SfBudget, chunks |-> [r \in SfReqs |-> 0],
                       active |-> Len(running), stop |-> FALSE, preempts |-> FALSE]
        ELSE Visited(walk[i - 1], queue[i], i > Len(running), cap)
  IN  walk[Len(queue)]

(* Mutant: the running cap is not lowered by the decodes hidden from it. *)
FullCap == SfMaxNumSeqs

(* The running caps while _schedule_prefill_only hides the decodes. *)
PrefillCap == Max({0, SfMaxNumSeqs - Len(PureDecodes)})

(* Mutant: the position after the step. *)
NextFrameIndex(r) == sfDone[r] + 1 - sfPrompt[r]

(* pop_tt_stage_outputs: from the decode position and the prompt's length. *)
FrameIndex(r) == sfDone[r] - sfPrompt[r]

(* Requests that leave. *)
Settled(gone, prompt, tokens, done, frames, running) ==
  /\ sfPrompt' = [r \in SfReqs |-> IF r \in gone THEN 0 ELSE prompt[r]]
  /\ sfTokens' = [r \in SfReqs |-> IF r \in gone THEN 0 ELSE tokens[r]]
  /\ sfDone' = [r \in SfReqs |-> IF r \in gone THEN 0 ELSE done[r]]
  /\ sfFrames' = [r \in SfReqs |-> IF r \in gone THEN <<>> ELSE frames[r]]
  /\ sfRunning' = Within(running, SfReqs \ gone)

(* The runner's part of a step and update_from_output: a request computed to
   its end has a new token and may stop, a decode row a frame besides. *)
Execute(walk, decodes, running, stops) ==
  LET done == [r \in SfReqs |-> sfDone[r] + walk.chunks[r]]
      produced == {r \in SfReqs : walk.chunks[r] > 0 /\ done[r] = sfTokens[r]}
      tokens == [r \in SfReqs |-> IF r \in produced THEN sfTokens[r] + 1 ELSE sfTokens[r]]
      frames == [r \in SfReqs |->
                  IF r \in decodes /\ walk.chunks[r] > 0 THEN Append(sfFrames[r], FrameIndex(r))
                  ELSE sfFrames[r]]
  IN
  IF walk.preempts \/ sfReported
  THEN /\ sfRaised' = TRUE
       /\ stops = {}
       /\ UNCHANGED <<sfRequests, sfRunning, sfWaiting>>
  ELSE /\ stops \subseteq produced
       /\ Settled(stops \cup {r \in produced : tokens[r] >= SfMaxLen},
               sfPrompt, tokens, done, frames, running)
       /\ sfWaiting' = Within(sfWaiting, {r \in SfReqs : walk.chunks[r] = 0})
       /\ UNCHANGED sfRaised

PrefillWalk == Allocated(PartialPrefills, sfWaiting, PrefillCap)
Unscheduled(walk) == ~walk.preempts /\ \A r \in SfReqs : walk.chunks[r] = 0
PendingPrefill == sfWaiting # <<>> \/ PartialPrefills # <<>>

(* _schedule_prefill_only *)
StagePrefill(stops) ==
  LET admitted == Within(sfWaiting, {r \in SfReqs : PrefillWalk.chunks[r] > 0}) IN
  /\ ~sfPaused /\ PendingPrefill
  /\ Unscheduled(PrefillWalk) => PureDecodes = <<>>
  /\ Execute(PrefillWalk, {}, PartialPrefills \o admitted \o PureDecodes, stops)
  /\ UNCHANGED <<sfPool, sfNotifies, sfPaused, sfReported, sfLost>>

(* _schedule_decode_only, or a step without pending prefill; with prefill
   pending it is the interleave policy's turn, or prefill found no room. *)
StageDecode(stops) ==
  /\ ~sfPaused /\ PureDecodes # <<>>
  /\ Execute(Allocated(PureDecodes, <<>>, SfMaxNumSeqs), ToSet(PureDecodes),
             PureDecodes \o PartialPrefills, stops)
  /\ UNCHANGED <<sfPool, sfNotifies, sfPaused, sfReported, sfLost>>

NewStageRequest(r, tokens) ==
  /\ sfPrompt[r] = 0
  /\ sfPrompt' = [sfPrompt EXCEPT ![r] = tokens]
  /\ sfTokens' = [sfTokens EXCEPT ![r] = tokens]
  /\ sfWaiting' = Append(sfWaiting, r)
  /\ UNCHANGED <<sfPool, sfNotifies, sfDone, sfFrames, sfRunning, sfPaused, sfReported,
                 sfRaised, sfLost>>

(* Its client aborts a request. *)
AbortStageRequest(r) ==
  /\ sfPrompt[r] > 0
  /\ Settled({r}, sfPrompt, sfTokens, sfDone, sfFrames, sfRunning)
  /\ sfWaiting' = Within(sfWaiting, SfReqs \ {r})
  /\ UNCHANGED <<sfPool, sfNotifies, sfPaused, sfReported, sfRaised, sfLost>>

(* Mutant: aborts also where the engine cannot tell the clients. *)
AbortsAlways == ~sfPaused

(* reset_prefix_cache_tt aborts the running requests first. *)
EngineAborts == sfNotifies /\ ~sfPaused

(* Mutant: only a paused scheduler refuses. *)
RefusesWhenPaused(running) == running # <<>> /\ sfPaused

(* The guard of TTScheduler.reset_prefix_cache: False or a raise. *)
RefusesReset(running) == running # <<>>

(* A reset that may preempt running requests, by a client or by the idle
   callback of a pause that clears the cache. *)
ResetStageCache ==
  LET left == IF EngineAborts THEN <<>> ELSE sfRunning
      aborted == ToSet(sfRunning) \ ToSet(left)
      preempted == IF RefusesReset(left) THEN <<>> ELSE left
  IN
  /\ Settled(aborted, sfPrompt, sfTokens,
          [r \in SfReqs |-> IF r \in ToSet(preempted) THEN 0 ELSE sfDone[r]],
          sfFrames, IF preempted = <<>> THEN left ELSE <<>>)
  /\ sfWaiting' = preempted \o sfWaiting
  /\ sfReported' = (sfReported \/ preempted # <<>>)
  /\ sfLost' = (sfLost \/ (aborted # {} /\ ~sfNotifies))
  /\ UNCHANGED <<sfPool, sfNotifies, sfPaused, sfRaised>>

(* pause_scheduler with mode "keep": refused if it would clear the cache of
   running requests. *)
KeepPause(clears) ==
  /\ ~sfPaused /\ ~(clears /\ sfRunning # <<>>)
  /\ sfPaused' = TRUE
  /\ UNCHANGED <<sfPool, sfNotifies, sfRequests, sfRunning, sfWaiting, sfReported, sfRaised,
                 sfLost>>

(* resume_scheduler *)
ResumeStage ==
  /\ sfPaused /\ sfPaused' = FALSE
  /\ UNCHANGED <<sfPool, sfNotifies, sfRequests, sfRunning, sfWaiting, sfReported, sfRaised,
                 sfLost>>

SfNext ==
  /\ ~sfRaised
  /\ \/ \E stops \in SUBSET SfReqs : StagePrefill(stops) \/ StageDecode(stops)
     \/ \E r \in SfReqs :
          \/ \E tokens \in SfPrompts : NewStageRequest(r, tokens)
          \/ AbortStageRequest(r)
     \/ \E clears \in BOOLEAN : KeepPause(clears)
     \/ ResetStageCache
     \/ ResumeStage

SfSpec == SfInit /\ [][SfNext]_sfVars

-----------------------------------------------------------------------------
(* Properties. *)

(* A request that cannot resume is never preempted: whatever mixture of
   partial prefills and hidden decodes fills the pool, and wherever a reset
   or a pause falls, the runner does not raise, each output token after the
   first has brought its client the next stage frame, and no client waits
   for a request that a reset removed. *)
FramesUnbroken ==
  /\ ~sfRaised /\ ~sfLost
  /\ \A r \in SfReqs : sfDone[r] >= sfPrompt[r] =>
       sfFrames[r] = [i \in 1 .. sfDone[r] - sfPrompt[r] |-> i - 1]

=============================================================================
