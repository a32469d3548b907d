--------------------------- MODULE ChunkedPrefill ---------------------------
(***************************************************************************)
(* A prefill step splits prompts into chunks.  The TT scheduler rounds the *)
(* end of a chunk that does not finish its request down to the alignment   *)
(* grid, so that the model resumes on its native grid; where the grid      *)
(* cannot be reached the chunk ends on a KV block, or is left for a later  *)
(* step.  Multimodal prompts are not rounded, nor is any with the grid off. *)
(*                                                                         *)
(* The walk of the base scheduler over its queues, the prefix-cache hit a  *)
(* request starts with and the preemptions are external.                   *)
(***************************************************************************)
EXTENDS Integers, FiniteSets, SequencesExt, Subsequences

CONSTANTS
  CpReqs,        \* request ids
  CpAligns,      \* prefill_chunk_alignment to consider (0 or 1: no rounding)
  CpBlock,       \* block_size
  CpLengths,     \* prompt lengths
  CpMaxTokens,   \* bound: tokens of a request, outputs included
  CpBudgets,     \* token budgets of a step to consider
  CpThresholds   \* long_prefill_token_threshold to consider (0: none)

ASSUME CpAssumption ==
  /\ CpBlock \in Nat \ {0} /\ CpAligns \subseteq Nat
  /\ CpLengths \subseteq Nat \ {0} /\ CpBudgets \subseteq Nat \ {0} /\ CpThresholds \subseteq Nat
  /\ CpMaxTokens \in Nat

VARIABLES
  cpAlign,       \* prefill_chunk_alignment
  cpBudget,      \* max_num_scheduled_tokens, or max_num_batched_tokens
  cpThreshold,   \* long_prefill_token_threshold
  cpTokens,      \* num_tokens of a request, 0 if it is not there
  cpDone,        \* num_computed_tokens
  cpFeatured,    \* requests with mm_features or encoder inputs
  cpRunning,     \* running requests with prompt left, oldest first
  cpWaiting,     \* the waiting queue
  cpIdle         \* the last step had prefill work and a whole budget, and
                 \* scheduled none of it

cpLaunch == <<cpAlign, cpBudget, cpThreshold>>
cpVars == <<cpLaunch, cpTokens, cpDone, cpFeatured, cpRunning, cpWaiting, cpIdle>>

(* _effective_prefill_step_limit, _full_step_prefill_cap *)
StepCap == IF cpThreshold > 0 THEN Min({cpBudget, cpThreshold}) ELSE cpBudget

Rounds == cpAlign > 1

CpInit ==
  /\ cpAlign \in CpAligns
  /\ cpBudget \in CpBudgets
  /\ cpThreshold \in CpThresholds
  /\ Rounds => StepCap >= cpAlign     \* _validate_prefill_chunk_alignment
  /\ cpTokens = [r \in CpReqs |-> 0]
  /\ cpDone = [r \in CpReqs |-> 0]
  /\ cpFeatured = {}
  /\ cpRunning = <<>>
  /\ cpWaiting = <<>>
  /\ cpIdle = FALSE

FloorTo(n, unit) == (n \div unit) * unit

(* Mutant: a running request that cannot reach the grid takes what is left. *)
TakeAnyEnd(tokens, start, featured, n) ==
  LET end == start + n IN
  IF ~Rounds \/ end >= tokens \/ featured THEN n
  ELSE IF FloorTo(end, cpAlign) > start THEN FloorTo(end, cpAlign) - start
  ELSE IF start # 0 THEN n
  ELSE IF n < StepCap THEN 0 ELSE n

(* _align_prefill_chunk_end: the tokens a request of so many computed gets of
   n, at least one, that it could have; a featured one is multimodal. *)
AlignedChunk(tokens, start, featured, n) ==
  LET end == start + n IN
  IF ~Rounds \/ end >= tokens \/ featured THEN n
  ELSE IF FloorTo(end, cpAlign) > start THEN FloorTo(end, cpAlign) - start
  ELSE IF start # 0 THEN Max({0, FloorTo(end, CpBlock) - start})
  ELSE IF n < StepCap THEN 0 ELSE n

(* The chunk of r in a step that has left tokens of its budget. *)
Chunk(r, left) ==
  LET wanted == cpTokens[r] - cpDone[r]
      n == Min({left, wanted, IF cpThreshold > 0 THEN cpThreshold ELSE wanted})
  IN  IF n = 0 THEN 0 ELSE AlignedChunk(cpTokens[r], cpDone[r], r \in cpFeatured, n)

(* The base scheduler goes on past a running request that gets nothing, and
   stops at the first waiting one. *)
Offered(walk, r) ==
  LET n == IF walk.stop THEN 0 ELSE Chunk(r, walk.left)
      waits == r \in ToSet(cpWaiting)
  IN  [left |-> walk.left - n,
       chunks |-> [walk.chunks EXCEPT ![r] = n],
       stop |-> walk.stop \/ (waits /\ n = 0)]

Queue == cpRunning \o cpWaiting
Walked ==
  LET walk[i \in 0 .. Len(Queue)] ==
        IF i = 0 THEN [left |-> cpBudget, chunks |-> [r \in CpReqs |-> 0], stop |-> FALSE]
        ELSE Offered(walk[i - 1], Queue[i])
  IN  walk[Len(Queue)]

(* schedule, for a step that prefills; a chunk that ends its sequence yields
   the next token. *)
PrefillStep ==
  LET chunks == Walked.chunks
      done == [r \in CpReqs |-> cpDone[r] + chunks[r]]
      unfinished == {r \in CpReqs : done[r] < cpTokens[r]}
      admitted == Within(cpWaiting, {r \in CpReqs : chunks[r] > 0})
  IN
  /\ Queue # <<>>
  /\ cpDone' = done
  /\ cpTokens' = [r \in CpReqs |->
                   IF chunks[r] > 0 /\ r \notin unfinished THEN cpTokens[r] + 1 ELSE cpTokens[r]]
  /\ cpRunning' = Within(cpRunning \o admitted, unfinished)
  /\ cpWaiting' = Within(cpWaiting, {r \in CpReqs : chunks[r] = 0})
  /\ cpIdle' = \A r \in CpReqs : chunks[r] = 0
  /\ UNCHANGED <<cpLaunch, cpFeatured>>

(* A prompt arrives; the blocks of a cache hit are computed, but one token. *)
Hits(tokens) == {h \in 0 .. tokens - 1 : h % CpBlock = 0}

NewPrompt(r, tokens, hit, featured) ==
  /\ cpTokens[r] = 0
  /\ cpTokens' = [cpTokens EXCEPT ![r] = tokens]
  /\ cpDone' = [cpDone EXCEPT ![r] = hit]
  /\ cpFeatured' = IF featured THEN cpFeatured \cup {r} ELSE cpFeatured
  /\ cpWaiting' = Append(cpWaiting, r)
  /\ cpIdle' = FALSE
  /\ UNCHANGED <<cpLaunch, cpRunning>>

Decoding == {r \in CpReqs : cpTokens[r] > 0} \ ToSet(Queue)

(* A decode appends a token; the request may end instead. *)
DecodeOne(r, ends) ==
  /\ r \in Decoding
  /\ ends \/ cpTokens[r] < CpMaxTokens
  /\ cpTokens' = [cpTokens EXCEPT ![r] = IF ends THEN 0 ELSE @ + 1]
  /\ cpDone' = [cpDone EXCEPT ![r] = IF ends THEN 0 ELSE @ + 1]
  /\ cpFeatured' = IF ends THEN cpFeatured \ {r} ELSE cpFeatured
  /\ cpIdle' = FALSE
  /\ UNCHANGED <<cpLaunch, cpRunning, cpWaiting>>

(* A preempted request computes its outputs again, from the head of the queue. *)
PreemptReq(r, hit) ==
  /\ r \in Decoding \cup ToSet(cpRunning) /\ cpTokens[r] <= CpMaxTokens
  /\ cpDone' = [cpDone EXCEPT ![r] = hit]
  /\ cpRunning' = Within(cpRunning, CpReqs \ {r})
  /\ cpWaiting' = <<r>> \o cpWaiting
  /\ cpIdle' = FALSE
  /\ UNCHANGED <<cpLaunch, cpTokens, cpFeatured>>

CpNext ==
  \/ PrefillStep
  \/ \E r \in CpReqs :
       \/ \E tokens \in CpLengths, featured \in BOOLEAN :
            \E hit \in Hits(tokens) : NewPrompt(r, tokens, hit, featured)
       \/ \E ends \in BOOLEAN : DecodeOne(r, ends)
       \/ \E hit \in Hits(cpTokens[r]) : PreemptReq(r, hit)

CpSpec == CpInit /\ [][CpNext]_cpVars

-----------------------------------------------------------------------------
(* Properties. *)

(* On a block; or, where the grid is not made of whole blocks (which nothing
   checks), on the grid. *)
OnGrid(n) == n % CpBlock = 0 \/ (cpAlign % CpBlock # 0 /\ n % cpAlign = 0)

(* A prompt whose chunks are not rounded resumes anywhere. *)
ResumesWell(r) == ~Rounds \/ r \in cpFeatured \/ OnGrid(cpDone[r])

(* Rounding chunk ends down neither stalls the engine nor leaves the model to
   resume off its grid and its KV blocks: a step that has prefill work and its
   whole budget schedules some of it, and wherever a chunk, a cache hit or a
   preemption left a prompt whose chunks are rounded, it resumes on a block
   boundary, or on the grid if that is not made of blocks. *)
ChunksAdvance ==
  /\ ~cpIdle
  /\ \A r \in ToSet(Queue) : ResumesWell(r)

=============================================================================
