----------------------------- MODULE BlockOutput -----------------------------
(***************************************************************************)
(* A scheduler that serves a block-output model.  A plain block model      *)
(* commits Width tokens on every step, serves one request at a time and is *)
(* scheduled synchronously.  An adaptive one emits a block only when it    *)
(* decodes alone for the request its single speculative session belongs    *)
(* to, and one token per request on every other step.  The scheduler       *)
(* mirrors that session to reserve the width the model will emit, and      *)
(* under asynchronous scheduling it schedules a step before the previous   *)
(* one is committed.                                                       *)
(*                                                                         *)
(* session, and the width a step emits, belong to the model and are        *)
(* external, as are the base scheduler's queues and its KV pool: a decode  *)
(* may preempt the tail of running, but never its head, because the pool   *)
(* holds one request of any length.  A step runs when it is scheduled; its *)
(* output is committed later.                                              *)
(***************************************************************************)
EXTENDS Integers, FiniteSets, SequencesExt

CONSTANTS
  Reqs,          \* request ids
  Launches,      \* the launches to consider
  Width,         \* output_tokens_per_step
  Tile,          \* _TT_TOKEN_TILE_SIZE
  MaxModelLen,   \* max_model_len
  MaxNumSeqs,    \* max_num_seqs of an adaptive launch
  Frontier,      \* tt_adaptive_block_max_prompt_tokens (0: none)
  RawPrompts,    \* prompt lengths of the requests that arrive
  RawLimits      \* their max_tokens

Plain == "plain"
AdaptiveSync == "adaptive_sync"
AdaptiveAsync == "adaptive_async"
NoReq == "none"

(* _min_block_output_max_model_len: a tile of prompt and one canvas. *)
MinMaxModelLen == ((Tile + Width + Tile - 1) \div Tile) * Tile

ASSUME LaunchAssumption ==
  /\ IsFiniteSet(Reqs) /\ NoReq \notin Reqs
  /\ Launches \subseteq {Plain, AdaptiveSync, AdaptiveAsync}
  /\ Width \in Nat \ {0, 1}
  /\ Tile \in Nat \ {0}
  /\ MaxModelLen \in Nat /\ MaxModelLen >= MinMaxModelLen
  /\ MaxNumSeqs \in Nat \ {0}
  /\ Frontier \in Nat
  /\ RawPrompts \subseteq Nat /\ RawLimits \subseteq Nat

VARIABLES
  launch,      \* the kind of launch, fixed at the start
  status,      \* where the scheduler keeps a request; "idle": not in requests
  prompt,      \* num_prompt_tokens, after the repair
  limit,       \* max_tokens, after the repair
  emitted,     \* output tokens committed
  computed,    \* num_computed_tokens
  reserved,    \* num_output_placeholders
  stale,       \* steps in flight from before a preemption
  running,     \* the running queue
  inflight,    \* steps scheduled and not committed, oldest first
  owner,       \* _spec_session_owner
  session,     \* model: the request its speculative session belongs to
  gone,        \* ended requests the model has not been told of
  fault        \* the raise the engine died on

counts == <<prompt, limit, emitted, computed, reserved, stale>>
requestVars == <<status, counts, running>>
sessionVars == <<owner, session, gone>>
vars == <<launch, requestVars, inflight, sessionVars, fault>>

Statuses == {"idle", "waiting", "running", "preempted"}
Faults == {"no_budget", "stale_block", "width_not_one", "width_not_block", "underflow"}
Zero == [r \in Reqs |-> 0]

Init ==
  /\ launch \in Launches
  /\ status = [r \in Reqs |-> "idle"]
  /\ prompt = Zero /\ limit = Zero /\ emitted = Zero
  /\ computed = Zero /\ reserved = Zero /\ stale = Zero
  /\ running = <<>>
  /\ inflight = <<>>
  /\ owner = NoReq
  /\ session = NoReq
  /\ gone = {}
  /\ fault = "none"

Adaptive == launch # Plain
RunCap == IF Adaptive THEN MaxNumSeqs ELSE 1
Depth == IF launch = AdaptiveAsync THEN 2 ELSE 1
Live == {r \in Reqs : status[r] # "idle"}
Running == ToSet(running)
InFlight(r) == Cardinality({i \in DOMAIN inflight : r \in inflight[i].rows})

-----------------------------------------------------------------------------
(* The repair of a request that skipped the frontend's validation. *)

RoundUp(n) == ((n + Tile - 1) \div Tile) * Tile
RoundDown(n) == (n \div Tile) * Tile

(* Positions left for canvases behind a prompt of p tokens. *)
Remaining(p) == RoundDown(MaxModelLen) - RoundUp(p)

(* Positions the canvases of a limit of m tokens fill: at least one canvas. *)
Physical(m) == IF m <= Width THEN Width ELSE ((m + Width - 1) \div Width) * Width

(* Mutant: the limit is compared with the room, not its canvases. *)
FittedLimitLogical(p, m) ==
  IF m <= Remaining(p) THEN m ELSE Max({0, (Remaining(p) \div Width) * Width})

(* _fit_block_output_max_tokens. *)
FittedLimit(p, m) ==
  IF Physical(m) <= Remaining(p) THEN m ELSE Max({0, (Remaining(p) \div Width) * Width})

(* The longest prompt that leaves room for one canvas. *)
LongestPrompt == RoundDown(RoundDown(MaxModelLen) - Width)

(* _pad_empty_prompt, then _truncate_overlong_prompt. *)
RepairedPrompt(p) == Min({Max({p, 1}), LongestPrompt})

(* _clamp_max_tokens_to_whole_canvases *)
ClampedLimit(p, m) == FittedLimit(RepairedPrompt(p), m)

(* add_request. *)
AddRequest(r, p, m) ==
  LET fitted == ClampedLimit(p, m) IN
  /\ status[r] = "idle" /\ r \notin gone /\ InFlight(r) = 0
  /\ IF fitted # m /\ fitted <= 0
       THEN fault' = "no_budget" /\ UNCHANGED requestVars
       ELSE /\ status' = [status EXCEPT ![r] = "waiting"]
            /\ prompt' = [prompt EXCEPT ![r] = RepairedPrompt(p)]
            /\ limit' = [limit EXCEPT ![r] = fitted]
            /\ UNCHANGED <<emitted, computed, reserved, stale, running, fault>>
  /\ UNCHANGED <<launch, inflight, sessionVars>>

-----------------------------------------------------------------------------
(* A step: the requests `rows', all decoding or all prefilling, of which
   `tokens' are scheduled, and the requests `pre' it preempts. *)

Decodes(r) == computed[r] >= prompt[r]
Solo(rows) == Cardinality(rows) = 1

(* Mutant: the frontier is measured on the prompt alone. *)
FrontierOkPrompt(r, measured) == Frontier = 0 \/ prompt[r] <= Frontier

(* _spec_frontier_ok, on the tokens computed including this step's. *)
FrontierOk(r, measured) == Frontier = 0 \/ measured <= Frontier

(* _mirror_spec_session: the owner after this step. *)
MirroredOwner(rows, tokens) ==
  LET held == IF owner \in Live THEN owner ELSE NoReq IN
  IF rows = {} THEN held
  ELSE IF ~Solo(rows) THEN NoReq
  ELSE LET r == CHOOSE r \in rows : TRUE IN
       IF Decodes(r) THEN IF r = held THEN held ELSE NoReq
       ELSE IF FrontierOk(r, computed[r] + tokens[r]) THEN r ELSE NoReq

(* External: the session after the model served this step.  It has released
   the ended and the preempted before. *)
ServedSession(rows, tokens, pre) ==
  LET held == IF session \in gone \cup pre THEN NoReq ELSE session IN
  IF rows = {} THEN held
  ELSE IF Cardinality(rows) # 1 THEN NoReq
  ELSE LET r == CHOOSE r \in rows : TRUE IN
       IF Decodes(r) THEN IF r = held THEN held ELSE NoReq
       ELSE IF Frontier = 0 \/ computed[r] + tokens[r] <= Frontier THEN r ELSE NoReq

(* External: how many tokens the model returns for a row. *)
ServedWidth(r, rows) ==
  IF ~Adaptive THEN Width
  ELSE IF rows = {r} /\ Decodes(r) /\ session' = r THEN Width ELSE 1

(* The decision recorded for a row. *)
BlockStep(r, rows) == ~Adaptive \/ (Solo(rows) /\ Decodes(r) /\ owner' = r)

(* _update_after_schedule, once the base class has advanced the requests. *)
Submit(rows, tokens, pre) ==
  /\ owner' = IF Adaptive THEN MirroredOwner(rows, tokens) ELSE owner
  /\ session' = IF Adaptive THEN ServedSession(rows, tokens, pre) ELSE session
  /\ gone' = {}
  /\ computed' = [r \in Reqs |-> IF r \in pre THEN 0 ELSE computed[r] + tokens[r]]
  /\ reserved' = [r \in Reqs |-> IF r \in pre THEN 0
                                 ELSE IF r \notin rows THEN reserved[r]
                                 ELSE reserved[r] + (IF BlockStep(r, rows) THEN Width ELSE 1)]
  /\ inflight' = IF rows = {} THEN inflight
                 ELSE Append(inflight,
                        [rows  |-> rows,
                         block |-> {r \in rows : BlockStep(r, rows)},
                         width |-> [r \in rows |-> ServedWidth(r, rows)]])

Orders(S) == {s \in [1 .. Cardinality(S) -> S] : IsInjective(s)}

(* A prefill step admits some of the waiting.  Prompts are not split, and a
   request resumes once its late outputs have arrived. *)
SchedulePrefill(adm) ==
  /\ Len(inflight) < Depth
  /\ adm # {} /\ \A r \in adm : status[r] \in {"waiting", "preempted"} /\ stale[r] = 0
  /\ Len(running) + Cardinality(adm) <= RunCap
  /\ status' = [r \in Reqs |-> IF r \in adm THEN "running" ELSE status[r]]
  /\ \E s \in Orders(adm) : running' = running \o s
  /\ Submit(adm, [r \in Reqs |-> IF r \in adm THEN prompt[r] + emitted[r] ELSE 0], {})
  /\ UNCHANGED <<launch, prompt, limit, emitted, stale, fault>>

(* What a decode would compute of r: the tokens it has or is owed. *)
DecodeTokens(r) ==
  Min({prompt[r] + emitted[r] + reserved[r] - computed[r], MaxModelLen - 1 - computed[r]})

(* Left out: the step in flight certainly reaches max_tokens. *)
ReachesLimit(r) ==
  reserved[r] > 0 /\ computed[r] + 2 - reserved[r] >= prompt[r] + limit[r]

(* How much of running a decode keeps: the pool holds its head in any case. *)
MayKeep(kept) == kept \in 0 .. Len(running) /\ (kept = 0 => running = <<>>)

ScheduleDecode(kept) ==
  LET pre  == {running[i] : i \in kept + 1 .. Len(running)}
      rows == {r \in Running \ pre : ~ReachesLimit(r) /\ DecodeTokens(r) > 0}
  IN
  /\ Len(inflight) < Depth
  /\ MayKeep(kept)
  /\ rows \cup pre \cup gone # {}
  /\ status' = [r \in Reqs |-> IF r \in pre THEN "preempted" ELSE status[r]]
  /\ running' = SubSeq(running, 1, kept)
  /\ stale' = [r \in Reqs |-> IF r \in pre THEN InFlight(r) ELSE stale[r]]
  /\ Submit(rows, [r \in Reqs |-> IF r \in rows THEN DecodeTokens(r) ELSE 0], pre)
  /\ UNCHANGED <<launch, prompt, limit, emitted, fault>>

-----------------------------------------------------------------------------
(* A step's output comes back. *)

(* The queue without the requests of S, in the order it was. *)
Without(queue, S) ==
  LET kept == {i \in DOMAIN queue : queue[i] \notin S}
      Increasing(at) == \A i, j \in DOMAIN at : i < j => at[i] < at[j]
  IN  {[i \in DOMAIN at |-> queue[at[i]]] :
         at \in {at \in [1 .. Cardinality(kept) -> kept] : Increasing(at)}}

(* Requests of S end: the scheduler forgets them. *)
Ended(f, S, value) == [r \in Reqs |-> IF r \in S THEN value ELSE f[r]]
EndRequests(S, emittedNow, reservedNow, staleNow) ==
  /\ status' = Ended(status, S, "idle")
  /\ prompt' = Ended(prompt, S, 0)
  /\ limit' = Ended(limit, S, 0)
  /\ computed' = Ended(computed, S, 0)
  /\ emitted' = Ended(emittedNow, S, 0)
  /\ reserved' = Ended(reservedNow, S, 0)
  /\ stale' = Ended(staleNow, S, 0)
  /\ running' \in Without(running, S)
  /\ gone' = gone \cup S

(* Mutant: the decision of the last schedule is read. *)
CommittedAsBlockLast(r) ==
  LET with == {i \in DOMAIN inflight : r \in inflight[i].rows} IN
  r \in inflight[Max(with)].block

(* The decision carried by the step being committed. *)
CommittedAsBlock(r) == r \in Head(inflight).block

(* The raises of _update_request_with_output, in the order of its checks. *)
CommitFault(r) ==
  LET width == Head(inflight).width[r] IN
  IF ~CommittedAsBlock(r) THEN IF width # 1 THEN "width_not_one" ELSE "none"
  ELSE IF stale[r] > 0 THEN "stale_block"
  ELSE IF width # Width THEN "width_not_block"
  ELSE IF reserved[r] < Width THEN "underflow" ELSE "none"

(* Tokens appended before a stop trims the block. *)
Appended(r) ==
  Min({Head(inflight).width[r], Max({1, limit[r] - emitted[r]}),
       MaxModelLen - prompt[r] - emitted[r]})

(* Mutant: the base class's accounting, one placeholder per step. *)
ReconciledOne(r) == 1

(* Placeholders a commit consumes: all that the step reserved. *)
Reconciled(r) == IF CommittedAsBlock(r) THEN Width ELSE 1

(* update_from_output for the oldest step; the model may emit a stop token
   for any request.  A result for a request that ended is dropped. *)
Commit(eos) ==
  LET rows == Head(inflight).rows \cap Live
      now  == [r \in Reqs |-> IF r \in rows THEN emitted[r] + Appended(r) ELSE emitted[r]]
      done == eos \cup {r \in rows : now[r] >= limit[r] \/ prompt[r] + now[r] >= MaxModelLen}
      bad  == {r \in rows : CommitFault(r) # "none"}
  IN
  /\ inflight # <<>>
  /\ eos \subseteq rows
  /\ \/ /\ \E r \in bad : fault' = CommitFault(r)
        /\ UNCHANGED <<requestVars, inflight, gone>>
     \/ /\ bad = {}
        /\ EndRequests(done, now,
             [r \in Reqs |-> IF r \in rows /\ stale[r] = 0
                             THEN reserved[r] - Reconciled(r) ELSE reserved[r]],
             [r \in Reqs |-> IF r \in rows /\ stale[r] > 0 THEN stale[r] - 1 ELSE stale[r]])
        /\ inflight' = Tail(inflight)
        /\ UNCHANGED fault
  /\ UNCHANGED <<launch, owner, session>>

(* Client aborts, and a cache reset asked of the engine: since a block cannot
   be resumed, reset_prefix_cache_tt aborts all that runs. *)
FinishRequests(S) ==
  /\ S # {} /\ S \subseteq Live
  /\ Cardinality(S) = 1 \/ S = Running
  /\ EndRequests(S, emitted, reserved, stale)
  /\ UNCHANGED <<launch, inflight, owner, session, fault>>

Next ==
  /\ fault = "none"
  /\ \/ \E r \in Reqs, p \in RawPrompts, m \in RawLimits : AddRequest(r, p, m)
     \/ \E adm \in SUBSET Reqs : SchedulePrefill(adm)
     \/ \E kept \in 0 .. Len(running) : ScheduleDecode(kept)
     \/ \E eos \in SUBSET Reqs : Commit(eos)
     \/ \E S \in SUBSET Reqs : FinishRequests(S)

Spec == Init /\ [][Next]_vars

-----------------------------------------------------------------------------
(* Properties. *)

Positions == 0 .. MaxModelLen + 2 * Width

TypeOK ==
  /\ launch \in Launches
  /\ status \in [Reqs -> Statuses]
  /\ {prompt, limit, emitted, computed, reserved} \subseteq [Reqs -> Positions]
  /\ stale \in [Reqs -> 0 .. Depth]
  /\ Running = {r \in Reqs : status[r] = "running"} /\ IsInjective(running)
  /\ Len(inflight) <= Depth
  /\ owner \in Reqs \cup {NoReq} /\ session \in Reqs \cup {NoReq}
  /\ gone \subseteq Reqs
  /\ fault \in Faults \cup {"none"}

(* The engine never dies in _update_request_with_output or in the clamp of
   add_request: whatever was scheduled, preempted and ended since, the width
   the model returns is the one the step's own decision reserved, and no
   block outlives a preemption of its request. *)
NoFault == fault = "none"

(* The tokens the model will return for r from its i-th step in flight. *)
Owed(r, i) ==
  IF i \in DOMAIN inflight /\ r \in inflight[i].rows THEN inflight[i].width[r] ELSE 0

(* A running request's placeholders are the tokens the model owes it for the
   steps in flight, two at most, trimmed blocks and cancelled neighbours
   included. *)
ReservedIsOwed ==
  \A r \in Running : reserved[r] = Owed(r, 1) + Owed(r, 2)

(* For a request that decodes, the scheduler's mirror and the model agree on
   whether it owns the session, although they learn of ends and preemptions
   at different times. *)
MirrorAgrees ==
  \A r \in Running : owner = r <=> session = r

(* A canvas of a plain block model lies within the model's length: the
   repaired prompt and limit leave room for the last canvas whole. *)
CanvasFits ==
  launch = Plain => \A i \in DOMAIN inflight : \A r \in inflight[i].rows \cap Live :
    RoundUp(prompt[r]) + emitted[r] + Width <= RoundDown(MaxModelLen)

=============================================================================
