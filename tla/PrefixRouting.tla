---------------------------- MODULE PrefixRouting ----------------------------
(***************************************************************************)
(* The routing of new requests to data-parallel engines by what each was   *)
(* sent.  The front end cannot read the engines' prefix caches: a mirror   *)
(* records which engine every prompt block was dispatched to, forgets the  *)
(* oldest blocks and is cleared when the engines reset their caches.  A    *)
(* request is pinned to the engine that holds most of its prompt, unless   *)
(* that engine is full or the prefill queued there costs more.             *)
(*                                                                         *)
(* A block is named by the prompt prefix it ends, as the hash chain does.  *)
(* The balancer, its counts of each engine and the engines are external: so *)
(* are the index its scan starts at and what KV usage adds to a load score. *)
(***************************************************************************)
EXTENDS Integers, FiniteSets, SequencesExt, Subsequences

CONSTANTS
  PrReqs,        \* request ids
  PrEngines,     \* number of engines
  PrSize,        \* tokens of a block
  PrPrompts,     \* full blocks of the prompts, as strings of (numbered) contents
  PrTail,        \* tokens of a prompt behind its last full block
  PrCapacity,    \* max_blocks
  PrSlots,       \* max_num_seqs of an engine
  PrPressures    \* what KV usage may add to a load score, to consider

Engines == 1 .. PrEngines
Caller == 0      \* no data_parallel_rank from the caller

ASSUME PrAssumption ==
  /\ PrEngines \in Nat \ {0} /\ PrSize \in Nat \ {0} /\ PrCapacity \in Nat \ {0}
  /\ PrTail \in 0 .. PrSize - 1 /\ IsFiniteSet(PrReqs) /\ PrSlots \in Nat
  /\ PrPrompts \subseteq Seq(Nat) /\ PrPressures \subseteq Nat
  /\ PrTail = 0 => <<>> \notin PrPrompts     \* no prompt is empty

VARIABLES
  prMirror,      \* _engines_by_block, oldest first: [block, at]
  prDispatched,  \* _dispatched, in dispatch order; reusable is history
  prFlight,      \* per request: its engine and phase, or Idle
  prCounts,      \* lb_engines: the balancer's snapshot of each engine
  prSent         \* history: blocks each engine was sent since the last reset

prVars == <<prMirror, prDispatched, prFlight, prCounts, prSent>>

Idle == [at |-> 0, phase |-> "idle"]

PrInit ==
  /\ prMirror = <<>>
  /\ prDispatched = <<>>
  /\ prFlight = [r \in PrReqs |-> Idle]
  /\ prCounts = [e \in Engines |-> [waiting |-> 0, running |-> 0]]
  /\ prSent = [e \in Engines |-> {}]

InFlightAt(e) == Cardinality({r \in PrReqs : prFlight[r].at = e})
PromptTokens(p) == PrSize * Len(p) + PrTail

(* block_hashes: the prefixes the full blocks of a prompt end. *)
Blocks(p) == [i \in DOMAIN p |-> SubSeq(p, 1, i)]

-----------------------------------------------------------------------------
(* The mirror. *)

HeldAt(block) == UNION {prMirror[i].at : i \in {j \in DOMAIN prMirror : prMirror[j].block = block}}

(* Mutant: a block counts for every engine once any was sent it. *)
HeldByAny(e) == {prMirror[i].block : i \in DOMAIN prMirror}

HeldBy(e) == {prMirror[i].block : i \in {j \in DOMAIN prMirror : e \in prMirror[j].at}}

(* The run of leading blocks that are held. *)
LeadingRun(p, held) == Max({n \in 0 .. Len(p) : \A i \in 1 .. n : Blocks(p)[i] \in held})

(* cached_tokens: at least one token is left to compute. *)
CachedTokens(p, e) == Min({PrSize * LeadingRun(p, HeldBy(e)), PromptTokens(p) - 1})

(* What e could reuse of the prompt, were it to keep everything it was sent. *)
SentTokens(p, e) == PrSize * LeadingRun(p, prSent[e])

(* record: a recorded block becomes the newest, and the oldest are dropped. *)
Recorded(p, e) ==
  LET old == Picked(prMirror, {i \in DOMAIN prMirror : prMirror[i].block \notin ToSet(Blocks(p))})
      new == [i \in DOMAIN p |-> [block |-> Blocks(p)[i], at |-> HeldAt(Blocks(p)[i]) \cup {e}]]
      all == old \o new
  IN  SubSeq(all, Max({1, Len(all) - PrCapacity + 1}), Len(all))

(* queued_prefill_tokens: what the newest requests of the engine, as many as
   the snapshot says wait there, had to compute when they were routed. *)
QueuedTokens(e) ==
  LET own == Picked(prDispatched, {i \in DOMAIN prDispatched : prDispatched[i].engine = e})
      n == Min({prCounts[e].waiting, Len(own)})
  IN  FoldSeq(LAMBDA d, sum : d.uncached + sum, 0, SubSeq(own, Len(own) - n + 1, Len(own)))

-----------------------------------------------------------------------------
(* The choice. *)

(* _occupancy *)
Occupancy(e) == Max({InFlightAt(e), prCounts[e].waiting + prCounts[e].running})
IsFull(e) == Occupancy(e) >= PrSlots

(* What a choice takes from the balancer: where its scan starts (eng_start_index),
   and the KV term of each engine's score. *)
Balances == [start : Engines, pressure : [Engines -> PrPressures]]

(* _upstream_load: the scores, and the first least of them in scan order. *)
Load(e, balance) == Occupancy(e) + IF prCounts[e].waiting > 0 THEN balance.pressure[e] ELSE 0
ScanPlace(e, balance) == (e + PrEngines - balance.start) % PrEngines
Least(balance) == CHOOSE e \in Engines : \A f \in Engines :
  \/ Load(e, balance) < Load(f, balance)
  \/ Load(e, balance) = Load(f, balance) /\ ScanPlace(e, balance) <= ScanPlace(f, balance)

(* max over (hits, less loaded, lower index) *)
Holder(hits, balance) == CHOOSE e \in Engines : \A f \in Engines :
  \/ hits[e] > hits[f]
  \/ hits[e] = hits[f] /\ Load(e, balance) < Load(f, balance)
  \/ hits[e] = hits[f] /\ Load(e, balance) = Load(f, balance) /\ e <= f

(* pick_prefix_cache_target *)
Target(hits, balance) ==
  LET e == Holder(hits, balance)
      least == Least(balance)
      extra == hits[e] - hits[least]
      ahead == QueuedTokens(e) - QueuedTokens(least)
  IN  IF extra > 0 /\ (IsFull(e) => IsFull(least)) /\ ahead <= extra THEN e ELSE least

(* The caller's rank, or what the choice comes to with any of its balances. *)
Targets(pinned, hits) ==
  IF pinned # Caller THEN {pinned} ELSE {Target(hits, balance) : balance \in Balances}

(* route_dp_request: pinned is the caller's rank or Caller; a request that
   reads no cache gets no credit, but is recorded.  Every path counts the
   request as waiting at its engine. *)
Route(r, p, pinned, reads) ==
  LET hits == [e \in Engines |-> IF reads THEN CachedTokens(p, e) ELSE 0] IN
  /\ prFlight[r] = Idle
  /\ \E e \in Targets(pinned, hits) :
       /\ prFlight' = [prFlight EXCEPT ![r] = [at |-> e, phase |-> "waiting"]]
       /\ prCounts' = IF pinned = Caller THEN [prCounts EXCEPT ![e].waiting = @ + 1] ELSE prCounts
       /\ prMirror' = Recorded(p, e)
       /\ prDispatched' = Append(prDispatched,
            [req |-> r, engine |-> e, uncached |-> PromptTokens(p) - hits[e],
             tokens |-> PromptTokens(p), reusable |-> IF reads THEN SentTokens(p, e) ELSE 0])
       /\ prSent' = [prSent EXCEPT ![e] = @ \cup ToSet(Blocks(p))]

(* Mutant: the requests in flight keep the credit of the caches that are gone. *)
CreditKept(d) == d

(* clear: a request that has yet to prefill computes its whole prompt. *)
CreditDropped(d) == [d EXCEPT !.uncached = d.tokens]

(* reset_prefix_cache_async clears the mirror first. *)
Reset ==
  /\ prMirror' = <<>>
  /\ prDispatched' = [i \in DOMAIN prDispatched |->
                       [CreditDropped(prDispatched[i]) EXCEPT !.reusable = 0]]
  /\ prSent' = [e \in Engines |-> {}]
  /\ UNCHANGED <<prFlight, prCounts>>

(* The engine runs a request. *)
Run(r) ==
  LET mates == {q \in PrReqs : prFlight[q].at = prFlight[r].at /\ prFlight[q].phase = "running"} IN
  /\ prFlight[r].phase = "waiting" /\ Cardinality(mates) < PrSlots
  /\ prFlight' = [prFlight EXCEPT ![r].phase = "running"]
  /\ UNCHANGED <<prMirror, prDispatched, prCounts, prSent>>

(* A request ends.  forget_finished drops its record before the next is routed,
   so before anything reads it. *)
Leave(r) ==
  /\ prFlight[r] # Idle
  /\ prFlight' = [prFlight EXCEPT ![r] = Idle]
  /\ prDispatched' = Picked(prDispatched, {i \in DOMAIN prDispatched : prDispatched[i].req # r})
  /\ UNCHANGED <<prMirror, prCounts, prSent>>

(* The coordinator publishes every engine's counts. *)
Publish ==
  /\ prCounts' = [e \in Engines |->
       [waiting |-> Cardinality({r \in PrReqs : prFlight[r] = [at |-> e, phase |-> "waiting"]}),
        running |-> Cardinality({r \in PrReqs : prFlight[r] = [at |-> e, phase |-> "running"]})]]
  /\ UNCHANGED <<prMirror, prDispatched, prFlight, prSent>>

(* Between two publications the balancer counts up: MaxUnpublished bounds it. *)
MaxUnpublished == 1
PrNext ==
  \/ \E r \in PrReqs, p \in PrPrompts, pinned \in Engines \cup {Caller}, reads \in BOOLEAN :
       /\ \A e \in Engines : prCounts[e].waiting <= MaxUnpublished
       /\ Route(r, p, pinned, reads)
  \/ Reset
  \/ \E r \in PrReqs : Run(r) \/ Leave(r)
  \/ Publish

PrSpec == PrInit /\ [][PrNext]_prVars

-----------------------------------------------------------------------------
(* Properties. *)

(* The prefill queue ahead of a request is not underestimated: a request is
   credited with no more of its prompt than the run of leading blocks its
   engine was sent since the last reset, whatever blocks the mirror has
   forgotten in between, and always computes a token. *)
CreditIsSent ==
  \A i \in DOMAIN prDispatched :
    LET d == prDispatched[i] IN
    /\ d.uncached >= 1
    /\ d.tokens - d.uncached <= d.reusable

=============================================================================
