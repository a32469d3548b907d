----------------------------- MODULE SpecAccept -----------------------------
(***************************************************************************)
(* The accept walk of a speculative verify, for one row.  A verify scores  *)
(* 1+K columns at once: column j is the target's distribution after the    *)
(* committed output and the first j drafts.  The walk runs over all the    *)
(* columns, drafts and padding alike, and a count then cuts the row where  *)
(* its first draft was rejected.  The controls a request asked for are     *)
(* applied per column, before the walk.                                    *)
(*                                                                         *)
(* A probability is an integer weight.  The model's raw weights, the       *)
(* penalty and the grammar are external stand-ins: what matters is which   *)
(* history each of them reads.  The prompt is empty.                       *)
(***************************************************************************)
EXTENDS Integers, FiniteSets, SequencesExt

CONSTANTS
  SaK,          \* drafts a block has room for
  SaVocab,      \* the tokens are 1 .. SaVocab, the last one stops
  SaMaxOut      \* max_tokens

(* Three tokens: some control takes the second away, and ends a word with the third. *)
ASSUME SaAssumption == SaK \in Nat /\ SaVocab \in Nat /\ SaVocab > 2 /\ SaMaxOut \in Nat

VARIABLES
  saCtl,        \* the request's controls
  saOut,        \* its committed output
  saBlock       \* the verify in flight: its drafts and its columns' weights

saVars == <<saCtl, saOut, saBlock>>

Tokens == 1 .. SaVocab
StopToken == SaVocab
Pad == 0                       \* PLACEHOLDER_TOKEN_ID
NoBlock == <<>>

(* A control that is not in use. *)
NoControls ==
  [greedy |-> TRUE, topk |-> SaVocab, allowed |-> Tokens, grammar |-> FALSE,
   words |-> {}, min |-> 0, penalised |-> FALSE]

(* The controls in force: a grammar in which no token repeats, a bad word of
   two tokens, an allow-list, a least length, a penalty, a top-k. *)
InUse(c) == {f \in DOMAIN NoControls \ {"greedy"} : c[f] # NoControls[f]}
Controls ==
  {c \in [greedy : BOOLEAN, topk : {2, SaVocab}, allowed : {Tokens, Tokens \ {2}},
          grammar : BOOLEAN, words : {{}, {<<1, 3>>}}, min : {0, 2}, penalised : BOOLEAN] :
     Cardinality(InUse(c)) <= 2}

SaInit == saCtl \in Controls /\ saOut = <<>> /\ saBlock = NoBlock

-----------------------------------------------------------------------------
(* External: the target's weight of token v after history h, a grammar's
   verdict, and what a penalty does to a weight. *)

LastOf(h) == IF h = <<>> THEN 0 ELSE Last(h)
RawWeight(h, v) == 2 * ((LastOf(h) + v) % SaVocab) + 2
Follows(h, v) == h = <<>> \/ Last(h) # v
Penalised(h, w, v) == Max({1, w - 3 * Cardinality({i \in DOMAIN h : h[i] = v})})
EndsWord(h, v, words) == \E word \in words : h # <<>> /\ word = <<Last(h), v>>

-----------------------------------------------------------------------------
(* The logits the walk reads. *)

(* Mutant: a column is scored after all the drafts, valid or not. *)
HistoryAll(j, drafts, valid) == saOut \o SubSeq(drafts, 1, valid)

(* The history column j is scored after. *)
History(j, drafts, valid) == saOut \o SubSeq(drafts, 1, Min({j, valid}))

(* Leading drafts the grammar takes. *)
LeadingDrafts(drafts, valid) ==
  Max({n \in 0 .. valid : \A i \in 1 .. n : Follows(saOut \o SubSeq(drafts, 1, i - 1), drafts[i])})

(* The packed bitmask of column j: the scheduler filled one for the committed
   output and each draft up to the first the grammar refuses. *)
GrammarAllows(j, drafts, valid) ==
  IF saCtl.grammar /\ j <= LeadingDrafts(drafts, valid)
  THEN {v \in Tokens : Follows(History(j, drafts, valid), v)}
  ELSE Tokens

(* apply_speculative_token_filters: the tokens column j may still commit. *)
FilterAllows(j, drafts, valid) ==
  {v \in saCtl.allowed :
     /\ ~EndsWord(History(j, drafts, valid), v, saCtl.words)
     /\ ~(v = StopToken /\ j < saCtl.min - Len(saOut))}

(* apply_speculative_penalties *)
PenalisedWeight(j, drafts, valid, v) ==
  LET h == History(j, drafts, valid)
      w == RawWeight(h, v)
  IN  IF saCtl.penalised THEN Penalised(h, w, v) ELSE w

(* accept_sampled_drafts: the weights of column j, 0 for a token ruled out. *)
Logits(j, drafts, valid) ==
  [v \in Tokens |->
     IF v \in GrammarAllows(j, drafts, valid) \cap FilterAllows(j, drafts, valid)
     THEN PenalisedWeight(j, drafts, valid, v) ELSE 0]

(* _constrained_probs: what top-k leaves of a distribution. *)
TopK(w) ==
  [v \in Tokens |-> IF Cardinality({u \in Tokens : w[u] > w[v]}) < saCtl.topk THEN w[v] ELSE 0]

Total(w) ==
  LET sum[v \in 0 .. SaVocab] == IF v = 0 THEN 0 ELSE sum[v - 1] + w[v]
  IN  sum[SaVocab]
Best(w) == Min({v \in Tokens : \A u \in Tokens : w[u] <= w[v]})

-----------------------------------------------------------------------------
(* The walk.  A row's noise is a coin for each accept test and one race for
   the correction and the bonus: here, the token the race favours. *)

(* _race_argmax *)
RaceWinner(w, race) == IF w[race] > 0 THEN race ELSE Best(w)

(* Mutant: the correction is drawn from the target's distribution. *)
ResidualWhole(w, d) == w

(* The correction's distribution: the draft is a point mass. *)
Residual(w, d) == [w EXCEPT ![d] = 0]

(* The accept test p/q >= u passes when the coin does and the draft has weight,
   and cannot fail for a draft that has all the weight. *)
Accepts(w, d, coin) == w[d] > 0 /\ (coin \/ w[d] = Total(w))

InVocabulary(d) == Max({d, 1})

(* _random_walk: per drafted position whether it is accepted, and what commits
   at each column. *)
RandomWalk(b, coins, race) ==
  LET P(j) == TopK(b.logits[j])
      accepted == [j \in 1 .. SaK |-> Accepts(P(j), InVocabulary(b.drafts[j]), coins[j])]
  IN  [accepted   |-> accepted,
       candidates |-> [j \in 1 .. SaK + 1 |->
          IF j = b.valid + 1 THEN RaceWinner(P(j), race)
          ELSE IF j > SaK THEN Pad
          ELSE IF accepted[j] THEN b.drafts[j]
          ELSE RaceWinner(Residual(P(j), InVocabulary(b.drafts[j])), race)]]

(* _greedy_walk *)
GreedyWalk(b) ==
  LET ids == [j \in 1 .. SaK + 1 |-> Best(b.logits[j])]
  IN  [accepted |-> [j \in 1 .. SaK |-> ids[j] = b.drafts[j]], candidates |-> ids]

(* Mutant: a padding column can reject, or be accepted, like a draft. *)
CountFromAll(accepted, valid) ==
  LET rejected == {j \in 1 .. SaK : ~accepted[j]} IN
  IF rejected = {} THEN SaK + 1 ELSE Min(rejected)

(* _counts_from_accepted *)
CountFrom(accepted, valid) ==
  LET rejected == {j \in 1 .. valid : ~accepted[j]} IN
  IF rejected = {} THEN valid + 1 ELSE Min(rejected)

(* accept_speculated_tokens: the committed prefix of the row. *)
Committed(b, coins, race) ==
  LET walk == IF saCtl.greedy THEN GreedyWalk(b) ELSE RandomWalk(b, coins, race)
  IN  SubSeq(walk.candidates, 1, CountFrom(walk.accepted, b.valid))

(* accept_greedy_drafts, for a verify that returned the argmax ids. *)
GreedyCommitted(b) ==
  LET matched == [j \in 1 .. SaK |-> Best(b.logits[j]) = b.drafts[j]]
      rejected == {j \in 1 .. b.valid : ~matched[j]}
      count == IF rejected = {} THEN b.valid + 1 ELSE Min(rejected)
  IN  [j \in 1 .. count |-> Best(b.logits[j])]

(* External: the scheduler trims at a stop token and at max_tokens. *)
Trimmed(out) ==
  LET stops == {i \in DOMAIN out : out[i] = StopToken} \cup {Len(out), SaMaxOut}
  IN  SubSeq(out, 1, Min(stops))

(* The drafts of a step: any tokens, then padding. *)
DraftBlocks(valid) ==
  {d \in [1 .. SaK -> Tokens \cup {Pad}] : \A j \in 1 .. SaK : d[j] = Pad <=> j > valid}

Finished == Len(saOut) >= SaMaxOut \/ LastOf(saOut) = StopToken

(* A verify is scored.  Only a greedy row without controls may take one that
   returns argmax ids: the model applies no control. *)
Score(mode, drafts, valid) ==
  /\ saBlock = NoBlock /\ ~Finished
  /\ mode = "argmax_ids" => saCtl.greedy /\ InUse(saCtl) = {}
  /\ saBlock' = [mode   |-> mode, drafts |-> drafts, valid |-> valid,
                 logits |-> [j \in 1 .. SaK + 1 |->
                    IF mode = "logits" THEN Logits(j - 1, drafts, valid)
                    ELSE [v \in Tokens |-> RawWeight(History(j - 1, drafts, valid), v)]]]
  /\ UNCHANGED <<saCtl, saOut>>

(* What a row may draw: a coin per draft, and one race, since a row commits
   either its bonus or one correction. *)
Noise == [coins : [1 .. SaK -> BOOLEAN], race : Tokens]

(* Its readback walks it and commits the row's tokens. *)
Accept(coins, race) ==
  /\ saBlock # NoBlock
  /\ saOut' = Trimmed(saOut \o IF saBlock.mode = "argmax_ids" THEN GreedyCommitted(saBlock)
                               ELSE Committed(saBlock, coins, race))
  /\ saBlock' = NoBlock
  /\ UNCHANGED saCtl

SaNext ==
  \/ \E mode \in {"logits", "argmax_ids"}, valid \in 0 .. SaK :
       \E drafts \in DraftBlocks(valid) : Score(mode, drafts, valid)
  \/ \E noise \in Noise : Accept(noise.coins, noise.race)

SaSpec == SaInit /\ [][SaNext]_saVars

-----------------------------------------------------------------------------
(* Properties: speculation changes how fast a request is served, and nothing
   of what it is served. *)

(* The ordinary sampler, one token at a time: its weights after history h. *)
PlainLogits(h) ==
  [v \in Tokens |->
     IF /\ v \in saCtl.allowed
        /\ saCtl.grammar => Follows(h, v)
        /\ ~EndsWord(h, v, saCtl.words)
        /\ v = StopToken => Len(h) >= saCtl.min
     THEN IF saCtl.penalised THEN Penalised(h, RawWeight(h, v), v) ELSE RawWeight(h, v)
     ELSE 0]

(* Every committed token is one the ordinary sampler could have drawn, and for
   a greedy row the one it would have chosen, whatever was drafted, rejected
   and padded on the way: the controls of a column read its own history, and
   the count cuts exactly where the walk stopped being the request's. *)
CommitsAsPlain ==
  \A i \in DOMAIN saOut :
    LET w == PlainLogits(SubSeq(saOut, 1, i - 1)) IN
    IF saCtl.greedy THEN saOut[i] = Best(w) ELSE saOut[i] \in Tokens /\ TopK(w)[saOut[i]] > 0

(* The drafted positions a walk may reach: the drafts before have weight. *)
Reachable(b) ==
  Cardinality({j \in 1 .. b.valid : \A i \in 1 .. j - 1 : TopK(b.logits[i])[b.drafts[i]] > 0})

(* A drafted position keeps the ordinary sampler's distribution exactly: with
   a uniform draw, accepting draft d of weight w[d] and correcting a rejection
   from the residual gives each token the share it has after that history. *)
KeepsDistribution ==
  saBlock # NoBlock /\ ~saCtl.greedy =>
    \A j \in 1 .. Reachable(saBlock) :
      LET w == TopK(saBlock.logits[j])
          p == TopK(PlainLogits(saOut \o SubSeq(saBlock.drafts, 1, j - 1)))
          d == saBlock.drafts[j]
          r == Residual(w, d)
          T == Total(w)
          R == Total(r)
      IN  \A x \in Tokens :
            LET taken == IF x = d THEN w[d] ELSE 0
            IN  IF R = 0 THEN taken * Total(p) = p[x] * T
                ELSE (taken * R + (T - w[d]) * r[x]) * Total(p) = p[x] * T * R

=============================================================================
