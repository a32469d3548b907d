----------------------- MODULE ChunkedPrefillProofs ------------------------
(***************************************************************************)
(* What rounding one chunk does, for every alignment, block size, prompt    *)
(* and budget; and how the chunks of a step add up along the queues: every *)
(* step of every schedule leaves a split prompt where it may resume and    *)
(* makes progress, for any number of requests.                             *)
(***************************************************************************)
EXTENDS ChunkedPrefill, SubsequencesProofs

(* Flooring to a unit loses less than one unit. *)
LEMMA FloorBounds ==
  ASSUME NEW n \in Nat, NEW unit \in Nat \ {0}
  PROVE  FloorTo(n, unit) \in Nat /\ FloorTo(n, unit) <= n /\ n < FloorTo(n, unit) + unit
BY SMTT(30) DEF FloorTo

(* A number of at least one unit is floored to at least one. *)
LEMMA FloorReaches ==
  ASSUME NEW n \in Nat, NEW unit \in Nat \ {0}, n >= unit
  PROVE  FloorTo(n, unit) >= unit
BY SMTT(30) DEF FloorTo

(* A multiple leaves no remainder. *)
LEMMA Multiples ==
  ASSUME NEW m \in Nat, NEW unit \in Nat \ {0}
  PROVE  (m * unit) % unit = 0
BY SMTT(30)

(* A number without remainder is a multiple. *)
LEMMA BlockOf ==
  ASSUME NEW n \in Nat, NEW unit \in Nat \ {0}, n % unit = 0
  PROVE  n \div unit \in Nat /\ n = (n \div unit) * unit
BY SMTT(30)

(* Products of three naturals. *)
LEMMA Associates ==
  ASSUME NEW a \in Nat, NEW b \in Nat, NEW c \in Nat
  PROVE  a * b \in Nat /\ a * (b * c) = (a * b) * c
BY SMTT(30)

(* A number floored to a unit is a multiple of it. *)
LEMMA FloorOnUnit ==
  ASSUME NEW n \in Nat, NEW unit \in Nat \ {0}
  PROVE  FloorTo(n, unit) % unit = 0
<1>1. n \div unit \in Nat
  BY SMTT(30)
<1> QED BY <1>1, Multiples DEF FloorTo

(* A grid of whole blocks lies on blocks. *)
LEMMA GridOnBlock ==
  ASSUME NEW n \in Nat, NEW align \in Nat \ {0}, align % CpBlock = 0
  PROVE  FloorTo(n, align) % CpBlock = 0
<1> DEFINE k == align \div CpBlock
           q == n \div align
<1>1. k \in Nat /\ align = k * CpBlock
  BY BlockOf, CpAssumption
<1>2. q \in Nat
  BY SMTT(30)
<1> HIDE DEF k, q
<1>3. q * k \in Nat /\ q * align = (q * k) * CpBlock
  BY <1>1, <1>2, Associates, CpAssumption
<1>4. (q * align) % CpBlock = 0
  BY <1>3, Multiples, CpAssumption
<1> QED BY <1>4 DEF FloorTo, q

(* The greatest of zero and a difference. *)
LEMMA MaxWithNone ==
  ASSUME NEW d \in Int
  PROVE  Max({0, d}) = IF d > 0 THEN d ELSE 0
<1> DEFINE top == IF d > 0 THEN d ELSE 0
<1>1. top \in {0, d} /\ \A y \in {0, d} : top >= y
  OBVIOUS
<1>2. \A x \in {0, d} : (\A y \in {0, d} : x >= y) => x = top
  OBVIOUS
<1> HIDE DEF top
<1>3. Max({0, d}) = top
  BY <1>1, <1>2 DEF Max
<1> QED BY <1>3 DEF top

(* A launch that passed validation: a step may take as much as a grid unit. *)
CanReachGrid == cpAlign \in Nat /\ StepCap \in Nat /\ (Rounds => StepCap >= cpAlign)

(* What a chunk is when a whole step reaches the grid: the waiting of a new
   request is for a larger budget only. *)
LEMMA ChunkIs ==
  ASSUME NEW tokens \in Nat, NEW start \in Nat, NEW featured \in BOOLEAN, NEW n \in Nat \ {0},
         NEW end \in Nat, end = start + n, CanReachGrid
  PROVE  AlignedChunk(tokens, start, featured, n) =
           IF ~Rounds \/ end >= tokens \/ featured THEN n
           ELSE IF FloorTo(end, cpAlign) > start THEN FloorTo(end, cpAlign) - start
           ELSE IF start # 0 /\ FloorTo(end, CpBlock) > start THEN FloorTo(end, CpBlock) - start
           ELSE 0
<1> DEFINE aligned == FloorTo(end, cpAlign)
           block == FloorTo(end, CpBlock)
<1>1. AlignedChunk(tokens, start, featured, n) =
        IF ~Rounds \/ end >= tokens \/ featured THEN n
        ELSE IF aligned > start THEN aligned - start
        ELSE IF start # 0 THEN Max({0, block - start})
        ELSE IF n < StepCap THEN 0 ELSE n
  BY DEF AlignedChunk
<1>2. CASE ~Rounds
  BY <1>1, <1>2
<1>3. CASE Rounds
  <2>1. cpAlign \in Nat \ {0} /\ StepCap \in Nat /\ StepCap >= cpAlign
    BY <1>3 DEF CanReachGrid, Rounds
  <2>2. aligned \in Nat /\ block \in Nat /\ end < aligned + cpAlign
    BY <2>1, FloorBounds, CpAssumption
  <2>3. Max({0, block - start}) = IF block - start > 0 THEN block - start ELSE 0
    BY <2>2, MaxWithNone
  <2> HIDE DEF aligned, block
  <2>4. start = 0 /\ ~(aligned > start) => n < StepCap
    BY <2>1, <2>2
  <2>5. AlignedChunk(tokens, start, featured, n) =
             IF ~Rounds \/ end >= tokens \/ featured THEN n
             ELSE IF aligned > start THEN aligned - start
             ELSE IF start # 0 /\ block > start THEN block - start
             ELSE 0
    BY <1>1, <2>2, <2>3, <2>4
  <2> QED BY <2>5 DEF aligned, block
<1> QED BY <1>2, <1>3

(* Whatever the alignment: a chunk cut out of n tokens takes no more than these;
   it takes all of them if they end the sequence, the prompt is multimodal or
   nothing is rounded; else it is empty, or ends on the grid or on a KV block;
   and where the grid is made of whole blocks, a prompt that stood on a block
   boundary is left on one, so the model never resumes inside a block. *)
THEOREM ChunkEndsOnGrid ==
  ASSUME NEW tokens \in Nat, NEW start \in Nat, NEW featured \in BOOLEAN, NEW n \in Nat \ {0},
         CanReachGrid,
         NEW chunk, chunk = AlignedChunk(tokens, start, featured, n)
  PROVE  /\ chunk \in 0 .. n
         /\ IF ~Rounds \/ start + n >= tokens \/ featured THEN chunk = n
            ELSE /\ \/ chunk = 0
                    \/ (start + chunk) % cpAlign = 0
                    \/ (start + chunk) % CpBlock = 0
                 /\ cpAlign % CpBlock = 0 /\ start % CpBlock = 0
                      => (start + chunk) % CpBlock = 0
<1> DEFINE end == start + n
           aligned == FloorTo(end, cpAlign)
           block == FloorTo(end, CpBlock)
<1>1. end \in Nat
  OBVIOUS
<1>2. chunk = IF ~Rounds \/ end >= tokens \/ featured THEN n
              ELSE IF aligned > start THEN aligned - start
              ELSE IF start # 0 /\ block > start THEN block - start ELSE 0
  BY <1>1, ChunkIs
<1>3. CASE ~Rounds \/ end >= tokens \/ featured
  BY <1>2, <1>3
<1>4. CASE ~(~Rounds \/ end >= tokens \/ featured)
  <2>1. cpAlign \in Nat \ {0}
    BY <1>4 DEF CanReachGrid, Rounds
  <2>2. /\ aligned \in Nat /\ aligned <= end /\ aligned % cpAlign = 0
        /\ block \in Nat /\ block <= end /\ block % CpBlock = 0
    BY <1>1, <2>1, FloorBounds, FloorOnUnit, CpAssumption
  <2>3. cpAlign % CpBlock = 0 => aligned % CpBlock = 0
    BY <1>1, <2>1, GridOnBlock
  <2> HIDE DEF aligned, block
  <2>4. chunk \in 0 .. n
    BY <1>2, <1>4, <2>2
  <2>5. \/ chunk = 0 /\ start + chunk = start
        \/ start + chunk = aligned
        \/ start + chunk = block
    BY <1>2, <1>4, <2>2
  <2> QED BY <1>4, <2>2, <2>3, <2>4, <2>5
<1> QED BY <1>3, <1>4

(* Whatever the alignment, a request that is offered as much as a step may take
   gets some of it, and so does a running one that is offered a block. *)
THEOREM ChunkAdvances ==
  ASSUME NEW tokens \in Nat, NEW start \in Nat, NEW featured \in BOOLEAN, NEW n \in Nat \ {0},
         CanReachGrid, n >= StepCap \/ (start # 0 /\ n >= CpBlock)
  PROVE  AlignedChunk(tokens, start, featured, n) > 0
<1> DEFINE end == start + n
           aligned == FloorTo(end, cpAlign)
           block == FloorTo(end, CpBlock)
           chunk == AlignedChunk(tokens, start, featured, n)
<1>1. end \in Nat /\ CpBlock \in Nat \ {0}
  BY CpAssumption
<1>2. chunk = IF ~Rounds \/ end >= tokens \/ featured THEN n
              ELSE IF aligned > start THEN aligned - start
              ELSE IF start # 0 /\ block > start THEN block - start ELSE 0
  BY <1>1, ChunkIs
<1> SUFFICES chunk > 0
  OBVIOUS
<1> HIDE DEF chunk
<1>3. CASE ~Rounds \/ end >= tokens \/ featured
  <2>1. chunk = n
    BY <1>2, <1>3
  <2> QED BY <2>1
<1>4. CASE ~(~Rounds \/ end >= tokens \/ featured)
  <2>1. cpAlign \in Nat \ {0} /\ StepCap \in Nat /\ StepCap >= cpAlign
    BY <1>4 DEF CanReachGrid, Rounds
  <2>2. /\ aligned \in Nat /\ end < aligned + cpAlign
        /\ block \in Nat /\ end < block + CpBlock
    BY <1>1, <2>1, FloorBounds
  <2> HIDE DEF aligned, block
  <2>3. CASE n >= StepCap
    <3>1. aligned > start
      BY <2>1, <2>2, <2>3
    <3>2. chunk = aligned - start
      BY <1>2, <1>4, <3>1
    <3> QED BY <2>2, <3>1, <3>2
  <2>4. CASE start # 0 /\ n >= CpBlock
    <3>1. block > start
      BY <1>1, <2>2, <2>4
    <3>2. (aligned > start /\ chunk = aligned - start) \/ chunk = block - start
      BY <1>2, <1>4, <2>4, <3>1
    <3> QED BY <2>2, <3>1, <3>2
  <2> QED BY <2>3, <2>4
<1> QED BY <1>3, <1>4

-----------------------------------------------------------------------------
(* Chunked prefill. *)

(* Where a prompt that is queued stands. *)
Resumable(r) == cpDone[r] < cpTokens[r] /\ ResumesWell(r)

(* Requests wait or prefill once, and stand where they may resume. *)
CpInv ==
  /\ cpBudget \in Nat \ {0} /\ cpThreshold \in Nat /\ CanReachGrid
  /\ cpTokens \in [CpReqs -> Nat] /\ cpDone \in [CpReqs -> Nat]
  /\ cpRunning \in Seq(CpReqs) /\ cpWaiting \in Seq(CpReqs) /\ Distinct(Queue)
  /\ cpIdle = FALSE
  /\ \A r \in ToSet(Queue) : Resumable(r)

(* A chunk that leaves the prompt where it may resume. *)
GoodChunk(r, n) ==
  /\ n <= cpTokens[r] - cpDone[r]
  /\ cpDone[r] + n < cpTokens[r] => ~Rounds \/ r \in cpFeatured \/ OnGrid(cpDone[r] + n)

(* No chunk leaves it where it stands. *)
LEMMA NoChunkIsGood ==
  ASSUME NEW r, cpTokens[r] \in Nat, cpDone[r] \in Nat, Resumable(r)
  PROVE  GoodChunk(r, 0)
<1>1. cpDone[r] + 0 = cpDone[r] /\ 0 <= cpTokens[r] - cpDone[r]
  BY DEF Resumable
<1> QED BY <1>1 DEF GoodChunk, Resumable, ResumesWell

(* A prompt that is left alone stays where it may resume. *)
LEMMA StillResumable ==
  ASSUME UNCHANGED cpLaunch, NEW q, Resumable(q), cpTokens'[q] = cpTokens[q],
         cpDone'[q] = cpDone[q], q \in cpFeatured <=> q \in cpFeatured'
  PROVE  Resumable(q)'
BY DEF Resumable, ResumesWell, OnGrid, Rounds, cpLaunch

(* A prompt may resume behind whole blocks. *)
LEMMA ResumableOnBlock ==
  ASSUME NEW q, cpDone'[q] < cpTokens'[q], cpDone'[q] % CpBlock = 0
  PROVE  Resumable(q)'
BY DEF Resumable, ResumesWell, OnGrid

(* The requests of the walk. *)
LEMMA QueueType ==
  ASSUME CpInv
  PROVE  /\ Queue \in Seq(CpReqs) /\ ToSet(Queue) \subseteq CpReqs
         /\ ToSet(Queue) = ToSet(cpRunning) \cup ToSet(cpWaiting)
         /\ Distinct(cpRunning) /\ Distinct(cpWaiting) /\ ToSet(cpRunning) \cap ToSet(cpWaiting) = {}
<1>1. cpRunning \in Seq(CpReqs) /\ cpWaiting \in Seq(CpReqs) /\ Distinct(cpRunning \o cpWaiting)
  BY DEF CpInv, Queue
<1>2. Queue \in Seq(CpReqs)
  BY <1>1, Joined DEF Queue
<1> QED BY <1>1, <1>2, Joined, ElementsOf DEF Queue

(* What a step may take of one request. *)
LEMMA StepCapIs ==
  ASSUME CpInv
  PROVE  StepCap \in Nat /\ StepCap = IF cpThreshold > 0 /\ cpThreshold < cpBudget
                                      THEN cpThreshold ELSE cpBudget
<1>1. cpBudget \in Nat /\ cpThreshold \in Nat
  BY DEF CpInv
<1>2. Min({cpBudget, cpThreshold}) = IF cpBudget <= cpThreshold THEN cpBudget ELSE cpThreshold
  BY <1>1, MinOfTwo
<1> QED BY <1>1, <1>2 DEF StepCap

(* The chunk of a queued request: within the budget and the prompt, ended where
   it may resume, and not nothing when the whole budget is left. *)
LEMMA ChunkOfQueued ==
  ASSUME CpInv, NEW r \in ToSet(Queue), NEW left \in Nat
  PROVE  /\ Chunk(r, left) \in 0 .. left
         /\ GoodChunk(r, Chunk(r, left))
         /\ left = cpBudget => Chunk(r, left) > 0
<1> DEFINE tokens == cpTokens[r]
           start == cpDone[r]
           featured == r \in cpFeatured
           wanted == tokens - start
           cap == IF cpThreshold > 0 THEN cpThreshold ELSE wanted
           T == {left, wanted, cap}
           n == Min(T)
<1>1. /\ tokens \in Nat /\ start \in Nat /\ start < tokens /\ r \in CpReqs
      /\ Resumable(r)
  BY QueueType DEF CpInv, Resumable
<1>2. cpThreshold \in Nat /\ cpBudget \in Nat \ {0} /\ CanReachGrid /\ StepCap \in Nat
  BY StepCapIs DEF CpInv
<1>3. wanted \in Nat \ {0} /\ cap \in Nat \ {0} /\ featured \in BOOLEAN
  BY <1>1, <1>2
<1>4. Chunk(r, left) = IF n = 0 THEN 0 ELSE AlignedChunk(tokens, start, featured, n)
  BY DEF Chunk
<1>5. GoodChunk(r, 0)
  BY <1>1, NoChunkIsGood
<1>6. ~Rounds \/ featured \/ OnGrid(start)
  BY <1>1 DEF Resumable, ResumesWell
<1> HIDE DEF tokens, start, featured
<1>7. T \subseteq Nat /\ T # {}
  BY <1>3
<1>8. n \in T /\ \A m \in T : n <= m
  <2> HIDE DEF T
  <2> QED BY <1>7, MinOfSet
<1> HIDE DEF n
<1>9. n \in Nat /\ n <= left /\ n <= wanted
  BY <1>3, <1>7, <1>8
<1>10. CASE n = 0
  <2>1. left # cpBudget
    BY <1>2, <1>3, <1>8, <1>10
  <2>2. Chunk(r, left) = 0
    BY <1>4, <1>10
  <2> QED BY <1>5, <2>1, <2>2
<1>11. CASE n # 0
  <2> DEFINE chunk == AlignedChunk(tokens, start, featured, n)
             rounded == ~(~Rounds \/ start + n >= tokens \/ featured)
  <2>1. n \in Nat \ {0} /\ Chunk(r, left) = chunk
    BY <1>4, <1>9, <1>11
  <2>2. /\ chunk \in 0 .. n
        /\ ~rounded => chunk = n
        /\ rounded => /\ \/ chunk = 0
                         \/ (start + chunk) % cpAlign = 0
                         \/ (start + chunk) % CpBlock = 0
                      /\ cpAlign % CpBlock = 0 /\ start % CpBlock = 0
                           => (start + chunk) % CpBlock = 0
    BY <1>1, <1>2, <1>3, <2>1, ChunkEndsOnGrid
  <2>3. left = cpBudget => chunk > 0
    <3>1. CASE ~rounded
      BY <2>1, <2>2, <3>1
    <3>2. CASE left = cpBudget /\ rounded
      <4>1. n # wanted
        BY <1>1, <1>9, <3>2
      <4>2. n >= StepCap
        BY <1>2, <1>3, <1>8, <3>2, <4>1, StepCapIs
      <4> QED BY <1>1, <1>2, <1>3, <2>1, <4>2, ChunkAdvances
    <3> QED BY <3>1, <3>2
  <2>4. rounded => OnGrid(start + chunk)
    <3>1. CASE chunk = 0 /\ rounded
      <4>1. start + chunk = start
        BY <1>1, <3>1
      <4> QED BY <1>6, <3>1, <4>1
    <3>2. CASE cpAlign % CpBlock # 0 /\ rounded /\ chunk # 0
      BY <2>2, <3>2 DEF OnGrid
    <3>3. CASE cpAlign % CpBlock = 0 /\ rounded
      <4>1. start % CpBlock = 0
        BY <1>6, <3>3 DEF OnGrid
      <4> QED BY <2>2, <3>3, <4>1 DEF OnGrid
    <3> QED BY <3>1, <3>2, <3>3
  <2> HIDE DEF chunk
  <2>5. chunk <= wanted /\ chunk \in 0 .. left
    BY <1>3, <1>9, <2>2
  <2>6. start + chunk < tokens => ~Rounds \/ featured \/ OnGrid(start + chunk)
    <3>1. CASE rounded
      BY <2>4, <3>1
    <3>2. CASE ~rounded
      BY <1>1, <1>9, <2>2, <3>2
    <3> QED BY <3>1, <3>2
  <2>7. GoodChunk(r, chunk)
    BY <2>5, <2>6 DEF GoodChunk, tokens, start, featured
  <2> QED BY <2>1, <2>3, <2>5, <2>7
<1> QED BY <1>10, <1>11

(* What the walk has at one request. *)
Walks == [left : Nat, chunks : [CpReqs -> Nat], stop : BOOLEAN]

(* A request that is offered the rest of a budget gets at most a good chunk. *)
LEMMA OfferedType ==
  ASSUME CpInv, NEW walk \in Walks, NEW r \in ToSet(Queue)
  PROVE  /\ Offered(walk, r) \in Walks
         /\ \A q \in CpReqs \ {r} : Offered(walk, r).chunks[q] = walk.chunks[q]
         /\ GoodChunk(r, Offered(walk, r).chunks[r])
         /\ ~walk.stop /\ walk.left = cpBudget => Offered(walk, r).chunks[r] > 0
<1> DEFINE n == IF walk.stop THEN 0 ELSE Chunk(r, walk.left)
           next == Offered(walk, r)
<1>1. /\ walk.left \in Nat /\ walk.chunks \in [CpReqs -> Nat] /\ walk.stop \in BOOLEAN
      /\ r \in CpReqs
  BY QueueType DEF Walks
<1>2. n \in 0 .. walk.left /\ GoodChunk(r, n)
  <2>1. CASE walk.stop
    <3>1. cpTokens[r] \in Nat /\ cpDone[r] \in Nat /\ Resumable(r)
      BY <1>1 DEF CpInv
    <3> QED BY <1>1, <2>1, <3>1, NoChunkIsGood
  <2>2. CASE ~walk.stop
    BY <1>1, <2>2, ChunkOfQueued
  <2> QED BY <2>1, <2>2
<1>3. ~walk.stop /\ walk.left = cpBudget => n > 0
  BY <1>1, ChunkOfQueued
<1>4. /\ next.left = walk.left - n
      /\ next.chunks = [walk.chunks EXCEPT ![r] = n]
      /\ next = [left |-> walk.left - n, chunks |-> [walk.chunks EXCEPT ![r] = n],
                 stop |-> walk.stop \/ (r \in ToSet(cpWaiting) /\ n = 0)]
  BY DEF Offered
<1> HIDE DEF n, next
<1>5. n \in Nat /\ walk.left - n \in Nat
  BY <1>1, <1>2
<1>6. next \in Walks
  BY <1>1, <1>4, <1>5 DEF Walks
<1>7. next.chunks[r] = n /\ \A q \in CpReqs \ {r} : next.chunks[q] = walk.chunks[q]
  BY <1>1, <1>4
<1> QED BY <1>2, <1>3, <1>6, <1>7 DEF next

(* The states the walk goes through. *)
WalkStart == [left |-> cpBudget, chunks |-> [r \in CpReqs |-> 0], stop |-> FALSE]
WalkedUpTo(walk) ==
  /\ walk[0] = WalkStart
  /\ \A i \in 1 .. Len(Queue) : walk[i] = Offered(walk[i - 1], Queue[i])

(* The walk of a step ends where its states lead. *)
LEMMA WalkedIs ==
  ASSUME CpInv
  PROVE  \E walk \in [0 .. Len(Queue) -> Walks] : WalkedUpTo(walk) /\ Walked = walk[Len(Queue)]
<1> DEFINE n == Len(Queue)
           none == WalkStart
           step == [i \in 1 .. n |-> [w \in Walks |-> Offered(w, Queue[i])]]
           Body(f) == [i \in 0 .. n |-> IF i = 0 THEN none ELSE Offered(f[i - 1], Queue[i])]
           F == CHOOSE f : f = Body(f)
<1>1. n \in Nat /\ \A i \in 1 .. n : Queue[i] \in ToSet(Queue)
  BY QueueType, ElementsOf
<1>2. none \in Walks
  BY DEF WalkStart, Walks, CpInv
<1>3. \A w \in Walks, i \in 1 .. n : Offered(w, Queue[i]) \in Walks
  BY <1>1, OfferedType
<1>4. Walked = F[n]
  BY DEF Walked, WalkStart
<1> HIDE DEF n, none
<1>5. step \in [1 .. n -> [Walks -> Walks]]
  BY <1>3
<1>6. PICK g : Iteration(n, Walks, none, step, g)
  <2> HIDE DEF step
  <2> QED BY <1>1, <1>2, <1>5, Iterates
<1>7. g \in [0 .. n -> Walks] /\ g[0] = none /\ \A i \in 1 .. n : g[i] = step[i][g[i - 1]]
  <2> HIDE DEF step
  <2> QED BY <1>6 DEF Iteration
<1>8. \A i \in 1 .. n : g[i] = Offered(g[i - 1], Queue[i])
  <2> SUFFICES ASSUME NEW i \in 1 .. n PROVE g[i] = Offered(g[i - 1], Queue[i])
    OBVIOUS
  <2>1. g[i - 1] \in Walks
    <3>1. i - 1 \in 0 .. n
      BY <1>1
    <3> HIDE DEF step
    <3> QED BY <1>7, <3>1
  <2>2. step[i][g[i - 1]] = Offered(g[i - 1], Queue[i])
    BY <2>1
  <2> HIDE DEF step
  <2> QED BY <1>7, <2>2
<1>9. g = Body(g)
  <2> HIDE DEF step
  <2>1. \A i \in 0 .. n : g[i] = IF i = 0 THEN none ELSE Offered(g[i - 1], Queue[i])
    BY <1>1, <1>7, <1>8
  <2> QED BY <1>7, <2>1
<1>10. F = Body(F)
  <2> HIDE DEF Body
  <2> QED BY <1>9
<1> HIDE DEF F
<1>11. F[0] = none /\ \A i \in 1 .. n : F[i] = Offered(F[i - 1], Queue[i])
  <2>1. \A i \in 0 .. n : Body(F)[i] = IF i = 0 THEN none ELSE Offered(F[i - 1], Queue[i])
    OBVIOUS
  <2> HIDE DEF Body
  <2>2. \A i \in 0 .. n : F[i] = IF i = 0 THEN none ELSE Offered(F[i - 1], Queue[i])
    BY <1>10, <2>1
  <2> QED BY <1>1, <2>2
<1>12. F = [i \in 0 .. n |-> F[i]]
  <2>1. \E h : F = [i \in 0 .. n |-> h[i]]
    <3>1. Body(F) = [i \in 0 .. n |-> Body(F)[i]]
      OBVIOUS
    <3> HIDE DEF Body
    <3> QED BY <1>10, <3>1
  <2> QED BY <2>1
<1>13. \A i \in 0 .. n : F[i] \in Walks
  <2> DEFINE P == {i \in 0 .. n : F[i] \in Walks}
  <2>1. 0 \in P
    BY <1>1, <1>2, <1>11
  <2>2. \A i \in 1 .. n : i - 1 \in P => i \in P
    BY <1>1, <1>3, <1>11
  <2>3. \A i \in 0 .. n : i \in P
    <3> HIDE DEF P
    <3> QED BY <1>1, <2>1, <2>2, UpTo
  <2> QED BY <2>3
<1>14. F \in [0 .. n -> Walks] /\ n \in 0 .. n
  BY <1>1, <1>12, <1>13
<1>15. WalkedUpTo(F)
  BY <1>11 DEF WalkedUpTo, n, none
<1> QED BY <1>4, <1>14, <1>15 DEF n

(* The walk gives good chunks, to queued requests only, and when there is one
   the first of them gets some of the whole budget. *)
LEMMA WalkedFacts ==
  ASSUME CpInv
  PROVE  /\ Walked.chunks \in [CpReqs -> Nat]
         /\ \A r \in CpReqs : Walked.chunks[r] > 0 => r \in ToSet(Queue)
         /\ \A r \in ToSet(Queue) : GoodChunk(r, Walked.chunks[r])
         /\ Queue # <<>> => \E r \in CpReqs : Walked.chunks[r] > 0
<1>1. PICK walk \in [0 .. Len(Queue) -> Walks] : WalkedUpTo(walk) /\ Walked = walk[Len(Queue)]
  BY WalkedIs
<1> DEFINE n == Len(Queue)
           Fair(w) == \A r \in CpReqs : /\ w.chunks[r] > 0 => r \in ToSet(Queue)
                                        /\ r \in ToSet(Queue) => GoodChunk(r, w.chunks[r])
           P == {i \in 0 .. n : Fair(walk[i]) /\ (i > 0 => walk[i].chunks[Queue[1]] > 0)}
<1>2. /\ n \in Nat /\ Queue \in Seq(CpReqs) /\ Distinct(Queue)
      /\ \A i \in 1 .. n : Queue[i] \in ToSet(Queue) /\ Queue[i] \in CpReqs
  <2>1. Queue \in Seq(CpReqs) /\ Distinct(Queue) /\ ToSet(Queue) \subseteq CpReqs
    BY QueueType DEF CpInv
  <2>2. ToSet(Queue) = {Queue[i] : i \in 1 .. Len(Queue)} /\ Len(Queue) \in Nat
    BY <2>1, ElementsOf
  <2> QED BY <2>1, <2>2
<1>3. 0 \in P
  <2>1. walk[0] = WalkStart /\ 0 \in 0 .. n
    BY <1>1, <1>2 DEF WalkedUpTo
  <2>2. ASSUME NEW r \in CpReqs PROVE WalkStart.chunks[r] = 0
    BY DEF WalkStart
  <2>3. ASSUME NEW r \in ToSet(Queue) PROVE GoodChunk(r, 0)
    <3>1. r \in CpReqs
      BY <2>3, QueueType
    <3>2. cpTokens[r] \in Nat /\ cpDone[r] \in Nat /\ Resumable(r)
      BY <2>3, <3>1 DEF CpInv
    <3> QED BY <3>2, NoChunkIsGood
  <2> QED BY <2>1, <2>2, <2>3
<1>4. ASSUME NEW i \in 1 .. n, i - 1 \in P PROVE i \in P
  <2> DEFINE w == walk[i - 1]
             r == Queue[i]
  <2>1. w \in Walks /\ r \in ToSet(Queue) /\ r \in CpReqs /\ walk[i] = Offered(w, r)
    BY <1>1, <1>2, <1>4 DEF WalkedUpTo
  <2>2. Fair(w)
    BY <1>4
  <2>3. /\ \A q \in CpReqs \ {r} : walk[i].chunks[q] = w.chunks[q]
        /\ GoodChunk(r, walk[i].chunks[r])
        /\ ~w.stop /\ w.left = cpBudget => walk[i].chunks[r] > 0
    BY <2>1, OfferedType
  <2>4. Fair(walk[i])
    <3> SUFFICES ASSUME NEW q \in CpReqs
                 PROVE  /\ walk[i].chunks[q] > 0 => q \in ToSet(Queue)
                        /\ q \in ToSet(Queue) => GoodChunk(q, walk[i].chunks[q])
      OBVIOUS
    <3> HIDE DEF w, r
    <3>1. CASE q = r
      BY <2>1, <2>3, <3>1
    <3>2. CASE q # r
      BY <2>2, <2>3, <3>2
    <3> QED BY <3>1, <3>2
  <2>5. walk[i].chunks[Queue[1]] > 0
    <3>1. CASE i = 1
      <4>1. w = WalkStart
        BY <1>1, <3>1 DEF WalkedUpTo
      <4>2. ~WalkStart.stop /\ WalkStart.left = cpBudget
        BY DEF WalkStart
      <4> HIDE DEF w
      <4> QED BY <2>3, <3>1, <4>1, <4>2
    <3>2. CASE i # 1
      <4>1. i - 1 > 0 /\ 1 \in 1 .. n /\ Queue[1] # Queue[i] /\ Queue[1] \in CpReqs
        BY <1>2, <3>2 DEF Distinct
      <4>2. w.chunks[Queue[1]] > 0
        BY <1>4, <4>1
      <4> HIDE DEF w
      <4> QED BY <2>3, <4>1, <4>2
    <3> QED BY <3>1, <3>2
  <2> HIDE DEF w, r, Fair
  <2> QED BY <1>2, <2>4, <2>5
<1>5. n \in P
  <2> HIDE DEF P
  <2>1. \A i \in 0 .. n : i \in P
    BY <1>2, <1>3, <1>4, UpTo
  <2> QED BY <1>2, <2>1
<1>6. walk[n] \in Walks /\ Fair(walk[n])
  BY <1>2, <1>5
<1>7. ASSUME Queue # <<>> PROVE Queue[1] \in CpReqs /\ walk[n].chunks[Queue[1]] > 0
  <2>1. n > 0
    BY <1>2, <1>7
  <2> QED BY <1>2, <1>5, <2>1
<1>8. walk[n].chunks \in [CpReqs -> Nat]
  BY <1>6 DEF Walks
<1>9. \A r \in CpReqs : /\ Walked.chunks[r] > 0 => r \in ToSet(Queue)
                        /\ r \in ToSet(Queue) => GoodChunk(r, Walked.chunks[r])
  BY <1>1, <1>6
<1> QED BY <1>1, <1>7, <1>8, <1>9, QueueType

(* A prefill step gets on, and what it leaves queued may resume. *)
LEMMA PrefillStepInv ==
  ASSUME CpInv, PrefillStep
  PROVE  CpInv'
<1> DEFINE chunks == Walked.chunks
           done == [r \in CpReqs |-> cpDone[r] + chunks[r]]
           unfinished == {r \in CpReqs : done[r] < cpTokens[r]}
           admitted == Within(cpWaiting, {r \in CpReqs : chunks[r] > 0})
<1>1. /\ chunks \in [CpReqs -> Nat]
      /\ \A r \in ToSet(Queue) : GoodChunk(r, chunks[r])
      /\ Queue # <<>> => \E r \in CpReqs : chunks[r] > 0
      /\ \A r \in CpReqs : chunks[r] > 0 => r \in ToSet(Queue)
  BY WalkedFacts
<1>2. /\ cpTokens \in [CpReqs -> Nat] /\ cpDone \in [CpReqs -> Nat]
      /\ cpRunning \in Seq(CpReqs) /\ cpWaiting \in Seq(CpReqs)
      /\ \A r \in ToSet(Queue) : Resumable(r)
  BY DEF CpInv
<1>3. /\ Queue # <<>>
      /\ cpDone' = done
      /\ cpTokens' = [r \in CpReqs |-> IF chunks[r] > 0 /\ r \notin unfinished
                                       THEN cpTokens[r] + 1 ELSE cpTokens[r]]
      /\ cpRunning' = Within(cpRunning \o admitted, unfinished)
      /\ cpWaiting' = Within(cpWaiting, {r \in CpReqs : chunks[r] = 0})
      /\ cpIdle' = (\A r \in CpReqs : chunks[r] = 0)
      /\ UNCHANGED cpLaunch
      /\ cpFeatured' = cpFeatured
  BY DEF PrefillStep
<1> HIDE DEF chunks
<1>4. /\ Distinct(cpRunning) /\ Distinct(cpWaiting) /\ ToSet(cpRunning) \cap ToSet(cpWaiting) = {}
      /\ ToSet(Queue) = ToSet(cpRunning) \cup ToSet(cpWaiting) /\ ToSet(Queue) \subseteq CpReqs
  BY QueueType
<1>5. /\ admitted \in Seq(CpReqs) /\ Distinct(admitted)
      /\ ToSet(admitted) = {r \in ToSet(cpWaiting) : chunks[r] > 0}
  BY <1>2, <1>4, WithinFacts
<1>6. /\ cpWaiting' \in Seq(CpReqs) /\ Distinct(cpWaiting')
      /\ ToSet(cpWaiting') = {r \in ToSet(cpWaiting) : chunks[r] = 0}
  BY <1>2, <1>3, <1>4, WithinFacts
<1> HIDE DEF admitted
<1>7. /\ cpRunning \o admitted \in Seq(CpReqs) /\ Distinct(cpRunning \o admitted)
      /\ ToSet(cpRunning \o admitted) = ToSet(cpRunning) \cup ToSet(admitted)
  <2>1. ToSet(cpRunning) \cap ToSet(admitted) = {}
    BY <1>4, <1>5
  <2> QED BY <1>2, <1>4, <1>5, <2>1, Joined
<1> HIDE DEF unfinished
<1>8. /\ cpRunning' \in Seq(CpReqs) /\ Distinct(cpRunning')
      /\ ToSet(cpRunning') = (ToSet(cpRunning) \cup ToSet(admitted)) \cap unfinished
  <2> DEFINE X == cpRunning \o admitted
  <2>1. /\ X \in Seq(CpReqs) /\ Distinct(X) /\ cpRunning' = Within(X, unfinished)
        /\ ToSet(X) = ToSet(cpRunning) \cup ToSet(admitted)
    BY <1>3, <1>7
  <2> HIDE DEF X
  <2> QED BY <2>1, WithinFacts
<1>9. Distinct(Queue') /\ ToSet(Queue') = ToSet(cpRunning') \cup ToSet(cpWaiting')
  <2>1. ToSet(cpRunning') \cap ToSet(cpWaiting') = {}
    BY <1>4, <1>5, <1>6, <1>8
  <2> QED BY <1>6, <1>8, <2>1, Joined DEF Queue
<1>10. ASSUME NEW r \in ToSet(Queue') PROVE Resumable(r)'
  <2>1. r \in ToSet(Queue) /\ r \in CpReqs
    BY <1>4, <1>5, <1>6, <1>8, <1>9
  <2>2. /\ cpTokens[r] \in Nat /\ cpDone[r] \in Nat /\ cpDone[r] < cpTokens[r] /\ chunks[r] \in Nat
        /\ cpDone[r] + chunks[r] < cpTokens[r]
             => ~Rounds \/ r \in cpFeatured \/ OnGrid(cpDone[r] + chunks[r])
    BY <1>1, <1>2, <2>1 DEF Resumable, GoodChunk
  <2>3. cpDone'[r] = cpDone[r] + chunks[r]
    BY <1>3, <2>1
  <2>4. r \in unfinished <=> cpDone'[r] < cpTokens[r]
    BY <2>1, <2>3 DEF unfinished
  <2>5. cpDone'[r] < cpTokens[r]
    BY <1>6, <1>8, <1>9, <2>2, <2>3, <2>4
  <2>6. cpTokens'[r] = cpTokens[r]
    BY <1>3, <2>1, <2>4, <2>5
  <2> QED BY <1>3, <2>2, <2>3, <2>5, <2>6 DEF Resumable, ResumesWell, OnGrid, Rounds, cpLaunch
<1>11. cpTokens' \in [CpReqs -> Nat] /\ cpDone' \in [CpReqs -> Nat]
  BY <1>1, <1>2, <1>3
<1>12. cpIdle' = FALSE
  <2>1. PICK r \in CpReqs : chunks[r] > 0
    BY <1>1, <1>3
  <2>2. chunks[r] # 0
    BY <2>1
  <2> QED BY <1>3, <2>2
<1>13. cpBudget' \in Nat \ {0} /\ cpThreshold' \in Nat /\ CanReachGrid'
  BY <1>3 DEF CpInv, CanReachGrid, Rounds, StepCap, cpLaunch
<1> QED BY <1>6, <1>8, <1>9, <1>10, <1>11, <1>12, <1>13 DEF CpInv

(* A new prompt is behind the others. *)
LEMMA NewPromptInv ==
  ASSUME CpInv, NEW r \in CpReqs, NEW tokens \in CpLengths, NEW hit \in Hits(tokens),
         NEW featured \in BOOLEAN, NewPrompt(r, tokens, hit, featured)
  PROVE  CpInv'
<1>1. /\ cpTokens \in [CpReqs -> Nat] /\ cpDone \in [CpReqs -> Nat]
      /\ cpRunning \in Seq(CpReqs) /\ cpWaiting \in Seq(CpReqs)
      /\ \A q \in ToSet(Queue) : Resumable(q)
  BY DEF CpInv
<1>2. /\ cpTokens[r] = 0 /\ cpTokens' = [cpTokens EXCEPT ![r] = tokens]
      /\ cpDone' = [cpDone EXCEPT ![r] = hit] /\ cpWaiting' = Append(cpWaiting, r)
      /\ cpIdle' = FALSE /\ UNCHANGED cpLaunch
      /\ cpRunning' = cpRunning
      /\ cpFeatured' = IF featured THEN cpFeatured \cup {r} ELSE cpFeatured
  BY DEF NewPrompt
<1>3. /\ tokens \in Nat \ {0} /\ hit \in Nat /\ hit < tokens /\ hit % CpBlock = 0
  BY CpAssumption DEF Hits
<1>4. r \notin ToSet(Queue)
  BY <1>1, <1>2 DEF Resumable
<1>5. /\ cpWaiting' \in Seq(CpReqs) /\ Distinct(cpWaiting')
      /\ ToSet(cpWaiting') = ToSet(cpWaiting) \cup {r}
  BY <1>1, <1>2, <1>4, QueueType, Appended
<1>6. Distinct(Queue') /\ ToSet(Queue') = ToSet(Queue) \cup {r}
  <2>1. ToSet(Queue) = ToSet(cpRunning) \cup ToSet(cpWaiting)
        /\ ToSet(cpRunning) \cap ToSet(cpWaiting) = {} /\ Distinct(cpRunning)
    BY QueueType
  <2>2. ToSet(cpRunning) \cap ToSet(cpWaiting') = {}
    BY <1>4, <1>5, <2>1
  <2>3. /\ ToSet(cpRunning \o cpWaiting') = ToSet(cpRunning) \cup ToSet(cpWaiting')
        /\ Distinct(cpRunning \o cpWaiting')
    BY <1>1, <1>5, <2>1, <2>2, Joined
  <2>4. Queue' = cpRunning \o cpWaiting'
    BY <1>2 DEF Queue
  <2> QED BY <1>5, <2>1, <2>3, <2>4
<1>7. ASSUME NEW q \in ToSet(Queue') PROVE Resumable(q)'
  <2>1. CASE q = r
    BY <1>1, <1>2, <1>3, <2>1, ResumableOnBlock
  <2>2. CASE q # r
    <3>1. q \in ToSet(Queue) /\ q \in CpReqs
      BY <1>6, <2>2, QueueType
    <3> QED BY <1>1, <1>2, <2>2, <3>1, StillResumable
  <2> QED BY <2>1, <2>2
<1>8. cpTokens' \in [CpReqs -> Nat] /\ cpDone' \in [CpReqs -> Nat]
  BY <1>1, <1>2, <1>3
<1>9. cpBudget' \in Nat \ {0} /\ cpThreshold' \in Nat /\ CanReachGrid'
  BY <1>2 DEF CpInv, CanReachGrid, Rounds, StepCap, cpLaunch
<1> QED BY <1>1, <1>2, <1>5, <1>6, <1>7, <1>8, <1>9 DEF CpInv

(* A decode leaves the prompts alone. *)
LEMMA DecodeOneInv ==
  ASSUME CpInv, NEW r \in CpReqs, NEW ends \in BOOLEAN, DecodeOne(r, ends)
  PROVE  CpInv'
<1>1. /\ cpTokens \in [CpReqs -> Nat] /\ cpDone \in [CpReqs -> Nat]
      /\ \A q \in ToSet(Queue) : Resumable(q)
  BY DEF CpInv
<1>2. /\ cpTokens' = [cpTokens EXCEPT ![r] = IF ends THEN 0 ELSE @ + 1]
      /\ cpDone' = [cpDone EXCEPT ![r] = IF ends THEN 0 ELSE @ + 1]
      /\ cpIdle' = FALSE /\ UNCHANGED cpLaunch
      /\ cpRunning' = cpRunning /\ cpWaiting' = cpWaiting
      /\ r \notin ToSet(Queue)
      /\ cpFeatured' = IF ends THEN cpFeatured \ {r} ELSE cpFeatured
  BY DEF DecodeOne, Decoding
<1>3. Queue' = Queue
  BY <1>2 DEF Queue
<1>4. ASSUME NEW q \in ToSet(Queue) PROVE Resumable(q)'
  <2>1. q \in CpReqs /\ q # r
    BY <1>2, QueueType
  <2> QED BY <1>1, <1>2, <2>1, StillResumable
<1>5. cpTokens' \in [CpReqs -> Nat] /\ cpDone' \in [CpReqs -> Nat]
  BY <1>1, <1>2
<1>6. cpBudget' \in Nat \ {0} /\ cpThreshold' \in Nat /\ CanReachGrid'
  BY <1>2 DEF CpInv, CanReachGrid, Rounds, StepCap, cpLaunch
<1> QED BY <1>2, <1>3, <1>4, <1>5, <1>6 DEF CpInv

(* A preempted request resumes from a cache hit, on a block. *)
LEMMA PreemptReqInv ==
  ASSUME CpInv, NEW r \in CpReqs, NEW hit \in Hits(cpTokens[r]), PreemptReq(r, hit)
  PROVE  CpInv'
<1>1. /\ cpTokens \in [CpReqs -> Nat] /\ cpDone \in [CpReqs -> Nat]
      /\ cpRunning \in Seq(CpReqs) /\ cpWaiting \in Seq(CpReqs)
      /\ \A q \in ToSet(Queue) : Resumable(q)
  BY DEF CpInv
<1>2. /\ cpDone' = [cpDone EXCEPT ![r] = hit] /\ cpRunning' = Within(cpRunning, CpReqs \ {r})
      /\ cpWaiting' = <<r>> \o cpWaiting /\ cpIdle' = FALSE
      /\ UNCHANGED cpLaunch /\ cpTokens' = cpTokens /\ cpFeatured' = cpFeatured
      /\ r \in Decoding \cup ToSet(cpRunning)
  BY DEF PreemptReq
<1>3. hit \in Nat /\ hit < cpTokens[r] /\ hit % CpBlock = 0
  BY <1>1 DEF Hits
<1>4. r \notin ToSet(cpWaiting)
  BY <1>2, QueueType DEF Decoding
<1>5. /\ cpRunning' \in Seq(CpReqs) /\ Distinct(cpRunning')
      /\ ToSet(cpRunning') = ToSet(cpRunning) \ {r}
  <2>1. Distinct(cpRunning) /\ ToSet(cpRunning) \subseteq CpReqs
    BY QueueType
  <2>2. ToSet(cpRunning) \cap (CpReqs \ {r}) = ToSet(cpRunning) \ {r}
    BY <2>1
  <2> QED BY <1>1, <1>2, <2>1, <2>2, WithinFacts
<1>6. /\ cpWaiting' \in Seq(CpReqs) /\ Distinct(cpWaiting')
      /\ ToSet(cpWaiting') = ToSet(cpWaiting) \cup {r}
  <2>1. <<r>> \in Seq(CpReqs) /\ ToSet(<<r>>) = {r} /\ Distinct(<<r>>)
    BY DEF ToSet, Distinct
  <2>2. Distinct(cpWaiting)
    BY QueueType
  <2> DEFINE one == <<r>>
  <2>3. cpWaiting' = one \o cpWaiting
    BY <1>2
  <2> HIDE DEF one
  <2>4. ToSet(one) \cap ToSet(cpWaiting) = {}
    BY <1>4, <2>1 DEF one
  <2>5. /\ one \o cpWaiting \in Seq(CpReqs) /\ Distinct(one \o cpWaiting)
        /\ ToSet(one \o cpWaiting) = ToSet(one) \cup ToSet(cpWaiting)
    <3>1. one \in Seq(CpReqs) /\ Distinct(one)
      BY <2>1 DEF one
    <3> QED BY <1>1, <2>2, <2>4, <3>1, Joined
  <2> QED BY <2>1, <2>3, <2>5 DEF one
<1>7. Distinct(Queue') /\ ToSet(Queue') = ToSet(cpRunning') \cup ToSet(cpWaiting')
  <2>1. ToSet(cpRunning') \cap ToSet(cpWaiting') = {}
    BY <1>5, <1>6, QueueType
  <2> QED BY <1>5, <1>6, <2>1, Joined DEF Queue
<1>8. ASSUME NEW q \in ToSet(Queue') PROVE Resumable(q)'
  <2>1. CASE q = r
    BY <1>1, <1>2, <1>3, <2>1, ResumableOnBlock
  <2>2. CASE q # r
    <3>1. q \in ToSet(Queue) /\ q \in CpReqs
      BY <1>5, <1>6, <1>7, <2>2, QueueType
    <3> QED BY <1>1, <1>2, <2>2, <3>1, StillResumable
  <2> QED BY <2>1, <2>2
<1>9. cpTokens' \in [CpReqs -> Nat] /\ cpDone' \in [CpReqs -> Nat]
  BY <1>1, <1>2, <1>3
<1>10. cpBudget' \in Nat \ {0} /\ cpThreshold' \in Nat /\ CanReachGrid'
  BY <1>2 DEF CpInv, CanReachGrid, Rounds, StepCap, cpLaunch
<1> QED BY <1>2, <1>5, <1>6, <1>7, <1>8, <1>9, <1>10 DEF CpInv

(* Nothing is queued at first. *)
LEMMA CpInitInv ==
  CpInit => CpInv
<1> SUFFICES ASSUME CpInit PROVE CpInv
  OBVIOUS
<1>1. /\ cpBudget \in Nat \ {0} /\ cpThreshold \in Nat /\ cpAlign \in Nat
      /\ Rounds => StepCap >= cpAlign
  BY CpAssumption DEF CpInit
<1>2. StepCap \in Nat
  <2>1. Min({cpBudget, cpThreshold}) = IF cpBudget <= cpThreshold THEN cpBudget ELSE cpThreshold
    BY <1>1, MinOfTwo
  <2> QED BY <1>1, <2>1 DEF StepCap
<1>3. Queue = <<>>
  BY DEF CpInit, Queue
<1>4. Distinct(Queue) /\ ToSet(Queue) = {}
  BY <1>3 DEF Distinct, ToSet
<1> QED BY <1>1, <1>2, <1>4 DEF CpInit, CpInv, CanReachGrid

(* Rounding chunk ends down neither stalls the scheduler nor leaves a prompt
   inside a KV block off its grid: for every alignment, whole blocks or not,
   every budget and threshold that pass validation, and any number of prompts,
   multimodal ones among them. *)
THEOREM ChunksAlwaysAdvance == CpSpec => []ChunksAdvance
<1>1. CpInv /\ [CpNext]_cpVars => CpInv'
  <2> SUFFICES ASSUME CpInv, [CpNext]_cpVars PROVE CpInv'
    OBVIOUS
  <2>1. CASE PrefillStep
    BY <2>1, PrefillStepInv
  <2>2. CASE \E r \in CpReqs : \E tokens \in CpLengths, featured \in BOOLEAN :
               \E hit \in Hits(tokens) : NewPrompt(r, tokens, hit, featured)
    BY <2>2, NewPromptInv
  <2>3. CASE \E r \in CpReqs : \E ends \in BOOLEAN : DecodeOne(r, ends)
    BY <2>3, DecodeOneInv
  <2>4. CASE \E r \in CpReqs : \E hit \in Hits(cpTokens[r]) : PreemptReq(r, hit)
    BY <2>4, PreemptReqInv
  <2>5. CASE UNCHANGED cpVars
    BY <2>5 DEF cpVars, cpLaunch, CpInv, CanReachGrid, Rounds, Queue, StepCap, Resumable,
                 ResumesWell, OnGrid
  <2> QED BY <2>1, <2>2, <2>3, <2>4, <2>5 DEF CpNext
<1>2. CpInv => ChunksAdvance
  BY DEF CpInv, ChunksAdvance, Resumable
<1> QED BY <1>1, <1>2, CpInitInv, PTL DEF CpSpec

=============================================================================
