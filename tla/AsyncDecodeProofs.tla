--------------------------- MODULE AsyncDecodeProofs ---------------------------
(***************************************************************************)
(* AsyncDecode for any requests, sampling and drafting, any length and any *)
(* number of disruptions: the apply path never raises, every forward       *)
(* starts from the right token, and a client sees the stream that          *)
(* TokenStream promises.                                                   *)
(***************************************************************************)
EXTENDS AsyncDecode, FiniteSetTheorems, TLAPS

-----------------------------------------------------------------------------
(* Short sequences. *)

(* Sets of at most two indices are counted one by one. *)
LEMMA CountTwo ==
  ASSUME NEW S, S \subseteq {1, 2}
  PROVE  Cardinality(S) = (IF 1 \in S THEN 1 ELSE 0) + (IF 2 \in S THEN 1 ELSE 0)
<1>1. CASE S = {}
  <2>1. Cardinality(S) = 0
    BY <1>1, FS_EmptySet, Zenon
  <2>2. 1 \notin S /\ 2 \notin S
    BY <1>1
  <2> HIDE <1>1
  <2> QED BY <2>1, <2>2
<1>2. CASE S = {1}
  <2>1. Cardinality(S) = 1
    BY <1>2, FS_Singleton, Zenon
  <2>2. 1 \in S /\ 2 \notin S
    BY <1>2
  <2> HIDE <1>2
  <2> QED BY <2>1, <2>2
<1>3. CASE S = {2}
  <2>1. Cardinality(S) = 1
    BY <1>3, FS_Singleton, Zenon
  <2>2. 1 \notin S /\ 2 \in S
    BY <1>3
  <2> HIDE <1>3
  <2> QED BY <2>1, <2>2
<1>4. CASE S = {1, 2}
  <2>1. IsFiniteSet({1}) /\ Cardinality({1}) = 1
    BY FS_Singleton
  <2>2. {1, 2} = {1} \cup {2} /\ 2 \notin {1}
    OBVIOUS
  <2>3. Cardinality({1} \cup {2}) = Cardinality({1}) + 1
    BY <2>1, <2>2, FS_AddElement
  <2> QED BY <1>4, <2>1, <2>2, <2>3
<1> QED BY <1>1, <1>2, <1>3, <1>4


(* Flattening no sequence gives the empty one. *)
LEMMA FlattenNone ==
  ASSUME NEW s, s = <<>>
  PROVE  FlattenSeq(s) = <<>>
BY DEF FlattenSeq

(* Flattening a sequence of one sequence gives that one. *)
LEMMA FlattenOne ==
  ASSUME NEW s \in Seq(Seq(Nat)), Len(s) = 1
  PROVE  FlattenSeq(s) = s[1]
<1> DEFINE rec(f) == [i \in 1 .. Len(s) |-> IF i = 1 THEN s[i] ELSE f[i - 1] \o s[i]]
           flat == CHOOSE f : f = rec(f)
           g == [i \in 1 .. 1 |-> s[1]]
<1>1. g = rec(g)
  OBVIOUS
<1>2. flat = rec(flat)
  <2> HIDE DEF g, rec
  <2> QED BY <1>1
<1>3. flat[1] = s[1]
  <2>1. rec(flat)[1] = s[1]
    OBVIOUS
  <2> HIDE DEF flat, rec
  <2> QED BY <1>2, <2>1
<1>4. FlattenSeq(s) = flat[1]
  BY DEF FlattenSeq
<1> QED BY <1>3, <1>4

(* Flattening two sequences of numbers puts them together. *)
LEMMA FlattenTwo ==
  ASSUME NEW s \in Seq(Seq(Nat)), Len(s) = 2
  PROVE  FlattenSeq(s) = s[1] \o s[2]
<1> DEFINE rec(f) == [i \in 1 .. Len(s) |-> IF i = 1 THEN s[i] ELSE f[i - 1] \o s[i]]
           flat == CHOOSE f : f = rec(f)
           g == [i \in 1 .. 2 |-> IF i = 1 THEN s[1] ELSE s[1] \o s[2]]
<1>1. g = rec(g)
  <2>1. g[1] = s[1] /\ g[2] = s[1] \o s[2]
    OBVIOUS
  <2>2. \A i \in 1 .. 2 : g[i] = IF i = 1 THEN s[i] ELSE g[i - 1] \o s[i]
    <3> HIDE DEF g
    <3> TAKE i \in 1 .. 2
    <3>1. CASE i = 1
      BY <2>1, <3>1
    <3>2. CASE i = 2
      <4>1. i - 1 = 1 /\ i # 1
        BY <3>2
      <4> QED BY <2>1, <3>2, <4>1
    <3> QED BY <3>1, <3>2
  <2>3. g = [i \in 1 .. 2 |-> g[i]]
    OBVIOUS
  <2> HIDE DEF g
  <2> QED BY <2>2, <2>3
<1>2. flat = rec(flat)
  <2> HIDE DEF g, rec
  <2> QED BY <1>1
<1>3. flat[1] = s[1] /\ flat[2] = flat[1] \o s[2]
  <2> HIDE DEF flat
  <2>1. rec(flat)[1] = s[1]
    OBVIOUS
  <2>2. rec(flat)[2] = flat[2 - 1] \o s[2]
    <3>1. 2 \in 1 .. Len(s) /\ 2 # 1
      OBVIOUS
    <3> QED BY <3>1, Zenon
  <2>3. 2 - 1 = 1
    OBVIOUS
  <2> HIDE DEF rec
  <2> QED BY <1>2, <2>1, <2>2, <2>3
<1>4. FlattenSeq(s) = flat[2]
  BY DEF FlattenSeq
<1> QED BY <1>3, <1>4

-----------------------------------------------------------------------------
(* The inductive invariant. *)

(* The engine builds a step: before it has applied what is completed, and
   after. *)
Early == {"preflight", "wait", "update", "apply"}
Late  == {"waitAgain", "prune", "applyAgain", "submit"}
Building == pc \in Early \cup Late

(* The i-th step of the queue is outstanding; its result is not read yet. *)
Open(i) == i \in DOMAIN queue /\ step[queue[i]].stage # "resolved"
Unread(i) == i \in DOMAIN queue /\ step[queue[i]].stage = "submitted"
SomeOpen == \E i \in DOMAIN queue : Open(i)

(* The results the runner has still to apply, oldest first: those read back,
   and those in the queue that will be. *)
Joined(c, q, a, b) ==
  LET one == IF a THEN Append(c, q[1]) ELSE c
  IN  IF b THEN Append(one, q[2]) ELSE one
Line == Joined(completed, queue, Unread(1), Unread(2))

Out(i, r) == step[i].out[r]

Steps == [kind : Kinds, sched : SUBSET Reqs, rows : SUBSET Reqs, out : [Reqs -> Seq(Nat)],
          stage : Stages]
Curs == [id : Nat, kind : Kinds, sched : SUBSET Reqs, rows : SUBSET Reqs, new : SUBSET Reqs,
         resumed : SUBSET Reqs, fin : SUBSET Reqs, pre : SUBSET Reqs, disc : [Reqs -> Nat]]
Entries == [id : Ids, overlapOk : BOOLEAN]
Chains == [valid : BOOLEAN, device : BOOLEAN, verified : BOOLEAN, hostAnswered : BOOLEAN]

SchedTypes ==
  /\ status \in [Reqs -> Statuses]
  /\ hist \in [Reqs -> Seq(Nat)]
  /\ stale \in [Reqs -> Nat] /\ drop \in [Reqs -> BOOLEAN]
  /\ frames \in [Reqs -> Nat] /\ discards \in [Reqs -> Nat]
  /\ finPend \subseteq Reqs

RunnerTypes ==
  /\ known \subseteq Reqs /\ batch \subseteq Reqs /\ slotted \subseteq Reqs
  /\ layoutChanged \in BOOLEAN
  /\ app \in [Reqs -> Seq(Nat)]
  /\ proposed \in [Reqs -> Nat] /\ accepted \subseteq Reqs
  /\ resident \in [Reqs -> Nat]
  /\ chain \in Chains

QueueTypes ==
  /\ pending \in Seq(Entries) /\ Len(pending) <= 2
  /\ completed \in Seq(Ids)
  /\ queue \in Seq(Ids) /\ Len(queue) <= 2
  /\ step \in [Ids -> Steps]
  /\ cur \in Curs
  /\ pc \in {"idle", "pop"} \cup Early \cup Late

(* What a step by id says. *)
StepData ==
  \A i \in Ids :
    /\ step[i].rows \subseteq step[i].sched
    /\ \A r \in Reqs : Out(i, r) # <<>> => r \in step[i].rows
    /\ step[i].stage # "resolved" => step[i].rows = step[i].sched /\ step[i].sched # {}

(* The step being built. *)
Current ==
  /\ ~Building => cur = NoStep
  /\ Building =>
       /\ cur.id \in Ids \ UsedIds
       /\ cur.rows \subseteq cur.sched /\ cur.new \subseteq cur.sched
       /\ cur.kind \in {"none", "prefill", "decode"}
       /\ cur.kind = "none" <=> cur.sched = {}
       /\ cur.kind = "decode" => cur.rows = cur.sched
       /\ \A r \in cur.sched : status[r] = IF r \in cur.rows THEN "running" ELSE "partial"
       /\ finPend = {} /\ discards = NoCounts
  /\ IF pc = "pop" THEN queue # <<>> ELSE Len(queue) <= 1

(* The queue and the pending steps. *)
Order ==
  /\ Len(queue) = 2 => queue[1] # queue[2]
  /\ Len(pending) = 2 => pending[1].id # pending[2].id
  /\ \E a, b \in Ids : UsedIds \subseteq {a, b}
  /\ \A i \in DOMAIN queue : Open(i) => step[queue[i]].sched = batch /\ queue[i] \in PendingIds
  /\ \A i \in DOMAIN pending : step[pending[i].id].stage # "resolved" => pending[i].id \in ToSet(queue)
  /\ Open(Len(queue)) => pending # <<>> /\ pending[Len(pending)].id = queue[Len(queue)]
  /\ pc \in Late \cup {"apply"} => Len(pending) <= 1 /\ PendingIds \subseteq ToSet(queue)
  /\ pc \in {"prune", "applyAgain"} => ~SomeOpen
  /\ pc = "applyAgain" => pending = <<>>

(* The results still to be applied.  Before it applies, the runner has not
   seen the newest result; afterwards only an overlapped step is left. *)
Lines ==
  /\ Len(Line) <= 2
  /\ Len(Line) = 2 => Line[1] # Line[2]
  /\ \A i \in ToSet(completed) : step[i].stage # "submitted"
  /\ \A i \in ToSet(Line) : step[i].rows # {} /\ \A r \in step[i].rows : Out(i, r) # <<>>
  /\ pc \notin Late /\ queue # <<>> /\ step[queue[Len(queue)]].rows # {} =>
       Line # <<>> /\ Line[Len(Line)] = queue[Len(queue)]
  /\ pc \in Late => ToSet(Line) \subseteq ToSet(queue)
  /\ pc = "submit" /\ Line # <<>> => pending # <<>>

(* A step that is built over an outstanding one is a steady decode. *)
SteadyFacts ==
  /\ cur.kind = "decode" /\ ~layoutChanged /\ chain.valid /\ chain.device
  /\ batch = cur.sched /\ batch \cap HostSampled = {}
  /\ cur.disc = NoCounts
  /\ \A i \in DOMAIN pending : pending[i].overlapOk

Overlap ==
  /\ pc = "update" /\ SomeOpen => SteadyFacts
  /\ pc \in Late \cup {"apply"} => batch = cur.sched /\ (pending # <<>> => SteadyFacts)
  /\ pc = "submit" /\ pending # <<>> => ~Verifies
  /\ pending # <<>> /\ pending[Len(pending)].overlapOk => ~chain.verified /\ ~chain.hostAnswered

(* Results of r that the apply path has been told, or will be, to discard. *)
Discarded(r) == IF pc \in Early THEN cur.disc[r] ELSE discards[r]

Parked(r) == status[r] \in {"preempted", "done"} \/ r \in cur.sched

Knowing ==
  /\ finPend \cup cur.fin \subseteq {r \in Reqs : status[r] = "done"}
  /\ \A r \in Reqs : status[r] \in {"partial", "running", "preempted"} =>
       r \in known \cup IF pc \in {"preflight", "wait", "update"} THEN cur.new ELSE {}
  /\ \A r \in Reqs : status[r] \in {"new", "waiting"} =>
       hist[r] = <<>> /\ app[r] = <<>> /\ \A i \in Ids : r \notin step[i].sched
  /\ \A i \in ToSet(Line) : step[i].rows \subseteq known \cup IF pc = "apply" THEN cur.fin ELSE {}

(* At most one result of a request is stale, or to be discarded, and it is
   still there. *)
Resets ==
  \A r \in Reqs :
    /\ Discarded(r) <= 1
    /\ Discarded(r) = 1 => Parked(r) /\ \E n \in DOMAIN Line : r \in step[Line[n]].rows
    /\ stale[r] > 0 => /\ stale[r] = 1 /\ queue # <<>> /\ r \in step[queue[1]].sched
                       /\ Parked(r) \/ Len(queue) = 2

(* A request whose end the runner has been told of has no result in flight. *)
Withdrawn ==
  \A r \in Reqs : status[r] = "done" /\ r \notin finPend /\ (r \in cur.fin => pc \in Late) =>
    \A i \in DOMAIN queue : Out(queue[i], r) = <<>>

(* s continues a history of a tokens. *)
Continues(s, a) == \A k \in DOMAIN s : s[k] = a + k

(* Tokens of r that the scheduler will take from the i-th step of the queue. *)
Dropped(r) == stale[r] > 0 /\ drop[r]
Coming(r, i) == IF i = 1 /\ Dropped(r) THEN 0 ELSE InQueue(r, i)
Total(r) == Len(hist[r]) + Coming(r, 1) + Coming(r, 2)

(* Tokens of r that the runner will apply from the n-th result of the line. *)
Lost(r, n) == /\ Discarded(r) = 1 /\ Out(Line[n], r) # <<>>
              /\ \A m \in DOMAIN Line : m > n => Out(Line[m], r) = <<>>
Gain(r, n) == IF n \in DOMAIN Line /\ ~Lost(r, n) THEN Len(Out(Line[n], r)) ELSE 0

(* What was delivered and what will be is one stream, and what the runner
   applied and will apply is the same one. *)
FlowOf(r) ==
  /\ Len(hist[r]) < MaxTokens
  /\ 1 \in DOMAIN queue /\ ~Dropped(r) => Continues(Out(queue[1], r), Len(hist[r]))
  /\ 2 \in DOMAIN queue => Continues(Out(queue[2], r), Len(hist[r]) + Coming(r, 1))
  /\ Continues(app[r], 0)
  /\ 1 \in DOMAIN Line /\ ~Lost(r, 1) => Continues(Out(Line[1], r), Len(app[r]))
  /\ 2 \in DOMAIN Line /\ ~Lost(r, 2) => Continues(Out(Line[2], r), Len(app[r]) + Gain(r, 1))
  /\ Len(app[r]) + Gain(r, 1) + Gain(r, 2) = Total(r)
  /\ status[r] = "running" /\ ~(cur.kind = "prefill" /\ r \in cur.sched) => Total(r) > 0

Delivery == \A r \in Reqs : Continues(hist[r], 0) /\ Len(hist[r]) <= MaxTokens
Flow == \A r \in Reqs : Live(r) => FlowOf(r)

(* A chain that may be continued holds the last token of every row that the
   next decode can have. *)
Resident ==
  /\ chain.valid /\ chain.device /\ ~chain.verified /\ ~chain.hostAnswered
  /\ ~layoutChanged /\ cur.kind # "prefill"
  => \A r \in batch : status[r] = "running" => resident[r] = Total(r)

(* The frame counts, with the steps of the queue taken one by one. *)
Carries(r, i) == IF i \in DOMAIN queue /\ r \in step[queue[i]].rows THEN 1 ELSE 0
Frames ==
  \A r \in Reqs : frames[r] = Carries(r, 1) + Carries(r, 2) + IF r \in cur.rows THEN 1 ELSE 0

Types == SchedTypes /\ RunnerTypes /\ QueueTypes

IInv ==
  /\ Types /\ StepData /\ Current /\ Order /\ Lines /\ Overlap
  /\ Knowing /\ Resets /\ Withdrawn
  /\ Delivery /\ Flow /\ Resident
  /\ Frames /\ NoFault

-----------------------------------------------------------------------------
(* Sequences of ids, and the line. *)

(* What appending an element does to length, elements and range. *)
LEMMA Appended ==
  ASSUME NEW X, NEW s \in Seq(X), NEW e \in X
  PROVE  /\ Append(s, e) \in Seq(X) /\ Len(Append(s, e)) = Len(s) + 1
         /\ DOMAIN Append(s, e) = 1 .. Len(s) + 1 /\ Append(s, e) # <<>>
         /\ Len(s) \in Nat /\ DOMAIN s = 1 .. Len(s)
         /\ \A i \in 1 .. Len(s) : Append(s, e)[i] = s[i]
         /\ Append(s, e)[Len(s) + 1] = e
         /\ ToSet(Append(s, e)) = ToSet(s) \cup {e}
<1> DEFINE t == Append(s, e)
           n == Len(s)
<1>1. n \in Nat /\ DOMAIN s = 1 .. n
  OBVIOUS
<1>2. t \in Seq(X) /\ Len(t) = n + 1
  OBVIOUS
<1>3. DOMAIN t = 1 .. n + 1
  BY <1>2
<1>4. (\A i \in 1 .. n : t[i] = s[i]) /\ t[n + 1] = e
  OBVIOUS
<1>5. t # <<>>
  <2>1. Len(t) # 0
    BY <1>1, <1>2
  <2>2. Len(<<>>) = 0
    OBVIOUS
  <2> HIDE DEF t
  <2> QED BY <2>1, <2>2
<1> HIDE DEF t, n
<1>6. \A i \in 1 .. n + 1 : i \in 1 .. n \/ i = n + 1
  BY <1>1
<1>7. \A i \in 1 .. n : i \in 1 .. n + 1
  BY <1>1
<1>8. n + 1 \in 1 .. n + 1
  BY <1>1
<1>9. ToSet(t) = ToSet(s) \cup {e}
  BY <1>1, <1>3, <1>4, <1>6, <1>7, <1>8 DEF ToSet
<1> QED BY <1>1, <1>2, <1>3, <1>4, <1>5, <1>9 DEF t, n

(* A sequence of at most two elements. *)
LEMMA ShortSeq ==
  ASSUME NEW X, NEW s \in Seq(X), Len(s) <= 2
  PROVE  /\ Len(s) \in {0, 1, 2} /\ DOMAIN s = 1 .. Len(s)
         /\ s = <<>> <=> Len(s) = 0
         /\ 1 \in DOMAIN s <=> Len(s) # 0
         /\ 2 \in DOMAIN s <=> Len(s) = 2
         /\ Len(s) = 0 => DOMAIN s = {} /\ ToSet(s) = {}
         /\ Len(s) = 1 => DOMAIN s = {1} /\ ToSet(s) = {s[1]}
         /\ Len(s) = 2 => DOMAIN s = {1, 2} /\ ToSet(s) = {s[1], s[2]}
         /\ \A i \in DOMAIN s : i \in {1, 2} /\ s[i] \in X /\ s[i] \in ToSet(s)
         /\ ToSet(s) \subseteq X
<1>1. Len(s) \in Nat /\ DOMAIN s = 1 .. Len(s)
  OBVIOUS
<1>2. Len(s) \in {0, 1, 2}
  BY <1>1
<1>3. s = <<>> <=> Len(s) = 0
  OBVIOUS
<1>4. /\ Len(s) = 0 => DOMAIN s = {}
      /\ Len(s) = 1 => DOMAIN s = {1}
      /\ Len(s) = 2 => DOMAIN s = {1, 2}
  BY <1>1
<1>5. \A i \in DOMAIN s : s[i] \in X
  OBVIOUS
<1>6. ToSet(s) = {s[i] : i \in DOMAIN s}
  BY DEF ToSet
<1> HIDE DEF ToSet
<1> QED BY <1>1, <1>2, <1>3, <1>4, <1>5, <1>6

(* Without its first element. *)
LEMMA ShortTail ==
  ASSUME NEW X, NEW s \in Seq(X), Len(s) <= 2, s # <<>>
  PROVE  /\ Tail(s) \in Seq(X) /\ Len(Tail(s)) = Len(s) - 1 /\ Head(s) = s[1]
         /\ Len(s) = 2 => Tail(s)[1] = s[2]
         /\ ToSet(Tail(s)) \subseteq ToSet(s)
         /\ Head(s) \in X /\ Head(s) \in ToSet(s)
<1> DEFINE u == Tail(s)
<1>1. Len(s) \in {1, 2} /\ \A i \in DOMAIN s : s[i] \in ToSet(s) /\ s[i] \in X
  BY ShortSeq
<1>2. u \in Seq(X) /\ Len(u) = Len(s) - 1 /\ Head(s) = s[1]
  BY <1>1
<1>3. \A i \in 1 .. Len(s) - 1 : u[i] = s[i + 1]
  BY <1>1
<1>4. Len(s) = 2 => u[1] = s[2]
  <2>1. Len(s) = 2 => 1 \in 1 .. Len(s) - 1 /\ 1 + 1 = 2
    OBVIOUS
  <2> QED BY <1>3, <2>1
<1> HIDE DEF u
<1>5. /\ Len(u) = 0 => ToSet(u) = {}
      /\ Len(u) = 1 => ToSet(u) = {u[1]}
  BY <1>1, <1>2, ShortSeq
<1>6. 1 \in DOMAIN s /\ (Len(s) = 2 => 2 \in DOMAIN s)
  BY <1>1, ShortSeq
<1>7. ToSet(u) \subseteq ToSet(s)
  BY <1>1, <1>2, <1>4, <1>5, <1>6
<1> QED BY <1>1, <1>2, <1>4, <1>6, <1>7 DEF u

(* The line is what is completed, and then the unread steps. *)
LEMMA JoinedIs ==
  ASSUME NEW c \in Seq(Ids), NEW q \in Seq(Ids), NEW a \in BOOLEAN, NEW b \in BOOLEAN,
         a => q[1] \in Ids, b => q[2] \in Ids
  PROVE  /\ Joined(c, q, a, b) \in Seq(Ids)
         /\ ToSet(Joined(c, q, a, b)) =
              ToSet(c) \cup (IF a THEN {q[1]} ELSE {}) \cup (IF b THEN {q[2]} ELSE {})
         /\ ~a /\ ~b => Joined(c, q, a, b) = c
         /\ Len(c) <= Len(Joined(c, q, a, b))
         /\ \A i \in 1 .. Len(c) : Joined(c, q, a, b)[i] = c[i]
<1> DEFINE one == IF a THEN Append(c, q[1]) ELSE c
           two == IF b THEN Append(one, q[2]) ELSE one
<1>1. /\ one \in Seq(Ids) /\ Len(c) \in Nat /\ Len(one) \in Nat /\ Len(c) <= Len(one)
      /\ ToSet(one) = ToSet(c) \cup (IF a THEN {q[1]} ELSE {})
      /\ \A i \in 1 .. Len(c) : one[i] = c[i]
  <2>1. CASE a
    <3>1. one = Append(c, q[1])
      BY <2>1
    <3> HIDE DEF one
    <3> QED BY <2>1, <3>1, Appended
  <2>2. CASE ~a
    BY <2>2
  <2> QED BY <2>1, <2>2
<1> HIDE DEF one
<1>2. /\ two \in Seq(Ids) /\ Len(two) \in Nat /\ Len(one) <= Len(two)
      /\ ToSet(two) = ToSet(one) \cup (IF b THEN {q[2]} ELSE {})
      /\ \A i \in 1 .. Len(one) : two[i] = one[i]
  <2>1. CASE b
    <3>1. two = Append(one, q[2])
      BY <2>1
    <3> HIDE DEF two
    <3> QED BY <1>1, <2>1, <3>1, Appended
  <2>2. CASE ~b
    BY <1>1, <2>2
  <2> QED BY <2>1, <2>2
<1>3. Joined(c, q, a, b) = two
  BY DEF Joined, one
<1>4. ~a /\ ~b => two = c
  BY DEF one
<1> HIDE DEF two
<1>5. \A i \in 1 .. Len(c) : i \in 1 .. Len(one)
  BY <1>1
<1> QED BY <1>1, <1>2, <1>3, <1>4, <1>5

-----------------------------------------------------------------------------
(* What the parts of the invariant say of the queue and the line. *)

(* The queue has at most two positions. *)
LEMMA QueueFacts ==
  ASSUME QueueTypes
  PROVE  /\ Len(queue) \in {0, 1, 2}
         /\ queue = <<>> <=> Len(queue) = 0
         /\ 1 \in DOMAIN queue <=> Len(queue) # 0
         /\ 2 \in DOMAIN queue <=> Len(queue) = 2
         /\ Len(queue) = 0 => DOMAIN queue = {} /\ ToSet(queue) = {}
         /\ Len(queue) = 1 => DOMAIN queue = {1} /\ ToSet(queue) = {queue[1]}
         /\ Len(queue) = 2 => DOMAIN queue = {1, 2} /\ ToSet(queue) = {queue[1], queue[2]}
         /\ \A i \in DOMAIN queue : i \in {1, 2} /\ queue[i] \in Ids /\ queue[i] \in ToSet(queue)
         /\ ToSet(queue) \subseteq Ids
BY ShortSeq DEF QueueTypes

(* The line is the completed results and the unread steps of the queue. *)
LEMMA LineIs ==
  ASSUME QueueTypes
  PROVE  /\ Line \in Seq(Ids)
         /\ ToSet(Line) = ToSet(completed) \cup {queue[i] : i \in {k \in DOMAIN queue : Unread(k)}}
         /\ ~Unread(1) /\ ~Unread(2) => Line = completed
         /\ Len(completed) <= Len(Line) /\ \A i \in 1 .. Len(completed) : Line[i] = completed[i]
         /\ ToSet(Line) \subseteq UsedIds /\ ToSet(Line) \subseteq Ids
         /\ \A n \in DOMAIN Line : Line[n] \in ToSet(Line)
<1>1. /\ completed \in Seq(Ids) /\ queue \in Seq(Ids)
      /\ Unread(1) \in BOOLEAN /\ Unread(2) \in BOOLEAN
      /\ \A k \in {1, 2} : Unread(k) => queue[k] \in Ids
      /\ \A k : Unread(k) => k \in {1, 2} /\ k \in DOMAIN queue /\ queue[k] \in ToSet(queue)
  BY QueueFacts DEF QueueTypes, Unread
<1> DEFINE a == Unread(1)
           b == Unread(2)
<1>2. /\ Line \in Seq(Ids)
      /\ ToSet(Line) = ToSet(completed) \cup (IF a THEN {queue[1]} ELSE {})
                       \cup (IF b THEN {queue[2]} ELSE {})
      /\ ~a /\ ~b => Line = completed
      /\ Len(completed) <= Len(Line) /\ \A i \in 1 .. Len(completed) : Line[i] = completed[i]
  <2>1. /\ completed \in Seq(Ids) /\ queue \in Seq(Ids) /\ a \in BOOLEAN /\ b \in BOOLEAN
        /\ (a => queue[1] \in Ids) /\ (b => queue[2] \in Ids)
    BY <1>1
  <2>2. Line = Joined(completed, queue, a, b)
    BY DEF Line
  <2> HIDE DEF a, b
  <2> DEFINE j == Joined(completed, queue, a, b)
  <2>3. /\ j \in Seq(Ids)
        /\ ToSet(j) = ToSet(completed) \cup (IF a THEN {queue[1]} ELSE {})
                      \cup (IF b THEN {queue[2]} ELSE {})
        /\ ~a /\ ~b => j = completed
        /\ Len(completed) <= Len(j)
        /\ \A i \in 1 .. Len(completed) : j[i] = completed[i]
    BY <2>1, JoinedIs
  <2>4. Line = j
    BY <2>2
  <2> HIDE DEF j
  <2> QED BY <2>3, <2>4
<1>3. ToSet(Line) = ToSet(completed) \cup {queue[i] : i \in {k \in DOMAIN queue : Unread(k)}}
  BY <1>1, <1>2
<1>4. ToSet(completed) \subseteq Ids /\ \A n \in DOMAIN Line : Line[n] \in ToSet(Line)
  BY <1>1, <1>2 DEF ToSet
<1>5. ToSet(Line) \subseteq UsedIds
  BY <1>1, <1>3 DEF UsedIds
<1>6. ToSet(Line) \subseteq Ids
  BY <1>1, <1>3, <1>4
<1> QED BY <1>2, <1>3, <1>4, <1>5, <1>6

(* What can be used is an id. *)
LEMMA UsedAreIds ==
  ASSUME QueueTypes
  PROVE  UsedIds \subseteq Ids /\ PendingIds \subseteq Ids /\ ToSet(queue) \subseteq UsedIds
         /\ \A i \in DOMAIN pending : pending[i] \in Entries /\ pending[i].id \in PendingIds
<1>1. \A i \in DOMAIN pending : pending[i] \in Entries
  BY DEF QueueTypes
<1>2. PendingIds \subseteq Ids
  BY <1>1 DEF PendingIds, Entries
<1>3. ToSet(completed) \subseteq Ids /\ ToSet(queue) \subseteq Ids
  BY DEF QueueTypes, ToSet
<1> QED BY <1>1, <1>2, <1>3 DEF UsedIds, PendingIds

-----------------------------------------------------------------------------
(* What a step leaves alone. *)

(* The tokens to come are those of the same steps. *)
LEMMA ComingSame ==
  ASSUME NEW r \in Reqs, QueueTypes, hist'[r] = hist[r], queue' = queue,
         \A i \in ToSet(queue) : step'[i].out[r] = step[i].out[r],
         Dropped(r) => Dropped(r)', Dropped(r)' /\ ~Dropped(r) => InQueue(r, 1) = 0
  PROVE  /\ Total(r)' = Total(r) /\ Coming(r, 1)' = Coming(r, 1) /\ Coming(r, 2)' = Coming(r, 2)
         /\ \A i \in DOMAIN queue : Out(queue[i], r)' = Out(queue[i], r)
<1>1. \A i \in DOMAIN queue : step'[queue[i]].out[r] = step[queue[i]].out[r]
  BY QueueFacts
<1>2. InQueue(r, 1)' = InQueue(r, 1) /\ InQueue(r, 2)' = InQueue(r, 2)
  BY <1>1 DEF InQueue
<1>3. Coming(r, 1)' = Coming(r, 1) /\ Coming(r, 2)' = Coming(r, 2)
  BY <1>2 DEF Coming
<1> QED BY <1>1, <1>3 DEF Total, Out

(* Outputs are sequences, and what is counted are numbers. *)
LEMMA Amounts ==
  ASSUME Types, NEW r \in Reqs
  PROVE  /\ \A i \in Ids : Out(i, r) \in Seq(Nat)
         /\ \A n \in DOMAIN Line : Line[n] \in Ids
         /\ hist[r] \in Seq(Nat) /\ app[r] \in Seq(Nat)
         /\ Len(hist[r]) \in Nat /\ Len(app[r]) \in Nat
         /\ \A n : InQueue(r, n) \in Nat /\ Coming(r, n) \in Nat /\ Gain(r, n) \in Nat
         /\ Total(r) \in Nat
<1>1. \A i \in Ids : Out(i, r) \in Seq(Nat)
  BY DEF Types, QueueTypes, Steps, Out
<1>2. hist[r] \in Seq(Nat) /\ app[r] \in Seq(Nat)
  BY DEF Types, SchedTypes, RunnerTypes
<1>3. \A s \in Seq(Nat) : Len(s) \in Nat
  OBVIOUS
<1>4. \A n \in DOMAIN Line : Line[n] \in Ids
  BY LineIs DEF Types
<1>5. \A n \in DOMAIN queue : queue[n] \in Ids
  BY QueueFacts DEF Types
<1>6. \A n : InQueue(r, n) \in Nat
  BY <1>1, <1>3, <1>5 DEF InQueue, Out
<1>7. \A n : Coming(r, n) \in Nat
  BY <1>6 DEF Coming
<1>8. \A n : Gain(r, n) \in Nat
  BY <1>1, <1>3, <1>4 DEF Gain
<1>9. Len(hist[r]) \in Nat /\ Len(app[r]) \in Nat
  BY <1>2, <1>3
<1>10. Total(r) \in Nat
  BY <1>7, <1>9 DEF Total
<1> QED BY <1>1, <1>2, <1>4, <1>6, <1>7, <1>8, <1>9, <1>10

(* A request whose tokens, results and state a step does not touch keeps its
   stream. *)
LEMMA FlowSame ==
  ASSUME NEW r \in Reqs, QueueTypes, FlowOf(r),
         hist'[r] = hist[r], app'[r] = app[r], queue' = queue, Line' = Line,
         \A i \in ToSet(queue) \cup ToSet(Line) : step'[i].out[r] = step[i].out[r],
         Dropped(r) => Dropped(r)', Dropped(r)' /\ ~Dropped(r) => InQueue(r, 1) = 0,
         Discarded(r)' = Discarded(r),
         status'[r] = "running" /\ ~(cur'.kind = "prefill" /\ r \in cur'.sched) =>
           status[r] = "running" /\ ~(cur.kind = "prefill" /\ r \in cur.sched)
  PROVE  FlowOf(r)'
<1>1. /\ Total(r)' = Total(r) /\ Coming(r, 1)' = Coming(r, 1)
      /\ \A i \in DOMAIN queue : Out(queue[i], r)' = Out(queue[i], r)
  BY ComingSame
<1>2. \A n \in DOMAIN Line : step'[Line[n]].out[r] = step[Line[n]].out[r]
  BY LineIs
<1>3. \A n \in DOMAIN Line : Out(Line[n], r)' = Out(Line[n], r)
  BY <1>2 DEF Out
<1>4. \A n \in DOMAIN Line : Lost(r, n)' = Lost(r, n)
  BY <1>3 DEF Lost
<1>5. \A n \in {1, 2} : Gain(r, n)' = Gain(r, n)
  BY <1>3, <1>4 DEF Gain
<1>6. Continues(app[r], 0)' = Continues(app[r], 0)
  BY DEF Continues
<1>7. /\ 1 \in DOMAIN queue => Continues(Out(queue[1], r), Len(hist[r]))' =
                               Continues(Out(queue[1], r), Len(hist[r]))
      /\ 2 \in DOMAIN queue => Continues(Out(queue[2], r), Len(hist[r]) + Coming(r, 1))' =
                               Continues(Out(queue[2], r), Len(hist[r]) + Coming(r, 1))
  BY <1>1 DEF Continues
<1>8. /\ 1 \in DOMAIN Line => Continues(Out(Line[1], r), Len(app[r]))' =
                              Continues(Out(Line[1], r), Len(app[r]))
      /\ 2 \in DOMAIN Line => Continues(Out(Line[2], r), Len(app[r]) + Gain(r, 1))' =
                              Continues(Out(Line[2], r), Len(app[r]) + Gain(r, 1))
  BY <1>3, <1>5 DEF Continues
<1> QED BY <1>1, <1>4, <1>5, <1>6, <1>7, <1>8 DEF FlowOf

(* The chain's promise survives while the rows, the stream and the chain do. *)
LEMMA ResidentSame ==
  ASSUME Resident, UNCHANGED <<chain, batch, resident>>, layoutChanged => layoutChanged',
         cur'.kind # "prefill" => cur.kind # "prefill",
         \A r \in batch : status'[r] = "running" => status[r] = "running" /\ Total(r)' = Total(r)
  PROVE  Resident'
BY DEF Resident

-----------------------------------------------------------------------------
(* Clients. *)

(* What depends on the queue, the steps, the pending and the completed ones
   only. *)
queueVars == <<queue, step, pending, completed>>

(* While those stay, so does the line and all that is said of the queue. *)
LEMMA SameLine ==
  ASSUME UNCHANGED queueVars
  PROVE  /\ Line' = Line /\ SomeOpen' = SomeOpen /\ PendingIds' = PendingIds /\ UsedIds' = UsedIds
         /\ \A i : Open(i)' = Open(i) /\ Unread(i)' = Unread(i)
BY DEF queueVars, Line, Joined, SomeOpen, Open, Unread, PendingIds, UsedIds

(* A client touches only what the scheduler keeps of a request. *)
ClientStep ==
  /\ UNCHANGED <<hist, frames, fault>>
  /\ UNCHANGED <<known, batch, slotted, layoutChanged, app, proposed, accepted, chain, resident>>
  /\ UNCHANGED <<pending, completed, queue, step, cur, pc>>

(* A client leaves the runner, the queue and what is in flight as they are. *)
LEMMA ClientKeeps ==
  ASSUME IInv, ClientStep, pc \in {"idle", "pop"}
  PROVE  /\ RunnerTypes' /\ QueueTypes' /\ StepData' /\ Current' /\ Order' /\ Lines' /\ Overlap'
         /\ Delivery' /\ Frames' /\ NoFault'
         /\ UNCHANGED queueVars /\ cur = NoStep
<1>1. UNCHANGED queueVars
  BY DEF ClientStep, queueVars
<1>2. RunnerTypes' /\ QueueTypes' /\ StepData'
  BY DEF IInv, ClientStep, Types, RunnerTypes, QueueTypes, StepData, Out
<1>3. cur = NoStep /\ ~Building /\ ~Building'
  BY DEF IInv, Current, ClientStep, Building, Early, Late
<1>4. Current'
  BY <1>3 DEF IInv, Current, ClientStep
<1>5. Order'
  BY <1>1, SameLine DEF IInv, Order, ClientStep
<1>6. Lines'
  BY <1>1, SameLine DEF IInv, Lines, Out, ClientStep
<1>7. Overlap'
  BY <1>1, SameLine DEF IInv, Overlap, Late, SteadyFacts, ClientStep
<1>8. Delivery' /\ Frames' /\ NoFault'
  BY DEF IInv, ClientStep, Delivery, Continues, Frames, Carries, NoFault
<1> QED BY <1>1, <1>2, <1>3, <1>4, <1>5, <1>6, <1>7, <1>8

(* A new request has nothing in flight. *)
LEMMA AddRequestStep ==
  ASSUME IInv, NEW q \in Reqs, AddRequest(q)
  PROVE  IInv'
<1>1. /\ status[q] = "new" /\ status' = [status EXCEPT ![q] = "waiting"]
      /\ UNCHANGED <<hist, stale, drop, frames, discards, finPend, runnerVars, step, engineVars, fault>>
  BY DEF AddRequest
<1>2. ClientStep /\ UNCHANGED <<stale, drop, discards, finPend>> /\ pc = "idle"
  BY <1>1 DEF AddRequest, ClientStep, runnerVars, batchVars, specVars, controlVars, engineVars
<1>3. /\ RunnerTypes' /\ QueueTypes' /\ StepData' /\ Current' /\ Order' /\ Lines' /\ Overlap'
      /\ Delivery' /\ Frames' /\ NoFault'
      /\ UNCHANGED queueVars /\ cur = NoStep
  BY <1>2, ClientKeeps
<1> USE DEF ClientStep
<1>4. Types /\ Types' /\ status \in [Reqs -> Statuses] /\ status' \in [Reqs -> Statuses]
  <2>1. status \in [Reqs -> Statuses] /\ status' \in [Reqs -> Statuses]
    BY <1>1 DEF IInv, Types, SchedTypes, Statuses
  <2> QED BY <1>2, <1>3, <2>1 DEF IInv, Types, SchedTypes, ClientStep
<1>5. status'[q] = "waiting" /\ \A r \in Reqs : r # q => status'[r] = status[r]
  BY <1>1, <1>4
<1>6. Knowing'
  <2>1. finPend' \cup cur'.fin \subseteq {r \in Reqs : status'[r] = "done"}
    BY <1>2, <1>5, <1>1 DEF IInv, Knowing
  <2>2. \A r \in Reqs : status'[r] \in {"partial", "running", "preempted"} =>
          status[r] \in {"partial", "running", "preempted"}
    BY <1>5
  <2>3. \A r \in Reqs : status'[r] \in {"new", "waiting"} => status[r] \in {"new", "waiting"}
    BY <1>1, <1>5
  <2> QED BY <1>2, <1>3, <2>1, <2>2, <2>3, SameLine DEF IInv, Knowing
<1>7. Resets'
  <2>1. \A r \in Reqs : Discarded(r)' = Discarded(r)
    BY <1>2 DEF Discarded
  <2>2. \A r \in Reqs : Parked(r) => Parked(r)'
    BY <1>1, <1>2, <1>5 DEF Parked
  <2> QED BY <1>2, <1>3, <2>1, <2>2, SameLine DEF IInv, Resets
<1>8. Withdrawn'
  BY <1>1, <1>2, <1>5 DEF IInv, Withdrawn, Out
<1>9. ASSUME NEW r \in Reqs, Live(r)' PROVE FlowOf(r)'
  <2>1. CASE r # q
    <3>1. FlowOf(r)
      BY <1>5, <1>9, <2>1 DEF IInv, Flow, Live
    <3>2. Dropped(r)' = Dropped(r) /\ Discarded(r)' = Discarded(r) /\ Line' = Line
      BY <1>2, <1>3, SameLine DEF Dropped, Discarded
    <3> QED BY <1>2, <1>4, <1>5, <2>1, <3>1, <3>2, FlowSame DEF Types
  <2>2. CASE r = q
    <3>1. hist[r] = <<>> /\ app[r] = <<>> /\ \A i \in Ids : Out(i, r) = <<>>
      BY <1>1, <2>2 DEF IInv, Knowing, StepData
    <3>2. /\ \A i \in DOMAIN queue : Out(queue[i], r)' = <<>>
          /\ \A n \in DOMAIN Line : Out(Line[n], r)' = <<>>
      <4>1. \A i \in Ids : Out(i, r)' = <<>>
        BY <1>2, <3>1 DEF Out
      <4>2. \A n \in DOMAIN Line : Line[n] \in Ids /\ Line' = Line
        BY <1>3, <1>4, LineIs, SameLine DEF Types
      <4>3. \A i \in DOMAIN queue : queue[i] \in Ids /\ queue' = queue
        BY <1>2, <1>4, QueueFacts DEF Types
      <4> QED BY <4>1, <4>2, <4>3 DEF Out
    <3>3. hist'[r] = <<>> /\ app'[r] = <<>> /\ Line' = Line /\ queue' = queue
      BY <1>2, <1>3, <3>1, SameLine
    <3>4. Len(<<>>) = 0 /\ DOMAIN <<>> = {} /\ MaxTokens \in Nat /\ 0 < MaxTokens
      BY BoundsAssumption
    <3>5. /\ InQueue(r, 1)' = 0 /\ InQueue(r, 2)' = 0 /\ Gain(r, 1)' = 0 /\ Gain(r, 2)' = 0
      BY <3>2, <3>3, <3>4 DEF InQueue, Gain, Out
    <3>6. Coming(r, 1)' = 0 /\ Coming(r, 2)' = 0 /\ Total(r)' = 0
      BY <3>3, <3>4, <3>5 DEF Coming, Total
    <3>7. \A s, a : s = <<>> => Continues(s, a)
      BY <3>4 DEF Continues
    <3>8. status'[r] # "running"
      BY <1>5, <2>2
    <3> QED BY <3>2, <3>3, <3>4, <3>5, <3>6, <3>7, <3>8 DEF FlowOf
  <2> QED BY <2>1, <2>2
<1>10. Resident'
  <2>1. \A r \in batch : status'[r] = "running" => status[r] = "running" /\ Total(r)' = Total(r)
    <3> SUFFICES ASSUME NEW r \in batch, status'[r] = "running"
                 PROVE  status[r] = "running" /\ Total(r)' = Total(r)
      OBVIOUS
    <3>1. r \in Reqs /\ r # q
      BY <1>4, <1>5 DEF Types, RunnerTypes
    <3>2. Dropped(r)' = Dropped(r)
      BY <1>2 DEF Dropped
    <3> QED BY <1>2, <1>4, <1>5, <3>1, <3>2, ComingSame DEF Types
  <2> QED BY <1>2, <2>1, ResidentSame DEF IInv
<1> QED BY <1>3, <1>4, <1>6, <1>7, <1>8, <1>9, <1>10
        DEF IInv, Flow

(* A request that ends will be reported to the runner. *)
LEMMA AbortStep ==
  ASSUME IInv, NEW q \in Reqs, Abort(q)
  PROVE  IInv'
<1>1. /\ Live(q) /\ status' = [status EXCEPT ![q] = "done"] /\ finPend' = finPend \cup {q}
      /\ UNCHANGED <<hist, stale, drop, frames, discards, runnerVars, step, engineVars, fault>>
  BY DEF Abort
<1>2. ClientStep /\ UNCHANGED <<stale, drop, discards>> /\ pc \in {"idle", "pop"}
  BY <1>1 DEF Abort, ClientStep, runnerVars, batchVars, specVars, controlVars, engineVars
<1>3. /\ RunnerTypes' /\ QueueTypes' /\ StepData' /\ Current' /\ Order' /\ Lines' /\ Overlap'
      /\ Delivery' /\ Frames' /\ NoFault'
      /\ UNCHANGED queueVars /\ cur = NoStep
  BY <1>2, ClientKeeps
<1> USE DEF ClientStep
<1>4. Types /\ Types' /\ status \in [Reqs -> Statuses] /\ status' \in [Reqs -> Statuses]
  <2>1. status \in [Reqs -> Statuses] /\ status' \in [Reqs -> Statuses]
    BY <1>1 DEF IInv, Types, SchedTypes, Statuses
  <2> QED BY <1>1, <1>2, <1>3, <2>1 DEF IInv, Types, SchedTypes
<1>5. status'[q] = "done" /\ \A r \in Reqs : r # q => status'[r] = status[r]
  BY <1>1, <1>4
<1>6. Knowing'
  <2>1. finPend' \cup cur'.fin \subseteq {r \in Reqs : status'[r] = "done"}
    BY <1>1, <1>2, <1>5 DEF IInv, Knowing
  <2>2. \A r \in Reqs : status'[r] \in {"partial", "running", "preempted"} =>
          status[r] \in {"partial", "running", "preempted"}
    BY <1>5
  <2>3. \A r \in Reqs : status'[r] \in {"new", "waiting"} => status[r] \in {"new", "waiting"}
    BY <1>1, <1>5
  <2> QED BY <1>2, <1>3, <2>1, <2>2, <2>3, SameLine DEF IInv, Knowing
<1>7. Resets'
  <2>1. \A r \in Reqs : Discarded(r)' = Discarded(r)
    BY <1>2 DEF Discarded
  <2>2. \A r \in Reqs : Parked(r) => Parked(r)'
    BY <1>1, <1>2, <1>5 DEF Parked
  <2> QED BY <1>2, <1>3, <2>1, <2>2, SameLine DEF IInv, Resets
<1>8. Withdrawn'
  BY <1>1, <1>2, <1>5 DEF IInv, Withdrawn, Out
<1>9. ASSUME NEW r \in Reqs, Live(r)' PROVE FlowOf(r)'
  <2>1. r # q
    BY <1>5, <1>9 DEF Live
  <2>2. FlowOf(r)
    BY <1>5, <1>9, <2>1 DEF IInv, Flow, Live
  <2>3. Dropped(r)' = Dropped(r) /\ Discarded(r)' = Discarded(r) /\ Line' = Line
    BY <1>2, <1>3, SameLine DEF Dropped, Discarded
  <2> QED BY <1>2, <1>4, <1>5, <2>1, <2>2, <2>3, FlowSame DEF Types
<1>10. Resident'
  <2>1. \A r \in batch : status'[r] = "running" => status[r] = "running" /\ Total(r)' = Total(r)
    <3> SUFFICES ASSUME NEW r \in batch, status'[r] = "running"
                 PROVE  status[r] = "running" /\ Total(r)' = Total(r)
      OBVIOUS
    <3>1. r \in Reqs /\ r # q
      BY <1>4, <1>5 DEF Types, RunnerTypes
    <3>2. Dropped(r)' = Dropped(r)
      BY <1>2 DEF Dropped
    <3> QED BY <1>2, <1>4, <1>5, <3>1, <3>2, ComingSame DEF Types
  <2> QED BY <1>2, <2>1, ResidentSame DEF IInv
<1> QED BY <1>3, <1>4, <1>6, <1>7, <1>8, <1>9, <1>10
        DEF IInv, Flow

(* Steps of r in the queue, one by one. *)
Flies(r, i) == IF i \in DOMAIN queue /\ r \in step[queue[i]].sched THEN 1 ELSE 0

(* At most two steps of a request are in flight. *)
LEMMA InFlightIs ==
  ASSUME QueueTypes, NEW r \in Reqs
  PROVE  InFlight(r) = Flies(r, 1) + Flies(r, 2)
<1> DEFINE S == {i \in DOMAIN queue : r \in step[queue[i]].sched}
<1>1. S \subseteq {1, 2}
  BY QueueFacts
<1>2. (1 \in S <=> Flies(r, 1) = 1) /\ (2 \in S <=> Flies(r, 2) = 1)
  BY DEF Flies
<1>3. Flies(r, 1) \in {0, 1} /\ Flies(r, 2) \in {0, 1}
  BY DEF Flies
<1>4. InFlight(r) = Cardinality(S)
  BY DEF InFlight
<1> HIDE DEF S
<1> QED BY <1>1, <1>2, <1>3, <1>4, CountTwo

(* The reset preempts what runs.  Nothing it hits is stale, or discarded, yet;
   the one step in flight is then both. *)
LEMMA ResetStep ==
  ASSUME IInv, ResetPrefixCache
  PROVE  IInv'
<1> DEFINE hit == {r \in Reqs : status[r] \in {"running", "partial"}}
<1>1. /\ pc = "idle"
      /\ status' = [r \in Reqs |-> IF r \in hit THEN "preempted" ELSE status[r]]
      /\ stale' = [r \in Reqs |-> IF r \in hit THEN InFlight(r) ELSE stale[r]]
      /\ drop' = [r \in Reqs |-> r \in hit \/ drop[r]]
      /\ discards' = [r \in Reqs |-> discards[r] + IF r \in hit THEN ResetDiscards(r) ELSE 0]
      /\ UNCHANGED <<hist, frames, finPend, runnerVars, step, engineVars, fault>>
  BY DEF ResetPrefixCache
<1>2. ClientStep /\ finPend' = finPend
  BY <1>1 DEF ClientStep, runnerVars, batchVars, specVars, controlVars, engineVars
<1>3. /\ RunnerTypes' /\ QueueTypes' /\ StepData' /\ Current' /\ Order' /\ Lines' /\ Overlap'
      /\ Delivery' /\ Frames' /\ NoFault'
      /\ UNCHANGED queueVars /\ cur = NoStep
  BY <1>1, <1>2, ClientKeeps
<1> USE DEF ClientStep
<1>4. Types
  BY DEF IInv
<1>5. Len(queue) <= 1 /\ QueueTypes /\ RunnerTypes /\ SchedTypes
  BY <1>1, <1>4 DEF IInv, Current, Types
<1>6. /\ Len(queue) \in {0, 1} /\ 2 \notin DOMAIN queue /\ (1 \in DOMAIN queue <=> queue # <<>>)
      /\ (queue # <<>> => Len(queue) = 1 /\ queue[1] \in Ids)
  BY <1>5, QueueFacts DEF QueueTypes
<1>7. \A r \in hit : stale[r] = 0 /\ discards[r] = 0 /\ ~Dropped(r)
  <2> SUFFICES ASSUME NEW r \in hit PROVE stale[r] = 0 /\ discards[r] = 0 /\ ~Dropped(r)
    OBVIOUS
  <2>1. r \in Reqs /\ ~Parked(r) /\ Discarded(r) = discards[r]
    BY <1>1, <1>3 DEF Parked, NoStep, Discarded, Early
  <2>2. stale[r] \in Nat /\ discards[r] \in Nat
    BY <1>5, <2>1 DEF SchedTypes
  <2>3. ~(stale[r] > 0) /\ discards[r] <= 1 /\ discards[r] # 1
    BY <1>6, <2>1 DEF IInv, Resets
  <2> QED BY <2>2, <2>3 DEF Dropped
<1>8. \A r \in Reqs : InFlight(r) = Flies(r, 1) /\ Flies(r, 1) \in {0, 1}
  BY <1>5, <1>6, InFlightIs DEF Flies
<1>9. \A r \in Reqs : frames[r] = Carries(r, 1) /\ Carries(r, 1) \in {0, 1}
  BY <1>3, <1>6 DEF IInv, Frames, Carries, NoStep
<1>10. \A r \in hit : ResetDiscards(r) = Carries(r, 1)
  BY <1>7, <1>9 DEF ResetDiscards, Placeholders
<1>11. \A r \in hit : /\ status'[r] = "preempted" /\ stale'[r] = Flies(r, 1) /\ drop'[r] = TRUE
                      /\ discards'[r] = Carries(r, 1)
  <2> SUFFICES ASSUME NEW r \in hit
               PROVE  /\ status'[r] = "preempted" /\ stale'[r] = Flies(r, 1) /\ drop'[r] = TRUE
                      /\ discards'[r] = Carries(r, 1)
    OBVIOUS
  <2>1. r \in Reqs
    OBVIOUS
  <2>2. discards'[r] = discards[r] + ResetDiscards(r)
    BY <1>1, <2>1
  <2>3. discards[r] = 0 /\ ResetDiscards(r) = Carries(r, 1) /\ Carries(r, 1) \in {0, 1}
    BY <1>7, <1>9, <1>10, <2>1
  <2>4. status'[r] = "preempted" /\ stale'[r] = InFlight(r) /\ drop'[r] = TRUE
    BY <1>1, <2>1
  <2> QED BY <1>8, <2>1, <2>2, <2>3, <2>4
<1>12. \A r \in Reqs \ hit : /\ status'[r] = status[r] /\ stale'[r] = stale[r]
                             /\ drop'[r] = drop[r] /\ discards'[r] = discards[r]
  BY <1>1, <1>5 DEF SchedTypes
<1>13. Types'
  <2>1. status' \in [Reqs -> Statuses]
    BY <1>1, <1>5 DEF SchedTypes, Statuses
  <2>2. stale' \in [Reqs -> Nat] /\ discards' \in [Reqs -> Nat] /\ drop' \in [Reqs -> BOOLEAN]
    <3>1. \A r \in Reqs : stale'[r] \in Nat /\ discards'[r] \in Nat
      <4> TAKE r \in Reqs
      <4>1. CASE r \in hit
        <5>1. Flies(r, 1) \in Nat /\ Carries(r, 1) \in Nat
          BY <1>8, <1>9
        <5> QED BY <1>11, <4>1, <5>1
      <4>2. CASE r \notin hit
        BY <1>5, <1>12, <4>2 DEF SchedTypes
      <4> QED BY <4>1, <4>2
    <3> QED BY <1>1, <3>1
  <2> QED BY <1>2, <1>3, <1>5, <2>1, <2>2 DEF Types, SchedTypes
<1> HIDE DEF hit
<1>14. \A r \in Reqs : r \in hit <=> status[r] \in {"running", "partial"}
  BY DEF hit
<1>15. Line' = Line
  BY <1>3, SameLine
<1>16. Knowing'
  <2>1. \A r \in Reqs : status'[r] = "done" <=> status[r] = "done"
    BY <1>11, <1>12, <1>14
  <2>2. \A r \in Reqs : status'[r] \in {"partial", "running", "preempted"} =>
          status[r] \in {"partial", "running", "preempted"}
    BY <1>11, <1>12, <1>14
  <2>3. \A r \in Reqs : status'[r] \in {"new", "waiting"} => status[r] \in {"new", "waiting"}
    BY <1>11, <1>12, <1>14
  <2>4. finPend' \cup cur'.fin \subseteq {r \in Reqs : status'[r] = "done"}
    BY <1>2, <2>1 DEF IInv, Knowing
  <2> QED BY <1>2, <1>15, <2>2, <2>3, <2>4 DEF IInv, Knowing
(* A frame in flight is that of the newest result, which is still to be applied. *)
<1>17. \A r \in Reqs : Carries(r, 1) = 1 =>
         /\ queue # <<>> /\ Line # <<>> /\ Line[Len(Line)] = queue[1] /\ Len(Line) \in {1, 2}
         /\ Len(Line) \in DOMAIN Line /\ r \in step[queue[1]].rows /\ Out(queue[1], r) # <<>>
  <2> SUFFICES ASSUME NEW r \in Reqs, Carries(r, 1) = 1
               PROVE  /\ queue # <<>> /\ Line # <<>> /\ Line[Len(Line)] = queue[1]
                      /\ Len(Line) \in {1, 2} /\ Len(Line) \in DOMAIN Line
                      /\ r \in step[queue[1]].rows /\ Out(queue[1], r) # <<>>
    OBVIOUS
  <2>1. queue # <<>> /\ Len(queue) = 1 /\ r \in step[queue[1]].rows
    BY <1>6 DEF Carries
  <2>2. Line # <<>> /\ Line[Len(Line)] = queue[1] /\ Len(Line) <= 2
    BY <1>1, <2>1 DEF IInv, Lines, Late
  <2>3. Line \in Seq(Ids)
    BY <1>5, LineIs
  <2>4. Len(Line) \in {1, 2} /\ Len(Line) \in DOMAIN Line
    <3> DEFINE l == Line
    <3>1. l \in Seq(Ids) /\ l # <<>> /\ Len(l) <= 2
      BY <2>2, <2>3
    <3> HIDE DEF l
    <3>2. Len(l) \in {1, 2} /\ DOMAIN l = 1 .. Len(l)
      BY <3>1, ShortSeq
    <3>3. Len(l) \in DOMAIN l
      BY <3>2
    <3> QED BY <3>2, <3>3 DEF l
  <2>5. queue[1] \in ToSet(Line)
    BY <1>5, <2>2, <2>4, LineIs
  <2> QED BY <2>1, <2>2, <2>4, <2>5 DEF IInv, Lines
<1>18. \A r \in Reqs : Carries(r, 1) = 0 => (queue # <<>> => Out(queue[1], r) = <<>>)
  BY <1>6 DEF IInv, StepData, Carries
<1>19. Resets'
  <2> SUFFICES ASSUME NEW r \in Reqs
               PROVE  /\ Discarded(r)' <= 1
                      /\ Discarded(r)' = 1 => Parked(r)' /\ \E n \in DOMAIN Line : r \in step[Line[n]].rows
                      /\ stale'[r] > 0 => /\ stale'[r] = 1 /\ queue # <<>> /\ r \in step[queue[1]].sched
                                          /\ Parked(r)' \/ Len(queue) = 2
    BY <1>2, <1>15 DEF Resets
  <2>1. Discarded(r)' = discards'[r] /\ Discarded(r) = discards[r]
    BY <1>1, <1>2 DEF Discarded, Early
  <2>2. CASE r \in hit
    <3>1. Parked(r)'
      BY <1>11, <2>2 DEF Parked
    <3>2. Carries(r, 1) = 1 => \E n \in DOMAIN Line : r \in step[Line[n]].rows
      BY <1>17
    <3>3. Flies(r, 1) > 0 => queue # <<>> /\ r \in step[queue[1]].sched
      BY <1>6 DEF Flies
    <3> QED BY <1>8, <1>9, <1>11, <2>1, <2>2, <3>1, <3>2, <3>3
  <2>3. CASE r \notin hit
    <3>1. Parked(r)' = Parked(r) /\ Discarded(r)' = Discarded(r) /\ stale'[r] = stale[r]
      BY <1>2, <1>12, <2>1, <2>3 DEF Parked
    <3> QED BY <3>1 DEF IInv, Resets
  <2> QED BY <2>2, <2>3
<1>20. Withdrawn'
  BY <1>2, <1>11, <1>12, <1>14 DEF IInv, Withdrawn, Out
<1>21. ASSUME NEW r \in hit PROVE FlowOf(r)'
  <2>1. r \in Reqs /\ FlowOf(r) /\ status'[r] # "running"
    BY <1>11, <1>14, <1>21 DEF IInv, Flow, Live, hit
  <2>2. CASE Carries(r, 1) = 0
    <3>1. InQueue(r, 1) = 0
      BY <1>6, <1>18, <2>1, <2>2 DEF InQueue, Out
    <3>2. Discarded(r)' = Discarded(r) /\ ~Dropped(r)
      BY <1>1, <1>2, <1>7, <1>11, <1>21, <2>2 DEF Discarded, Early
    <3> QED BY <1>2, <1>5, <1>15, <2>1, <3>1, <3>2, FlowSame
  <2>3. CASE Carries(r, 1) = 1
    <3> DEFINE new == Out(queue[1], r)
    <3>0. PICK last \in {1, 2} : last = Len(Line)
      BY <1>17, <2>1, <2>3
    <3>1. /\ queue # <<>> /\ Line # <<>> /\ Line[last] = queue[1]
          /\ last \in DOMAIN Line /\ r \in step[queue[1]].rows /\ new # <<>>
      BY <1>17, <2>1, <2>3, <3>0
    <3>2. /\ Discarded(r) = 0 /\ Discarded(r)' = 1 /\ ~Dropped(r)
      BY <1>1, <1>2, <1>7, <1>11, <1>21, <2>3 DEF Discarded, Early
    <3>3. Dropped(r)'
      <4>1. r \in step[queue[1]].sched
        BY <1>6, <3>1 DEF IInv, StepData
      <4>2. Flies(r, 1) = 1
        BY <1>6, <3>1, <4>1 DEF Flies
      <4> QED BY <1>11, <1>21, <4>2 DEF Dropped
    <3>4. Coming(r, 1) = Len(new) /\ Coming(r, 2) = 0 /\ Coming(r, 1)' = 0 /\ Coming(r, 2)' = 0
      BY <1>2, <1>6, <3>1, <3>2, <3>3 DEF Coming, InQueue, Out
    <3>5. \A n \in DOMAIN Line : ~Lost(r, n)
      BY <3>2 DEF Lost
    <3>6. \A n \in DOMAIN Line : Out(Line[n], r)' = Out(Line[n], r)
      BY <1>2, <1>15 DEF Out
    <3>7. DOMAIN Line = 1 .. last /\ last \in Nat
      BY <1>5, <3>0, LineIs
    <3>8. Lost(r, last)' /\ \A n \in DOMAIN Line : n # last => ~Lost(r, n)'
      <4>1. \A m \in DOMAIN Line : ~(m > last) /\ (m # last => last > m)
        BY <3>7
      <4>2. Out(Line[last], r)' # <<>> /\ DOMAIN Line' = DOMAIN Line
        BY <1>15, <3>1, <3>6
      <4>3. \A m \in DOMAIN Line' : ~(m > last)
        BY <4>1, <4>2
      <4>4. Lost(r, last)'
        BY <3>2, <4>2, <4>3 DEF Lost
      <4>5. ASSUME NEW n \in DOMAIN Line, n # last PROVE ~Lost(r, n)'
        <5>1. last \in DOMAIN Line' /\ last > n
          BY <3>1, <4>1, <4>2, <4>5
        <5> QED BY <4>2, <5>1 DEF Lost
      <4> QED BY <4>4, <4>5
    <3>9. Gain(r, last) = Len(new) /\ Gain(r, last)' = 0
      BY <1>15, <3>1, <3>5, <3>8 DEF Gain
    <3>10. \A n \in {1, 2} \ {last} : Gain(r, n)' = Gain(r, n)
      BY <1>15, <3>5, <3>6, <3>8 DEF Gain
    <3>11. /\ Len(hist[r]) \in Nat /\ Len(app[r]) \in Nat
           /\ Gain(r, 1) \in Nat /\ Gain(r, 2) \in Nat /\ Len(new) \in Nat
      BY <1>4, <2>1, <3>4, Amounts
    <3>12. Total(r) = Len(hist[r]) + Len(new) /\ Total(r)' = Len(hist[r])
      <4>1. hist'[r] = hist[r]
        BY <1>2
      <4> HIDE DEF new
      <4> QED BY <3>4, <3>11, <4>1 DEF Total
    <3>13. Len(app[r]) + Gain(r, 1) + Gain(r, 2) = Total(r)
      BY <2>1 DEF FlowOf
    <3>14. Len(app[r]) + Gain(r, 1)' + Gain(r, 2)' = Total(r)'
      <4> HIDE DEF new
      <4>1. CASE last = 1
        <5>1. Gain(r, 1) = Len(new) /\ Gain(r, 1)' = 0 /\ Gain(r, 2)' = Gain(r, 2)
          BY <3>9, <3>10, <4>1
        <5>2. Len(app[r]) + Len(new) + Gain(r, 2) = Len(hist[r]) + Len(new)
          BY <3>12, <3>13, <5>1
        <5>3. Len(app[r]) + 0 + Gain(r, 2) = Len(hist[r])
          <6> DEFINE a == Len(app[r])  g == Gain(r, 2)  n == Len(new)  h == Len(hist[r])
          <6>1. a \in Nat /\ g \in Nat /\ n \in Nat /\ h \in Nat /\ a + n + g = h + n
            BY <3>11, <5>2, Zenon
          <6> HIDE DEF a, g, n, h
          <6>2. a + 0 + g = h
            BY <6>1
          <6> QED BY <6>2, Zenon DEF a, g, h
        <5> QED BY <3>12, <5>1, <5>3
      <4>2. CASE last = 2
        <5>1. Gain(r, 2) = Len(new) /\ Gain(r, 2)' = 0 /\ Gain(r, 1)' = Gain(r, 1)
          BY <3>9, <3>10, <4>2
        <5>2. Len(app[r]) + Gain(r, 1) + Len(new) = Len(hist[r]) + Len(new)
          BY <3>12, <3>13, <5>1
        <5>3. Len(app[r]) + Gain(r, 1) + 0 = Len(hist[r])
          <6> DEFINE a == Len(app[r])  g == Gain(r, 1)  n == Len(new)  h == Len(hist[r])
          <6>1. a \in Nat /\ g \in Nat /\ n \in Nat /\ h \in Nat /\ a + g + n = h + n
            BY <3>11, <5>2, Zenon
          <6> HIDE DEF a, g, n, h
          <6>2. a + g + 0 = h
            BY <6>1
          <6> QED BY <6>2, Zenon DEF a, g, h
        <5> QED BY <3>12, <5>1, <5>3
      <4> QED BY <3>0, <4>1, <4>2
    <3>15. 1 \in DOMAIN Line /\ ~Lost(r, 1)' => Continues(Out(Line[1], r), Len(app[r]))
      BY <2>1, <3>5 DEF FlowOf
    <3>16. 2 \in DOMAIN Line => Lost(r, 2)'
      BY <3>1, <3>7, <3>8
    <3>17. Out(Line[1], r)' = Out(Line[1], r)
      BY <1>2, <1>15 DEF Out
    <3>18. Continues(app[r], 0) /\ Len(hist[r]) < MaxTokens
      BY <2>1 DEF FlowOf
    <3> QED BY <1>2, <1>6, <1>15, <2>1, <3>3, <3>14, <3>15, <3>16, <3>17, <3>18 DEF FlowOf, Continues
  <2> QED BY <1>9, <2>1, <2>2, <2>3
<1>22. ASSUME NEW r \in Reqs \ hit, Live(r)' PROVE FlowOf(r)'
  <2>1. r \in Reqs /\ status'[r] = status[r] /\ FlowOf(r)
    BY <1>12, <1>22 DEF IInv, Flow, Live
  <2>2. Dropped(r)' = Dropped(r) /\ Discarded(r)' = Discarded(r)
    BY <1>1, <1>2, <1>12, <1>22 DEF Dropped, Discarded
  <2> QED BY <1>2, <1>5, <1>15, <2>1, <2>2, FlowSame
<1>23. Resident'
  <2>1. \A r \in batch : status'[r] # "running"
    BY <1>5, <1>11, <1>12, <1>14 DEF RunnerTypes
  <2> QED BY <1>2, <2>1 DEF Resident
<1> QED BY <1>3, <1>13, <1>16, <1>19, <1>20, <1>21, <1>22, <1>23 DEF IInv, Flow

-----------------------------------------------------------------------------
(* Steps that only move the engine on. *)

(* The stream of every live request goes on unchanged while what is in flight,
   what is delivered and what is applied do. *)
LEMMA FlowKept ==
  ASSUME Types, Flow, UNCHANGED <<status, hist, stale, drop, app, queue, cur>>, Line' = Line,
         \A i \in Ids, r \in Reqs : step'[i].out[r] = step[i].out[r],
         \A r \in Reqs : Discarded(r)' = Discarded(r)
  PROVE  Flow'
<1> SUFFICES ASSUME NEW r \in Reqs, Live(r)' PROVE FlowOf(r)'
  BY DEF Flow
<1>1. FlowOf(r)
  BY DEF Flow, Live
<1>2. ToSet(queue) \cup ToSet(Line) \subseteq Ids
  BY QueueFacts, LineIs DEF Types
<1>3. Dropped(r)' = Dropped(r)
  BY DEF Dropped
<1> QED BY <1>1, <1>2, <1>3, FlowSame DEF Types

(* So does what a chain holds. *)
LEMMA ResidentKept ==
  ASSUME Types, Resident, UNCHANGED <<status, hist, stale, drop, queue, cur>>,
         UNCHANGED <<chain, batch, resident, layoutChanged>>,
         \A i \in Ids, r \in Reqs : step'[i].out[r] = step[i].out[r]
  PROVE  Resident'
<1>1. ASSUME NEW r \in Reqs PROVE Total(r)' = Total(r)
  <2>1. Dropped(r)' = Dropped(r)
    BY DEF Dropped
  <2>2. ToSet(queue) \subseteq Ids
    BY QueueFacts DEF Types
  <2> QED BY <2>1, <2>2, ComingSame DEF Types
<1>2. batch \subseteq Reqs
  BY DEF Types, RunnerTypes
<1> QED BY <1>1, <1>2, ResidentSame

(* Where only the engine's place changes, what depends on it decides. *)
LEMMA MovesOn ==
  ASSUME IInv, UNCHANGED <<schedVars, runnerVars, step, queue, cur, fault>>,
         pc' \in {"idle", "pop"} \cup Early \cup Late, pc' \notin {"apply", "submit"},
         pc \notin {"apply", "submit"},
         pc' \in Early <=> pc \in Early, pc' \in Late <=> pc \in Late,
         Current', pc' \in {"prune", "applyAgain"} => ~SomeOpen, pc' # "applyAgain",
         pc' = "update" /\ SomeOpen => SteadyFacts
  PROVE  IInv'
<1>1. /\ UNCHANGED queueVars
      /\ UNCHANGED <<status, hist, stale, drop, frames, discards, finPend>>
      /\ UNCHANGED <<known, batch, slotted, layoutChanged, app, proposed, accepted, chain, resident>>
      /\ UNCHANGED <<pending, completed, queue, step, cur, fault>>
  BY DEF queueVars, schedVars, streams, runnerVars, batchVars, specVars, controlVars
<1>2. /\ Line' = Line /\ SomeOpen' = SomeOpen /\ PendingIds' = PendingIds /\ UsedIds' = UsedIds
      /\ \A i : Open(i)' = Open(i) /\ Unread(i)' = Unread(i)
  BY <1>1, SameLine
<1>3. Types' /\ StepData'
  <2>1. SchedTypes' /\ RunnerTypes' /\ StepData'
    BY <1>1 DEF IInv, Types, SchedTypes, RunnerTypes, StepData, Out
  <2>2. QueueTypes'
    BY <1>1 DEF IInv, Types, QueueTypes, Early, Late
  <2> QED BY <2>1, <2>2 DEF Types
<1>4. Order'
  BY <1>1, <1>2 DEF IInv, Order, Late
<1>5. Lines'
  BY <1>1, <1>2 DEF IInv, Lines, Out
<1>6. SteadyFacts' = SteadyFacts /\ Verifies' = Verifies
  BY <1>1 DEF SteadyFacts, Verifies, Drafted
<1>7. Overlap'
  BY <1>1, <1>2, <1>6 DEF IInv, Overlap
<1>8. Knowing'
  <2>1. pc \in {"preflight", "wait", "update"} <=> pc' \in {"preflight", "wait", "update"}
    BY DEF Early
  <2> QED BY <1>1, <1>2, <2>1 DEF IInv, Knowing
<1>9. \A r \in Reqs : Discarded(r)' = Discarded(r) /\ Parked(r)' = Parked(r)
  BY <1>1 DEF Discarded, Parked
<1>10. Resets' /\ Withdrawn'
  BY <1>1, <1>2, <1>9 DEF IInv, Resets, Withdrawn, Out
<1>11. Flow'
  BY <1>1, <1>2, <1>9, FlowKept DEF IInv
<1>12. Resident'
  BY <1>1, ResidentKept DEF IInv
<1>13. Delivery' /\ Frames' /\ NoFault'
  BY <1>1 DEF IInv, Delivery, Continues, Frames, Carries, NoFault
<1> QED BY <1>3, <1>4, <1>5, <1>7, <1>8, <1>10, <1>11, <1>12, <1>13 DEF IInv

(* A step that is outstanding is pending. *)
LEMMA OpenPending ==
  ASSUME IInv, SomeOpen
  PROVE  pending # <<>> /\ batch # {} /\ PendingIds # {}
<1>1. PICK i \in DOMAIN queue : Open(i)
  BY DEF SomeOpen
<1>2. step[queue[i]].sched = batch /\ queue[i] \in PendingIds /\ queue[i] \in Ids
  BY <1>1, QueueFacts DEF IInv, Order, Types
<1>3. batch # {}
  BY <1>1, <1>2 DEF IInv, StepData, Open
<1>4. DOMAIN pending # {}
  BY <1>2 DEF PendingIds
<1>5. DOMAIN <<>> = {}
  OBVIOUS
<1> QED BY <1>2, <1>3, <1>4, <1>5

(* The drain is skipped only for a steady decode. *)
LEMMA PreflightStep ==
  ASSUME IInv, Preflight
  PROVE  IInv'
<1>1. /\ pc = "preflight" /\ pc' = IF MustDrain THEN "wait" ELSE "update"
      /\ UNCHANGED <<schedVars, runnerVars, step, queue, cur, fault>>
  BY DEF Preflight
<1>2. Current'
  <2>1. UsedIds' = UsedIds /\ UNCHANGED <<status, finPend, discards>>
    BY <1>1 DEF UsedIds, PendingIds, runnerVars, controlVars, schedVars, streams
  <2> QED BY <1>1, <2>1 DEF IInv, Current, Building, Early, Late
<1>3. pc' = "update" /\ SomeOpen => SteadyFacts
  <2> SUFFICES ASSUME ~MustDrain, SomeOpen PROVE SteadyFacts
    BY <1>1
  <2>1. pending # <<>> /\ batch # {}
    BY OpenPending
  <2>2. /\ cur.disc = NoCounts /\ SteadyCandidate
        /\ \A i \in DOMAIN pending : pending[i].overlapOk = TRUE
    BY <2>1 DEF MustDrain, IInv, Types, QueueTypes, Entries
  <2>3. cur.kind = "decode"
    BY <1>1, <2>1, <2>2 DEF SteadyCandidate, IInv, Current, Building, Early
  <2> QED BY <2>2, <2>3 DEF SteadyFacts, SteadyCandidate
<1> QED BY <1>1, <1>2, <1>3, MovesOn DEF Early, Late

(* The loop turns to the oldest result. *)
LEMMA RestStep ==
  ASSUME IInv, Rest
  PROVE  IInv'
<1>1. /\ pc = "idle" /\ queue # <<>> /\ pc' = "pop"
      /\ UNCHANGED <<schedVars, runnerVars, step, queue, cur, fault>>
  BY DEF Rest
<1>2. Current'
  BY <1>1 DEF IInv, Current, Building, Early, Late
<1> QED BY <1>1, <1>2, MovesOn DEF Early, Late

(* The wait is over: nothing is outstanding. *)
LEMMA WaitEndsStep ==
  ASSUME IInv, pc \in {"wait", "waitAgain"},
         \A i \in DOMAIN pending : step[pending[i].id].stage = "resolved",
         pc' = IF pc = "wait" THEN "update" ELSE "prune",
         UNCHANGED <<schedVars, runnerVars, step, queue, cur, fault>>
  PROVE  IInv'
<1>1. ~SomeOpen
  BY DEF SomeOpen, Open, PendingIds, IInv, Order
<1>2. Current'
  <2>1. UsedIds' = UsedIds /\ UNCHANGED <<status, finPend, discards>>
    BY DEF UsedIds, PendingIds, runnerVars, controlVars, schedVars, streams
  <2> QED BY <2>1 DEF IInv, Current, Building, Early, Late
<1> QED BY <1>1, <1>2, MovesOn DEF Early, Late

-----------------------------------------------------------------------------
(* Reading a result back. *)

(* The k-th step of the queue moves on to stage s; when it is read for the
   first time it joins the completed ones, which is where the line has it. *)
Reads(k, s) ==
  /\ k \in {1, 2} /\ Open(k) /\ (k = 2 => ~Open(1))
  /\ s \in {"queued", "resolved"}
  /\ step' = [step EXCEPT ![queue[k]].stage = s]
  /\ completed' = IF Unread(k) THEN Append(completed, queue[k]) ELSE completed
  /\ UNCHANGED <<schedVars, batchVars, app, specVars, chain, pending, resident, engineVars, fault>>

(* Reading a result back, by whichever thread, keeps the invariant. *)
LEMMA ReadStep ==
  ASSUME IInv, NEW k, NEW s, Reads(k, s)
  PROVE  IInv'
<1>1. /\ UNCHANGED <<status, hist, stale, drop, frames, discards, finPend>>
      /\ UNCHANGED <<known, batch, slotted, layoutChanged, app, proposed, accepted, chain, resident>>
      /\ UNCHANGED <<pending, queue, cur, pc, fault>>
  BY DEF Reads, schedVars, streams, batchVars, specVars, engineVars
<1>2. Types /\ k \in DOMAIN queue /\ queue[k] \in Ids /\ queue[k] \in ToSet(queue)
  BY QueueFacts DEF IInv, Types, Reads, Open
<1>3. /\ \A i \in Ids : /\ step'[i].kind = step[i].kind /\ step'[i].sched = step[i].sched
                        /\ step'[i].rows = step[i].rows /\ step'[i].out = step[i].out
                        /\ i # queue[k] => step'[i] = step[i]
      /\ step'[queue[k]].stage = s /\ step' \in [Ids -> Steps]
  <2>1. step \in [Ids -> Steps]
    BY <1>2 DEF Types, QueueTypes
  <2>2. step' = [step EXCEPT ![queue[k]] = [step[queue[k]] EXCEPT !.stage = s]]
    BY DEF Reads
  <2>3. step[queue[k]] \in Steps /\ s \in Stages
    BY <1>2, <2>1 DEF Reads, Stages
  <2>4. [step[queue[k]] EXCEPT !.stage = s] \in Steps
    BY <2>3 DEF Steps
  <2>5. \A i \in Ids : i # queue[k] => step'[i] = step[i]
    BY <2>1, <2>2
  <2>6. step'[queue[k]] = [step[queue[k]] EXCEPT !.stage = s]
    BY <1>2, <2>1, <2>2
  <2>7. step' \in [Ids -> Steps]
    BY <2>1, <2>2, <2>4
  <2>8. /\ step'[queue[k]].kind = step[queue[k]].kind /\ step'[queue[k]].sched = step[queue[k]].sched
        /\ step'[queue[k]].rows = step[queue[k]].rows /\ step'[queue[k]].out = step[queue[k]].out
        /\ step'[queue[k]].stage = s
    BY <2>3, <2>6 DEF Steps
  <2> QED BY <2>5, <2>7, <2>8
<1>4. \A i \in Ids : step'[i].stage # "resolved" => step[i].stage # "resolved"
  BY <1>3 DEF Reads, Open
<1>5. \A i \in DOMAIN queue : i # k => queue[i] # queue[k]
  BY <1>2, QueueFacts DEF IInv, Order, Types
<1>6. \A i \in DOMAIN queue : i # k => Open(i)' = Open(i) /\ Unread(i)' = Unread(i)
  BY <1>1, <1>2, <1>3, <1>5, QueueFacts DEF Open, Unread, Types
<1>7. \A i : Open(i)' => Open(i)
  BY <1>1, <1>2, <1>4, QueueFacts DEF Open, Types
<1>8. ~Unread(k)'
  BY <1>1, <1>3 DEF Unread, Reads
<1>9. SomeOpen' => SomeOpen
  BY <1>1, <1>7 DEF SomeOpen
<1>10. Line' = Line
  <2>1. k = 2 => ~Unread(1) /\ ~Unread(1)'
    BY <1>7 DEF Reads, Open, Unread
  <2>2. k = 1 => (Unread(2)' <=> Unread(2))
    BY <1>1, <1>6 DEF Unread
  <2>3. CASE k = 1
    BY <1>1, <1>8, <2>2, <2>3 DEF Line, Joined, Reads
  <2>4. CASE k = 2
    BY <1>1, <1>8, <2>1, <2>4 DEF Line, Joined, Reads
  <2> QED BY <2>3, <2>4 DEF Reads
<1>11. /\ completed' \in Seq(Ids) /\ ToSet(completed') \subseteq ToSet(completed) \cup {queue[k]}
       /\ ToSet(completed) \subseteq ToSet(completed')
  <2>1. completed \in Seq(Ids)
    BY <1>2 DEF Types, QueueTypes
  <2>2. CASE Unread(k)
    BY <1>2, <2>1, <2>2, Appended DEF Reads
  <2>3. CASE ~Unread(k)
    BY <2>1, <2>3 DEF Reads
  <2> QED BY <2>2, <2>3
<1>12. PendingIds' = PendingIds /\ UsedIds' = UsedIds
  BY <1>1, <1>2, <1>11 DEF PendingIds, UsedIds
<1>13. Types' /\ StepData'
  <2>1. SchedTypes' /\ RunnerTypes'
    BY <1>1 DEF IInv, Types, SchedTypes, RunnerTypes
  <2>2. QueueTypes'
    BY <1>1, <1>2, <1>3, <1>11 DEF Types, QueueTypes
  <2> QED BY <1>3, <1>4, <2>1, <2>2 DEF Types, IInv, StepData, Out
<1>14. Current'
  BY <1>1, <1>12 DEF IInv, Current, Building
<1>15. Order'
  <2>1. \A i \in DOMAIN queue : queue[i] \in Ids
    BY <1>2, QueueFacts DEF Types
  <2>2. \A i \in DOMAIN pending : pending[i].id \in Ids
    BY <1>2, UsedAreIds DEF Types, PendingIds
  <2> QED BY <1>1, <1>3, <1>4, <1>7, <1>9, <1>12, <2>1, <2>2 DEF IInv, Order
<1>16. ToSet(Line) \subseteq Ids /\ \A n \in DOMAIN Line : Line[n] \in Ids
  BY <1>2, LineIs DEF Types
<1>17. Lines'
  <2>1. \A i \in ToSet(completed') : step'[i].stage # "submitted"
    <3> TAKE i \in ToSet(completed')
    <3>1. CASE i = queue[k]
      BY <1>3, <3>1 DEF Reads
    <3>2. CASE i # queue[k]
      <4>1. i \in ToSet(completed) /\ i \in Ids
        BY <1>2, <1>11, <3>2, UsedAreIds DEF UsedIds, Types
      <4> QED BY <1>3, <3>2, <4>1 DEF IInv, Lines
    <3> QED BY <3>1, <3>2
  <2>2. queue # <<>> => queue[Len(queue)] \in Ids
    BY <1>2, QueueFacts DEF Types
  <2>3. \A i \in ToSet(Line)' : step'[i].rows # {} /\ \A r \in step'[i].rows : Out(i, r)' # <<>>
    BY <1>3, <1>10, <1>16 DEF IInv, Lines, Out
  <2>4. pc' \notin Late /\ queue' # <<>> /\ step'[queue'[Len(queue')]].rows # {} =>
          Line' # <<>> /\ Line'[Len(Line')] = queue'[Len(queue')]
    BY <1>1, <1>3, <1>10, <2>2 DEF IInv, Lines
  <2>5. /\ Len(Line') <= 2 /\ (Len(Line') = 2 => Line'[1] # Line'[2])
        /\ (pc' \in Late => ToSet(Line)' \subseteq ToSet(queue)')
        /\ (pc' = "submit" /\ Line' # <<>> => pending' # <<>>)
    BY <1>1, <1>10 DEF IInv, Lines
  <2> QED BY <2>1, <2>3, <2>4, <2>5 DEF Lines
<1>18. Overlap'
  <2>1. SteadyFacts' = SteadyFacts /\ Verifies' = Verifies
    BY <1>1 DEF SteadyFacts, Verifies, Drafted
  <2> QED BY <1>1, <1>9, <2>1 DEF IInv, Overlap
<1>19. Knowing'
  BY <1>1, <1>3, <1>10, <1>16 DEF IInv, Knowing
<1>20. \A r \in Reqs : Discarded(r)' = Discarded(r) /\ Parked(r)' = Parked(r)
  BY <1>1 DEF Discarded, Parked
<1>21. Resets'
  <2>1. queue # <<>> => queue[1] \in Ids
    BY <1>2, QueueFacts DEF Types
  <2> QED BY <1>1, <1>3, <1>10, <1>16, <1>20, <2>1 DEF IInv, Resets
<1>22. Withdrawn'
  <2>1. \A i \in DOMAIN queue : queue[i] \in Ids
    BY <1>2, QueueFacts DEF Types
  <2> QED BY <1>1, <1>3, <2>1 DEF IInv, Withdrawn, Out
<1>23. Flow' /\ Resident'
  BY <1>1, <1>2, <1>3, <1>10, <1>20, FlowKept, ResidentKept DEF IInv
<1>24. Frames'
  <2>1. \A i \in DOMAIN queue : queue[i] \in Ids
    BY <1>2, QueueFacts DEF Types
  <2>2. \A r \in Reqs, i \in {1, 2} : Carries(r, i)' = Carries(r, i)
    BY <1>1, <1>3, <2>1 DEF Carries
  <2> QED BY <1>1, <2>2 DEF IInv, Frames
<1>25. Delivery' /\ NoFault'
  BY <1>1 DEF IInv, Delivery, Continues, NoFault
<1> QED BY <1>13, <1>14, <1>15, <1>17, <1>18, <1>19, <1>21, <1>22, <1>23, <1>24, <1>25 DEF IInv

(* Of one or two places, the choice of the smallest finds it. *)
LEMMA SmallestOf ==
  ASSUME NEW S, S \subseteq {1, 2}, S # {}
  PROVE  /\ (CHOOSE i \in S : \A j \in S : i <= j) \in S
         /\ \A j \in S : (CHOOSE i \in S : \A j2 \in S : i <= j2) <= j
<1>1. \E i \in S : \A j \in S : i <= j
  <2>1. CASE 1 \in S
    <3>1. \A j \in S : 1 <= j
      OBVIOUS
    <3> QED BY <2>1, <3>1
  <2>2. CASE 1 \notin S
    <3>1. \A j \in S : j = 2
      BY <2>2
    <3>2. 2 \in S
      BY <3>1
    <3>3. \A j \in S : 2 <= j
      BY <3>1
    <3> QED BY <3>2, <3>3
  <2> QED BY <2>1, <2>2
<1> QED BY <1>1

(* The drain reads the step that is outstanding. *)
LEMMA WaitStep ==
  ASSUME IInv, WaitForPending
  PROVE  IInv'
<1> DEFINE open == {i \in DOMAIN pending : step[pending[i].id].stage # "resolved"}
           i0 == CHOOSE i \in open : \A j \in open : i <= j
           id == pending[i0].id
<1>1. /\ pc \in {"wait", "waitAgain"}
      /\ UNCHANGED <<schedVars, batchVars, app, specVars, chain, pending, resident, queue, cur, fault>>
  BY DEF WaitForPending
<1>2. CASE open = {}
  <2>1. /\ pc' = IF pc = "wait" THEN "update" ELSE "prune"
        /\ UNCHANGED <<step, completed>>
    BY <1>2 DEF WaitForPending
  <2>2. UNCHANGED <<schedVars, runnerVars, step, queue, cur, fault>>
    BY <1>1, <2>1 DEF runnerVars, controlVars
  <2> QED BY <1>1, <1>2, <2>1, <2>2, WaitEndsStep
<1>3. CASE open # {}
  <2>1. /\ step[id].stage = "submitted"
        /\ step' = [step EXCEPT ![id].stage = "resolved"]
        /\ completed' = Append(completed, id) /\ pc' = pc
    BY <1>3 DEF WaitForPending
  <2>2. open \subseteq {1, 2}
    <3>1. pending \in Seq(Entries) /\ Len(pending) <= 2
      BY DEF IInv, Types, QueueTypes
    <3> QED BY <3>1, ShortSeq
  <2>3. i0 \in open
    BY <1>3, <2>2, SmallestOf
  <2>4. id \in ToSet(queue)
    BY <2>3 DEF IInv, Order
  <2>5. id = queue[1] /\ 1 \in DOMAIN queue
    <3>1. Len(queue) <= 1
      BY <1>1 DEF IInv, Current
    <3> HIDE DEF id
    <3> QED BY <2>4, <3>1, QueueFacts DEF IInv, Types
  <2> HIDE DEF id
  <2>6. Unread(1) /\ Open(1)
    BY <2>1, <2>5 DEF Unread, Open
  <2>7. Reads(1, "resolved")
    BY <1>1, <2>1, <2>5, <2>6 DEF Reads, engineVars
  <2> QED BY <2>7, ReadStep
<1> QED BY <1>2, <1>3

(* The oldest outstanding step of the queue. *)
LEMMA OldestIs ==
  ASSUME IInv, Outstanding # {}
  PROVE  \E k \in {1, 2} : Oldest = queue[k] /\ Open(k) /\ (k = 2 => ~Open(1))
<1> DEFINE k == CHOOSE i \in Outstanding : \A j \in Outstanding : i <= j
<1>1. Outstanding \subseteq {1, 2} /\ \A i \in Outstanding : Open(i)
  BY QueueFacts DEF Outstanding, Open, IInv, Types
<1>2. k \in Outstanding /\ \A j \in Outstanding : k <= j
  BY <1>1, SmallestOf
<1>3. Oldest = queue[k]
  BY DEF Oldest
<1> HIDE DEF k
<1>4. k = 2 => ~Open(1)
  <2> SUFFICES ASSUME k = 2, Open(1) PROVE FALSE
    OBVIOUS
  <2>1. 1 \in Outstanding
    BY DEF Outstanding, Open
  <2>2. 2 <= 1
    BY <1>2, <2>1
  <2> QED BY <2>2
<1> QED BY <1>1, <1>2, <1>3, <1>4

(* The output thread reads the oldest outstanding step, then sets its event. *)
LEMMA OutputStep ==
  ASSUME IInv, OutputQueues \/ OutputSetsEvent
  PROVE  IInv'
<1>1. Outstanding # {}
  BY DEF OutputQueues, OutputSetsEvent
<1>2. PICK k \in {1, 2} : Oldest = queue[k] /\ Open(k) /\ (k = 2 => ~Open(1))
  BY <1>1, OldestIs
<1>3. CASE OutputQueues
  <2>1. Unread(k)
    BY <1>2, <1>3 DEF Unread, Open, OutputQueues
  <2>2. Reads(k, "queued")
    BY <1>2, <1>3, <2>1 DEF Reads, OutputQueues
  <2> QED BY <2>2, ReadStep
<1>4. CASE OutputSetsEvent
  <2>1. ~Unread(k)
    BY <1>2, <1>4 DEF Unread, OutputSetsEvent
  <2>2. Reads(k, "resolved")
    BY <1>2, <1>4, <2>1 DEF Reads, OutputSetsEvent, runnerVars, controlVars
  <2> QED BY <2>2, ReadStep
<1> QED BY <1>3, <1>4

(* Without an output thread the engine reads the oldest step as it takes it. *)
LEMMA PopReadStep ==
  ASSUME IInv, ResolveAtPop
  PROVE  IInv'
<1>1. queue # <<>> /\ queue \in Seq(Ids) /\ Len(queue) <= 2
  BY DEF ResolveAtPop, IInv, Types, QueueTypes
<1>2. Head(queue) = queue[1] /\ 1 \in DOMAIN queue
  BY <1>1, ShortTail, ShortSeq
<1>3. Unread(1) /\ Open(1)
  BY <1>2 DEF Unread, Open, ResolveAtPop
<1>4. Reads(1, "resolved")
  BY <1>2, <1>3 DEF Reads, ResolveAtPop
<1> QED BY <1>4, ReadStep

-----------------------------------------------------------------------------
(* Taking resolved steps from the front of the pending ones. *)

(* With one step in the queue, that one is left if it is outstanding. *)
LEMMA PrunedIs ==
  ASSUME IInv, Len(queue) <= 1
  PROVE  /\ ~SomeOpen => Pruned = <<>>
         /\ SomeOpen => /\ Pruned \in Seq(Entries) /\ Len(Pruned) = 1 /\ Len(queue) = 1
                        /\ pending # <<>> /\ Pruned[1] = pending[Len(pending)]
                        /\ Pruned[1].id = queue[1] /\ Open(1)
<1> DEFINE open == {i \in DOMAIN pending : step[pending[i].id].stage # "resolved"}
           i0 == CHOOSE i \in open : \A j \in open : i <= j
<1>1. pending \in Seq(Entries) /\ Len(pending) <= 2 /\ QueueTypes
  BY DEF IInv, Types, QueueTypes
<1>2. open \subseteq {1, 2}
  BY <1>1, ShortSeq
<1>3. \A i \in open : queue # <<>> /\ pending[i].id = queue[1] /\ Open(1)
  <2> SUFFICES ASSUME NEW i \in open PROVE queue # <<>> /\ pending[i].id = queue[1] /\ Open(1)
    OBVIOUS
  <2>1. pending[i].id \in ToSet(queue)
    BY DEF IInv, Order
  <2>2. Len(queue) = 1 /\ ToSet(queue) = {queue[1]} /\ 1 \in DOMAIN queue /\ queue # <<>>
    BY <1>1, <2>1, QueueFacts
  <2> QED BY <2>1, <2>2 DEF Open
<1>4. CASE ~SomeOpen
  <2>1. open = {}
    BY <1>3, <1>4 DEF SomeOpen, Open
  <2> QED BY <1>4, <2>1 DEF Pruned
<1>5. CASE SomeOpen
  <2>1. Open(1) /\ Len(queue) = 1
    BY <1>1, <1>5, QueueFacts DEF SomeOpen
  <2>2. pending # <<>> /\ pending[Len(pending)].id = queue[1] /\ Len(pending) \in {1, 2}
        /\ DOMAIN pending = 1 .. Len(pending)
    BY <1>1, <2>1, ShortSeq DEF IInv, Order
  <2>3. Len(pending) \in open
    BY <2>1, <2>2 DEF Open
  <2>4. \A i \in open : i = Len(pending)
    <3> TAKE i \in open
    <3>1. pending[i].id = pending[Len(pending)].id /\ i \in DOMAIN pending
      BY <1>3, <2>2
    <3>2. Len(pending) = 2 => pending[1].id # pending[2].id
      BY DEF IInv, Order
    <3> QED BY <2>2, <3>1, <3>2
  <2>5. i0 = Len(pending)
    BY <1>2, <2>3, <2>4, SmallestOf
  <2>6. Pruned = SubSeq(pending, Len(pending), Len(pending))
    BY <2>3, <2>5 DEF Pruned
  <2> DEFINE n == Len(pending)
  <2>7. /\ SubSeq(pending, n, n) \in Seq(Entries) /\ Len(SubSeq(pending, n, n)) = 1
        /\ SubSeq(pending, n, n)[1] = pending[n]
    BY <1>1, <2>2
  <2> HIDE DEF n
  <2> QED BY <1>5, <2>1, <2>2, <2>6, <2>7 DEF n
<1> QED BY <1>4, <1>5

(* What both prunings leave as it was, and what they make of the pending steps. *)
LEMMA PruneKeeps ==
  ASSUME IInv, pc \in {"update", "prune"}, pending' = Pruned,
         UNCHANGED <<completed, step, queue, cur>>
  PROVE  /\ Line' = Line /\ SomeOpen' = SomeOpen
         /\ \A i : Open(i)' = Open(i) /\ Unread(i)' = Unread(i)
         /\ pending' \in Seq(Entries) /\ Len(pending') <= 1
         /\ PendingIds' \subseteq PendingIds /\ PendingIds' \subseteq ToSet(queue)
         /\ UsedIds' \subseteq UsedIds
         /\ ~SomeOpen => pending' = <<>>
         /\ SomeOpen => /\ Len(queue) = 1 /\ pending # <<>> /\ DOMAIN pending' = {1}
                        /\ pending'[1] = pending[Len(pending)] /\ pending'[1].id = queue[1]
                        /\ Len(pending') = 1
<1>1. Line' = Line /\ SomeOpen' = SomeOpen /\ \A i : Open(i)' = Open(i) /\ Unread(i)' = Unread(i)
  BY DEF Line, Joined, SomeOpen, Open, Unread
<1>2. Len(queue) <= 1 /\ QueueTypes
  BY DEF IInv, Current, Types
<1>3. CASE ~SomeOpen
  <2>1. pending' = <<>> /\ DOMAIN <<>> = {} /\ Len(<<>>) = 0 /\ <<>> \in Seq(Entries)
    BY <1>2, <1>3, PrunedIs
  <2>2. PendingIds' = {}
    BY <2>1 DEF PendingIds
  <2> QED BY <1>1, <1>3, <2>1, <2>2 DEF UsedIds
<1>4. CASE SomeOpen
  <2>1. /\ pending' \in Seq(Entries) /\ Len(pending') = 1 /\ Len(queue) = 1 /\ pending # <<>>
        /\ pending'[1] = pending[Len(pending)] /\ pending'[1].id = queue[1]
    BY <1>2, <1>4, PrunedIs
  <2>2. DOMAIN pending' = {1}
    BY <2>1
  <2>3. PendingIds' = {queue[1]}
    BY <2>1, <2>2 DEF PendingIds
  <2>4. queue[1] \in PendingIds /\ queue[1] \in ToSet(queue)
    <3>1. Open(1) /\ 1 \in DOMAIN queue
      BY <1>2, <1>4, PrunedIs DEF Open
    <3> QED BY <1>2, <3>1, QueueFacts DEF IInv, Order
  <2> QED BY <1>1, <1>4, <2>1, <2>2, <2>3, <2>4 DEF UsedIds
<1> QED BY <1>3, <1>4

(* The batch becomes the step's; an outstanding step has the same batch. *)
LEMMA UpdateStep ==
  ASSUME IInv, UpdateStates
  PROVE  IInv'
<1>1. /\ pc = "update" /\ pc' = "apply" /\ pending' = Pruned
      /\ known' = (known \ cur.fin) \cup cur.new
      /\ slotted' = slotted \ (cur.fin \cup cur.pre)
      /\ batch' = cur.sched
      /\ layoutChanged' = (layoutChanged \/ batch # cur.sched)
      /\ app' = [r \in Reqs |-> IF r \in cur.fin THEN <<>> ELSE app[r]]
      /\ UNCHANGED <<status, hist, stale, drop, frames, discards, finPend>>
      /\ UNCHANGED <<proposed, accepted, chain, completed, resident, step, queue, cur, fault>>
  BY DEF UpdateStates, schedVars, streams, specVars
<1>2. /\ Line' = Line /\ SomeOpen' = SomeOpen
      /\ \A i : Open(i)' = Open(i) /\ Unread(i)' = Unread(i)
      /\ pending' \in Seq(Entries) /\ Len(pending') <= 1
      /\ PendingIds' \subseteq PendingIds /\ PendingIds' \subseteq ToSet(queue)
      /\ UsedIds' \subseteq UsedIds
      /\ ~SomeOpen => pending' = <<>>
      /\ SomeOpen => /\ Len(queue) = 1 /\ pending # <<>> /\ DOMAIN pending' = {1}
                     /\ pending'[1] = pending[Len(pending)] /\ pending'[1].id = queue[1]
                     /\ Len(pending') = 1
  BY <1>1, PruneKeeps
<1>3. Types /\ cur \in Curs /\ Len(queue) <= 1 /\ cur.fin \subseteq Reqs
  BY <1>1 DEF IInv, Types, QueueTypes, Current, Curs
<1>4. Types'
  <2>1. SchedTypes'
    BY <1>1, <1>3 DEF Types, SchedTypes
  <2>2. RunnerTypes'
    <3>1. known' \subseteq Reqs /\ batch' \subseteq Reqs /\ slotted' \subseteq Reqs
      BY <1>1, <1>3 DEF Types, RunnerTypes, Curs
    <3>2. app' \in [Reqs -> Seq(Nat)]
      BY <1>1, <1>3 DEF Types, RunnerTypes
    <3> QED BY <1>1, <1>3, <3>1, <3>2 DEF Types, RunnerTypes
  <2>3. QueueTypes'
    BY <1>1, <1>2, <1>3 DEF Types, QueueTypes, Early
  <2> QED BY <2>1, <2>2, <2>3 DEF Types
<1>5. StepData' /\ NoFault' /\ Frames' /\ Delivery'
  BY <1>1 DEF IInv, StepData, Out, NoFault, Frames, Carries, Delivery, Continues
<1>6. Current'
  BY <1>1, <1>2 DEF IInv, Current, Building, Early
<1>7. SomeOpen => SteadyFacts
  BY <1>1 DEF IInv, Overlap
<1>8. Order'
  <2>1. \A i \in DOMAIN queue : Open(i) => step[queue[i]].sched = batch' /\ queue[i] \in PendingIds'
    <3> SUFFICES ASSUME NEW i \in DOMAIN queue, Open(i)
                 PROVE  step[queue[i]].sched = batch' /\ queue[i] \in PendingIds'
      OBVIOUS
    <3>1. SomeOpen
      BY DEF SomeOpen
    <3>2. i = 1 /\ pending'[1].id = queue[1] /\ DOMAIN pending' = {1}
      BY <1>2, <1>3, <3>1, QueueFacts DEF Types
    <3>3. batch' = batch
      BY <1>1, <1>7, <3>1 DEF SteadyFacts
    <3> QED BY <3>2, <3>3 DEF IInv, Order, PendingIds
  <2>2. \A i \in DOMAIN pending' : pending'[i].id \in ToSet(queue)
    BY <1>2 DEF PendingIds
  <2>3. Open(Len(queue)) => pending' # <<>> /\ pending'[Len(pending')].id = queue[Len(queue)]
    <3> SUFFICES ASSUME Open(Len(queue))
                 PROVE  pending' # <<>> /\ pending'[Len(pending')].id = queue[Len(queue)]
      OBVIOUS
    <3>1. SomeOpen
      BY DEF SomeOpen, Open
    <3>2. DOMAIN <<>> = {}
      OBVIOUS
    <3> QED BY <1>2, <3>1, <3>2
  <2>4. Len(queue') # 2 /\ Len(pending') # 2
    BY <1>1, <1>2, <1>3
  <2> QED BY <1>1, <1>2, <2>1, <2>2, <2>3, <2>4 DEF IInv, Order, Late
<1>9. Lines'
  BY <1>1, <1>2 DEF IInv, Lines, Out, Late
<1>10. Overlap'
  <2>1. pending' # <<>> => SomeOpen /\ SteadyFacts'
    <3> SUFFICES ASSUME pending' # <<>> PROVE SomeOpen /\ SteadyFacts'
      OBVIOUS
    <3>1. SomeOpen /\ SteadyFacts
      BY <1>2, <1>7
    <3>2. DOMAIN pending' = {1} /\ pending'[1] = pending[Len(pending)] /\ Len(pending) \in DOMAIN pending
      <4>1. pending \in Seq(Entries) /\ Len(pending) <= 2 /\ pending # <<>>
        BY <1>2, <1>3, <3>1 DEF Types, QueueTypes
      <4> QED BY <1>2, <3>1, <4>1, ShortSeq
    <3> QED BY <1>1, <3>1, <3>2 DEF SteadyFacts
  <2>2. pending' # <<>> => pending'[Len(pending')] = pending[Len(pending)] /\ pending # <<>>
    BY <1>2, <2>1
  <2> QED BY <1>1, <2>1, <2>2 DEF IInv, Overlap, Late
<1>11. Knowing'
  <2>1. \A r \in cur.fin : status[r] = "done"
    BY DEF IInv, Knowing
  <2>2. \A r \in Reqs : status[r] \in {"partial", "running", "preempted"} => r \in known'
    BY <1>1, <2>1 DEF IInv, Knowing
  <2>3. \A r \in Reqs : status[r] \in {"new", "waiting"} => app'[r] = <<>>
    BY <1>1 DEF IInv, Knowing
  <2>4. \A i \in ToSet(Line) : step[i].rows \subseteq known' \cup cur.fin
    BY <1>1 DEF IInv, Knowing
  <2> QED BY <1>1, <1>2, <2>2, <2>3, <2>4 DEF IInv, Knowing
<1>12. \A r \in Reqs : Discarded(r)' = Discarded(r) /\ Parked(r)' = Parked(r)
  BY <1>1 DEF Discarded, Parked, Early
<1>13. Resets' /\ Withdrawn'
  BY <1>1, <1>2, <1>12 DEF IInv, Resets, Withdrawn, Out, Late
<1>14. Flow'
  <2> SUFFICES ASSUME NEW r \in Reqs, Live(r)' PROVE FlowOf(r)'
    BY DEF Flow
  <2>1. FlowOf(r) /\ status[r] # "done"
    BY <1>1 DEF IInv, Flow, Live
  <2>2. app'[r] = app[r]
    BY <1>1, <2>1 DEF IInv, Knowing
  <2>3. Dropped(r)' = Dropped(r)
    BY <1>1 DEF Dropped
  <2> QED BY <1>1, <1>2, <1>3, <1>12, <2>1, <2>2, <2>3, FlowSame DEF Types
<1>15. Resident'
  <2> SUFFICES ASSUME ~layoutChanged' PROVE Resident'
    BY DEF Resident
  <2>1. batch' = batch /\ layoutChanged' = layoutChanged
    BY <1>1, <1>3 DEF Types, RunnerTypes
  <2> QED BY <1>1, <1>3, <2>1, ResidentKept DEF IInv
<1> QED BY <1>4, <1>5, <1>6, <1>8, <1>9, <1>10, <1>11, <1>13, <1>14, <1>15 DEF IInv

(* Before the second apply nothing is outstanding. *)
LEMMA PruneAgainStep ==
  ASSUME IInv, PruneAgain
  PROVE  IInv'
<1>1. /\ pc = "prune" /\ pc' = "applyAgain" /\ pending' = Pruned
      /\ UNCHANGED <<status, hist, stale, drop, frames, discards, finPend>>
      /\ UNCHANGED <<known, batch, slotted, layoutChanged, app, proposed, accepted, chain>>
      /\ UNCHANGED <<completed, resident, step, queue, cur, fault>>
  BY DEF PruneAgain, schedVars, streams, batchVars, specVars
<1>2. /\ Line' = Line /\ SomeOpen' = SomeOpen
      /\ \A i : Open(i)' = Open(i) /\ Unread(i)' = Unread(i)
      /\ pending' \in Seq(Entries) /\ Len(pending') <= 1
      /\ PendingIds' \subseteq PendingIds /\ PendingIds' \subseteq ToSet(queue)
      /\ UsedIds' \subseteq UsedIds
      /\ ~SomeOpen => pending' = <<>>
  BY <1>1, PruneKeeps
<1>3. ~SomeOpen /\ pending' = <<>> /\ DOMAIN <<>> = {} /\ Len(<<>>) = 0
  BY <1>1, <1>2 DEF IInv, Order
<1>4. Types'
  <2>1. SchedTypes' /\ RunnerTypes'
    BY <1>1 DEF IInv, Types, SchedTypes, RunnerTypes
  <2>2. QueueTypes'
    BY <1>1, <1>2 DEF IInv, Types, QueueTypes, Late
  <2> QED BY <2>1, <2>2 DEF Types
<1>5. StepData' /\ NoFault' /\ Frames' /\ Delivery'
  BY <1>1 DEF IInv, StepData, Out, NoFault, Frames, Carries, Delivery, Continues
<1>6. Current'
  BY <1>1, <1>2 DEF IInv, Current, Building, Late
<1>7. Order'
  <2>1. \A i \in DOMAIN queue : ~Open(i)
    BY <1>3 DEF SomeOpen
  <2>2. ~Open(Len(queue))
    BY <2>1 DEF Open
  <2> QED BY <1>1, <1>2, <1>3, <2>1, <2>2 DEF IInv, Order
<1>8. Lines' /\ Overlap'
  BY <1>1, <1>2, <1>3 DEF IInv, Lines, Overlap, Out, Late
<1>9. \A r \in Reqs : Discarded(r)' = Discarded(r) /\ Parked(r)' = Parked(r)
  BY <1>1 DEF Discarded, Parked, Early
<1>10. Knowing' /\ Resets' /\ Withdrawn'
  BY <1>1, <1>2, <1>9 DEF IInv, Knowing, Resets, Withdrawn, Out, Late
<1>11. Flow' /\ Resident'
  BY <1>1, <1>2, <1>9, FlowKept, ResidentKept DEF IInv
<1> QED BY <1>4, <1>5, <1>6, <1>7, <1>8, <1>10, <1>11 DEF IInv

-----------------------------------------------------------------------------
(* Scheduling. *)

(* At most two steps are referred to between two engine steps, so one of the
   four ids is free. *)
LEMMA FreeId ==
  ASSUME IInv
  PROVE  (CHOOSE i \in Ids : i \notin UsedIds) \in Ids \ UsedIds
<1>1. PICK a, b \in Ids : UsedIds \subseteq {a, b}
  BY DEF IInv, Order
<1>2. 1 \in Ids /\ 2 \in Ids /\ 3 \in Ids
  BY DEF Ids, QueueSize
<1>3. \E i \in Ids : i \notin UsedIds
  BY <1>1, <1>2
<1> QED BY <1>3

(* What a pass of the scheduler does to the requests: a scheduled row runs, or
   has a chunk of its prompt left; a preempted one was running, and owes what
   is in flight. *)
Passes(kind, sched, rows, pre) ==
  /\ pc = "idle" /\ Len(queue) <= 1 /\ Publish(kind, sched, rows, pre)
  /\ sched \subseteq Reqs /\ rows \subseteq sched /\ pre \subseteq Reqs
  /\ kind \in {"none", "prefill", "decode"} /\ (kind = "none" <=> sched = {})
  /\ kind = "decode" => rows = sched
  /\ status' \in [Reqs -> Statuses] /\ stale' \in [Reqs -> Nat] /\ drop' \in [Reqs -> BOOLEAN]
  /\ \A r \in sched : /\ status'[r] = IF r \in rows THEN "running" ELSE "partial"
                      /\ status[r] \in IF kind = "prefill" THEN {"waiting", "partial", "preempted"}
                                       ELSE {"running"}
  /\ \A r \in Reqs \ sched : status'[r] = status[r]
                             \/ (status[r] = "running" /\ status'[r] = "preempted")
  /\ \A r \in Reqs : \/ stale'[r] = stale[r] /\ drop'[r] = drop[r]
                     \/ /\ status[r] = "running" /\ status'[r] = "preempted"
                        /\ stale'[r] = InFlight(r) /\ drop'[r] = FALSE

(* A pass of the scheduler keeps the invariant. *)
LEMMA PassStep ==
  ASSUME IInv, NEW kind, NEW sched, NEW rows, NEW pre, Passes(kind, sched, rows, pre)
  PROVE  IInv'
<1>1. /\ pc = "idle" /\ pc' = "preflight" /\ Len(queue) <= 1
      /\ cur' = [id |-> CHOOSE i \in Ids : i \notin UsedIds,
                 kind |-> kind, sched |-> sched, rows |-> rows,
                 new |-> {r \in sched : status[r] = "waiting"},
                 resumed |-> {r \in sched : status[r] = "preempted"},
                 fin |-> finPend, pre |-> pre \cup ResetPreempted, disc |-> discards]
      /\ frames' = FramesReserved(rows) /\ finPend' = {} /\ discards' = NoCounts
      /\ UNCHANGED <<hist, known, batch, slotted, layoutChanged, app, proposed, accepted, chain>>
      /\ UNCHANGED <<pending, completed, resident, step, queue, fault>>
  BY DEF Passes, Publish, runnerVars, batchVars, specVars, controlVars
<1>2. /\ cur'.id \in Ids \ UsedIds /\ cur'.kind = kind /\ cur'.sched = sched /\ cur'.rows = rows
      /\ cur'.new = {r \in sched : status[r] = "waiting"} /\ cur'.fin = finPend
      /\ cur'.disc = discards /\ cur'.resumed \subseteq Reqs /\ cur'.pre \subseteq Reqs
  BY <1>1, FreeId DEF Passes, ResetPreempted
<1>3. /\ cur = NoStep /\ NoStep.kind = "none" /\ NoStep.sched = {} /\ NoStep.rows = {}
      /\ NoStep.fin = {}
  BY <1>1 DEF IInv, Current, Building, Early, Late, NoStep
<1>4. Types
  BY DEF IInv
<1>5. /\ UNCHANGED queueVars
      /\ Line' = Line /\ SomeOpen' = SomeOpen /\ PendingIds' = PendingIds /\ UsedIds' = UsedIds
      /\ \A i : Open(i)' = Open(i) /\ Unread(i)' = Unread(i)
  <2>1. UNCHANGED queueVars
    BY <1>1 DEF queueVars
  <2> QED BY <2>1, SameLine
<1>6. /\ sched \subseteq Reqs /\ rows \subseteq sched
      /\ kind \in {"none", "prefill", "decode"} /\ (kind = "none" <=> sched = {})
      /\ kind = "decode" => rows = sched
      /\ \A r \in sched : /\ status'[r] = IF r \in rows THEN "running" ELSE "partial"
                          /\ status[r] \in {"waiting", "partial", "preempted", "running"}
                          /\ kind # "prefill" => status[r] = "running"
                          /\ kind = "prefill" => status[r] # "running"
      /\ \A r \in Reqs \ sched : status'[r] = status[r]
                                 \/ (status[r] = "running" /\ status'[r] = "preempted")
  BY DEF Passes
<1>7. Types'
  <2>1. frames' \in [Reqs -> Nat] /\ discards' \in [Reqs -> Nat]
    <3>1. \A r \in Reqs : frames[r] \in Nat
      BY <1>4 DEF Types, SchedTypes
    <3> QED BY <1>1, <3>1 DEF FramesReserved, NoCounts
  <2>2. SchedTypes'
    BY <1>1, <1>4, <2>1 DEF Types, SchedTypes, Passes
  <2>3. RunnerTypes'
    BY <1>1, <1>4 DEF Types, RunnerTypes
  <2>4. cur' \in Curs
    <3>1. discards \in [Reqs -> Nat] /\ finPend \subseteq Reqs
      BY <1>4 DEF Types, SchedTypes
    <3>2. (CHOOSE i \in Ids : i \notin UsedIds) \in Nat
      <4>1. Ids \subseteq Nat
        BY DEF Ids, QueueSize
      <4> QED BY <4>1, FreeId
    <3>3. pre \subseteq Reqs /\ ResetPreempted \subseteq Reqs
      BY DEF Passes, ResetPreempted
    <3>4. pre \cup ResetPreempted \in SUBSET Reqs
      BY <3>3
    <3> QED BY <1>1, <1>6, <3>1, <3>2, <3>4 DEF Curs, Kinds
  <2>5. QueueTypes'
    BY <1>1, <1>4, <2>4 DEF Types, QueueTypes, Early
  <2> QED BY <2>2, <2>3, <2>5 DEF Types
<1>8. StepData' /\ NoFault' /\ Delivery'
  BY <1>1 DEF IInv, StepData, Out, NoFault, Delivery, Continues
<1>9. Current'
  BY <1>1, <1>2, <1>5, <1>6 DEF Current, Building, Early
<1>10. Order' /\ Lines' /\ Overlap'
  <2>1. Order'
    BY <1>1, <1>5 DEF IInv, Order, Late
  <2>2. Lines'
    BY <1>1, <1>5 DEF IInv, Lines, Out, Late
  <2>3. Overlap'
    BY <1>1 DEF IInv, Overlap, Late
  <2> QED BY <2>1, <2>2, <2>3
<1>11. \A r \in Reqs : /\ status'[r] = "done" <=> status[r] = "done"
                       /\ status'[r] \in {"new", "waiting"} => status[r] = status'[r]
                       /\ Live(r)' => Live(r)
                       /\ status[r] = "preempted" => status'[r] = "preempted" \/ r \in sched
  BY <1>6 DEF Live
<1>12. Knowing'
  <2>1. finPend' \cup cur'.fin \subseteq {r \in Reqs : status'[r] = "done"}
    BY <1>1, <1>2, <1>11 DEF IInv, Knowing
  <2>2. ASSUME NEW r \in Reqs, status'[r] \in {"partial", "running", "preempted"}
        PROVE  r \in known \cup cur'.new
    <3>1. CASE status[r] \in {"partial", "running", "preempted"}
      BY <1>1, <3>1 DEF IInv, Knowing
    <3>2. CASE status[r] \notin {"partial", "running", "preempted"}
      BY <1>2, <1>6, <2>2, <3>2
    <3> QED BY <3>1, <3>2
  <2>3. \A i \in ToSet(Line) : step[i].rows \subseteq known
    BY <1>1 DEF IInv, Knowing
  <2> QED BY <1>1, <1>5, <1>11, <2>1, <2>2, <2>3 DEF IInv, Knowing
<1>13. \A r \in Reqs : Discarded(r)' = Discarded(r) /\ (Parked(r) => Parked(r)')
  BY <1>1, <1>2, <1>3, <1>11 DEF Discarded, Parked, Early
(* A preempted request ran, so nothing of it was stale. *)
<1>14. ASSUME NEW r \in Reqs
       PROVE  \/ stale'[r] = stale[r] /\ drop'[r] = drop[r]
              \/ /\ status[r] = "running" /\ status'[r] = "preempted" /\ drop'[r] = FALSE
                 /\ stale[r] = 0 /\ stale'[r] = Flies(r, 1) /\ Flies(r, 1) \in {0, 1}
  <2> SUFFICES ASSUME status[r] = "running", status'[r] = "preempted", stale'[r] = InFlight(r),
                      drop'[r] = FALSE
               PROVE  stale[r] = 0 /\ stale'[r] = Flies(r, 1) /\ Flies(r, 1) \in {0, 1}
    BY DEF Passes
  <2>1. ~Parked(r)
    BY <1>3 DEF Parked
  <2>2. stale[r] = 0
    <3>1. ~(stale[r] > 0)
      BY <1>1, <2>1 DEF IInv, Resets
    <3> QED BY <1>4, <3>1 DEF Types, SchedTypes
  <2>3. Flies(r, 2) = 0 /\ Flies(r, 1) \in {0, 1}
    BY <1>1, <1>4, QueueFacts DEF Flies, Types
  <2>4. InFlight(r) = Flies(r, 1)
    BY <1>4, <2>3, InFlightIs DEF Types
  <2> QED BY <2>2, <2>3, <2>4
<1>15. Resets'
  <2> SUFFICES ASSUME NEW r \in Reqs
               PROVE  /\ Discarded(r)' <= 1
                      /\ Discarded(r)' = 1 => Parked(r)' /\ \E n \in DOMAIN Line : r \in step[Line[n]].rows
                      /\ stale'[r] > 0 => /\ stale'[r] = 1 /\ queue # <<>> /\ r \in step[queue[1]].sched
                                          /\ Parked(r)' \/ Len(queue) = 2
    BY <1>1, <1>5 DEF Resets
  <2>1. /\ Discarded(r)' <= 1
        /\ Discarded(r)' = 1 => Parked(r)' /\ \E n \in DOMAIN Line : r \in step[Line[n]].rows
    BY <1>13 DEF IInv, Resets
  <2>2. CASE stale'[r] = stale[r]
    BY <1>13, <2>1, <2>2 DEF IInv, Resets
  <2>3. CASE status'[r] = "preempted" /\ stale'[r] = Flies(r, 1) /\ Flies(r, 1) \in {0, 1}
    <3>1. Parked(r)'
      BY <2>3 DEF Parked
    <3>2. Flies(r, 1) > 0 => r \in step[queue[1]].sched /\ queue # <<>>
      BY <1>4, QueueFacts DEF Flies, Types
    <3> QED BY <2>1, <2>3, <3>1, <3>2
  <2> QED BY <1>14, <2>2, <2>3
<1>16. Withdrawn'
  BY <1>1, <1>2, <1>3, <1>11 DEF IInv, Withdrawn, Out, Late
<1>17. \A r \in Reqs : Dropped(r)' = Dropped(r)
  <2> TAKE r \in Reqs
  <2>1. CASE stale'[r] = stale[r] /\ drop'[r] = drop[r]
    BY <2>1 DEF Dropped
  <2>2. CASE drop'[r] = FALSE /\ stale[r] = 0
    BY <2>2 DEF Dropped
  <2> QED BY <1>14, <2>1, <2>2
<1>18. ASSUME NEW r \in Reqs, status'[r] = "running", ~(kind = "prefill" /\ r \in sched)
       PROVE  status[r] = "running"
  BY <1>6, <1>18
<1>19. Flow'
  <2> SUFFICES ASSUME NEW r \in Reqs, Live(r)' PROVE FlowOf(r)'
    BY DEF Flow
  <2>1. FlowOf(r)
    BY <1>11 DEF IInv, Flow
  <2>2. status'[r] = "running" /\ ~(cur'.kind = "prefill" /\ r \in cur'.sched) =>
          status[r] = "running" /\ ~(cur.kind = "prefill" /\ r \in cur.sched)
    BY <1>2, <1>3, <1>18
  <2> QED BY <1>1, <1>4, <1>5, <1>13, <1>17, <2>1, <2>2, FlowSame DEF Types
<1>20. Resident'
  <2> SUFFICES ASSUME kind # "prefill" PROVE Resident'
    BY <1>2 DEF Resident
  <2>1. \A r \in batch : status'[r] = "running" => status[r] = "running" /\ Total(r)' = Total(r)
    <3> SUFFICES ASSUME NEW r \in batch, status'[r] = "running"
                 PROVE  status[r] = "running" /\ Total(r)' = Total(r)
      OBVIOUS
    <3>1. r \in Reqs
      BY <1>4 DEF Types, RunnerTypes
    <3> QED BY <1>1, <1>4, <1>17, <1>18, <3>1, ComingSame DEF Types
  <2> QED BY <1>1, <1>2, <1>3, <2>1, ResidentSame DEF IInv
<1>21. Frames'
  <2> SUFFICES ASSUME NEW r \in Reqs
               PROVE  frames'[r] = Carries(r, 1)' + Carries(r, 2)' + IF r \in rows THEN 1 ELSE 0
    BY <1>2 DEF Frames
  <2>1. frames'[r] = frames[r] + IF r \in rows THEN 1 ELSE 0
    BY <1>1 DEF FramesReserved
  <2>2. frames[r] = Carries(r, 1) + Carries(r, 2)
    BY <1>3 DEF IInv, Frames, Carries
  <2>3. Carries(r, 1)' = Carries(r, 1) /\ Carries(r, 2)' = Carries(r, 2)
    BY <1>1 DEF Carries
  <2> QED BY <2>1, <2>2, <2>3
<1> QED BY <1>7, <1>8, <1>9, <1>10, <1>12, <1>15, <1>16, <1>19, <1>20, <1>21 DEF IInv

(* A prefill pass takes waiting, chunked and preempted requests. *)
LEMMA SchedulePrefillStep ==
  ASSUME IInv, SchedulePrefill
  PROVE  IInv'
<1>1. PICK sched \in (SUBSET Prefillable) \ {{}} :
        \E chunk \in SUBSET {r \in sched \cap Chunked : status[r] # "partial"} :
          /\ Publish("prefill", sched, sched \ chunk, {})
          /\ status' = [r \in Reqs |-> IF r \in chunk THEN "partial"
                                       ELSE IF r \in sched THEN "running" ELSE status[r]]
  BY DEF SchedulePrefill
<1>2. PICK chunk \in SUBSET {r \in sched \cap Chunked : status[r] # "partial"} :
        /\ Publish("prefill", sched, sched \ chunk, {})
        /\ status' = [r \in Reqs |-> IF r \in chunk THEN "partial"
                                     ELSE IF r \in sched THEN "running" ELSE status[r]]
  BY <1>1
<1>3. pc = "idle" /\ Len(queue) <= 1 /\ UNCHANGED <<stale, drop>> /\ SchedTypes
  BY DEF SchedulePrefill, IInv, Types, Current
<1>4. sched \subseteq Reqs /\ sched # {} /\ chunk \subseteq sched
  BY DEF Prefillable
<1>5. status' \in [Reqs -> Statuses] /\ stale' \in [Reqs -> Nat] /\ drop' \in [Reqs -> BOOLEAN]
  BY <1>2, <1>3 DEF SchedTypes, Statuses
<1>6. \A r \in sched : status[r] \in {"waiting", "partial", "preempted"}
  BY DEF Prefillable
<1>7. Passes("prefill", sched, sched \ chunk, {})
  <2>1. \A r \in sched : status'[r] = IF r \in sched \ chunk THEN "running" ELSE "partial"
    BY <1>2, <1>4
  <2>2. \A r \in Reqs \ sched : status'[r] = status[r]
    BY <1>2, <1>4
  <2>3. sched \ chunk \subseteq sched /\ {} \subseteq Reqs
    OBVIOUS
  <2>4. \A r \in Reqs : stale'[r] = stale[r] /\ drop'[r] = drop[r]
    BY <1>3
  <2>5. Publish("prefill", sched, sched \ chunk, {})
    BY <1>2
  <2> QED BY <1>3, <1>4, <1>5, <1>6, <2>1, <2>2, <2>3, <2>4, <2>5 DEF Passes
<1> QED BY <1>7, PassStep

(* A decode pass takes what runs, except what it preempts. *)
LEMMA ScheduleDecodeStep ==
  ASSUME IInv, ScheduleDecode
  PROVE  IInv'
<1>1. PICK pre \in SUBSET {r \in Reqs : status[r] = "running"} :
        LET sched == Decodable \ pre
        IN  /\ Publish(IF sched = {} THEN "none" ELSE "decode", sched, sched, pre)
            /\ status' = [r \in Reqs |-> IF r \in pre THEN "preempted" ELSE status[r]]
            /\ stale' = [r \in Reqs |-> IF r \in pre THEN InFlight(r) ELSE stale[r]]
            /\ drop' = [r \in Reqs |-> drop[r] /\ r \notin pre]
  BY DEF ScheduleDecode
<1> DEFINE sched == Decodable \ pre
           kind == IF sched = {} THEN "none" ELSE "decode"
<1>2. pc = "idle" /\ Len(queue) <= 1 /\ SchedTypes /\ QueueTypes
  BY DEF ScheduleDecode, IInv, Types, Current
<1>3. sched \subseteq Reqs /\ pre \subseteq Reqs /\ \A r \in sched : status[r] = "running" /\ r \notin pre
  BY DEF Decodable
<1>4. \A r \in Reqs : InFlight(r) \in Nat
  <2> TAKE r \in Reqs
  <2>1. Flies(r, 1) \in Nat /\ Flies(r, 2) \in Nat
    BY DEF Flies
  <2> QED BY <1>2, <2>1, InFlightIs
<1>5. status' \in [Reqs -> Statuses]
  BY <1>1, <1>2 DEF SchedTypes, Statuses
<1>6. stale' \in [Reqs -> Nat]
  BY <1>1, <1>2, <1>4 DEF SchedTypes
<1>7. drop' \in [Reqs -> BOOLEAN] /\ \A r \in Reqs \ pre : drop'[r] = drop[r]
  BY <1>1, <1>2 DEF SchedTypes
<1>8. \A r \in pre : /\ status[r] = "running" /\ status'[r] = "preempted"
                     /\ stale'[r] = InFlight(r) /\ drop'[r] = FALSE
  BY <1>1, <1>3
<1>9. \A r \in Reqs \ pre : status'[r] = status[r] /\ stale'[r] = stale[r]
  BY <1>1
<1>10. Publish(kind, sched, sched, pre)
  BY <1>1
<1>11. kind \in {"none", "decode"} /\ (kind = "none" <=> sched = {})
  OBVIOUS
<1> HIDE DEF sched, kind
<1>12. \A r \in sched : status'[r] = "running"
  BY <1>3, <1>9
<1>13. \A r \in Reqs : \/ stale'[r] = stale[r] /\ drop'[r] = drop[r]
                       \/ /\ status[r] = "running" /\ status'[r] = "preempted"
                          /\ stale'[r] = InFlight(r) /\ drop'[r] = FALSE
  BY <1>7, <1>8, <1>9
<1>14. \A r \in Reqs \ sched : status'[r] = status[r]
                               \/ (status[r] = "running" /\ status'[r] = "preempted")
  BY <1>8, <1>9
<1>15. Passes(kind, sched, sched, pre)
  <2>1. \A r \in sched : status'[r] = IF r \in sched THEN "running" ELSE "partial"
    BY <1>12
  <2>2. kind # "prefill" /\ kind \in {"none", "prefill", "decode"} /\ (kind = "none" <=> sched = {})
    BY <1>11
  <2>3. sched \subseteq sched
    OBVIOUS
  <2>4. \A r \in sched : status[r] \in IF kind = "prefill" THEN {"waiting", "partial", "preempted"}
                                       ELSE {"running"}
    BY <1>3, <2>2
  <2> QED BY <1>2, <1>3, <1>5, <1>6, <1>7, <1>10, <1>13, <1>14, <2>1, <2>2, <2>3, <2>4, Zenon DEF Passes
<1> QED BY <1>15, PassStep

-----------------------------------------------------------------------------
(* Applying what is completed. *)

(* A stream goes on with what continues it. *)
LEMMA ContinuesJoin ==
  ASSUME NEW s \in Seq(Nat), NEW t \in Seq(Nat), NEW a \in Nat,
         Continues(s, a), Continues(t, a + Len(s))
  PROVE  s \o t \in Seq(Nat) /\ Len(s \o t) = Len(s) + Len(t) /\ Continues(s \o t, a)
<1>1. Len(s) \in Nat /\ Len(t) \in Nat /\ DOMAIN s = 1 .. Len(s) /\ DOMAIN t = 1 .. Len(t)
  OBVIOUS
<1>2. s \o t \in Seq(Nat) /\ Len(s \o t) = Len(s) + Len(t) /\ DOMAIN (s \o t) = 1 .. Len(s) + Len(t)
  OBVIOUS
<1>3. ASSUME NEW k \in 1 .. Len(s) + Len(t) PROVE (s \o t)[k] = a + k
  <2>1. CASE k <= Len(s)
    <3>1. (s \o t)[k] = s[k] /\ k \in DOMAIN s
      BY <1>1, <2>1
    <3> QED BY <3>1 DEF Continues
  <2>2. CASE k > Len(s)
    <3>1. (s \o t)[k] = t[k - Len(s)] /\ k - Len(s) \in DOMAIN t
      BY <1>1, <2>2
    <3>2. t[k - Len(s)] = a + Len(s) + (k - Len(s))
      BY <3>1 DEF Continues
    <3>3. a + Len(s) + (k - Len(s)) = a + k
      BY <1>1
    <3> QED BY <3>1, <3>2, <3>3
  <2> QED BY <1>1, <2>1, <2>2
<1> QED BY <1>2, <1>3 DEF Continues

(* What the runner stands on when it applies. *)
LEMMA ApplyFacts ==
  ASSUME IInv, pc \in {"apply", "applyAgain"}
  PROVE  /\ Len(queue) <= 1 /\ completed \in Seq(Ids) /\ Len(completed) <= 2
         /\ Unread(1) => /\ SomeOpen /\ 1 \in DOMAIN queue /\ queue[1] \in Ids
                         /\ Line = Append(completed, queue[1]) /\ Len(completed) <= 1
         /\ ~Unread(1) => Line = completed
         /\ ~Unread(2) /\ batch = cur.sched
         /\ \A i : Open(i) => i = 1 /\ 1 \in DOMAIN queue /\ step[queue[1]].sched = cur.sched
         /\ SomeOpen => pending # <<>> /\ SteadyFacts
         /\ \A r \in cur.fin : status[r] = "done" /\ r \notin cur.sched
         /\ \A r \in Reqs : Discarding[r] = Discarded(r) /\ Discarded(r) \in {0, 1}
         /\ \A r \in Reqs : Discarded(r) = 1 => pc = "apply" /\ ~SomeOpen /\ Line = completed
<1>1. Types /\ QueueTypes /\ Len(queue) <= 1 /\ completed \in Seq(Ids) /\ cur \in Curs
  BY DEF IInv, Types, QueueTypes, Current
<1>2. 2 \notin DOMAIN queue /\ \A i \in DOMAIN queue : i = 1 /\ queue[1] \in Ids
  BY <1>1, QueueFacts
<1>3. ~Unread(2) /\ \A i : Open(i) => i = 1 /\ 1 \in DOMAIN queue
  BY <1>2 DEF Unread, Open
<1>4. Len(Line) <= 2 /\ Len(completed) <= Len(Line) /\ Len(completed) \in Nat /\ Line \in Seq(Ids)
  BY <1>1, LineIs DEF IInv, Lines
<1>5. Len(Line) \in Nat /\ Len(completed) <= 2
  <2> DEFINE n == Len(Line)
  <2>1. n \in Nat
    BY <1>4
  <2> HIDE DEF n
  <2>2. n <= 2 /\ Len(completed) <= n
    BY <1>4 DEF n
  <2> QED BY <1>4, <2>1, <2>2 DEF n
<1>6. batch = cur.sched /\ Building
  BY DEF IInv, Overlap, Building, Late, Early
<1>7. \A i : Open(i) => step[queue[1]].sched = cur.sched
  BY <1>3, <1>6 DEF IInv, Order
<1>8. SomeOpen => pending # <<>> /\ SteadyFacts
  BY OpenPending DEF IInv, Overlap, Late
<1>9. \A r \in cur.fin : status[r] = "done" /\ r \notin cur.sched
  BY <1>6 DEF IInv, Knowing, Current
<1>10. Unread(1) => /\ SomeOpen /\ 1 \in DOMAIN queue /\ queue[1] \in Ids
                    /\ Line = Append(completed, queue[1])
  BY <1>2, <1>3 DEF Unread, SomeOpen, Open, Line, Joined
<1>11. Unread(1) => Len(completed) <= 1
  <2> SUFFICES ASSUME Unread(1) PROVE Len(completed) <= 1
    OBVIOUS
  <2>1. queue[1] \in Ids
    BY <1>2 DEF Unread
  <2>2. Len(Append(completed, queue[1])) = Len(completed) + 1
    BY <1>1, <2>1, Appended
  <2>3. Len(completed) + 1 <= 2
    BY <1>4, <1>10, <2>2
  <2> QED BY <1>4, <2>3
<1>12. ~Unread(1) => Line = completed
  BY <1>3 DEF Line, Joined
<1>13. \A r \in Reqs : Discarding[r] = Discarded(r)
  BY <1>6 DEF Discarding, Discarded, Early, NoCounts, IInv, Current
<1>14. ASSUME NEW r \in Reqs
       PROVE  /\ Discarded(r) \in {0, 1}
              /\ Discarded(r) = 1 => pc = "apply" /\ ~SomeOpen /\ Line = completed
  <2>1. Discarded(r) <= 1 /\ Discarded(r) \in Nat
    BY <1>1 DEF IInv, Resets, Discarded, Types, SchedTypes, Curs
  <2>2. Discarded(r) = 1 => cur.disc # NoCounts /\ pc = "apply"
    BY <1>6, <1>13 DEF Discarding, NoCounts
  <2>3. Discarded(r) = 1 => ~SomeOpen
    BY <1>8, <2>2 DEF SteadyFacts
  <2> QED BY <1>10, <1>12, <2>1, <2>2, <2>3
<1> QED BY <1>1, <1>2, <1>3, <1>5, <1>6, <1>7, <1>8, <1>9, <1>10, <1>11, <1>12, <1>13, <1>14

(* Whether the j-th completed result has tokens of r. *)
Has(j, r) == IF j \in DOMAIN completed /\ Out(completed[j], r) # <<>> THEN 1 ELSE 0

(* Results of a request are counted one by one. *)
LEMMA ResultsAre ==
  ASSUME completed \in Seq(Ids), Len(completed) <= 2, NEW r \in Reqs
  PROVE  /\ ResultsFrom(1, r) = Has(1, r) + Has(2, r)
         /\ ResultsFrom(2, r) = Has(2, r)
<1>1. DOMAIN completed = 1 .. Len(completed) /\ Len(completed) \in {0, 1, 2}
  BY ShortSeq
<1> DEFINE S(i) == {j \in i .. Len(completed) : step[completed[j]].out[r] # <<>>}
<1>2. /\ 1 \in S(1) <=> Has(1, r) = 1
      /\ 2 \in S(1) <=> Has(2, r) = 1
      /\ 1 \notin S(2)
      /\ 2 \in S(2) <=> Has(2, r) = 1
  BY <1>1 DEF Has, Out
<1>3. S(1) \subseteq {1, 2} /\ S(2) \subseteq {1, 2}
  BY <1>1
<1>4. ResultsFrom(1, r) = Cardinality(S(1)) /\ ResultsFrom(2, r) = Cardinality(S(2))
  BY DEF ResultsFrom
<1>5. Has(1, r) \in {0, 1} /\ Has(2, r) \in {0, 1}
  BY DEF Has
<1> HIDE DEF S
<1>6. /\ Cardinality(S(1)) = (IF 1 \in S(1) THEN 1 ELSE 0) + (IF 2 \in S(1) THEN 1 ELSE 0)
      /\ Cardinality(S(2)) = (IF 1 \in S(2) THEN 1 ELSE 0) + (IF 2 \in S(2) THEN 1 ELSE 0)
  BY <1>3, CountTwo
<1> QED BY <1>2, <1>4, <1>5, <1>6

(* The apply path leaves out what the invariant calls lost, and nothing else
   of a request that has not finished. *)
LEMMA SkippedIs ==
  ASSUME IInv, pc \in {"apply", "applyAgain"}, NEW r \in Reqs \ cur.fin, NEW i \in DOMAIN completed
  PROVE  r \in Skipped(i) <=> Lost(r, i)
<1>1. /\ completed \in Seq(Ids) /\ Len(completed) <= 2
      /\ Discarding[r] = Discarded(r) /\ Discarded(r) \in {0, 1}
      /\ Discarded(r) = 1 => Line = completed
  BY ApplyFacts
<1>2. DOMAIN completed = 1 .. Len(completed) /\ Len(completed) \in {0, 1, 2} /\ i \in {1, 2}
  BY <1>1, ShortSeq
<1>3. r \in Skipped(i) <=> Out(completed[i], r) # <<>> /\ ResultsFrom(i, r) <= Discarded(r)
  BY <1>1 DEF Skipped, Out
<1>4. /\ ResultsFrom(1, r) = Has(1, r) + Has(2, r) /\ ResultsFrom(2, r) = Has(2, r)
      /\ Has(1, r) \in {0, 1} /\ Has(2, r) \in {0, 1}
  BY <1>1, ResultsAre DEF Has
<1>5. Out(completed[i], r) # <<>> => Has(i, r) = 1
  BY DEF Has
<1>6. CASE Discarded(r) = 0
  <2>1. ~Lost(r, i)
    BY <1>6 DEF Lost
  <2> QED BY <1>2, <1>3, <1>4, <1>5, <1>6, <2>1
<1>7. CASE Discarded(r) = 1
  <2>1. Lost(r, i) <=> Out(completed[i], r) # <<>>
                       /\ \A m \in DOMAIN completed : m > i => Out(completed[m], r) = <<>>
    BY <1>1, <1>7 DEF Lost
  <2>2. CASE i = 1
    <3>1. (\A m \in DOMAIN completed : m > 1 => Out(completed[m], r) = <<>>) <=> Has(2, r) = 0
      BY <1>2 DEF Has
    <3> QED BY <1>3, <1>4, <1>5, <1>7, <2>1, <2>2, <3>1
  <2>3. CASE i = 2
    <3>1. \A m \in DOMAIN completed : ~(m > 2)
      BY <1>2
    <3> QED BY <1>3, <1>4, <1>5, <1>7, <2>1, <2>3, <3>1
  <2> QED BY <1>2, <2>2, <2>3
<1> QED BY <1>1, <1>6, <1>7

(* The raises of the apply path are out of reach. *)
LEMMA NothingRaised ==
  ASSUME IInv, pc \in {"apply", "applyAgain"}
  PROVE  ~MissingResults /\ ~UnknownRequest
<1>1. completed \in Seq(Ids) /\ Len(completed) <= 2 /\ QueueTypes
  BY ApplyFacts DEF IInv, Types
<1>2. \A n \in DOMAIN completed : n \in {1, 2} /\ completed[n] \in ToSet(completed)
  BY <1>1, ShortSeq
<1>3. ASSUME NEW r \in Reqs PROVE ~(ResultsFrom(1, r) < Discarding[r])
  <2>1. Discarding[r] = Discarded(r) /\ Discarded(r) \in {0, 1}
    BY ApplyFacts
  <2>2. /\ ResultsFrom(1, r) = Has(1, r) + Has(2, r)
        /\ Has(1, r) \in {0, 1} /\ Has(2, r) \in {0, 1}
    BY <1>1, ResultsAre DEF Has
  <2>3. CASE Discarded(r) = 0
    BY <2>1, <2>2, <2>3
  <2>4. CASE Discarded(r) = 1
    <3>1. Line = completed
      BY <2>4, ApplyFacts
    <3>2. PICK n \in DOMAIN completed : r \in step[completed[n]].rows
      BY <2>4, <3>1 DEF IInv, Resets
    <3>3. Out(completed[n], r) # <<>>
      BY <1>2, <3>1, <3>2 DEF IInv, Lines
    <3>4. Has(n, r) = 1 /\ n \in {1, 2}
      BY <1>2, <3>3 DEF Has
    <3> QED BY <2>1, <2>2, <2>4, <3>4
  <2> QED BY <2>1, <2>3, <2>4
<1>4. ASSUME NEW i \in DOMAIN completed PROVE step[completed[i]].rows \ Skipped(i) \subseteq known
  <2>1. completed[i] \in ToSet(Line)
    BY <1>1, <1>2, LineIs
  <2>2. step[completed[i]].rows \subseteq known \cup cur.fin
    BY <2>1 DEF IInv, Knowing
  <2> QED BY <2>2 DEF Skipped
<1> QED BY <1>3, <1>4 DEF MissingResults, UnknownRequest

(* What of the i-th completed result the runner appends to r's tokens. *)
Part(i, r) == IF r \in Skipped(i) THEN <<>> ELSE step[completed[i]].out[r]

(* What is applied is the parts of the completed results, oldest first. *)
LEMMA AppliedIs ==
  ASSUME IInv, pc \in {"apply", "applyAgain"}, NEW r \in Reqs
  PROVE  /\ \A i \in DOMAIN completed : Part(i, r) \in Seq(Nat)
         /\ Len(completed) = 0 => Applied(r) = app[r]
         /\ Len(completed) = 1 => Applied(r) = app[r] \o Part(1, r)
         /\ Len(completed) = 2 => Applied(r) = app[r] \o (Part(1, r) \o Part(2, r))
         /\ Applied(r) \in Seq(Nat) /\ app[r] \in Seq(Nat)
<1> DEFINE parts == [i \in DOMAIN completed |-> Part(i, r)]
<1>1. completed \in Seq(Ids) /\ Len(completed) <= 2 /\ Types
  BY ApplyFacts DEF IInv
<1>2. /\ Len(completed) \in {0, 1, 2} /\ DOMAIN completed = 1 .. Len(completed)
      /\ \A i \in DOMAIN completed : completed[i] \in Ids
      /\ Len(completed) = 0 => DOMAIN completed = {}
      /\ Len(completed) = 1 => DOMAIN completed = {1}
      /\ Len(completed) = 2 => DOMAIN completed = {1, 2}
  BY <1>1, ShortSeq
<1>3. \A i \in DOMAIN completed : Part(i, r) \in Seq(Nat)
  <2>1. \A i \in Ids : step[i].out[r] \in Seq(Nat)
    BY <1>1, Amounts DEF Out
  <2>2. <<>> \in Seq(Nat)
    OBVIOUS
  <2> QED BY <1>2, <2>1, <2>2 DEF Part
<1>4. app[r] \in Seq(Nat)
  BY <1>1, Amounts
<1>5. Applied(r) = app[r] \o FlattenSeq(parts)
  BY DEF Applied, Part
<1>6. parts \in Seq(Seq(Nat)) /\ Len(parts) = Len(completed)
  <2>1. parts \in [1 .. Len(completed) -> Seq(Nat)] /\ Len(completed) \in Nat
    BY <1>2, <1>3
  <2> HIDE DEF parts
  <2> QED BY <2>1
<1>7. \A i \in DOMAIN completed : parts[i] = Part(i, r)
  OBVIOUS
<1> HIDE DEF parts
<1>8. CASE Len(completed) = 0
  <2>1. parts = <<>>
    BY <1>6, <1>8
  <2>2. FlattenSeq(parts) = <<>>
    BY <2>1, FlattenNone
  <2>3. Applied(r) = app[r]
    BY <1>4, <1>5, <2>2
  <2> QED BY <1>3, <1>4, <1>8, <2>3
<1>9. CASE Len(completed) = 1
  <2>1. FlattenSeq(parts) = Part(1, r)
    BY <1>2, <1>6, <1>7, <1>9, FlattenOne
  <2>2. Part(1, r) \in Seq(Nat)
    BY <1>2, <1>3, <1>9
  <2>3. Applied(r) = app[r] \o Part(1, r)
    BY <1>5, <2>1
  <2>4. app[r] \o Part(1, r) \in Seq(Nat)
    BY <1>4, <2>2
  <2> QED BY <1>3, <1>4, <1>9, <2>3, <2>4
<1>10. CASE Len(completed) = 2
  <2>1. FlattenSeq(parts) = Part(1, r) \o Part(2, r)
    BY <1>2, <1>6, <1>7, <1>10, FlattenTwo
  <2>2. Part(1, r) \in Seq(Nat) /\ Part(2, r) \in Seq(Nat)
    BY <1>2, <1>3, <1>10
  <2>3. Part(1, r) \o Part(2, r) \in Seq(Nat)
    BY <2>2
  <2>4. Applied(r) = app[r] \o (Part(1, r) \o Part(2, r))
    BY <1>5, <2>1
  <2>5. app[r] \o (Part(1, r) \o Part(2, r)) \in Seq(Nat)
    BY <1>4, <2>3
  <2> QED BY <1>3, <1>4, <1>10, <2>4, <2>5
<1> QED BY <1>2, <1>8, <1>9, <1>10

(* A request without results keeps its tokens. *)
LEMMA AppliedNothing ==
  ASSUME IInv, pc \in {"apply", "applyAgain"}, NEW r \in Reqs, \A i \in Ids : Out(i, r) = <<>>
  PROVE  Applied(r) = app[r]
<1>1. completed \in Seq(Ids) /\ Len(completed) <= 2
  BY ApplyFacts
<1>2. Len(completed) \in {0, 1, 2} /\ \A i \in DOMAIN completed : completed[i] \in Ids
  BY <1>1, ShortSeq
<1>3. \A i \in DOMAIN completed : Part(i, r) = <<>>
  BY <1>2 DEF Part, Out
<1>4. Len(completed) > 0 => 1 \in DOMAIN completed
  BY <1>1, ShortSeq
<1>5. Len(completed) = 2 => 2 \in DOMAIN completed
  BY <1>1, ShortSeq
<1>6. app[r] \o <<>> = app[r] /\ app[r] \o (<<>> \o <<>>) = app[r]
  BY AppliedIs
<1>7. CASE Len(completed) = 0
  BY <1>7, AppliedIs
<1>8. CASE Len(completed) = 1
  <2>1. Part(1, r) = <<>>
    BY <1>3, <1>4, <1>8
  <2>2. Applied(r) = app[r] \o Part(1, r)
    BY <1>8, AppliedIs
  <2> QED BY <1>6, <2>1, <2>2, Zenon
<1>9. CASE Len(completed) = 2
  <2>1. Part(1, r) = <<>> /\ Part(2, r) = <<>>
    BY <1>3, <1>4, <1>5, <1>9
  <2>2. Applied(r) = app[r] \o (Part(1, r) \o Part(2, r))
    BY <1>9, AppliedIs
  <2> QED BY <1>6, <2>1, <2>2, Zenon
<1> QED BY <1>2, <1>7, <1>8, <1>9

(* The tokens of a live request go on with the results that are not lost. *)
LEMMA AppliedStream ==
  ASSUME IInv, pc \in {"apply", "applyAgain"}, NEW r \in Reqs, Live(r)
  PROVE  /\ Applied(r) \in Seq(Nat) /\ Continues(Applied(r), 0)
         /\ Len(completed) = 0 => Len(Applied(r)) = Len(app[r])
         /\ Len(completed) = 1 => Len(Applied(r)) = Len(app[r]) + Gain(r, 1)
         /\ Len(completed) = 2 => Len(Applied(r)) = Len(app[r]) + Gain(r, 1) + Gain(r, 2)
<1>1. /\ completed \in Seq(Ids) /\ Len(completed) <= 2 /\ Types /\ QueueTypes
      /\ FlowOf(r) /\ r \notin cur.fin
  BY ApplyFacts DEF IInv, Types, Flow, Live
<1>2. /\ Len(completed) \in {0, 1, 2} /\ DOMAIN completed = 1 .. Len(completed)
      /\ Len(completed) = 1 => 1 \in DOMAIN completed
      /\ Len(completed) = 2 => 1 \in DOMAIN completed /\ 2 \in DOMAIN completed
  BY <1>1, ShortSeq
<1>3. \A i \in DOMAIN completed : i \in DOMAIN Line /\ Line[i] = completed[i]
  <2>1. /\ Line \in Seq(Ids) /\ Len(completed) <= Len(Line)
        /\ \A i \in 1 .. Len(completed) : Line[i] = completed[i]
    BY <1>1, LineIs
  <2> DEFINE l == Line
  <2>2. l \in Seq(Ids) /\ Len(completed) <= Len(l)
    BY <2>1
  <2> HIDE DEF l
  <2>3. Len(l) \in Nat /\ DOMAIN l = 1 .. Len(l)
    BY <2>2
  <2>4. \A i \in 1 .. Len(completed) : i \in DOMAIN l
    BY <1>2, <2>2, <2>3
  <2> QED BY <1>2, <2>1, <2>4 DEF l
<1>4. \A i \in DOMAIN completed : Part(i, r) = IF Lost(r, i) THEN <<>> ELSE Out(Line[i], r)
  BY <1>1, <1>3, SkippedIs DEF Part, Out
<1>5. \A i \in DOMAIN completed : Len(Part(i, r)) = Gain(r, i)
  BY <1>3, <1>4 DEF Gain
<1>6. \A a : Continues(<<>>, a)
  BY DEF Continues
<1>7. 1 \in DOMAIN completed => Continues(Part(1, r), Len(app[r]))
  BY <1>1, <1>3, <1>4, <1>6 DEF FlowOf
<1>8. 2 \in DOMAIN completed => Continues(Part(2, r), Len(app[r]) + Gain(r, 1))
  BY <1>1, <1>3, <1>4, <1>6 DEF FlowOf
<1>9. Continues(app[r], 0) /\ app[r] \in Seq(Nat) /\ Len(app[r]) \in Nat /\ 0 + Len(app[r]) = Len(app[r])
  BY <1>1, Amounts DEF FlowOf
<1>10. CASE Len(completed) = 0
  <2>1. Applied(r) = app[r]
    BY <1>10, AppliedIs
  <2> QED BY <1>9, <1>10, <2>1
<1>11. CASE Len(completed) = 1
  <2>1. Part(1, r) \in Seq(Nat) /\ Applied(r) = app[r] \o Part(1, r)
    BY <1>2, <1>11, AppliedIs
  <2>2. Continues(Part(1, r), 0 + Len(app[r])) /\ Len(Part(1, r)) = Gain(r, 1)
    BY <1>2, <1>5, <1>7, <1>9, <1>11
  <2> QED BY <1>9, <1>11, <2>1, <2>2, ContinuesJoin
<1>12. CASE Len(completed) = 2
  <2>1. /\ Part(1, r) \in Seq(Nat) /\ Part(2, r) \in Seq(Nat)
        /\ Applied(r) = app[r] \o (Part(1, r) \o Part(2, r))
    BY <1>2, <1>12, AppliedIs
  <2>2. /\ Continues(Part(1, r), 0 + Len(app[r])) /\ Continues(Part(1, r), Len(app[r]))
        /\ Continues(Part(2, r), Len(app[r]) + Len(Part(1, r)))
        /\ Len(Part(1, r)) = Gain(r, 1) /\ Len(Part(2, r)) = Gain(r, 2)
    BY <1>2, <1>5, <1>7, <1>8, <1>9, <1>12
  <2> DEFINE both == Part(1, r) \o Part(2, r)
  <2>3. both \in Seq(Nat) /\ Len(both) = Gain(r, 1) + Gain(r, 2) /\ Continues(both, 0 + Len(app[r]))
    BY <1>9, <2>1, <2>2, ContinuesJoin
  <2> HIDE DEF both
  <2>4. app[r] \o both \in Seq(Nat) /\ Len(app[r] \o both) = Len(app[r]) + Len(both)
        /\ Continues(app[r] \o both, 0)
    BY <1>9, <2>3, ContinuesJoin
  <2>5. Applied(r) = app[r] \o both
    BY <2>1 DEF both
  <2>6. Gain(r, 1) \in Nat /\ Gain(r, 2) \in Nat
    BY <1>1, Amounts
  <2>7. Len(app[r]) + (Gain(r, 1) + Gain(r, 2)) = Len(app[r]) + Gain(r, 1) + Gain(r, 2)
    BY <1>9, <2>6
  <2> QED BY <1>12, <2>3, <2>4, <2>5, <2>7
<1> QED BY <1>2, <1>10, <1>11, <1>12

(* Steps that are still referred to keep what they are; the output is taken
   back where its request has finished and the result has just been applied. *)
LEMMA ApplyKeeps ==
  ASSUME IInv, pc \in {"apply", "applyAgain"},
         step' = Kept(Scrubbed(step), PendingIds \cup ToSet(queue))
  PROVE  /\ step' \in [Ids -> Steps]
         /\ \A i \in Ids : \/ step'[i] = FreeStep
                           \/ /\ step'[i].kind = step[i].kind /\ step'[i].sched = step[i].sched
                              /\ step'[i].rows = step[i].rows /\ step'[i].stage = step[i].stage
                              /\ \A r \in Reqs : \/ step'[i].out[r] = step[i].out[r]
                                                 \/ step'[i].out[r] = <<>> /\ r \in cur.fin
         /\ \A i \in PendingIds \cup ToSet(queue) :
              /\ step'[i].sched = step[i].sched /\ step'[i].rows = step[i].rows
              /\ step'[i].stage = step[i].stage
              /\ \A r \in Reqs : step'[i].out[r] = IF r \in cur.fin /\ i \in ToSet(completed)
                                                   THEN <<>> ELSE step[i].out[r]
<1>1. QueueTypes /\ PendingIds \cup ToSet(queue) \subseteq Ids
  BY UsedAreIds, QueueFacts DEF IInv, Types
<1>2. step \in [Ids -> Steps]
  BY <1>1 DEF QueueTypes
<1> DEFINE taken(i) == [step[i] EXCEPT !.out = [r \in Reqs |-> IF r \in cur.fin THEN <<>> ELSE @[r]]]
           after(i) == IF i \in ToSet(completed) THEN taken(i) ELSE step[i]
<1>3. \A i \in Ids : /\ taken(i) \in Steps
                     /\ taken(i).kind = step[i].kind /\ taken(i).sched = step[i].sched
                     /\ taken(i).rows = step[i].rows /\ taken(i).stage = step[i].stage
                     /\ \A r \in Reqs : taken(i).out[r] = IF r \in cur.fin THEN <<>> ELSE step[i].out[r]
  <2> TAKE i \in Ids
  <2> DEFINE o == [r \in Reqs |-> IF r \in cur.fin THEN <<>> ELSE step[i].out[r]]
  <2>1. step[i] \in Steps
    BY <1>2
  <2>2. o \in [Reqs -> Seq(Nat)] /\ \A r \in Reqs : o[r] = IF r \in cur.fin THEN <<>> ELSE step[i].out[r]
    <3>1. step[i].out \in [Reqs -> Seq(Nat)]
      BY <2>1 DEF Steps
    <3>2. <<>> \in Seq(Nat)
      OBVIOUS
    <3> QED BY <3>1, <3>2
  <2>3. taken(i) = [step[i] EXCEPT !.out = o]
    OBVIOUS
  <2> HIDE DEF o, taken
  <2>4. /\ taken(i) \in Steps /\ taken(i).out = o
        /\ taken(i).kind = step[i].kind /\ taken(i).sched = step[i].sched
        /\ taken(i).rows = step[i].rows /\ taken(i).stage = step[i].stage
    BY <2>1, <2>2, <2>3 DEF Steps
  <2> QED BY <2>2, <2>4
<1>4. \A i \in Ids : step'[i] = IF i \in PendingIds \cup ToSet(queue) THEN after(i) ELSE FreeStep
  BY <1>1 DEF Kept, Scrubbed
<1>5. FreeStep \in Steps
  BY DEF FreeStep, Steps, Kinds, Stages, NoOutput
<1>6. step' = [i \in Ids |-> step'[i]]
  BY DEF Kept
<1> HIDE DEF taken
<1>7. \A i \in Ids : /\ after(i) \in Steps
                     /\ after(i).kind = step[i].kind /\ after(i).sched = step[i].sched
                     /\ after(i).rows = step[i].rows /\ after(i).stage = step[i].stage
                     /\ \A r \in Reqs : after(i).out[r] = IF r \in cur.fin /\ i \in ToSet(completed)
                                                          THEN <<>> ELSE step[i].out[r]
  <2> TAKE i \in Ids
  <2>1. CASE i \in ToSet(completed)
    BY <1>3, <2>1
  <2>2. CASE i \notin ToSet(completed)
    BY <1>2, <2>2
  <2> QED BY <2>1, <2>2
<1> HIDE DEF after
<1>8. step' \in [Ids -> Steps]
  BY <1>4, <1>5, <1>6, <1>7
<1>9. ASSUME NEW i \in Ids, i \notin PendingIds \cup ToSet(queue) PROVE step'[i] = FreeStep
  BY <1>4, <1>9
<1>10. ASSUME NEW i \in PendingIds \cup ToSet(queue)
       PROVE  /\ step'[i].kind = step[i].kind
              /\ step'[i].sched = step[i].sched /\ step'[i].rows = step[i].rows
              /\ step'[i].stage = step[i].stage
              /\ \A r \in Reqs : step'[i].out[r] = IF r \in cur.fin /\ i \in ToSet(completed)
                                                   THEN <<>> ELSE step[i].out[r]
  <2>1. i \in Ids /\ step'[i] = after(i)
    BY <1>1, <1>4, <1>10
  <2> QED BY <1>7, <2>1
<1>11. \A i \in PendingIds \cup ToSet(queue), r \in Reqs :
         \/ step'[i].out[r] = step[i].out[r]
         \/ step'[i].out[r] = <<>> /\ r \in cur.fin
  BY <1>10
<1> QED BY <1>8, <1>9, <1>10, <1>11

(* What has been applied leaves the line, and nothing of it is owed any more. *)
LEMMA ApplyStep ==
  ASSUME IInv, ApplyCompleted
  PROVE  IInv'
<1>1. pc \in {"apply", "applyAgain"}
  BY DEF ApplyCompleted
<1>2. PICK drafted \in SUBSET (Speculable \cap AppliedFor({"decode", "verify"}) \cap batch) :
        /\ app' = [r \in Reqs |-> Applied(r)]
        /\ proposed' = ProposedAfter(drafted)
        /\ accepted' = AcceptedAfter
        /\ step' = Kept(Scrubbed(step), PendingIds \cup ToSet(queue))
        /\ completed' = <<>>
        /\ pc' = AfterApply(proposed', accepted')
        /\ UNCHANGED fault
  BY <1>1, NothingRaised DEF ApplyCompleted
<1>3. /\ UNCHANGED <<status, hist, stale, drop, frames, discards, finPend>>
      /\ UNCHANGED <<known, batch, slotted, layoutChanged, chain, pending, resident, queue, cur>>
  BY DEF ApplyCompleted, schedVars, streams, batchVars
<1>4. /\ Len(queue) <= 1 /\ completed \in Seq(Ids) /\ Len(completed) <= 2
      /\ Unread(1) => /\ SomeOpen /\ 1 \in DOMAIN queue /\ queue[1] \in Ids
                      /\ Line = Append(completed, queue[1]) /\ Len(completed) <= 1
      /\ ~Unread(1) => Line = completed
      /\ ~Unread(2) /\ batch = cur.sched
      /\ \A i : Open(i) => i = 1 /\ 1 \in DOMAIN queue /\ step[queue[1]].sched = cur.sched
      /\ SomeOpen => pending # <<>> /\ SteadyFacts
      /\ \A r \in cur.fin : status[r] = "done" /\ r \notin cur.sched
      /\ \A r \in Reqs : Discarding[r] = Discarded(r) /\ Discarded(r) \in {0, 1}
      /\ \A r \in Reqs : Discarded(r) = 1 => pc = "apply" /\ ~SomeOpen /\ Line = completed
  BY <1>1, ApplyFacts
<1>5. Types /\ QueueTypes /\ Building /\ finPend = {} /\ discards = NoCounts
  BY <1>1 DEF IInv, Types, Current, Building, Early, Late
<1>6. /\ step' \in [Ids -> Steps]
      /\ \A i \in Ids : \/ step'[i] = FreeStep
                        \/ /\ step'[i].kind = step[i].kind /\ step'[i].sched = step[i].sched
                           /\ step'[i].rows = step[i].rows /\ step'[i].stage = step[i].stage
                           /\ \A r \in Reqs : \/ step'[i].out[r] = step[i].out[r]
                                              \/ step'[i].out[r] = <<>> /\ r \in cur.fin
      /\ \A i \in PendingIds \cup ToSet(queue) :
           /\ step'[i].sched = step[i].sched /\ step'[i].rows = step[i].rows
           /\ step'[i].stage = step[i].stage
           /\ \A r \in Reqs : step'[i].out[r] = IF r \in cur.fin /\ i \in ToSet(completed)
                                                THEN <<>> ELSE step[i].out[r]
  BY <1>1, <1>2, ApplyKeeps
<1>7. /\ FreeStep.sched = {} /\ FreeStep.rows = {} /\ FreeStep.stage = "resolved"
      /\ \A r \in Reqs : FreeStep.out[r] = <<>>
  BY DEF FreeStep, NoOutput
<1>8. /\ \A i \in DOMAIN queue : i = 1 /\ queue[i] \in Ids /\ queue[i] \in ToSet(queue)
      /\ queue # <<>> => 1 \in DOMAIN queue /\ Len(queue) = 1
      /\ \A i \in DOMAIN pending : pending[i].id \in PendingIds
  BY <1>4, <1>5, QueueFacts, UsedAreIds
<1>9. pc' \in {"waitAgain", "submit"}
  BY <1>2 DEF AfterApply
<1>10. (\A i : Open(i)' = Open(i) /\ Unread(i)' = Unread(i)) /\ SomeOpen' = SomeOpen
  <2>1. \A i : Open(i)' = Open(i) /\ Unread(i)' = Unread(i)
    BY <1>3, <1>6, <1>8 DEF Open, Unread
  <2> QED BY <1>3, <2>1 DEF SomeOpen
<1>11. /\ ToSet(<<>>) = {} /\ <<>> \in Seq(Ids) /\ Len(<<>>) = 0 /\ DOMAIN <<>> = {}
  BY DEF ToSet
<1>12. PendingIds' = PendingIds /\ UsedIds' \subseteq UsedIds
  BY <1>2, <1>3, <1>11 DEF PendingIds, UsedIds
(* What is left of the line. *)
<1>13. /\ ~Unread(1) => Line' = <<>> /\ ToSet(Line') = {} /\ DOMAIN Line' = {} /\ Len(Line') = 0
       /\ Unread(1) => /\ Line' = <<queue[1]>> /\ ToSet(Line') = {queue[1]}
                       /\ DOMAIN Line' = {1} /\ Len(Line') = 1
  <2>1. CASE ~Unread(1)
    <3>1. Line' = <<>>
      BY <1>2, <1>3, <1>4, <1>10, <2>1 DEF Line, Joined
    <3> QED BY <1>11, <2>1, <3>1
  <2>2. CASE Unread(1)
    <3>1. Line' = Append(<<>>, queue[1])
      BY <1>2, <1>3, <1>4, <1>10, <2>2 DEF Line, Joined
    <3>2. Append(<<>>, queue[1]) = <<queue[1]>> /\ DOMAIN <<queue[1]>> = {1} /\ Len(<<queue[1]>>) = 1
      OBVIOUS
    <3>3. ToSet(<<queue[1]>>) = {queue[1]}
      BY DEF ToSet
    <3> QED BY <2>2, <3>1, <3>2, <3>3
  <2> QED BY <2>1, <2>2
<1>14. Unread(1) => queue[1] \in ToSet(Line) /\ queue[1] \notin ToSet(completed)
                    /\ queue[1] \in Ids /\ queue[1] \in ToSet(queue)
                    /\ step[queue[1]].sched = cur.sched
  <2> SUFFICES ASSUME Unread(1)
               PROVE  queue[1] \in ToSet(Line) /\ queue[1] \notin ToSet(completed)
                      /\ queue[1] \in Ids /\ queue[1] \in ToSet(queue)
                      /\ step[queue[1]].sched = cur.sched
    OBVIOUS
  <2>1. 1 \in DOMAIN queue /\ step[queue[1]].stage = "submitted" /\ Open(1)
    BY DEF Unread, Open
  <2>2. queue[1] \in ToSet(Line)
    BY <1>5, <2>1, LineIs
  <2>3. queue[1] \notin ToSet(completed)
    BY <2>1 DEF IInv, Lines
  <2> QED BY <1>4, <1>8, <2>1, <2>2, <2>3
<1>15. Types'
  <2>1. SchedTypes'
    BY <1>3, <1>5 DEF Types, SchedTypes
  <2>2. app' \in [Reqs -> Seq(Nat)]
    BY <1>1, <1>2, AppliedIs
  <2>3. proposed' \in [Reqs -> Nat]
    <3>1. \A r \in Reqs : Len(Applied(r)) \in Nat
      BY <1>1, AppliedIs
    <3> QED BY <1>2, <1>5, <3>1 DEF ProposedAfter, Types, RunnerTypes
  <2>4. accepted' \subseteq Reqs
    BY <1>2, <1>5 DEF AcceptedAfter, Types, RunnerTypes
  <2>5. RunnerTypes'
    BY <1>3, <1>5, <2>2, <2>3, <2>4 DEF Types, RunnerTypes
  <2>6. QueueTypes'
    BY <1>2, <1>3, <1>5, <1>6, <1>9, <1>11 DEF QueueTypes, Late
  <2> QED BY <2>1, <2>5, <2>6 DEF Types
<1>16. StepData'
  BY <1>6, <1>7 DEF IInv, StepData, Out
<1>17. Current'
  BY <1>1, <1>3, <1>9, <1>12 DEF IInv, Current, Building, Early, Late
<1>18. Order'
  <2>1. Len(pending) <= 1 /\ PendingIds \subseteq ToSet(queue)
    BY <1>1 DEF IInv, Order, Late
  <2>2. \A i \in DOMAIN queue : Open(i) => step'[queue[i]].sched = batch /\ queue[i] \in PendingIds
    BY <1>6, <1>8 DEF IInv, Order
  <2>3. \A i \in DOMAIN pending : pending[i].id \in ToSet(queue)
    BY <1>8, <2>1
  <2> QED BY <1>3, <1>9, <1>10, <1>12, <2>1, <2>2, <2>3 DEF IInv, Order
<1>19. ASSUME Unread(1)
       PROVE  /\ step[queue[1]].rows # {} /\ pending # <<>>
              /\ \A r \in step[queue[1]].rows : Out(queue[1], r) # <<>>
              /\ step'[queue[1]].rows = step[queue[1]].rows
              /\ \A r \in Reqs : Out(queue[1], r)' = Out(queue[1], r)
  BY <1>3, <1>4, <1>6, <1>14, <1>19 DEF IInv, Lines, Out
<1>20. Lines'
  <2>1. Len(Line') <= 2 /\ Len(Line') # 2
    <3>1. Len(Line') \in {0, 1}
      BY <1>13
    <3>2. \A n \in {0, 1} : n <= 2 /\ n # 2
      OBVIOUS
    <3> QED BY <3>1, <3>2, Zenon
  <2>2. \A i \in ToSet(Line') : step'[i].rows # {} /\ \A r \in step'[i].rows : Out(i, r)' # <<>>
    <3> SUFFICES ASSUME Unread(1)
                 PROVE  step'[queue[1]].rows # {} /\ \A r \in step'[queue[1]].rows : Out(queue[1], r)' # <<>>
      BY <1>3, <1>13 DEF Out
    <3>1. step[queue[1]].rows \subseteq Reqs
      BY <1>5, <1>14 DEF QueueTypes, Steps
    <3> QED BY <1>19, <3>1
  <2>3. ToSet(Line') \subseteq ToSet(queue)
    BY <1>13, <1>14
  <2>4. Line' # <<>> => pending # <<>>
    BY <1>13, <1>19
  <2> QED BY <1>2, <1>3, <1>9, <1>11, <2>1, <2>2, <2>3, <2>4 DEF Lines, Late
<1>21. Overlap'
  <2>1. SteadyFacts' = SteadyFacts
    BY <1>3 DEF SteadyFacts
  <2>2. pending # <<>> => SteadyFacts
    BY <1>1 DEF IInv, Overlap, Late
  <2>3. pc' = "submit" /\ pending # <<>> => ~Verifies'
    <3> SUFFICES ASSUME pc' = "submit", pending # <<>>, Verifies' PROVE FALSE
      OBVIOUS
    <3>1. pc = "apply"
      BY <1>1 DEF IInv, Order
    <3>2. ~NextVerifies(proposed', accepted')
      BY <1>2, <3>1 DEF AfterApply
    <3>3. \A r \in cur.sched : proposed'[r] = 0 /\ r \notin accepted'
      BY <1>3, <3>2 DEF NextVerifies, Verifies
    <3> QED BY <1>3, <3>3 DEF Verifies, Drafted
  <2> QED BY <1>3, <1>4, <1>9, <2>1, <2>2, <2>3 DEF IInv, Overlap
<1>22. Knowing'
  <2>1. \A r \in Reqs : status[r] \in {"partial", "running", "preempted"} => r \in known
    BY <1>1 DEF IInv, Knowing
  <2>2. ASSUME NEW r \in Reqs, status[r] \in {"new", "waiting"}
        PROVE  hist[r] = <<>> /\ app'[r] = <<>> /\ \A i \in Ids : r \notin step'[i].sched
    <3>1. hist[r] = <<>> /\ app[r] = <<>> /\ \A i \in Ids : r \notin step[i].sched
      BY <2>2 DEF IInv, Knowing
    <3>2. \A i \in Ids : Out(i, r) = <<>>
      BY <3>1 DEF IInv, StepData
    <3>3. Applied(r) = app[r]
      BY <1>1, <3>2, AppliedNothing
    <3> QED BY <1>2, <1>6, <1>7, <3>1, <3>3
  <2>3. \A i \in ToSet(Line') : step'[i].rows \subseteq known
    <3> SUFFICES ASSUME Unread(1) PROVE step[queue[1]].rows \subseteq known
      BY <1>13, <1>19
    <3>1. step[queue[1]].rows \subseteq known \cup cur.fin
      BY <1>14 DEF IInv, Knowing
    <3>2. step[queue[1]].rows \subseteq cur.sched
      BY <1>14 DEF IInv, StepData
    <3> QED BY <1>4, <3>1, <3>2
  <2>4. pc' \notin {"preflight", "wait", "update", "apply"}
    BY <1>9
  <2>5. finPend' \cup cur'.fin \subseteq {r \in Reqs : status'[r] = "done"}
    BY <1>3 DEF IInv, Knowing
  <2> QED BY <1>3, <2>1, <2>2, <2>3, <2>4, <2>5 DEF Knowing
<1>23. \A r \in Reqs : Discarded(r)' = 0
  BY <1>3, <1>5, <1>9 DEF Discarded, Early, NoCounts
<1>24. Resets'
  <2>1. \A r \in Reqs : Parked(r)' = Parked(r)
    BY <1>3 DEF Parked
  <2>2. queue # <<>> => step'[queue[1]].sched = step[queue[1]].sched
    BY <1>6, <1>8
  <2> QED BY <1>3, <1>23, <2>1, <2>2 DEF IInv, Resets
<1>25. Withdrawn'
  <2> SUFFICES ASSUME NEW r \in Reqs, status[r] = "done", NEW i \in DOMAIN queue
               PROVE  step'[queue[i]].out[r] = <<>>
    BY <1>3, <1>9 DEF Withdrawn, Out
  <2>1. i = 1 /\ queue[1] \in ToSet(queue) /\ queue[1] \in Ids
    BY <1>8
  <2>2. Out(queue[1], r) = <<>> => step'[queue[i]].out[r] = <<>>
    BY <1>6, <2>1 DEF Out
  <2>3. CASE r \notin cur.fin \/ pc = "applyAgain"
    <3>1. Out(queue[i], r) = <<>>
      BY <1>5, <2>3 DEF IInv, Withdrawn, Late
    <3> QED BY <2>1, <2>2, <3>1
  <2>4. CASE r \in cur.fin /\ pc = "apply"
    <3> SUFFICES ASSUME Out(queue[1], r) # <<>>, queue[1] \notin ToSet(completed) PROVE FALSE
      BY <1>6, <2>1, <2>2, <2>4
    <3>1. r \in step[queue[1]].rows
      BY <2>1 DEF IInv, StepData
    <3>2. Line # <<>> /\ Line[Len(Line)] = queue[1]
      <4>1. Len(queue) = 1 /\ queue # <<>>
        BY <1>5, <1>8, <2>1, QueueFacts
      <4> QED BY <2>4, <3>1, <4>1 DEF IInv, Lines, Late
    <3>3. queue[1] \in ToSet(Line)
      <4> DEFINE l == Line
      <4>1. l \in Seq(Ids) /\ l # <<>>
        BY <1>5, <3>2, LineIs
      <4> HIDE DEF l
      <4>2. Len(l) \in DOMAIN l
        BY <4>1
      <4> QED BY <1>5, <3>2, <4>2, LineIs DEF l
    <3>4. Unread(1)
      BY <1>4, <3>3
    <3>5. r \in cur.sched
      BY <1>14, <2>1, <3>1, <3>4 DEF IInv, StepData
    <3> QED BY <1>4, <2>4, <3>5
  <2> QED BY <1>1, <2>3, <2>4
<1>26. ASSUME NEW r \in Reqs, Live(r)
       PROVE  /\ Total(r)' = Total(r) /\ Coming(r, 1)' = Coming(r, 1)
              /\ \A i \in DOMAIN queue : Out(queue[i], r)' = Out(queue[i], r)
  <2>1. r \notin cur.fin
    BY <1>4, <1>26 DEF Live
  <2>2. \A i \in ToSet(queue) : step'[i].out[r] = step[i].out[r]
    BY <1>6, <2>1
  <2>3. Dropped(r)' = Dropped(r)
    BY <1>3 DEF Dropped
  <2> QED BY <1>3, <1>5, <2>2, <2>3, ComingSame
<1>27. Flow'
  <2> SUFFICES ASSUME NEW r \in Reqs, Live(r)' PROVE FlowOf(r)'
    BY DEF Flow
  <2>1. Live(r) /\ FlowOf(r)
    BY <1>3 DEF IInv, Flow, Live
  <2>2. /\ Total(r)' = Total(r) /\ Coming(r, 1)' = Coming(r, 1)
        /\ \A i \in DOMAIN queue : Out(queue[i], r)' = Out(queue[i], r)
    BY <1>26, <2>1
  <2>3. Dropped(r)' = Dropped(r) /\ hist'[r] = hist[r] /\ status'[r] = status[r]
    BY <1>3 DEF Dropped
  <2>4. app'[r] = Applied(r) /\ Continues(Applied(r), 0)
    BY <1>1, <1>2, <2>1, AppliedStream
  <2>5. \A n : ~Lost(r, n)'
    BY <1>23 DEF Lost
  <2>6. /\ Len(app[r]) + Gain(r, 1) + Gain(r, 2) = Total(r)
        /\ Len(app[r]) \in Nat /\ Gain(r, 1) \in Nat /\ Gain(r, 2) \in Nat
    BY <1>5, <2>1, Amounts DEF FlowOf
  <2>7. /\ Len(completed) \in {0, 1, 2}
        /\ Len(completed) = 0 => Len(app'[r]) = Len(app[r])
        /\ Len(completed) = 1 => Len(app'[r]) = Len(app[r]) + Gain(r, 1)
        /\ Len(completed) = 2 => Len(app'[r]) = Len(app[r]) + Gain(r, 1) + Gain(r, 2)
    BY <1>1, <1>4, <2>1, <2>4, AppliedStream, ShortSeq
  <2>8. /\ 1 \in DOMAIN Line' => Continues(Out(Line[1], r), Len(app[r]))'
        /\ 2 \notin DOMAIN Line'
        /\ Len(app'[r]) + Gain(r, 1)' + Gain(r, 2)' = Total(r)
    <3>1. CASE ~Unread(1)
      <4>1. DOMAIN Line' = {} /\ Line = completed
        BY <1>4, <1>13, <3>1
      <4>2. Gain(r, 1)' = 0 /\ Gain(r, 2)' = 0
        BY <4>1 DEF Gain
      <4>3. /\ 1 \in DOMAIN completed <=> Len(completed) # 0
            /\ 2 \in DOMAIN completed <=> Len(completed) = 2
        BY <1>4, ShortSeq
      <4>4. (Len(completed) = 0 => Gain(r, 1) = 0) /\ (Len(completed) # 2 => Gain(r, 2) = 0)
        BY <4>1, <4>3 DEF Gain
      <4>5. Len(app'[r]) = Total(r)
        BY <2>6, <2>7, <4>4
      <4>6. Total(r) + 0 + 0 = Total(r)
        BY <2>6
      <4> QED BY <4>1, <4>2, <4>5, <4>6
    <3>2. CASE Unread(1)
      <4> DEFINE n == Len(completed) + 1
                 new == Out(queue[1], r)
      <4>1. /\ DOMAIN Line' = {1} /\ Line'[1] = queue[1] /\ Len(completed) \in {0, 1}
            /\ Line = Append(completed, queue[1]) /\ queue[1] \in Ids
        BY <1>4, <1>13, <2>7, <3>2
      <4>2. DOMAIN Line = 1 .. n /\ Line[n] = queue[1]
        BY <1>4, <4>1, Appended
      <4>3. Discarded(r) = 0
        BY <1>4, <3>2
      <4>4. \A m : ~Lost(r, m)
        BY <4>3 DEF Lost
      <4>5. Gain(r, 1)' = Len(new) /\ Gain(r, 2)' = 0
        BY <1>3, <1>19, <2>5, <3>2, <4>1 DEF Gain, Out
      <4>6. CASE Len(completed) = 0
        <5>1. n = 1 /\ 1 \in DOMAIN Line /\ 2 \notin DOMAIN Line /\ Line[1] = queue[1]
          BY <4>2, <4>6
        <5>2. Continues(new, Len(app[r])) /\ Gain(r, 1) = Len(new) /\ Gain(r, 2) = 0
          BY <2>1, <4>4, <5>1 DEF FlowOf, Gain
        <5>3. Continues(Out(Line[1], r), Len(app[r]))'
          <6>1. Out(Line[1], r)' = new
            BY <1>3, <1>19, <3>2, <4>1 DEF Out
          <6>2. Len(app'[r]) = Len(app[r])
            BY <2>7, <4>6
          <6> HIDE DEF new
          <6> QED BY <5>2, <6>1, <6>2 DEF Continues
        <5>4. Len(app'[r]) + Gain(r, 1)' + Gain(r, 2)' = Total(r)
          BY <2>6, <2>7, <4>5, <4>6, <5>2
        <5> QED BY <4>1, <5>3, <5>4
      <4>7. CASE Len(completed) = 1
        <5>1. n = 2 /\ 2 \in DOMAIN Line /\ Line[2] = queue[1]
          BY <4>2, <4>7
        <5>2. Continues(new, Len(app[r]) + Gain(r, 1)) /\ Gain(r, 2) = Len(new)
          BY <2>1, <4>4, <5>1 DEF FlowOf, Gain
        <5>3. Continues(Out(Line[1], r), Len(app[r]))'
          <6>1. Out(Line[1], r)' = new
            BY <1>3, <1>19, <3>2, <4>1 DEF Out
          <6>2. Len(app'[r]) = Len(app[r]) + Gain(r, 1)
            BY <2>7, <4>7
          <6> HIDE DEF new
          <6> QED BY <5>2, <6>1, <6>2 DEF Continues
        <5>4. Len(app'[r]) + Gain(r, 1)' + Gain(r, 2)' = Total(r)
          <6>1. Len(app'[r]) = Len(app[r]) + Gain(r, 1)
            BY <2>7, <4>7
          <6> QED BY <2>6, <4>5, <5>2, <6>1
        <5> QED BY <4>1, <5>3, <5>4
      <4> QED BY <4>1, <4>6, <4>7
    <3> QED BY <3>1, <3>2
  <2>9. /\ 1 \in DOMAIN queue => Continues(Out(queue[1], r), Len(hist[r]))' =
                                 Continues(Out(queue[1], r), Len(hist[r]))
        /\ 2 \notin DOMAIN queue
    BY <1>3, <1>8, <2>2 DEF Continues
  <2>10. Continues(app[r], 0)'
    BY <2>4 DEF Continues
  <2> QED BY <1>3, <2>1, <2>2, <2>3, <2>5, <2>8, <2>9, <2>10 DEF FlowOf
<1>28. Resident'
  <2>1. \A r \in batch : status'[r] = "running" => status[r] = "running" /\ Total(r)' = Total(r)
    BY <1>3, <1>5, <1>26 DEF Types, RunnerTypes, Live
  <2> QED BY <1>3, <2>1, ResidentSame DEF IInv
<1>29. Frames'
  <2>1. \A r \in Reqs, i \in {1, 2} : Carries(r, i)' = Carries(r, i)
    BY <1>3, <1>6, <1>8 DEF Carries
  <2> QED BY <1>3, <2>1 DEF IInv, Frames
<1>30. Delivery' /\ NoFault'
  BY <1>2, <1>3 DEF IInv, Delivery, Continues, NoFault
<1> QED BY <1>15, <1>16, <1>17, <1>18, <1>20, <1>21, <1>22, <1>24, <1>25, <1>27, <1>28, <1>29, <1>30
        DEF IInv

-----------------------------------------------------------------------------
(* Submitting. *)

(* When a step is submitted, only an overlapped one is before it in the line. *)
LEMMA SubmitFacts ==
  ASSUME IInv, pc = "submit"
  PROVE  /\ Types /\ cur \in Curs /\ Len(queue) \in {0, 1} /\ queue \in Seq(Ids)
         /\ DOMAIN queue = 1 .. Len(queue)
         /\ cur.id \in Ids /\ cur.id \notin UsedIds /\ UsedIds \subseteq ToSet(queue)
         /\ Line \in Seq(Ids) /\ Len(Line) \in {0, 1} /\ DOMAIN Line = 1 .. Len(Line)
         /\ Len(Line) = 1 => Line[1] = queue[1] /\ Len(queue) = 1 /\ pending # <<>>
         /\ completed \in Seq(Ids)
         /\ discards = NoCounts /\ finPend = {} /\ batch = cur.sched
         /\ cur.rows \subseteq cur.sched /\ cur.sched \subseteq Reqs
         /\ \A r \in cur.sched : Live(r) /\ status[r] = IF r \in cur.rows THEN "running" ELSE "partial"
         /\ Len(pending) <= 1 /\ PendingIds \subseteq ToSet(queue)
         /\ pending = <<>> => ~SomeOpen /\ ~Unread(1) /\ ~Unread(2)
         /\ \A r \in Reqs : Discarded(r) = 0 /\ \A n : ~Lost(r, n)
<1>1. Types /\ QueueTypes /\ cur \in Curs /\ queue \in Seq(Ids) /\ completed \in Seq(Ids)
  BY DEF IInv, Types, QueueTypes
<1>2. Building /\ pc \in Late /\ pc \notin Early
  BY DEF Building, Late, Early
<1>3. /\ cur.id \in Ids \ UsedIds /\ cur.rows \subseteq cur.sched /\ Len(queue) <= 1
      /\ \A r \in cur.sched : status[r] = IF r \in cur.rows THEN "running" ELSE "partial"
      /\ finPend = {} /\ discards = NoCounts /\ batch = cur.sched
  BY <1>2 DEF IInv, Current, Overlap
<1>4. Len(queue) \in {0, 1} /\ DOMAIN queue = 1 .. Len(queue)
  BY <1>1, <1>3, QueueFacts
<1>5. Len(pending) <= 1 /\ PendingIds \subseteq ToSet(queue) /\ ToSet(Line) \subseteq ToSet(queue)
  BY <1>2 DEF IInv, Order, Lines
<1>6. ToSet(completed) \subseteq ToSet(Line)
  BY <1>1, LineIs
<1>7. UsedIds \subseteq ToSet(queue)
  BY <1>5, <1>6 DEF UsedIds
<1> DEFINE l == Line
<1>8. l \in Seq(Ids) /\ Len(l) <= 2 /\ (Len(l) = 2 => l[1] # l[2])
  BY <1>1, LineIs DEF IInv, Lines
<1>9. ToSet(l) \subseteq ToSet(queue) /\ (l # <<>> => pending # <<>>)
  BY <1>5 DEF IInv, Lines
<1> HIDE DEF l
<1>10. /\ Len(l) \in {0, 1, 2} /\ DOMAIN l = 1 .. Len(l) /\ (l = <<>> <=> Len(l) = 0)
       /\ Len(l) # 0 => l[1] \in ToSet(l)
       /\ Len(l) = 2 => l[2] \in ToSet(l)
  <2>1. /\ Len(l) \in {0, 1, 2} /\ DOMAIN l = 1 .. Len(l) /\ (l = <<>> <=> Len(l) = 0)
        /\ 1 \in DOMAIN l <=> Len(l) # 0
        /\ 2 \in DOMAIN l <=> Len(l) = 2
        /\ \A i \in DOMAIN l : l[i] \in ToSet(l)
    BY <1>8, ShortSeq
  <2> QED BY <2>1
<1>11. /\ Len(queue) = 0 => ToSet(queue) = {}
       /\ Len(queue) = 1 => ToSet(queue) = {queue[1]}
  BY <1>1, QueueFacts
<1>12. Len(l) \in {0, 1} /\ (Len(l) = 1 => l[1] = queue[1] /\ Len(queue) = 1 /\ pending # <<>>)
  BY <1>4, <1>8, <1>9, <1>10, <1>11
<1>13. /\ Line \in Seq(Ids) /\ Len(Line) \in {0, 1} /\ DOMAIN Line = 1 .. Len(Line)
       /\ Len(Line) = 1 => Line[1] = queue[1] /\ Len(queue) = 1 /\ pending # <<>>
  BY <1>8, <1>10, <1>12 DEF l
<1>14. pending = <<>> => ~SomeOpen
  BY OpenPending
<1>15. ~SomeOpen => ~Unread(1) /\ ~Unread(2)
  BY DEF SomeOpen, Open, Unread
<1>16. \A r \in Reqs : Discarded(r) = 0 /\ \A n : ~Lost(r, n)
  BY <1>2, <1>3 DEF Discarded, NoCounts, Lost
<1>17. \A r \in cur.sched : Live(r)
  BY <1>3 DEF Live
<1>18. cur.sched \subseteq Reqs
  BY <1>1 DEF Curs
<1> QED BY <1>1, <1>3, <1>4, <1>5, <1>7, <1>13, <1>14, <1>15, <1>16, <1>17, <1>18

(* What is submitted over an outstanding step is a steady plain decode. *)
LEMMA SteadyOverlap ==
  ASSUME IInv, pc = "submit", pending # <<>>
  PROVE  /\ cur.kind = "decode" /\ Steady /\ ~ReloadInputs
         /\ \A i \in DOMAIN pending : pending[i].overlapOk
<1>1. SteadyFacts /\ ~Verifies
  BY DEF IInv, Overlap, Late
<1>2. pending[Len(pending)].overlapOk
  <2>1. pending \in Seq(Entries) /\ Len(pending) <= 2
    BY DEF IInv, Types, QueueTypes
  <2>2. Len(pending) \in DOMAIN pending
    BY <2>1, ShortSeq
  <2> QED BY <1>1, <2>2 DEF SteadyFacts
<1>3. ~chain.verified /\ ~chain.hostAnswered
  BY <1>2 DEF IInv, Overlap
<1>4. DeviceSampling /\ chain.valid /\ chain.device /\ ~layoutChanged /\ cur.kind = "decode"
  BY <1>1 DEF SteadyFacts, DeviceSampling
<1>5. ~Transition
  <2>1. chain \in Chains
    BY DEF IInv, Types, RunnerTypes
  <2> QED BY <1>3, <1>4, <2>1 DEF Transition, DeviceSampling, Chains
<1> QED BY <1>1, <1>4, <1>5 DEF ReloadInputs, Steady, SteadyFacts

(* A forward starts from the token after everything that its request was
   delivered and is still owed: the resident chain has it, or nothing is
   outstanding and the runner's own history is complete. *)
LEMMA InputsRight ==
  ASSUME IInv, pc = "submit", cur.kind # "none", NEW r \in cur.sched
  PROVE  FirstToken(r) = Total(r) + 1 /\ Total(r) \in Nat
<1>1. /\ Types /\ Live(r) /\ r \in Reqs /\ Len(Line) \in {0, 1} /\ DOMAIN Line = 1 .. Len(Line)
      /\ batch = cur.sched
      /\ Len(Line) = 1 => pending # <<>>
      /\ status[r] = IF r \in cur.rows THEN "running" ELSE "partial"
  BY SubmitFacts
<1>2. FlowOf(r) /\ Total(r) \in Nat /\ app[r] \in Seq(Nat)
  BY <1>1, Amounts DEF IInv, Flow
<1>3. chain \in Chains /\ layoutChanged \in BOOLEAN
  BY <1>1 DEF Types, RunnerTypes
<1>4. CASE cur.kind = "decode" /\ ~ReloadInputs
  <2>1. ~Verifies /\ DeviceSampling /\ ~Transition
    BY <1>4 DEF ReloadInputs
  <2>2. chain.valid /\ ~layoutChanged /\ chain.device = DeviceSampling
        /\ ~chain.verified /\ ~chain.hostAnswered
    BY <2>1 DEF Transition
  <2>3. chain.device
    BY <2>1, <2>2
  <2>4. status[r] = "running"
    <3>1. r \in cur.rows
      BY <1>4 DEF IInv, Current, Building, Late
    <3> QED BY <1>1, <3>1
  <2>5. resident[r] = Total(r)
    BY <1>1, <1>4, <2>2, <2>3, <2>4 DEF IInv, Resident
  <2>6. Total(r) > 0
    BY <1>2, <1>4, <2>4 DEF FlowOf
  <2>7. FirstToken(r) = AfterResident(resident[r])
    BY <1>4, <2>2 DEF FirstToken
  <2> QED BY <1>2, <2>5, <2>6, <2>7 DEF AfterResident
<1>5. CASE ~(cur.kind = "decode" /\ ~ReloadInputs)
  <2>1. pending = <<>>
    BY <1>5, SteadyOverlap
  <2>2. DOMAIN Line = {}
    BY <1>1, <2>1
  <2>3. Gain(r, 1) = 0 /\ Gain(r, 2) = 0
    BY <2>2 DEF Gain
  <2>4. Len(app[r]) = Total(r)
    <3>1. Len(app[r]) + Gain(r, 1) + Gain(r, 2) = Total(r) /\ Len(app[r]) \in Nat
      BY <1>1, <1>2, Amounts DEF FlowOf
    <3> QED BY <2>3, <3>1
  <2>5. app[r] = [i \in DOMAIN app[r] |-> i]
    <3>1. \A k \in DOMAIN app[r] : app[r][k] = 0 + k /\ k \in Nat
      BY <1>2 DEF FlowOf, Continues
    <3>2. app[r] = [k \in DOMAIN app[r] |-> app[r][k]]
      BY <1>2
    <3>3. \A k \in DOMAIN app[r] : app[r][k] = k
      BY <3>1
    <3> QED BY <3>2, <3>3
  <2>6. FirstToken(r) = AfterHistory(app[r])
    BY <1>5 DEF FirstToken
  <2>7. AfterHistory(app[r]) = Len(app[r]) + 1
    BY <2>5 DEF AfterHistory
  <2> QED BY <1>2, <2>4, <2>6, <2>7
<1> QED BY <1>4, <1>5

(* The step joins the queue, with the output st.out.  It is either read at
   once, and then nothing outstanding is before it, or still to be read. *)
Submits(st) ==
  /\ pc = "submit" /\ Enqueue(step, st)
  /\ UNCHANGED <<schedVars, known, batch, app, fault>>
  /\ st.kind \in Kinds /\ st.out \in [Reqs -> Seq(Nat)]
  /\ \A r \in Reqs : st.out[r] # <<>> <=> r \in cur.rows
  /\ \A r \in cur.rows : Continues(st.out[r], Total(r))
  /\ \/ /\ st.stage = "resolved" /\ pending' = pending
        /\ completed' = IF cur.rows = {} THEN completed ELSE Append(completed, cur.id)
        /\ cur.rows # {} => pending = <<>>
     \/ /\ st.stage = "submitted" /\ cur.kind = "decode" /\ completed' = completed
        /\ \E ok \in BOOLEAN : pending' = Append(pending, [id |-> cur.id, overlapOk |-> ok])

(* The queue with the step, and the steps as they were. *)
LEMMA SubmitQueue ==
  ASSUME IInv, NEW st, Submits(st)
  PROVE  /\ queue' \in Seq(Ids) /\ Len(queue') = Len(queue) + 1 /\ DOMAIN queue' = 1 .. Len(queue) + 1
         /\ queue' # <<>> /\ queue'[Len(queue) + 1] = cur.id
         /\ \A i \in DOMAIN queue : queue'[i] = queue[i] /\ queue[i] # cur.id /\ queue[i] \in Ids
         /\ ToSet(queue') = ToSet(queue) \cup {cur.id}
         /\ step' \in [Ids -> Steps] /\ \A i \in Ids \ {cur.id} : step'[i] = step[i]
         /\ step'[cur.id] = [kind |-> st.kind, sched |-> cur.sched, rows |-> cur.rows,
                             out |-> st.out, stage |-> st.stage]
         /\ cur' = NoStep /\ pc' \in {"idle", "pop"} /\ (pc' = "idle" => Len(queue') < QueueSize)
<1>1. /\ Types /\ cur \in Curs /\ Len(queue) \in {0, 1} /\ queue \in Seq(Ids)
      /\ DOMAIN queue = 1 .. Len(queue)
      /\ cur.id \in Ids /\ cur.id \notin UsedIds
  BY SubmitFacts DEF Submits
<1>2. /\ queue' = Append(queue, cur.id)
      /\ step' = [step EXCEPT ![cur.id] = [kind |-> st.kind, sched |-> cur.sched, rows |-> cur.rows,
                                           out |-> st.out, stage |-> st.stage]]
      /\ cur' = NoStep /\ pc' \in {"idle", "pop"} /\ (pc' = "idle" => Len(queue') < QueueSize)
  BY DEF Submits, Enqueue
<1>3. \A i \in DOMAIN queue : queue[i] \in ToSet(queue) /\ queue[i] \in UsedIds /\ queue[i] \in Ids
  BY <1>1, QueueFacts DEF UsedIds, Types
<1>4. step \in [Ids -> Steps]
  BY <1>1 DEF Types, QueueTypes
<1>5. [kind |-> st.kind, sched |-> cur.sched, rows |-> cur.rows,
       out |-> st.out, stage |-> st.stage] \in Steps
  BY <1>1 DEF Submits, Steps, Stages, Curs
<1>6. step' \in [Ids -> Steps] /\ \A i \in Ids \ {cur.id} : step'[i] = step[i]
  BY <1>2, <1>4, <1>5
<1>7. step'[cur.id] = [kind |-> st.kind, sched |-> cur.sched, rows |-> cur.rows,
                       out |-> st.out, stage |-> st.stage]
  BY <1>1, <1>2, <1>4
<1> DEFINE q == Append(queue, cur.id)
<1>8. /\ q \in Seq(Ids) /\ Len(q) = Len(queue) + 1 /\ DOMAIN q = 1 .. Len(queue) + 1 /\ q # <<>>
      /\ \A i \in 1 .. Len(queue) : q[i] = queue[i]
      /\ q[Len(queue) + 1] = cur.id /\ ToSet(q) = ToSet(queue) \cup {cur.id}
  BY <1>1, Appended
<1>9. queue' = q
  BY <1>2
<1> HIDE DEF q
<1>10. /\ queue' \in Seq(Ids) /\ Len(queue') = Len(queue) + 1 /\ DOMAIN queue' = 1 .. Len(queue) + 1
       /\ queue' # <<>> /\ queue'[Len(queue) + 1] = cur.id
       /\ ToSet(queue') = ToSet(queue) \cup {cur.id}
  BY <1>8, <1>9
<1>11. \A i \in DOMAIN queue : queue'[i] = queue[i] /\ queue[i] # cur.id /\ queue[i] \in Ids
  BY <1>1, <1>3, <1>8, <1>9
<1> QED BY <1>2, <1>6, <1>7, <1>10, <1>11

(* A step with output is the last of the line. *)
LEMMA SubmitLine ==
  ASSUME IInv, NEW st, Submits(st)
  PROVE  /\ \A i \in DOMAIN queue : Open(i)' = Open(i) /\ Unread(i)' = Unread(i)
         /\ \A k \in {1, 2} : k = Len(queue) + 1 => Open(k)' = (st.stage = "submitted")
         /\ cur.rows = {} => Line' = Line /\ completed' = completed
         /\ cur.rows # {} => Line' = Append(Line, cur.id)
         /\ ToSet(completed') \subseteq ToSet(completed) \cup {cur.id} /\ completed' \in Seq(Ids)
         /\ cur.id \in ToSet(completed') => st.stage = "resolved"
<1>1. /\ Types /\ Len(queue) \in {0, 1} /\ DOMAIN queue = 1 .. Len(queue)
      /\ cur.id \in Ids /\ cur.id \notin UsedIds /\ completed \in Seq(Ids)
      /\ pending = <<>> => ~SomeOpen /\ ~Unread(1) /\ ~Unread(2)
  BY SubmitFacts DEF Submits
<1>2. /\ Len(queue') = Len(queue) + 1 /\ DOMAIN queue' = 1 .. Len(queue) + 1
      /\ queue'[Len(queue) + 1] = cur.id
      /\ \A i \in DOMAIN queue : queue'[i] = queue[i] /\ queue[i] # cur.id /\ queue[i] \in Ids
      /\ \A i \in Ids \ {cur.id} : step'[i] = step[i]
      /\ step'[cur.id] = [kind |-> st.kind, sched |-> cur.sched, rows |-> cur.rows,
                          out |-> st.out, stage |-> st.stage]
  BY SubmitQueue
<1>3. step'[cur.id].stage = st.stage
  BY <1>2
<1>4. \A i \in DOMAIN queue : i \in DOMAIN queue' /\ step'[queue'[i]] = step[queue[i]]
  BY <1>1, <1>2
<1>5. \A i \in DOMAIN queue : Open(i)' = Open(i) /\ Unread(i)' = Unread(i)
  BY <1>4 DEF Open, Unread
<1>6. Len(queue) + 1 \in DOMAIN queue'
  BY <1>1, <1>2
<1>7. st.stage \in {"resolved", "submitted"}
  BY DEF Submits
<1>8. \A k \in {1, 2} : k = Len(queue) + 1 =>
        /\ Open(k)' = (st.stage = "submitted") /\ Unread(k)' = (st.stage = "submitted")
  BY <1>2, <1>3, <1>6, <1>7 DEF Open, Unread
<1>9. CASE Len(queue) = 0
  <2>1. ~Unread(1) /\ ~Unread(2) /\ ~Unread(2)' /\ DOMAIN queue' = {1} /\ queue'[1] = cur.id
    BY <1>1, <1>2, <1>9 DEF Unread
  <2>2. Unread(1)' = (st.stage = "submitted")
    BY <1>8, <1>9
  <2>3. Line = completed
    BY <2>1 DEF Line, Joined
  <2>4. CASE st.stage = "resolved"
    <3>1. completed' = IF cur.rows = {} THEN completed ELSE Append(completed, cur.id)
      BY <2>4 DEF Submits
    <3>2. Line' = completed'
      BY <2>1, <2>2, <2>4 DEF Line, Joined
    <3> QED BY <1>1, <1>5, <1>8, <2>3, <2>4, <3>1, <3>2, Appended
  <2>5. CASE st.stage = "submitted"
    <3>1. completed' = completed /\ cur.rows # {}
      BY <2>5 DEF Submits, IInv, Current, Building, Late
    <3>2. Line' = Append(completed, cur.id)
      BY <2>1, <2>2, <2>5, <3>1 DEF Line, Joined
    <3>3. cur.id \notin ToSet(completed)
      BY <1>1 DEF UsedIds
    <3> QED BY <1>1, <1>5, <1>8, <2>3, <2>5, <3>1, <3>2, <3>3
  <2> QED BY <1>7, <2>4, <2>5
<1>10. CASE Len(queue) = 1
  <2>1. /\ ~Unread(2) /\ DOMAIN queue' = {1, 2} /\ queue'[2] = cur.id /\ queue'[1] = queue[1]
        /\ 1 \in DOMAIN queue
    BY <1>1, <1>2, <1>10 DEF Unread
  <2>2. Unread(2)' = (st.stage = "submitted") /\ Unread(1)' = Unread(1)
    BY <1>5, <1>8, <1>10, <2>1
  <2>3. Line = IF Unread(1) THEN Append(completed, queue[1]) ELSE completed
    BY <2>1 DEF Line, Joined
  <2>4. CASE st.stage = "resolved"
    <3>1. completed' = IF cur.rows = {} THEN completed ELSE Append(completed, cur.id)
      BY <2>4 DEF Submits
    <3>2. Line' = IF Unread(1) THEN Append(completed', queue[1]) ELSE completed'
      BY <2>1, <2>2, <2>4 DEF Line, Joined
    <3>3. cur.rows # {} => ~Unread(1)
      BY <1>1, <2>4 DEF Submits
    <3>4. /\ cur.rows = {} => Line' = Line /\ completed' = completed
          /\ cur.rows # {} => Line' = Append(Line, cur.id)
      BY <2>3, <3>1, <3>2, <3>3
    <3> QED BY <1>1, <1>5, <1>8, <2>4, <3>1, <3>4, Appended
  <2>5. CASE st.stage = "submitted"
    <3>1. completed' = completed /\ cur.rows # {}
      BY <2>5 DEF Submits, IInv, Current, Building, Late
    <3>2. Line' = Append(Line, cur.id)
      BY <2>1, <2>2, <2>3, <2>5, <3>1 DEF Line, Joined
    <3>3. cur.id \notin ToSet(completed)
      BY <1>1 DEF UsedIds
    <3> QED BY <1>1, <1>5, <1>8, <2>5, <3>1, <3>2, <3>3
  <2> QED BY <1>7, <2>4, <2>5
<1> QED BY <1>1, <1>9, <1>10

(* What the scheduler and the runner will take of the step is what continues
   the request's stream. *)
LEMMA SubmitFlow ==
  ASSUME IInv, NEW st, Submits(st), NEW r \in Reqs, Live(r)
  PROVE  /\ Total(r)' = Total(r) + Len(st.out[r]) /\ Total(r) \in Nat /\ Len(st.out[r]) \in Nat
         /\ (Total(r) > 0 \/ r \in cur.rows => Total(r)' > 0) => FlowOf(r)'
<1>1. /\ Types /\ Len(queue) \in {0, 1} /\ queue \in Seq(Ids) /\ DOMAIN queue = 1 .. Len(queue)
      /\ cur.id \in Ids /\ cur.rows \subseteq cur.sched
      /\ Line \in Seq(Ids) /\ Len(Line) \in {0, 1} /\ DOMAIN Line = 1 .. Len(Line)
      /\ Len(Line) = 1 => Line[1] = queue[1] /\ Len(queue) = 1
      /\ Discarded(r) = 0 /\ \A n : ~Lost(r, n)
      /\ \A q \in cur.sched : status[q] = IF q \in cur.rows THEN "running" ELSE "partial"
  BY SubmitFacts DEF Submits
<1>2. /\ Len(queue') = Len(queue) + 1 /\ DOMAIN queue' = 1 .. Len(queue) + 1
      /\ queue'[Len(queue) + 1] = cur.id
      /\ \A i \in DOMAIN queue : queue'[i] = queue[i] /\ queue[i] # cur.id /\ queue[i] \in Ids
      /\ \A i \in Ids \ {cur.id} : step'[i] = step[i]
      /\ step'[cur.id] = [kind |-> st.kind, sched |-> cur.sched, rows |-> cur.rows,
                          out |-> st.out, stage |-> st.stage]
      /\ cur' = NoStep /\ pc' \in {"idle", "pop"}
  BY SubmitQueue
<1>3. /\ UNCHANGED <<status, hist, stale, drop, frames, discards, finPend, app>>
  BY DEF Submits, schedVars, streams
<1>4. FlowOf(r) /\ Total(r) \in Nat /\ Len(hist[r]) \in Nat /\ Len(app[r]) \in Nat
      /\ \A n : Coming(r, n) \in Nat /\ Gain(r, n) \in Nat /\ InQueue(r, n) \in Nat
  BY <1>1, Amounts DEF IInv, Flow
<1> DEFINE new == st.out[r]
<1>5. new \in Seq(Nat) /\ Len(new) \in Nat /\ Continues(new, Total(r)) /\ DOMAIN <<>> = {}
  <2>1. new \in Seq(Nat)
    BY DEF Submits
  <2>2. Len(new) \in Nat
    BY <2>1
  <2>3. r \in cur.rows => Continues(new, Total(r))
    BY DEF Submits
  <2>4. r \notin cur.rows => new = <<>>
    BY DEF Submits
  <2> QED BY <2>1, <2>2, <2>3, <2>4 DEF Continues
<1>6. step'[cur.id].out[r] = new
  BY <1>2
<1> HIDE DEF new
<1>7. Dropped(r)' = Dropped(r) /\ (Dropped(r) => Len(queue) # 0)
  <2>1. Dropped(r) => queue # <<>>
    BY DEF IInv, Resets, Dropped
  <2>2. queue # <<>> => Len(queue) # 0
    BY <1>1, QueueFacts DEF Types
  <2> QED BY <1>3, <2>1, <2>2 DEF Dropped
<1>8. /\ 1 \in DOMAIN queue => Out(queue[1], r)' = Out(queue[1], r) /\ queue'[1] = queue[1]
      /\ \A i \in DOMAIN queue : step'[queue[i]].out[r] = step[queue[i]].out[r]
  BY <1>2 DEF Out
(* The scheduler's side. *)
<1>9. /\ Total(r)' = Total(r) + Len(new)
      /\ 1 \in DOMAIN queue' /\ ~Dropped(r)' => Continues(Out(queue[1], r), Len(hist[r]))'
      /\ 2 \in DOMAIN queue' => Continues(Out(queue[2], r), Len(hist[r]) + Coming(r, 1))'
  <2>1. CASE Len(queue) = 0
    <3>1. /\ 1 \in DOMAIN queue' /\ queue'[1] = cur.id /\ 2 \notin DOMAIN queue'
          /\ 1 \notin DOMAIN queue /\ 2 \notin DOMAIN queue /\ ~Dropped(r)
      BY <1>1, <1>2, <1>7, <2>1
    <3>2. Coming(r, 1) = 0 /\ Coming(r, 2) = 0
      BY <3>1 DEF Coming, InQueue
    <3>3. Total(r) = Len(hist[r])
      BY <1>4, <3>2 DEF Total
    <3>4. Coming(r, 1)' = Len(new) /\ Coming(r, 2)' = 0
      BY <1>6, <1>7, <3>1 DEF Coming, InQueue
    <3>5. Total(r)' = Len(hist[r]) + Len(new) + 0
      BY <1>3, <3>4 DEF Total
    <3>6. Out(queue[1], r)' = new /\ Len(hist'[r]) = Total(r)
      BY <1>3, <1>6, <3>1, <3>3 DEF Out
    <3>7. Continues(Out(queue[1], r), Len(hist[r]))'
      BY <1>5, <3>6 DEF Continues
    <3> QED BY <1>4, <1>5, <3>1, <3>3, <3>5, <3>7
  <2>2. CASE Len(queue) = 1
    <3>1. /\ 1 \in DOMAIN queue' /\ 2 \in DOMAIN queue' /\ queue'[2] = cur.id
          /\ 1 \in DOMAIN queue /\ 2 \notin DOMAIN queue /\ queue'[1] = queue[1]
      BY <1>1, <1>2, <2>2
    <3>2. Coming(r, 2) = 0
      BY <3>1 DEF Coming, InQueue
    <3>3. Total(r) = Len(hist[r]) + Coming(r, 1)
      BY <1>4, <3>2 DEF Total
    <3>4. Coming(r, 1)' = Coming(r, 1) /\ Coming(r, 2)' = Len(new)
      BY <1>6, <1>7, <1>8, <3>1 DEF Coming, InQueue
    <3>5. Total(r)' = Len(hist[r]) + Coming(r, 1) + Len(new)
      BY <1>3, <3>4 DEF Total
    <3>6. Out(queue[2], r)' = new /\ Len(hist'[r]) + Coming(r, 1)' = Total(r)
      BY <1>3, <1>6, <3>1, <3>3, <3>4 DEF Out
    <3>7. Continues(Out(queue[2], r), Len(hist[r]) + Coming(r, 1))'
      BY <1>5, <3>6 DEF Continues
    <3>8. ~Dropped(r)' => Continues(Out(queue[1], r), Len(hist[r]))'
      <4>1. ~Dropped(r) => Continues(Out(queue[1], r), Len(hist[r]))
        BY <1>4, <3>1 DEF FlowOf
      <4>2. Out(queue[1], r)' = Out(queue[1], r) /\ Len(hist'[r]) = Len(hist[r])
        BY <1>3, <1>8, <3>1
      <4> QED BY <1>7, <4>1, <4>2 DEF Continues
    <3> QED BY <1>4, <1>5, <3>3, <3>5, <3>7, <3>8
  <2> QED BY <1>1, <2>1, <2>2
(* The runner's side. *)
<1>10. Discarded(r)' = 0 /\ \A n : ~Lost(r, n)'
  BY <1>1, <1>2, <1>3 DEF Discarded, Early, Late, Lost, Submits
<1>11. Len(app[r]) + Gain(r, 1) + Gain(r, 2) = Total(r) /\ Continues(app[r], 0)
  BY <1>4 DEF FlowOf
<1>12. CASE cur.rows = {}
  <2>1. Line' = Line /\ new = <<>> /\ Len(new) = 0
    <3>1. Line' = Line
      BY <1>12, SubmitLine
    <3>2. new = <<>>
      BY <1>12 DEF Submits, new
    <3> QED BY <3>1, <3>2
  <2>2. 1 \in DOMAIN Line => Out(Line[1], r)' = Out(Line[1], r)
    BY <1>1, <1>8, <2>1 DEF Out
  <2>3. 2 \notin DOMAIN Line
    BY <1>1
  <2>4. Gain(r, 1)' = Gain(r, 1) /\ Gain(r, 2)' = Gain(r, 2)
    BY <1>1, <1>10, <2>1, <2>2, <2>3 DEF Gain
  <2>5. 1 \in DOMAIN Line => Continues(Out(Line[1], r), Len(app[r]))'
    <3> SUFFICES ASSUME 1 \in DOMAIN Line PROVE Continues(Out(Line[1], r), Len(app[r]))'
      OBVIOUS
    <3>1. Continues(Out(Line[1], r), Len(app[r]))
      BY <1>1, <1>4 DEF FlowOf
    <3>2. Out(Line[1], r)' = Out(Line[1], r) /\ Len(app'[r]) = Len(app[r])
      BY <1>3, <2>2
    <3> QED BY <3>1, <3>2 DEF Continues
  <2>6. Len(app'[r]) + Gain(r, 1)' + Gain(r, 2)' = Total(r)'
    <3>1. Total(r)' = Total(r)
      BY <1>4, <1>9, <2>1
    <3> QED BY <1>3, <1>11, <2>4, <3>1
  <2>7. Continues(app[r], 0)'
    BY <1>3, <1>11 DEF Continues
  <2>8. (Total(r) > 0 \/ r \in cur.rows => Total(r)' > 0) =>
          (status'[r] = "running" /\ ~(cur'.kind = "prefill" /\ r \in cur'.sched) => Total(r)' > 0)
    <3>1. r \notin cur.sched \/ status[r] # "running"
      BY <1>1, <1>12
    <3> QED BY <1>3, <1>4, <3>1 DEF FlowOf
  <2> QED BY <1>3, <1>4, <1>5, <1>9, <2>1, <2>3, <2>5, <2>6, <2>7, <2>8 DEF FlowOf, new
<1>13. CASE cur.rows # {}
  <2>1. Line' = Append(Line, cur.id)
    BY <1>13, SubmitLine
  <2> DEFINE l == Append(Line, cur.id)
  <2>2. DOMAIN l = 1 .. Len(Line) + 1 /\ l[Len(Line) + 1] = cur.id /\ \A i \in 1 .. Len(Line) : l[i] = Line[i]
    BY <1>1, Appended
  <2>3. Line' = l
    BY <2>1
  <2> HIDE DEF l
  <2>4. CASE Len(Line) = 0
    <3>1. 1 \in DOMAIN Line' /\ 2 \notin DOMAIN Line' /\ Line'[1] = cur.id /\ DOMAIN Line = {}
      BY <1>1, <2>2, <2>3, <2>4
    <3>2. Gain(r, 1) = 0 /\ Gain(r, 2) = 0
      BY <3>1 DEF Gain
    <3>3. Out(Line[1], r)' = new
      BY <1>6, <3>1 DEF Out
    <3>4. Gain(r, 1)' = Len(new) /\ Gain(r, 2)' = 0
      BY <1>10, <3>1, <3>3 DEF Gain
    <3>5. Len(app[r]) = Total(r)
      BY <1>4, <1>11, <3>2
    <3>6. Continues(Out(Line[1], r), Len(app[r]))'
      BY <1>3, <1>5, <3>3, <3>5 DEF Continues
    <3>7. Len(app'[r]) + Gain(r, 1)' + Gain(r, 2)' = Total(r)'
      BY <1>3, <1>4, <1>5, <1>9, <3>4, <3>5
    <3>8. Continues(app[r], 0)'
      BY <1>3, <1>11 DEF Continues
    <3>9. (Total(r) > 0 \/ r \in cur.rows => Total(r)' > 0) =>
            (status'[r] = "running" /\ ~(cur'.kind = "prefill" /\ r \in cur'.sched) => Total(r)' > 0)
      <4>1. status[r] = "running" => r \in cur.rows \/ r \notin cur.sched
        BY <1>1
      <4>2. status[r] = "running" /\ r \notin cur.sched => Total(r) > 0
        BY <1>4 DEF FlowOf
      <4> QED BY <1>3, <4>1, <4>2
    <3> QED BY <1>3, <1>4, <1>5, <1>9, <3>1, <3>6, <3>7, <3>8, <3>9 DEF FlowOf, new
  <2>5. CASE Len(Line) = 1
    <3>1. /\ 1 \in DOMAIN Line' /\ 2 \in DOMAIN Line' /\ Line'[2] = cur.id /\ Line'[1] = queue[1]
          /\ 1 \in DOMAIN Line /\ 2 \notin DOMAIN Line /\ Line[1] = queue[1] /\ 1 \in DOMAIN queue
      BY <1>1, <2>2, <2>3, <2>5
    <3>2. Out(Line[1], r)' = Out(Line[1], r) /\ Out(Line[2], r)' = new
      BY <1>6, <1>8, <3>1 DEF Out
    <3>3. Gain(r, 2) = 0 /\ Gain(r, 1)' = Gain(r, 1) /\ Gain(r, 2)' = Len(new)
      BY <1>1, <1>10, <3>1, <3>2 DEF Gain
    <3>4. Len(app[r]) + Gain(r, 1) = Total(r)
      BY <1>4, <1>11, <3>3
    <3>5. Continues(Out(Line[1], r), Len(app[r]))'
      <4>1. Continues(Out(Line[1], r), Len(app[r]))
        BY <1>1, <1>4, <3>1 DEF FlowOf
      <4> QED BY <1>3, <3>2, <4>1 DEF Continues
    <3>6. Continues(Out(Line[2], r), Len(app[r]) + Gain(r, 1))'
      BY <1>3, <1>5, <3>2, <3>3, <3>4 DEF Continues
    <3>7. Len(app'[r]) + Gain(r, 1)' + Gain(r, 2)' = Total(r)'
      BY <1>3, <1>4, <1>5, <1>9, <3>3, <3>4
    <3>8. Continues(app[r], 0)'
      BY <1>3, <1>11 DEF Continues
    <3>9. (Total(r) > 0 \/ r \in cur.rows => Total(r)' > 0) =>
            (status'[r] = "running" /\ ~(cur'.kind = "prefill" /\ r \in cur'.sched) => Total(r)' > 0)
      <4>1. status[r] = "running" => r \in cur.rows \/ r \notin cur.sched
        BY <1>1
      <4>2. status[r] = "running" /\ r \notin cur.sched => Total(r) > 0
        BY <1>4 DEF FlowOf
      <4> QED BY <1>3, <4>1, <4>2
    <3> QED BY <1>3, <1>4, <1>5, <1>9, <3>1, <3>5, <3>6, <3>7, <3>8, <3>9 DEF FlowOf, new
  <2> QED BY <1>1, <2>4, <2>5
<1> QED BY <1>12, <1>13

(* A submission keeps every part of the invariant that does not depend on
   what becomes of the chain and of the resident inputs. *)
LEMMA SubmitKeeps ==
  ASSUME IInv, NEW st, Submits(st)
  PROVE  /\ SchedTypes' /\ QueueTypes' /\ StepData' /\ Current' /\ Order' /\ Lines'
         /\ Knowing' /\ Resets' /\ Withdrawn' /\ Delivery' /\ Flow' /\ Frames' /\ NoFault'
         /\ pc' \in {"idle", "pop"} /\ cur' = NoStep
<1>1. /\ Types /\ QueueTypes /\ cur \in Curs /\ Len(queue) \in {0, 1} /\ queue \in Seq(Ids)
      /\ DOMAIN queue = 1 .. Len(queue)
      /\ cur.id \in Ids /\ cur.id \notin UsedIds /\ UsedIds \subseteq ToSet(queue)
      /\ Line \in Seq(Ids) /\ Len(Line) \in {0, 1} /\ DOMAIN Line = 1 .. Len(Line)
      /\ Len(Line) = 1 => Line[1] = queue[1] /\ Len(queue) = 1
      /\ completed \in Seq(Ids) /\ discards = NoCounts /\ finPend = {} /\ batch = cur.sched
      /\ cur.rows \subseteq cur.sched /\ cur.sched \subseteq Reqs
      /\ \A r \in cur.sched : Live(r) /\ status[r] = IF r \in cur.rows THEN "running" ELSE "partial"
      /\ Len(pending) <= 1 /\ PendingIds \subseteq ToSet(queue)
  BY SubmitFacts DEF Submits, Types
<1>2. /\ queue' \in Seq(Ids) /\ Len(queue') = Len(queue) + 1 /\ DOMAIN queue' = 1 .. Len(queue) + 1
      /\ queue' # <<>> /\ queue'[Len(queue) + 1] = cur.id
      /\ \A i \in DOMAIN queue : queue'[i] = queue[i] /\ queue[i] # cur.id /\ queue[i] \in Ids
      /\ ToSet(queue') = ToSet(queue) \cup {cur.id}
      /\ step' \in [Ids -> Steps] /\ \A i \in Ids \ {cur.id} : step'[i] = step[i]
      /\ step'[cur.id] = [kind |-> st.kind, sched |-> cur.sched, rows |-> cur.rows,
                          out |-> st.out, stage |-> st.stage]
      /\ cur' = NoStep /\ pc' \in {"idle", "pop"} /\ (pc' = "idle" => Len(queue') < QueueSize)
  BY SubmitQueue
<1>sizes. /\ Len(queue) = 0 => DOMAIN queue = {} /\ DOMAIN queue' = {1} /\ Len(queue') = 1
          /\ Len(queue) = 1 => DOMAIN queue = {1} /\ DOMAIN queue' = {1, 2} /\ Len(queue') = 2
          /\ Len(Line) = 0 => DOMAIN Line = {}
          /\ Len(Line) = 1 => DOMAIN Line = {1}
  <2>1. /\ Len(queue) \in {0, 1} /\ DOMAIN queue = 1 .. Len(queue)
        /\ Len(queue') = Len(queue) + 1 /\ DOMAIN queue' = 1 .. Len(queue) + 1
        /\ Len(Line) \in {0, 1} /\ DOMAIN Line = 1 .. Len(Line)
    BY <1>1, <1>2
  <2>2. 1 .. 0 = {} /\ 1 .. 0 + 1 = {1} /\ 1 .. 1 = {1} /\ 1 .. 1 + 1 = {1, 2} /\ 0 + 1 = 1 /\ 1 + 1 = 2
    OBVIOUS
  <2>3. Len(queue) = 0 => DOMAIN queue = {} /\ DOMAIN queue' = {1} /\ Len(queue') = 1
    BY <2>1, <2>2, Zenon
  <2>4. Len(queue) = 1 => DOMAIN queue = {1} /\ DOMAIN queue' = {1, 2} /\ Len(queue') = 2
    BY <2>1, <2>2, Zenon
  <2>5. (Len(Line) = 0 => DOMAIN Line = {}) /\ (Len(Line) = 1 => DOMAIN Line = {1})
    BY <2>1, <2>2, Zenon
  <2> QED BY <2>3, <2>4, <2>5
<1>3. /\ \A i \in DOMAIN queue : Open(i)' = Open(i) /\ Unread(i)' = Unread(i)
      /\ \A k \in {1, 2} : k = Len(queue) + 1 => Open(k)' = (st.stage = "submitted")
      /\ cur.rows = {} => Line' = Line /\ completed' = completed
      /\ cur.rows # {} => Line' = Append(Line, cur.id)
      /\ ToSet(completed') \subseteq ToSet(completed) \cup {cur.id} /\ completed' \in Seq(Ids)
      /\ cur.id \in ToSet(completed') => st.stage = "resolved"
  BY SubmitLine
<1>4. /\ UNCHANGED <<status, hist, stale, drop, frames, discards, finPend, known, batch, app, fault>>
      /\ pc = "submit" /\ pc \in Late /\ pc \notin Early /\ Building
  BY DEF Submits, schedVars, streams, Late, Early, Building
<1>5. pc' \notin Early \cup Late /\ ~Building'
  BY <1>2 DEF Early, Late, Building
<1>6. /\ st.stage \in {"submitted", "resolved"}
      /\ st.stage = "submitted" => cur.kind = "decode" /\ cur.rows = cur.sched /\ cur.sched # {}
  BY <1>4 DEF Submits, IInv, Current
<1>7. /\ step'[cur.id].sched = cur.sched /\ step'[cur.id].rows = cur.rows
      /\ step'[cur.id].out = st.out /\ step'[cur.id].stage = st.stage
      /\ \A i \in ToSet(queue) : i \in Ids /\ i # cur.id /\ step'[i] = step[i]
  <2>1. \A i \in ToSet(queue) : i \in Ids /\ i # cur.id
    BY <1>1, QueueFacts DEF UsedIds
  <2> QED BY <1>2, <2>1
<1>8. SchedTypes'
  BY <1>1, <1>4 DEF Types, SchedTypes
<1>9. pending \in Seq(Entries)
  BY <1>1 DEF QueueTypes
(* What becomes of the pending steps. *)
<1>10. /\ pending' \in Seq(Entries) /\ Len(pending') <= 2
       /\ PendingIds' \subseteq PendingIds \cup {cur.id} /\ PendingIds \subseteq PendingIds'
       /\ Len(pending') = 2 => pending'[1].id # pending'[2].id
       /\ st.stage = "submitted" =>
            pending' # <<>> /\ pending'[Len(pending')].id = cur.id /\ cur.id \in PendingIds'
  <2>1. CASE pending' = pending /\ st.stage = "resolved"
    BY <1>1, <1>9, <2>1 DEF PendingIds
  <2>2. ASSUME NEW ok \in BOOLEAN, pending' = Append(pending, [id |-> cur.id, overlapOk |-> ok])
        PROVE  /\ pending' \in Seq(Entries) /\ Len(pending') <= 2
               /\ PendingIds' \subseteq PendingIds \cup {cur.id} /\ PendingIds \subseteq PendingIds'
               /\ Len(pending') = 2 => pending'[1].id # pending'[2].id
               /\ st.stage = "submitted" =>
                    pending' # <<>> /\ pending'[Len(pending')].id = cur.id /\ cur.id \in PendingIds'
    <3> DEFINE e == [id |-> cur.id, overlapOk |-> ok]
               p == Append(pending, e)
    <3>1. e \in Entries /\ e.id = cur.id
      BY <1>1 DEF Entries
    <3>2. pending' = p
      BY <2>2
    <3> HIDE DEF e
    <3>3. /\ p \in Seq(Entries) /\ Len(p) = Len(pending) + 1 /\ DOMAIN p = 1 .. Len(pending) + 1
          /\ p # <<>> /\ Len(pending) \in Nat /\ DOMAIN pending = 1 .. Len(pending)
          /\ \A i \in 1 .. Len(pending) : p[i] = pending[i]
          /\ p[Len(pending) + 1] = e
      BY <1>9, <3>1, Appended
    <3> HIDE DEF p
    <3>4. PendingIds' = {p[i].id : i \in DOMAIN p}
      BY <3>2 DEF PendingIds
    <3>5. \A i \in DOMAIN p : i \in DOMAIN pending \/ i = Len(pending) + 1
      BY <3>3
    <3>6. {p[i].id : i \in DOMAIN p} = PendingIds \cup {cur.id}
      BY <3>1, <3>3, <3>5 DEF PendingIds
    <3>7. Len(p) = 2 => p[1].id # p[2].id
      <4> SUFFICES ASSUME Len(p) = 2 PROVE p[1].id # p[2].id
        OBVIOUS
      <4>1. Len(pending) = 1 /\ p[1] = pending[1] /\ p[2] = e /\ 1 \in DOMAIN pending
        BY <3>3
      <4>2. pending[1].id \in PendingIds
        BY <4>1 DEF PendingIds
      <4>3. pending[1].id \in UsedIds
        BY <4>2 DEF UsedIds
      <4>4. pending[1].id # cur.id
        BY <1>1, <4>3
      <4> QED BY <3>1, <4>1, <4>4, Zenon
    <3>8. Len(p) <= 2
      BY <1>1, <3>3
    <3>9. p[Len(p)].id = cur.id
      BY <3>1, <3>3
    <3>10. PendingIds' = PendingIds \cup {cur.id}
      BY <3>4, <3>6
    <3>11. PendingIds' \subseteq PendingIds \cup {cur.id} /\ PendingIds \subseteq PendingIds' /\ cur.id \in PendingIds'
      BY <3>10
    <3> QED BY <3>2, <3>3, <3>7, <3>8, <3>9, <3>11, Zenon
  <2> QED BY <2>1, <2>2 DEF Submits
<1>11. QueueTypes'
  <2>1. NoStep \in Curs
    BY DEF NoStep, Curs, Kinds, NoCounts
  <2>2. Len(queue') <= 2
    <3>1. Len(queue') \in {1, 2}
      BY <1>1, <1>sizes
    <3>2. PICK k \in {1, 2} : k = Len(queue')
      BY <3>1, Zenon
    <3>3. k <= 2
      OBVIOUS
    <3> QED BY <3>2, <3>3, Zenon
  <2>3. pc' \in {"idle", "pop"} \cup Early \cup Late /\ cur' \in Curs
    BY <1>2, <2>1
  <2> QED BY <1>2, <1>3, <1>10, <2>2, <2>3 DEF QueueTypes
<1>12. StepData'
  <2> SUFFICES ASSUME NEW i \in Ids
               PROVE  /\ step'[i].rows \subseteq step'[i].sched
                      /\ \A r \in Reqs : Out(i, r)' # <<>> => r \in step'[i].rows
                      /\ step'[i].stage # "resolved" =>
                           step'[i].rows = step'[i].sched /\ step'[i].sched # {}
    BY DEF StepData
  <2>1. CASE i = cur.id
    <3>1. \A r \in Reqs : Out(i, r)' = st.out[r]
      BY <1>7, <2>1 DEF Out
    <3>2. \A r \in Reqs : st.out[r] # <<>> => r \in cur.rows
      BY DEF Submits
    <3> QED BY <1>1, <1>6, <1>7, <2>1, <3>1, <3>2
  <2>2. CASE i # cur.id
    <3>1. step'[i] = step[i]
      BY <1>2, <2>2
    <3>2. \A r \in Reqs : Out(i, r)' = Out(i, r)
      BY <3>1 DEF Out
    <3> QED BY <3>1, <3>2 DEF IInv, StepData
  <2> QED BY <2>1, <2>2
<1>13. Current'
  BY <1>1, <1>2, <1>5 DEF Current, QueueSize
<1>14. Order'
  <2>1. Len(queue') = 2 => queue'[1] # queue'[2]
    <3> SUFFICES ASSUME Len(queue') = 2 PROVE queue'[1] # queue'[2]
      OBVIOUS
    <3>1. Len(queue) = 1 /\ 1 \in DOMAIN queue
      BY <1>1, <1>sizes
    <3>2. queue'[1] # cur.id
      BY <1>2, <3>1
    <3>3. queue'[2] = cur.id
      BY <1>2, <3>1
    <3> QED BY <3>2, <3>3
  <2>2. \E a, b \in Ids : UsedIds' \subseteq {a, b}
    <3>1. UsedIds' \subseteq ToSet(queue) \cup {cur.id}
      <4>1. ToSet(completed) \subseteq ToSet(queue) /\ PendingIds \subseteq ToSet(queue)
        BY <1>1 DEF UsedIds
      <4> QED BY <1>2, <1>3, <1>10, <4>1 DEF UsedIds
    <3>2. /\ Len(queue) = 0 => ToSet(queue) = {}
          /\ Len(queue) = 1 => ToSet(queue) = {queue[1]} /\ queue[1] \in Ids
      BY <1>1, QueueFacts
    <3> QED BY <1>1, <3>1, <3>2
  <2>3. \A i \in DOMAIN queue' : Open(i)' => step'[queue'[i]].sched = batch' /\ queue'[i] \in PendingIds'
    <3> SUFFICES ASSUME NEW i \in DOMAIN queue', Open(i)'
                 PROVE  step'[queue'[i]].sched = batch' /\ queue'[i] \in PendingIds'
      OBVIOUS
    <3>1. CASE i \in DOMAIN queue
      <4>1. Open(i)
        BY <1>3, <3>1
      <4>2. step[queue[i]].sched = batch /\ queue[i] \in PendingIds
        BY <3>1, <4>1 DEF IInv, Order
      <4>3. queue'[i] = queue[i] /\ step'[queue[i]] = step[queue[i]]
        BY <1>2, <3>1
      <4> QED BY <1>4, <1>10, <4>2, <4>3
    <3>2. CASE i \notin DOMAIN queue
      <4>1. i = Len(queue) + 1 /\ i \in {1, 2}
        BY <1>1, <1>sizes, <3>2
      <4>2. st.stage = "submitted"
        BY <1>3, <4>1
      <4> QED BY <1>1, <1>2, <1>4, <1>7, <1>10, <4>1, <4>2
    <3> QED BY <3>1, <3>2
  <2>4. \A i \in DOMAIN pending' :
          step'[pending'[i].id].stage # "resolved" => pending'[i].id \in ToSet(queue')
    <3>1. \A i \in DOMAIN pending' : pending'[i].id \in PendingIds'
      BY DEF PendingIds
    <3> QED BY <1>1, <1>2, <1>10, <3>1
  <2>5. Open(Len(queue))' => pending' # <<>> /\ pending'[Len(pending')].id = queue'[Len(queue')]
    <3>1. \A k \in {1, 2} : k = Len(queue') =>
            (Open(k)' => pending' # <<>> /\ pending'[Len(pending')].id = queue'[k])
      BY <1>2, <1>3, <1>10
    <3>2. Len(queue') \in {1, 2}
      BY <1>1, <1>sizes
    <3>3. PICK k \in {1, 2} : k = Len(queue')
      BY <3>2
    <3>4. Open(k)' => pending' # <<>> /\ pending'[Len(pending')].id = queue'[k]
      BY <3>1, <3>3
    <3>5. Open(Len(queue))' = Open(k)'
      BY <3>3 DEF Open
    <3> QED BY <3>3, <3>4, <3>5
  <2>6. pc' \notin Late \cup {"apply"} /\ pc' \notin {"prune", "applyAgain"}
    BY <1>2 DEF Late
  <2> QED BY <1>10, <2>1, <2>2, <2>3, <2>4, <2>5, <2>6 DEF Order
(* The line. *)
<1>15. /\ Line' \in Seq(Ids) /\ Len(Line') <= 2
       /\ Len(Line') = 2 => Line'[1] # Line'[2]
       /\ ToSet(Line') \subseteq ToSet(Line) \cup {cur.id}
       /\ cur.id \in ToSet(Line') => cur.rows # {}
       /\ cur.rows # {} => Line' # <<>> /\ Line'[Len(Line')] = cur.id
  <2>1. ToSet(Line) \subseteq UsedIds /\ \A n \in DOMAIN Line : Line[n] \in ToSet(Line)
    BY <1>1, LineIs
  <2>2. CASE cur.rows = {}
    <3>1. Line' = Line
      BY <1>3, <2>2
    <3>2. cur.id \notin ToSet(Line)
      BY <1>1, <2>1
    <3>3. Line \in Seq(Ids) /\ Len(Line) <= 2 /\ Len(Line) # 2
      <4>1. PICK k \in {0, 1} : k = Len(Line)
        BY <1>1, Zenon
      <4>2. k <= 2 /\ k # 2
        OBVIOUS
      <4> QED BY <1>1, <4>1, <4>2, Zenon
    <3>4. ToSet(Line) \subseteq ToSet(Line) \cup {cur.id}
      OBVIOUS
    <3> HIDE DEF Line
    <3> QED BY <2>2, <3>1, <3>2, <3>3, <3>4, Zenon
  <2>3. CASE cur.rows # {}
    <3> DEFINE l == Append(Line, cur.id)
    <3>1. /\ l \in Seq(Ids) /\ Len(l) = Len(Line) + 1 /\ l # <<>>
          /\ \A i \in 1 .. Len(Line) : l[i] = Line[i]
          /\ l[Len(Line) + 1] = cur.id /\ ToSet(l) = ToSet(Line) \cup {cur.id}
      BY <1>1, Appended
    <3>2. Line' = l
      BY <1>3, <2>3
    <3> HIDE DEF l
    <3>3. Len(l) \in {1, 2} /\ (Len(l) = 2 => l[1] = Line[1] /\ l[2] = cur.id /\ 1 \in DOMAIN Line)
      <4>1. Len(Line) \in {0, 1} /\ Len(l) = Len(Line) + 1 /\ l[Len(Line) + 1] = cur.id
            /\ \A i \in 1 .. Len(Line) : l[i] = Line[i]
        BY <1>1, <3>1
      <4> QED BY <1>sizes, <4>1
    <3>4. Len(l) = 2 => l[1] # l[2]
      BY <1>1, <2>1, <3>3
    <3>5. l[Len(l)] = cur.id
      BY <3>1
    <3> QED BY <2>3, <3>1, <3>2, <3>3, <3>4, <3>5
  <2> QED BY <2>2, <2>3
<1>16. \A i \in ToSet(Line) : i \in ToSet(queue)
  BY <1>1, LineIs
<1>17. Lines'
  <2>1. \A i \in ToSet(completed') : step'[i].stage # "submitted"
    <3> SUFFICES ASSUME NEW i \in ToSet(completed') PROVE step'[i].stage # "submitted"
      OBVIOUS
    <3>1. CASE i = cur.id
      BY <1>3, <1>7, <3>1
    <3>2. CASE i # cur.id
      <4>1. i \in ToSet(completed) /\ i \in ToSet(queue)
        BY <1>1, <1>3, <3>2 DEF UsedIds
      <4> QED BY <1>7, <4>1 DEF IInv, Lines
    <3> QED BY <3>1, <3>2
  <2>2. \A i \in ToSet(Line') : step'[i].rows # {} /\ \A r \in step'[i].rows : Out(i, r)' # <<>>
    <3> SUFFICES ASSUME NEW i \in ToSet(Line')
                 PROVE  step'[i].rows # {} /\ \A r \in step'[i].rows : Out(i, r)' # <<>>
      OBVIOUS
    <3>1. CASE i = cur.id
      <4>1. \A r \in cur.rows : Out(i, r)' = st.out[r]
        BY <1>7, <3>1 DEF Out
      <4>2. \A r \in cur.rows : st.out[r] # <<>>
        BY <1>1 DEF Submits
      <4> QED BY <1>7, <1>15, <3>1, <4>1, <4>2
    <3>2. CASE i # cur.id
      <4>1. i \in ToSet(Line) /\ step'[i] = step[i]
        BY <1>7, <1>15, <1>16, <3>2
      <4>2. step[i].rows # {} /\ \A r \in step[i].rows : Out(i, r) # <<>>
        BY <4>1 DEF IInv, Lines
      <4> QED BY <4>1, <4>2 DEF Out
    <3> QED BY <3>1, <3>2
  <2>3. step'[queue'[Len(queue')]].rows # {} =>
          Line' # <<>> /\ Line'[Len(Line')] = queue'[Len(queue')]
    BY <1>2, <1>7, <1>15
  <2> QED BY <1>5, <1>15, <2>1, <2>2, <2>3 DEF Lines, Late
<1>18. Knowing'
  <2>1. finPend' \cup cur'.fin \subseteq {r \in Reqs : status'[r] = "done"}
    BY <1>1, <1>2, <1>4 DEF NoStep
  <2>2. \A r \in Reqs : status[r] \in {"partial", "running", "preempted"} => r \in known
    BY <1>4 DEF IInv, Knowing
  <2>3. \A r \in Reqs : status[r] \in {"new", "waiting"} => \A i \in Ids : r \notin step'[i].sched
    <3>1. \A r \in Reqs : status[r] \in {"new", "waiting"} => r \notin cur.sched
      BY <1>1
    <3> QED BY <1>2, <1>7, <3>1 DEF IInv, Knowing
  <2>4. \A i \in ToSet(Line') : step'[i].rows \subseteq known
    <3> SUFFICES ASSUME NEW i \in ToSet(Line') PROVE step'[i].rows \subseteq known
      OBVIOUS
    <3>1. CASE i = cur.id
      <4>1. \A r \in cur.rows : status[r] = "running" /\ r \in Reqs
        BY <1>1
      <4> QED BY <1>7, <2>2, <3>1, <4>1
    <3>2. CASE i # cur.id
      <4>1. i \in ToSet(Line) /\ step'[i] = step[i]
        BY <1>7, <1>15, <1>16, <3>2
      <4> QED BY <1>4, <4>1 DEF IInv, Knowing
    <3> QED BY <3>1, <3>2
  <2>5. \A r \in Reqs : status[r] \in {"new", "waiting"} => hist[r] = <<>> /\ app[r] = <<>>
    BY DEF IInv, Knowing
  <2> QED BY <1>2, <1>4, <2>1, <2>2, <2>3, <2>4, <2>5 DEF Knowing
<1>19. Resets'
  <2> SUFFICES ASSUME NEW r \in Reqs
               PROVE  /\ Discarded(r)' = 0
                      /\ stale'[r] > 0 => /\ stale'[r] = 1 /\ queue' # <<>>
                                          /\ r \in step'[queue'[1]].sched
                                          /\ Len(queue') = 2
    BY DEF Resets
  <2>1. Discarded(r)' = 0
    BY <1>1, <1>4, <1>5 DEF Discarded, NoCounts
  <2>2. stale[r] > 0 => stale[r] = 1 /\ queue # <<>> /\ r \in step[queue[1]].sched
    BY DEF IInv, Resets
  <2>3. queue # <<>> => /\ 1 \in DOMAIN queue /\ queue'[1] = queue[1] /\ Len(queue') = 2
                        /\ step'[queue[1]] = step[queue[1]]
    <3>1. queue # <<>> => Len(queue) = 1
      BY <1>1
    <3> QED BY <1>2, <1>sizes, <3>1
  <2> QED BY <1>2, <1>4, <2>1, <2>2, <2>3
<1>20. Withdrawn'
  <2> SUFFICES ASSUME NEW r \in Reqs, status[r] = "done", NEW i \in DOMAIN queue'
               PROVE  Out(queue[i], r)' = <<>>
    BY <1>4 DEF Withdrawn
  <2>1. r \notin cur.rows
    BY <1>1
  <2>2. CASE i \in DOMAIN queue
    <3>1. Out(queue[i], r) = <<>>
      BY <1>1, <1>4, <2>2 DEF IInv, Withdrawn
    <3> QED BY <1>2, <2>2, <3>1 DEF Out
  <2>3. CASE i \notin DOMAIN queue
    <3>1. i = Len(queue) + 1
      BY <1>1, <1>2, <2>3
    <3> QED BY <1>2, <1>7, <2>1, <3>1 DEF Out, Submits
  <2> QED BY <2>2, <2>3
<1>21. Delivery'
  BY <1>4 DEF IInv, Delivery, Continues
<1>22. Flow'
  <2> SUFFICES ASSUME NEW r \in Reqs, Live(r) PROVE FlowOf(r)'
    BY <1>4 DEF Flow, Live
  <2>1. /\ Total(r)' = Total(r) + Len(st.out[r]) /\ Total(r) \in Nat /\ Len(st.out[r]) \in Nat
        /\ (Total(r) > 0 \/ r \in cur.rows => Total(r)' > 0) => FlowOf(r)'
    BY SubmitFlow
  <2>2. r \in cur.rows => Len(st.out[r]) > 0
    <3>1. r \in cur.rows => st.out[r] # <<>> /\ st.out[r] \in Seq(Nat)
      BY DEF Submits
    <3> QED BY <3>1
  <2> QED BY <2>1, <2>2
<1>23. Frames'
  <2> SUFFICES ASSUME NEW r \in Reqs
               PROVE  frames'[r] = Carries(r, 1)' + Carries(r, 2)' + IF r \in cur'.rows THEN 1 ELSE 0
    BY DEF Frames
  <2>0. frames'[r] = frames[r] /\ r \notin cur'.rows
    BY <1>2, <1>4 DEF NoStep
  <2>1. frames[r] = Carries(r, 1) + Carries(r, 2) + IF r \in cur.rows THEN 1 ELSE 0
    BY DEF IInv, Frames
  <2>2. \A i \in DOMAIN queue : step'[queue'[i]] = step[queue[i]] /\ i \in DOMAIN queue'
    BY <1>1, <1>2, <1>sizes
  <2>3. CASE Len(queue) = 0
    <3>1. Carries(r, 1) = 0 /\ Carries(r, 2) = 0 /\ Carries(r, 2)' = 0
      BY <1>sizes, <2>3 DEF Carries
    <3>2. Carries(r, 1)' = IF r \in cur.rows THEN 1 ELSE 0
      BY <1>2, <1>7, <1>sizes, <2>3 DEF Carries
    <3> QED BY <2>0, <2>1, <3>1, <3>2
  <2>4. CASE Len(queue) = 1
    <3>1. Carries(r, 2) = 0 /\ Carries(r, 1)' = Carries(r, 1)
      BY <1>sizes, <2>2, <2>4 DEF Carries
    <3>2. Carries(r, 2)' = IF r \in cur.rows THEN 1 ELSE 0
      BY <1>2, <1>7, <1>sizes, <2>4 DEF Carries
    <3>3. Carries(r, 1) \in {0, 1}
      BY DEF Carries
    <3> QED BY <2>0, <2>1, <3>1, <3>2, <3>3
  <2> QED BY <1>1, <2>3, <2>4
<1>24. NoFault'
  BY <1>4 DEF IInv, NoFault
<1> QED BY <1>2, <1>8, <1>11, <1>12, <1>13, <1>14, <1>17, <1>18, <1>19, <1>20, <1>21, <1>22, <1>23, <1>24

(* What is left to each kind of submission. *)
LEMMA Submitted ==
  ASSUME IInv, NEW st, Submits(st), RunnerTypes', Resident',
         pending' # <<>> /\ pending'[Len(pending')].overlapOk =>
           ~chain'.verified /\ ~chain'.hostAnswered
  PROVE  IInv'
<1>1. /\ SchedTypes' /\ QueueTypes' /\ StepData' /\ Current' /\ Order' /\ Lines'
      /\ Knowing' /\ Resets' /\ Withdrawn' /\ Delivery' /\ Flow' /\ Frames' /\ NoFault'
      /\ pc' \in {"idle", "pop"}
  BY SubmitKeeps
<1>2. Types'
  BY <1>1 DEF Types
<1>3. Overlap'
  BY <1>1 DEF Overlap, Late
<1> QED BY <1>1, <1>2, <1>3 DEF IInv

(* An empty step changes nothing but the queue. *)
LEMMA SubmitNothingStep ==
  ASSUME IInv, SubmitNothing
  PROVE  IInv'
<1>1. PICK st : st = [kind |-> "none", out |-> NoOutput, stage |-> "resolved"]
  OBVIOUS
<1>2. /\ pc = "submit" /\ cur.kind = "none" /\ Enqueue(step, st)
      /\ UNCHANGED <<schedVars, runnerVars, disruptions, fault>>
  BY <1>1 DEF SubmitNothing
<1>3. Building /\ pc \in Late
  BY <1>2 DEF Building, Late
<1>4. cur.sched = {} /\ cur.rows = {} /\ batch = cur.sched
  BY <1>2, <1>3 DEF IInv, Current, Overlap
<1>5. st.kind = "none" /\ st.stage = "resolved" /\ st.out = NoOutput
  BY <1>1
<1>6. st.out \in [Reqs -> Seq(Nat)] /\ \A r \in Reqs : st.out[r] = <<>>
  BY <1>5 DEF NoOutput
<1>7. UNCHANGED <<known, batch, slotted, layoutChanged, app, proposed, accepted, chain, pending,
                  completed, resident>>
  BY <1>2 DEF runnerVars, batchVars, specVars, controlVars
<1>8. Submits(st)
  BY <1>2, <1>4, <1>5, <1>6, <1>7 DEF Submits, Kinds
<1>9. RunnerTypes'
  BY <1>7 DEF IInv, Types, RunnerTypes
<1>10. Resident'
  BY <1>4, <1>7 DEF Resident
<1>11. pending' # <<>> /\ pending'[Len(pending')].overlapOk => ~chain'.verified /\ ~chain'.hostAnswered
  BY <1>7 DEF IInv, Overlap
<1> QED BY <1>8, <1>9, <1>10, <1>11, Submitted

(* A prefill computes the next token of every row that ends its prompt, and
   invalidates the chain. *)
LEMMA SubmitPrefillStep ==
  ASSUME IInv, SubmitPrefill
  PROVE  IInv'
<1> DEFINE out == [r \in Reqs |-> IF r \in cur.rows THEN <<FirstToken(r)>> ELSE <<>>]
<1>1. PICK st : st = [kind |-> "prefill", stage |-> "resolved", out |-> out]
  OBVIOUS
<1>2. pc = "submit" /\ cur.kind = "prefill" /\ Enqueue(step, st)
  BY <1>1 DEF SubmitPrefill
<1>3. /\ completed' = IF cur.rows = {} THEN completed ELSE Append(completed, cur.id)
      /\ chain' = [chain EXCEPT !.valid = FALSE] /\ resident' = NoCounts
      /\ accepted' = accepted \ cur.sched /\ slotted' = slotted \cup cur.sched
      /\ UNCHANGED <<schedVars, known, batch, layoutChanged, app, proposed, pending, fault>>
  BY DEF SubmitPrefill
<1>4. st.kind = "prefill" /\ st.stage = "resolved" /\ st.out = out
  BY <1>1
<1>5. /\ cur.rows \subseteq cur.sched /\ cur.sched \subseteq Reqs
  BY <1>2, SubmitFacts
<1>6. \A r \in cur.rows : FirstToken(r) = Total(r) + 1 /\ Total(r) \in Nat
  BY <1>2, <1>5, InputsRight
<1>7. /\ out \in [Reqs -> Seq(Nat)]
      /\ \A r \in Reqs : out[r] # <<>> <=> r \in cur.rows
      /\ \A r \in cur.rows : Continues(out[r], Total(r))
  <2>1. \A r \in cur.rows : FirstToken(r) \in Nat
    BY <1>6
  <2>2. out \in [Reqs -> Seq(Nat)]
    BY <2>1
  <2>3. \A r \in Reqs : out[r] # <<>> <=> r \in cur.rows
    OBVIOUS
  <2>4. ASSUME NEW r \in cur.rows PROVE Continues(out[r], Total(r))
    <3>1. out[r] = <<FirstToken(r)>>
      BY <1>5
    <3>2. FirstToken(r) = Total(r) + 1
      BY <1>6
    <3> HIDE DEF out
    <3> QED BY <3>1, <3>2 DEF Continues
  <2> QED BY <2>2, <2>3, <2>4
<1> HIDE DEF out
<1>8. pending = <<>>
  BY <1>2 DEF IInv, Overlap, Late, SteadyFacts
<1>9. Submits(st)
  BY <1>2, <1>3, <1>4, <1>7, <1>8 DEF Submits, Kinds
<1>10. RunnerTypes'
  BY <1>3, <1>5 DEF IInv, Types, RunnerTypes, Chains, NoCounts
<1>11. Resident'
  <2>1. chain \in Chains
    BY DEF IInv, Types, RunnerTypes
  <2>2. ~chain'.valid
    BY <1>3, <2>1 DEF Chains
  <2> QED BY <2>2 DEF Resident
<1>12. pending' = <<>>
  BY <1>3, <1>8
<1> QED BY <1>9, <1>10, <1>11, <1>12, Submitted

(* A forward that starts after t tokens continues them. *)
LEMMA TokensContinue ==
  ASSUME NEW t \in Nat, NEW n \in {1, 2}
  PROVE  /\ Tokens(t + 1, n) \in Seq(Nat) /\ Tokens(t + 1, n) # <<>>
         /\ Len(Tokens(t + 1, n)) = n /\ Continues(Tokens(t + 1, n), t)
<1>1. n \in Nat /\ \A i \in 1 .. n : t + 1 + i - 1 = t + i /\ t + i \in Nat /\ t + 1 # 0
  OBVIOUS
<1> DEFINE s == [i \in 1 .. n |-> t + i]
<1>2. Tokens(t + 1, n) = s
  BY <1>1 DEF Tokens
<1>3. s \in Seq(Nat) /\ Len(s) = n /\ DOMAIN s = 1 .. n /\ \A i \in 1 .. n : s[i] = t + i
  BY <1>1
<1> HIDE DEF s
<1>4. s # <<>>
  BY <1>3
<1> QED BY <1>2, <1>3, <1>4 DEF Continues

(* A decode commits one token of every row, or up to two of a drafted one,
   and leaves the last one resident if the device sampled it. *)
LEMMA SubmitDecodeStep ==
  ASSUME IInv, SubmitDecode
  PROVE  IInv'
<1>1. PICK width \in [Drafted -> 1 .. 2], ha \in {FALSE, Speculates /\ ~Verifies} :
        /\ Enqueue(step, [kind |-> IF Verifies THEN "verify" ELSE "decode", stage |-> "submitted",
                          out |-> [r \in Reqs |->
                                     IF r \in cur.sched
                                     THEN Tokens(FirstToken(r),
                                                 IF Verifies /\ r \in Drafted THEN width[r] ELSE 1)
                                     ELSE <<>>]])
        /\ resident' = ResidentAfter(ha)
        /\ chain' = [valid |-> TRUE, device |-> DeviceSampling, verified |-> Verifies,
                     hostAnswered |-> ha]
        /\ pending' = Append(pending, [id |-> cur.id, overlapOk |-> ~Verifies /\ OverlapOk(ha)])
  BY DEF SubmitDecode
<1> DEFINE n(r) == IF Verifies /\ r \in Drafted THEN width[r] ELSE 1
           out == [r \in Reqs |-> IF r \in cur.sched THEN Tokens(FirstToken(r), n(r)) ELSE <<>>]
<1>2. PICK st : st = [kind |-> IF Verifies THEN "verify" ELSE "decode", stage |-> "submitted",
                      out |-> out]
  OBVIOUS
<1>3. Enqueue(step, st)
  BY <1>1, <1>2
<1>4. /\ pc = "submit" /\ cur.kind = "decode" /\ layoutChanged' = FALSE
      /\ proposed' = [r \in Reqs |-> IF r \in cur.sched THEN 0 ELSE proposed[r]]
      /\ accepted' = IF Verifies THEN accepted ELSE accepted \ cur.sched
      /\ UNCHANGED <<schedVars, known, batch, slotted, app, completed, fault>>
  BY DEF SubmitDecode
<1>5. st.kind \in Kinds /\ st.stage = "submitted" /\ st.out = out
  BY <1>2 DEF Kinds
<1>6. /\ cur.sched \subseteq Reqs /\ cur.rows = cur.sched /\ batch = cur.sched
      /\ cur.id \in Ids /\ Types /\ \A r \in cur.sched : Live(r)
  <2>1. Building
    BY <1>4 DEF Building, Late
  <2>2. cur.rows = cur.sched
    BY <1>4, <2>1 DEF IInv, Current
  <2> QED BY <1>4, <2>2, SubmitFacts
<1>7. \A r \in cur.sched : FirstToken(r) = Total(r) + 1 /\ Total(r) \in Nat
  BY <1>4, InputsRight
<1>8. \A r \in cur.sched : n(r) \in {1, 2}
  <2>1. 1 .. 2 = {1, 2}
    OBVIOUS
  <2> QED BY <2>1
<1>9. \A r \in cur.sched : /\ out[r] \in Seq(Nat) /\ out[r] # <<>> /\ Len(out[r]) = n(r)
                           /\ Continues(out[r], Total(r))
  <2> SUFFICES ASSUME NEW r \in cur.sched
               PROVE  /\ out[r] \in Seq(Nat) /\ out[r] # <<>> /\ Len(out[r]) = n(r)
                      /\ Continues(out[r], Total(r))
    OBVIOUS
  <2>1. n(r) \in {1, 2} /\ FirstToken(r) = Total(r) + 1 /\ Total(r) \in Nat
    BY <1>7, <1>8
  <2>2. out[r] = Tokens(FirstToken(r), n(r))
    BY <1>6
  <2> HIDE DEF n, out
  <2>3. out[r] = Tokens(Total(r) + 1, n(r))
    BY <2>1, <2>2
  <2>4. /\ Tokens(Total(r) + 1, n(r)) \in Seq(Nat) /\ Tokens(Total(r) + 1, n(r)) # <<>>
        /\ Len(Tokens(Total(r) + 1, n(r))) = n(r) /\ Continues(Tokens(Total(r) + 1, n(r)), Total(r))
    BY <2>1, TokensContinue
  <2> QED BY <2>3, <2>4
<1>10. out \in [Reqs -> Seq(Nat)] /\ \A r \in Reqs : out[r] # <<>> <=> r \in cur.sched
  <2>1. \A r \in Reqs : r \notin cur.sched => out[r] = <<>>
    OBVIOUS
  <2>2. out = [r \in Reqs |-> out[r]]
    OBVIOUS
  <2> HIDE DEF out
  <2>3. \A r \in Reqs : out[r] \in Seq(Nat)
    <3>1. <<>> \in Seq(Nat)
      OBVIOUS
    <3>2. \A r \in cur.sched : out[r] \in Seq(Nat)
      BY <1>9
    <3> QED BY <2>1, <3>1, <3>2, Zenon
  <2>4. \A r \in Reqs : out[r] # <<>> <=> r \in cur.sched
    <3>1. \A r \in cur.sched : out[r] # <<>>
      BY <1>9
    <3> QED BY <2>1, <3>1, Zenon
  <2> QED BY <2>2, <2>3, <2>4
<1> HIDE DEF out
<1>11. Submits(st)
  <2>1. PICK ok \in BOOLEAN : ok = (~Verifies /\ OverlapOk(ha))
    OBVIOUS
  <2>2. pending' = Append(pending, [id |-> cur.id, overlapOk |-> ok])
    BY <1>1, <2>1
  <2>3. \E k \in BOOLEAN : pending' = Append(pending, [id |-> cur.id, overlapOk |-> k])
    BY <2>2
  <2> QED BY <1>3, <1>4, <1>5, <1>6, <1>9, <1>10, <2>3 DEF Submits
<1>12. chain'.device = DeviceSampling /\ chain'.verified = Verifies /\ chain'.hostAnswered = ha
  BY <1>1
<1>13. RunnerTypes'
  <2>1. chain' \in Chains
    <3>1. ha \in BOOLEAN
      OBVIOUS
    <3>2. DeviceSampling \in BOOLEAN /\ Verifies \in BOOLEAN
      BY DEF DeviceSampling, Verifies
    <3> QED BY <1>1, <3>1, <3>2 DEF Chains
  <2>2. resident' \in [Reqs -> Nat]
    <3>1. /\ \A r \in cur.sched : FirstToken(r) \in Nat
          /\ \A r \in Reqs : Len(app[r]) \in Nat /\ resident[r] \in Nat
      BY <1>6, <1>7, Amounts DEF Types, RunnerTypes
    <3> QED BY <1>1, <3>1 DEF ResidentAfter
  <2>3. proposed' \in [Reqs -> Nat] /\ accepted' \subseteq Reqs /\ layoutChanged' \in BOOLEAN
    BY <1>4, <1>6 DEF Types, RunnerTypes
  <2>4. /\ known' \subseteq Reqs /\ batch' \subseteq Reqs /\ slotted' \subseteq Reqs
        /\ app' \in [Reqs -> Seq(Nat)]
    BY <1>4, <1>6 DEF Types, RunnerTypes
  <2> QED BY <2>1, <2>2, <2>3, <2>4 DEF RunnerTypes
<1>14. Resident'
  <2> SUFFICES ASSUME chain'.device, ~chain'.verified, ~chain'.hostAnswered,
                      NEW r \in batch'
               PROVE  resident'[r] = Total(r)'
    BY DEF Resident
  <2>1. DeviceSampling /\ ~Verifies /\ ~ha
    BY <1>12
  <2>2. r \in cur.sched /\ r \in Reqs /\ Live(r) /\ n(r) = 1
    BY <1>4, <1>6, <2>1
  <2>3. resident'[r] = FirstToken(r)
    BY <1>1, <2>1, <2>2 DEF ResidentAfter
  <2>4. Total(r)' = Total(r) + Len(st.out[r])
    BY <1>11, <2>2, SubmitFlow
  <2>5. Len(st.out[r]) = 1
    BY <1>5, <1>9, <2>2
  <2> QED BY <1>7, <2>2, <2>3, <2>4, <2>5
<1>15. pending' # <<>> /\ pending'[Len(pending')].overlapOk => ~chain'.verified /\ ~chain'.hostAnswered
  <2> DEFINE e == [id |-> cur.id, overlapOk |-> ~Verifies /\ OverlapOk(ha)]
             p == Append(pending, e)
  <2>1. e.overlapOk = (~Verifies /\ OverlapOk(ha))
    OBVIOUS
  <2>2. pending' = p
    BY <1>1
  <2>3. e \in Entries /\ pending \in Seq(Entries)
    <3>1. (~Verifies /\ OverlapOk(ha)) \in BOOLEAN
      OBVIOUS
    <3> QED BY <1>6 DEF Entries, Types, QueueTypes
  <2> HIDE DEF e
  <2>4. Len(p) = Len(pending) + 1 /\ p[Len(pending) + 1] = e
    BY <2>3, Appended
  <2> HIDE DEF p
  <2>5. pending'[Len(pending')] = e
    BY <2>2, <2>4
  <2>6. OverlapOk(ha) => ~ha
    BY DEF OverlapOk
  <2> QED BY <1>12, <2>1, <2>5, <2>6
<1> QED BY <1>11, <1>13, <1>14, <1>15, Submitted

-----------------------------------------------------------------------------
(* Taking the oldest result. *)

(* The smaller of two numbers. *)
LEMMA MinOfTwo ==
  ASSUME NEW a \in Nat, NEW b \in Nat
  PROVE  Min({a, b}) \in Nat /\ Min({a, b}) <= a /\ Min({a, b}) <= b /\ Min({a, b}) \in {a, b}
<1>1. \E x \in {a, b} : \A y \in {a, b} : x <= y
  <2>1. CASE a <= b
    BY <2>1
  <2>2. CASE ~(a <= b)
    BY <2>2
  <2> QED BY <2>1, <2>2
<1>2. PICK m : m = Min({a, b})
  OBVIOUS
<1>3. m \in {a, b} /\ \A y \in {a, b} : m <= y
  BY <1>1, <1>2 DEF Min
<1> QED BY <1>2, <1>3

(* What the scheduler takes continues the request's history and no more than
   the request may have; a request that can go on gets the whole output. *)
LEMMA DeliveredIs ==
  ASSUME IInv, queue # <<>>, NEW r \in Reqs, NEW g, g = Delivered(step[queue[1]], r)
  PROVE  /\ g \in Seq(Nat) /\ Len(g) \in Nat
         /\ Continues(g, Len(hist[r])) /\ Len(hist[r]) + Len(g) <= MaxTokens
         /\ g # <<>> => Live(r) /\ Out(queue[1], r) # <<>>
         /\ Live(r) /\ Dropped(r) => g = <<>>
         /\ Live(r) /\ ~Dropped(r) /\ Len(hist[r]) + Len(g) # MaxTokens => g = Out(queue[1], r)
<1> DEFINE out == Out(queue[1], r)
<1>1. /\ Types /\ 1 \in DOMAIN queue /\ queue[1] \in Ids /\ MaxTokens \in Nat
      /\ Len(hist[r]) \in Nat /\ Len(hist[r]) <= MaxTokens
  <2>1. Types
    BY DEF IInv
  <2>2. 1 \in DOMAIN queue /\ queue[1] \in Ids
    BY <2>1, QueueFacts DEF Types
  <2>3. Len(hist[r]) \in Nat
    BY <2>1, Amounts
  <2> QED BY <2>1, <2>2, <2>3, BoundsAssumption DEF IInv, Delivery
<1>2. out \in Seq(Nat) /\ Len(out) \in Nat
  <2>1. out \in Seq(Nat)
    BY <1>1, Amounts
  <2> QED BY <2>1
<1>3. CASE ~Live(r) \/ Dropped(r)
  <2>1. g = <<>>
    BY <1>3 DEF Delivered, Dropped
  <2>2. g \in Seq(Nat) /\ Len(g) = 0 /\ DOMAIN g = {}
    BY <2>1
  <2> QED BY <1>1, <1>3, <2>1, <2>2 DEF Continues
<1>4. CASE Live(r) /\ ~Dropped(r)
  <2> DEFINE room == MaxTokens - Len(hist[r])
             m == Min({Len(out), room})
  <2>1. Len(hist[r]) < MaxTokens /\ Continues(out, Len(hist[r]))
    BY <1>1, <1>4 DEF IInv, Flow, FlowOf
  <2>2. room \in Nat /\ Len(hist[r]) + room = MaxTokens
    BY <1>1, <2>1
  <2>3. g = SubSeq(out, 1, m)
    BY <1>4 DEF Delivered, Dropped, Out
  <2> HIDE DEF room
  <2>4. m \in Nat /\ m <= Len(out) /\ m <= room /\ m \in {Len(out), room}
    BY <1>2, <2>2, MinOfTwo
  <2> HIDE DEF m, out
  <2>5. /\ g \in Seq(Nat) /\ Len(g) = m /\ DOMAIN g = 1 .. m
        /\ \A k \in 1 .. m : g[k] = out[k] /\ k \in DOMAIN out
    BY <1>2, <2>3, <2>4
  <2>6. m = Len(out) => g = out
    BY <1>2, <2>3
  <2>7. Continues(g, Len(hist[r]))
    BY <2>1, <2>5 DEF Continues
  <2>8. Len(hist[r]) + Len(g) <= MaxTokens
    BY <1>1, <2>2, <2>4, <2>5
  <2>9. Len(hist[r]) + Len(g) # MaxTokens => g = out
    BY <2>2, <2>4, <2>5, <2>6
  <2>10. g # <<>> => out # <<>>
    BY <1>2, <2>4, <2>5
  <2> QED BY <1>4, <2>4, <2>5, <2>7, <2>8, <2>9, <2>10 DEF out
<1> QED BY <1>3, <1>4

(* The same of its first token alone. *)
LEMMA HeadDelivered ==
  ASSUME NEW g \in Seq(Nat), g # <<>>, NEW a \in Nat, Continues(g, a), a + Len(g) <= MaxTokens
  PROVE  /\ <<Head(g)>> \in Seq(Nat) /\ Continues(<<Head(g)>>, a)
         /\ a + Len(<<Head(g)>>) <= MaxTokens
<1>1. Len(g) \in Nat /\ Len(g) >= 1 /\ 1 \in DOMAIN g /\ Head(g) = g[1] /\ g[1] \in Nat
  OBVIOUS
<1>2. g[1] = a + 1
  BY <1>1 DEF Continues
<1> DEFINE h == <<Head(g)>>
<1>3. h \in Seq(Nat) /\ Len(h) = 1 /\ DOMAIN h = {1} /\ h[1] = g[1]
  BY <1>1
<1> HIDE DEF h
<1>4. Continues(h, a)
  BY <1>2, <1>3 DEF Continues
<1>5. a + Len(h) <= MaxTokens
  BY <1>1, <1>3, BoundsAssumption
<1> QED BY <1>3, <1>4, <1>5 DEF h

(* The oldest step leaves the queue; what the runner has still to apply is as
   it was. *)
LEMMA TakeQueue ==
  ASSUME IInv, pc = "pop", queue # <<>>, step[queue[1]].stage = "resolved",
         queue' = Tail(queue), UNCHANGED <<pending, completed>>,
         step' = Kept(step, PendingIds \cup ToSet(completed) \cup ToSet(Tail(queue)))
  PROVE  /\ queue' \in Seq(Ids) /\ Len(queue') \in {0, 1} /\ Len(queue) \in {1, 2}
         /\ 1 \in DOMAIN queue /\ 2 \notin DOMAIN queue'
         /\ Len(queue) = 1 => DOMAIN queue' = {} /\ Len(queue') = 0 /\ 2 \notin DOMAIN queue
         /\ Len(queue) = 2 => DOMAIN queue' = {1} /\ Len(queue') = 1 /\ 2 \in DOMAIN queue
                              /\ queue'[1] = queue[2]
         /\ step' \in [Ids -> Steps]
         /\ \A i \in Ids : \/ step'[i] = step[i]
                           \/ step'[i] = FreeStep /\ i \notin PendingIds \cup ToSet(queue') \cup ToSet(Line)
         /\ \A i \in PendingIds \cup ToSet(queue') \cup ToSet(Line) : i \in Ids /\ step'[i] = step[i]
         /\ PendingIds' = PendingIds /\ ToSet(queue') \subseteq ToSet(queue)
         /\ ToSet(queue) \subseteq ToSet(queue') \cup {queue[1]}
         /\ Line' = Line /\ ~Open(1) /\ ~Unread(1)
         /\ Open(1)' = Open(2) /\ Unread(1)' = Unread(2) /\ ~Open(2)' /\ ~Unread(2)' /\ ~Open(0)'
<1>1. Types /\ QueueTypes /\ queue \in Seq(Ids) /\ Len(queue) <= 2 /\ completed \in Seq(Ids)
      /\ step \in [Ids -> Steps]
  BY DEF IInv, Types, QueueTypes
<1>2. /\ Len(queue) \in {1, 2} /\ 1 \in DOMAIN queue /\ queue[1] \in Ids
      /\ 2 \in DOMAIN queue <=> Len(queue) = 2
      /\ Len(queue) = 1 => ToSet(queue) = {queue[1]}
      /\ Len(queue) = 2 => ToSet(queue) = {queue[1], queue[2]}
  BY <1>1, QueueFacts
<1> DEFINE q == Tail(queue)
<1>3. /\ q \in Seq(Ids) /\ Len(q) = Len(queue) - 1 /\ (Len(queue) = 2 => q[1] = queue[2])
      /\ ToSet(q) \subseteq ToSet(queue)
  BY <1>1, ShortTail
<1>4. queue' = q
  OBVIOUS
<1> HIDE DEF q
<1>5. /\ Len(queue) = 1 => Len(q) = 0 /\ DOMAIN q = {} /\ 1 \notin DOMAIN q /\ 2 \notin DOMAIN q
      /\ Len(queue) = 2 => Len(q) = 1 /\ DOMAIN q = {1} /\ 1 \in DOMAIN q /\ 2 \notin DOMAIN q
                           /\ ToSet(q) = {q[1]}
  <2>1. CASE Len(queue) = 1
    <3>1. Len(q) = 0 /\ Len(q) <= 2
      BY <1>3, <2>1
    <3>2. DOMAIN q = {}
      BY <1>3, <3>1, ShortSeq
    <3> QED BY <2>1, <3>1, <3>2
  <2>2. CASE Len(queue) = 2
    <3>1. Len(q) = 1 /\ Len(q) <= 2
      BY <1>3, <2>2
    <3>2. DOMAIN q = {1} /\ ToSet(q) = {q[1]}
      BY <1>3, <3>1, ShortSeq
    <3> QED BY <2>2, <3>1, <3>2
  <2> QED BY <1>2, <2>1, <2>2
<1>6. PendingIds \subseteq Ids /\ ToSet(queue) \subseteq Ids /\ ToSet(Line) \subseteq Ids
      /\ ToSet(completed) \subseteq Ids
  <2>1. UsedIds \subseteq Ids /\ ToSet(Line) \subseteq Ids
    BY <1>1, UsedAreIds, LineIs
  <2> QED BY <2>1 DEF UsedIds
<1>7. FreeStep \in Steps
  BY DEF FreeStep, Steps, Kinds, Stages, NoOutput
<1> DEFINE used == PendingIds \cup ToSet(completed) \cup ToSet(q)
<1>8. step' = [i \in Ids |-> IF i \in used THEN step[i] ELSE FreeStep]
  BY DEF Kept, q
<1> HIDE DEF used
<1>9. step' \in [Ids -> Steps]
  BY <1>1, <1>7, <1>8
<1>10. ~Open(1) /\ ~Unread(1) /\ ~Open(2)' /\ ~Unread(2)' /\ ~Open(0)'
  BY <1>2, <1>4, <1>5 DEF Open, Unread
<1>11. Len(queue) = 2 => queue'[1] = queue[2] /\ queue[2] \in ToSet(q) /\ queue[2] \in Ids
                         /\ step'[queue[2]] = step[queue[2]]
  <2>1. Len(queue) = 2 => q[1] = queue[2] /\ q[1] \in ToSet(q)
    BY <1>3, <1>5
  <2>2. ToSet(q) \subseteq used
    BY DEF used
  <2> QED BY <1>3, <1>4, <1>6, <1>8, <2>1, <2>2
<1>12. Open(1)' = Open(2) /\ Unread(1)' = Unread(2)
  BY <1>2, <1>4, <1>5, <1>11 DEF Open, Unread
<1>13. Line' = Line
  <2>1. Line = IF Unread(2) THEN Append(completed, queue[2]) ELSE completed
    BY <1>10 DEF Line, Joined
  <2>2. Line' = IF Unread(2) THEN Append(completed, queue'[1]) ELSE completed
    BY <1>10, <1>12 DEF Line, Joined
  <2>3. Unread(2) => Len(queue) = 2
    BY <1>2 DEF Unread
  <2> QED BY <1>11, <2>1, <2>2, <2>3
<1>14. ToSet(Line) \subseteq used
  <2>1. ToSet(Line) = ToSet(completed) \cup {queue[i] : i \in {k \in DOMAIN queue : Unread(k)}}
    BY <1>1, LineIs
  <2>2. \A k \in DOMAIN queue : Unread(k) => k = 2 /\ Len(queue) = 2
    <3>1. \A k \in DOMAIN queue : k \in {1, 2}
      BY <1>1, QueueFacts
    <3> QED BY <1>2, <1>10, <3>1
  <2> QED BY <1>11, <2>1, <2>2 DEF used
<1>15. used = PendingIds \cup ToSet(queue') \cup ToSet(Line)
  <2>1. ToSet(completed) \subseteq ToSet(Line)
    BY <1>1, LineIs
  <2> QED BY <1>4, <1>14, <2>1 DEF used
<1>16. used \subseteq Ids
  BY <1>3, <1>6 DEF used
<1>17. /\ \A i \in Ids : step'[i] = step[i] \/ (step'[i] = FreeStep /\ i \notin used)
       /\ \A i \in used : i \in Ids /\ step'[i] = step[i]
  BY <1>8, <1>16
<1>18. PendingIds' = PendingIds
  BY DEF PendingIds
<1>19. ToSet(queue) \subseteq ToSet(queue') \cup {queue[1]}
  BY <1>2, <1>4, <1>11
<1>20. Len(queue') \in {0, 1} /\ queue' \in Seq(Ids) /\ ToSet(queue') \subseteq ToSet(queue)
       /\ 2 \notin DOMAIN queue'
  BY <1>2, <1>3, <1>4, <1>5
<1> QED BY <1>2, <1>4, <1>5, <1>9, <1>10, <1>11, <1>12, <1>13, <1>15, <1>17, <1>18, <1>19, <1>20

(* What taking the oldest result leaves of a request: the tokens it will get
   are the same, some of them now delivered. *)
Takes ==
  /\ \A r \in Reqs : hist'[r] \in Seq(Nat) /\ Continues(hist'[r], 0) /\ Len(hist'[r]) <= MaxTokens
  /\ \A r \in Reqs : status'[r] = status[r] \/ (status'[r] = "done" /\ Live(r))
  /\ \A r \in Reqs : r \in finPend' <=> r \in finPend \/ (status'[r] = "done" /\ Live(r))
  /\ \A r \in Reqs : r \notin step[queue[1]].sched \/ ~Live(r) => hist'[r] = hist[r]
  /\ \A r \in Reqs : Len(hist[r]) <= Len(hist'[r])
  /\ \A r \in Reqs : status'[r] = status[r] /\ Live(r) =>
       Len(hist'[r]) = Len(hist[r]) + Coming(r, 1) /\ Len(hist'[r]) < MaxTokens
  /\ status' \in [Reqs -> Statuses] /\ hist' \in [Reqs -> Seq(Nat)]

(* update_from_output does that: what it takes of a result is a prefix of it,
   and all of it unless the request ends. *)
LEMMA TakesTokens ==
  ASSUME IInv, UpdateFromOutput
  PROVE  Takes
<1> DEFINE s   == step[Head(queue)]
           got == [r \in Reqs |-> Delivered(s, r)]
           may == {r \in Reqs : got[r] # <<>>}
<1>1. PICK atFirst \in SUBSET may, atLast \in SUBSET may :
        LET upTo == [r \in Reqs |-> IF r \in atFirst THEN <<Head(got[r])>> ELSE got[r]]
            ends == {r \in may : \/ r \in atFirst \cup atLast
                                 \/ Len(hist[r]) + Len(got[r]) = MaxTokens}
        IN  /\ hist' = [r \in Reqs |-> hist[r] \o upTo[r]]
            /\ status' = [r \in Reqs |-> IF r \in ends THEN "done" ELSE status[r]]
            /\ finPend' = finPend \cup ends
  BY DEF UpdateFromOutput
<1> DEFINE upTo == [r \in Reqs |-> IF r \in atFirst THEN <<Head(got[r])>> ELSE got[r]]
           ends == {r \in may : \/ r \in atFirst \cup atLast
                                \/ Len(hist[r]) + Len(got[r]) = MaxTokens}
<1>2. /\ hist' = [r \in Reqs |-> hist[r] \o upTo[r]]
      /\ status' = [r \in Reqs |-> IF r \in ends THEN "done" ELSE status[r]]
      /\ finPend' = finPend \cup ends
  BY <1>1
<1>3. Types /\ queue # <<>> /\ Head(queue) = queue[1] /\ 1 \in DOMAIN queue /\ queue[1] \in Ids
  <2>1. Types /\ queue # <<>> /\ queue \in Seq(Ids) /\ Len(queue) <= 2
    BY DEF UpdateFromOutput, IInv, Types, QueueTypes
  <2> QED BY <2>1, ShortTail, QueueFacts DEF Types
<1>4. \A r \in Reqs :
        /\ got[r] \in Seq(Nat) /\ Len(got[r]) \in Nat
        /\ Continues(got[r], Len(hist[r])) /\ Len(hist[r]) + Len(got[r]) <= MaxTokens
        /\ got[r] # <<>> => Live(r) /\ Out(queue[1], r) # <<>>
        /\ Live(r) /\ Dropped(r) => got[r] = <<>>
        /\ Live(r) /\ ~Dropped(r) /\ Len(hist[r]) + Len(got[r]) # MaxTokens => got[r] = Out(queue[1], r)
  <2> SUFFICES ASSUME NEW r \in Reqs
               PROVE  /\ got[r] \in Seq(Nat) /\ Len(got[r]) \in Nat
                      /\ Continues(got[r], Len(hist[r])) /\ Len(hist[r]) + Len(got[r]) <= MaxTokens
                      /\ got[r] # <<>> => Live(r) /\ Out(queue[1], r) # <<>>
                      /\ Live(r) /\ Dropped(r) => got[r] = <<>>
                      /\ Live(r) /\ ~Dropped(r) /\ Len(hist[r]) + Len(got[r]) # MaxTokens =>
                           got[r] = Out(queue[1], r)
    OBVIOUS
  <2>1. got[r] = Delivered(step[queue[1]], r)
    BY <1>3
  <2> HIDE DEF got
  <2> QED BY <1>3, <2>1, DeliveredIs
<1>5. \A r \in Reqs : /\ upTo[r] = IF r \in atFirst THEN <<Head(got[r])>> ELSE got[r]
                      /\ r \in atFirst => got[r] # <<>>
                      /\ r \in may <=> got[r] # <<>>
  OBVIOUS
<1>6. \A r \in Reqs : r \in ends <=> /\ got[r] # <<>>
                                     /\ \/ r \in atFirst \cup atLast
                                        \/ Len(hist[r]) + Len(got[r]) = MaxTokens
  OBVIOUS
<1>7. ends \subseteq Reqs
  OBVIOUS
<1> HIDE DEF upTo, got, may, ends
<1>8. \A r \in Reqs : /\ upTo[r] \in Seq(Nat) /\ Continues(upTo[r], Len(hist[r]))
                      /\ Len(hist[r]) + Len(upTo[r]) <= MaxTokens
                      /\ got[r] = <<>> => upTo[r] = <<>>
  <2> TAKE r \in Reqs
  <2>1. Len(hist[r]) \in Nat
    BY <1>3, Amounts
  <2>2. CASE r \in atFirst
    <3>1. upTo[r] = <<Head(got[r])>> /\ got[r] # <<>>
      BY <1>5, <2>2
    <3>2. got[r] \in Seq(Nat) /\ Continues(got[r], Len(hist[r])) /\ Len(hist[r]) + Len(got[r]) <= MaxTokens
      BY <1>4
    <3>3. /\ <<Head(got[r])>> \in Seq(Nat) /\ Continues(<<Head(got[r])>>, Len(hist[r]))
          /\ Len(hist[r]) + Len(<<Head(got[r])>>) <= MaxTokens
      BY <2>1, <3>1, <3>2, HeadDelivered
    <3> QED BY <3>1, <3>3
  <2>3. CASE r \notin atFirst
    BY <1>4, <1>5, <2>3
  <2> QED BY <2>2, <2>3
<1>9. \A r \in Reqs : /\ hist'[r] = hist[r] \o upTo[r]
                      /\ hist'[r] \in Seq(Nat) /\ Continues(hist'[r], 0)
                      /\ Len(hist'[r]) = Len(hist[r]) + Len(upTo[r])
                      /\ Len(hist'[r]) <= MaxTokens
                      /\ Len(upTo[r]) \in Nat
                      /\ got[r] = <<>> => hist'[r] = hist[r]
  <2> TAKE r \in Reqs
  <2>1. hist[r] \in Seq(Nat) /\ Len(hist[r]) \in Nat /\ Continues(hist[r], 0)
    BY <1>3, Amounts DEF IInv, Delivery
  <2>2. /\ upTo[r] \in Seq(Nat) /\ Continues(upTo[r], Len(hist[r]))
        /\ Len(hist[r]) + Len(upTo[r]) <= MaxTokens
        /\ got[r] = <<>> => upTo[r] = <<>>
    BY <1>8
  <2>3. hist'[r] = hist[r] \o upTo[r]
    BY <1>2
  <2>4. Continues(upTo[r], 0 + Len(hist[r]))
    BY <2>1, <2>2
  <2>5. /\ hist[r] \o upTo[r] \in Seq(Nat) /\ Continues(hist[r] \o upTo[r], 0)
        /\ Len(hist[r] \o upTo[r]) = Len(hist[r]) + Len(upTo[r])
    BY <2>1, <2>2, <2>4, ContinuesJoin
  <2>6. got[r] = <<>> => hist'[r] = hist[r]
    <3>1. \A u \in Seq(Nat) : u \o <<>> = u
      OBVIOUS
    <3>2. hist[r] \o <<>> = hist[r]
      BY <2>1, <3>1, Zenon
    <3> QED BY <2>2, <2>3, <3>2, Zenon
  <2>7. Len(upTo[r]) \in Nat
    BY <2>2
  <2> QED BY <2>2, <2>3, <2>5, <2>6, <2>7
<1>10. \A r \in Reqs : status'[r] = IF r \in ends THEN "done" ELSE status[r]
  BY <1>2
<1>11. \A r \in Reqs : r \in ends => Live(r)
  BY <1>4, <1>6
<1>12. \A r \in Reqs : r \in finPend' <=> r \in finPend \/ (status'[r] = "done" /\ Live(r))
  <2>1. \A r \in Reqs : Live(r) => status[r] # "done"
    BY DEF Live
  <2> QED BY <1>2, <1>10, <1>11, <2>1
<1>13. \A r \in Reqs : r \notin step[queue[1]].sched \/ ~Live(r) => hist'[r] = hist[r]
  <2> SUFFICES ASSUME NEW r \in Reqs, r \notin step[queue[1]].sched \/ ~Live(r)
               PROVE  got[r] = <<>>
    BY <1>9
  <2>1. r \notin step[queue[1]].sched => Out(queue[1], r) = <<>>
    BY <1>3 DEF IInv, StepData
  <2> QED BY <1>4, <2>1
<1>14. ASSUME NEW r \in Reqs, status'[r] = status[r], Live(r)
       PROVE  Len(hist'[r]) = Len(hist[r]) + Coming(r, 1) /\ Len(hist'[r]) < MaxTokens
  <2>1. FlowOf(r) /\ Len(hist[r]) < MaxTokens /\ Len(hist[r]) \in Nat
    BY <1>3, <1>14, Amounts DEF IInv, Flow, FlowOf
  <2>2. r \notin ends
    <3>1. status'[r] # "done"
      BY <1>14 DEF Live
    <3> QED BY <1>10, <3>1
  <2>3. got[r] = <<>> \/ (r \notin atFirst /\ Len(hist[r]) + Len(got[r]) # MaxTokens)
    BY <1>6, <2>2
  <2>4. got[r] = <<>> => Len(hist[r]) + Len(got[r]) # MaxTokens
    BY <2>1
  <2>5. r \notin atFirst /\ Len(hist[r]) + Len(got[r]) # MaxTokens
    BY <1>5, <2>3, <2>4
  <2>6. upTo[r] = got[r]
    BY <1>5, <2>5
  <2>7. Len(got[r]) = Coming(r, 1)
    <3>1. CASE Dropped(r)
      <4>1. got[r] = <<>>
        BY <1>4, <1>14, <3>1
      <4> QED BY <3>1, <4>1 DEF Coming
    <3>2. CASE ~Dropped(r)
      <4>1. got[r] = Out(queue[1], r)
        BY <1>4, <1>14, <2>5, <3>2
      <4> QED BY <1>3, <3>2, <4>1 DEF Coming, InQueue, Out
    <3> QED BY <3>1, <3>2
  <2>8. Len(hist'[r]) = Len(hist[r]) + Len(got[r]) /\ Len(hist'[r]) <= MaxTokens
    BY <1>9, <2>6
  <2>9. Len(got[r]) \in Nat
    BY <1>4
  <2> QED BY <2>1, <2>5, <2>7, <2>8, <2>9, BoundsAssumption
<1>15. \A r \in Reqs : Len(hist[r]) <= Len(hist'[r])
  <2> TAKE r \in Reqs
  <2>1. Len(hist[r]) \in Nat
    BY <1>3, Amounts
  <2>2. Len(hist'[r]) = Len(hist[r]) + Len(upTo[r]) /\ Len(upTo[r]) \in Nat
    BY <1>9
  <2>3. \A a, b \in Nat : a <= a + b
    OBVIOUS
  <2>4. Len(hist[r]) <= Len(hist[r]) + Len(upTo[r])
    BY <2>1, <2>2, <2>3
  <2> QED BY <2>2, <2>4, Zenon
<1>16. status' \in [Reqs -> Statuses]
  <2>1. status \in [Reqs -> Statuses]
    BY <1>3 DEF Types, SchedTypes
  <2> QED BY <1>2, <2>1 DEF Statuses
<1>17. hist' \in [Reqs -> Seq(Nat)]
  <2>1. \A r \in Reqs : hist[r] \o upTo[r] \in Seq(Nat)
    BY <1>9
  <2> QED BY <1>2, <2>1
<1> QED BY <1>9, <1>10, <1>11, <1>12, <1>13, <1>14, <1>15, <1>16, <1>17 DEF Takes

(* The stream of a request that goes on is the same; one step of it less is
   in flight. *)
LEMMA TakeFlow ==
  ASSUME IInv, UpdateFromOutput, NEW r \in Reqs, status'[r] = status[r], Live(r)
  PROVE  FlowOf(r)' /\ Total(r)' = Total(r)
<1>1. /\ pc = "pop" /\ queue # <<>> /\ step[Head(queue)].stage = "resolved"
      /\ queue' = Tail(queue)
      /\ step' = Kept(step, PendingIds \cup ToSet(completed) \cup ToSet(Tail(queue)))
      /\ stale' = [q \in Reqs |-> IF q \in step[Head(queue)].sched /\ stale[q] > 0
                                  THEN stale[q] - 1 ELSE stale[q]]
      /\ pc' = "idle"
      /\ UNCHANGED <<drop, discards, app, pending, completed, cur>>
  BY DEF UpdateFromOutput, runnerVars, controlVars
<1>2. /\ Types /\ queue \in Seq(Ids) /\ Len(queue) <= 2
      /\ cur = NoStep /\ pc \notin Early /\ pc' \notin Early
  BY <1>1 DEF IInv, Types, QueueTypes, Current, Building, Early, Late
<1>3. Head(queue) = queue[1]
  BY <1>1, <1>2, ShortTail
<1>4. /\ Len(queue) \in {1, 2} /\ 1 \in DOMAIN queue /\ 2 \notin DOMAIN queue'
      /\ Len(queue) = 1 => DOMAIN queue' = {} /\ 2 \notin DOMAIN queue
      /\ Len(queue) = 2 => DOMAIN queue' = {1} /\ 2 \in DOMAIN queue /\ queue'[1] = queue[2]
      /\ \A i \in PendingIds \cup ToSet(queue') \cup ToSet(Line) : i \in Ids /\ step'[i] = step[i]
      /\ Line' = Line /\ queue' \in Seq(Ids)
  BY <1>1, <1>3, TakeQueue
<1>5. /\ Len(hist'[r]) = Len(hist[r]) + Coming(r, 1) /\ Len(hist'[r]) < MaxTokens
  BY TakesTokens DEF Takes
<1>6. FlowOf(r) /\ Len(hist[r]) \in Nat /\ Coming(r, 1) \in Nat /\ Coming(r, 2) \in Nat
      /\ stale[r] \in Nat
  BY <1>2, Amounts DEF IInv, Flow, Types, SchedTypes
<1>7. ~Dropped(r)'
  <2>1. stale[r] > 0 => stale[r] = 1 /\ r \in step[queue[1]].sched
    BY DEF IInv, Resets
  <2>2. stale'[r] = 0
    BY <1>1, <1>3, <1>6, <2>1
  <2> QED BY <2>2 DEF Dropped
<1>8. Coming(r, 2)' = 0
  BY <1>4 DEF Coming, InQueue
<1>9. Coming(r, 1)' = Coming(r, 2)
  <2>1. CASE Len(queue) = 1
    BY <1>4, <1>7, <2>1 DEF Coming, InQueue
  <2>2. CASE Len(queue) = 2
    <3>1. queue'[1] \in ToSet(queue')
      BY <1>4, <2>2 DEF ToSet
    <3>2. step'[queue'[1]] = step[queue[2]]
      BY <1>4, <2>2, <3>1
    <3> QED BY <1>4, <1>7, <2>2, <3>2 DEF Coming, InQueue
  <2> QED BY <1>4, <2>1, <2>2
<1>10. Total(r)' = Total(r)
  <2>1. Total(r)' = Len(hist'[r]) + Coming(r, 1)' + Coming(r, 2)'
    BY DEF Total
  <2>2. Total(r) = Len(hist[r]) + Coming(r, 1) + Coming(r, 2)
    BY DEF Total
  <2> QED BY <1>5, <1>6, <1>8, <1>9, <2>1, <2>2
<1>11. 1 \in DOMAIN queue' => Continues(Out(queue[1], r), Len(hist[r]))'
  <2> SUFFICES ASSUME 1 \in DOMAIN queue' PROVE Continues(Out(queue[1], r), Len(hist[r]))'
    OBVIOUS
  <2>1. Len(queue) = 2 /\ 2 \in DOMAIN queue /\ queue'[1] = queue[2]
    BY <1>4
  <2>2. Continues(Out(queue[2], r), Len(hist[r]) + Coming(r, 1))
    BY <1>6, <2>1 DEF FlowOf
  <2>3. queue'[1] \in ToSet(queue')
    BY DEF ToSet
  <2>4. Out(queue[1], r)' = Out(queue[2], r)
    BY <1>4, <2>1, <2>3 DEF Out
  <2> QED BY <1>5, <2>2, <2>4 DEF Continues
<1>12. \A n \in DOMAIN Line : Out(Line[n], r)' = Out(Line[n], r)
  <2>1. \A n \in DOMAIN Line : Line[n] \in ToSet(Line)
    BY <1>2, LineIs DEF Types
  <2> QED BY <1>4, <2>1 DEF Out
<1>13. Discarded(r)' = Discarded(r)
  BY <1>1, <1>2 DEF Discarded
<1>14. \A n \in DOMAIN Line : Lost(r, n)' = Lost(r, n)
  BY <1>4, <1>12, <1>13 DEF Lost
<1>15. \A n \in {1, 2} : Gain(r, n)' = Gain(r, n)
  BY <1>4, <1>12, <1>14 DEF Gain
<1>16. Continues(app[r], 0)'
  BY <1>1, <1>6 DEF FlowOf, Continues
<1>17. 1 \in DOMAIN Line' /\ ~Lost(r, 1)' => Continues(Out(Line[1], r), Len(app[r]))'
  <2> SUFFICES ASSUME 1 \in DOMAIN Line', ~Lost(r, 1)'
               PROVE  Continues(Out(Line[1], r), Len(app[r]))'
    OBVIOUS
  <2>1. 1 \in DOMAIN Line /\ ~Lost(r, 1)
    BY <1>4, <1>14
  <2>2. Continues(Out(Line[1], r), Len(app[r]))
    BY <1>6, <2>1 DEF FlowOf
  <2>3. Out(Line[1], r)' = Out(Line[1], r) /\ Len(app'[r]) = Len(app[r])
    BY <1>1, <1>12, <2>1
  <2> QED BY <2>2, <2>3 DEF Continues
<1>18. 2 \in DOMAIN Line' /\ ~Lost(r, 2)' => Continues(Out(Line[2], r), Len(app[r]) + Gain(r, 1))'
  <2> SUFFICES ASSUME 2 \in DOMAIN Line', ~Lost(r, 2)'
               PROVE  Continues(Out(Line[2], r), Len(app[r]) + Gain(r, 1))'
    OBVIOUS
  <2>1. 2 \in DOMAIN Line /\ ~Lost(r, 2)
    BY <1>4, <1>14
  <2>2. Continues(Out(Line[2], r), Len(app[r]) + Gain(r, 1))
    BY <1>6, <2>1 DEF FlowOf
  <2>3. Out(Line[2], r)' = Out(Line[2], r) /\ Len(app'[r]) + Gain(r, 1)' = Len(app[r]) + Gain(r, 1)
    BY <1>1, <1>12, <1>15, <2>1
  <2> QED BY <2>2, <2>3 DEF Continues
<1>19. Len(app'[r]) + Gain(r, 1)' + Gain(r, 2)' = Total(r)'
  BY <1>1, <1>6, <1>10, <1>15 DEF FlowOf
<1>20. status'[r] = "running" => Total(r)' > 0
  BY <1>2, <1>6, <1>10 DEF FlowOf, NoStep
<1> QED BY <1>4, <1>5, <1>10, <1>11, <1>16, <1>17, <1>18, <1>19, <1>20 DEF FlowOf

(* The scheduler takes the oldest result. *)
LEMMA TakeStep ==
  ASSUME IInv, UpdateFromOutput
  PROVE  IInv'
<1>1. /\ pc = "pop" /\ queue # <<>> /\ step[Head(queue)].stage = "resolved"
      /\ queue' = Tail(queue)
      /\ step' = Kept(step, PendingIds \cup ToSet(completed) \cup ToSet(Tail(queue)))
      /\ stale' = [q \in Reqs |-> IF q \in step[Head(queue)].sched /\ stale[q] > 0
                                  THEN stale[q] - 1 ELSE stale[q]]
      /\ frames' = FramesAfter(step[Head(queue)])
      /\ pc' = "idle"
      /\ UNCHANGED <<drop, discards, cur, fault>>
      /\ UNCHANGED <<known, batch, slotted, layoutChanged, app, proposed, accepted, chain,
                     pending, completed, resident>>
  BY DEF UpdateFromOutput, runnerVars, batchVars, specVars, controlVars
<1>2. /\ Types /\ QueueTypes /\ queue \in Seq(Ids) /\ Len(queue) <= 2
      /\ cur = NoStep /\ pc \notin Early \cup Late /\ pc' \notin Early \cup Late
      /\ ~Building'
  BY <1>1 DEF IInv, Types, QueueTypes, Current, Building, Early, Late
<1>3. Head(queue) = queue[1] /\ queue[1] \in Ids
  BY <1>1, <1>2, ShortTail
<1>4. /\ queue' \in Seq(Ids) /\ Len(queue') \in {0, 1} /\ Len(queue) \in {1, 2}
      /\ 1 \in DOMAIN queue /\ 2 \notin DOMAIN queue'
      /\ Len(queue) = 1 => DOMAIN queue' = {} /\ Len(queue') = 0 /\ 2 \notin DOMAIN queue
      /\ Len(queue) = 2 => DOMAIN queue' = {1} /\ Len(queue') = 1 /\ 2 \in DOMAIN queue
                           /\ queue'[1] = queue[2]
      /\ step' \in [Ids -> Steps]
      /\ \A i \in Ids : \/ step'[i] = step[i]
                        \/ step'[i] = FreeStep /\ i \notin PendingIds \cup ToSet(queue') \cup ToSet(Line)
      /\ \A i \in PendingIds \cup ToSet(queue') \cup ToSet(Line) : i \in Ids /\ step'[i] = step[i]
      /\ PendingIds' = PendingIds /\ ToSet(queue') \subseteq ToSet(queue)
      /\ ToSet(queue) \subseteq ToSet(queue') \cup {queue[1]}
      /\ Line' = Line /\ ~Open(1) /\ ~Unread(1)
      /\ Open(1)' = Open(2) /\ Unread(1)' = Unread(2) /\ ~Open(2)' /\ ~Unread(2)' /\ ~Open(0)'
  BY <1>1, <1>3, TakeQueue
<1>5. Takes
  BY TakesTokens
<1>6. /\ FreeStep.sched = {} /\ FreeStep.rows = {} /\ FreeStep.stage = "resolved"
      /\ \A r \in Reqs : FreeStep.out[r] = <<>>
  BY DEF FreeStep, NoOutput
<1>7. \A r \in Reqs : stale'[r] = 0 /\ stale[r] \in Nat
  <2> TAKE r \in Reqs
  <2>1. stale[r] \in Nat
    BY <1>2 DEF Types, SchedTypes
  <2>2. stale[r] > 0 => stale[r] = 1 /\ r \in step[queue[1]].sched
    BY DEF IInv, Resets
  <2> QED BY <1>1, <1>3, <2>1, <2>2
<1>8. \A r \in Reqs : status'[r] = status[r] \/ status'[r] = "done"
  BY <1>5 DEF Takes
(* One position of the queue is left at most. *)
<1>9. \A i \in DOMAIN queue' : i = 1 /\ Len(queue) = 2 /\ queue'[i] = queue[2] /\ 2 \in DOMAIN queue
                               /\ queue'[i] \in ToSet(queue') /\ step'[queue'[i]] = step[queue[2]]
  <2>1. \A i \in DOMAIN queue' : queue'[i] \in ToSet(queue')
    BY DEF ToSet
  <2>2. \A i \in DOMAIN queue' : i = 1 /\ Len(queue) = 2 /\ queue'[i] = queue[2] /\ 2 \in DOMAIN queue
    BY <1>4
  <2> QED BY <1>4, <2>1, <2>2
<1>10. SchedTypes'
  <2>1. stale' \in [Reqs -> Nat]
    <3>1. stale' = [r \in Reqs |-> stale'[r]]
      BY <1>1
    <3>2. \A r \in Reqs : stale'[r] \in Nat
      BY <1>7
    <3> QED BY <3>1, <3>2
  <2>2. frames' \in [Reqs -> Nat]
    BY <1>1, <1>2 DEF FramesAfter, Types, SchedTypes
  <2>3. finPend' \subseteq Reqs
    BY DEF UpdateFromOutput, IInv, Types, SchedTypes
  <2> QED BY <1>1, <1>2, <1>5, <2>1, <2>2, <2>3 DEF Types, SchedTypes, Takes
<1>11. RunnerTypes'
  BY <1>1, <1>2 DEF Types, RunnerTypes
<1>12. QueueTypes'
  <2>1. Len(queue') <= 2
    <3>1. PICK k \in {0, 1} : k = Len(queue')
      BY <1>4, Zenon
    <3>2. k <= 2
      OBVIOUS
    <3> QED BY <3>1, <3>2, Zenon
  <2> QED BY <1>1, <1>2, <1>4, <2>1 DEF QueueTypes
<1>13. StepData'
  <2> SUFFICES ASSUME NEW i \in Ids
               PROVE  /\ step'[i].rows \subseteq step'[i].sched
                      /\ \A r \in Reqs : Out(i, r)' # <<>> => r \in step'[i].rows
                      /\ step'[i].stage # "resolved" =>
                           step'[i].rows = step'[i].sched /\ step'[i].sched # {}
    BY DEF StepData
  <2>1. CASE step'[i] = step[i]
    BY <2>1 DEF IInv, StepData, Out
  <2>2. CASE step'[i] = FreeStep
    BY <1>6, <2>2 DEF Out
  <2> QED BY <1>4, <2>1, <2>2
<1>14. Current'
  <2>1. Len(queue') <= 1
    <3>1. PICK k \in {0, 1} : k = Len(queue')
      BY <1>4, Zenon
    <3>2. k <= 1
      OBVIOUS
    <3> QED BY <3>1, <3>2, Zenon
  <2> QED BY <1>1, <1>2, <2>1 DEF Current
<1>15. UsedIds' \subseteq UsedIds
  BY <1>1, <1>4 DEF UsedIds
<1>16. Order'
  <2>1. Len(queue') # 2 /\ Len(queue') \in {0, 1}
    BY <1>4
  <2>2. \A i \in DOMAIN queue' : Open(i)' => step'[queue'[i]].sched = batch' /\ queue'[i] \in PendingIds'
    <3> SUFFICES ASSUME NEW i \in DOMAIN queue', Open(i)'
                 PROVE  step'[queue'[i]].sched = batch' /\ queue'[i] \in PendingIds'
      OBVIOUS
    <3>1. Open(2) /\ queue'[i] = queue[2] /\ step'[queue'[i]] = step[queue[2]] /\ 2 \in DOMAIN queue
      BY <1>4, <1>9
    <3>2. step[queue[2]].sched = batch /\ queue[2] \in PendingIds
      BY <3>1 DEF IInv, Order
    <3> QED BY <1>1, <1>4, <3>1, <3>2
  <2>3. \A i \in DOMAIN pending : step'[pending[i].id].stage # "resolved" => pending[i].id \in ToSet(queue')
    <3> SUFFICES ASSUME NEW i \in DOMAIN pending, step'[pending[i].id].stage # "resolved"
                 PROVE  pending[i].id \in ToSet(queue')
      OBVIOUS
    <3>1. pending[i].id \in PendingIds
      BY DEF PendingIds
    <3>2. step[pending[i].id].stage # "resolved"
      BY <1>4, <3>1
    <3>3. pending[i].id \in ToSet(queue)
      BY <3>2 DEF IInv, Order
    <3>4. pending[i].id # queue[1]
      BY <1>1, <1>3, <3>2
    <3> QED BY <1>4, <3>3, <3>4
  <2>4. Open(Len(queue))' => pending # <<>> /\ pending[Len(pending)].id = queue'[Len(queue')]
    <3>1. Open(Len(queue)) => pending # <<>> /\ pending[Len(pending)].id = queue[Len(queue)]
      BY DEF IInv, Order
    <3>2. CASE Len(queue) = 1
      <4>1. Open(Len(queue))' = Open(0)'
        BY <1>4, <3>2 DEF Open
      <4> QED BY <1>4, <4>1
    <3>3. CASE Len(queue) = 2
      <4>1. Open(Len(queue))' = Open(1)' /\ Open(Len(queue)) = Open(2)
        BY <1>4, <3>3 DEF Open
      <4>2. queue'[Len(queue')] = queue[Len(queue)]
        BY <1>4, <3>3
      <4> QED BY <1>4, <3>1, <4>1, <4>2
    <3> QED BY <1>4, <3>2, <3>3
  <2>5. \E a, b \in Ids : UsedIds' \subseteq {a, b}
    BY <1>15 DEF IInv, Order
  <2>6. Len(pending) = 2 => pending[1].id # pending[2].id
    BY DEF IInv, Order
  <2>7. pc' \notin Late \cup {"apply"} /\ pc' \notin {"prune", "applyAgain"}
    BY <1>1 DEF Late
  <2> QED BY <1>1, <2>1, <2>2, <2>3, <2>4, <2>5, <2>6, <2>7 DEF Order
<1>17. Lines'
  <2>1. Len(Line) <= 2 /\ (Len(Line) = 2 => Line[1] # Line[2])
    BY DEF IInv, Lines
  <2>2. ToSet(completed) \subseteq ToSet(Line)
    BY <1>2, LineIs
  <2>3. \A i \in ToSet(completed) : step'[i].stage # "submitted"
    BY <1>4, <2>2 DEF IInv, Lines
  <2>4. \A i \in ToSet(Line) : step'[i].rows # {} /\ \A r \in step'[i].rows : Out(i, r)' # <<>>
    BY <1>4 DEF IInv, Lines, Out
  <2>5. queue' # <<>> /\ step'[queue'[Len(queue')]].rows # {} =>
          Line # <<>> /\ Line[Len(Line)] = queue'[Len(queue')]
    <3> SUFFICES ASSUME queue' # <<>>, step'[queue'[Len(queue')]].rows # {}
                 PROVE  Line # <<>> /\ Line[Len(Line)] = queue'[Len(queue')]
      OBVIOUS
    <3>1. Len(queue') # 0
      BY <1>4
    <3>2. Len(queue) = 2 /\ Len(queue') = 1 /\ 1 \in DOMAIN queue'
      BY <1>4, <3>1
    <3>3. queue'[Len(queue')] = queue[Len(queue)] /\ step'[queue'[Len(queue')]] = step[queue[Len(queue)]]
      BY <1>9, <3>2
    <3> QED BY <1>1, <1>2, <3>3 DEF IInv, Lines
  <2>6. pc' \notin Late
    BY <1>2
  <2>7. pc' # "submit"
    BY <1>1
  <2> QED BY <1>1, <1>4, <2>1, <2>3, <2>4, <2>5, <2>6, <2>7 DEF Lines
<1>18. Overlap'
  BY <1>1 DEF IInv, Overlap, Late
<1>19. Knowing'
  <2>1. finPend' \cup cur'.fin \subseteq {r \in Reqs : status'[r] = "done"}
    <3>1. finPend \cup cur.fin \subseteq {r \in Reqs : status[r] = "done"}
      BY DEF IInv, Knowing
    <3>2. finPend' \subseteq Reqs
      BY <1>10 DEF SchedTypes
    <3>3. \A r \in Reqs : r \in finPend' => status'[r] = "done"
      BY <1>5, <3>1 DEF Takes
    <3>4. \A r \in cur.fin : r \in Reqs /\ status'[r] = "done"
      BY <1>8, <3>1
    <3> QED BY <1>1, <3>2, <3>3, <3>4
  <2>2. \A r \in Reqs : status'[r] \in {"partial", "running", "preempted"} => r \in known
    BY <1>1, <1>8 DEF IInv, Knowing
  <2>3. \A r \in Reqs : status'[r] \in {"new", "waiting"} =>
          hist'[r] = <<>> /\ app'[r] = <<>> /\ \A i \in Ids : r \notin step'[i].sched
    <3> SUFFICES ASSUME NEW r \in Reqs, status'[r] \in {"new", "waiting"}
                 PROVE  hist'[r] = <<>> /\ app'[r] = <<>> /\ \A i \in Ids : r \notin step'[i].sched
      OBVIOUS
    <3>1. status[r] \in {"new", "waiting"}
      BY <1>8
    <3>2. hist[r] = <<>> /\ app[r] = <<>> /\ \A i \in Ids : r \notin step[i].sched
      BY <3>1 DEF IInv, Knowing
    <3>3. hist'[r] = <<>>
      BY <1>3, <1>5, <3>2 DEF Takes
    <3>4. \A i \in Ids : r \notin step'[i].sched
      BY <1>4, <1>6, <3>2
    <3> QED BY <1>1, <3>2, <3>3, <3>4
  <2>4. \A i \in ToSet(Line) : step'[i].rows \subseteq known
    BY <1>1, <1>4 DEF IInv, Knowing
  <2> QED BY <1>1, <1>4, <2>1, <2>2, <2>3, <2>4 DEF Knowing
<1>20. Resets'
  <2> SUFFICES ASSUME NEW r \in Reqs
               PROVE  /\ Discarded(r)' <= 1
                      /\ Discarded(r)' = 1 => Parked(r)' /\ \E n \in DOMAIN Line' : r \in step'[Line'[n]].rows
                      /\ stale'[r] = 0
    BY <1>7 DEF Resets
  <2>1. Discarded(r)' = Discarded(r)
    BY <1>1, <1>2 DEF Discarded
  <2>2. Discarded(r) <= 1
    BY DEF IInv, Resets
  <2>3. Discarded(r) = 1 => Parked(r) /\ \E n \in DOMAIN Line : r \in step[Line[n]].rows
    BY DEF IInv, Resets
  <2>4. Parked(r) => Parked(r)'
    BY <1>1, <1>8 DEF Parked
  <2>5. \A n \in DOMAIN Line : step'[Line[n]] = step[Line[n]]
    BY <1>2, <1>4, LineIs
  <2> QED BY <1>4, <1>7, <2>1, <2>2, <2>3, <2>4, <2>5
<1>21. Withdrawn'
  <2> SUFFICES ASSUME NEW r \in Reqs, status'[r] = "done", r \notin finPend', r \in cur'.fin => pc' \in Late,
                      NEW i \in DOMAIN queue'
               PROVE  Out(queue[i], r)' = <<>>
    BY DEF Withdrawn
  <2>1. status[r] = "done" /\ r \notin finPend
    BY <1>5 DEF Takes
  <2>2. r \notin cur.fin
    BY <1>2 DEF NoStep
  <2>3. Out(queue[2], r) = <<>>
    BY <1>9, <2>1, <2>2 DEF IInv, Withdrawn
  <2> QED BY <1>9, <2>3 DEF Out
<1>22. Delivery'
  BY <1>5 DEF Takes, Delivery, Continues
<1>23. ASSUME NEW r \in Reqs, Live(r)' PROVE status'[r] = status[r] /\ Live(r)
  BY <1>8, <1>23 DEF Live
<1>24. Flow'
  BY <1>23, TakeFlow DEF Flow
<1>25. Resident'
  <2>1. batch \subseteq Reqs
    BY <1>2 DEF Types, RunnerTypes
  <2>2. \A r \in batch : status'[r] = "running" => status[r] = "running" /\ Total(r)' = Total(r)
    <3> SUFFICES ASSUME NEW r \in batch, status'[r] = "running"
                 PROVE  status[r] = "running" /\ Total(r)' = Total(r)
      OBVIOUS
    <3>1. r \in Reqs /\ Live(r)'
      BY <2>1 DEF Live
    <3>2. status'[r] = status[r] /\ Live(r)
      BY <1>23, <3>1
    <3> QED BY <3>1, <3>2, TakeFlow
  <2> QED BY <1>1, <2>2, ResidentSame DEF IInv
<1>26. Frames'
  <2> SUFFICES ASSUME NEW r \in Reqs
               PROVE  frames'[r] = Carries(r, 1)' + Carries(r, 2)' + IF r \in cur'.rows THEN 1 ELSE 0
    BY DEF Frames
  <2>1. frames[r] = Carries(r, 1) + Carries(r, 2) + IF r \in cur.rows THEN 1 ELSE 0
    BY DEF IInv, Frames
  <2>2. r \notin cur.rows /\ r \notin cur'.rows
    BY <1>1, <1>2 DEF NoStep
  <2>3. Carries(r, 1)' = Carries(r, 2) /\ Carries(r, 2)' = 0
    <3>1. CASE Len(queue) = 1
      BY <1>4, <3>1 DEF Carries
    <3>2. CASE Len(queue) = 2
      <4>1. 1 \in DOMAIN queue' /\ step'[queue'[1]] = step[queue[2]]
        BY <1>4, <1>9, <3>2
      <4> QED BY <1>4, <3>2, <4>1 DEF Carries
    <3> QED BY <1>4, <3>1, <3>2
  <2>4. Carries(r, 1) = IF r \in step[queue[1]].rows THEN 1 ELSE 0
    BY <1>4 DEF Carries
  <2>5. Carries(r, 2) \in {0, 1}
    BY DEF Carries
  <2>6. frames'[r] = IF r \in step[queue[1]].rows /\ frames[r] > 0 THEN frames[r] - 1 ELSE frames[r]
    BY <1>1, <1>3 DEF FramesAfter
  <2> QED BY <2>1, <2>2, <2>3, <2>4, <2>5, <2>6
<1>27. NoFault'
  BY <1>1 DEF IInv, NoFault
<1> QED BY <1>10, <1>11, <1>12, <1>13, <1>14, <1>16, <1>17, <1>18, <1>19, <1>20, <1>21, <1>22,
           <1>24, <1>25, <1>26, <1>27 DEF IInv, Types

-----------------------------------------------------------------------------
(* The invariant. *)

(* Nothing is in flight at first. *)
LEMMA InitHolds ==
  ASSUME Init
  PROVE  IInv
<1>1. /\ queue = <<>> /\ pending = <<>> /\ completed = <<>> /\ cur = NoStep /\ pc = "idle"
      /\ step = [i \in Ids |-> FreeStep] /\ DOMAIN queue = {} /\ DOMAIN pending = {}
      /\ DOMAIN completed = {} /\ Len(queue) = 0 /\ Len(pending) = 0 /\ Len(completed) = 0
      /\ NoCounts \in [Reqs -> Nat] /\ <<>> \in Seq(Nat) /\ NoOutput \in [Reqs -> Seq(Nat)]
  BY DEF Init, NoCounts, NoOutput
<1>2. FreeStep \in Steps /\ NoStep \in Curs
  BY <1>1 DEF FreeStep, NoStep, Steps, Curs, Kinds, Stages
<1>3. /\ \A i : ~Open(i) /\ ~Unread(i) /\ ~SomeOpen
      /\ Line = <<>> /\ DOMAIN Line = {} /\ Len(Line) = 0 /\ ToSet(Line) = {}
      /\ ToSet(queue) = {} /\ ToSet(completed) = {} /\ PendingIds = {} /\ UsedIds = {}
  <2>1. \A i : ~Open(i) /\ ~Unread(i)
    BY <1>1 DEF Open, Unread
  <2>2. Line = <<>>
    BY <1>1, <2>1 DEF Line, Joined
  <2>3. ToSet(<<>>) = {} /\ DOMAIN <<>> = {} /\ Len(<<>>) = 0
    BY DEF ToSet
  <2>4. PendingIds = {}
    BY <1>1 DEF PendingIds
  <2> QED BY <1>1, <2>1, <2>2, <2>3, <2>4 DEF SomeOpen, UsedIds
<1>4. ~Building /\ pc \notin Early \cup Late
  BY <1>1 DEF Building, Early, Late
<1>5. SchedTypes
  BY <1>1 DEF Init, SchedTypes, Statuses
<1>6. RunnerTypes
  BY <1>1 DEF Init, RunnerTypes, Chains
<1>7. QueueTypes
  <2>1. <<>> \in Seq(Ids) /\ <<>> \in Seq(Entries)
    OBVIOUS
  <2> QED BY <1>1, <1>2, <2>1 DEF QueueTypes
<1>8. \A i \in Ids : step[i] = FreeStep
  BY <1>1
<1>9. /\ FreeStep.rows = {} /\ FreeStep.sched = {} /\ FreeStep.stage = "resolved"
      /\ \A r \in Reqs : FreeStep.out[r] = <<>>
  BY DEF FreeStep, NoOutput
<1>10. StepData
  BY <1>8, <1>9 DEF StepData, Out
<1>11. Current
  BY <1>1, <1>4 DEF Current
<1>12. Order
  BY <1>1, <1>3, <1>4 DEF Order, Ids, QueueSize
<1>13. Lines
  BY <1>1, <1>3, <1>4 DEF Lines
<1>14. Overlap
  BY <1>1, <1>3, <1>4 DEF Overlap
<1>15. /\ \A r \in Reqs : /\ status[r] = "new" /\ hist[r] = <<>> /\ app[r] = <<>>
                          /\ stale[r] = 0 /\ discards[r] = 0 /\ frames[r] = 0
       /\ finPend = {} /\ ~chain.valid /\ fault = "none"
  BY DEF Init, NoOutput, NoCounts
<1>16. Knowing
  BY <1>1, <1>3, <1>4, <1>8, <1>9, <1>15 DEF Knowing, NoStep
<1>17. Resets
  BY <1>4, <1>15 DEF Resets, Discarded
<1>18. Withdrawn /\ Flow
  BY <1>15 DEF Withdrawn, Flow, Live
<1>19. Delivery
  BY <1>15, BoundsAssumption DEF Delivery, Continues
<1>20. Resident
  BY <1>15 DEF Resident
<1>21. Frames
  BY <1>1, <1>15 DEF Frames, Carries, NoStep
<1>22. NoFault
  BY <1>15 DEF NoFault
<1> QED BY <1>5, <1>6, <1>7, <1>10, <1>11, <1>12, <1>13, <1>14, <1>16, <1>17, <1>18, <1>19, <1>20,
           <1>21, <1>22 DEF IInv, Types

(* A step of something else keeps it. *)
LEMMA StutterKeeps ==
  ASSUME IInv, UNCHANGED vars
  PROVE  IInv'
<1>1. /\ UNCHANGED <<status, hist, stale, drop, frames, discards, finPend>>
      /\ UNCHANGED <<known, batch, slotted, layoutChanged, app, proposed, accepted, chain, pending,
                     completed, resident, step, queue, cur, pc, fault>>
  BY DEF vars, schedVars, streams, runnerVars, batchVars, specVars, controlVars, engineVars
<1>2. UNCHANGED queueVars
  BY <1>1 DEF queueVars
<1>3. /\ Line' = Line /\ SomeOpen' = SomeOpen /\ PendingIds' = PendingIds /\ UsedIds' = UsedIds
      /\ \A i : Open(i)' = Open(i) /\ Unread(i)' = Unread(i)
  BY <1>2, SameLine
<1>4. Types' /\ StepData' /\ Delivery' /\ Frames' /\ NoFault'
  BY <1>1 DEF IInv, Types, SchedTypes, RunnerTypes, QueueTypes, StepData, Out, Delivery, Continues,
              Frames, Carries, NoFault
<1>5. Current'
  BY <1>1, <1>3 DEF IInv, Current, Building
<1>6. Order'
  BY <1>1, <1>3 DEF IInv, Order
<1>7. Lines'
  BY <1>1, <1>3 DEF IInv, Lines, Out
<1>8. Verifies' = Verifies
  BY <1>1 DEF Verifies, Drafted
<1>9. Overlap'
  BY <1>1, <1>3, <1>8 DEF IInv, Overlap, SteadyFacts
<1>10. Knowing'
  BY <1>1, <1>3 DEF IInv, Knowing
<1>11. Resets'
  BY <1>1, <1>3 DEF IInv, Resets, Discarded, Parked
<1>12. Withdrawn'
  BY <1>1 DEF IInv, Withdrawn, Out
<1>13. \A r \in Reqs : Dropped(r)' = Dropped(r) /\ Discarded(r)' = Discarded(r)
  BY <1>1 DEF Dropped, Discarded
<1>14. Flow'
  <2> SUFFICES ASSUME NEW r \in Reqs, Live(r) PROVE FlowOf(r)'
    BY <1>1 DEF Flow, Live
  <2>1. QueueTypes /\ FlowOf(r)
    BY DEF IInv, Types, Flow
  <2> QED BY <1>1, <1>3, <1>13, <2>1, FlowSame
<1>15. Resident'
  <2>1. \A r \in batch : r \in Reqs
    BY DEF IInv, Types, RunnerTypes
  <2>2. \A r \in Reqs : Total(r)' = Total(r)
    <3> TAKE r \in Reqs
    <3>1. QueueTypes
      BY DEF IInv, Types
    <3> QED BY <1>1, <1>13, <3>1, ComingSame
  <2> QED BY <1>1, <2>1, <2>2, ResidentSame DEF IInv
<1> QED BY <1>4, <1>5, <1>6, <1>7, <1>9, <1>10, <1>11, <1>12, <1>14, <1>15 DEF IInv

(* Every action preserves it. *)
LEMMA NextKeeps ==
  ASSUME IInv, [Next]_vars
  PROVE  IInv'
<1>1. CASE SchedulePrefill
  BY <1>1, SchedulePrefillStep
<1>2. CASE ScheduleDecode
  BY <1>2, ScheduleDecodeStep
<1>3. CASE Preflight
  BY <1>3, PreflightStep
<1>4. CASE WaitForPending
  BY <1>4, WaitStep
<1>5. CASE UpdateStates
  BY <1>5, UpdateStep
<1>6. CASE PruneAgain
  BY <1>6, PruneAgainStep
<1>7. CASE ApplyCompleted
  BY <1>7, ApplyStep
<1>8. CASE SubmitNothing
  BY <1>8, SubmitNothingStep
<1>9. CASE SubmitPrefill
  BY <1>9, SubmitPrefillStep
<1>10. CASE SubmitDecode
  BY <1>10, SubmitDecodeStep
<1>11. CASE Rest
  BY <1>11, RestStep
<1>12. CASE ResolveAtPop
  BY <1>12, PopReadStep
<1>13. CASE UpdateFromOutput
  BY <1>13, TakeStep
<1>14. CASE OutputThread
  BY <1>14, OutputStep DEF OutputThread
<1>15. CASE ResetPrefixCache
  BY <1>15, ResetStep
<1>16. ASSUME NEW r \in Reqs, AddRequest(r) PROVE IInv'
  BY <1>16, AddRequestStep
<1>17. ASSUME NEW r \in Reqs, Abort(r) PROVE IInv'
  BY <1>17, AbortStep
<1>18. CASE UNCHANGED vars
  BY <1>18, StutterKeeps
<1> QED BY <1>1, <1>2, <1>3, <1>4, <1>5, <1>6, <1>7, <1>8, <1>9, <1>10, <1>11, <1>12, <1>13, <1>14,
           <1>15, <1>16, <1>17, <1>18 DEF Next, Engine, Clients

(* In every reachable state. *)
LEMMA Inductive == Spec => []IInv
<1>1. Init => IInv
  BY InitHolds
<1>2. IInv /\ [Next]_vars => IInv'
  BY NextKeeps
<1> QED BY <1>1, <1>2, PTL DEF Spec

-----------------------------------------------------------------------------
(* What a reader should know. *)

(* Every variable keeps its type; no request has more than two stale
   steps, reserved frames or results to discard. *)
THEOREM TypeCorrect == Spec => []TypeOK
<1>1. ASSUME IInv PROVE TypeOK
  <2>1. Types /\ SchedTypes /\ RunnerTypes /\ QueueTypes
    BY <1>1 DEF IInv, Types
  <2>2. stale \in [Reqs -> 0 .. QueueSize]
    <3>1. \A r \in Reqs : stale[r] \in Nat /\ (stale[r] > 0 => stale[r] = 1)
      BY <1>1, <2>1 DEF IInv, Resets, SchedTypes
    <3>2. \A r \in Reqs : stale[r] \in 0 .. QueueSize
      BY <3>1 DEF QueueSize
    <3> QED BY <2>1, <3>2 DEF SchedTypes
  <2>3. discards \in [Reqs -> 0 .. QueueSize]
    <3>1. \A r \in Reqs : discards[r] \in Nat /\ discards[r] <= 1
      <4> TAKE r \in Reqs
      <4>1. discards[r] \in Nat
        BY <2>1 DEF SchedTypes
      <4>2. CASE pc \in Early
        <5>1. discards = NoCounts
          BY <1>1, <4>2 DEF IInv, Current, Building
        <5> QED BY <4>1, <5>1 DEF NoCounts
      <4>3. CASE pc \notin Early
        BY <1>1, <4>1, <4>3 DEF IInv, Resets, Discarded
      <4> QED BY <4>2, <4>3
    <3>2. \A r \in Reqs : discards[r] \in 0 .. QueueSize
      BY <3>1 DEF QueueSize
    <3> QED BY <2>1, <3>2 DEF SchedTypes
  <2>4. frames \in [Reqs -> 0 .. QueueSize]
    <3>1. ASSUME NEW r \in Reqs PROVE frames[r] \in 0 .. QueueSize
      <4>1. frames[r] = Carries(r, 1) + Carries(r, 2) + IF r \in cur.rows THEN 1 ELSE 0
        BY <1>1 DEF IInv, Frames
      <4>2. Carries(r, 1) \in {0, 1} /\ Carries(r, 2) \in {0, 1}
        BY DEF Carries
      <4>3. CASE Building
        <5>1. Len(queue) <= 1
          BY <1>1, <4>3 DEF IInv, Current, Building, Early, Late
        <5>2. 2 \notin DOMAIN queue
          BY <2>1, <5>1, QueueFacts
        <5>3. Carries(r, 2) = 0
          BY <5>2 DEF Carries
        <5> QED BY <4>1, <4>2, <5>3 DEF QueueSize
      <4>4. CASE ~Building
        <5>1. r \notin cur.rows
          BY <1>1, <4>4 DEF IInv, Current, NoStep
        <5> QED BY <4>1, <4>2, <5>1 DEF QueueSize
      <4> QED BY <4>3, <4>4
    <3> QED BY <2>1, <3>1 DEF SchedTypes
  <2>5. /\ finPend \cup known \cup batch \cup slotted \cup accepted \subseteq Reqs
        /\ status \in [Reqs -> Statuses] /\ drop \in [Reqs -> BOOLEAN]
        /\ layoutChanged \in BOOLEAN /\ app \in [Reqs -> Seq(Nat)]
        /\ proposed \in [Reqs -> Nat] /\ resident \in [Reqs -> Nat]
        /\ chain \in [valid: BOOLEAN, device: BOOLEAN, verified: BOOLEAN, hostAnswered: BOOLEAN]
    BY <2>1 DEF SchedTypes, RunnerTypes, Chains
  <2>6. \A i \in DOMAIN pending : pending[i] \in [id: Ids, overlapOk: BOOLEAN]
    BY <2>1, UsedAreIds DEF Entries
  <2>7. ToSet(completed) \cup ToSet(queue) \subseteq Ids /\ Len(queue) <= QueueSize
    BY <2>1, UsedAreIds DEF UsedIds, QueueTypes, QueueSize
  <2>8. \A i \in Ids : step[i].kind \in Kinds /\ step[i].stage \in Stages
    BY <2>1 DEF QueueTypes, Steps
  <2>9. pc \in {"idle", "preflight", "wait", "update", "apply", "waitAgain", "prune",
                "applyAgain", "submit", "pop", "failed"}
    BY <2>1 DEF QueueTypes, Early, Late
  <2>10. hist \in [Reqs -> Seq(0 .. MaxTokens)]
    <3>1. ASSUME NEW r \in Reqs PROVE hist[r] \in Seq(0 .. MaxTokens)
      <4> DEFINE h == hist[r]
      <4>1. h \in Seq(Nat) /\ (\A k \in DOMAIN h : h[k] = 0 + k) /\ Len(h) <= MaxTokens
        BY <1>1, <2>1 DEF IInv, Delivery, Continues, SchedTypes
      <4> HIDE DEF h
      <4>2. Len(h) \in Nat /\ DOMAIN h = 1 .. Len(h) /\ h = [k \in 1 .. Len(h) |-> h[k]]
        BY <4>1
      <4>3. \A k \in 1 .. Len(h) : h[k] \in 0 .. MaxTokens
        BY <4>1, <4>2, BoundsAssumption
      <4>4. PICK n \in Nat : n = Len(h)
        BY <4>2
      <4>5. \A k \in 1 .. n : h[k] \in 0 .. MaxTokens
        BY <4>3, <4>4
      <4>6. [k \in 1 .. n |-> h[k]] \in Seq(0 .. MaxTokens)
        BY <4>5
      <4> QED BY <4>2, <4>4, <4>6 DEF h
    <3> QED BY <2>1, <3>1 DEF SchedTypes
  <2> QED BY <2>2, <2>3, <2>4, <2>5, <2>6, <2>7, <2>8, <2>9, <2>10 DEF TypeOK
<1> QED BY <1>1, Inductive, PTL

(* The apply path never raises: a reset asks for no more results than have
   been read back, and every result names requests the runner knows. *)
THEOREM NeverFaults == Spec => []NoFault
<1>1. IInv => NoFault
  BY DEF IInv
<1> QED BY <1>1, Inductive, PTL

(* The frame count that a reset reads is exactly the frames that have not
   come back. *)
THEOREM FramesExact == Spec => []FramesOutstanding
<1>1. ASSUME IInv PROVE FramesOutstanding
  <2> SUFFICES ASSUME NEW r \in Reqs
               PROVE  frames[r] = Cardinality({i \in DOMAIN queue : r \in step[queue[i]].rows})
                                  + IF r \in cur.rows THEN 1 ELSE 0
    BY DEF FramesOutstanding
  <2> DEFINE S == {i \in DOMAIN queue : r \in step[queue[i]].rows}
  <2>1. \A i \in DOMAIN queue : i \in {1, 2}
    BY <1>1, QueueFacts DEF IInv, Types
  <2>2. S \subseteq {1, 2}
    BY <2>1
  <2>3. Carries(r, 1) = (IF 1 \in S THEN 1 ELSE 0) /\ Carries(r, 2) = (IF 2 \in S THEN 1 ELSE 0)
    BY DEF Carries
  <2> HIDE DEF S
  <2>4. Cardinality(S) = Carries(r, 1) + Carries(r, 2)
    BY <2>2, <2>3, CountTwo
  <2>5. frames[r] = Carries(r, 1) + Carries(r, 2) + IF r \in cur.rows THEN 1 ELSE 0
    BY <1>1 DEF IInv, Frames
  <2> QED BY <2>4, <2>5 DEF S
<1> QED BY <1>1, Inductive, PTL

(* No step is submitted over an outstanding one unless it is a steady plain
   decode on the device and the outstanding one tolerates it. *)
THEOREM OverlapsSteady == Spec => []OverlapsOnlySteady
<1>1. IInv => OverlapsOnlySteady
  BY SteadyOverlap DEF OverlapsOnlySteady
<1> QED BY <1>1, Inductive, PTL

(* When the runner has been told that a request finished, no token of it is
   left for the scheduler to take. *)
THEOREM LateWithdrawn == Spec => []LateResultsWithdrawn
<1>1. IInv => LateResultsWithdrawn
  BY DEF IInv, Withdrawn, Out, LateResultsWithdrawn
<1> QED BY <1>1, Inductive, PTL

(* Every forward, from host inputs or from resident ones, starts from the
   token after all that its request was delivered and is still owed. *)
THEOREM InputsAlwaysCurrent == Spec => []InputsCurrent
<1>1. ASSUME IInv PROVE InputsCurrent
  <2> SUFFICES ASSUME pc = "submit", cur.kind # "none", NEW r \in cur.sched
               PROVE  FirstToken(r) = Len(hist[r]) + Owed(r) + 1
    BY DEF InputsCurrent
  <2>1. FirstToken(r) = Total(r) + 1 /\ Total(r) \in Nat
    BY <1>1, InputsRight
  <2>2. Types /\ r \in Reqs /\ Len(queue) \in {0, 1}
    BY <1>1, SubmitFacts
  <2>3. 2 \notin DOMAIN queue
    BY <2>2, QueueFacts DEF Types
  <2>4. Coming(r, 2) = 0 /\ InQueue(r, 2) = 0
    BY <2>3 DEF Coming, InQueue
  <2>5. Coming(r, 1) = Owed(r)
    <3>1. InQueue(r, 1) \in Nat
      BY <2>2, Amounts
    <3>2. CASE Dropped(r)
      BY <3>2 DEF Coming, Owed, Dropped
    <3>3. CASE ~Dropped(r)
      <4>1. Owed(r) = InQueue(r, 1) + InQueue(r, 2) /\ Coming(r, 1) = InQueue(r, 1)
        BY <3>3 DEF Coming, Owed, Dropped
      <4> QED BY <2>4, <3>1, <4>1
    <3> QED BY <3>2, <3>3
  <2>6. Total(r) = Len(hist[r]) + Coming(r, 1) + 0
    BY <2>4 DEF Total
  <2>7. Len(hist[r]) \in Nat /\ Coming(r, 1) \in Nat
    BY <2>2, Amounts
  <2> QED BY <2>1, <2>5, <2>6, <2>7
<1> QED BY <1>1, Inductive, PTL

(* Only the scheduler that takes a result moves a history on, and no action
   brings a finished request back. *)
LEMMA HistoriesGrow ==
  ASSUME IInv, [Next]_vars, NEW r \in Reqs
  PROVE  /\ status[r] = "done" => status'[r] = "done" /\ hist'[r] = hist[r]
         /\ Len(hist[r]) <= Len(hist'[r])
<1>1. Types /\ Len(hist[r]) \in Nat /\ status \in [Reqs -> Statuses]
  BY Amounts DEF IInv, Types, SchedTypes
<1>2. CASE UpdateFromOutput
  <2>1. Takes
    BY <1>2, TakesTokens
  <2> QED BY <2>1 DEF Takes, Live
<1>3. SUFFICES \/ UpdateFromOutput
               \/ (status[r] = "done" => status'[r] = "done") /\ hist' = hist
  BY <1>1, <1>2
<1>4. CASE UNCHANGED schedVars
  BY <1>4 DEF schedVars, streams
<1>5. CASE SchedulePrefill
  <2>1. PICK sched \in (SUBSET Prefillable) \ {{}} :
          \E chunk \in SUBSET {q \in sched \cap Chunked : status[q] # "partial"} :
            /\ Publish("prefill", sched, sched \ chunk, {})
            /\ status' = [q \in Reqs |-> IF q \in chunk THEN "partial"
                                         ELSE IF q \in sched THEN "running" ELSE status[q]]
    BY <1>5 DEF SchedulePrefill
  <2>2. PICK chunk \in SUBSET {q \in sched \cap Chunked : status[q] # "partial"} :
            /\ Publish("prefill", sched, sched \ chunk, {})
            /\ status' = [q \in Reqs |-> IF q \in chunk THEN "partial"
                                         ELSE IF q \in sched THEN "running" ELSE status[q]]
    BY <2>1
  <2>3. r \in sched => status[r] # "done"
    BY DEF Prefillable
  <2>4. r \in chunk => r \in sched
    OBVIOUS
  <2>5. hist' = hist
    BY <2>2 DEF Publish
  <2> QED BY <2>2, <2>3, <2>4, <2>5
<1>6. CASE ScheduleDecode
  <2>1. PICK pre \in SUBSET {q \in Reqs : status[q] = "running"} :
          /\ hist' = hist
          /\ status' = [q \in Reqs |-> IF q \in pre THEN "preempted" ELSE status[q]]
    BY <1>6 DEF ScheduleDecode, Publish
  <2> QED BY <2>1
<1>7. CASE ResetPrefixCache
  BY <1>7 DEF ResetPrefixCache
<1>8. ASSUME NEW q \in Reqs, AddRequest(q) \/ Abort(q)
      PROVE  (status[r] = "done" => status'[r] = "done") /\ hist' = hist
  BY <1>1, <1>8 DEF AddRequest, Abort
<1>9. CASE \/ Preflight \/ WaitForPending \/ UpdateStates \/ PruneAgain \/ ApplyCompleted
           \/ SubmitNothing \/ SubmitPrefill \/ SubmitDecode \/ Rest \/ ResolveAtPop \/ OutputThread
           \/ UNCHANGED vars
  <2>1. UNCHANGED schedVars
    BY <1>9 DEF Preflight, WaitForPending, UpdateStates, PruneAgain, ApplyCompleted, SubmitNothing,
                SubmitPrefill, SubmitDecode, Rest, ResolveAtPop, OutputThread, OutputQueues,
                OutputSetsEvent, vars
  <2> QED BY <1>4, <2>1
<1> QED BY <1>5, <1>6, <1>7, <1>8, <1>9 DEF Next, Engine, Clients

(* What clients are delivered is the stream TokenStream promises, whatever
   was overlapped, drafted, preempted, reset or aborted. *)
THEOREM StreamImplemented == Spec => StreamKept
<1>1. ASSUME Init PROVE Stream!Init
  <2>1. hist = [r \in Reqs |-> <<>>] /\ \A r \in Reqs : status[r] = "new"
    BY <1>1 DEF Init, NoOutput
  <2> QED BY <2>1 DEF Stream!Init
<1>2. ASSUME IInv, IInv', [Next]_vars PROVE Stream!Deliver
  <2>1. \A r \in Reqs : /\ status[r] = "done" => status'[r] = "done" /\ hist'[r] = hist[r]
                        /\ Len(hist[r]) <= Len(hist'[r])
    BY <1>2, HistoriesGrow
  <2>2. hist' \in [Reqs -> {Stream!Continuation(k) : k \in 0 .. MaxTokens}]
    <3>1. hist' \in [Reqs -> Seq(Nat)]
      BY <1>2 DEF IInv, Types, SchedTypes
    <3>2. ASSUME NEW r \in Reqs PROVE hist'[r] \in {Stream!Continuation(k) : k \in 0 .. MaxTokens}
      <4> DEFINE h == hist'[r]
      <4>1. h \in Seq(Nat) /\ (\A k \in DOMAIN h : h[k] = 0 + k) /\ Len(h) <= MaxTokens
        BY <1>2, <3>1 DEF IInv, Delivery, Continues
      <4> HIDE DEF h
      <4>2. Len(h) \in 0 .. MaxTokens /\ DOMAIN h = 1 .. Len(h) /\ h = [k \in 1 .. Len(h) |-> h[k]]
        BY <4>1, BoundsAssumption
      <4>3. \A k \in 1 .. Len(h) : h[k] = k
        BY <4>1, <4>2
      <4>4. h = [k \in 1 .. Len(h) |-> k]
        BY <4>2, <4>3
      <4>5. h = Stream!Continuation(Len(h))
        BY <4>4 DEF Stream!Continuation
      <4> QED BY <4>2, <4>5 DEF h
    <3> QED BY <3>1, <3>2
  <2> QED BY <2>1, <2>2 DEF Stream!Deliver
<1>3. IInv /\ IInv' /\ [Next]_vars => [Stream!Deliver]_<<hist, {r \in Reqs : status[r] = "done"}>>
  BY <1>2
<1> QED BY <1>1, <1>3, Inductive, PTL DEF Spec, StreamKept, Stream!Spec

================================================================================
