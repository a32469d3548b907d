------------------------ MODULE FrontPackedRunnerProofs ------------------------
(***************************************************************************)
(* FrontPackedRunner for any number of requests and slots: the runner      *)
(* never raises, every decode reads the state of the request in its row,   *)
(* the sessions follow the states, no slot leaks, and a change of the rows *)
(* is always announced.                                                    *)
(*                                                                         *)
(* The module's first part is about the operators: the greedy allocation   *)
(* and the gather exist whenever the running cap holds.  The second finds  *)
(* what is invariant in the middle of a step: what the scheduler has       *)
(* decided and the runner has still to apply is named Due, and every       *)
(* relation between the queues, the slot map and the adapter is stated     *)
(* relative to it.                                                         *)
(***************************************************************************)
EXTENDS FrontPackedRunner, FiniteSetTheorems, TLAPS

-----------------------------------------------------------------------------
(* Facts about finite sets of slots. *)

(* A nonempty set of natural numbers has a least element. *)
LEMMA LeastElement ==
  ASSUME NEW T, T \subseteq Nat, T # {}
  PROVE  \E m \in T : \A n \in T : m <= n
<1>1. \E m \in T : \A n \in T : ~ (<<n, m>> \in OpToRel(<, Nat))
  BY NatLessThanWellFounded, WFMin
<1>2. PICK m \in T : \A n \in T : ~ (<<n, m>> \in OpToRel(<, Nat))
  BY <1>1
<1>3. \A n \in T : ~(n < m)
  BY <1>2 DEF OpToRel
<1> QED BY <1>3

(* g enumerates the k numbers of C in increasing order. *)
Enumerates(g, k, C) ==
  /\ g \in [1 .. k -> C]
  /\ \A i, j \in 1 .. k : i < j => g[i] < g[j]

(* Every finite set of numbers has an increasing enumeration. *)
LEMMA Enumeration ==
  ASSUME NEW C \in SUBSET Nat, IsFiniteSet(C)
  PROVE  \E g : Enumerates(g, Cardinality(C), C)
<1> DEFINE Bad == {k \in Nat : \E D \in SUBSET Nat :
                      /\ IsFiniteSet(D) /\ Cardinality(D) = k
                      /\ ~ \E g : Enumerates(g, k, D)}
<1>1. ASSUME Bad # {} PROVE FALSE
  <2>1. PICK k \in Bad : \A n \in Bad : k <= n
    <3> Bad \subseteq Nat  OBVIOUS
    <3> HIDE DEF Bad
    <3> QED BY <1>1, LeastElement
  <2>2. PICK D \in SUBSET Nat : /\ IsFiniteSet(D) /\ Cardinality(D) = k
                                /\ ~ \E g : Enumerates(g, k, D)
    BY <2>1
  <2>3. k \in Nat
    OBVIOUS
  <2>4. CASE k = 0
    <3>1. Enumerates([i \in 1 .. 0 |-> 0], 0, D)
      BY DEF Enumerates
    <3> QED BY <2>2, <2>4, <3>1
  <2>5. CASE k > 0
    <3>1. D # {}
      BY <2>2, <2>5, FS_EmptySet
    <3>2. PICK a \in D : \A d \in D : a <= d
      BY <3>1, LeastElement
    <3>3. IsFiniteSet(D \ {a}) /\ Cardinality(D \ {a}) = k - 1
      BY <2>2, <3>2, FS_RemoveElement
    <3>4. k - 1 \notin Bad
      BY <2>1, <2>3
    <3>5. PICK g : Enumerates(g, k - 1, D \ {a})
      BY <2>3, <2>5, <3>3, <3>4
    <3> DEFINE h == [i \in 1 .. k |-> IF i = 1 THEN a ELSE g[i - 1]]
    <3>6. h \in [1 .. k -> D]
      BY <2>3, <3>2, <3>5 DEF Enumerates
    <3>7. ASSUME NEW i \in 1 .. k, NEW j \in 1 .. k, i < j PROVE h[i] < h[j]
      <4>1. j - 1 \in 1 .. k - 1 /\ g[j - 1] \in D \ {a} /\ h[j] = g[j - 1]
        BY <2>3, <3>5, <3>7 DEF Enumerates
      <4>2. CASE i = 1
        <5>1. h[i] = a /\ g[j - 1] \in Nat /\ a \in Nat /\ a <= g[j - 1] /\ a # g[j - 1]
          BY <3>2, <4>1, <4>2
        <5> HIDE DEF h
        <5> QED BY <4>1, <5>1
      <4>3. CASE i # 1
        <5>1. i - 1 \in 1 .. k - 1 /\ h[i] = g[i - 1] /\ i - 1 < j - 1
          BY <2>3, <3>7, <4>3
        <5> QED BY <3>5, <4>1, <5>1 DEF Enumerates
      <4> QED BY <4>2, <4>3
    <3>8. Enumerates(h, k, D)
      <4> HIDE DEF h
      <4> QED BY <3>6, <3>7 DEF Enumerates
    <3> QED BY <2>2, <3>8
  <2> QED BY <2>3, <2>4, <2>5
<1>2. Cardinality(C) \in Nat
  BY FS_CardinalityType
<1> QED BY <1>1, <1>2

(* The slots are as many as the running cap. *)
LEMMA SlotsFinite ==
  /\ NumSlots \in Nat \ {0}
  /\ IsFiniteSet(Slots) /\ Cardinality(Slots) = NumSlots
  /\ Slots \subseteq Nat /\ NoSlot \notin Slots
<1>1. MaxNumSeqs \in Nat \ {0}
  BY SchedulerAssumption
<1>2. IsFiniteSet(0 .. MaxNumSeqs - 1) /\ Cardinality(0 .. MaxNumSeqs - 1) = MaxNumSeqs
  BY <1>1, FS_Interval
<1> QED BY <1>1, <1>2 DEF Slots, NumSlots, NoSlot

(* A gather that reads no slot twice reads every slot. *)
LEMMA GatherReadsAll ==
  ASSUME NEW m \in [Slots -> Slots], \A i, j \in Slots : m[i] = m[j] => i = j
  PROVE  \A s \in Slots : \E i \in Slots : m[i] = s
<1>1. m \in Injection(Slots, Slots)
  BY DEF Injection, IsInjective
<1>2. m \in Surjection(Slots, Slots)
  BY <1>1, SlotsFinite, FS_Injection
<1> QED BY <1>2 DEF Surjection

(* The first n values of a map are at most n. *)
LEMMA ImageBound ==
  ASSUME NEW n \in Nat, NEW f, NEW S, IsFiniteSet(S), \A i \in 1 .. n : f[i] \in S
  PROVE  IsFiniteSet({f[i] : i \in 1 .. n}) /\ Cardinality({f[i] : i \in 1 .. n}) <= n
<1> DEFINE V == {f[i] : i \in 1 .. n}
           g == [i \in 1 .. n |-> f[i]]
<1>1. g \in Surjection(1 .. n, V)
  BY DEF Surjection
<1>2. IsFiniteSet(1 .. n) /\ Cardinality(1 .. n) = n
  BY FS_Interval
<1>3. IsFiniteSet(V) /\ Cardinality(V) <= Cardinality(1 .. n)
  <2> HIDE DEF V, g
  <2> QED BY <1>1, <1>2, FS_Surjection
<1> QED BY <1>2, <1>3

-----------------------------------------------------------------------------
(* The operators of a step. *)

(* The choice _alloc_prefill_state_slots makes for its i-th row. *)
Takes(f, i, H) ==
  LET taken == H \cup {f[j] : j \in 1 .. i - 1} IN
  /\ f[i] \notin taken
  /\ i - 1 \notin taken => f[i] = i - 1
  /\ i - 1 \in taken => \A s \in Slots \ taken : f[i] <= s

Greedy(f, n, H) == f \in [1 .. n -> Slots] /\ \A i \in 1 .. n : Takes(f, i, H)

(* An allocation of n rows can be continued while a slot is free. *)
LEMMA GreedyContinues ==
  ASSUME NEW H \in SUBSET Slots, NEW n \in Nat, Cardinality(H) + n < NumSlots,
         NEW f, Greedy(f, n, H)
  PROVE  \E g : Greedy(g, n + 1, H)
<1> DEFINE taken == H \cup {f[j] : j \in 1 .. n}
<1>1. IsFiniteSet(H) /\ Cardinality(H) \in Nat
  BY SlotsFinite, FS_Subset, FS_CardinalityType
<1>2. /\ IsFiniteSet({f[j] : j \in 1 .. n}) /\ Cardinality({f[j] : j \in 1 .. n}) <= n
      /\ Cardinality({f[j] : j \in 1 .. n}) \in Nat
  <2>1. \A i \in 1 .. n : f[i] \in Slots
    BY DEF Greedy
  <2>2. IsFiniteSet({f[j] : j \in 1 .. n}) /\ Cardinality({f[j] : j \in 1 .. n}) <= n
    BY <2>1, SlotsFinite, ImageBound
  <2> QED BY <2>2, FS_CardinalityType
<1>3. IsFiniteSet(taken) /\ Cardinality(taken) < NumSlots
  <2> DEFINE V == {f[j] : j \in 1 .. n}
  <2>1. IsFiniteSet(H \cap V)
    BY <1>1, FS_Intersection
  <2>2. Cardinality(H \cap V) \in Nat
    <3> HIDE DEF V
    <3> QED BY <2>1, FS_CardinalityType
  <2>3. /\ IsFiniteSet(H \cup V)
        /\ Cardinality(H \cup V) = Cardinality(H) + Cardinality(V) - Cardinality(H \cap V)
    <3> HIDE DEF V
    <3> QED BY <1>1, <1>2, FS_Union DEF V
  <2> HIDE DEF V
  <2> QED BY <1>1, <1>2, <2>2, <2>3, SlotsFinite DEF V
<1>4. Slots \ taken # {}
  <2>1. SUFFICES ASSUME Slots \subseteq taken PROVE FALSE
    OBVIOUS
  <2>2. Cardinality(Slots) <= Cardinality(taken) /\ Cardinality(taken) \in Nat
    <3> HIDE DEF taken
    <3> QED BY <1>3, <2>1, FS_Subset, FS_CardinalityType
  <2> HIDE DEF taken
  <2> QED BY <1>3, <2>2, SlotsFinite
<1>5. PICK v \in Slots \ taken : /\ n \notin taken => v = n
                                 /\ n \in taken => \A s \in Slots \ taken : v <= s
  <2>1. n \in Slots
    BY <1>1, SlotsFinite DEF Slots, NumSlots
  <2>2. PICK w \in Slots \ taken : \A s \in Slots \ taken : w <= s
    <3>1. Slots \ taken \subseteq Nat
      BY SlotsFinite
    <3> HIDE DEF taken
    <3> QED BY <1>4, <3>1, LeastElement
  <2> HIDE DEF taken
  <2>3. CASE n \in taken
    BY <2>2, <2>3
  <2>4. CASE n \notin taken
    BY <2>1, <2>4
  <2> QED BY <2>3, <2>4
<1> DEFINE g == [i \in 1 .. n + 1 |-> IF i = n + 1 THEN v ELSE f[i]]
<1>6. g \in [1 .. n + 1 -> Slots] /\ g[n + 1] = v /\ \A i \in 1 .. n : g[i] = f[i]
  <2>1. \A i \in 1 .. n + 1 : i = n + 1 \/ i \in 1 .. n
    OBVIOUS
  <2>2. n + 1 \in 1 .. n + 1 /\ \A i \in 1 .. n : i \in 1 .. n + 1 /\ i # n + 1
    OBVIOUS
  <2> QED BY <2>1, <2>2 DEF Greedy
<1> HIDE DEF g
<1>7. Takes(g, n + 1, H)
  <2>1. {g[j] : j \in 1 .. (n + 1) - 1} = {f[j] : j \in 1 .. n}
    BY <1>6
  <2>2. (n + 1) - 1 = n
    OBVIOUS
  <2> QED BY <1>5, <1>6, <2>1, <2>2 DEF Takes
<1>8. ASSUME NEW i \in 1 .. n PROVE Takes(g, i, H)
  <2>1. {g[j] : j \in 1 .. i - 1} = {f[j] : j \in 1 .. i - 1}
    BY <1>6
  <2>2. g[i] = f[i] /\ Takes(f, i, H)
    BY <1>6 DEF Greedy
  <2> QED BY <2>1, <2>2 DEF Takes
<1>9. \A i \in 1 .. n + 1 : i = n + 1 \/ i \in 1 .. n
  OBVIOUS
<1> QED BY <1>6, <1>7, <1>8, <1>9 DEF Greedy

(* _alloc_prefill_state_slots finds a slot for every row as long as the
   slots of the requests left out and the rows are no more than the slots. *)
LEMMA PrefillSlotsExist ==
  ASSUME NEW rows, rows \in Seq(Reqs), NEW live,
         Held(rows, live) \subseteq Slots,
         Cardinality(Held(rows, live)) + Len(rows) <= NumSlots
  PROVE  PrefillSlots(rows, live) # {}
<1> DEFINE H == Held(rows, live)
           Bad == {n \in 0 .. Len(rows) : ~ \E f : Greedy(f, n, H)}
<1>0. H \in SUBSET Slots /\ Cardinality(H) + Len(rows) <= NumSlots
      /\ Len(rows) \in Nat /\ DOMAIN rows = 1 .. Len(rows)
  OBVIOUS
<1>1. Cardinality(H) \in Nat
  <2> HIDE DEF H
  <2> QED BY <1>0, SlotsFinite, FS_Subset, FS_CardinalityType
<1> HIDE DEF H
<1>2. ASSUME Bad # {} PROVE FALSE
  <2>1. PICK n \in Bad : \A k \in Bad : n <= k
    <3> Bad \subseteq Nat
      BY <1>0
    <3> HIDE DEF Bad
    <3> QED BY <1>2, LeastElement
  <2>2. n \in 0 .. Len(rows) /\ n \in Nat
    BY <1>0
  <2>3. CASE n = 0
    <3>1. Greedy([i \in 1 .. 0 |-> 0], 0, H)
      BY DEF Greedy
    <3> QED BY <2>1, <2>3, <3>1
  <2>4. CASE n > 0
    <3>1. n - 1 \in 0 .. Len(rows) /\ n - 1 \in Nat /\ ~(n <= n - 1)
      BY <1>0, <2>2, <2>4
    <3>2. n - 1 \notin Bad
      BY <2>1, <3>1
    <3>3. PICK f : Greedy(f, n - 1, H)
      BY <3>1, <3>2
    <3>4. Cardinality(H) + (n - 1) < NumSlots
      BY <1>0, <1>1, <2>2, <2>4, SlotsFinite
    <3>5. \E g : Greedy(g, (n - 1) + 1, H)
      BY <1>0, <3>1, <3>3, <3>4, GreedyContinues
    <3>6. (n - 1) + 1 = n
      BY <2>2
    <3> QED BY <2>1, <3>5, <3>6
  <2> QED BY <2>2, <2>3, <2>4
<1>3. PICK f : Greedy(f, Len(rows), H)
  BY <1>0, <1>2
<1>4. f \in PrefillSlots(rows, live)
  BY <1>0, <1>3 DEF Greedy, Takes, PrefillSlots, H
<1> QED BY <1>4

(* An allocation names no slot twice and none that is held. *)
LEMMA PrefillSlotsDistinct ==
  ASSUME NEW rows, rows \in Seq(Reqs), NEW live, NEW f \in PrefillSlots(rows, live)
  PROVE  /\ f \in [DOMAIN rows -> Slots]
         /\ \A i \in DOMAIN rows : f[i] \notin Held(rows, live)
         /\ \A i, j \in DOMAIN rows : f[i] = f[j] => i = j
<1>1. /\ f \in [DOMAIN rows -> Slots]
      /\ \A i \in DOMAIN rows : /\ f[i] \notin Held(rows, live)
                                /\ \A j \in 1 .. i - 1 : f[i] # f[j]
  BY DEF PrefillSlots
<1>2. DOMAIN rows = 1 .. Len(rows) /\ Len(rows) \in Nat
  OBVIOUS
<1>3. \A i, j \in DOMAIN rows : j < i => j \in 1 .. i - 1
  BY <1>2
<1>4. \A i, j \in DOMAIN rows : j < i => f[i] # f[j]
  BY <1>1, <1>3
<1>5. \A i, j \in DOMAIN rows : i = j \/ i < j \/ j < i
  BY <1>2
<1> QED BY <1>1, <1>4, <1>5

(* _decode_state_slot_remap finds a permutation: the slots no row reads are
   as many as the rows left. *)
LEMMA RemapsExist ==
  ASSUME NEW rows, rows \in Seq(Reqs), Len(rows) <= NumSlots,
         NEW live, \A i \in DOMAIN rows : live[rows[i]] \in Slots,
         \A i, j \in DOMAIN rows : live[rows[i]] = live[rows[j]] => i = j
  PROVE  Remaps(rows, live) # {}
<1> DEFINE L == Len(rows)
           p == [i \in 1 .. L |-> live[rows[i]]]
           V == {p[i] : i \in 1 .. L}
           C == Slots \ V
<1>1. L \in Nat /\ DOMAIN rows = 1 .. L /\ NumSlots \in Nat /\ L <= NumSlots
  BY SlotsFinite
<1>2. /\ IsFiniteSet(1 .. L) /\ Cardinality(1 .. L) = L
  <2> HIDE DEF L
  <2> QED BY <1>1, FS_Interval
<1>3. V \subseteq Slots /\ p \in [1 .. L -> V] /\ \A i, j \in 1 .. L : p[i] = p[j] => i = j
  BY <1>1
<1>4. IsFiniteSet(V) /\ Cardinality(V) = L
  <2>1. p \in Injection(1 .. L, V) /\ p \in Surjection(1 .. L, V)
    BY <1>3 DEF Injection, IsInjective, Surjection
  <2> HIDE DEF V, p, L
  <2> QED BY <1>2, <2>1, FS_Surjection
<1>5. IsFiniteSet(C) /\ Cardinality(C) = NumSlots - L
  <2>1. Slots \cap V = V
    BY <1>3
  <2>2. IsFiniteSet(Slots \ V) /\ Cardinality(Slots \ V) = Cardinality(Slots) - Cardinality(V)
    <3> HIDE DEF V
    <3> QED BY <2>1, SlotsFinite, FS_Difference
  <2> QED BY <1>4, <2>2, SlotsFinite
<1>6. C \in SUBSET Nat
  BY SlotsFinite
<1> HIDE DEF C
<1>7. PICK g : Enumerates(g, NumSlots - L, C)
  BY <1>5, <1>6, Enumeration
<1> DEFINE m == [s \in Slots |-> IF s < L THEN p[s + 1] ELSE g[s - L + 1]]
<1> HIDE DEF L, p, V
<1>8. Slots = 0 .. NumSlots - 1
  BY DEF Slots
<1>9. \A s \in Slots : s < L => s + 1 \in 1 .. L /\ m[s] = p[s + 1]
  BY <1>1, <1>8
<1>10. \A s \in Slots : ~(s < L) => s - L + 1 \in 1 .. NumSlots - L /\ m[s] = g[s - L + 1]
  BY <1>1, <1>8
<1>11. \A s \in Slots : (s < L => m[s] \in V) /\ (~(s < L) => m[s] \in C)
  BY <1>3, <1>7, <1>9, <1>10 DEF Enumerates
<1>12. m \in [Slots -> Slots]
  <2>1. C \subseteq Slots
    BY DEF C
  <2>2. \A s \in Slots : m[s] \in Slots
    BY <1>3, <1>11, <2>1
  <2> QED BY <2>2
<1> HIDE DEF m
<1>13. ASSUME NEW i \in L .. NumSlots - 1, NEW j \in L .. NumSlots - 1, i < j
       PROVE  m[i] < m[j]
  <2>1. i \in Slots /\ j \in Slots /\ ~(i < L) /\ ~(j < L)
    BY <1>1, <1>8
  <2>2. i - L + 1 < j - L + 1
    BY <1>1, <1>13
  <2> QED BY <1>7, <1>10, <2>1, <2>2 DEF Enumerates
<1>14. ASSUME NEW i \in Slots, NEW j \in Slots, m[i] = m[j] PROVE i = j
  <2>1. i \in Nat /\ j \in Nat
    BY SlotsFinite
  <2>2. CASE i < L /\ j < L
    <3>1. i + 1 = j + 1
      BY <1>3, <1>9, <1>14, <2>2
    <3> QED BY <2>1, <3>1
  <2>3. CASE ~(i < L) /\ ~(j < L)
    <3>1. i \in L .. NumSlots - 1 /\ j \in L .. NumSlots - 1
      BY <1>1, <1>8, <2>1, <2>3
    <3>2. m[i] \in Nat /\ m[j] \in Nat
      BY <1>12, SlotsFinite
    <3>3. ~(i < j) /\ ~(j < i)
      BY <1>13, <1>14, <3>1, <3>2
    <3> QED BY <2>1, <3>3
  <2>4. CASE (i < L) # (j < L)
    BY <1>11, <1>14, <2>4 DEF C
  <2> QED BY <2>2, <2>3, <2>4
<1>15. \A i \in DOMAIN rows : m[i - 1] = live[rows[i]]
  <2>1. \A i \in 1 .. L : i - 1 \in Slots /\ i - 1 < L /\ (i - 1) + 1 = i
    BY <1>1, <1>8
  <2>2. \A i \in 1 .. L : m[i - 1] = p[i]
    BY <1>9, <2>1
  <2> QED BY <1>1, <2>2 DEF p
<1>16. m \in Remaps(rows, live)
  BY <1>12, <1>13, <1>14, <1>15 DEF Remaps, L
<1> QED BY <1>16

(* What removing and adding rows leaves in the batch, whatever the order. *)
LEMMA RepackedRows ==
  ASSUME NEW old, old \in Seq(Reqs), \A i, j \in DOMAIN old : old[i] = old[j] => i = j,
         NEW removed, NEW added \in SUBSET Reqs,
         added \cap (Rows(old) \ removed) = {},
         NEW b \in Repacked(old, removed, added)
  PROVE  /\ b \in Seq(Reqs)
         /\ Rows(b) = (Rows(old) \ removed) \cup added
         /\ Len(b) = Cardinality(Rows(b)) /\ IsFiniteSet(Rows(b))
         /\ \A i, j \in DOMAIN b : b[i] = b[j] => i = j
<1> DEFINE keep == {i \in DOMAIN old : old[i] \notin removed}
           kept == {old[i] : i \in keep}
           n == Cardinality(keep) + Cardinality(added)
<1>1. b \in [1 .. n -> kept \cup added] /\ \A i, j \in 1 .. n : b[i] = b[j] => i = j
  BY DEF Repacked
<1>2. DOMAIN old = 1 .. Len(old) /\ Len(old) \in Nat /\ \A i \in DOMAIN old : old[i] \in Reqs
  OBVIOUS
<1>3. IsFiniteSet(keep) /\ Cardinality(keep) \in Nat
  <2>1. IsFiniteSet(1 .. Len(old)) /\ keep \in SUBSET (1 .. Len(old))
    BY <1>2, FS_Interval
  <2> HIDE DEF keep
  <2> QED BY <2>1, FS_Subset, FS_CardinalityType
<1>4. IsFiniteSet(kept) /\ Cardinality(kept) = Cardinality(keep)
  <2> DEFINE f == [i \in keep |-> old[i]]
  <2>1. f \in Injection(keep, kept) /\ f \in Surjection(keep, kept)
    BY DEF Injection, IsInjective, Surjection
  <2> HIDE DEF f, keep, kept
  <2> QED BY <1>3, <2>1, FS_Surjection
<1>5. IsFiniteSet(added) /\ Cardinality(added) \in Nat
  BY SchedulerAssumption, FS_Subset, FS_CardinalityType
<1>6. kept = Rows(old) \ removed /\ kept \subseteq Reqs
  BY <1>2 DEF Rows
<1>7. /\ IsFiniteSet(kept \cup added)
      /\ Cardinality(kept \cup added) = n
  <2>1. IsFiniteSet(kept \cup added) /\ Cardinality(kept \cup added)
          = Cardinality(kept) + Cardinality(added) - Cardinality(kept \cap added)
    <3> HIDE DEF kept
    <3> QED BY <1>4, <1>5, FS_Union
  <2>2. kept \cap added = {}
    BY <1>6
  <2>3. Cardinality(kept \cap added) = 0
    BY <2>2, FS_EmptySet
  <2> HIDE DEF kept, keep
  <2> QED BY <1>3, <1>4, <1>5, <2>1, <2>3
<1>8. n \in Nat
  BY <1>3, <1>5
<1>9. IsFiniteSet(1 .. n) /\ Cardinality(1 .. n) = n
  <2> HIDE DEF n
  <2> QED BY <1>8, FS_Interval
<1> HIDE DEF keep, kept, n
<1>10. b \in Injection(1 .. n, kept \cup added)
  BY <1>1 DEF Injection, IsInjective
<1>11. b \in Surjection(1 .. n, kept \cup added)
  BY <1>7, <1>9, <1>10, FS_Injection
<1>12. \A r \in kept \cup added : \E i \in 1 .. n : b[i] = r
  BY <1>11 DEF Surjection
<1>13. DOMAIN b = 1 .. n /\ b \in [1 .. n -> Reqs]
  BY <1>1, <1>6
<1>14. b \in Seq(Reqs) /\ Len(b) = n
  BY <1>8, <1>13
<1>15. Rows(b) = kept \cup added
  BY <1>1, <1>12, <1>13 DEF Rows
<1> QED BY <1>1, <1>6, <1>7, <1>13, <1>14, <1>15

(* With nothing removed or added the rows stay where they are. *)
LEMMA RepackedNothing ==
  ASSUME NEW old, old \in Seq(Reqs), NEW removed, removed \cap Rows(old) = {},
         NEW b \in Repacked(old, removed, {})
  PROVE  b = old
<1> DEFINE keep == {i \in DOMAIN old : old[i] \notin removed}
           n == Cardinality(keep) + Cardinality({})
<1>1. /\ b \in [1 .. n -> {old[i] : i \in keep} \cup {}]
      /\ \A i \in keep : i <= n => b[i] = old[i]
  BY DEF Repacked
<1>2. DOMAIN old = 1 .. Len(old) /\ Len(old) \in Nat
  OBVIOUS
<1>2a. keep = 1 .. Len(old)
  <2>1. \A i \in DOMAIN old : old[i] \in Rows(old)
    BY DEF Rows
  <2> QED BY <1>2, <2>1
<1>3. n = Len(old)
  <2> HIDE DEF keep
  <2>1. Cardinality(keep) = Len(old)
    BY <1>2, <1>2a, FS_Interval
  <2>2. Cardinality({}) = 0
    BY FS_EmptySet
  <2> QED BY <1>2, <2>1, <2>2
<1> HIDE DEF keep, n
<1>4. DOMAIN b = DOMAIN old /\ \A i \in DOMAIN old : b[i] = old[i]
  BY <1>1, <1>2, <1>2a, <1>3
<1>5. b = [i \in DOMAIN old |-> old[i]]
  BY <1>1, <1>4
<1>6. old = [i \in DOMAIN old |-> old[i]]
  BY <1>2
<1> QED BY <1>5, <1>6

-----------------------------------------------------------------------------
(* What is invariant.  *)

(* The scheduler has decided a step the runner has not applied yet.  Until
   then the runner lags behind the queues by what the step reports. *)
AtRunner == out # NoStep /\ submit = None

Ended   == IF AtRunner THEN out.fin ELSE finPend
Gone    == IF AtRunner THEN out.fin \cup out.pre ELSE finPend \cup prePend
New     == IF AtRunner THEN out.new ELSE {}
Joining == IF AtRunner THEN out.new \cup out.resumed ELSE {}
Opening == IF AtRunner THEN out.final ELSE {}

Live(r) == status[r] \in {"partial", "decode", "preempted"}

AdapterTypes ==
  /\ batch \in Seq(Reqs)
  /\ device \in [Slots -> Reqs \cup {NoReq}]
  /\ session \in [Slots -> Reqs \cup {NoReq}]

(* The queues and the step in transit: a report names only requests that
   have left, unless the same step brings them back. *)
Report ==
  /\ Cardinality(Running) <= MaxNumSeqs
  /\ submit # None => out # NoStep
  /\ out # NoStep => finPend = {} /\ prePend = {}
  /\ AtRunner =>
       /\ Sched(out) \subseteq Running
       /\ out.final \subseteq Sched(out) \cap Decoding
       /\ out.decode => /\ out.new = {} /\ out.resumed = {} /\ out.final = {}
                        /\ out.cached \subseteq Decoding
       /\ ~out.decode => Sched(out) \cap Decoding \subseteq out.final
  /\ Gone \cap Running \subseteq Joining

(* The runner's requests and its batch. *)
Requests ==
  /\ \A r \in Reqs : Live(r) => r \in (known \ Ended) \cup New
  /\ AtRunner => out.resumed \cup out.cached \subseteq known \ out.fin
  /\ \A i, j \in DOMAIN batch : batch[i] = batch[j] => i = j
  /\ \A r \in Rows(batch) : Live(r) \/ r \in Ended
  /\ New \cap Rows(batch) \subseteq Ended

(* A slot has one claim, of a request that runs or whose end is still to be
   applied, and holds that request's state. *)
SlotMap ==
  /\ \A r, q \in Reqs : slotOf[r] # NoSlot /\ slotOf[r] = slotOf[q] => r = q
  /\ \A r \in Reqs : slotOf[r] # NoSlot => r \in Running \cup Gone /\ device[slotOf[r]] = r
  /\ \A r \in Running \ Joining : slotOf[r] # NoSlot

(* A slot's session is that of its claim, and a request that decodes has one. *)
Sessions ==
  /\ \A s \in Slots : session[s] # NoReq =>
       /\ session[s] \in (Decoding \ Opening) \cup Gone
       /\ slotOf[session[s]] = s
  /\ \A r \in Decoding \ Opening : session[slotOf[r]] = r

(* A gather that is about to run reads every slot once and brings each row
   its request's state; what is to be settled is its effect on the map. *)
Built ==
  submit # None =>
    /\ \A i, j \in Slots : submit[i] = submit[j] => i = j
    /\ \A i \in DOMAIN batch : submit[i - 1] = slotOf[batch[i]]
    /\ IF Identity(submit) THEN settle = None /\ moves = None
                           ELSE settle = Gathered(submit, slotOf) /\ moves = submit

IInv ==
  TypeOK /\ AdapterTypes /\ NoFault /\ Report /\ Requests /\ SlotMap /\ Sessions /\ Built

-----------------------------------------------------------------------------
(* The scheduler's steps. *)

(* A new engine satisfies the invariant. *)
LEMMA InitIInv == Init => IInv
<1> SUFFICES ASSUME Init PROVE IInv
  OBVIOUS
<1>1. Running = {} /\ Decoding = {}
  BY DEF Init, SchedInit, Running, PartialPrefill, Decoding
<1>2. Cardinality(Running) = 0 /\ MaxNumSeqs \in Nat /\ 0 \in Gens
  BY <1>1, FS_EmptySet, SchedulerAssumption DEF Gens
<1>3. TypeOK
  <2>1. SchedTypeOK
    BY <1>2 DEF Init, SchedInit, SchedTypeOK, Runs, NoRuns
  <2>2. Rows(batch) \subseteq Reqs /\ Len(batch) <= NumSlots
    BY SlotsFinite DEF Init, Rows
  <2> QED BY <1>2, <2>1, <2>2 DEF Init, TypeOK
<1>4. AdapterTypes /\ NoFault
  BY DEF Init, AdapterTypes, NoFault
<1>5. ~AtRunner /\ Gone = {} /\ submit = None /\ Rows(batch) = {} /\ DOMAIN batch = {}
  BY DEF Init, SchedInit, AtRunner, Gone, Rows
<1>6. Report
  BY <1>1, <1>2, <1>5 DEF Init, SchedInit, Report
<1>7. Requests
  BY <1>5 DEF Init, SchedInit, Requests, Live, New
<1>8. SlotMap /\ Sessions
  BY <1>1, <1>5 DEF Init, SlotMap, Sessions
<1>9. Built
  BY <1>5 DEF Built
<1> QED BY <1>3, <1>4, <1>6, <1>7, <1>8, <1>9 DEF IInv

(* The policy's counters stay natural numbers. *)
LEMMA RecordStepType ==
  ASSUME NEW rs \in Runs, NEW d \in BOOLEAN, NEW p \in BOOLEAN
  PROVE  RecordStep(rs, d, p) \in Runs
  BY InterleaveAssumption DEF RecordStep, Runs, NoRuns

(* The generations that follow are generations. *)
LEMMA NextGenType ==
  ASSUME kvGen \in [Reqs -> Gens], NEW S
  PROVE  NextGen(S) \in [Reqs -> Gens]
<1>1. KvGens \in Nat \ {0}
  BY SchedulerAssumption
<1>2. \A g \in Gens : (g + 1) % KvGens \in Gens
  BY <1>1 DEF Gens
<1> QED BY <1>2 DEF NextGen

(* What every schedule() has in common: it preempts `pre' and advances
   `cached' among the running, admits `new' and `resumed' from the queues
   within the cap, and completes the prompts of `final'. *)
Scheduled(d, pre, new, resumed, cached, final) ==
  /\ out = NoStep
  /\ pre \subseteq Running
  /\ cached \subseteq Running \ pre
  /\ new \subseteq {r \in Reqs : status[r] = "waiting"}
  /\ resumed \subseteq {r \in Reqs : status[r] = "preempted"}
  /\ new \cup resumed # {} => Cardinality(Running \cup (new \cup resumed)) <= MaxNumSeqs
  /\ final \subseteq new \cup resumed \cup cached
  /\ d => new = {} /\ resumed = {} /\ final = {} /\ cached \subseteq Decoding
  /\ ~d => cached \subseteq PartialPrefill
  /\ Emit(d, pre, new, resumed, cached, final)

(* Each of the three kinds of schedule() is one of these. *)
LEMMA ScheduleShape ==
  ASSUME Schedule
  PROVE  \E d \in BOOLEAN, pre, new, resumed, cached, final \in SUBSET Reqs :
           Scheduled(d, pre, new, resumed, cached, final)
<1>1. CASE \E adv \in SUBSET PartialPrefill : \E pre \in SUBSET (PartialPrefill \ adv) :
             \E adm \in SUBSET Waiting : SchedulePrefillOnly(adv, pre, adm)
  <2>1. PICK adv \in SUBSET PartialPrefill : \E pre \in SUBSET (PartialPrefill \ adv) :
             \E adm \in SUBSET Waiting : SchedulePrefillOnly(adv, pre, adm)
    BY <1>1
  <2>2. PICK pre \in SUBSET (PartialPrefill \ adv) :
             \E adm \in SUBSET Waiting : SchedulePrefillOnly(adv, pre, adm)
    BY <2>1
  <2>3. PICK adm \in SUBSET Waiting : SchedulePrefillOnly(adv, pre, adm)
    BY <2>2
  <2> DEFINE new == {r \in adm : status[r] = "waiting"}
             resumed == {r \in adm : status[r] = "preempted"}
  <2>4. adm = new \cup resumed /\ pre \subseteq Reqs /\ adv \subseteq Reqs
        /\ new \subseteq Reqs /\ resumed \subseteq Reqs
    BY DEF Waiting, PartialPrefill
  <2>5. PICK final \in SUBSET (adv \cup adm) : Emit(FALSE, pre, new, resumed, adv, final)
    BY <2>3 DEF SchedulePrefillOnly
  <2>6. adm # {} => Cardinality(Running \cup adm) <= MaxNumSeqs
    BY <2>3 DEF SchedulePrefillOnly, BasePass
  <2>7. out = NoStep
    BY <2>3 DEF SchedulePrefillOnly
  <2>8. pre \subseteq Running /\ adv \subseteq Running \ pre /\ adv \subseteq PartialPrefill
    BY DEF Running
  <2>9. new \subseteq {r \in Reqs : status[r] = "waiting"}
        /\ resumed \subseteq {r \in Reqs : status[r] = "preempted"}
    BY <2>4
  <2> HIDE DEF new, resumed
  <2>10. final \subseteq new \cup resumed \cup adv /\ final \in SUBSET Reqs
    BY <2>4
  <2>11. Scheduled(FALSE, pre, new, resumed, adv, final)
    BY <2>4, <2>5, <2>6, <2>7, <2>8, <2>9, <2>10 DEF Scheduled
  <2> QED BY <2>4, <2>10, <2>11
<1>2. CASE \E prePrefill \in SUBSET PartialPrefill : \E adv \in SUBSET Decoding :
             \E pre \in SUBSET (Decoding \ adv) : ScheduleFallback(prePrefill, adv, pre)
  <2>1. PICK prePrefill \in SUBSET PartialPrefill : \E adv \in SUBSET Decoding :
             \E pre \in SUBSET (Decoding \ adv) : ScheduleFallback(prePrefill, adv, pre)
    BY <1>2
  <2>2. PICK adv \in SUBSET Decoding :
             \E pre \in SUBSET (Decoding \ adv) : ScheduleFallback(prePrefill, adv, pre)
    BY <2>1
  <2>3. PICK pre \in SUBSET (Decoding \ adv) : ScheduleFallback(prePrefill, adv, pre)
    BY <2>2
  <2>4. out = NoStep /\ Emit(TRUE, prePrefill \cup pre, {}, {}, adv, {})
    BY <2>3 DEF ScheduleFallback
  <2>5. prePrefill \cup pre \subseteq Running /\ adv \subseteq Running \ (prePrefill \cup pre)
        /\ Running \subseteq Reqs
    BY DEF Running, PartialPrefill, Decoding
  <2>6. Scheduled(TRUE, prePrefill \cup pre, {}, {}, adv, {})
    BY <2>4, <2>5 DEF Scheduled
  <2> QED BY <2>5, <2>6
<1>3. CASE \E adv \in SUBSET Decoding : \E pre \in SUBSET (Decoding \ adv) :
             ScheduleDecodeOnly(adv, pre)
  <2>1. PICK adv \in SUBSET Decoding : \E pre \in SUBSET (Decoding \ adv) :
             ScheduleDecodeOnly(adv, pre)
    BY <1>3
  <2>2. PICK pre \in SUBSET (Decoding \ adv) : ScheduleDecodeOnly(adv, pre)
    BY <2>1
  <2>3. out = NoStep /\ Emit(TRUE, pre, {}, {}, adv, {})
    BY <2>2 DEF ScheduleDecodeOnly
  <2>4. pre \subseteq Running /\ adv \subseteq Running \ pre /\ Running \subseteq Reqs
    BY DEF Running, PartialPrefill, Decoding
  <2>5. Scheduled(TRUE, pre, {}, {}, adv, {})
    BY <2>3, <2>4 DEF Scheduled
  <2> QED BY <2>4, <2>5
<1> QED BY <1>1, <1>2, <1>3 DEF Schedule

(* What the scheduler's own steps leave alone. *)
RunnerKeeps == UNCHANGED <<batchVars, slotVars, submit, adapterVars, fault>>

(* The types of what the runner keeps. *)
LEMMA RunnerKeepsTypes ==
  ASSUME IInv, RunnerKeeps, SchedTypeOK'
  PROVE  /\ TypeOK' /\ AdapterTypes' /\ NoFault'
         /\ UNCHANGED <<known, batch, reqKv, rowKv, slotOf, settle, moves, submit,
                        device, session, fault, layoutChanged>>
         /\ Rows(batch') = Rows(batch)
<1>1. UNCHANGED <<known, batch, reqKv, rowKv, slotOf, settle, moves, submit,
                  device, session, fault, layoutChanged>>
  BY DEF RunnerKeeps, batchVars, slotVars, adapterVars
<1>2. Rows(batch') = Rows(batch)
  BY <1>1 DEF Rows
<1> QED BY <1>1, <1>2 DEF IInv, TypeOK, AdapterTypes, NoFault

(* An arrival. *)
LEMMA AddRequestIInv ==
  ASSUME IInv, NEW r \in Reqs, AddRequest(r), RunnerKeeps
  PROVE  IInv'
<1>1. SchedTypeOK'
  BY DEF IInv, TypeOK, SchedTypeOK, AddRequest
<1>2. /\ TypeOK' /\ AdapterTypes' /\ NoFault'
      /\ UNCHANGED <<known, batch, slotOf, settle, moves, submit, device, session>>
      /\ Rows(batch') = Rows(batch)
  BY <1>1, RunnerKeepsTypes
<1>3. /\ out = NoStep /\ submit = None /\ ~AtRunner /\ ~AtRunner'
      /\ UNCHANGED <<out, finPend, prePend>>
  BY <1>2 DEF AddRequest, AtRunner, IInv, Report
<1>4. status[r] = "idle" /\ status' = [status EXCEPT ![r] = "waiting"]
      /\ status \in [Reqs -> {"idle", "waiting", "preempted", "partial", "decode"}]
  BY DEF AddRequest, IInv, TypeOK, SchedTypeOK
<1>5. Running' = Running /\ Decoding' = Decoding
  BY <1>4 DEF Running, Decoding, PartialPrefill
<1>6. /\ Ended' = Ended /\ Gone' = Gone /\ New' = New /\ Joining' = Joining
      /\ Opening' = Opening
  BY <1>3 DEF Ended, Gone, New, Joining, Opening
<1>7. \A q \in Reqs : Live(q)' = Live(q)
  BY <1>4 DEF Live
<1>8. Report'
  BY <1>2, <1>3, <1>5, <1>6 DEF IInv, Report
<1>9. Requests'
  <2>1. \A q \in Rows(batch) : q \in Reqs
    BY DEF IInv, TypeOK
  <2> QED BY <1>2, <1>3, <1>6, <1>7, <2>1 DEF IInv, Requests
<1>10. SlotMap'
  BY <1>2, <1>5, <1>6 DEF IInv, SlotMap
<1>11. Sessions'
  BY <1>2, <1>5, <1>6 DEF IInv, Sessions
<1>12. Built'
  BY <1>2, <1>3 DEF Built
<1> QED BY <1>2, <1>8, <1>9, <1>10, <1>11, <1>12 DEF IInv

(* A stop or an abort: the claim stays until the end is applied. *)
LEMMA FinishRequestIInv ==
  ASSUME IInv, NEW r \in Reqs, FinishRequest(r), RunnerKeeps
  PROVE  IInv'
<1>0. 0 \in Gens
  BY SchedulerAssumption DEF Gens
<1>1. SchedTypeOK'
  BY <1>0 DEF IInv, TypeOK, SchedTypeOK, FinishRequest
<1>2. /\ TypeOK' /\ AdapterTypes' /\ NoFault'
      /\ UNCHANGED <<known, batch, slotOf, settle, moves, submit, device, session>>
      /\ Rows(batch') = Rows(batch)
  BY <1>1, RunnerKeepsTypes
<1>3. /\ out = NoStep /\ out' = NoStep /\ submit = None /\ ~AtRunner /\ ~AtRunner'
      /\ finPend' = finPend \cup {r} /\ prePend \ {r} \subseteq prePend'
      /\ prePend' \subseteq prePend
  BY <1>2 DEF FinishRequest, AtRunner, IInv, Report
<1>4. status' = [status EXCEPT ![r] = "idle"]
      /\ status \in [Reqs -> {"idle", "waiting", "preempted", "partial", "decode"}]
  BY DEF FinishRequest, IInv, TypeOK, SchedTypeOK
<1>5. Running' = Running \ {r} /\ Decoding' = Decoding \ {r}
  BY <1>4 DEF Running, Decoding, PartialPrefill
<1>6. /\ Ended' = Ended \cup {r} /\ Gone' = Gone \cup {r}
      /\ New' = {} /\ Joining' = {} /\ Opening' = {}
      /\ New = {} /\ Joining = {} /\ Opening = {}
  BY <1>3 DEF Ended, Gone, New, Joining, Opening
<1>7. (\A q \in Reqs \ {r} : Live(q)' = Live(q)) /\ ~Live(r)'
  BY <1>4 DEF Live
<1>8. Report'
  <2>1. IsFiniteSet(Running) /\ Cardinality(Running) \in Nat
    BY SchedulerAssumption, FS_Subset, FS_CardinalityType DEF Running, PartialPrefill, Decoding
  <2>2. Cardinality(Running') <= Cardinality(Running) /\ Cardinality(Running') \in Nat
    BY <1>5, <2>1, FS_Subset, FS_CardinalityType
  <2>3. Cardinality(Running') <= MaxNumSeqs
    BY <2>1, <2>2, SchedulerAssumption DEF IInv, Report
  <2> QED BY <1>2, <1>3, <1>5, <1>6, <2>3 DEF IInv, Report
<1>9. Requests'
  <2>1. \A q \in Rows(batch) : q \in Reqs
    BY DEF IInv, TypeOK
  <2> QED BY <1>2, <1>3, <1>6, <1>7, <2>1 DEF IInv, Requests
<1>10. SlotMap'
  BY <1>2, <1>5, <1>6 DEF IInv, SlotMap
<1>11. Sessions'
  BY <1>2, <1>5, <1>6 DEF IInv, Sessions
<1>12. Built'
  BY <1>2, <1>3 DEF Built
<1> QED BY <1>2, <1>8, <1>9, <1>10, <1>11, <1>12 DEF IInv

(* reset_prefix_cache: whatever runs is preempted, and to be reported. *)
LEMMA ResetPrefixCacheIInv ==
  ASSUME IInv, ResetPrefixCache, RunnerKeeps
  PROVE  IInv'
<1>0. kvGen' \in [Reqs -> Gens]
  BY NextGenType DEF IInv, TypeOK, SchedTypeOK, ResetPrefixCache
<1>1. SchedTypeOK'
  BY <1>0 DEF IInv, TypeOK, SchedTypeOK, ResetPrefixCache, Running, PartialPrefill, Decoding
<1>2. /\ TypeOK' /\ AdapterTypes' /\ NoFault'
      /\ UNCHANGED <<known, batch, slotOf, settle, moves, submit, device, session>>
      /\ Rows(batch') = Rows(batch)
  BY <1>1, RunnerKeepsTypes
<1>3. /\ out = NoStep /\ out' = NoStep /\ submit = None /\ ~AtRunner /\ ~AtRunner'
      /\ finPend' = finPend /\ prePend' = prePend \cup Running
  BY <1>2 DEF ResetPrefixCache, AtRunner, IInv, Report
<1>4. status' = [r \in Reqs |-> IF r \in Running THEN "preempted" ELSE status[r]]
  BY DEF ResetPrefixCache
<1>5. Running' = {} /\ Decoding' = {} /\ Decoding \subseteq Running /\ Running \subseteq Reqs
  BY <1>4 DEF Running, Decoding, PartialPrefill
<1>6. /\ Ended' = Ended /\ Gone' = Gone \cup Running
      /\ New' = {} /\ Joining' = {} /\ Opening' = {}
      /\ New = {} /\ Joining = {} /\ Opening = {}
  BY <1>3 DEF Ended, Gone, New, Joining, Opening
<1>7. \A q \in Reqs : Live(q)' = Live(q)
  BY <1>4 DEF Live, Running, PartialPrefill, Decoding
<1>8. Report'
  <2>1. Cardinality(Running') = 0 /\ MaxNumSeqs \in Nat
    BY <1>5, SchedulerAssumption, FS_EmptySet
  <2> QED BY <1>2, <1>3, <1>5, <2>1 DEF Report
<1>9. Requests'
  <2>1. \A q \in Rows(batch) : q \in Reqs
    BY DEF IInv, TypeOK
  <2> QED BY <1>2, <1>3, <1>6, <1>7, <2>1 DEF IInv, Requests
<1>10. SlotMap'
  BY <1>2, <1>5, <1>6 DEF IInv, SlotMap
<1>11. Sessions'
  BY <1>2, <1>5, <1>6 DEF IInv, Sessions
<1>12. Built'
  BY <1>2, <1>3 DEF Built
<1> QED BY <1>2, <1>8, <1>9, <1>10, <1>11, <1>12 DEF IInv

(* schedule(): from here on the runner lags behind by the new step. *)
LEMMA ScheduleIInv ==
  ASSUME IInv, NEW d \in BOOLEAN,
         NEW pre \in SUBSET Reqs, NEW new \in SUBSET Reqs, NEW resumed \in SUBSET Reqs,
         NEW cached \in SUBSET Reqs, NEW final \in SUBSET Reqs,
         Scheduled(d, pre, new, resumed, cached, final), RunnerKeeps
  PROVE  IInv'
<1> DEFINE sched == new \cup resumed \cup cached
<1>0. /\ out = NoStep
      /\ pre \subseteq Running
      /\ cached \subseteq Running \ pre
      /\ new \subseteq {r \in Reqs : status[r] = "waiting"}
      /\ resumed \subseteq {r \in Reqs : status[r] = "preempted"}
      /\ new \cup resumed # {} => Cardinality(Running \cup (new \cup resumed)) <= MaxNumSeqs
      /\ final \subseteq sched
      /\ d => new = {} /\ resumed = {} /\ final = {} /\ cached \subseteq Decoding
      /\ ~d => cached \subseteq PartialPrefill
  BY DEF Scheduled
<1>1. /\ status' = [r \in Reqs |-> IF r \in pre THEN "preempted"
                               ELSE IF r \in final THEN "decode"
                               ELSE IF r \in sched /\ ~d THEN "partial"
                               ELSE status[r]]
      /\ kvGen' = NextGen(pre)
      /\ out' = [step |-> TRUE, decode |-> d, fin |-> finPend, pre |-> prePend \cup pre,
                 new |-> new, resumed |-> resumed, cached |-> cached, final |-> final]
      /\ finPend' = {} /\ prePend' = {}
      /\ runs' = RecordStep(runs, d, HasPendingPrefill)
  BY DEF Scheduled, Emit
<1>2. /\ status \in [Reqs -> {"idle", "waiting", "preempted", "partial", "decode"}]
      /\ finPend \in SUBSET Reqs /\ prePend \in SUBSET Reqs
  BY DEF IInv, TypeOK, SchedTypeOK
<1>3. SchedTypeOK'
  <2>1. kvGen' \in [Reqs -> Gens]
    BY <1>1, NextGenType DEF IInv, TypeOK, SchedTypeOK
  <2>2. runs' \in Runs
    BY <1>1, RecordStepType DEF IInv, TypeOK, SchedTypeOK, HasPendingPrefill
  <2>3. out' \in Step
    BY <1>1, <1>2 DEF Step
  <2>4. status' \in [Reqs -> {"idle", "waiting", "preempted", "partial", "decode"}]
    BY <1>1, <1>2
  <2> QED BY <1>1, <2>1, <2>2, <2>3, <2>4 DEF SchedTypeOK
<1>4. /\ TypeOK' /\ AdapterTypes' /\ NoFault'
      /\ UNCHANGED <<known, batch, slotOf, settle, moves, submit, device, session>>
      /\ Rows(batch') = Rows(batch)
  BY <1>3, RunnerKeepsTypes
<1>5. out'.step = TRUE /\ out' # NoStep
  BY <1>1 DEF NoStep
<1>6. submit = None /\ submit' = None /\ AtRunner' /\ ~AtRunner
  BY <1>0, <1>4, <1>5 DEF AtRunner, IInv, Report
<1>7. /\ Ended' = Ended /\ Gone' = Gone \cup pre
      /\ New' = new /\ Joining' = new \cup resumed /\ Opening' = final
      /\ New = {} /\ Joining = {} /\ Opening = {}
      /\ Ended = finPend
  BY <1>1, <1>6 DEF Ended, Gone, New, Joining, Opening
<1>8. Sched(out') = sched
  BY <1>1 DEF Sched
<1>9. Running' = (Running \ pre) \cup new \cup resumed
  <2>1. \A r \in Reqs : r \in Running' <=> r \in (Running \ pre) \cup new \cup resumed
    BY <1>0, <1>1, <1>2 DEF Running, PartialPrefill, Decoding
  <2> QED BY <1>0, <2>1 DEF Running, PartialPrefill, Decoding
<1>10. Decoding' = (Decoding \ pre) \cup final
  <2>1. \A r \in Reqs : r \in Decoding' <=> r \in (Decoding \ pre) \cup final
    BY <1>0, <1>1, <1>2 DEF Running, PartialPrefill, Decoding
  <2> QED BY <1>0, <2>1 DEF Decoding
<1>11. \A r \in Reqs : Live(r)' <=> Live(r) \/ r \in new
  BY <1>0, <1>1, <1>2 DEF Live, Running, PartialPrefill, Decoding
<1>12. Running \subseteq Reqs /\ Decoding \subseteq Running
  BY DEF Running, Decoding, PartialPrefill
<1>13. \A r \in new \cup resumed : r \notin Running
  BY <1>0 DEF Running, Decoding, PartialPrefill
<1>14. Report'
  <2>1. Cardinality(Running') <= MaxNumSeqs
    <3>1. IsFiniteSet(Reqs) /\ Running' \subseteq Running \cup (new \cup resumed)
      BY <1>9, SchedulerAssumption
    <3>2. IsFiniteSet(Running \cup (new \cup resumed))
      BY <1>12, <3>1, FS_Subset
    <3>3. /\ Cardinality(Running') <= Cardinality(Running \cup (new \cup resumed))
          /\ Cardinality(Running') \in Nat
          /\ Cardinality(Running \cup (new \cup resumed)) \in Nat
      BY <3>1, <3>2, FS_Subset, FS_CardinalityType
    <3>4. CASE new \cup resumed = {}
      <4>1. Running \cup (new \cup resumed) = Running
        BY <3>4
      <4> QED BY <3>3, <4>1, SchedulerAssumption DEF IInv, Report
    <3>5. CASE new \cup resumed # {}
      BY <1>0, <3>3, <3>5, SchedulerAssumption
    <3> QED BY <3>4, <3>5
  <2>2. sched \subseteq Running'
    BY <1>0, <1>9
  <2>3. final \subseteq sched \cap Decoding'
    BY <1>0, <1>10
  <2>4. d => cached \subseteq Decoding'
    BY <1>0, <1>10
  <2>5. ~d => sched \cap Decoding' \subseteq final
    BY <1>0, <1>10, <1>12, <1>13 DEF PartialPrefill, Decoding
  <2>6. Gone' \cap Running' \subseteq Joining'
    BY <1>7, <1>9 DEF IInv, Report
  <2>7. out'.decode = d /\ out'.new = new /\ out'.resumed = resumed
        /\ out'.cached = cached /\ out'.final = final
    BY <1>1
  <2>8. finPend' = {} /\ prePend' = {}
    BY <1>1
  <2> HIDE DEF sched
  <2>9. /\ Sched(out') \subseteq Running'
        /\ out'.final \subseteq Sched(out') \cap Decoding'
        /\ out'.decode => /\ out'.new = {} /\ out'.resumed = {} /\ out'.final = {}
                         /\ out'.cached \subseteq Decoding'
        /\ ~out'.decode => Sched(out') \cap Decoding' \subseteq out'.final
    BY <1>0, <1>8, <2>2, <2>3, <2>4, <2>5, <2>7
  <2> QED BY <1>5, <2>1, <2>6, <2>8, <2>9 DEF Report, Sched
<1>15. Requests'
  <2>1. Rows(batch) \subseteq Reqs
    BY DEF IInv, TypeOK
  <2>2. /\ \A r \in Reqs : Live(r) => r \in known \ finPend
        /\ \A i, j \in DOMAIN batch : batch[i] = batch[j] => i = j
        /\ \A r \in Rows(batch) : Live(r) \/ r \in finPend
    BY <1>7 DEF IInv, Requests
  <2>3. \A r \in resumed \cup cached : Live(r)
    BY <1>0 DEF Live, Running, PartialPrefill, Decoding
  <2>4. \A r \in new : ~Live(r)
    BY <1>0 DEF Live
  <2>5. out'.resumed = resumed /\ out'.cached = cached /\ out'.fin = finPend
    BY <1>1
  <2> QED BY <1>4, <1>7, <1>11, <2>1, <2>2, <2>3, <2>4, <2>5 DEF Requests
<1>16. SlotMap'
  BY <1>0, <1>4, <1>7, <1>9 DEF IInv, SlotMap
<1>17. Sessions'
  <2>1. \A r \in final : r \notin Decoding
    BY <1>0, <1>12, <1>13 DEF PartialPrefill, Decoding
  <2>2. \A r \in Decoding : r \in (Decoding' \ Opening') \cup Gone'
    BY <1>7, <1>10, <2>1
  <2>3. \A r \in Decoding' \ Opening' : r \in Decoding
    BY <1>7, <1>10
  <2> QED BY <1>4, <1>7, <2>2, <2>3 DEF IInv, Sessions
<1>18. Built'
  BY <1>6 DEF Built
<1> QED BY <1>4, <1>14, <1>15, <1>16, <1>17, <1>18 DEF IInv

-----------------------------------------------------------------------------
(* The runner's steps. *)

(* The scheduled step, as the runner finds it. *)
LEMMA AtRunnerFacts ==
  ASSUME IInv, AtRunner
  PROVE  /\ out \in Step /\ submit = None
         /\ Ended = out.fin /\ Gone = out.fin \cup out.pre /\ New = out.new
         /\ Joining = out.new \cup out.resumed /\ Opening = out.final
         /\ out.resumed \cup out.cached \subseteq known \ out.fin
         /\ Sched(out) \subseteq Running /\ Running \subseteq Reqs
         /\ out.fin \subseteq Reqs /\ out.pre \subseteq Reqs
         /\ finPend = {} /\ prePend = {}
         /\ Decoding \cap Joining \subseteq Opening
<1>1. out \in Step /\ submit = None
  BY DEF AtRunner, IInv, TypeOK, SchedTypeOK
<1>2. Sched(out) \subseteq Running /\ Running \subseteq Reqs
  BY DEF IInv, Report, Running, PartialPrefill, Decoding
<1>3. Decoding \cap Joining \subseteq Opening
  BY DEF AtRunner, IInv, Report, Joining, Opening, Sched
<1> QED BY <1>1, <1>2, <1>3
        DEF AtRunner, IInv, Report, Requests, Ended, Gone, New, Joining, Opening, Step

(* _update_states makes the batch the step's requests. *)
LEMMA UpdateStatesFacts ==
  ASSUME IInv, AtRunner, UpdateStates(out)
  PROVE  /\ batch' \in Seq(Reqs) /\ Rows(batch') = Sched(out)
         /\ Len(batch') = Cardinality(Sched(out)) /\ IsFiniteSet(Sched(out))
         /\ Len(batch') <= NumSlots
         /\ \A i, j \in DOMAIN batch' : batch'[i] = batch'[j] => i = j
         /\ known' = (known \ out.fin) \cup out.new /\ known' \subseteq Reqs
         /\ reqKv' \in [Reqs -> SUBSET Gens] /\ rowKv' \in [Reqs -> SUBSET Gens]
         /\ layoutChanged' \in BOOLEAN
<1>1. /\ out \in Step /\ out.resumed \cup out.cached \subseteq known \ out.fin
      /\ Sched(out) \subseteq Running /\ Running \subseteq Reqs
      /\ New = out.new /\ Ended = out.fin
  BY AtRunnerFacts
<1>2. AddedRows(out) \subseteq Reqs
  BY <1>1 DEF AddedRows, Step
<1>3. batch \in Seq(Reqs) /\ \A i, j \in DOMAIN batch : batch[i] = batch[j] => i = j
  BY DEF IInv, AdapterTypes, Requests
<1>4. AddedRows(out) \cap (Rows(batch) \ Removed(out)) = {}
  <2>1. out.new \cap Rows(batch) \subseteq out.fin
    BY <1>1 DEF IInv, Requests
  <2> QED BY <2>1 DEF AddedRows, Removed
<1>5. batch' \in Repacked(batch, Removed(out), AddedRows(out))
  BY DEF UpdateStates
<1>6. /\ batch' \in Seq(Reqs)
      /\ Rows(batch') = (Rows(batch) \ Removed(out)) \cup AddedRows(out)
      /\ Len(batch') = Cardinality(Rows(batch')) /\ IsFiniteSet(Rows(batch'))
      /\ \A i, j \in DOMAIN batch' : batch'[i] = batch'[j] => i = j
  BY <1>2, <1>3, <1>4, <1>5, RepackedRows
<1>7. Rows(batch') = Sched(out)
  <2>1. Rows(batch) \subseteq Reqs
    BY DEF IInv, TypeOK
  <2> QED BY <1>6, <2>1 DEF Removed, AddedRows, Sched
<1>8. Cardinality(Sched(out)) <= NumSlots
  <2>1. IsFiniteSet(Running) /\ Cardinality(Running) \in Nat
    BY <1>1, SchedulerAssumption, FS_Subset, FS_CardinalityType
  <2>2. Cardinality(Sched(out)) <= Cardinality(Running) /\ Cardinality(Sched(out)) \in Nat
    BY <1>1, <2>1, FS_Subset, FS_CardinalityType
  <2> QED BY <2>1, <2>2, SchedulerAssumption DEF IInv, Report, NumSlots
<1>9. known' = (known \ out.fin) \cup out.new /\ known' \subseteq Reqs
  BY <1>1 DEF UpdateStates, IInv, TypeOK, Step
<1>10. /\ reqKv \in [Reqs -> SUBSET Gens] /\ rowKv \in [Reqs -> SUBSET Gens]
       /\ kvGen \in [Reqs -> Gens] /\ layoutChanged \in BOOLEAN
  BY DEF IInv, TypeOK, SchedTypeOK
<1>11. reqKv' = ReqKvAfter(out) /\ rowKv' = RowKvAfter(out)
  BY DEF UpdateStates
<1>12. reqKv' \in [Reqs -> SUBSET Gens]
  BY <1>10, <1>11 DEF ReqKvAfter
<1>13. rowKv' \in [Reqs -> SUBSET Gens]
  BY <1>10, <1>11, <1>12 DEF RowKvAfter
<1>14. layoutChanged' \in BOOLEAN
  BY <1>10 DEF UpdateStates, LayoutChanged
<1> QED BY <1>6, <1>7, <1>8, <1>9, <1>12, <1>13, <1>14

(* What is left of the slot map names the running requests that keep their
   state, and the adapter still holds it. *)
LEMMA LiveSlotsFacts ==
  ASSUME IInv, AtRunner, NEW live, live = LiveSlots(out)
  PROVE  /\ live \in [Reqs -> Slots \cup {NoSlot}]
         /\ \A r \in Reqs : live[r] # NoSlot =>
              /\ live[r] = slotOf[r] /\ live[r] \in Slots /\ r \in Running
              /\ live[r] \notin ReleasedSlots(out)
              /\ device[live[r]] = r
              /\ Unreleased(out, device)[live[r]] = r
         /\ \A r \in Running \ Joining : live[r] # NoSlot
         /\ \A r, q \in Reqs : live[r] # NoSlot /\ live[r] = live[q] => r = q
         /\ \A s \in Slots : Unreleased(out, session)[s] # NoReq =>
              /\ Unreleased(out, session)[s] \in Decoding \ Opening
              /\ live[Unreleased(out, session)[s]] = s
         /\ \A r \in Decoding \ Opening :
              live[r] # NoSlot /\ Unreleased(out, session)[live[r]] = r
<1>1. /\ out \in Step /\ Gone = out.fin \cup out.pre
      /\ out.fin \subseteq Reqs /\ out.pre \subseteq Reqs /\ Running \subseteq Reqs
      /\ Decoding \cap Joining \subseteq Opening
  BY AtRunnerFacts
<1>2. slotOf \in [Reqs -> Slots \cup {NoSlot}]
  BY DEF IInv, TypeOK
<1>3. /\ \A r, q \in Reqs : slotOf[r] # NoSlot /\ slotOf[r] = slotOf[q] => r = q
      /\ \A r \in Reqs : slotOf[r] # NoSlot => r \in Running \cup Gone /\ device[slotOf[r]] = r
      /\ \A r \in Running \ Joining : slotOf[r] # NoSlot
  BY DEF IInv, SlotMap
<1>4. \A r \in Reqs : live[r] = IF r \in Gone THEN NoSlot ELSE slotOf[r]
  BY <1>1 DEF LiveSlots
<1>5. live \in [Reqs -> Slots \cup {NoSlot}]
  BY <1>1, <1>2 DEF LiveSlots
<1>6. ReleasedSlots(out) = {slotOf[r] : r \in Gone} /\ Gone \subseteq Reqs
  BY <1>1 DEF ReleasedSlots
<1>7. \A r \in Reqs : live[r] # NoSlot =>
         /\ live[r] = slotOf[r] /\ live[r] \in Slots /\ r \in Running
         /\ live[r] \notin ReleasedSlots(out)
         /\ device[live[r]] = r
  BY <1>2, <1>3, <1>4, <1>6
<1>8. \A r \in Running \ Joining : live[r] # NoSlot
  BY <1>1, <1>3, <1>4 DEF IInv, Report
<1>9. \A s \in Slots : s \notin ReleasedSlots(out) =>
        /\ Unreleased(out, device)[s] = device[s]
        /\ Unreleased(out, session)[s] = session[s]
  BY DEF Unreleased
<1>10. ASSUME NEW s \in Slots, Unreleased(out, session)[s] # NoReq
       PROVE  /\ Unreleased(out, session)[s] \in Decoding \ Opening
              /\ live[Unreleased(out, session)[s]] = s
  <2>1. s \notin ReleasedSlots(out) /\ Unreleased(out, session)[s] = session[s]
    BY <1>10 DEF Unreleased
  <2>2. /\ session[s] \in (Decoding \ Opening) \cup Gone
        /\ slotOf[session[s]] = s
    BY <1>10, <2>1 DEF IInv, Sessions
  <2>3. session[s] \notin Gone
    BY <1>6, <2>1, <2>2
  <2>4. session[s] \in Reqs
    BY <1>1, <2>2, <2>3 DEF Decoding
  <2> QED BY <1>4, <2>1, <2>2, <2>3, <2>4
<1>11. ASSUME NEW r \in Decoding \ Opening
       PROVE  live[r] # NoSlot /\ Unreleased(out, session)[live[r]] = r
  <2>1. r \in Running \ Joining /\ r \in Reqs
    BY <1>1 DEF Running, Decoding
  <2>2. live[r] # NoSlot
    BY <1>8, <2>1
  <2>3. session[slotOf[r]] = r
    BY DEF IInv, Sessions
  <2> QED BY <1>7, <1>9, <2>1, <2>2, <2>3
<1>12. \A r, q \in Reqs : live[r] # NoSlot /\ live[r] = live[q] => r = q
  BY <1>3, <1>7
<1>13. \A r \in Reqs : live[r] # NoSlot => Unreleased(out, device)[live[r]] = r
  BY <1>7, <1>9
<1> QED BY <1>5, <1>7, <1>8, <1>10, <1>11, <1>12, <1>13

(* The adapter's maps keep their types when states are released. *)
LEMMA UnreleasedType ==
  ASSUME NEW kept \in [Slots -> Reqs \cup {NoReq}], NEW o
  PROVE  Unreleased(o, kept) \in [Slots -> Reqs \cup {NoReq}]
  BY DEF Unreleased

(* Once the step is applied nothing is pending any more. *)
LEMMA AppliedFacts ==
  ASSUME IInv, AtRunner, UNCHANGED schedVars, out' = NoStep \/ submit' # None
  PROVE  /\ ~AtRunner' /\ Ended' = {} /\ Gone' = {} /\ New' = {}
         /\ Joining' = {} /\ Opening' = {}
         /\ Running' = Running /\ Decoding' = Decoding
         /\ finPend' = {} /\ prePend' = {}
         /\ \A r \in Reqs : Live(r)' = Live(r)
         /\ status' = status /\ kvGen' = kvGen /\ runs' = runs
<1>1. finPend = {} /\ prePend = {}
  BY AtRunnerFacts
<1> QED BY <1>1 DEF schedVars, AtRunner, Ended, Gone, New, Joining, Opening, Running,
                    PartialPrefill, Decoding, Live

(* The parts of the invariant that do not speak of slots. *)
LEMMA AppliedReport ==
  ASSUME IInv, AtRunner, UNCHANGED schedVars, UpdateStates(out),
         \/ out' = NoStep /\ submit' = None
         \/ out' = out /\ submit' # None
  PROVE  Report' /\ Requests' /\ SchedTypeOK' /\ Rows(batch') = Sched(out)
<1>1. /\ ~AtRunner' /\ Ended' = {} /\ Gone' = {} /\ New' = {}
      /\ Joining' = {} /\ Opening' = {}
      /\ Running' = Running /\ Decoding' = Decoding
      /\ finPend' = {} /\ prePend' = {}
      /\ \A r \in Reqs : Live(r)' = Live(r)
      /\ status' = status /\ kvGen' = kvGen /\ runs' = runs
  BY AppliedFacts
<1>2. out # NoStep
  BY DEF AtRunner
<1>3. Report'
  <2>1. Cardinality(Running)' <= MaxNumSeqs
    BY <1>1 DEF IInv, Report
  <2> QED BY <1>1, <1>2, <2>1 DEF Report
<1>4. /\ Rows(batch') = Sched(out) /\ known' = (known \ out.fin) \cup out.new
      /\ \A i, j \in DOMAIN batch' : batch'[i] = batch'[j] => i = j
  BY UpdateStatesFacts
<1>5. Requests'
  <2>1. /\ Ended = out.fin /\ New = out.new /\ Sched(out) \subseteq Running
        /\ Running \subseteq Reqs
    BY AtRunnerFacts
  <2>2. \A r \in Reqs : Live(r) => r \in known'
    BY <1>4, <2>1 DEF IInv, Requests
  <2>3. \A r \in Rows(batch') : r \in Reqs /\ Live(r)
    BY <1>4, <2>1 DEF Running, PartialPrefill, Decoding, Live
  <2> QED BY <1>1, <1>4, <2>2, <2>3 DEF Requests
<1>6. SchedTypeOK'
  BY <1>1 DEF IInv, TypeOK, SchedTypeOK
<1> QED BY <1>3, <1>4, <1>5, <1>6

(* A step that writes no state only gives up what was released. *)
LEMMA ReleasedKeeps ==
  ASSUME IInv, AtRunner, UNCHANGED schedVars, out' = NoStep \/ submit' # None,
         slotOf' = LiveSlots(out),
         device' = Unreleased(out, device), session' = Unreleased(out, session),
         out.new = {}, out.resumed = {}, out.final = {}
  PROVE  SlotMap' /\ Sessions'
<1>1. /\ Gone' = {} /\ Joining' = {} /\ Opening' = {}
      /\ Running' = Running /\ Decoding' = Decoding
  BY AppliedFacts
<1>2. Joining = {} /\ Opening = {}
  BY AtRunnerFacts
<1>3. /\ \A r \in Reqs : slotOf'[r] # NoSlot =>
           r \in Running /\ Unreleased(out, device)[slotOf'[r]] = r
      /\ \A r \in Running : slotOf'[r] # NoSlot
      /\ \A r, q \in Reqs : slotOf'[r] # NoSlot /\ slotOf'[r] = slotOf'[q] => r = q
      /\ \A s \in Slots : Unreleased(out, session)[s] # NoReq =>
           /\ Unreleased(out, session)[s] \in Decoding
           /\ slotOf'[Unreleased(out, session)[s]] = s
      /\ \A r \in Decoding : Unreleased(out, session)[slotOf'[r]] = r
  BY <1>2, LiveSlotsFacts
<1>4. SlotMap'
  BY <1>1, <1>3 DEF SlotMap
<1>5. Sessions'
  BY <1>1, <1>3 DEF Sessions
<1> QED BY <1>4, <1>5

(* The types after a step that is not a decode's: the parts all have. *)
LEMMA AppliedTypes ==
  ASSUME IInv, AtRunner, UpdateStates(out), SchedTypeOK',
         slotOf' \in [Reqs -> Slots \cup {NoSlot}],
         settle' \in [Reqs -> Slots \cup {NoSlot}] \cup {None},
         moves' \in [Slots -> Slots] \cup {None},
         submit' \in [Slots -> Slots] \cup {None},
         device' \in [Slots -> Reqs \cup {NoReq}],
         session' \in [Slots -> Reqs \cup {NoReq}],
         fault' = fault
  PROVE  TypeOK' /\ AdapterTypes' /\ NoFault'
<1>1. /\ batch' \in Seq(Reqs) /\ Rows(batch') = Sched(out) /\ Len(batch') <= NumSlots
      /\ known' \subseteq Reqs
      /\ reqKv' \in [Reqs -> SUBSET Gens] /\ rowKv' \in [Reqs -> SUBSET Gens]
      /\ layoutChanged' \in BOOLEAN
  BY UpdateStatesFacts
<1>2. Sched(out) \subseteq Reqs
  BY AtRunnerFacts
<1>3. Rows(batch)' \subseteq Reqs
  BY <1>1, <1>2 DEF Rows
<1> QED BY <1>1, <1>3 DEF IInv, TypeOK, AdapterTypes, NoFault

(* Nothing was scheduled. *)
LEMMA SkipStepIInv ==
  ASSUME IInv, AtRunner, UNCHANGED schedVars, UpdateStates(out),
         Sched(out) = {}, SkipStep(out)
  PROVE  IInv'
<1>1. submit = None /\ submit' = None /\ out' = NoStep
      /\ UNCHANGED <<settle, moves, submit, fault>>
      /\ slotOf' = LiveSlots(out)
      /\ device' = Unreleased(out, device) /\ session' = Unreleased(out, session)
  BY AtRunnerFacts DEF SkipStep
<1>2. Report' /\ Requests' /\ SchedTypeOK'
  BY <1>1, AppliedReport
<1>3. out.new = {} /\ out.resumed = {} /\ out.final = {}
  BY DEF Sched, IInv, Report
<1>4. SlotMap' /\ Sessions'
  BY <1>1, <1>3, ReleasedKeeps
<1>5. TypeOK' /\ AdapterTypes' /\ NoFault'
  <2>1. /\ slotOf' \in [Reqs -> Slots \cup {NoSlot}]
        /\ settle' \in [Reqs -> Slots \cup {NoSlot}] \cup {None}
        /\ moves' \in [Slots -> Slots] \cup {None}
        /\ submit' \in [Slots -> Slots] \cup {None}
    BY <1>1, LiveSlotsFacts DEF IInv, TypeOK
  <2>2. device' \in [Slots -> Reqs \cup {NoReq}] /\ session' \in [Slots -> Reqs \cup {NoReq}]
    BY <1>1, UnreleasedType DEF IInv, AdapterTypes
  <2> QED BY <1>1, <1>2, <2>1, <2>2, AppliedTypes
<1>6. Built'
  BY <1>1 DEF Built
<1> QED BY <1>2, <1>4, <1>5, <1>6 DEF IInv

(* A gather is no None, and what it makes of the map is a map. *)
LEMMA GatherType ==
  ASSUME NEW m \in [Slots -> Slots], \A i, j \in Slots : m[i] = m[j] => i = j,
         NEW live \in [Reqs -> Slots \cup {NoSlot}]
  PROVE  /\ m # None
         /\ Gathered(m, live) \in [Reqs -> Slots \cup {NoSlot}]
         /\ \A r \in Reqs : /\ live[r] = NoSlot => Gathered(m, live)[r] = NoSlot
                            /\ live[r] # NoSlot => /\ Gathered(m, live)[r] \in Slots
                                                   /\ m[Gathered(m, live)[r]] = live[r]
<1>1. \A s \in Slots : \E i \in Slots : m[i] = s
  BY GatherReadsAll
<1>2. \A r \in Reqs : live[r] # NoSlot =>
        /\ (CHOOSE s \in Slots : m[s] = live[r]) \in Slots
        /\ m[CHOOSE s \in Slots : m[s] = live[r]] = live[r]
  BY <1>1
<1>3. Gathered(m, live) \in [Reqs -> Slots \cup {NoSlot}]
  BY <1>2 DEF Gathered
<1>4. m # None
  <2>1. 0 \in Slots
    BY SlotsFinite DEF Slots
  <2>2. 0 \in DOMAIN m /\ 0 \notin DOMAIN <<>>
    BY <2>1
  <2> QED BY <2>2 DEF None
<1> QED BY <1>2, <1>3, <1>4, SlotsFinite DEF Gathered

(* A decode step always finds a slot for every row and a permutation that
   reads it. *)
LEMMA BuildDecodeIInv ==
  ASSUME IInv, AtRunner, UNCHANGED schedVars, UpdateStates(out),
         out.decode, BuildDecode(out)
  PROVE  IInv'
<1> DEFINE rows == batch'
           live == LiveSlots(out)
<1>0. out.new = {} /\ out.resumed = {} /\ out.final = {} /\ submit = None
  BY AtRunnerFacts DEF IInv, Report
<1>1. /\ rows \in Seq(Reqs) /\ Rows(rows) = Sched(out) /\ Len(rows) <= NumSlots
      /\ \A i, j \in DOMAIN rows : rows[i] = rows[j] => i = j
  BY UpdateStatesFacts
<1>2. /\ live \in [Reqs -> Slots \cup {NoSlot}]
      /\ \A r \in Running : live[r] # NoSlot
      /\ \A r, q \in Reqs : live[r] # NoSlot /\ live[r] = live[q] => r = q
  <2>1. Joining = {}
    BY <1>0, AtRunnerFacts
  <2> QED BY <2>1, LiveSlotsFacts
<1>3. Sched(out) \subseteq Running /\ Running \subseteq Reqs
  BY AtRunnerFacts
<1>4. /\ slotOf' = live
      /\ session' = Unreleased(out, session) /\ device' = Unreleased(out, device)
      /\ out' = out
  BY DEF BuildDecode
<1> HIDE DEF live, rows
<1>5. \A r \in Rows(rows) : live[r] # NoSlot
  BY <1>1, <1>2, <1>3
<1>6. Remaps(rows, live) # {}
  <2>1. \A i \in DOMAIN rows : rows[i] \in Rows(rows) /\ rows[i] \in Reqs
    BY <1>1, <1>3 DEF Rows
  <2>2. \A i \in DOMAIN rows : live[rows[i]] \in Slots
    BY <1>2, <1>5, <2>1
  <2>3. \A i, j \in DOMAIN rows : live[rows[i]] = live[rows[j]] => i = j
    BY <1>1, <1>2, <1>5, <2>1
  <2> QED BY <1>1, <2>2, <2>3, RemapsExist
<1>7. /\ \E m \in Remaps(rows, live) : Propose(m, live) /\ submit' = m
      /\ fault' = fault
  BY <1>5, <1>6 DEF BuildDecode, rows, live
<1>8. PICK m \in Remaps(rows, live) : Propose(m, live) /\ submit' = m
  BY <1>7
<1>9. /\ m \in [Slots -> Slots]
      /\ \A i, j \in Slots : m[i] = m[j] => i = j
      /\ \A i \in DOMAIN rows : m[i - 1] = live[rows[i]]
  BY DEF Remaps
<1>10. m # None /\ Gathered(m, live) \in [Reqs -> Slots \cup {NoSlot}]
  BY <1>2, <1>9, GatherType
<1>11. Report' /\ Requests' /\ SchedTypeOK'
  BY <1>4, <1>8, <1>10, AppliedReport
<1>12. SlotMap' /\ Sessions'
  BY <1>0, <1>4, <1>8, <1>10, ReleasedKeeps DEF live
<1>13. TypeOK' /\ AdapterTypes' /\ NoFault'
  <2>1. settle' \in [Reqs -> Slots \cup {NoSlot}] \cup {None}
        /\ moves' \in [Slots -> Slots] \cup {None}
    BY <1>8, <1>9, <1>10 DEF Propose
  <2>2. slotOf' \in [Reqs -> Slots \cup {NoSlot}] /\ submit' \in [Slots -> Slots] \cup {None}
    BY <1>2, <1>4, <1>8, <1>9
  <2>3. device' \in [Slots -> Reqs \cup {NoReq}] /\ session' \in [Slots -> Reqs \cup {NoReq}]
    BY <1>4, UnreleasedType DEF IInv, AdapterTypes
  <2> QED BY <1>7, <1>11, <2>1, <2>2, <2>3, AppliedTypes
<1>14. Built'
  <2>1. \A i \in DOMAIN batch' : submit'[i - 1] = slotOf'[batch'[i]]
    BY <1>4, <1>8, <1>9 DEF rows
  <2>2. IF Identity(m) THEN settle' = None /\ moves' = None
                       ELSE settle' = Gathered(m, live) /\ moves' = m
    BY <1>8 DEF Propose
  <2> QED BY <1>4, <1>8, <1>9, <2>1, <2>2 DEF Built
<1> QED BY <1>11, <1>12, <1>13, <1>14 DEF IInv

(* What a prefill has to respect are the states of the running requests it
   leaves out. *)
LEMMA HeldFacts ==
  ASSUME IInv, AtRunner, UpdateStates(out), NEW live, live = LiveSlots(out)
  PROVE  /\ Held(batch', live) \subseteq Slots
         /\ Cardinality(Held(batch', live)) + Len(batch') <= NumSlots
         /\ \A r \in Reqs \ Sched(out) : live[r] # NoSlot => live[r] \in Held(batch', live)
<1>1. /\ Rows(batch') = Sched(out) /\ Len(batch') = Cardinality(Sched(out))
      /\ IsFiniteSet(Sched(out))
      /\ known' = (known \ out.fin) \cup out.new /\ known' \subseteq Reqs
  BY UpdateStatesFacts
<1>2. /\ live \in [Reqs -> Slots \cup {NoSlot}]
      /\ \A r \in Reqs : live[r] # NoSlot => r \in Running
      /\ \A r, q \in Reqs : live[r] # NoSlot /\ live[r] = live[q] => r = q
  BY LiveSlotsFacts
<1>3. /\ Sched(out) \subseteq Running /\ Running \subseteq Reqs
      /\ Ended = out.fin /\ New = out.new
  BY AtRunnerFacts
<1> DEFINE H == Held(batch', live)
           Out == Running \ Sched(out)
<1>4. H = {live[q] : q \in known' \ Sched(out)} \ {NoSlot}
  BY <1>1 DEF Held
<1>5. H \subseteq Slots
  BY <1>1, <1>2, <1>4
<1>6. \A s \in H : \E q \in Out : live[q] = s
  BY <1>1, <1>2, <1>4
<1>7. IsFiniteSet(Out) /\ Cardinality(Out) \in Nat /\ Cardinality(H) <= Cardinality(Out)
      /\ Cardinality(H) \in Nat
  <2>1. IsFiniteSet(Reqs) /\ Out \subseteq Reqs
    BY <1>3, SchedulerAssumption
  <2>2. IsFiniteSet(Out) /\ Cardinality(Out) \in Nat
    <3> HIDE DEF Out
    <3> QED BY <2>1, FS_Subset, FS_CardinalityType
  <2> DEFINE g == [s \in H |-> CHOOSE q \in Out : live[q] = s]
  <2>3. \A s \in H : g[s] \in Out /\ live[g[s]] = s
    BY <1>6
  <2>4. g \in [H -> Out]
    BY <2>3
  <2> HIDE DEF g, H, Out
  <2>5. g \in Injection(H, Out)
    BY <2>3, <2>4 DEF Injection, IsInjective
  <2>6. IsFiniteSet(H) /\ Cardinality(H) <= Cardinality(Out)
    BY <2>2, <2>5, FS_Injection
  <2> QED BY <2>2, <2>6, FS_CardinalityType
<1>8. Cardinality(Out) = Cardinality(Running) - Cardinality(Sched(out))
      /\ Cardinality(Running) \in Nat
  <2>1. IsFiniteSet(Running) /\ Cardinality(Running) \in Nat
    BY <1>3, SchedulerAssumption, FS_Subset, FS_CardinalityType
  <2>2. Running \cap Sched(out) = Sched(out)
    BY <1>3
  <2>3. Cardinality(Running \ Sched(out))
          = Cardinality(Running) - Cardinality(Running \cap Sched(out))
    BY <2>1, FS_Difference
  <2> QED BY <2>1, <2>2, <2>3
<1>9. Cardinality(Sched(out)) \in Nat
  BY <1>1, FS_CardinalityType
<1>10. Cardinality(H) + Len(batch') <= NumSlots
  <2>1. Cardinality(Running) <= MaxNumSeqs /\ MaxNumSeqs \in Nat
    BY SchedulerAssumption DEF IInv, Report
  <2> HIDE DEF H, Out
  <2> QED BY <1>1, <1>7, <1>8, <1>9, <2>1 DEF NumSlots
<1>11. \A r \in Reqs \ Sched(out) : live[r] # NoSlot => live[r] \in H
  <2>1. \A r \in Running : r \in known'
    BY <1>1, <1>3 DEF IInv, Requests, Live, Running, PartialPrefill, Decoding
  <2> QED BY <1>2, <1>4, <2>1
<1> QED BY <1>5, <1>10, <1>11

(* A prefill always finds a slot for every row, and disturbs no state of a
   request it leaves out. *)
LEMMA ExecutePrefillIInv ==
  ASSUME IInv, AtRunner, UNCHANGED schedVars, UpdateStates(out),
         ~out.decode, ExecutePrefill(out)
  PROVE  IInv'
<1> DEFINE rows == batch'
           live == LiveSlots(out)
           dev == Unreleased(out, device)
           ses == Unreleased(out, session)
<1>1. /\ rows \in Seq(Reqs) /\ Rows(rows) = Sched(out)
      /\ \A i, j \in DOMAIN rows : rows[i] = rows[j] => i = j
  BY UpdateStatesFacts
<1>2. /\ Held(rows, live) \subseteq Slots
      /\ Cardinality(Held(rows, live)) + Len(rows) <= NumSlots
      /\ \A r \in Reqs \ Sched(out) : live[r] # NoSlot => live[r] \in Held(rows, live)
  BY HeldFacts
<1>3. /\ live \in [Reqs -> Slots \cup {NoSlot}]
      /\ \A r \in Reqs : live[r] # NoSlot =>
           live[r] \in Slots /\ r \in Running /\ device[live[r]] = r /\ dev[live[r]] = r
      /\ \A r \in Running \ Joining : live[r] # NoSlot
      /\ \A r, q \in Reqs : live[r] # NoSlot /\ live[r] = live[q] => r = q
      /\ \A s \in Slots : ses[s] # NoReq =>
           ses[s] \in Decoding \ Opening /\ live[ses[s]] = s
      /\ \A r \in Decoding \ Opening : live[r] # NoSlot /\ ses[live[r]] = r
  BY LiveSlotsFacts
<1>4. /\ Sched(out) \subseteq Running /\ Running \subseteq Reqs /\ Opening = out.final
      /\ submit = None /\ Joining \subseteq Sched(out)
  BY AtRunnerFacts DEF Sched
<1>5. out.final \subseteq Sched(out) \cap Decoding /\ Sched(out) \cap Decoding \subseteq out.final
  BY DEF IInv, Report
<1>6. dev \in [Slots -> Reqs \cup {NoReq}] /\ ses \in [Slots -> Reqs \cup {NoReq}]
  BY UnreleasedType DEF IInv, AdapterTypes
<1>7. out' = NoStep /\ UNCHANGED <<settle, moves, submit>>
  BY DEF ExecutePrefill
<1>8. PrefillSlots(rows, live) # {}
  <2> HIDE DEF rows, live
  <2> QED BY <1>1, <1>2, PrefillSlotsExist
<1> DEFINE Into(f, s) == {i \in DOMAIN rows : f[i] = s}
<1>9. PICK f \in PrefillSlots(rows, live) :
        /\ slotOf' = [r \in Reqs |-> IF r \in Rows(rows)
                        THEN f[CHOOSE i \in DOMAIN rows : rows[i] = r] ELSE live[r]]
        /\ device' = [s \in Slots |->
             IF Into(f, s) # {} THEN rows[CHOOSE i \in Into(f, s) : TRUE]
             ELSE IF device[s] \in Rows(rows) THEN NoReq ELSE dev[s]]
        /\ session' = [s \in Slots |->
             IF \E i \in Into(f, s) : rows[i] \in out.final
               THEN rows[CHOOSE i \in Into(f, s) : TRUE] ELSE ses[s]]
        /\ fault' = fault
  BY <1>8 DEF ExecutePrefill
<1> HIDE DEF rows, live, dev, ses
<1>10. /\ f \in [DOMAIN rows -> Slots]
       /\ \A i \in DOMAIN rows : f[i] \notin Held(rows, live)
       /\ \A i, j \in DOMAIN rows : f[i] = f[j] => i = j
  BY <1>1, PrefillSlotsDistinct
<1>11. \A i \in DOMAIN rows : rows[i] \in Sched(out)
  BY <1>1 DEF Rows
<1>12. \A r \in Sched(out) : \E i \in DOMAIN rows : rows[i] = r
  BY <1>1 DEF Rows
<1>13. \A i \in DOMAIN rows : Into(f, f[i]) = {i} /\ (CHOOSE j \in Into(f, f[i]) : TRUE) = i
  BY <1>10
<1>14. \A i \in DOMAIN rows : slotOf'[rows[i]] = f[i] /\ device'[f[i]] = rows[i]
  <2>1. \A i \in DOMAIN rows : (CHOOSE j \in DOMAIN rows : rows[j] = rows[i]) = i
    BY <1>1
  <2> HIDE DEF Into
  <2>2. \A i \in DOMAIN rows : slotOf'[rows[i]] = f[i]
    BY <1>1, <1>4, <1>9, <1>11, <2>1
  <2>3. \A i \in DOMAIN rows : device'[f[i]] = rows[i]
    BY <1>9, <1>10, <1>13
  <2> QED BY <2>2, <2>3
<1>15. \A r \in Reqs \ Sched(out) : slotOf'[r] = live[r]
  BY <1>1, <1>9
<1>16. \A s \in Slots : (\A i \in DOMAIN rows : f[i] # s) =>
         /\ device[s] \notin Sched(out) => device'[s] = dev[s]
         /\ session'[s] = ses[s]
  BY <1>1, <1>9
<1>17. \A i \in DOMAIN rows :
         session'[f[i]] = IF rows[i] \in out.final THEN rows[i] ELSE ses[f[i]]
  <2>1. \A i \in DOMAIN rows :
          (\E j \in Into(f, f[i]) : rows[j] \in out.final) <=> rows[i] \in out.final
    BY <1>13
  <2> HIDE DEF Into
  <2> QED BY <1>9, <1>10, <1>13, <2>1
<1>18. \A r \in Reqs \ Sched(out), i \in DOMAIN rows : live[r] # f[i]
  BY <1>2, <1>10, SlotsFinite
<1>19. /\ Gone' = {} /\ Joining' = {} /\ Opening' = {}
       /\ Running' = Running /\ Decoding' = Decoding
  BY <1>7, AppliedFacts
<1>20. Report' /\ Requests' /\ SchedTypeOK'
  BY <1>4, <1>7, AppliedReport
<1>21. SlotMap'
  <2>1. ASSUME NEW r \in Reqs, NEW q \in Reqs, slotOf'[r] # NoSlot, slotOf'[r] = slotOf'[q]
        PROVE  r = q
    <3>1. CASE r \in Sched(out) /\ q \in Sched(out)
      BY <1>10, <1>12, <1>14, <2>1, <3>1
    <3>2. CASE r \notin Sched(out) /\ q \notin Sched(out)
      BY <1>3, <1>15, <2>1, <3>2
    <3>3. CASE (r \in Sched(out)) # (q \in Sched(out))
      BY <1>12, <1>14, <1>15, <1>18, <2>1, <3>3
    <3> QED BY <3>1, <3>2, <3>3
  <2>2. ASSUME NEW r \in Reqs, slotOf'[r] # NoSlot
        PROVE  r \in Running /\ device'[slotOf'[r]] = r
    <3>1. CASE r \in Sched(out)
      BY <1>4, <1>12, <1>14, <3>1
    <3>2. CASE r \notin Sched(out)
      <4>1. /\ slotOf'[r] = live[r] /\ live[r] \in Slots /\ r \in Running
            /\ device[live[r]] = r /\ dev[live[r]] = r
        BY <1>3, <1>15, <2>2, <3>2
      <4>2. \A i \in DOMAIN rows : f[i] # live[r]
        BY <1>18, <3>2
      <4> QED BY <1>16, <3>2, <4>1, <4>2
    <3> QED BY <3>1, <3>2
  <2>3. ASSUME NEW r \in Running PROVE slotOf'[r] # NoSlot
    <3>1. CASE r \in Sched(out)
      <4>1. PICK i \in DOMAIN rows : rows[i] = r
        BY <1>12, <3>1
      <4>2. slotOf'[r] \in Slots
        BY <1>10, <1>14, <4>1
      <4> QED BY <4>2, SlotsFinite
    <3>2. CASE r \notin Sched(out)
      BY <1>3, <1>4, <1>15, <3>2
    <3> QED BY <3>1, <3>2
  <2> QED BY <1>19, <2>1, <2>2, <2>3 DEF SlotMap
<1>22. Sessions'
  <2>1. \A s \in Slots : ses[s] # NoReq =>
          /\ ses[s] \in Decoding /\ ses[s] \in Reqs \ Sched(out)
          /\ live[ses[s]] = s
    BY <1>3, <1>4, <1>5 DEF Decoding
  <2>2. \A i \in DOMAIN rows : ses[f[i]] = NoReq
    BY <1>10, <1>18, <2>1
  <2>3. ASSUME NEW s \in Slots, session'[s] # NoReq
        PROVE  session'[s] \in Decoding /\ slotOf'[session'[s]] = s
    <3>1. CASE \E i \in DOMAIN rows : f[i] = s
      <4>1. PICK i \in DOMAIN rows : f[i] = s
        BY <3>1
      <4>2. session'[s] = rows[i] /\ rows[i] \in out.final
        BY <1>17, <2>2, <2>3, <4>1
      <4> QED BY <1>5, <1>14, <4>1, <4>2
    <3>2. CASE \A i \in DOMAIN rows : f[i] # s
      BY <1>15, <1>16, <2>1, <2>3, <3>2
    <3> QED BY <3>1, <3>2
  <2>4. ASSUME NEW r \in Decoding PROVE session'[slotOf'[r]] = r
    <3>1. CASE r \in Sched(out)
      <4>1. PICK i \in DOMAIN rows : rows[i] = r
        BY <1>12, <3>1
      <4> QED BY <1>5, <1>14, <1>17, <3>1, <4>1
    <3>2. CASE r \notin Sched(out)
      <4>1. r \in Reqs /\ r \in Decoding \ Opening
        BY <1>4, <1>5, <3>2 DEF Decoding
      <4>2. live[r] # NoSlot /\ ses[live[r]] = r /\ live[r] \in Slots
        BY <1>3, <4>1
      <4> QED BY <1>15, <1>16, <1>18, <3>2, <4>1, <4>2
    <3> QED BY <3>1, <3>2
  <2> QED BY <1>19, <2>3, <2>4 DEF Sessions
<1>23. TypeOK' /\ AdapterTypes' /\ NoFault'
  <2>1. slotOf' \in [Reqs -> Slots \cup {NoSlot}]
    <3>1. \A r \in Reqs : slotOf'[r] \in Slots \cup {NoSlot}
      BY <1>3, <1>10, <1>12, <1>14, <1>15
    <3> QED BY <1>9, <3>1
  <2>2. device' \in [Slots -> Reqs \cup {NoReq}]
    <3>1. ASSUME NEW s \in Slots PROVE device'[s] \in Reqs \cup {NoReq}
      <4>1. CASE \E i \in DOMAIN rows : f[i] = s
        BY <1>4, <1>11, <1>14, <4>1
      <4>2. CASE \A i \in DOMAIN rows : f[i] # s
        BY <1>6, <1>9, <4>2
      <4> QED BY <4>1, <4>2
    <3> QED BY <1>9, <3>1
  <2>3. session' \in [Slots -> Reqs \cup {NoReq}]
    <3>1. ASSUME NEW s \in Slots PROVE session'[s] \in Reqs \cup {NoReq}
      <4>1. CASE \E i \in DOMAIN rows : f[i] = s
        BY <1>4, <1>6, <1>11, <1>17, <4>1
      <4>2. CASE \A i \in DOMAIN rows : f[i] # s
        BY <1>6, <1>16, <4>2
      <4> QED BY <4>1, <4>2
    <3> QED BY <1>9, <3>1
  <2>4. /\ settle' \in [Reqs -> Slots \cup {NoSlot}] \cup {None}
        /\ moves' \in [Slots -> Slots] \cup {None}
        /\ submit' \in [Slots -> Slots] \cup {None}
    BY <1>7 DEF IInv, TypeOK
  <2> QED BY <1>9, <1>20, <2>1, <2>2, <2>3, <2>4, AppliedTypes
<1>24. Built'
  BY <1>4, <1>7 DEF Built
<1> QED BY <1>20, <1>21, <1>22, <1>23, <1>24 DEF IInv

(* execute_model: the step's requests are known, so none of the raises. *)
LEMMA ExecuteModelIInv ==
  ASSUME IInv, ExecuteModel
  PROVE  IInv'
<1>1. AtRunner /\ UNCHANGED schedVars
  BY DEF ExecuteModel, AtRunner
<1>2. (out.resumed \cup out.cached) \subseteq known \ out.fin
  BY <1>1, AtRunnerFacts
<1>3. /\ UpdateStates(out)
      /\ IF Sched(out) = {} THEN SkipStep(out)
         ELSE IF out.decode THEN BuildDecode(out) ELSE ExecutePrefill(out)
  BY <1>2 DEF ExecuteModel
<1>4. CASE Sched(out) = {}
  BY <1>1, <1>3, <1>4, SkipStepIInv
<1>5. CASE Sched(out) # {} /\ out.decode
  BY <1>1, <1>3, <1>5, BuildDecodeIInv
<1>6. CASE Sched(out) # {} /\ ~out.decode
  BY <1>1, <1>3, <1>6, ExecutePrefillIInv
<1> QED BY <1>4, <1>5, <1>6

(* A submitted step has been applied: nothing is pending before or after
   its decode. *)
LEMMA SubmittedFacts ==
  ASSUME IInv, submit # None, submit' = None, out' = NoStep, UNCHANGED schedVars,
         UNCHANGED <<known, batch, reqKv, rowKv, fault>>
  PROVE  /\ ~AtRunner /\ ~AtRunner' /\ out # NoStep
         /\ Gone = {} /\ Joining = {} /\ Opening = {}
         /\ Gone' = {} /\ Joining' = {} /\ Opening' = {}
         /\ Running' = Running /\ Decoding' = Decoding
         /\ Report' /\ Requests' /\ SchedTypeOK'
         /\ NoFault' /\ Built' /\ Rows(batch)' = Rows(batch)
<1>1. out # NoStep /\ finPend = {} /\ prePend = {}
  BY DEF IInv, Report
<1>2. ~AtRunner /\ ~AtRunner'
  BY DEF AtRunner
<1>3. /\ Ended = {} /\ Gone = {} /\ New = {} /\ Joining = {} /\ Opening = {}
      /\ Ended' = {} /\ Gone' = {} /\ New' = {} /\ Joining' = {} /\ Opening' = {}
  BY <1>1, <1>2 DEF Ended, Gone, New, Joining, Opening, schedVars
<1>4. Running' = Running /\ Decoding' = Decoding /\ \A r \in Reqs : Live(r)' = Live(r)
  BY DEF schedVars, Running, PartialPrefill, Decoding, Live
<1>5. Rows(batch)' = Rows(batch)
  BY DEF Rows
<1>6. Report'
  BY <1>1, <1>2, <1>3, <1>4 DEF IInv, Report, schedVars
<1>7. Requests'
  <2>1. Rows(batch) \subseteq Reqs
    BY DEF IInv, TypeOK
  <2> QED BY <1>2, <1>3, <1>4, <1>5, <2>1 DEF IInv, Requests
<1>8. SchedTypeOK'
  BY DEF IInv, TypeOK, SchedTypeOK, schedVars
<1>9. NoFault' /\ Built'
  BY DEF IInv, NoFault, Built
<1> QED BY <1>1, <1>2, <1>3, <1>4, <1>5, <1>6, <1>7, <1>8, <1>9

(* The decode was accepted: states, slot map and sessions have moved
   together. *)
LEMMA DecodeAcceptedIInv ==
  ASSUME IInv, DecodeAccepted
  PROVE  IInv'
<1>1. /\ submit # None /\ submit' = None /\ out' = NoStep /\ UNCHANGED schedVars
      /\ UNCHANGED <<known, batch, reqKv, rowKv, fault>>
      /\ device' = [s \in Slots |-> device[submit[s]]]
      /\ layoutChanged' = FALSE /\ settle' = None /\ moves' = None
      /\ slotOf' = IF settle = None THEN slotOf ELSE settle
      /\ session' = IF moves = None THEN session ELSE [s \in Slots |-> session[moves[s]]]
  BY DEF DecodeAccepted, Settle, batchVars
<1>2. /\ Gone = {} /\ Joining = {} /\ Opening = {}
      /\ Gone' = {} /\ Joining' = {} /\ Opening' = {}
      /\ Running' = Running /\ Decoding' = Decoding
      /\ Report' /\ Requests' /\ SchedTypeOK' /\ NoFault' /\ Built'
      /\ Rows(batch)' = Rows(batch)
  BY <1>1, SubmittedFacts
<1>3. /\ slotOf \in [Reqs -> Slots \cup {NoSlot}]
      /\ submit \in [Slots -> Slots]
      /\ device \in [Slots -> Reqs \cup {NoReq}]
      /\ session \in [Slots -> Reqs \cup {NoReq}]
  BY <1>1 DEF IInv, TypeOK, AdapterTypes
<1>4. \A i, j \in Slots : submit[i] = submit[j] => i = j
  BY <1>1 DEF IInv, Built
<1>5. \A s \in Slots : \E i \in Slots : submit[i] = s
  BY <1>3, <1>4, GatherReadsAll
<1>6. /\ slotOf' \in [Reqs -> Slots \cup {NoSlot}]
      /\ \A r \in Reqs : /\ slotOf[r] = NoSlot => slotOf'[r] = NoSlot
                         /\ slotOf[r] # NoSlot => /\ slotOf'[r] \in Slots
                                                  /\ submit[slotOf'[r]] = slotOf[r]
  <2>1. CASE Identity(submit)
    <3>1. slotOf' = slotOf
      BY <1>1, <2>1 DEF IInv, Built
    <3> QED BY <1>3, <2>1, <3>1 DEF Identity
  <2>2. CASE ~Identity(submit)
    <3>1. settle = Gathered(submit, slotOf)
      BY <1>1, <2>2 DEF IInv, Built
    <3>2. /\ Gathered(submit, slotOf) \in [Reqs -> Slots \cup {NoSlot}]
          /\ \A r \in Reqs :
               /\ slotOf[r] = NoSlot => Gathered(submit, slotOf)[r] = NoSlot
               /\ slotOf[r] # NoSlot =>
                    /\ Gathered(submit, slotOf)[r] \in Slots
                    /\ submit[Gathered(submit, slotOf)[r]] = slotOf[r]
      BY <1>3, <1>4, GatherType
    <3>3. CASE settle # None
      BY <1>1, <3>1, <3>2, <3>3
    <3>4. CASE settle = None
      <4>1. DOMAIN settle = Reqs /\ DOMAIN None = {}
        BY <3>1, <3>2 DEF None
      <4>2. Reqs = {} /\ slotOf' = slotOf
        BY <1>1, <3>4, <4>1
      <4> QED BY <1>3, <4>2
    <3> QED BY <3>3, <3>4
  <2> QED BY <2>1, <2>2
<1>7. /\ session' \in [Slots -> Reqs \cup {NoReq}]
      /\ \A s \in Slots : session'[s] = session[submit[s]]
  <2>1. CASE Identity(submit)
    <3>1. moves = None
      BY <1>1, <2>1 DEF IInv, Built
    <3> QED BY <1>1, <1>3, <2>1, <3>1 DEF Identity
  <2>2. CASE ~Identity(submit)
    <3>1. moves = submit
      BY <1>1, <2>2 DEF IInv, Built
    <3> QED BY <1>1, <1>3, <3>1
  <2> QED BY <2>1, <2>2
<1>8. device' \in [Slots -> Reqs \cup {NoReq}]
      /\ \A s \in Slots : device'[s] = device[submit[s]]
  BY <1>1, <1>3
<1>9. /\ \A r, q \in Reqs : slotOf[r] # NoSlot /\ slotOf[r] = slotOf[q] => r = q
      /\ \A r \in Reqs : slotOf[r] # NoSlot => r \in Running /\ device[slotOf[r]] = r
      /\ \A r \in Running : slotOf[r] # NoSlot
  BY <1>2 DEF IInv, SlotMap
<1>10. Running \subseteq Reqs /\ Decoding \subseteq Running
  BY DEF Running, PartialPrefill, Decoding
<1>11. SlotMap'
  <2>1. \A r \in Reqs : slotOf'[r] # NoSlot <=> slotOf[r] # NoSlot
    BY <1>6, SlotsFinite
  <2>2. \A r, q \in Reqs : slotOf'[r] # NoSlot /\ slotOf'[r] = slotOf'[q] => r = q
    BY <1>6, <1>9, <2>1
  <2>3. \A r \in Reqs : slotOf'[r] # NoSlot => r \in Running /\ device'[slotOf'[r]] = r
    BY <1>6, <1>8, <1>9, <2>1
  <2>4. \A r \in Running : slotOf'[r] # NoSlot
    BY <1>9, <1>10, <2>1
  <2> QED BY <1>2, <2>2, <2>3, <2>4 DEF SlotMap
<1>12. Sessions'
  <2>1. /\ \A s \in Slots : session[s] # NoReq =>
             session[s] \in Decoding /\ slotOf[session[s]] = s
        /\ \A r \in Decoding : session[slotOf[r]] = r
    BY <1>2 DEF IInv, Sessions
  <2>2. ASSUME NEW s \in Slots, session'[s] # NoReq
        PROVE  session'[s] \in Decoding /\ slotOf'[session'[s]] = s
    <3>1. submit[s] \in Slots /\ session'[s] = session[submit[s]]
      BY <1>3, <1>7
    <3>2. session[submit[s]] \in Decoding /\ slotOf[session[submit[s]]] = submit[s]
      BY <2>1, <2>2, <3>1
    <3>3. session'[s] \in Reqs /\ slotOf[session'[s]] # NoSlot
      BY <1>10, <3>1, <3>2, SlotsFinite
    <3>4. slotOf'[session'[s]] \in Slots /\ submit[slotOf'[session'[s]]] = submit[s]
      BY <1>6, <3>1, <3>2, <3>3
    <3> QED BY <1>4, <3>1, <3>2, <3>4
  <2>3. ASSUME NEW r \in Decoding PROVE session'[slotOf'[r]] = r
    BY <1>6, <1>7, <1>9, <1>10, <2>1
  <2> QED BY <1>2, <2>2, <2>3 DEF Sessions
<1>13. TypeOK' /\ AdapterTypes'
  BY <1>1, <1>2, <1>6, <1>7, <1>8 DEF IInv, TypeOK, AdapterTypes
<1> QED BY <1>2, <1>11, <1>12, <1>13 DEF IInv

(* The decode was refused: nothing moved, and the map proposed for it is
   never settled. *)
LEMMA DecodeRefusedIInv ==
  ASSUME IInv, DecodeRefused
  PROVE  IInv'
<1>1. /\ submit # None /\ submit' = None /\ out' = NoStep /\ UNCHANGED schedVars
      /\ UNCHANGED <<known, batch, reqKv, rowKv, fault>>
      /\ UNCHANGED <<slotOf, settle, moves, layoutChanged, device, session>>
  BY DEF DecodeRefused, batchVars, slotVars, adapterVars
<1>2. /\ Gone = {} /\ Joining = {} /\ Opening = {}
      /\ Gone' = {} /\ Joining' = {} /\ Opening' = {}
      /\ Running' = Running /\ Decoding' = Decoding
      /\ Report' /\ Requests' /\ SchedTypeOK' /\ NoFault' /\ Built'
      /\ Rows(batch)' = Rows(batch)
  BY <1>1, SubmittedFacts
<1>3. SlotMap' /\ Sessions'
  BY <1>1, <1>2 DEF IInv, SlotMap, Sessions
<1>4. TypeOK' /\ AdapterTypes'
  BY <1>1, <1>2 DEF IInv, TypeOK, AdapterTypes
<1> QED BY <1>2, <1>3, <1>4 DEF IInv

(* Every step preserves the invariant. *)
LEMMA StepIInv == IInv /\ [Next]_vars => IInv'
<1> SUFFICES ASSUME IInv, [Next]_vars PROVE IInv'
  OBVIOUS
<1>1. CASE SchedNext /\ RunnerKeeps
  <2>1. ASSUME NEW r \in Reqs, AddRequest(r) PROVE IInv'
    BY <1>1, <2>1, AddRequestIInv
  <2>2. ASSUME NEW r \in Reqs, FinishRequest(r) PROVE IInv'
    BY <1>1, <2>2, FinishRequestIInv
  <2>3. CASE ResetPrefixCache
    BY <1>1, <2>3, ResetPrefixCacheIInv
  <2>4. CASE Schedule
    <3>1. PICK d \in BOOLEAN, pre, new, resumed, cached, final \in SUBSET Reqs :
            Scheduled(d, pre, new, resumed, cached, final)
      BY <2>4, ScheduleShape
    <3> QED BY <1>1, <3>1, ScheduleIInv
  <2> QED BY <1>1, <2>1, <2>2, <2>3, <2>4 DEF SchedNext
<1>2. CASE ExecuteModel
  BY <1>2, ExecuteModelIInv
<1>3. CASE DecodeAccepted
  BY <1>3, DecodeAcceptedIInv
<1>4. CASE DecodeRefused
  BY <1>4, DecodeRefusedIInv
<1>5. CASE UNCHANGED vars
  <2>1. UNCHANGED <<schedVars, out, batchVars, slotVars, submit, adapterVars, fault>>
    BY <1>5 DEF vars
  <2>2. UNCHANGED <<status, kvGen, finPend, prePend, runs, out, known, batch, reqKv, rowKv,
                    slotOf, settle, moves, layoutChanged, submit, device, session, fault>>
    BY <2>1 DEF schedVars, batchVars, slotVars, adapterVars
  <2>3. AtRunner' = AtRunner /\ Running' = Running /\ Decoding' = Decoding
        /\ Rows(batch)' = Rows(batch) /\ \A r \in Reqs : Live(r)' = Live(r)
    BY <2>2 DEF AtRunner, Running, PartialPrefill, Decoding, Rows, Live
  <2>4. Ended' = Ended /\ Gone' = Gone /\ New' = New /\ Joining' = Joining
        /\ Opening' = Opening
    BY <2>2, <2>3 DEF Ended, Gone, New, Joining, Opening
  <2>5. TypeOK' /\ AdapterTypes' /\ NoFault'
    BY <2>2, <2>3 DEF IInv, TypeOK, SchedTypeOK, AdapterTypes, NoFault
  <2>6. Report'
    BY <2>2, <2>3, <2>4 DEF IInv, Report
  <2>7. Requests'
    <3>1. Rows(batch) \subseteq Reqs
      BY DEF IInv, TypeOK
    <3> QED BY <2>2, <2>3, <2>4, <3>1 DEF IInv, Requests
  <2>8. SlotMap' /\ Sessions'
    BY <2>2, <2>3, <2>4 DEF IInv, SlotMap, Sessions
  <2>9. Built'
    BY <2>2 DEF IInv, Built, Identity, Gathered
  <2> QED BY <2>5, <2>6, <2>7, <2>8, <2>9 DEF IInv
<1> QED BY <1>1, <1>2, <1>3, <1>4, <1>5 DEF Next, RunnerNext, RunnerKeeps

(* The invariant holds in every state. *)
LEMMA Inductive == Spec => []IInv
  BY InitIInv, StepIInv, PTL DEF Spec

-----------------------------------------------------------------------------
(* The properties. *)

(* No order of arrivals, aborts, preemptions, cache resets and refused
   decodes makes the runner raise: the lookups of execute_model,
   _alloc_prefill_state_slots and _decode_state_slot_remap always succeed. *)
THEOREM NeverFaults == Spec => []NoFault
<1>1. IInv => NoFault
  BY DEF IInv
<1> QED BY <1>1, Inductive, PTL

(* Every variable stays in its type. *)
THEOREM TypeCorrect == Spec => []TypeOK
<1>1. IInv => TypeOK
  BY DEF IInv
<1> QED BY <1>1, Inductive, PTL

(* The slot map leads every decoding request to its recurrent state. *)
THEOREM StatesFollow == Spec => []StateFollowsRequest
<1>1. IInv => StateFollowsRequest
  <2> SUFFICES ASSUME IInv, out = NoStep, NEW r \in Decoding
               PROVE  slotOf[r] # NoSlot /\ device[slotOf[r]] = r
    BY DEF StateFollowsRequest
  <2>1. Joining = {} /\ r \in Running /\ r \in Reqs
    BY DEF Joining, AtRunner, Running, Decoding
  <2> QED BY <2>1 DEF IInv, SlotMap
<1> QED BY <1>1, Inductive, PTL

(* A decode that is about to run gathers each row its own request's state. *)
THEOREM DecodesReadOwnState == Spec => []DecodeReadsOwnState
<1>1. IInv => DecodeReadsOwnState
  <2> SUFFICES ASSUME IInv, submit # None, NEW i \in DOMAIN batch
               PROVE  device[submit[i - 1]] = batch[i]
    BY DEF DecodeReadsOwnState
  <2>1. batch \in Seq(Reqs) /\ Len(batch) <= NumSlots /\ submit \in [Slots -> Slots]
    BY DEF IInv, TypeOK, AdapterTypes
  <2>2. i - 1 \in Slots /\ batch[i] \in Reqs
    BY <2>1, SlotsFinite DEF Slots
  <2>3. submit[i - 1] = slotOf[batch[i]]
    BY DEF IInv, Built
  <2>4. slotOf[batch[i]] # NoSlot
    BY <2>1, <2>2, <2>3, SlotsFinite
  <2> QED BY <2>2, <2>3, <2>4 DEF IInv, SlotMap
<1> QED BY <1>1, Inductive, PTL

(* The adapter's sessions and the slot map name the same requests. *)
THEOREM SessionsAlwaysMatch == Spec => []SessionsMatchSlots
<1>1. IInv => SessionsMatchSlots
  <2> SUFFICES ASSUME IInv, out = NoStep PROVE SessionsMatchSlots
    BY DEF SessionsMatchSlots
  <2>1. Opening = {}
    BY DEF Opening, AtRunner
  <2> QED BY <2>1 DEF IInv, Sessions, SessionsMatchSlots
<1> QED BY <1>1, Inductive, PTL

(* A slot is claimed only by a request that runs or is still to be reported. *)
THEOREM SlotsNeverLeak == Spec => []NoSlotLeak
<1>1. IInv => NoSlotLeak
  <2> SUFFICES ASSUME IInv, out = NoStep PROVE NoSlotLeak
    BY DEF NoSlotLeak
  <2>1. Gone = finPend \cup prePend
    BY DEF Gone, AtRunner
  <2> QED BY <2>1 DEF IInv, SlotMap, NoSlotLeak
<1> QED BY <1>1, Inductive, PTL

(* The rows never change unannounced, and only an accepted decode retires
   the announcement. *)
THEOREM LayoutAlwaysAnnounced == Spec => LayoutChangeAnnounced
<1> DEFINE Announced == /\ batch' # batch => layoutChanged'
                        /\ layoutChanged /\ ~layoutChanged' => submit # None /\ submit' = None
<1>1. IInv /\ [Next]_vars => [Announced]_vars
  <2> SUFFICES ASSUME IInv, Next PROVE Announced
    BY DEF vars
  <2>1. CASE SchedNext /\ RunnerKeeps
    BY <2>1 DEF RunnerKeeps, batchVars, slotVars
  <2>2. CASE ExecuteModel
    <3>1. AtRunner /\ (out.resumed \cup out.cached) \subseteq known \ out.fin
      BY <2>2, AtRunnerFacts DEF ExecuteModel, AtRunner
    <3>2. UpdateStates(out)
      BY <2>2, <3>1 DEF ExecuteModel
    <3>3. layoutChanged' = LayoutChanged(out)
          /\ batch' \in Repacked(batch, Removed(out), AddedRows(out))
      BY <3>2 DEF UpdateStates
    <3>4. layoutChanged \in BOOLEAN /\ layoutChanged' \in BOOLEAN
      BY <3>1, <3>2, UpdateStatesFacts DEF IInv, TypeOK
    <3>5. layoutChanged => layoutChanged'
      BY <3>3, <3>4 DEF LayoutChanged
    <3>6. CASE Removed(out) \cup AddedRows(out) = {}
      <4>1. AddedRows(out) = {} /\ Removed(out) = {} /\ batch \in Seq(Reqs)
        BY <3>6 DEF IInv, AdapterTypes
      <4>2. batch' = batch
        BY <3>3, <4>1, RepackedNothing
      <4> QED BY <3>5, <4>2
    <3>7. CASE Removed(out) \cup AddedRows(out) # {}
      BY <3>3, <3>5, <3>7 DEF LayoutChanged
    <3> QED BY <3>6, <3>7
  <2>3. CASE DecodeAccepted
    BY <2>3 DEF DecodeAccepted, batchVars
  <2>4. CASE DecodeRefused
    BY <2>4 DEF DecodeRefused, batchVars, slotVars
  <2> QED BY <2>1, <2>2, <2>3, <2>4 DEF Next, RunnerNext, RunnerKeeps
<1> QED BY <1>1, Inductive, PTL DEF Spec, LayoutChangeAnnounced

-----------------------------------------------------------------------------
(* The block tables, when no cache reset preempts what runs. *)

(* What a request knows of its blocks is current while it runs, its row is a
   copy of it, and a preempted request has no row that a resume could find. *)
Blocks ==
  /\ \A r \in Running \ Joining : reqKv[r] = {kvGen[r]}
  /\ \A r \in Rows(batch) : rowKv[r] = reqKv[r]
  /\ ~AtRunner => \A r \in Rows(batch) : status[r] # "preempted"
  /\ AtRunner => out.resumed \cap Rows(batch) = {}

(* The scheduler's steps keep it: blocks are only freed of requests that
   leave the running set. *)
LEMMA SchedulerBlocks ==
  ASSUME IInv, Blocks, ~ForcedReset, SchedNext, RunnerKeeps
  PROVE  Blocks'
<1>1. /\ UNCHANGED <<batch, reqKv, rowKv, submit>> /\ Rows(batch)' = Rows(batch)
  BY DEF RunnerKeeps, batchVars, Rows
<1>2. out = NoStep /\ submit = None /\ ~AtRunner /\ Joining = {}
  BY DEF SchedNext, AddRequest, FinishRequest, ResetPrefixCache, Schedule,
         SchedulePrefillOnly, ScheduleFallback, ScheduleDecodeOnly, AtRunner, Joining,
         IInv, Report
<1>3. /\ kvGen \in [Reqs -> Gens] /\ Rows(batch) \subseteq Reqs
      /\ status \in [Reqs -> {"idle", "waiting", "preempted", "partial", "decode"}]
  BY DEF IInv, TypeOK, SchedTypeOK
<1>4. ASSUME NEW r \in Reqs, AddRequest(r) PROVE Blocks'
  <2>1. out' = NoStep /\ kvGen' = kvGen /\ status' = [status EXCEPT ![r] = "waiting"]
        /\ status[r] = "idle"
    BY <1>2, <1>4 DEF AddRequest
  <2>2. ~AtRunner' /\ Joining' = {}
    BY <2>1 DEF AtRunner, Joining
  <2>3. Running' = Running
    BY <1>3, <2>1 DEF Running, PartialPrefill, Decoding
  <2> QED BY <1>1, <1>2, <1>3, <2>1, <2>2, <2>3 DEF Blocks
<1>5. ASSUME NEW r \in Reqs, FinishRequest(r) PROVE Blocks'
  <2>1. out' = NoStep /\ kvGen' = [kvGen EXCEPT ![r] = 0]
        /\ status' = [status EXCEPT ![r] = "idle"]
    BY <1>2, <1>5 DEF FinishRequest
  <2>2. ~AtRunner' /\ Joining' = {}
    BY <2>1 DEF AtRunner, Joining
  <2>3. Running' = Running \ {r} /\ Running \subseteq Reqs
    BY <1>3, <2>1 DEF Running, PartialPrefill, Decoding
  <2> QED BY <1>1, <1>2, <1>3, <2>1, <2>2, <2>3 DEF Blocks
<1>6. CASE Schedule
  <2>1. PICK d \in BOOLEAN, pre, new, resumed, cached, final \in SUBSET Reqs :
          Scheduled(d, pre, new, resumed, cached, final)
    BY <1>6, ScheduleShape
  <2>2. /\ pre \subseteq Running /\ cached \subseteq Running \ pre
        /\ new \subseteq {r \in Reqs : status[r] = "waiting"}
        /\ resumed \subseteq {r \in Reqs : status[r] = "preempted"}
        /\ final \subseteq new \cup resumed \cup cached
    BY <2>1 DEF Scheduled
  <2>3. /\ out' = [step |-> TRUE, decode |-> d, fin |-> finPend, pre |-> prePend \cup pre,
                   new |-> new, resumed |-> resumed, cached |-> cached, final |-> final]
        /\ kvGen' = NextGen(pre)
        /\ status' = [r \in Reqs |-> IF r \in pre THEN "preempted"
                                     ELSE IF r \in final THEN "decode"
                                     ELSE IF r \in (new \cup resumed \cup cached) /\ ~d
                                       THEN "partial"
                                     ELSE status[r]]
    BY <2>1 DEF Scheduled, Emit
  <2>4. out'.step = TRUE /\ out'.new = new /\ out'.resumed = resumed
    BY <2>3
  <2>5. AtRunner' /\ Joining' = new \cup resumed
    BY <1>1, <1>2, <2>4 DEF AtRunner, Joining, NoStep
  <2>6. Running \subseteq Reqs /\ Running' \ (new \cup resumed) \subseteq Running \ pre
    BY <1>3, <2>2, <2>3 DEF Running, PartialPrefill, Decoding
  <2>7. \A r \in Running \ pre : kvGen'[r] = kvGen[r]
    BY <1>3, <2>3, <2>6 DEF NextGen
  <2>8. resumed \cap Rows(batch) = {}
    BY <1>2, <2>2 DEF Blocks
  <2> QED BY <1>1, <1>2, <2>4, <2>5, <2>6, <2>7, <2>8 DEF Blocks
<1> QED BY <1>4, <1>5, <1>6 DEF SchedNext, ResetPrefixCache

(* _update_states keeps it: a new or resumed request's ids are replaced, and
   a cached one's row is appended what its ids are. *)
LEMMA ExecuteBlocks ==
  ASSUME IInv, Blocks, ExecuteModel
  PROVE  Blocks'
<1>1. AtRunner /\ UNCHANGED schedVars
  BY DEF ExecuteModel, AtRunner
<1>2. /\ out \in Step /\ out.resumed \cup out.cached \subseteq known \ out.fin
      /\ Sched(out) \subseteq Running /\ Running \subseteq Reqs
      /\ Gone = out.fin \cup out.pre /\ Joining = out.new \cup out.resumed
  BY <1>1, AtRunnerFacts
<1>3. UpdateStates(out)
  BY <1>2 DEF ExecuteModel
<1>4. Rows(batch') = Sched(out)
  BY <1>1, <1>3, UpdateStatesFacts
<1>5. reqKv' = ReqKvAfter(out) /\ rowKv' = RowKvAfter(out)
  BY <1>3 DEF UpdateStates
<1>6. \A r \in Reqs :
        reqKv'[r] = IF r \in Joining THEN {kvGen[r]}
                    ELSE IF r \in out.cached THEN reqKv[r] \cup {kvGen[r]}
                    ELSE IF r \in out.fin THEN {} ELSE reqKv[r]
  BY <1>2, <1>5 DEF ReqKvAfter
<1>7. \A r \in Running \ Joining : reqKv[r] = {kvGen[r]} /\ r \notin out.fin
  BY <1>2 DEF Blocks, IInv, Report
<1>8. \A r \in Running : reqKv'[r] = {kvGen[r]}
  BY <1>2, <1>6, <1>7
<1>9. ASSUME NEW r \in Sched(out) PROVE rowKv'[r] = reqKv'[r]
  <2>1. r \in Reqs
    BY <1>2
  <2>2. CASE r \in AddedRows(out)
    BY <1>5, <2>1, <2>2 DEF RowKvAfter
  <2>3. CASE r \notin AddedRows(out)
    <3>1. r \notin out.new /\ r \in out.resumed \cup out.cached
          /\ r \in Rows(batch) /\ r \notin Removed(out)
      BY <2>3 DEF AddedRows, Sched
    <3>2. r \notin out.resumed /\ r \in out.cached /\ rowKv[r] = reqKv[r]
      BY <1>1, <3>1 DEF Blocks
    <3>3. rowKv'[r] = rowKv[r] \cup {kvGen[r]}
      BY <1>5, <2>1, <2>3, <3>1 DEF RowKvAfter
    <3> QED BY <1>2, <1>6, <2>1, <3>1, <3>2, <3>3
  <2> QED BY <2>2, <2>3
<1>10. out' = NoStep \/ submit' # None
  <2>1. CASE Sched(out) = {}
    BY <1>2, <2>1 DEF ExecuteModel, SkipStep
  <2>2. CASE Sched(out) # {} /\ ~out.decode
    BY <1>2, <2>2 DEF ExecuteModel, ExecutePrefill
  <2>3. CASE Sched(out) # {} /\ out.decode
    <3>1. BuildDecode(out)
      BY <1>2, <2>3 DEF ExecuteModel
    <3>2. IInv'
      BY ExecuteModelIInv
    <3>3. fault' = "none" /\ submit = None
      BY <3>2, <1>1 DEF IInv, NoFault, AtRunner
    <3>4. PICK m \in Remaps(batch', LiveSlots(out)) : submit' = m
      BY <3>1, <3>3 DEF BuildDecode
    <3>5. m \in [Slots -> Slots] /\ \A i, j \in Slots : m[i] = m[j] => i = j
      BY DEF Remaps
    <3>6. LiveSlots(out) \in [Reqs -> Slots \cup {NoSlot}]
      BY <1>1, LiveSlotsFacts
    <3> QED BY <3>4, <3>5, <3>6, GatherType
  <2> QED BY <2>1, <2>2, <2>3
<1>11. /\ ~AtRunner' /\ Joining' = {} /\ Running' = Running
       /\ status' = status /\ kvGen' = kvGen
  BY <1>1, <1>10, AppliedFacts
<1>12. \A r \in Sched(out) : status[r] # "preempted"
  BY <1>2 DEF Running, PartialPrefill, Decoding
<1>13. Rows(batch)' = Sched(out)
  BY <1>4 DEF Rows
<1> QED BY <1>8, <1>9, <1>11, <1>12, <1>13 DEF Blocks

(* Every step keeps it. *)
LEMMA StepBlocks ==
  ASSUME IInv, ~ForcedReset => Blocks, [Next]_vars
  PROVE  ~ForcedReset => Blocks'
<1> SUFFICES ASSUME ~ForcedReset PROVE Blocks'
  OBVIOUS
<1>1. CASE SchedNext /\ RunnerKeeps
  BY <1>1, SchedulerBlocks
<1>2. CASE ExecuteModel
  BY <1>2, ExecuteBlocks
<1>3. CASE DecodeAccepted \/ DecodeRefused
  <2>1. /\ submit # None /\ submit' = None /\ out' = NoStep /\ UNCHANGED schedVars
        /\ UNCHANGED <<known, batch, reqKv, rowKv, fault>>
    BY <1>3 DEF DecodeAccepted, DecodeRefused, batchVars
  <2>2. /\ ~AtRunner /\ ~AtRunner' /\ Joining = {} /\ Joining' = {}
        /\ Running' = Running /\ Rows(batch)' = Rows(batch)
    BY <2>1, SubmittedFacts
  <2>3. status' = status /\ kvGen' = kvGen
    BY <2>1 DEF schedVars
  <2> QED BY <2>1, <2>2, <2>3 DEF Blocks
<1>4. CASE UNCHANGED vars
  <2>1. UNCHANGED <<schedVars, out, batchVars, submit>>
    BY <1>4 DEF vars
  <2>2. UNCHANGED <<status, kvGen, out, batch, reqKv, rowKv, submit>>
    BY <2>1 DEF schedVars, batchVars
  <2> QED BY <2>2 DEF Blocks, Rows, Running, PartialPrefill, Decoding, AtRunner, Joining
<1> QED BY <1>1, <1>2, <1>3, <1>4 DEF Next, RunnerNext, RunnerKeeps

(* As long as no reset_prefix_cache preempts running requests, the block
   table addresses only blocks the scheduler has given the request. *)
THEOREM BlocksStayCurrent == Spec => [](~ForcedReset => RowBlocksCurrent)
<1>1. Init => (~ForcedReset => Blocks)
  BY DEF Init, SchedInit, Blocks, Running, PartialPrefill, Decoding, Rows, AtRunner
<1>2. IInv /\ (~ForcedReset => Blocks) /\ [Next]_vars => (~ForcedReset => Blocks)'
  BY StepBlocks
<1>3. IInv /\ (~ForcedReset => Blocks) => (~ForcedReset => RowBlocksCurrent)
  <2> SUFFICES ASSUME IInv, Blocks PROVE RowBlocksCurrent
    OBVIOUS
  <2>1. \A i \in DOMAIN batch : batch[i] \in Rows(batch)
    BY DEF Rows
  <2>2. out = NoStep => Joining = {}
    BY DEF Joining, AtRunner
  <2> QED BY <2>1, <2>2 DEF Blocks, RowBlocksCurrent
<1> QED BY <1>1, <1>2, <1>3, Inductive, PTL DEF Spec

================================================================================
