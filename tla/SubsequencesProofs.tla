------------------------ MODULE SubsequencesProofs -------------------------
(***************************************************************************)
(* Facts the proofs of the other modules share, for numbers, sets and      *)
(* sequences of any size: the least and the greatest element of a finite   *)
(* set, a recursion along 0 .. n, and what Picked and Within keep of a     *)
(* sequence.                                                               *)
(***************************************************************************)
EXTENDS SequencesExt, Subsequences, FiniteSetTheorems, SequenceTheorems, TLAPS

-----------------------------------------------------------------------------
(* Facts about numbers and finite sets. *)

(* A nonempty set of natural numbers has a least element. *)
LEMMA LeastElement ==
  ASSUME NEW T, T \subseteq Nat, T # {}
  PROVE  \E m \in T : \A n \in T : m <= n
<1>1. \E m \in T : \A n \in T : ~ (<<n, m>> \in OpToRel(<, Nat))
  BY NatLessThanWellFounded, WFMin
<1>2. PICK m \in T : \A n \in T : ~ (<<n, m>> \in OpToRel(<, Nat))
  BY <1>1
<1>3. \A n \in T : ~(n < m)
  BY <1>2 DEF OpToRel
<1> QED BY <1>3

(* So Min picks an element of it that is below the others. *)
LEMMA MinOfSet ==
  ASSUME NEW T, T \subseteq Nat, T # {}
  PROVE  Min(T) \in T /\ \A n \in T : Min(T) <= n
BY LeastElement DEF Min

(* The least of two numbers. *)
LEMMA MinOfTwo ==
  ASSUME NEW a \in Int, NEW b \in Int
  PROVE  Min({a, b}) = IF a <= b THEN a ELSE b
<1> DEFINE least == IF a <= b THEN a ELSE b
<1>1. least \in {a, b} /\ \A y \in {a, b} : least <= y
  OBVIOUS
<1>2. \A x \in {a, b} : (\A y \in {a, b} : x <= y) => x = least
  OBVIOUS
<1> HIDE DEF least
<1>3. Min({a, b}) = least
  BY <1>1, <1>2 DEF Min
<1> QED BY <1>3 DEF least

(* The greatest of two numbers. *)
LEMMA MaxOfTwo ==
  ASSUME NEW a \in Int, NEW b \in Int
  PROVE  Max({a, b}) = IF a >= b THEN a ELSE b
<1> DEFINE top == IF a >= b THEN a ELSE b
<1>1. top \in {a, b} /\ \A y \in {a, b} : top >= y
  OBVIOUS
<1>2. \A x \in {a, b} : (\A y \in {a, b} : x >= y) => x = top
  OBVIOUS
<1> HIDE DEF top
<1>3. Max({a, b}) = top
  BY <1>1, <1>2 DEF Max
<1> QED BY <1>3 DEF top

(* The greatest of a nonempty set of bounded natural numbers. *)
LEMMA MaxOfSet ==
  ASSUME NEW b \in Nat, NEW T \in SUBSET (0 .. b), T # {}
  PROVE  Max(T) \in T /\ \A n \in T : n <= Max(T)
<1> DEFINE below == {b - n : n \in T}
<1>1. below \subseteq Nat /\ below # {}
  <2>1. \A n \in T : b - n \in Nat
    OBVIOUS
  <2> QED BY <2>1
<1>2. PICK m \in below : \A n \in below : m <= n
  <2> HIDE DEF below
  <2> QED BY <1>1, LeastElement
<1>3. PICK top \in T : m = b - top
  BY <1>2
<1>4. \A n \in T : n <= top
  <2> SUFFICES ASSUME NEW n \in T PROVE n <= top
    OBVIOUS
  <2>1. b - n \in below
    OBVIOUS
  <2>2. b - top <= b - n
    BY <1>2, <1>3, <2>1
  <2> QED BY <2>2
<1>5. Max(T) \in T /\ \A n \in T : Max(T) >= n
  BY <1>3, <1>4 DEF Max
<1> QED BY <1>5

-----------------------------------------------------------------------------
(* Induction along an interval, and functions defined along one. *)

(* Induction, over a set. *)
LEMMA UpTo ==
  ASSUME NEW n \in Nat, NEW P, 0 \in P, \A i \in 1 .. n : i - 1 \in P => i \in P
  PROVE  \A i \in 0 .. n : i \in P
<1> DEFINE Bad == {i \in 0 .. n : i \notin P}
<1>1. ASSUME Bad # {} PROVE FALSE
  <2>1. Bad \subseteq Nat
    OBVIOUS
  <2>2. PICK m \in Bad : \A i \in Bad : m <= i
    <3> HIDE DEF Bad
    <3> QED BY <1>1, <2>1, LeastElement
  <2>3. m \in 1 .. n /\ m - 1 \in 0 .. n
    BY <2>2
  <2>4. m - 1 \in P
    BY <2>2, <2>3
  <2> QED BY <2>2, <2>3, <2>4
<1> QED BY <1>1

(* f is the n-fold iteration of a step function from base. *)
Iteration(n, V, base, step, f) ==
  /\ f \in [0 .. n -> V] /\ f[0] = base
  /\ \A i \in 1 .. n : f[i] = step[i][f[i - 1]]

(* A step function can be iterated. *)
LEMMA Iterates ==
  ASSUME NEW n \in Nat, NEW V, NEW base \in V, NEW step \in [1 .. n -> [V -> V]]
  PROVE  \E f : Iteration(n, V, base, step, f)
<1> DEFINE P == {k \in 0 .. n : \E f : Iteration(k, V, base, step, f)}
<1>1. 0 \in P
  <2>1. Iteration(0, V, base, step, [i \in 0 .. 0 |-> base])
    BY DEF Iteration
  <2> QED BY <2>1
<1>2. ASSUME NEW k \in 1 .. n, k - 1 \in P PROVE k \in P
  <2>1. PICK f : Iteration(k - 1, V, base, step, f)
    BY <1>2
  <2> DEFINE g == [i \in 0 .. k |-> IF i = k THEN step[k][f[k - 1]] ELSE f[i]]
  <2>2. f[k - 1] \in V /\ step[k][f[k - 1]] \in V
    <3>1. f[k - 1] \in V
      BY <2>1 DEF Iteration
    <3>2. step[k] \in [V -> V]
      OBVIOUS
    <3> QED BY <3>1, <3>2
  <2>3. g \in [0 .. k -> V] /\ g[0] = base
    BY <2>1, <2>2 DEF Iteration
  <2>4. ASSUME NEW i \in 1 .. k PROVE g[i] = step[i][g[i - 1]]
    <3>1. CASE i = k
      BY <3>1
    <3>2. CASE i # k
      <4>1. i \in 1 .. k - 1 /\ g[i] = f[i] /\ g[i - 1] = f[i - 1]
        BY <3>2
      <4> QED BY <2>1, <4>1 DEF Iteration
    <3> QED BY <3>1, <3>2
  <2>5. Iteration(k, V, base, step, g)
    <3> HIDE DEF g
    <3> QED BY <2>3, <2>4 DEF Iteration
  <2> QED BY <2>5
<1>3. n \in P
  <2>1. \A k \in 1 .. n : k - 1 \in P => k \in P
    BY <1>2
  <2> HIDE DEF P
  <2>2. \A i \in 0 .. n : i \in P
    BY <1>1, <2>1, UpTo
  <2> QED BY <2>2
<1> QED BY <1>3

(* A greater factor, a greater product. *)
LEMMA ProductGrows ==
  ASSUME NEW a \in Nat, NEW b \in Nat, NEW c \in Nat, a <= b
  PROVE  c * a \in Nat /\ c * b \in Nat /\ c * a <= c * b
<1>1. PICK d \in Nat : b = a + d
  <2>1. b - a \in Nat /\ b = a + (b - a)
    OBVIOUS
  <2> QED BY <2>1
<1>2. c * b = c * a + c * d /\ c * a \in Nat /\ c * d \in Nat
  BY <1>1, SMTT(30)
<1> DEFINE x == c * a  y == c * d  z == c * b
<1>3. z = x + y /\ x \in Nat /\ y \in Nat
  BY <1>2
<1> HIDE DEF x, y, z
<1>4. z \in Nat /\ x <= z
  BY <1>3
<1> QED BY <1>3, <1>4 DEF x, z

(* One element more, or not. *)
LEMMA GrownType ==
  ASSUME NEW S, NEW q \in Seq(S), NEW x \in S, NEW taken
  PROVE  Grown(q, x, taken) \in Seq(S)
BY DEF Grown

(* The prefixes a subsequence is built along. *)
PickedUpTo(s, K, picked) ==
  /\ picked[0] = <<>>
  /\ \A i \in 1 .. Len(s) : picked[i] = Grown(picked[i - 1], s[i], i \in K)

(* A subsequence is the last of its prefixes. *)
LEMMA PickedIs ==
  ASSUME NEW S, NEW s \in Seq(S), NEW K
  PROVE  \E picked \in [0 .. Len(s) -> Seq(S)] :
           PickedUpTo(s, K, picked) /\ Picked(s, K) = picked[Len(s)]
<1> DEFINE n == Len(s)
           V == Seq(S)
           none == <<>>
           step == [i \in 1 .. n |-> [q \in V |-> Grown(q, s[i], i \in K)]]
           Body(f) == [i \in 0 .. n |-> IF i = 0 THEN none ELSE Grown(f[i - 1], s[i], i \in K)]
           F == CHOOSE f : f = Body(f)
<1>1. n \in Nat /\ none \in V /\ \A i \in 1 .. n : s[i] \in S
  OBVIOUS
<1>2. \A q \in V, i \in 1 .. n : Grown(q, s[i], i \in K) \in V
  BY <1>1, GrownType
<1>3. Picked(s, K) = F[n]
  BY DEF Picked
<1> HIDE DEF n, V, none
<1>4. step \in [1 .. n -> [V -> V]]
  BY <1>2
<1>5. PICK g : Iteration(n, V, none, step, g)
  <2> HIDE DEF step
  <2> QED BY <1>1, <1>4, Iterates
<1>6. g \in [0 .. n -> V] /\ g[0] = none /\ \A i \in 1 .. n : g[i] = step[i][g[i - 1]]
  <2> HIDE DEF step
  <2> QED BY <1>5 DEF Iteration
<1>7. \A i \in 1 .. n : g[i] = Grown(g[i - 1], s[i], i \in K)
  <2> SUFFICES ASSUME NEW i \in 1 .. n PROVE g[i] = Grown(g[i - 1], s[i], i \in K)
    OBVIOUS
  <2>1. g[i - 1] \in V
    <3>1. i - 1 \in 0 .. n
      BY <1>1
    <3> HIDE DEF step
    <3> QED BY <1>6, <3>1
  <2>2. step[i][g[i - 1]] = Grown(g[i - 1], s[i], i \in K)
    BY <2>1
  <2> HIDE DEF step
  <2> QED BY <1>6, <2>2
<1>8. g = Body(g)
  <2> HIDE DEF step
  <2>1. \A i \in 0 .. n : g[i] = IF i = 0 THEN none ELSE Grown(g[i - 1], s[i], i \in K)
    BY <1>1, <1>6, <1>7
  <2> QED BY <1>6, <2>1
<1>9. F = Body(F)
  <2> HIDE DEF Body
  <2> QED BY <1>8
<1> HIDE DEF F
<1>10. F[0] = none /\ \A i \in 1 .. n : F[i] = Grown(F[i - 1], s[i], i \in K)
  <2>1. \A i \in 0 .. n : Body(F)[i] = IF i = 0 THEN none ELSE Grown(F[i - 1], s[i], i \in K)
    OBVIOUS
  <2> HIDE DEF Body
  <2>2. \A i \in 0 .. n : F[i] = IF i = 0 THEN none ELSE Grown(F[i - 1], s[i], i \in K)
    BY <1>9, <2>1
  <2> QED BY <1>1, <2>2
<1>11. F = [i \in 0 .. n |-> F[i]]
  <2>1. \E h : F = [i \in 0 .. n |-> h[i]]
    <3>1. Body(F) = [i \in 0 .. n |-> Body(F)[i]]
      OBVIOUS
    <3> HIDE DEF Body
    <3> QED BY <1>9, <3>1
  <2> QED BY <2>1
<1>12. \A i \in 0 .. n : F[i] \in V
  <2> DEFINE P == {i \in 0 .. n : F[i] \in V}
  <2>1. 0 \in P
    BY <1>1, <1>10
  <2>2. \A i \in 1 .. n : i - 1 \in P => i \in P
    BY <1>1, <1>2, <1>10
  <2>3. \A i \in 0 .. n : i \in P
    <3> HIDE DEF P
    <3> QED BY <1>1, <2>1, <2>2, UpTo
  <2> QED BY <2>3
<1>13. F \in [0 .. n -> V]
  BY <1>11, <1>12
<1>14. PickedUpTo(s, K, F)
  BY <1>10 DEF PickedUpTo, n, none
<1> QED BY <1>3, <1>13, <1>14 DEF n, V

(* A subsequence of a sequence over S is one. *)
LEMMA PickedIn ==
  ASSUME NEW S, NEW s \in Seq(S), NEW K
  PROVE  Picked(s, K) \in Seq(S)
<1>1. PICK picked \in [0 .. Len(s) -> Seq(S)] : Picked(s, K) = picked[Len(s)]
  BY PickedIs
<1>2. Len(s) \in 0 .. Len(s)
  OBVIOUS
<1>3. picked[Len(s)] \in Seq(S)
  BY <1>2
<1> QED BY <1>1, <1>3

(* No element occurs twice. *)
Distinct(s) == \A i, j \in 1 .. Len(s) : s[i] = s[j] => i = j

(* The elements of a sequence. *)
LEMMA ElementsOf ==
  ASSUME NEW S, NEW s \in Seq(S)
  PROVE  /\ ToSet(s) = {s[i] : i \in 1 .. Len(s)}
         /\ ToSet(s) \subseteq S
         /\ Len(s) \in Nat /\ DOMAIN s = 1 .. Len(s)
BY DEF ToSet

(* One element more, and what there is then. *)
LEMMA Appended ==
  ASSUME NEW S, NEW q \in Seq(S), NEW x \in S
  PROVE  /\ Append(q, x) \in Seq(S) /\ Len(Append(q, x)) = Len(q) + 1
         /\ ToSet(Append(q, x)) = ToSet(q) \cup {x}
         /\ Distinct(q) /\ x \notin ToSet(q) => Distinct(Append(q, x))
<1> DEFINE g == Append(q, x)
<1>1. /\ g \in Seq(S) /\ Len(g) = Len(q) + 1 /\ Len(q) \in Nat
      /\ \A i \in 1 .. Len(q) : g[i] = q[i]
      /\ g[Len(q) + 1] = x
  OBVIOUS
<1>2. ToSet(g) = {g[i] : i \in 1 .. Len(g)} /\ ToSet(q) = {q[i] : i \in 1 .. Len(q)}
  BY <1>1, ElementsOf
<1> HIDE DEF g
<1>3. ToSet(g) = ToSet(q) \cup {x}
  BY <1>1, <1>2
<1>4. ASSUME Distinct(q), x \notin ToSet(q) PROVE Distinct(g)
  BY <1>1, <1>2, <1>4 DEF Distinct
<1> QED BY <1>1, <1>3, <1>4 DEF g

(* What a subsequence holds. *)
LEMMA PickedElements ==
  ASSUME NEW S, NEW s \in Seq(S), NEW K
  PROVE  /\ ToSet(Picked(s, K)) = {s[i] : i \in K \cap (1 .. Len(s))}
         /\ Distinct(s) => Distinct(Picked(s, K))
         /\ Len(Picked(s, K)) \in 0 .. Len(s)
<1>1. PICK picked \in [0 .. Len(s) -> Seq(S)] :
        PickedUpTo(s, K, picked) /\ Picked(s, K) = picked[Len(s)]
  BY PickedIs
<1> DEFINE n == Len(s)
           Up(i) == {s[j] : j \in K \cap (1 .. i)}
           P == {i \in 0 .. n : /\ ToSet(picked[i]) = Up(i)
                                /\ Distinct(s) => Distinct(picked[i])
                                /\ Len(picked[i]) \in 0 .. i}
<1>2. n \in Nat /\ \A i \in 1 .. n : s[i] \in S
  OBVIOUS
<1>3. 0 \in P
  <2>1. picked[0] = <<>>
    BY <1>1 DEF PickedUpTo
  <2>2. ToSet(<<>>) = {} /\ Distinct(<<>>) /\ Len(<<>>) = 0
    BY DEF ToSet, Distinct
  <2>3. Up(0) = {}
    OBVIOUS
  <2> QED BY <1>2, <2>1, <2>2, <2>3
<1>4. ASSUME NEW i \in 1 .. n, i - 1 \in P PROVE i \in P
  <2> DEFINE q == picked[i - 1]
  <2>1. q \in Seq(S) /\ s[i] \in S /\ Len(q) \in 0 .. i - 1
    BY <1>2, <1>4
  <2>2. picked[i] = Grown(q, s[i], i \in K)
    BY <1>1 DEF PickedUpTo
  <2>3. ToSet(q) = Up(i - 1) /\ (Distinct(s) => Distinct(q))
    BY <1>4
  <2> HIDE DEF q
  <2>4. 1 .. i = (1 .. i - 1) \cup {i} /\ i - 1 \in 0 .. n /\ i \in 0 .. n
    BY <1>2
  <2>5. CASE i \in K
    <3>1. picked[i] = Append(q, s[i])
      BY <2>2, <2>5 DEF Grown
    <3>2. Up(i) = Up(i - 1) \cup {s[i]}
      BY <2>4, <2>5
    <3>3. ASSUME Distinct(s) PROVE s[i] \notin Up(i - 1)
      <4>1. \A j \in 1 .. i - 1 : j \in 1 .. n /\ j # i
        BY <1>2
      <4>2. \A j \in 1 .. i - 1 : s[j] # s[i]
        BY <3>3, <4>1 DEF Distinct
      <4> QED BY <4>2
    <3> HIDE DEF Up
    <3>4. ToSet(picked[i]) = Up(i) /\ (Distinct(s) => Distinct(picked[i]))
      BY <2>1, <2>3, <3>1, <3>2, <3>3, Appended
    <3>5. Len(picked[i]) \in 0 .. i
      BY <1>2, <2>1, <3>1, Appended
    <3> QED BY <2>4, <3>4, <3>5
  <2>6. CASE i \notin K
    <3>1. picked[i] = q
      BY <2>2, <2>6 DEF Grown
    <3>2. Up(i) = Up(i - 1)
      BY <2>4, <2>6
    <3> HIDE DEF Up
    <3>3. Len(picked[i]) \in 0 .. i
      BY <1>2, <2>1, <3>1
    <3> QED BY <2>3, <2>4, <3>1, <3>2, <3>3
  <2> QED BY <2>5, <2>6
<1>5. n \in P
  <2> HIDE DEF P
  <2>1. \A i \in 0 .. n : i \in P
    BY <1>2, <1>3, <1>4, UpTo
  <2> QED BY <1>2, <2>1
<1> QED BY <1>1, <1>5

(* A sequence behind another. *)
LEMMA Joined ==
  ASSUME NEW S, NEW p \in Seq(S), NEW q \in Seq(S)
  PROVE  /\ p \o q \in Seq(S) /\ Len(p \o q) = Len(p) + Len(q)
         /\ ToSet(p \o q) = ToSet(p) \cup ToSet(q)
         /\ Distinct(p \o q) <=> Distinct(p) /\ Distinct(q) /\ ToSet(p) \cap ToSet(q) = {}
<1> DEFINE s == p \o q
<1>1. /\ s \in Seq(S) /\ Len(s) = Len(p) + Len(q) /\ Len(p) \in Nat /\ Len(q) \in Nat
      /\ \A i \in 1 .. Len(p) : s[i] = p[i]
      /\ \A i \in 1 .. Len(q) : s[Len(p) + i] = q[i]
  OBVIOUS
<1>2. \A i \in 1 .. Len(s) : i \in 1 .. Len(p) \/ \E j \in 1 .. Len(q) : i = Len(p) + j
  <2> SUFFICES ASSUME NEW i \in 1 .. Len(s), i \notin 1 .. Len(p)
               PROVE  \E j \in 1 .. Len(q) : i = Len(p) + j
    OBVIOUS
  <2> HIDE DEF s
  <2>1. i - Len(p) \in 1 .. Len(q) /\ i = Len(p) + (i - Len(p))
    BY <1>1
  <2> QED BY <2>1
<1>3. /\ ToSet(s) = {s[i] : i \in 1 .. Len(s)} /\ ToSet(p) = {p[i] : i \in 1 .. Len(p)}
      /\ ToSet(q) = {q[i] : i \in 1 .. Len(q)}
  BY <1>1, ElementsOf
<1> HIDE DEF s
<1>4. ToSet(s) = ToSet(p) \cup ToSet(q)
  <2>1. \A i \in 1 .. Len(p) : i \in 1 .. Len(s)
    BY <1>1
  <2>2. \A i \in 1 .. Len(q) : Len(p) + i \in 1 .. Len(s)
    BY <1>1
  <2>3. ToSet(p) \cup ToSet(q) \subseteq ToSet(s)
    BY <1>1, <1>3, <2>1, <2>2
  <2>4. ToSet(s) \subseteq ToSet(p) \cup ToSet(q)
    <3> SUFFICES ASSUME NEW i \in 1 .. Len(s) PROVE s[i] \in ToSet(p) \cup ToSet(q)
      BY <1>3
    <3>1. CASE i \in 1 .. Len(p)
      BY <1>1, <1>3, <3>1
    <3>2. CASE i \notin 1 .. Len(p)
      <4>1. PICK b \in 1 .. Len(q) : i = Len(p) + b
        BY <1>2, <3>2
      <4>2. s[i] = q[b]
        BY <1>1, <4>1
      <4> QED BY <1>3, <4>2
    <3> QED BY <3>1, <3>2
  <2> QED BY <2>3, <2>4
<1>5. ASSUME Distinct(s) PROVE Distinct(p) /\ Distinct(q) /\ ToSet(p) \cap ToSet(q) = {}
  <2>1. \A i \in 1 .. Len(p), j \in 1 .. Len(q) : p[i] # q[j]
    BY <1>1, <1>5 DEF Distinct
  <2>2. Distinct(p)
    BY <1>1, <1>5 DEF Distinct
  <2>3. Distinct(q)
    BY <1>1, <1>5 DEF Distinct
  <2> QED BY <1>3, <2>1, <2>2, <2>3
<1>6. ASSUME Distinct(p), Distinct(q), ToSet(p) \cap ToSet(q) = {} PROVE Distinct(s)
  <2> SUFFICES ASSUME NEW i \in 1 .. Len(s), NEW j \in 1 .. Len(s), s[i] = s[j] PROVE i = j
    BY DEF Distinct
  <2>1. \A a \in 1 .. Len(p), b \in 1 .. Len(q) : p[a] # q[b]
    BY <1>3, <1>6
  <2>2. CASE i \in 1 .. Len(p) /\ j \in 1 .. Len(p)
    BY <1>1, <1>6, <2>2 DEF Distinct
  <2>3. CASE i \in 1 .. Len(p) /\ j \notin 1 .. Len(p)
    <3>1. PICK b \in 1 .. Len(q) : j = Len(p) + b
      BY <1>2, <2>3
    <3>2. s[i] = p[i] /\ s[j] = q[b]
      BY <1>1, <2>3, <3>1
    <3> QED BY <2>1, <2>3, <3>2
  <2>4. CASE i \notin 1 .. Len(p) /\ j \in 1 .. Len(p)
    <3>1. PICK b \in 1 .. Len(q) : i = Len(p) + b
      BY <1>2, <2>4
    <3>2. s[j] = p[j] /\ s[i] = q[b]
      BY <1>1, <2>4, <3>1
    <3> QED BY <2>1, <2>4, <3>2
  <2>5. CASE i \notin 1 .. Len(p) /\ j \notin 1 .. Len(p)
    BY <1>1, <1>2, <1>6, <2>5 DEF Distinct
  <2> QED BY <2>2, <2>3, <2>4, <2>5
<1> QED BY <1>1, <1>4, <1>5, <1>6 DEF s

(* What Within keeps. *)
LEMMA WithinFacts ==
  ASSUME NEW S, NEW s \in Seq(S), NEW R
  PROVE  /\ Within(s, R) \in Seq(S)
         /\ ToSet(Within(s, R)) = ToSet(s) \cap R
         /\ Distinct(s) => Distinct(Within(s, R))
         /\ Len(Within(s, R)) \in 0 .. Len(s)
<1> DEFINE K == {i \in DOMAIN s : s[i] \in R}
<1>1. ToSet(s) = {s[i] : i \in 1 .. Len(s)} /\ DOMAIN s = 1 .. Len(s)
  BY ElementsOf
<1>2. {s[i] : i \in K \cap (1 .. Len(s))} = ToSet(s) \cap R
  BY <1>1
<1>3. Within(s, R) = Picked(s, K)
  BY DEF Within
<1> HIDE DEF K
<1> QED BY <1>2, <1>3, PickedIn, PickedElements

(* As many elements as positions, when none occurs twice. *)
LEMMA LengthIs ==
  ASSUME NEW S, NEW s \in Seq(S), Distinct(s)
  PROVE  IsFiniteSet(ToSet(s)) /\ Cardinality(ToSet(s)) = Len(s)
<1>1. /\ ToSet(s) = {s[i] : i \in 1 .. Len(s)} /\ Len(s) \in Nat
      /\ \A i, j \in 1 .. Len(s) : s[i] = s[j] => i = j
  BY ElementsOf DEF Distinct
<1> DEFINE n == Len(s)  f == [i \in 1 .. n |-> s[i]]
<1>2. f \in Bijection(1 .. n, ToSet(s))
  <2>1. \A i \in 1 .. n : f[i] = s[i]
    OBVIOUS
  <2>2. f \in [1 .. n -> ToSet(s)]
    BY <1>1
  <2> HIDE DEF f
  <2>3. \A i, j \in 1 .. n : f[i] = f[j] => i = j
    BY <1>1, <2>1
  <2>4. \A x \in ToSet(s) : \E i \in 1 .. n : f[i] = x
    BY <1>1, <2>1
  <2> HIDE DEF n
  <2> QED BY <2>2, <2>3, <2>4 DEF Bijection, Injection, Surjection, IsInjective
<1> HIDE DEF f
<1>3. ExistsBijection(1 .. n, ToSet(s))
  BY <1>2 DEF ExistsBijection
<1>4. n \in Nat
  BY <1>1
<1> HIDE DEF n
<1>5. IsFiniteSet(ToSet(s)) /\ Cardinality(ToSet(s)) = n
  BY <1>3, <1>4, FS_NatBijection, FS_CountingElements
<1> QED BY <1>5 DEF n

(* A sequence over a set is one over a larger set. *)
LEMMA SeqWithin ==
  ASSUME NEW S, NEW T, S \subseteq T, NEW s \in Seq(S)
  PROVE  s \in Seq(T)
<1>1. Len(s) \in Nat /\ s \in [1 .. Len(s) -> S]
  OBVIOUS
<1>2. s \in [1 .. Len(s) -> T]
  BY <1>1
<1> QED BY <1>1, <1>2

(* A function along 1 .. n is a sequence. *)
LEMMA FunctionIsSeq ==
  ASSUME NEW S, NEW n \in Nat, NEW f \in [1 .. n -> S]
  PROVE  f \in Seq(S) /\ Len(f) = n
OBVIOUS

(* A sequence loses nothing to a test all its elements pass. *)
LEMMA WithinAll ==
  ASSUME NEW S, NEW s \in Seq(S)
  PROVE  Within(s, S) = s
<1>1. PICK picked \in [0 .. Len(s) -> Seq(S)] :
        PickedUpTo(s, DOMAIN s, picked) /\ Picked(s, DOMAIN s) = picked[Len(s)]
  <2>1. \A K : \E picked \in [0 .. Len(s) -> Seq(S)] :
          PickedUpTo(s, K, picked) /\ Picked(s, K) = picked[Len(s)]
    BY PickedIs
  <2> QED BY <2>1
<1> DEFINE n == Len(s)
           P == {i \in 0 .. n : picked[i] = SubSeq(s, 1, i)}
<1>2. n \in Nat /\ DOMAIN s = 1 .. n /\ \A i \in 1 .. n : s[i] \in S
  OBVIOUS
<1>3. 0 \in P
  BY <1>1, <1>2 DEF PickedUpTo
<1>4. ASSUME NEW i \in 1 .. n, i - 1 \in P PROVE i \in P
  <2>1. picked[i] = Append(picked[i - 1], s[i])
    BY <1>1, <1>2 DEF PickedUpTo, Grown
  <2>2. SubSeq(s, 1, i) = Append(SubSeq(s, 1, i - 1), s[i])
    BY <1>2
  <2>3. picked[i - 1] = SubSeq(s, 1, i - 1) /\ i \in 0 .. n
    BY <1>2, <1>4
  <2>4. picked[i] = SubSeq(s, 1, i)
    BY <2>1, <2>2, <2>3
  <2> QED BY <2>3, <2>4
<1>5. n \in P
  <2> HIDE DEF P
  <2>1. \A i \in 0 .. n : i \in P
    BY <1>2, <1>3, <1>4, UpTo
  <2> QED BY <1>2, <2>1
<1>6. Picked(s, DOMAIN s) = s
  BY <1>1, <1>5
<1>7. {i \in DOMAIN s : s[i] \in S} = DOMAIN s
  BY <1>2
<1> QED BY <1>6, <1>7 DEF Within

(* A sequence without elements is empty. *)
LEMMA Elementless ==
  ASSUME NEW S, NEW s \in Seq(S), ToSet(s) = {}
  PROVE  s = <<>>
<1>1. Len(s) \in Nat /\ ToSet(s) = {s[i] : i \in 1 .. Len(s)}
  BY ElementsOf
<1> DEFINE n == Len(s)
<1>2. n > 0 => s[1] \in ToSet(s)
  BY <1>1
<1>3. n = 0
  BY <1>1, <1>2
<1> QED BY <1>3

=============================================================================
