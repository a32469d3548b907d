--------------------------- MODULE BlockOutputProofs ---------------------------
(***************************************************************************)
(* BlockOutput for any number of requests, any block width, tile, model    *)
(* length and frontier: no commit ever raises, the placeholders of a       *)
(* running request are what the model owes it, the scheduler's mirror      *)
(* agrees with the model's session, and the canvases of a plain block      *)
(* model lie within its length.                                            *)
(***************************************************************************)
EXTENDS BlockOutput, FiniteSetTheorems, TLAPS

-----------------------------------------------------------------------------
(* Arithmetic of tiles and canvases. *)

(* Division by a unit rounds down by less than one unit. *)
LEMMA Quotient ==
  ASSUME NEW n \in Nat, NEW unit \in Nat \ {0}
  PROVE  /\ n \div unit \in Nat
         /\ (n \div unit) * unit \in Nat
         /\ (n \div unit) * unit <= n /\ n < (n \div unit) * unit + unit
BY SMTT(30)

(* The next multiple is a whole unit further. *)
LEMMA NextMultiple ==
  ASSUME NEW a \in Nat, NEW b \in Nat, NEW unit \in Nat \ {0}, a < b
  PROVE  a * unit \in Nat /\ b * unit \in Nat /\ a * unit + unit <= b * unit
BY SMTT(30)

(* Between a multiple and the next one there is no other. *)
LEMMA MultipleBelow ==
  ASSUME NEW a \in Nat, NEW b \in Nat, NEW unit \in Nat \ {0},
         a * unit < b * unit + unit
  PROVE  a * unit <= b * unit
<1>1. ~(b < a)
  BY NextMultiple
<1>2. a = b \/ a < b
  BY <1>1
<1> QED BY <1>2, NextMultiple

(* Rounding is onto multiples, and off by less than a unit. *)
LEMMA DownIs ==
  ASSUME NEW n \in Nat
  PROVE  \E k \in Nat : RoundDown(n) = k * Tile /\ RoundDown(n) \in Nat
                        /\ RoundDown(n) <= n /\ n < RoundDown(n) + Tile
BY Quotient, LaunchAssumption DEF RoundDown

(* RoundUp is the first multiple of the tile at or above its argument. *)
LEMMA UpIs ==
  ASSUME NEW n \in Nat
  PROVE  \E k \in Nat : RoundUp(n) = k * Tile /\ RoundUp(n) \in Nat
                        /\ n <= RoundUp(n) /\ RoundUp(n) < n + Tile
<1> DEFINE top == n + Tile - 1
           k == top \div Tile
<1>1. top \in Nat /\ Tile \in Nat \ {0}
  BY LaunchAssumption
<1>2. k \in Nat /\ k * Tile \in Nat /\ k * Tile <= top /\ top < k * Tile + Tile
  <2> HIDE DEF top
  <2> QED BY <1>1, Quotient
<1>3. RoundUp(n) = k * Tile
  BY DEF RoundUp
<1> HIDE DEF k
<1>4. n <= k * Tile /\ k * Tile < n + Tile
  BY <1>1, <1>2
<1> QED BY <1>2, <1>3, <1>4

(* A number up to a multiple rounds up to at most it, and one from a multiple
   on rounds down to at least it. *)
LEMMA UpWithin ==
  ASSUME NEW n \in Nat, NEW k \in Nat, n <= k * Tile
  PROVE  RoundUp(n) <= k * Tile
<1>1. PICK j \in Nat : RoundUp(n) = j * Tile /\ RoundUp(n) \in Nat /\ RoundUp(n) < n + Tile
  BY UpIs
<1>2. k * Tile \in Nat /\ Tile \in Nat \ {0}
  BY LaunchAssumption, SMTT(30)
<1>3. j * Tile < k * Tile + Tile
  BY <1>1, <1>2
<1> QED BY <1>1, <1>2, <1>3, MultipleBelow

(* No multiple of the tile fits between RoundDown(n) and n. *)
LEMMA DownBeyond ==
  ASSUME NEW n \in Nat, NEW k \in Nat, k * Tile <= n
  PROVE  k * Tile <= RoundDown(n)
<1>1. PICK j \in Nat : RoundDown(n) = j * Tile /\ RoundDown(n) \in Nat /\ n < RoundDown(n) + Tile
  BY DownIs
<1>2. k * Tile \in Nat /\ Tile \in Nat \ {0}
  BY LaunchAssumption, SMTT(30)
<1>3. k * Tile < j * Tile + Tile
  BY <1>1, <1>2
<1> QED BY <1>1, <1>2, <1>3, MultipleBelow

(* The least of two numbers. *)
LEMMA MinOfTwo ==
  ASSUME NEW a \in Int, NEW b \in Int
  PROVE  Min({a, b}) = IF a <= b THEN a ELSE b
<1> DEFINE least == IF a <= b THEN a ELSE b
<1>1. least \in {a, b} /\ \A y \in {a, b} : least <= y
  OBVIOUS
<1>2. \A x \in {a, b} : (\A y \in {a, b} : x <= y) => x = least
  OBVIOUS
<1> HIDE DEF least
<1>3. Min({a, b}) = least
  BY <1>1, <1>2 DEF Min
<1> QED BY <1>3 DEF least

(* The greatest of two numbers. *)
LEMMA MaxOfTwo ==
  ASSUME NEW a \in Int, NEW b \in Int
  PROVE  Max({a, b}) = IF a >= b THEN a ELSE b
<1> DEFINE top == IF a >= b THEN a ELSE b
<1>1. top \in {a, b} /\ \A y \in {a, b} : top >= y
  OBVIOUS
<1>2. \A x \in {a, b} : (\A y \in {a, b} : x >= y) => x = top
  OBVIOUS
<1> HIDE DEF top
<1>3. Max({a, b}) = top
  BY <1>1, <1>2 DEF Max
<1> QED BY <1>3 DEF top

(* The least of three numbers is one of them and below the others. *)
LEMMA MinOfThree ==
  ASSUME NEW a \in Int, NEW b \in Int, NEW c \in Int
  PROVE  /\ Min({a, b, c}) \in {a, b, c}
         /\ Min({a, b, c}) <= a /\ Min({a, b, c}) <= b /\ Min({a, b, c}) <= c
<1>1. \E x \in {a, b, c} : \A y \in {a, b, c} : x <= y
  <2>1. CASE a <= b /\ a <= c  BY <2>1
  <2>2. CASE b <= a /\ b <= c  BY <2>2
  <2>3. CASE c <= a /\ c <= b  BY <2>3
  <2> QED BY <2>1, <2>2, <2>3
<1>2. Min({a, b, c}) \in {a, b, c} /\ \A y \in {a, b, c} : Min({a, b, c}) <= y
  BY <1>1 DEF Min
<1> QED BY <1>2

(* A repaired prompt leaves room for a canvas behind it. *)
LEMMA Room ==
  ASSUME NEW p \in Nat
  PROVE  /\ RepairedPrompt(p) \in Nat \ {0}
         /\ RepairedPrompt(p) + Width <= MaxModelLen
         /\ Remaining(RepairedPrompt(p)) \in Nat
         /\ Remaining(RepairedPrompt(p)) >= Width
<1> DEFINE whole == RoundDown(MaxModelLen)
           least == Tile + Width
<1>1. /\ Tile \in Nat \ {0} /\ Width \in Nat \ {0, 1} /\ MaxModelLen \in Nat
      /\ least \in Nat
  BY LaunchAssumption
<1>2. MinMaxModelLen = RoundUp(least)
  BY DEF MinMaxModelLen, RoundUp
<1>3. PICK k \in Nat : RoundUp(least) = k * Tile /\ RoundUp(least) \in Nat
                       /\ least <= RoundUp(least)
  <2> HIDE DEF least
  <2> QED BY <1>1, UpIs
<1>4. whole \in Nat /\ whole <= MaxModelLen
  BY <1>1, DownIs
<1>5. RoundUp(least) <= whole
  <2>1. k * Tile <= MaxModelLen
    BY <1>2, <1>3, LaunchAssumption
  <2> QED BY <1>1, <1>3, <2>1, DownBeyond
<1>6. whole - Width \in Nat /\ Tile <= whole - Width
  <2> HIDE DEF whole
  <2> QED BY <1>1, <1>3, <1>4, <1>5
<1>7. PICK j \in Nat : LongestPrompt = j * Tile /\ LongestPrompt \in Nat
                       /\ LongestPrompt <= whole - Width
  <2> HIDE DEF whole
  <2> QED BY <1>6, DownIs DEF LongestPrompt, whole
<1>8. Tile <= LongestPrompt
  <2>1. 1 * Tile <= whole - Width
    <3> HIDE DEF whole
    <3> QED BY <1>1, <1>6
  <2>2. 1 * Tile <= LongestPrompt
    <3> HIDE DEF whole
    <3> QED BY <1>6, <2>1, DownBeyond DEF LongestPrompt, whole
  <2> QED BY <1>1, <2>2
<1> DEFINE q == RepairedPrompt(p)
<1>9. q \in Nat \ {0} /\ q <= LongestPrompt
  <2>1. Max({p, 1}) \in Nat \ {0}
    BY MaxOfTwo
  <2>2. q = IF Max({p, 1}) <= LongestPrompt THEN Max({p, 1}) ELSE LongestPrompt
    BY <1>7, <2>1, MinOfTwo DEF RepairedPrompt
  <2> QED BY <1>1, <1>7, <1>8, <2>1, <2>2
<1>10. RoundUp(q) \in Nat /\ RoundUp(q) <= LongestPrompt
  <2> HIDE DEF q
  <2> QED BY <1>7, <1>9, UpIs, UpWithin
<1> HIDE DEF q, whole
<1>11. Remaining(q) = whole - RoundUp(q)
  BY DEF Remaining, whole
<1> QED BY <1>1, <1>4, <1>6, <1>7, <1>9, <1>10, <1>11 DEF q

(* The canvases of a limit hold it. *)
LEMMA PhysicalHolds ==
  ASSUME NEW m \in Nat
  PROVE  Physical(m) \in Nat /\ m <= Physical(m) /\ Width <= Physical(m)
<1>1. Width \in Nat \ {0}
  BY LaunchAssumption
<1>2. CASE m <= Width
  BY <1>1, <1>2 DEF Physical
<1>3. CASE m > Width
  <2> DEFINE top == m + Width - 1
  <2>1. top \in Nat
    BY <1>1
  <2>2. (top \div Width) * Width \in Nat /\ top < (top \div Width) * Width + Width
    <3> HIDE DEF top
    <3> QED BY <1>1, <2>1, Quotient
  <2>3. Physical(m) = (top \div Width) * Width
    BY <1>1, <1>3 DEF Physical
  <2> QED BY <1>1, <1>3, <2>2, <2>3
<1> QED BY <1>1, <1>2, <1>3

(* When k canvases do not reach the limit, one more lies within its canvases. *)
LEMMA NextCanvas ==
  ASSUME NEW m \in Nat, NEW k \in Nat, k * Width < m
  PROVE  k * Width + Width <= Physical(m)
<1>1. Width \in Nat \ {0} /\ k * Width \in Nat
  BY LaunchAssumption, SMTT(30)
<1>2. CASE m <= Width
  <2>1. ~(0 < k)
    <3>1. 0 < k => 0 * Width + Width <= k * Width
      BY <1>1, NextMultiple
    <3> QED BY <1>1, <1>2, <3>1
  <2>2. k = 0
    BY <2>1
  <2> QED BY <1>1, <1>2, <2>2 DEF Physical
<1>3. CASE m > Width
  <2> DEFINE top == m + Width - 1
             n == top \div Width
  <2>1. top \in Nat
    BY <1>1
  <2>2. n \in Nat /\ n * Width \in Nat /\ top < n * Width + Width
    <3> HIDE DEF top
    <3> QED BY <1>1, <2>1, Quotient
  <2>3. Physical(m) = n * Width
    BY <1>1, <1>3 DEF Physical
  <2>4. k * Width < n * Width
    <3> HIDE DEF n
    <3> QED BY <1>1, <2>2
  <2>5. k < n
    <3>1. ~(n < k)
      <4> HIDE DEF n
      <4> QED BY <1>1, <2>2, <2>4, NextMultiple
    <3> HIDE DEF n
    <3> QED BY <2>2, <2>4, <3>1
  <2> HIDE DEF n
  <2> QED BY <1>1, <2>2, <2>3, <2>5, NextMultiple
<1> QED BY <1>1, <1>2, <1>3

(* A clamped limit's canvases lie in the room, and a limit that had to be
   lowered is lowered to at least one of them. *)
LEMMA Fitted ==
  ASSUME NEW q \in Nat, NEW m \in Nat, Remaining(q) \in Nat, Remaining(q) >= Width
  PROVE  /\ FittedLimit(q, m) \in Nat
         /\ Physical(FittedLimit(q, m)) <= Remaining(q)
         /\ FittedLimit(q, m) # m => FittedLimit(q, m) > 0
<1>1. Width \in Nat \ {0}
  BY LaunchAssumption
<1>2. CASE Physical(m) <= Remaining(q)
  BY <1>2 DEF FittedLimit
<1>3. CASE ~(Physical(m) <= Remaining(q))
  <2> DEFINE n == Remaining(q) \div Width
  <2>1. n \in Nat /\ n * Width \in Nat /\ n * Width <= Remaining(q)
        /\ Remaining(q) < n * Width + Width
    BY <1>1, Quotient
  <2> HIDE DEF n
  <2>2. n # 0
    BY <1>1, <2>1
  <2>3. 0 * Width + Width <= n * Width
    BY <1>1, <2>1, <2>2, NextMultiple
  <2>4. n * Width >= Width
    BY <1>1, <2>1, <2>3
  <2>5. Max({0, n * Width}) = n * Width
    BY <1>1, <2>1, <2>4, MaxOfTwo
  <2>6. FittedLimit(q, m) = n * Width
    BY <1>3, <2>5 DEF FittedLimit, n
  <2>7. Physical(n * Width) <= n * Width
    <3>1. CASE n * Width <= Width
      BY <1>1, <2>1, <2>4, <3>1 DEF Physical
    <3>2. CASE n * Width > Width
      <4> DEFINE top == n * Width + Width - 1
                 c == top \div Width
      <4>1. top \in Nat
        BY <1>1, <2>1
      <4>2. c \in Nat /\ c * Width \in Nat /\ c * Width <= top
        <5> HIDE DEF top
        <5> QED BY <1>1, <4>1, Quotient
      <4>3. Physical(n * Width) = c * Width
        BY <1>1, <2>1, <3>2 DEF Physical
      <4>4. c * Width < n * Width + Width
        <5> HIDE DEF c
        <5> QED BY <1>1, <2>1, <4>2
      <4> HIDE DEF c
      <4> QED BY <1>1, <2>1, <4>2, <4>3, <4>4, MultipleBelow
    <3> QED BY <1>1, <2>1, <3>1, <3>2
  <2> DEFINE lowered == n * Width
  <2>8. /\ lowered \in Nat /\ lowered > 0 /\ Physical(lowered) <= lowered
        /\ Physical(lowered) \in Nat /\ lowered <= Remaining(q) /\ FittedLimit(q, m) = lowered
    <3>1. lowered > 0
      BY <1>1, <2>1, <2>4
    <3> QED BY <2>1, <2>6, <2>7, <3>1, PhysicalHolds
  <2> HIDE DEF lowered
  <2> QED BY <2>8
<1> QED BY <1>2, <1>3

-----------------------------------------------------------------------------
(* The running queue. *)

(* An injection into a finite set of its own size reaches all of it. *)
LEMMA OntoAll ==
  ASSUME NEW S, IsFiniteSet(S), NEW f \in [1 .. Cardinality(S) -> S],
         \A i, j \in 1 .. Cardinality(S) : f[i] = f[j] => i = j
  PROVE  \A x \in S : \E i \in 1 .. Cardinality(S) : f[i] = x
<1>1. Cardinality(S) \in Nat
  BY FS_CardinalityType
<1>2. IsFiniteSet(1 .. Cardinality(S)) /\ Cardinality(1 .. Cardinality(S)) = Cardinality(S)
  BY <1>1, FS_Interval
<1>3. f \in Injection(1 .. Cardinality(S), S)
  BY DEF Injection, IsInjective
<1>4. f \in Surjection(1 .. Cardinality(S), S)
  BY <1>2, <1>3, FS_Injection
<1> QED BY <1>4 DEF Surjection

(* Dropping requests from the queue keeps the others, once each, and keeps the
   head at the head. *)
LEMMA QueueWithout ==
  ASSUME NEW queue \in Seq(Reqs), IsInjective(queue), NEW S, NEW q \in Without(queue, S)
  PROVE  /\ q \in Seq(Reqs) /\ IsInjective(q)
         /\ ToSet(q) = ToSet(queue) \ S
         /\ Len(q) <= Len(queue)
         /\ queue # <<>> /\ queue[1] \notin S => q # <<>> /\ q[1] = queue[1]
<1> DEFINE kept == {i \in DOMAIN queue : queue[i] \notin S}
           n == Cardinality(kept)
<1>1. DOMAIN queue = 1 .. Len(queue) /\ Len(queue) \in Nat
  OBVIOUS
<1>2. IsFiniteSet(1 .. Len(queue)) /\ Cardinality(1 .. Len(queue)) = Len(queue)
  <2> DEFINE m == Len(queue)
  <2>1. m \in Nat
    BY <1>1
  <2> HIDE DEF m
  <2>2. IsFiniteSet(1 .. m) /\ Cardinality(1 .. m) = m
    BY <2>1, FS_Interval
  <2> QED BY <2>2 DEF m
<1>3. IsFiniteSet(kept) /\ n \in Nat /\ n <= Len(queue)
  <2>1. kept \subseteq 1 .. Len(queue)
    BY <1>1
  <2>2. IsFiniteSet(kept) /\ Cardinality(kept) <= Len(queue)
    <3> HIDE DEF kept
    <3> QED BY <1>2, <2>1, FS_Subset
  <2> QED BY <2>2, FS_CardinalityType
<1>4. PICK at \in [1 .. n -> kept] :
        /\ \A i, j \in DOMAIN at : i < j => at[i] < at[j]
        /\ q = [i \in DOMAIN at |-> queue[at[i]]]
  BY DEF Without
<1>5. DOMAIN at = 1 .. n /\ q = [i \in 1 .. n |-> queue[at[i]]]
  BY <1>4
<1>6. \A i \in 1 .. n : at[i] \in kept /\ at[i] \in 1 .. Len(queue) /\ at[i] \in Nat
  BY <1>1, <1>4
<1>7. \A i, j \in 1 .. n : at[i] = at[j] => i = j
  <2> SUFFICES ASSUME NEW i \in 1 .. n, NEW j \in 1 .. n, i < j PROVE at[i] # at[j]
    BY <1>3
  <2> QED BY <1>4, <1>5, <1>6
<1>8. \A x \in kept : \E i \in 1 .. n : at[i] = x
  <2> HIDE DEF kept
  <2> QED BY <1>3, <1>4, <1>7, OntoAll
<1>9. q \in Seq(Reqs) /\ Len(q) = n /\ DOMAIN q = 1 .. n
  <2>1. \A i \in 1 .. n : queue[at[i]] \in Reqs
    BY <1>6
  <2> HIDE DEF n
  <2> QED BY <1>3, <1>5, <2>1
<1>10. IsInjective(q)
  <2>1. ASSUME NEW i \in 1 .. n, NEW j \in 1 .. n, q[i] = q[j] PROVE i = j
    <3>1. queue[at[i]] = queue[at[j]]
      BY <1>5, <2>1
    <3>2. at[i] = at[j]
      BY <1>1, <1>6, <3>1 DEF IsInjective
    <3> QED BY <1>7, <3>2
  <2> QED BY <1>9, <2>1 DEF IsInjective
<1>11. ToSet(q) = ToSet(queue) \ S
  <2>1. ASSUME NEW x \in ToSet(q) PROVE x \in ToSet(queue) \ S
    <3>1. PICK i \in 1 .. n : x = queue[at[i]]
      BY <1>5, <1>9 DEF ToSet
    <3> QED BY <1>1, <1>6, <3>1 DEF ToSet
  <2>2. ASSUME NEW x \in ToSet(queue), x \notin S PROVE x \in ToSet(q)
    <3>1. PICK i \in DOMAIN queue : x = queue[i]
      BY DEF ToSet
    <3>2. PICK j \in 1 .. n : at[j] = i
      BY <1>8, <2>2, <3>1
    <3> QED BY <1>5, <1>9, <3>1, <3>2 DEF ToSet
  <2> QED BY <2>1, <2>2
<1>12. ASSUME queue # <<>>, queue[1] \notin S PROVE q # <<>> /\ q[1] = queue[1]
  <2>1. 1 \in kept
    BY <1>1, <1>12
  <2>2. PICK j \in 1 .. n : at[j] = 1
    BY <1>8, <2>1
  <2>3. ~(1 < j)
    <3>1. 1 < j => 1 \in 1 .. n /\ at[1] < at[j]
      BY <1>3, <1>4, <1>5
    <3> QED BY <1>6, <2>2, <3>1
  <2>4. j = 1
    <3> HIDE DEF n
    <3> QED BY <1>3, <2>3
  <2>5. 1 \in 1 .. n /\ q[1] = queue[1]
    BY <1>5, <2>2, <2>4
  <2> QED BY <1>9, <2>5
<1> QED BY <1>3, <1>9, <1>10, <1>11, <1>12

(* Admitting requests appends them in some order. *)
LEMMA QueueExtended ==
  ASSUME NEW queue \in Seq(Reqs), IsInjective(queue), NEW S \in SUBSET Reqs,
         ToSet(queue) \cap S = {}, NEW s \in Orders(S)
  PROVE  /\ queue \o s \in Seq(Reqs) /\ IsInjective(queue \o s)
         /\ ToSet(queue \o s) = ToSet(queue) \cup S
         /\ Cardinality(S) \in Nat
         /\ Len(queue \o s) = Len(queue) + Cardinality(S)
         /\ queue # <<>> => queue \o s # <<>> /\ (queue \o s)[1] = queue[1]
         /\ \A r \in Reqs : S = {r} /\ queue = <<>> => queue \o s # <<>> /\ (queue \o s)[1] = r
<1> DEFINE n == Cardinality(S)
           m == Len(queue)
           both == queue \o s
<1>1. IsFiniteSet(S) /\ n \in Nat
  BY FS_Subset, FS_CardinalityType, LaunchAssumption
<1>2. s \in [1 .. n -> S] /\ \A i, j \in 1 .. n : s[i] = s[j] => i = j
  BY DEF Orders, IsInjective
<1>3. \A x \in S : \E i \in 1 .. n : s[i] = x
  <2> HIDE DEF n
  <2> QED BY <1>1, <1>2, OntoAll DEF n
<1>4. s \in Seq(Reqs) /\ Len(s) = n
  <2> HIDE DEF n
  <2> QED BY <1>1, <1>2
<1> HIDE DEF n
<1>5. m \in Nat /\ DOMAIN queue = 1 .. m /\ \A i \in 1 .. m : queue[i] \in ToSet(queue)
  BY DEF ToSet
<1>6. \A i, j \in 1 .. m : queue[i] = queue[j] => i = j
  BY <1>5 DEF IsInjective
<1>7. /\ both \in Seq(Reqs) /\ Len(both) = m + n /\ DOMAIN both = 1 .. m + n
      /\ \A i \in 1 .. m + n : both[i] = IF i <= m THEN queue[i] ELSE s[i - m]
  BY <1>4
<1> HIDE DEF m, both
<1>8. \A i \in 1 .. m + n : IF i <= m THEN i \in 1 .. m ELSE i - m \in 1 .. n
  BY <1>1, <1>5
<1>9. ASSUME NEW i \in 1 .. m + n, NEW j \in 1 .. m + n, both[i] = both[j] PROVE i = j
  <2>1. CASE i <= m /\ j <= m
    BY <1>6, <1>7, <1>8, <1>9, <2>1
  <2>2. CASE ~(i <= m) /\ ~(j <= m)
    <3>1. i - m = j - m
      BY <1>2, <1>7, <1>8, <1>9, <2>2
    <3> QED BY <1>1, <1>5, <3>1
  <2>3. CASE i <= m /\ ~(j <= m)
    <3>1. both[i] \in ToSet(queue) /\ both[j] \in S
      BY <1>2, <1>5, <1>7, <1>8, <2>3
    <3> QED BY <1>9, <3>1
  <2>4. CASE ~(i <= m) /\ j <= m
    <3>1. both[j] \in ToSet(queue) /\ both[i] \in S
      BY <1>2, <1>5, <1>7, <1>8, <2>4
    <3> QED BY <1>9, <3>1
  <2> QED BY <2>1, <2>2, <2>3, <2>4
<1>10. ToSet(both) = ToSet(queue) \cup S
  <2>1. ASSUME NEW x \in ToSet(both) PROVE x \in ToSet(queue) \cup S
    <3>1. PICK i \in 1 .. m + n : x = both[i]
      BY <1>7 DEF ToSet
    <3> QED BY <1>2, <1>5, <1>7, <1>8, <3>1
  <2>2. ASSUME NEW x \in ToSet(queue) PROVE x \in ToSet(both)
    <3>1. PICK i \in 1 .. m : x = queue[i]
      BY <1>5 DEF ToSet
    <3>2. i \in 1 .. m + n /\ i <= m
      BY <1>1, <1>5
    <3>3. both[i] = x
      BY <1>7, <3>1, <3>2
    <3> QED BY <1>7, <3>2, <3>3 DEF ToSet
  <2>3. ASSUME NEW x \in S PROVE x \in ToSet(both)
    <3>1. PICK i \in 1 .. n : x = s[i]
      BY <1>3
    <3>2. m + i \in 1 .. m + n /\ ~(m + i <= m) /\ (m + i) - m = i
      BY <1>1, <1>5
    <3>3. both[m + i] = x
      BY <1>7, <3>1, <3>2
    <3> QED BY <1>7, <3>2, <3>3 DEF ToSet
  <2> QED BY <2>1, <2>2, <2>3
<1>11. ASSUME queue # <<>> PROVE both # <<>> /\ both[1] = queue[1]
  <2>1. m > 0
    BY <1>11 DEF m
  <2>2. 1 \in 1 .. m + n /\ 1 <= m
    BY <1>1, <1>5, <2>1
  <2> QED BY <1>7, <2>2
<1>12. ASSUME NEW r \in Reqs, S = {r}, queue = <<>> PROVE both # <<>> /\ both[1] = r
  <2>1. n = 1 /\ m = 0
    BY <1>12, FS_Singleton DEF n, m
  <2>2. both[1] = s[1] /\ s[1] \in S
    BY <1>2, <1>7, <2>1
  <2>3. Len(both) = 1
    BY <1>7, <2>1
  <2>4. ASSUME both = <<>> PROVE FALSE
    <3>1. Len(both) = 0
      BY <2>4
    <3> QED BY <2>3, <3>1
  <2> QED BY <1>12, <2>2, <2>4
<1> QED BY <1>1, <1>7, <1>9, <1>10, <1>11, <1>12 DEF both, m, n, IsInjective

(* Keeping a prefix of the queue drops the requests behind it. *)
LEMMA QueueCut ==
  ASSUME NEW queue \in Seq(Reqs), IsInjective(queue), NEW kept \in 0 .. Len(queue)
  PROVE  LET cut == {queue[i] : i \in kept + 1 .. Len(queue)} IN
         /\ SubSeq(queue, 1, kept) \in Seq(Reqs) /\ IsInjective(SubSeq(queue, 1, kept))
         /\ ToSet(SubSeq(queue, 1, kept)) = ToSet(queue) \ cut
         /\ Len(SubSeq(queue, 1, kept)) = kept
         /\ cut \subseteq ToSet(queue)
         /\ kept # 0 => SubSeq(queue, 1, kept) # <<>> /\ SubSeq(queue, 1, kept)[1] = queue[1]
         /\ kept # 0 => queue # <<>> /\ queue[1] \in ToSet(queue) \ cut
<1> DEFINE m == Len(queue)
           cut == {queue[i] : i \in kept + 1 .. m}
           front == SubSeq(queue, 1, kept)
<1>1. m \in Nat /\ kept \in Nat /\ kept <= m /\ DOMAIN queue = 1 .. m
  OBVIOUS
<1>2. /\ front \in Seq(Reqs) /\ Len(front) = kept /\ DOMAIN front = 1 .. kept
      /\ \A i \in 1 .. kept : front[i] = queue[i]
  BY <1>1
<1>3. \A i, j \in 1 .. m : queue[i] = queue[j] => i = j
  BY <1>1 DEF IsInjective
<1>4. \A i \in 1 .. kept : i \in 1 .. m /\ queue[i] \notin cut
  BY <1>1, <1>3
<1>5. ToSet(queue) = {queue[i] : i \in 1 .. m} /\ ToSet(front) = {front[i] : i \in 1 .. kept}
  BY <1>1, <1>2 DEF ToSet
<1>6. cut \subseteq ToSet(queue)
  BY <1>1, <1>5
<1> HIDE DEF m, front
<1>7. ToSet(front) = ToSet(queue) \ cut
  <2>1. ASSUME NEW x \in ToSet(queue), x \notin cut PROVE x \in ToSet(front)
    <3>1. PICK i \in 1 .. m : x = queue[i]
      BY <1>5
    <3>2. i \in 1 .. kept
      BY <1>1, <2>1, <3>1
    <3> QED BY <1>2, <1>5, <3>1, <3>2
  <2> QED BY <1>2, <1>4, <1>5, <2>1
<1>8. IsInjective(front)
  BY <1>2, <1>3, <1>4 DEF IsInjective
<1>9. kept # 0 => 1 \in 1 .. kept /\ front # <<>> /\ queue # <<>>
  BY <1>1, <1>2 DEF m
<1> QED BY <1>2, <1>4, <1>5, <1>6, <1>7, <1>8, <1>9 DEF m, front

-----------------------------------------------------------------------------
(* The inductive invariant. *)

Counts == {prompt, limit, emitted, computed, reserved, stale}
Steps == [rows : SUBSET Reqs, block : SUBSET Reqs, width : UNION {[S -> Nat] : S \in SUBSET Reqs}]

Types ==
  /\ launch \in Launches
  /\ status \in [Reqs -> Statuses]
  /\ Counts \subseteq [Reqs -> Nat]
  /\ running \in Seq(Reqs)
  /\ inflight \in Seq(Steps) /\ Len(inflight) <= Depth
  /\ owner \in Reqs \cup {NoReq} /\ session \in Reqs \cup {NoReq}
  /\ gone \subseteq Reqs

(* The queue holds the running requests, and the model has yet to be told of
   ended requests only. *)
Queue ==
  /\ Running = {r \in Reqs : status[r] = "running"}
  /\ IsInjective(running) /\ Len(running) <= RunCap
  /\ gone \cap Live = {}

(* How often r is in flight. *)
In(r, i) == IF i \in DOMAIN inflight /\ r \in inflight[i].rows THEN 1 ELSE 0
Flying(r) == In(r, 1) + In(r, 2)
OwedAll(r) == Owed(r, 1) + Owed(r, 2)

(* What each state of a request says of its counts.  A running request has a
   token to compute on every step that does not leave it out. *)
Accounts ==
  \A r \in Reqs :
    /\ status[r] = "idle" => emitted[r] = 0 /\ computed[r] = 0 /\ reserved[r] = 0 /\ stale[r] = 0
    /\ status[r] = "waiting" =>
         emitted[r] = 0 /\ computed[r] = 0 /\ reserved[r] = 0 /\ stale[r] = 0 /\ Flying(r) = 0
    /\ status[r] = "preempted" => computed[r] = 0 /\ reserved[r] = 0 /\ stale[r] = Flying(r)
    /\ status[r] = "running" =>
         /\ stale[r] = 0 /\ reserved[r] = OwedAll(r)
         /\ computed[r] < prompt[r] + emitted[r] + reserved[r]
         /\ computed[r] <= MaxModelLen - 1

(* Nothing is kept of a request that ended. *)
Forgotten == \A r \in Reqs : status[r] = "idle" => prompt[r] = 0 /\ limit[r] = 0

(* The repaired prompt and limit of a request fit the model, its output so far
   too. *)
Rooms ==
  \A r \in Live :
    /\ 1 <= prompt[r] /\ prompt[r] + emitted[r] < MaxModelLen
    /\ Remaining(prompt[r]) \in Nat /\ Physical(limit[r]) <= Remaining(prompt[r])

(* A plain block model has filled whole canvases, and has room for one more. *)
Canvases ==
  launch = Plain =>
    \A r \in Live : \E k \in Nat : emitted[r] = k * Width /\ emitted[r] + Width <= Physical(limit[r])

(* A step in flight returns the width that its decision says, and a request
   decoding a block is at the head of the queue, where no decode preempts it. *)
Blocks ==
  \A i \in DOMAIN inflight :
    /\ inflight[i].rows # {}
    /\ inflight[i].block \subseteq inflight[i].rows
    /\ \A r \in inflight[i].rows :
         inflight[i].width[r] = IF r \in inflight[i].block THEN Width ELSE 1
    /\ \A r \in inflight[i].block \cap Live : running # <<>> /\ running[1] = r
    /\ launch = Plain => inflight[i].block = inflight[i].rows

(* A running owner was alone in the last step: nobody is owed a token but it. *)
Mirror ==
  /\ launch = Plain => owner = NoReq /\ session = NoReq
  /\ MirrorAgrees
  /\ \A r \in Running : owner = r /\ inflight # <<>> => inflight[Len(inflight)].rows = {r}

IInv ==
  Types /\ Queue /\ Accounts /\ Forgotten /\ Rooms /\ Canvases /\ Blocks /\ Mirror /\ NoFault

-----------------------------------------------------------------------------
(* Facts about the launches and the steps in flight. *)

(* How deep the engine queues and how many requests run, for each launch. *)
LEMMA LaunchIs ==
  ASSUME launch \in Launches
  PROVE  /\ Depth \in {1, 2} /\ RunCap \in Nat \ {0}
         /\ launch = Plain => Depth = 1 /\ RunCap = 1
         /\ Adaptive <=> launch # Plain
BY LaunchAssumption DEF Depth, RunCap, Adaptive, Plain, AdaptiveSync, AdaptiveAsync

(* Depth and running cap depend on the launch alone. *)
LEMMA LaunchKept ==
  ASSUME launch' = launch
  PROVE  Depth' = Depth /\ RunCap' = RunCap
BY DEF Depth, RunCap, Adaptive

(* The counts, one by one. *)
LEMMA CountsTyped ==
  ASSUME Types
  PROVE  /\ prompt \in [Reqs -> Nat] /\ limit \in [Reqs -> Nat] /\ emitted \in [Reqs -> Nat]
         /\ computed \in [Reqs -> Nat] /\ reserved \in [Reqs -> Nat] /\ stale \in [Reqs -> Nat]
BY DEF Types, Counts

(* At most two steps are in flight, of requests. *)
LEMMA StepsAre ==
  ASSUME Types
  PROVE  /\ Len(inflight) \in {0, 1, 2} /\ DOMAIN inflight = 1 .. Len(inflight)
         /\ DOMAIN inflight \subseteq {1, 2}
         /\ \A i \in DOMAIN inflight : inflight[i].rows \subseteq Reqs
<1>1. inflight \in Seq(Steps) /\ Len(inflight) \in Nat /\ Len(inflight) <= Depth
      /\ DOMAIN inflight = 1 .. Len(inflight)
  BY DEF Types
<1>2. Len(inflight) \in {0, 1, 2}
  BY <1>1, LaunchIs DEF Types
<1>3. \A i \in DOMAIN inflight : inflight[i] \in Steps
  BY <1>1
<1> QED BY <1>1, <1>2, <1>3 DEF Steps

(* A request's share of a step in flight. *)
LEMMA Shares ==
  ASSUME Types, Blocks, NEW r, NEW i
  PROVE  /\ In(r, i) \in {0, 1} /\ Owed(r, i) \in {0, 1, Width}
         /\ In(r, i) = 0 <=> Owed(r, i) = 0
         /\ Width \in Nat \ {0, 1}
BY LaunchAssumption DEF In, Owed, Blocks

(* Steps in flight of a request, counted one by one; it owes tokens iff it has some. *)
LEMMA FlyingIs ==
  ASSUME Types, Blocks, NEW r
  PROVE  /\ InFlight(r) = Flying(r) /\ Flying(r) \in Nat /\ OwedAll(r) \in Nat
         /\ Flying(r) = 0 <=> \A i \in DOMAIN inflight : r \notin inflight[i].rows
         /\ Flying(r) = 0 <=> OwedAll(r) = 0
<1> DEFINE at == {i \in DOMAIN inflight : r \in inflight[i].rows}
<1>1. /\ In(r, 1) \in {0, 1} /\ In(r, 2) \in {0, 1} /\ Width \in Nat \ {0, 1}
      /\ Owed(r, 1) \in {0, 1, Width} /\ Owed(r, 2) \in {0, 1, Width}
      /\ In(r, 1) = 0 <=> Owed(r, 1) = 0
      /\ In(r, 2) = 0 <=> Owed(r, 2) = 0
  BY Shares
<1>2. /\ \A i \in at : i = 1 \/ i = 2
      /\ 1 \in at <=> In(r, 1) = 1
      /\ 2 \in at <=> In(r, 2) = 1
  BY StepsAre DEF In
<1>3. Cardinality(at) = In(r, 1) + In(r, 2)
  <2> HIDE DEF at
  <2>1. CASE 1 \in at /\ 2 \in at
    <3>1. at = {1} \cup {2} /\ 2 \notin {1}
      BY <1>2, <2>1
    <3>2. IsFiniteSet({1}) /\ Cardinality({1}) = 1
      BY FS_Singleton
    <3>3. Cardinality({1} \cup {2}) = 2
      BY <3>1, <3>2, FS_AddElement
    <3> QED BY <1>2, <2>1, <3>1, <3>3
  <2>2. CASE 1 \in at /\ 2 \notin at
    <3>1. at = {1}
      BY <1>2, <2>2
    <3> QED BY <1>1, <1>2, <2>2, <3>1, FS_Singleton
  <2>3. CASE 1 \notin at /\ 2 \in at
    <3>1. at = {2}
      BY <1>2, <2>3
    <3>2. Cardinality(at) = 1
      BY <3>1, FS_Singleton
    <3>3. In(r, 1) = 0 /\ In(r, 2) = 1
      BY <1>1, <1>2, <2>3
    <3> QED BY <3>2, <3>3
  <2>4. CASE 1 \notin at /\ 2 \notin at
    <3>1. at = {}
      BY <1>2, <2>4
    <3> QED BY <1>1, <1>2, <2>4, <3>1, FS_EmptySet
  <2> QED BY <2>1, <2>2, <2>3, <2>4
<1>4. InFlight(r) = Flying(r)
  BY <1>3 DEF InFlight, Flying
<1>5. Flying(r) = 0 <=> at = {}
  BY <1>1, <1>2 DEF Flying
<1>6. at = {} <=> \A i \in DOMAIN inflight : r \notin inflight[i].rows
  OBVIOUS
<1> QED BY <1>1, <1>4, <1>5, <1>6 DEF Flying, OwedAll

(* A step is put in flight behind the others. *)
LEMMA StepSubmitted ==
  ASSUME Types, Len(inflight) < Depth, NEW step \in Steps, inflight' = Append(inflight, step)
  PROVE  /\ inflight' \in Seq(Steps) /\ Len(inflight') <= Depth
         /\ inflight' # <<>> /\ inflight'[Len(inflight')] = step
         /\ \A i \in DOMAIN inflight' :
              (i \in DOMAIN inflight /\ inflight'[i] = inflight[i]) \/ inflight'[i] = step
<1>1. inflight \in Seq(Steps) /\ Len(inflight) \in Nat /\ DOMAIN inflight = 1 .. Len(inflight)
  BY DEF Types
<1>2. /\ inflight' \in Seq(Steps) /\ Len(inflight') = Len(inflight) + 1
      /\ DOMAIN inflight' = 1 .. Len(inflight) + 1
      /\ \A i \in 1 .. Len(inflight) : inflight'[i] = inflight[i]
      /\ inflight'[Len(inflight) + 1] = step
  BY <1>1
<1>3. Depth \in Nat
  BY LaunchIs DEF Types
<1> QED BY <1>1, <1>2, <1>3

(* A submitted step adds its rows to what is in flight and owed. *)
LEMMA SharesSubmitted ==
  ASSUME Types, Blocks, Len(inflight) < Depth, NEW step \in Steps,
         inflight' = Append(inflight, step), NEW r \in Reqs,
         r \in step.rows => step.width[r] \in {1, Width}
  PROVE  /\ Flying(r)' = Flying(r) + IF r \in step.rows THEN 1 ELSE 0
         /\ OwedAll(r)' = OwedAll(r) + IF r \in step.rows THEN step.width[r] ELSE 0
<1>1. inflight \in Seq(Steps) /\ DOMAIN inflight = 1 .. Len(inflight) /\ Len(inflight) \in {0, 1}
      /\ Width \in Nat
  BY StepsAre, LaunchIs, LaunchAssumption DEF Types
<1>2. /\ DOMAIN inflight' = 1 .. Len(inflight) + 1
      /\ \A i \in 1 .. Len(inflight) : inflight'[i] = inflight[i]
      /\ inflight'[Len(inflight) + 1] = step
  BY <1>1
<1>3. CASE Len(inflight) = 0
  <2>1. DOMAIN inflight = {} /\ DOMAIN inflight' = {1} /\ inflight'[1] = step
    BY <1>1, <1>2, <1>3
  <2> QED BY <1>1, <2>1 DEF Flying, OwedAll, In, Owed
<1>4. CASE Len(inflight) = 1
  <2>1. /\ DOMAIN inflight = {1} /\ DOMAIN inflight' = {1, 2}
        /\ inflight'[1] = inflight[1] /\ inflight'[2] = step
    BY <1>1, <1>2, <1>4
  <2>2. In(r, 1)' = In(r, 1) /\ Owed(r, 1)' = Owed(r, 1)
        /\ In(r, 2) = 0 /\ Owed(r, 2) = 0
        /\ In(r, 2)' = (IF r \in step.rows THEN 1 ELSE 0)
        /\ Owed(r, 2)' = (IF r \in step.rows THEN step.width[r] ELSE 0)
    BY <2>1 DEF In, Owed
  <2>3. In(r, 1) \in Nat /\ Owed(r, 1) \in Nat
    BY <1>1, Shares
  <2> QED BY <1>1, <2>2, <2>3 DEF Flying, OwedAll
<1> QED BY <1>1, <1>3, <1>4

(* The oldest step is committed. *)
LEMMA StepCommitted ==
  ASSUME Types, inflight # <<>>, inflight' = Tail(inflight)
  PROVE  /\ 1 \in DOMAIN inflight /\ Head(inflight) = inflight[1]
         /\ inflight' \in Seq(Steps) /\ Len(inflight') <= Depth
         /\ \A i \in DOMAIN inflight' : i + 1 \in DOMAIN inflight /\ inflight'[i] = inflight[i + 1]
         /\ inflight' # <<>> => inflight'[Len(inflight')] = inflight[Len(inflight)]
         /\ DOMAIN inflight' = 1 .. Len(inflight) - 1
<1>1. inflight \in Seq(Steps) /\ Len(inflight) \in Nat \ {0} /\ DOMAIN inflight = 1 .. Len(inflight)
  BY DEF Types
<1>2. /\ inflight' \in Seq(Steps) /\ Len(inflight') = Len(inflight) - 1
      /\ DOMAIN inflight' = 1 .. Len(inflight) - 1
      /\ \A i \in 1 .. Len(inflight) - 1 : inflight'[i] = inflight[i + 1]
  BY <1>1
<1>3. Depth \in Nat /\ Len(inflight) <= Depth
  BY LaunchIs DEF Types
<1>4. inflight' # <<>> => Len(inflight') \in 1 .. Len(inflight) - 1
  BY <1>1, <1>2
<1> QED BY <1>1, <1>2, <1>3, <1>4

(* A committed step takes its rows from what is in flight and owed. *)
LEMMA SharesCommitted ==
  ASSUME Types, Blocks, inflight # <<>>, inflight' = Tail(inflight), NEW r \in Reqs
  PROVE  /\ Flying(r) = Flying(r)' + IF r \in Head(inflight).rows THEN 1 ELSE 0
         /\ OwedAll(r) = OwedAll(r)' + IF r \in Head(inflight).rows
                                       THEN Head(inflight).width[r] ELSE 0
         /\ Flying(r)' \in Nat /\ OwedAll(r)' \in Nat
<1>1. /\ 1 \in DOMAIN inflight /\ Head(inflight) = inflight[1]
      /\ \A i \in DOMAIN inflight' : inflight'[i] = inflight[i + 1]
      /\ DOMAIN inflight' = 1 .. Len(inflight) - 1
  BY StepCommitted
<1>2. Len(inflight) \in {1, 2} /\ DOMAIN inflight = 1 .. Len(inflight)
  BY <1>1, StepsAre
<1>3. In(r, 2) = In(r, 1)' /\ Owed(r, 2) = Owed(r, 1)'
  <2>1. CASE Len(inflight) = 1
    BY <1>1, <1>2, <2>1 DEF In, Owed
  <2>2. CASE Len(inflight) = 2
    <3>1. DOMAIN inflight' = {1} /\ inflight'[1] = inflight[2] /\ 2 \in DOMAIN inflight
      BY <1>1, <1>2, <2>2
    <3> QED BY <3>1 DEF In, Owed
  <2> QED BY <1>2, <2>1, <2>2
<1>4. In(r, 2)' = 0 /\ Owed(r, 2)' = 0
  BY <1>1, <1>2 DEF In, Owed
<1>5. /\ In(r, 1) = (IF r \in Head(inflight).rows THEN 1 ELSE 0)
      /\ Owed(r, 1) = IF r \in Head(inflight).rows THEN Head(inflight).width[r] ELSE 0
  BY <1>1 DEF In, Owed
<1>6. /\ In(r, 1) \in Nat /\ In(r, 2) \in Nat /\ Owed(r, 1) \in Nat /\ Owed(r, 2) \in Nat
  BY Shares, LaunchAssumption
<1> HIDE DEF Flying
<1> QED BY <1>3, <1>4, <1>5, <1>6 DEF Flying, OwedAll

(* No step is added or committed. *)
LEMMA SharesKept ==
  ASSUME inflight' = inflight, NEW r
  PROVE  Flying(r)' = Flying(r) /\ OwedAll(r)' = OwedAll(r)
BY DEF Flying, OwedAll, In, Owed

-----------------------------------------------------------------------------
(* A step is served. *)

(* A request is alone in a step iff the step is that request. *)
LEMMA SoloIs ==
  ASSUME NEW rows \in SUBSET Reqs
  PROVE  /\ Cardinality(rows) = 1 <=> \E r \in Reqs : rows = {r}
         /\ \A r \in rows : Solo(rows) <=> rows = {r}
<1>1. IsFiniteSet(rows)
  BY FS_Subset, LaunchAssumption
<1>2. Cardinality(rows) = 1 <=> \E r : rows = {r}
  BY <1>1, FS_Singleton
<1> QED BY <1>2 DEF Solo

(* Whom the scheduler believes to own the session after a step. *)
LEMMA MirroredOwnerIs ==
  ASSUME NEW rows \in SUBSET Reqs, NEW tokens, owner \in Reqs \cup {NoReq},
         NEW next, next = MirroredOwner(rows, tokens)
  PROVE  /\ next \in Reqs \cup {NoReq}
         /\ rows = {} => next = IF owner \in Live THEN owner ELSE NoReq
         /\ rows # {} /\ (\A r \in Reqs : rows # {r}) => next = NoReq
         /\ \A r \in Reqs : rows = {r} =>
              next = IF Decodes(r) THEN IF owner = r /\ r \in Live THEN r ELSE NoReq
                     ELSE IF FrontierOk(r, computed[r] + tokens[r]) THEN r ELSE NoReq
<1>1. NoReq \notin Reqs /\ Live \subseteq Reqs
  BY LaunchAssumption DEF Live
<1>2. \A r \in Reqs : rows = {r} => (CHOOSE x \in rows : TRUE) = r
  OBVIOUS
<1>3. Solo(rows) <=> \E r \in Reqs : rows = {r}
  BY SoloIs DEF Solo
<1>4. CASE rows = {}
  BY <1>1, <1>4 DEF MirroredOwner
<1>5. CASE rows # {} /\ ~Solo(rows)
  BY <1>1, <1>3, <1>5 DEF MirroredOwner
<1>6. ASSUME NEW r \in Reqs, rows = {r}
      PROVE  next = IF Decodes(r) THEN IF owner = r /\ r \in Live THEN r ELSE NoReq
                    ELSE IF FrontierOk(r, computed[r] + tokens[r]) THEN r ELSE NoReq
  BY <1>1, <1>2, <1>3, <1>6 DEF MirroredOwner
<1> QED BY <1>1, <1>3, <1>4, <1>5, <1>6

(* To whom the model's session belongs after it. *)
LEMMA ServedSessionIs ==
  ASSUME NEW rows \in SUBSET Reqs, NEW tokens, NEW pre, session \in Reqs \cup {NoReq},
         NEW next, next = ServedSession(rows, tokens, pre)
  PROVE  /\ next \in Reqs \cup {NoReq}
         /\ rows = {} => next = IF session \in gone \cup pre THEN NoReq ELSE session
         /\ rows # {} /\ (\A r \in Reqs : rows # {r}) => next = NoReq
         /\ \A r \in Reqs : rows = {r} =>
              next = IF Decodes(r) THEN IF session = r /\ r \notin gone \cup pre THEN r ELSE NoReq
                     ELSE IF FrontierOk(r, computed[r] + tokens[r]) THEN r ELSE NoReq
<1>1. NoReq \notin Reqs
  BY LaunchAssumption
<1>2. \A r \in Reqs : rows = {r} => (CHOOSE x \in rows : TRUE) = r
  OBVIOUS
<1>3. Cardinality(rows) = 1 <=> \E r \in Reqs : rows = {r}
  BY SoloIs
<1>4. CASE rows = {}
  BY <1>1, <1>4 DEF ServedSession
<1>5. CASE rows # {} /\ Cardinality(rows) # 1
  BY <1>1, <1>3, <1>5 DEF ServedSession
<1>6. ASSUME NEW r \in Reqs, rows = {r}
      PROVE  next = IF Decodes(r) THEN IF session = r /\ r \notin gone \cup pre THEN r ELSE NoReq
                    ELSE IF FrontierOk(r, computed[r] + tokens[r]) THEN r ELSE NoReq
  BY <1>1, <1>2, <1>3, <1>6 DEF ServedSession, FrontierOk
<1> QED BY <1>1, <1>3, <1>4, <1>5, <1>6

(* What both schedulers see to: the rows are running after the step, those
   that decode were running before it, and no preempted one is. *)
Scheduled(rows, tokens, pre) ==
  /\ Len(inflight) < Depth /\ launch' = launch
  /\ rows \in SUBSET Reqs /\ pre \in SUBSET Reqs /\ tokens \in [Reqs -> Nat]
  /\ Submit(rows, tokens, pre)
  /\ rows \subseteq Running' /\ Running' \subseteq Running \cup rows
  /\ Running' \cap pre = {} /\ rows \cap pre = {}
  /\ \A r \in rows : Decodes(r) => r \in Running

(* A block is decoded by the owner alone. *)
LEMMA BlockStepIs ==
  ASSUME IInv, NEW rows, NEW tokens, NEW pre, Scheduled(rows, tokens, pre),
         NEW r \in rows, BlockStep(r, rows), Adaptive
  PROVE  rows = {r} /\ Decodes(r) /\ owner = r
<1>1. rows \in SUBSET Reqs /\ r \in Reqs /\ owner \in Reqs \cup {NoReq} /\ r # NoReq
  BY LaunchAssumption DEF Scheduled, IInv, Types
<1>2. Solo(rows) /\ Decodes(r) /\ owner' = r /\ owner' = MirroredOwner(rows, tokens)
  BY DEF BlockStep, Scheduled, Submit
<1>3. rows = {r}
  BY <1>1, <1>2, SoloIs
<1>4. owner' = IF Decodes(r) THEN IF owner = r /\ r \in Live THEN r ELSE NoReq
               ELSE IF FrontierOk(r, computed[r] + tokens[r]) THEN r ELSE NoReq
  BY <1>1, <1>2, <1>3, MirroredOwnerIs
<1> QED BY <1>1, <1>2, <1>3, <1>4

(* The mirror and the model's session agree after a step as before it. *)
LEMMA MirrorServed ==
  ASSUME IInv, NEW rows, NEW tokens, NEW pre, Scheduled(rows, tokens, pre)
  PROVE  /\ owner' \in Reqs \cup {NoReq} /\ session' \in Reqs \cup {NoReq}
         /\ launch = Plain => owner' = NoReq /\ session' = NoReq
         /\ \A x \in Running' : owner' = x <=> session' = x
         /\ \A x \in Running' : owner' = x /\ rows # {} => rows = {x}
         /\ \A x \in Running' : owner' = x /\ rows = {} => x \in Running /\ owner = x
<1>1. /\ owner \in Reqs \cup {NoReq} /\ session \in Reqs \cup {NoReq} /\ NoReq \notin Reqs
      /\ rows \in SUBSET Reqs /\ Running' \subseteq Running \cup rows /\ Running' \cap pre = {}
      /\ gone \cap Live = {} /\ Running \subseteq Live /\ Live \subseteq Reqs
      /\ \A x \in Running : owner = x <=> session = x
      /\ launch = Plain => owner = NoReq /\ session = NoReq
      /\ \A r \in rows : Decodes(r) => r \in Running
  BY LaunchAssumption DEF IInv, Types, Queue, Mirror, MirrorAgrees, Scheduled, Live
<1>2. CASE ~Adaptive
  <2>1. owner' = owner /\ session' = session /\ launch = Plain
    BY <1>2 DEF Scheduled, Submit, Adaptive
  <2>2. owner' = NoReq /\ session' = NoReq
    BY <1>1, <2>1
  <2>3. \A x \in Running' : x # NoReq
    BY <1>1
  <2> QED BY <1>1, <2>1, <2>2, <2>3
<1>3. CASE Adaptive
  <2>1. /\ owner' = MirroredOwner(rows, tokens) /\ session' = ServedSession(rows, tokens, pre)
        /\ launch # Plain
    BY <1>3 DEF Scheduled, Submit, Adaptive
  <2>2. CASE rows = {}
    <3>1. /\ owner' = IF owner \in Live THEN owner ELSE NoReq
          /\ session' = IF session \in gone \cup pre THEN NoReq ELSE session
      <4>1. owner' = IF owner \in Live THEN owner ELSE NoReq
        BY <1>1, <2>1, <2>2, MirroredOwnerIs
      <4>2. session' = IF session \in gone \cup pre THEN NoReq ELSE session
        BY <1>1, <2>1, <2>2, ServedSessionIs
      <4> QED BY <4>1, <4>2
    <3> QED BY <1>1, <2>1, <2>2, <3>1
  <2>3. CASE rows # {} /\ \A r \in Reqs : rows # {r}
    <3>1. owner' = NoReq
      BY <1>1, <2>1, <2>3, MirroredOwnerIs
    <3>2. session' = NoReq
      BY <1>1, <2>1, <2>3, ServedSessionIs
    <3> QED BY <1>1, <2>1, <3>1, <3>2
  <2>4. ASSUME NEW r \in Reqs, rows = {r}
        PROVE  /\ owner' \in {r, NoReq} /\ session' \in {r, NoReq}
               /\ r \in Running' => (owner' = r <=> session' = r)
    <3>1. /\ owner' = IF Decodes(r) THEN IF owner = r /\ r \in Live THEN r ELSE NoReq
                      ELSE IF FrontierOk(r, computed[r] + tokens[r]) THEN r ELSE NoReq
          /\ session' = IF Decodes(r) THEN IF session = r /\ r \notin gone \cup pre THEN r ELSE NoReq
                        ELSE IF FrontierOk(r, computed[r] + tokens[r]) THEN r ELSE NoReq
      <4>1. owner' = IF Decodes(r) THEN IF owner = r /\ r \in Live THEN r ELSE NoReq
                     ELSE IF FrontierOk(r, computed[r] + tokens[r]) THEN r ELSE NoReq
        <5>1. rows \in SUBSET Reqs /\ owner \in Reqs \cup {NoReq}
          BY <1>1
        <5> QED BY <2>1, <2>4, <5>1, MirroredOwnerIs
      <4>2. session' = IF Decodes(r) THEN IF session = r /\ r \notin gone \cup pre THEN r ELSE NoReq
                       ELSE IF FrontierOk(r, computed[r] + tokens[r]) THEN r ELSE NoReq
        <5>1. rows \in SUBSET Reqs /\ session \in Reqs \cup {NoReq}
          BY <1>1
        <5> QED BY <2>1, <2>4, <5>1, ServedSessionIs
      <4> QED BY <4>1, <4>2
    <3> QED BY <1>1, <2>4, <3>1
  <2>5. CASE \E r \in Reqs : rows = {r}
    <3>1. PICK r \in Reqs : rows = {r}
      BY <2>5
    <3>2. /\ owner' \in {r, NoReq} /\ session' \in {r, NoReq}
          /\ r \in Running' => (owner' = r <=> session' = r)
      BY <2>4, <3>1
    <3> QED BY <1>1, <2>1, <3>1, <3>2
  <2> QED BY <2>2, <2>3, <2>5
<1> QED BY <1>2, <1>3

(* What a step reserves for a request, and the model returns. *)
Share(r, rows) == IF r \notin rows THEN 0 ELSE IF BlockStep(r, rows) THEN Width ELSE 1

(* The model returns for each row the width its decision reserved. *)
LEMMA WidthServed ==
  ASSUME IInv, NEW rows, NEW tokens, NEW pre, Scheduled(rows, tokens, pre), NEW r \in rows
  PROVE  ServedWidth(r, rows) = Share(r, rows)
<1>1. CASE ~Adaptive
  BY <1>1 DEF ServedWidth, Share, BlockStep
<1>2. CASE Adaptive
  <2>1. r \in Running' /\ r \in Reqs /\ rows \in SUBSET Reqs
    BY DEF Scheduled
  <2>2. owner' = r <=> session' = r
    BY <2>1, MirrorServed
  <2>3. Solo(rows) <=> rows = {r}
    BY <2>1, SoloIs
  <2> QED BY <1>2, <2>2, <2>3 DEF ServedWidth, Share, BlockStep
<1> QED BY <1>1, <1>2

(* The step put in flight, and the placeholders it leaves. *)
LEMMA StepServed ==
  ASSUME IInv, NEW rows, NEW tokens, NEW pre, Scheduled(rows, tokens, pre)
  PROVE  /\ rows = {} => inflight' = inflight
         /\ rows # {} => \E step \in Steps :
              /\ inflight' = Append(inflight, step)
              /\ step.rows = rows /\ step.block = {r \in rows : BlockStep(r, rows)}
              /\ \A r \in rows : step.width[r] = Share(r, rows)
         /\ \A r \in Reqs : Share(r, rows) \in {0, 1, Width} /\ (Share(r, rows) = 0 <=> r \notin rows)
<1>1. rows \in SUBSET Reqs /\ Submit(rows, tokens, pre) /\ Width \in Nat \ {0, 1}
  BY LaunchAssumption DEF Scheduled
<1>2. \A r \in Reqs : Share(r, rows) \in {0, 1, Width} /\ (Share(r, rows) = 0 <=> r \notin rows)
  BY <1>1 DEF Share
<1>3. rows = {} => inflight' = inflight
  BY <1>1 DEF Submit
<1>4. ASSUME rows # {}
      PROVE  \E step \in Steps :
              /\ inflight' = Append(inflight, step)
              /\ step.rows = rows /\ step.block = {r \in rows : BlockStep(r, rows)}
              /\ \A r \in rows : step.width[r] = Share(r, rows)
  <2> DEFINE width == [r \in rows |-> ServedWidth(r, rows)]
             block == {r \in rows : BlockStep(r, rows)}
             step == [rows |-> rows, block |-> block, width |-> width]
  <2>1. inflight' = Append(inflight, step)
    BY <1>1, <1>4 DEF Submit
  <2>2. \A r \in rows : width[r] = Share(r, rows) /\ width[r] \in Nat
    <3> SUFFICES ASSUME NEW r \in rows PROVE width[r] = Share(r, rows) /\ width[r] \in Nat
      OBVIOUS
    <3>1. ServedWidth(r, rows) = Share(r, rows)
      BY WidthServed
    <3> QED BY <1>1, <1>2, <3>1
  <2>3. width \in [rows -> Nat]
    <3>1. width = [r \in rows |-> width[r]]
      OBVIOUS
    <3> HIDE DEF width
    <3> QED BY <2>2, <3>1
  <2>4. block \in SUBSET Reqs
    BY <1>1
  <2> HIDE DEF width, block
  <2>5. step \in Steps
    BY <1>1, <2>3, <2>4 DEF Steps
  <2>6. step.rows = rows /\ step.block = block /\ step.width = width
    OBVIOUS
  <2> HIDE DEF step
  <2> QED BY <2>1, <2>2, <2>5, <2>6 DEF block
<1> QED BY <1>2, <1>3, <1>4

(* A scheduled step adds its share to what is in flight and owed. *)
LEMMA SharesServed ==
  ASSUME IInv, NEW rows, NEW tokens, NEW pre, Scheduled(rows, tokens, pre), NEW r \in Reqs
  PROVE  /\ Flying(r)' = Flying(r) + IF r \in rows THEN 1 ELSE 0
         /\ OwedAll(r)' = OwedAll(r) + Share(r, rows)
         /\ Share(r, rows) \in Nat /\ (r \in rows => Share(r, rows) > 0)
         /\ Flying(r) \in Nat /\ OwedAll(r) \in Nat
<1>1. Types /\ Blocks /\ Len(inflight) < Depth
  BY DEF IInv, Scheduled
<1>2. Flying(r) \in Nat /\ OwedAll(r) \in Nat /\ Width \in Nat \ {0, 1}
  BY <1>1, FlyingIs, LaunchAssumption
<1>3. Share(r, rows) \in {0, 1, Width} /\ (Share(r, rows) = 0 <=> r \notin rows)
  BY StepServed
<1>4. CASE rows = {}
  <2>1. inflight' = inflight
    BY <1>4, StepServed
  <2>2. Flying(r)' = Flying(r) /\ OwedAll(r)' = OwedAll(r)
    BY <2>1, SharesKept
  <2> QED BY <1>2, <1>3, <1>4, <2>2
<1>5. CASE rows # {}
  <2>1. PICK step \in Steps : /\ inflight' = Append(inflight, step) /\ step.rows = rows
                              /\ \A x \in rows : step.width[x] = Share(x, rows)
    BY <1>5, StepServed
  <2>2. r \in step.rows => step.width[r] \in {1, Width}
    BY <1>3, <2>1
  <2>3. /\ Flying(r)' = Flying(r) + IF r \in step.rows THEN 1 ELSE 0
        /\ OwedAll(r)' = OwedAll(r) + IF r \in step.rows THEN step.width[r] ELSE 0
    BY <1>1, <2>1, <2>2, SharesSubmitted
  <2> QED BY <1>2, <1>3, <2>1, <2>3
<1> QED BY <1>4, <1>5

(* The counts a step leaves. *)
LEMMA CountsServed ==
  ASSUME IInv, NEW rows, NEW tokens, NEW pre, Scheduled(rows, tokens, pre)
  PROVE  /\ computed' \in [Reqs -> Nat] /\ reserved' \in [Reqs -> Nat]
         /\ \A r \in Reqs : computed'[r] = IF r \in pre THEN 0 ELSE computed[r] + tokens[r]
         /\ \A r \in Reqs : reserved'[r] = IF r \in pre THEN 0 ELSE reserved[r] + Share(r, rows)
         /\ gone' = {}
<1>1. /\ rows \in SUBSET Reqs /\ Submit(rows, tokens, pre) /\ Width \in Nat \ {0, 1}
      /\ computed \in [Reqs -> Nat] /\ reserved \in [Reqs -> Nat] /\ tokens \in [Reqs -> Nat]
  BY LaunchAssumption, CountsTyped DEF Scheduled, IInv
<1>2. \A r \in Reqs : Share(r, rows) \in Nat
  BY SharesServed
<1>3. /\ computed' = [r \in Reqs |-> IF r \in pre THEN 0 ELSE computed[r] + tokens[r]]
      /\ gone' = {}
  BY <1>1 DEF Submit
<1>4. reserved' = [r \in Reqs |-> IF r \in pre THEN 0
                                  ELSE IF r \notin rows THEN reserved[r]
                                  ELSE reserved[r] + (IF BlockStep(r, rows) THEN Width ELSE 1)]
  BY <1>1 DEF Submit
<1>5. \A r \in Reqs : reserved'[r] = IF r \in pre THEN 0 ELSE reserved[r] + Share(r, rows)
  BY <1>1, <1>4 DEF Share
<1>6. \A r \in Reqs : reserved'[r] \in Nat
  BY <1>1, <1>2, <1>5
<1>7. reserved' \in [Reqs -> Nat]
  <2>1. reserved' = [r \in Reqs |-> reserved'[r]]
    BY <1>4
  <2> QED BY <1>6, <2>1
<1> QED BY <1>1, <1>3, <1>5, <1>7

(* The steps in flight after a step whose blocks are for the head, and that
   moves no head. *)
LEMMA BlocksServed ==
  ASSUME IInv, NEW rows, NEW tokens, NEW pre, Scheduled(rows, tokens, pre),
         Live' \subseteq Live, running # <<>> => running' # <<>> /\ running'[1] = running[1],
         \A r \in rows : BlockStep(r, rows) => running' # <<>> /\ running'[1] = r
  PROVE  inflight' \in Seq(Steps) /\ Len(inflight') <= Depth' /\ Blocks' /\ Mirror'
<1>1. Types /\ Blocks /\ Mirror /\ Len(inflight) < Depth /\ launch' = launch /\ launch \in Launches
  BY DEF IInv, Types, Scheduled
<1>2. Depth' = Depth
  BY <1>1, LaunchKept
<1>3. CASE rows = {}
  <2>1. inflight' = inflight
    BY <1>3, StepServed
  <2>2. inflight' \in Seq(Steps) /\ Len(inflight') <= Depth'
    BY <1>1, <1>2, <2>1 DEF Types
  <2>3. Blocks'
    BY <1>1, <2>1 DEF Blocks
  <2>4. Mirror'
    BY <1>1, <1>3, <2>1, MirrorServed DEF Mirror, MirrorAgrees
  <2> QED BY <2>2, <2>3, <2>4
<1>4. CASE rows # {}
  <2>1. PICK step \in Steps : /\ inflight' = Append(inflight, step) /\ step.rows = rows
                              /\ step.block = {x \in rows : BlockStep(x, rows)}
                              /\ \A x \in rows : step.width[x] = Share(x, rows)
    BY <1>4, StepServed
  <2>2. /\ inflight' \in Seq(Steps) /\ Len(inflight') <= Depth
        /\ inflight' # <<>> /\ inflight'[Len(inflight')] = step
        /\ \A i \in DOMAIN inflight' :
              (i \in DOMAIN inflight /\ inflight'[i] = inflight[i]) \/ inflight'[i] = step
    BY <1>1, <2>1, StepSubmitted
  <2>3. ASSUME NEW i \in DOMAIN inflight', inflight'[i] = step
        PROVE  /\ inflight'[i].rows # {}
               /\ inflight'[i].block \subseteq inflight'[i].rows
               /\ \A r \in inflight'[i].rows :
                    inflight'[i].width[r] = IF r \in inflight'[i].block THEN Width ELSE 1
               /\ \A r \in inflight'[i].block : running' # <<>> /\ running'[1] = r
               /\ launch = Plain => inflight'[i].block = inflight'[i].rows
    <3>1. launch = Plain => \A r \in rows : BlockStep(r, rows)
      BY DEF BlockStep, Adaptive
    <3> QED BY <1>4, <2>1, <2>3, <3>1 DEF Share
  <2>4. ASSUME NEW i \in DOMAIN inflight', i \in DOMAIN inflight, inflight'[i] = inflight[i]
        PROVE  /\ inflight'[i].rows # {}
               /\ inflight'[i].block \subseteq inflight'[i].rows
               /\ \A r \in inflight'[i].rows :
                    inflight'[i].width[r] = IF r \in inflight'[i].block THEN Width ELSE 1
               /\ \A r \in inflight'[i].block \cap Live' : running' # <<>> /\ running'[1] = r
               /\ launch = Plain => inflight'[i].block = inflight'[i].rows
    BY <1>1, <2>4 DEF Blocks
  <2>5. Blocks'
    BY <1>1, <2>2, <2>3, <2>4 DEF Blocks
  <2>6. Mirror'
    <3>1. \A x \in Running' : owner' = x => rows = {x}
      BY <1>4, MirrorServed
    <3> QED BY <1>1, <2>1, <2>2, <3>1, MirrorServed DEF Mirror, MirrorAgrees
  <2> QED BY <1>2, <2>2, <2>5, <2>6
<1> QED BY <1>3, <1>4

-----------------------------------------------------------------------------
(* The actions. *)

(* The invariant holds at the start. *)
LEMMA InitIInv ==
  ASSUME Init
  PROVE  IInv
<1>1. /\ launch \in Launches /\ inflight = <<>> /\ running = <<>> /\ gone = {}
      /\ owner = NoReq /\ session = NoReq /\ fault = "none"
      /\ \A r \in Reqs : status[r] = "idle"
      /\ \A r \in Reqs : emitted[r] = 0 /\ computed[r] = 0 /\ reserved[r] = 0 /\ stale[r] = 0
  BY DEF Init, Zero
<1>2. Live = {} /\ Running = {} /\ DOMAIN inflight = {}
  BY <1>1 DEF Live, Running, ToSet
<1>3. Types
  <2>1. Counts \subseteq [Reqs -> Nat] /\ status \in [Reqs -> Statuses]
    BY DEF Init, Zero, Counts, Statuses
  <2> QED BY <1>1, <2>1, LaunchIs DEF Types
<1>4. Queue
  <2>1. Len(running) <= RunCap /\ IsInjective(running)
    BY <1>1, LaunchIs DEF IsInjective
  <2>2. {r \in Reqs : status[r] = "running"} = {}
    BY <1>1
  <2> QED BY <1>1, <1>2, <2>1, <2>2 DEF Queue
<1>5. Accounts /\ Forgotten
  BY <1>1 DEF Accounts, Forgotten, Init, Zero
<1>6. Rooms /\ Canvases /\ Blocks
  BY <1>2 DEF Rooms, Canvases, Blocks
<1>7. Mirror /\ NoFault
  BY <1>1, <1>2 DEF Mirror, MirrorAgrees, NoFault
<1> QED BY <1>3, <1>4, <1>5, <1>6, <1>7 DEF IInv

(* A prefill step is served: its requests had nothing in flight. *)
LEMMA PrefillScheduled ==
  ASSUME IInv, NEW adm \in SUBSET Reqs, SchedulePrefill(adm)
  PROVE  LET tokens == [r \in Reqs |-> IF r \in adm THEN prompt[r] + emitted[r] ELSE 0] IN
         /\ Scheduled(adm, tokens, {})
         /\ running' \in Seq(Reqs) /\ IsInjective(running') /\ Len(running') <= RunCap
         /\ Running' = Running \cup adm /\ Live' = Live
         /\ \A r \in adm : /\ computed[r] = 0 /\ reserved[r] = 0 /\ OwedAll(r) = 0
                           /\ status[r] # "idle" /\ prompt[r] > 0
         /\ running # <<>> => running' # <<>> /\ running'[1] = running[1]
         /\ \A r \in adm : BlockStep(r, adm) => running' # <<>> /\ running'[1] = r
<1> DEFINE tokens == [r \in Reqs |-> IF r \in adm THEN prompt[r] + emitted[r] ELSE 0]
<1>1. /\ Types /\ Queue /\ Accounts /\ Rooms /\ Blocks /\ running \in Seq(Reqs)
      /\ IsInjective(running) /\ Running = {r \in Reqs : status[r] = "running"}
      /\ prompt \in [Reqs -> Nat] /\ emitted \in [Reqs -> Nat] /\ status \in [Reqs -> Statuses]
  BY CountsTyped DEF IInv, Types, Queue
<1>2. \A r \in adm : r \in Reqs /\ status[r] \in {"waiting", "preempted"} /\ stale[r] = 0
  BY DEF SchedulePrefill
<1>3. \A r \in adm : /\ computed[r] = 0 /\ reserved[r] = 0 /\ Flying(r) = 0
                     /\ status[r] # "idle" /\ r \notin Running
  BY <1>1, <1>2 DEF Accounts
<1>4. \A r \in adm : prompt[r] > 0 /\ OwedAll(r) = 0 /\ ~Decodes(r)
  <2> SUFFICES ASSUME NEW r \in adm PROVE prompt[r] > 0 /\ OwedAll(r) = 0 /\ ~Decodes(r)
    OBVIOUS
  <2>1. r \in Live /\ prompt[r] \in Nat
    BY <1>1, <1>2, <1>3 DEF Live
  <2>2. 1 <= prompt[r]
    BY <1>1, <2>1 DEF Rooms
  <2>3. OwedAll(r) = 0
    BY <1>1, <1>3, FlyingIs
  <2> QED BY <1>3, <2>1, <2>2, <2>3 DEF Decodes
<1>5. PICK s \in Orders(adm) : running' = running \o s
  BY DEF SchedulePrefill
<1>6. /\ running' \in Seq(Reqs) /\ IsInjective(running') /\ Cardinality(adm) \in Nat
      /\ ToSet(running') = ToSet(running) \cup adm
      /\ Len(running') = Len(running) + Cardinality(adm)
      /\ running # <<>> => running' # <<>> /\ running'[1] = running[1]
      /\ \A r \in Reqs : adm = {r} /\ running = <<>> => running' # <<>> /\ running'[1] = r
  <2>1. ToSet(running) \cap adm = {}
    BY <1>3 DEF Running
  <2>2. running \in Seq(Reqs) /\ IsInjective(running) /\ adm \in SUBSET Reqs
    BY <1>1
  <2> DEFINE both == running \o s
  <2>3. /\ both \in Seq(Reqs) /\ IsInjective(both) /\ Cardinality(adm) \in Nat
        /\ ToSet(both) = ToSet(running) \cup adm
        /\ Len(both) = Len(running) + Cardinality(adm)
        /\ running # <<>> => both # <<>> /\ both[1] = running[1]
        /\ \A r \in Reqs : adm = {r} /\ running = <<>> => both # <<>> /\ both[1] = r
    BY <1>5, <2>1, <2>2, QueueExtended
  <2>4. running' = both
    BY <1>5
  <2> HIDE DEF both
  <2> QED BY <2>3, <2>4
<1>7. Running' = Running \cup adm /\ Len(running') <= RunCap
  BY <1>6 DEF Running, SchedulePrefill
<1>8. tokens \in [Reqs -> Nat]
  BY <1>1
<1>9. Scheduled(adm, tokens, {})
  <2>1. Submit(adm, tokens, {}) /\ Len(inflight) < Depth /\ launch' = launch
    BY DEF SchedulePrefill
  <2> HIDE DEF tokens
  <2> QED BY <1>4, <1>7, <1>8, <2>1 DEF Scheduled
<1>10. Live' = Live
  <2>1. \A r \in Reqs : status'[r] = IF r \in adm THEN "running" ELSE status[r]
    BY DEF SchedulePrefill
  <2> QED BY <1>3, <2>1 DEF Live
<1>11. ASSUME NEW r \in adm, BlockStep(r, adm) PROVE running' # <<>> /\ running'[1] = r
  <2>1. ~Adaptive
    BY <1>3, <1>4, <1>9, <1>11, BlockStepIs
  <2>2. RunCap = 1 /\ Len(running) + Cardinality(adm) <= 1
    BY <1>1, <2>1, LaunchIs DEF SchedulePrefill, Types
  <2>3. IsFiniteSet(adm) /\ Cardinality(adm) # 0
    BY <1>11, FS_Subset, FS_EmptySet, LaunchAssumption
  <2>4. Cardinality(adm) = 1 /\ Len(running) = 0
    BY <1>1, <1>6, <2>2, <2>3
  <2>5. adm = {r} /\ running = <<>>
    BY <1>1, <1>11, <2>4, SoloIs
  <2> QED BY <1>2, <1>6, <1>11, <2>5
<1> HIDE DEF tokens
<1> QED BY <1>3, <1>4, <1>6, <1>7, <1>9, <1>10, <1>11 DEF tokens

(* A prefill pass keeps the invariant. *)
LEMMA SchedulePrefillIInv ==
  ASSUME IInv, NEW adm \in SUBSET Reqs, SchedulePrefill(adm)
  PROVE  IInv'
<1> DEFINE tokens == [r \in Reqs |-> IF r \in adm THEN prompt[r] + emitted[r] ELSE 0]
<1>1. /\ Scheduled(adm, tokens, {})
      /\ running' \in Seq(Reqs) /\ IsInjective(running') /\ Len(running') <= RunCap
      /\ Running' = Running \cup adm /\ Live' = Live
      /\ \A r \in adm : /\ computed[r] = 0 /\ reserved[r] = 0 /\ OwedAll(r) = 0
                        /\ status[r] # "idle" /\ prompt[r] > 0
      /\ running # <<>> => running' # <<>> /\ running'[1] = running[1]
      /\ \A r \in adm : BlockStep(r, adm) => running' # <<>> /\ running'[1] = r
  BY PrefillScheduled
<1>2. /\ Types /\ Queue /\ Accounts /\ Forgotten /\ Rooms /\ Canvases /\ NoFault
      /\ prompt \in [Reqs -> Nat] /\ emitted \in [Reqs -> Nat] /\ status \in [Reqs -> Statuses]
      /\ computed \in [Reqs -> Nat] /\ reserved \in [Reqs -> Nat] /\ stale \in [Reqs -> Nat]
  BY CountsTyped DEF IInv, Types
<1>3. /\ prompt' = prompt /\ limit' = limit /\ emitted' = emitted /\ stale' = stale
      /\ fault' = fault /\ launch' = launch
      /\ status' = [r \in Reqs |-> IF r \in adm THEN "running" ELSE status[r]]
      /\ \A r \in adm : stale[r] = 0
  BY DEF SchedulePrefill
<1>4. \A r \in Reqs : tokens[r] = IF r \in adm THEN prompt[r] + emitted[r] ELSE 0
  OBVIOUS
<1> HIDE DEF tokens
<1>5. /\ computed' \in [Reqs -> Nat] /\ reserved' \in [Reqs -> Nat] /\ gone' = {}
      /\ \A r \in Reqs : computed'[r] = computed[r] + tokens[r]
      /\ \A r \in Reqs : reserved'[r] = reserved[r] + Share(r, adm)
  BY <1>1, CountsServed
<1>6. inflight' \in Seq(Steps) /\ Len(inflight') <= Depth' /\ Blocks' /\ Mirror'
  BY <1>1, BlocksServed
<1>7. Types'
  <2>1. status' \in [Reqs -> Statuses]
    BY <1>2, <1>3 DEF Statuses
  <2>2. Counts' \subseteq [Reqs -> Nat]
    BY <1>2, <1>3, <1>5, CountsTyped DEF Counts
  <2>3. owner' \in Reqs \cup {NoReq} /\ session' \in Reqs \cup {NoReq}
    BY <1>1, MirrorServed
  <2> QED BY <1>1, <1>2, <1>3, <1>5, <1>6, <2>1, <2>2, <2>3 DEF Types
<1>8. Queue'
  <2>1. Running' = {r \in Reqs : status'[r] = "running"}
    BY <1>1, <1>2, <1>3 DEF Queue
  <2>2. RunCap' = RunCap
    BY <1>3, LaunchKept
  <2> QED BY <1>1, <1>5, <2>1, <2>2 DEF Queue
<1>9. Accounts'
  <2> SUFFICES ASSUME NEW r \in Reqs
               PROVE  /\ status'[r] = "idle" =>
                           emitted'[r] = 0 /\ computed'[r] = 0 /\ reserved'[r] = 0 /\ stale'[r] = 0
                      /\ status'[r] = "waiting" =>
                           emitted'[r] = 0 /\ computed'[r] = 0 /\ reserved'[r] = 0 /\ stale'[r] = 0
                           /\ Flying(r)' = 0
                      /\ status'[r] = "preempted" =>
                           computed'[r] = 0 /\ reserved'[r] = 0 /\ stale'[r] = Flying(r)'
                      /\ status'[r] = "running" =>
                           /\ stale'[r] = 0 /\ reserved'[r] = OwedAll(r)'
                           /\ computed'[r] < prompt'[r] + emitted'[r] + reserved'[r]
                           /\ computed'[r] <= MaxModelLen - 1
    BY DEF Accounts
  <2>1. /\ Flying(r)' = Flying(r) + IF r \in adm THEN 1 ELSE 0
        /\ OwedAll(r)' = OwedAll(r) + Share(r, adm)
        /\ Share(r, adm) \in Nat /\ (r \in adm => Share(r, adm) > 0)
        /\ Flying(r) \in Nat /\ OwedAll(r) \in Nat
    BY <1>1, SharesServed
  <2>2. computed[r] \in Nat /\ reserved[r] \in Nat /\ prompt[r] \in Nat /\ emitted[r] \in Nat
    BY <1>2
  <2>3. CASE r \in adm
    <3>1. status'[r] = "running" /\ prompt[r] + emitted[r] < MaxModelLen
      BY <1>1, <1>2, <1>3, <2>3 DEF Rooms, Live
    <3>2. computed'[r] = prompt[r] + emitted[r]
      BY <1>1, <1>4, <1>5, <2>2, <2>3
    <3>3. stale'[r] = 0 /\ reserved'[r] = OwedAll(r)' /\ reserved'[r] > 0 /\ reserved'[r] \in Nat
      BY <1>1, <1>3, <1>5, <2>1, <2>2, <2>3
    <3> QED BY <1>3, <2>2, <3>1, <3>2, <3>3, LaunchAssumption
  <2>4. CASE r \notin adm
    <3>1. status'[r] = status[r] /\ Share(r, adm) = 0 /\ tokens[r] = 0
      BY <1>3, <1>4, <2>4 DEF Share
    <3>2. /\ computed'[r] = computed[r] /\ reserved'[r] = reserved[r]
          /\ Flying(r)' = Flying(r) /\ OwedAll(r)' = OwedAll(r)
      BY <1>5, <2>1, <2>2, <2>4, <3>1
    <3> QED BY <1>2, <1>3, <3>1, <3>2 DEF Accounts
  <2> QED BY <2>3, <2>4
<1>10. Rooms' /\ Canvases' /\ NoFault'
  BY <1>1, <1>2, <1>3 DEF Rooms, Canvases, NoFault, Physical, Remaining
<1>11. Forgotten'
  BY <1>2, <1>3 DEF Forgotten
<1> QED BY <1>6, <1>7, <1>8, <1>9, <1>10, <1>11 DEF IInv

(* What a decode computes of a running request that nothing is owed to. *)
LEMMA DecodeTokensIs ==
  ASSUME IInv, NEW r \in Running
  PROVE  /\ r \in Reqs /\ status[r] = "running" /\ r \in Live
         /\ DecodeTokens(r) \in Int
         /\ computed[r] + DecodeTokens(r) <= prompt[r] + emitted[r] + reserved[r]
         /\ computed[r] + DecodeTokens(r) <= MaxModelLen - 1
         /\ OwedAll(r) = 0 => ~ReachesLimit(r) /\ DecodeTokens(r) > 0
<1>1. /\ r \in Reqs /\ status[r] = "running" /\ r \in Live /\ Accounts /\ Rooms
      /\ prompt[r] \in Nat /\ emitted[r] \in Nat /\ computed[r] \in Nat /\ reserved[r] \in Nat
      /\ MaxModelLen \in Nat
  BY CountsTyped, LaunchAssumption DEF IInv, Queue, Live
<1>2. /\ reserved[r] = OwedAll(r) /\ computed[r] < prompt[r] + emitted[r] + reserved[r]
      /\ prompt[r] + emitted[r] < MaxModelLen
  BY <1>1 DEF Accounts, Rooms
<1> DEFINE a == prompt[r] + emitted[r] + reserved[r] - computed[r]
           b == MaxModelLen - 1 - computed[r]
<1>3. a \in Int /\ b \in Int
  BY <1>1
<1>4. DecodeTokens(r) = IF a <= b THEN a ELSE b
  <2>1. Min({a, b}) = IF a <= b THEN a ELSE b
    <3> HIDE DEF a, b
    <3> QED BY <1>3, MinOfTwo
  <2> QED BY <2>1 DEF DecodeTokens
<1>5. OwedAll(r) = 0 => a > 0 /\ b > 0 /\ ~ReachesLimit(r)
  BY <1>1, <1>2 DEF ReachesLimit
<1> QED BY <1>1, <1>3, <1>4, <1>5

DecodePre(kept) == {running[i] : i \in kept + 1 .. Len(running)}
DecodeRows(kept) ==
  {r \in Running \ DecodePre(kept) : ~ReachesLimit(r) /\ DecodeTokens(r) > 0}

(* A decode step is served: when the owner decodes alone, every other request
   of the queue was preempted, because none of them could be left out. *)
LEMMA DecodeScheduled ==
  ASSUME IInv, NEW kept \in 0 .. Len(running), ScheduleDecode(kept)
  PROVE  LET rows == DecodeRows(kept)
             tokens == [r \in Reqs |-> IF r \in rows THEN DecodeTokens(r) ELSE 0] IN
         /\ Scheduled(rows, tokens, DecodePre(kept))
         /\ running' \in Seq(Reqs) /\ IsInjective(running') /\ Len(running') <= RunCap
         /\ Running' = Running \ DecodePre(kept) /\ DecodePre(kept) \subseteq Running
         /\ Live' = Live
         /\ running # <<>> => running' # <<>> /\ running'[1] = running[1]
         /\ \A r \in rows : BlockStep(r, rows) => running' # <<>> /\ running'[1] = r
<1> DEFINE pre == DecodePre(kept)
           rows == DecodeRows(kept)
           tokens == [r \in Reqs |-> IF r \in rows THEN DecodeTokens(r) ELSE 0]
<1>1. /\ Types /\ Queue /\ Mirror /\ Blocks /\ running \in Seq(Reqs)
      /\ IsInjective(running) /\ Running = {r \in Reqs : status[r] = "running"}
      /\ status \in [Reqs -> Statuses] /\ Len(running) <= RunCap /\ RunCap \in Nat
  BY LaunchIs DEF IInv, Types, Queue
<1>2. /\ running' = SubSeq(running, 1, kept) /\ launch' = launch /\ Len(inflight) < Depth
      /\ kept = 0 => running = <<>>
      /\ status' = [r \in Reqs |-> IF r \in pre THEN "preempted" ELSE status[r]]
      /\ Submit(rows, tokens, pre)
  BY DEF ScheduleDecode, MayKeep, DecodePre, DecodeRows
<1>3. /\ running' \in Seq(Reqs) /\ IsInjective(running')
      /\ Running' = Running \ pre /\ pre \subseteq Running
      /\ Len(running') = kept
      /\ kept # 0 => running' # <<>> /\ running'[1] = running[1]
      /\ kept # 0 => running # <<>> /\ running[1] \in Running \ pre
  BY <1>1, <1>2, QueueCut DEF Running, DecodePre
<1>4. rows \subseteq Running \ pre /\ Running \subseteq Reqs
  BY <1>1 DEF DecodeRows
<1>5. tokens \in [Reqs -> Nat]
  <2>1. \A r \in rows : DecodeTokens(r) \in Nat
    <3> SUFFICES ASSUME NEW r \in rows PROVE DecodeTokens(r) \in Nat
      OBVIOUS
    <3>1. r \in Running /\ DecodeTokens(r) > 0
      BY DEF DecodeRows
    <3>2. DecodeTokens(r) \in Int
      BY <3>1, DecodeTokensIs
    <3> QED BY <3>1, <3>2
  <2> QED BY <2>1
<1> HIDE DEF tokens
<1>6. Scheduled(rows, tokens, pre)
  BY <1>1, <1>2, <1>3, <1>4, <1>5 DEF Scheduled
<1>7. Live' = Live
  BY <1>1, <1>2, <1>3 DEF Live
<1>8. running # <<>> => running' # <<>> /\ running'[1] = running[1]
  BY <1>2, <1>3
<1>9. ASSUME NEW r \in rows, BlockStep(r, rows) PROVE running' # <<>> /\ running'[1] = r
  <2>1. r \in Running /\ r \in Running' /\ r \in Reqs
    BY <1>3, <1>4
  <2>2. running' # <<>> /\ running'[1] \in Running \ pre /\ running'[1] \in Reqs
    <3>1. running # <<>>
      BY <2>1 DEF Running, ToSet
    <3> QED BY <1>2, <1>3, <1>4, <3>1
  <2>3. CASE ~Adaptive
    <3>1. Len(running') = 1 /\ DOMAIN running' = {1}
      <4>1. Len(running) <= 1
        BY <1>1, <2>3, LaunchIs DEF Types
      <4>2. kept \in {0, 1} /\ kept # 0
        BY <1>1, <1>2, <2>1, <4>1 DEF Running, ToSet
      <4> QED BY <1>3, <4>2
    <3>2. r = running'[1]
      BY <2>1, <3>1 DEF Running, ToSet
    <3> QED BY <2>2, <3>2
  <2>4. CASE Adaptive
    <3>1. rows = {r} /\ owner = r
      BY <1>6, <1>9, <2>4, BlockStepIs
    <3> DEFINE h == running'[1]
    <3>2. ASSUME h # r PROVE FALSE
      <4>1. h \in Running /\ h \notin pre /\ h \notin rows
        BY <2>2, <3>1, <3>2
      <4>2. \A i \in DOMAIN inflight : inflight[i].rows = {r}
        <5>1. Len(inflight) \in {0, 1} /\ DOMAIN inflight = 1 .. Len(inflight)
          <6>1. Len(inflight) \in {0, 1, 2} /\ DOMAIN inflight = 1 .. Len(inflight)
            BY <1>1, StepsAre
          <6>2. Depth \in {1, 2}
            BY <1>1, LaunchIs DEF Types
          <6> QED BY <1>2, <6>1, <6>2
        <5>2. inflight # <<>> => inflight[Len(inflight)].rows = {r}
          BY <1>1, <2>1, <3>1 DEF Mirror
        <5> QED BY <5>1, <5>2
      <4>3. OwedAll(h) = 0
        BY <1>1, <3>2, <4>2, FlyingIs
      <4>4. ~ReachesLimit(h) /\ DecodeTokens(h) > 0
        <5> HIDE DEF h
        <5> QED BY <4>1, <4>3, DecodeTokensIs
      <4> QED BY <4>1, <4>4 DEF DecodeRows
    <3> QED BY <2>2, <3>2
  <2> QED BY <2>3, <2>4
<1>10. Len(running') <= RunCap
  BY <1>1, <1>3
<1> HIDE DEF rows, pre
<1> QED BY <1>3, <1>6, <1>7, <1>8, <1>9, <1>10 DEF tokens, rows, pre

(* A decode pass keeps the invariant, whatever it preempts. *)
LEMMA ScheduleDecodeIInv ==
  ASSUME IInv, NEW kept \in 0 .. Len(running), ScheduleDecode(kept)
  PROVE  IInv'
<1> DEFINE pre == DecodePre(kept)
           rows == DecodeRows(kept)
           tokens == [r \in Reqs |-> IF r \in rows THEN DecodeTokens(r) ELSE 0]
<1>1. /\ Scheduled(rows, tokens, pre)
      /\ running' \in Seq(Reqs) /\ IsInjective(running') /\ Len(running') <= RunCap
      /\ Running' = Running \ pre /\ pre \subseteq Running
      /\ Live' = Live
      /\ running # <<>> => running' # <<>> /\ running'[1] = running[1]
      /\ \A r \in rows : BlockStep(r, rows) => running' # <<>> /\ running'[1] = r
  BY DecodeScheduled
<1>2. /\ Types /\ Queue /\ Accounts /\ Forgotten /\ Rooms /\ Canvases /\ NoFault /\ Blocks
      /\ prompt \in [Reqs -> Nat] /\ emitted \in [Reqs -> Nat] /\ status \in [Reqs -> Statuses]
      /\ computed \in [Reqs -> Nat] /\ reserved \in [Reqs -> Nat] /\ stale \in [Reqs -> Nat]
  BY CountsTyped DEF IInv, Types
<1>3. /\ prompt' = prompt /\ limit' = limit /\ emitted' = emitted
      /\ stale' = [r \in Reqs |-> IF r \in pre THEN InFlight(r) ELSE stale[r]]
      /\ fault' = fault /\ launch' = launch
      /\ status' = [r \in Reqs |-> IF r \in pre THEN "preempted" ELSE status[r]]
  BY DEF ScheduleDecode, DecodePre
<1>4. \A r \in Reqs : tokens[r] = IF r \in rows THEN DecodeTokens(r) ELSE 0
  OBVIOUS
<1>5. rows \subseteq Running \ pre /\ Running \subseteq Reqs
  BY <1>2 DEF DecodeRows, Queue
<1> HIDE DEF tokens, rows, pre
<1>6. /\ computed' \in [Reqs -> Nat] /\ reserved' \in [Reqs -> Nat] /\ gone' = {}
      /\ \A r \in Reqs : computed'[r] = IF r \in pre THEN 0 ELSE computed[r] + tokens[r]
      /\ \A r \in Reqs : reserved'[r] = IF r \in pre THEN 0 ELSE reserved[r] + Share(r, rows)
  BY <1>1, CountsServed
<1>7. inflight' \in Seq(Steps) /\ Len(inflight') <= Depth' /\ Blocks' /\ Mirror'
  BY <1>1, BlocksServed
<1>8. \A r \in Reqs : InFlight(r) = Flying(r) /\ Flying(r) \in Nat
  BY <1>2, FlyingIs
<1>9. Types'
  <2>1. status' \in [Reqs -> Statuses]
    BY <1>2, <1>3 DEF Statuses
  <2>2. stale' \in [Reqs -> Nat]
    BY <1>2, <1>3, <1>8
  <2>3. Counts' \subseteq [Reqs -> Nat]
    BY <1>2, <1>3, <1>6, <2>2, CountsTyped DEF Counts
  <2>4. owner' \in Reqs \cup {NoReq} /\ session' \in Reqs \cup {NoReq}
    BY <1>1, MirrorServed
  <2> QED BY <1>1, <1>2, <1>3, <1>6, <1>7, <2>1, <2>3, <2>4 DEF Types
<1>10. Queue'
  <2>1. Running' = {r \in Reqs : status'[r] = "running"}
    BY <1>1, <1>2, <1>3 DEF Queue
  <2>2. RunCap' = RunCap
    BY <1>3, LaunchKept
  <2> QED BY <1>1, <1>6, <2>1, <2>2 DEF Queue
<1>11. Accounts'
  <2> SUFFICES ASSUME NEW r \in Reqs
               PROVE  /\ status'[r] = "idle" =>
                           emitted'[r] = 0 /\ computed'[r] = 0 /\ reserved'[r] = 0 /\ stale'[r] = 0
                      /\ status'[r] = "waiting" =>
                           emitted'[r] = 0 /\ computed'[r] = 0 /\ reserved'[r] = 0 /\ stale'[r] = 0
                           /\ Flying(r)' = 0
                      /\ status'[r] = "preempted" =>
                           computed'[r] = 0 /\ reserved'[r] = 0 /\ stale'[r] = Flying(r)'
                      /\ status'[r] = "running" =>
                           /\ stale'[r] = 0 /\ reserved'[r] = OwedAll(r)'
                           /\ computed'[r] < prompt'[r] + emitted'[r] + reserved'[r]
                           /\ computed'[r] <= MaxModelLen - 1
    BY DEF Accounts
  <2>1. /\ Flying(r)' = Flying(r) + IF r \in rows THEN 1 ELSE 0
        /\ OwedAll(r)' = OwedAll(r) + Share(r, rows)
        /\ Share(r, rows) \in Nat /\ (r \in rows => Share(r, rows) > 0)
        /\ Flying(r) \in Nat /\ OwedAll(r) \in Nat
    BY <1>1, SharesServed
  <2>2. computed[r] \in Nat /\ reserved[r] \in Nat /\ prompt[r] \in Nat /\ emitted[r] \in Nat
    BY <1>2
  <2>3. CASE r \in pre
    <3>1. status'[r] = "preempted" /\ r \notin rows
      BY <1>3, <1>5, <2>3
    <3>2. computed'[r] = 0 /\ reserved'[r] = 0 /\ stale'[r] = Flying(r)'
      BY <1>3, <1>6, <1>8, <2>1, <2>3, <3>1
    <3> QED BY <3>1, <3>2
  <2>4. CASE r \in rows
    <3>1. r \in Running /\ r \notin pre
      BY <1>5, <2>4
    <3>2. /\ status[r] = "running" /\ DecodeTokens(r) \in Int
          /\ computed[r] + DecodeTokens(r) <= prompt[r] + emitted[r] + reserved[r]
          /\ computed[r] + DecodeTokens(r) <= MaxModelLen - 1
      BY <3>1, DecodeTokensIs
    <3>3. status'[r] = "running" /\ stale'[r] = 0 /\ reserved[r] = OwedAll(r)
      BY <1>2, <1>3, <3>1, <3>2 DEF Accounts
    <3>4. computed'[r] = computed[r] + DecodeTokens(r) /\ reserved'[r] = reserved[r] + Share(r, rows)
      BY <1>4, <1>6, <2>4, <3>1
    <3>5. reserved'[r] = OwedAll(r)' /\ reserved'[r] > reserved[r] /\ reserved'[r] \in Nat
      BY <2>1, <2>2, <2>4, <3>3, <3>4
    <3>6. computed'[r] \in Nat /\ prompt'[r] = prompt[r] /\ emitted'[r] = emitted[r]
      BY <1>3, <1>6
    <3>7. computed'[r] < prompt'[r] + emitted'[r] + reserved'[r] /\ computed'[r] <= MaxModelLen - 1
      <4> DEFINE c == computed[r]  d == DecodeTokens(r)  b == prompt[r] + emitted[r]
                 s == reserved[r]  t == reserved'[r]
      <4>1. c \in Nat /\ d \in Int /\ b \in Nat /\ s \in Nat /\ t \in Nat
            /\ c + d <= b + s /\ t > s
        BY <2>2, <3>2, <3>5
      <4>2. computed'[r] = c + d /\ prompt'[r] + emitted'[r] + reserved'[r] = b + t /\ c + d <= MaxModelLen - 1
        BY <3>2, <3>4, <3>6
      <4> HIDE DEF c, d, b, s, t
      <4>3. c + d < b + t
        BY <4>1
      <4> QED BY <4>2, <4>3
    <3> QED BY <3>3, <3>5, <3>7
  <2>5. CASE r \notin pre /\ r \notin rows
    <3>1. status'[r] = status[r] /\ stale'[r] = stale[r] /\ Share(r, rows) = 0 /\ tokens[r] = 0
      BY <1>3, <1>4, <2>5 DEF Share
    <3>2. /\ computed'[r] = computed[r] /\ reserved'[r] = reserved[r]
          /\ Flying(r)' = Flying(r) /\ OwedAll(r)' = OwedAll(r)
      BY <1>6, <2>1, <2>2, <2>5, <3>1
    <3> QED BY <1>2, <1>3, <3>1, <3>2 DEF Accounts
  <2> QED BY <2>3, <2>4, <2>5
<1>12. Rooms' /\ Canvases' /\ NoFault'
  BY <1>1, <1>2, <1>3 DEF Rooms, Canvases, NoFault, Physical, Remaining
<1>13. Forgotten'
  BY <1>2, <1>3 DEF Forgotten
<1> QED BY <1>7, <1>9, <1>10, <1>11, <1>12, <1>13 DEF IInv

(* A request arrives, its prompt and limit repaired: the clamp never raises. *)
LEMMA AddRequestIInv ==
  ASSUME IInv, NEW r \in Reqs, NEW p \in RawPrompts, NEW m \in RawLimits, AddRequest(r, p, m)
  PROVE  IInv'
<1> DEFINE q == RepairedPrompt(p)
           fitted == ClampedLimit(p, m)
<1>1. /\ Types /\ Queue /\ Accounts /\ Rooms /\ Canvases /\ Blocks /\ Mirror /\ NoFault
      /\ Forgotten
      /\ prompt \in [Reqs -> Nat] /\ limit \in [Reqs -> Nat] /\ emitted \in [Reqs -> Nat]
      /\ status \in [Reqs -> Statuses]
  BY CountsTyped DEF IInv, Types
<1>2. /\ q \in Nat \ {0} /\ q + Width <= MaxModelLen
      /\ Remaining(q) \in Nat /\ Remaining(q) >= Width /\ p \in Nat /\ m \in Nat
  BY Room, LaunchAssumption
<1>3. /\ fitted \in Nat /\ Physical(fitted) <= Remaining(q)
      /\ fitted # m => fitted > 0
  BY <1>2, Fitted DEF ClampedLimit
<1>4. /\ status[r] = "idle" /\ r \notin gone /\ InFlight(r) = 0
      /\ launch' = launch /\ inflight' = inflight /\ owner' = owner /\ session' = session
      /\ gone' = gone
      /\ status' = [status EXCEPT ![r] = "waiting"]
      /\ prompt' = [prompt EXCEPT ![r] = q] /\ limit' = [limit EXCEPT ![r] = fitted]
      /\ emitted' = emitted /\ computed' = computed /\ reserved' = reserved /\ stale' = stale
      /\ running' = running /\ fault' = fault
  <2>1. ~(fitted # m /\ fitted <= 0)
    <3> HIDE DEF fitted
    <3> QED BY <1>3
  <2> QED BY <2>1 DEF AddRequest, sessionVars
<1> HIDE DEF q, fitted
<1>5. /\ Live' = Live \cup {r} /\ r \notin Live /\ Running' = Running /\ r \notin Running
      /\ Running \subseteq Live
  BY <1>1, <1>4 DEF Live, Running, Queue, Statuses
<1>6. Flying(r) = 0 /\ \A i \in DOMAIN inflight : r \notin inflight[i].rows
  BY <1>1, <1>4, FlyingIs
<1>7. Types'
  <2>1. Counts' \subseteq [Reqs -> Nat]
    BY <1>1, <1>2, <1>3, <1>4, CountsTyped DEF Counts
  <2>2. status' \in [Reqs -> Statuses]
    BY <1>1, <1>4 DEF Statuses
  <2>3. Depth' = Depth
    BY <1>4, LaunchKept
  <2> QED BY <1>1, <1>4, <2>1, <2>2, <2>3 DEF Types
<1>8. Queue'
  <2>1. Running' = {x \in Reqs : status'[x] = "running"}
    BY <1>1, <1>4, <1>5 DEF Queue
  <2>2. RunCap' = RunCap
    BY <1>4, LaunchKept
  <2> QED BY <1>1, <1>4, <1>5, <2>1, <2>2 DEF Queue
<1>9. Accounts'
  <2> SUFFICES ASSUME NEW x \in Reqs
               PROVE  /\ status'[x] = "idle" =>
                           emitted'[x] = 0 /\ computed'[x] = 0 /\ reserved'[x] = 0 /\ stale'[x] = 0
                      /\ status'[x] = "waiting" =>
                           emitted'[x] = 0 /\ computed'[x] = 0 /\ reserved'[x] = 0 /\ stale'[x] = 0
                           /\ Flying(x)' = 0
                      /\ status'[x] = "preempted" =>
                           computed'[x] = 0 /\ reserved'[x] = 0 /\ stale'[x] = Flying(x)'
                      /\ status'[x] = "running" =>
                           /\ stale'[x] = 0 /\ reserved'[x] = OwedAll(x)'
                           /\ computed'[x] < prompt'[x] + emitted'[x] + reserved'[x]
                           /\ computed'[x] <= MaxModelLen - 1
    BY DEF Accounts
  <2>1. Flying(x)' = Flying(x) /\ OwedAll(x)' = OwedAll(x)
    BY <1>4, SharesKept
  <2>2. CASE x = r
    <3>1. emitted[r] = 0 /\ computed[r] = 0 /\ reserved[r] = 0 /\ stale[r] = 0
      BY <1>1, <1>4 DEF Accounts
    <3>2. status'[r] = "waiting"
      BY <1>1, <1>4
    <3> QED BY <1>4, <1>6, <2>1, <2>2, <3>1, <3>2
  <2>3. CASE x # r
    <3>1. status'[x] = status[x] /\ prompt'[x] = prompt[x]
      BY <1>1, <1>4, <2>3
    <3> QED BY <1>1, <1>4, <2>1, <3>1 DEF Accounts
  <2> QED BY <2>2, <2>3
<1>10. emitted[r] = 0 /\ prompt'[r] = q /\ limit'[r] = fitted
       /\ \A x \in Live : prompt'[x] = prompt[x] /\ limit'[x] = limit[x] /\ x \in Reqs
  BY <1>1, <1>4, <1>5 DEF Accounts, Live
<1>11. Rooms'
  <2> SUFFICES ASSUME NEW x \in Live'
               PROVE  /\ 1 <= prompt'[x] /\ prompt'[x] + emitted'[x] < MaxModelLen
                      /\ Remaining(prompt'[x]) \in Nat
                      /\ Physical(limit'[x]) <= Remaining(prompt'[x])
    BY DEF Rooms, Remaining, Physical, RoundUp, RoundDown
  <2>1. CASE x = r
    <3>1. 1 <= q /\ q + 0 < MaxModelLen
      BY <1>2, LaunchAssumption
    <3> QED BY <1>2, <1>3, <1>4, <1>10, <2>1, <3>1
  <2>2. CASE x # r
    <3>1. x \in Live
      BY <1>5, <2>2
    <3> QED BY <1>1, <1>4, <1>10, <3>1 DEF Rooms
  <2> QED BY <2>1, <2>2
<1>12. Canvases'
  <2> SUFFICES ASSUME launch = Plain, NEW x \in Live'
               PROVE  \E k \in Nat : emitted'[x] = k * Width
                                     /\ emitted'[x] + Width <= Physical(limit'[x])
    BY <1>4 DEF Canvases, Physical
  <2>1. CASE x = r
    <3>1. emitted'[x] = 0 /\ limit'[x] = fitted
      BY <1>4, <1>10, <2>1
    <3>2. 0 = 0 * Width /\ 0 + Width <= Physical(fitted)
      BY <1>3, PhysicalHolds, LaunchAssumption
    <3> QED BY <3>1, <3>2
  <2>2. CASE x # r
    <3>1. x \in Live
      BY <1>5, <2>2
    <3> QED BY <1>1, <1>4, <1>10, <3>1 DEF Canvases
  <2> QED BY <2>1, <2>2
<1>13. Blocks'
  <2>1. \A i \in DOMAIN inflight : r \notin inflight[i].block
    BY <1>1, <1>6 DEF Blocks
  <2>2. \A i \in DOMAIN inflight : inflight[i].block \cap Live' = inflight[i].block \cap Live
    BY <1>5, <2>1
  <2> QED BY <1>1, <1>4, <2>2 DEF Blocks
<1>14. Mirror' /\ NoFault'
  BY <1>1, <1>4, <1>5 DEF Mirror, MirrorAgrees, NoFault
<1>15. Forgotten'
  BY <1>1, <1>4 DEF Forgotten
<1> QED BY <1>7, <1>8, <1>9, <1>11, <1>12, <1>13, <1>14, <1>15 DEF IInv

(* The steps in flight are those of before, or fewer of the oldest. *)
StepsRemain ==
  /\ inflight' \in Seq(Steps) /\ Len(inflight') <= Depth
  /\ \A i \in DOMAIN inflight' : \E j \in DOMAIN inflight : inflight'[i] = inflight[j]
  /\ inflight' # <<>> => /\ inflight # <<>>
                         /\ inflight'[Len(inflight')] = inflight[Len(inflight)]

(* The requests that do not end are accounted for. *)
Settled(S, now, owed, late) ==
  \A r \in Reqs \ S :
    /\ status[r] = "idle" => now[r] = 0 /\ owed[r] = 0 /\ late[r] = 0
    /\ status[r] = "waiting" => now[r] = 0 /\ owed[r] = 0 /\ late[r] = 0 /\ Flying(r)' = 0
    /\ status[r] = "preempted" => owed[r] = 0 /\ late[r] = Flying(r)'
    /\ status[r] = "running" =>
         late[r] = 0 /\ owed[r] = OwedAll(r)' /\ computed[r] < prompt[r] + now[r] + owed[r]

(* They have room left. *)
Roomy(S, now) ==
  \A r \in Live \ S :
    /\ prompt[r] + now[r] < MaxModelLen
    /\ launch = Plain => \E k \in Nat : now[r] = k * Width /\ now[r] + Width <= Physical(limit[r])

(* Some requests end. *)
LEMMA EndedIInv ==
  ASSUME IInv, NEW S \in SUBSET Live, NEW now \in [Reqs -> Nat], NEW owed \in [Reqs -> Nat],
         NEW late \in [Reqs -> Nat], EndRequests(S, now, owed, late),
         launch' = launch, owner' = owner, session' = session, fault' = fault,
         StepsRemain, Settled(S, now, owed, late), Roomy(S, now)
  PROVE  IInv'
<1>1. /\ Types /\ Queue /\ Accounts /\ Rooms /\ Canvases /\ Blocks /\ Mirror /\ NoFault
      /\ Forgotten
      /\ prompt \in [Reqs -> Nat] /\ limit \in [Reqs -> Nat] /\ computed \in [Reqs -> Nat]
      /\ status \in [Reqs -> Statuses] /\ Live \subseteq Reqs
      /\ running \in Seq(Reqs) /\ IsInjective(running)
  BY CountsTyped DEF IInv, Types, Queue, Live
<1>2. /\ \A r \in Reqs : status'[r] = IF r \in S THEN "idle" ELSE status[r]
      /\ \A r \in Reqs : prompt'[r] = IF r \in S THEN 0 ELSE prompt[r]
      /\ \A r \in Reqs : limit'[r] = IF r \in S THEN 0 ELSE limit[r]
      /\ \A r \in Reqs : computed'[r] = IF r \in S THEN 0 ELSE computed[r]
      /\ \A r \in Reqs : emitted'[r] = IF r \in S THEN 0 ELSE now[r]
      /\ \A r \in Reqs : reserved'[r] = IF r \in S THEN 0 ELSE owed[r]
      /\ \A r \in Reqs : stale'[r] = IF r \in S THEN 0 ELSE late[r]
      /\ gone' = gone \cup S
  BY DEF EndRequests, Ended
<1>3. /\ prompt' \in [Reqs -> Nat] /\ limit' \in [Reqs -> Nat] /\ computed' \in [Reqs -> Nat]
      /\ emitted' \in [Reqs -> Nat] /\ reserved' \in [Reqs -> Nat] /\ stale' \in [Reqs -> Nat]
      /\ status' \in [Reqs -> Statuses]
  BY <1>1 DEF EndRequests, Ended, Statuses
<1>4. /\ running' \in Seq(Reqs) /\ IsInjective(running')
      /\ ToSet(running') = ToSet(running) \ S
      /\ Len(running') <= Len(running)
      /\ running # <<>> /\ running[1] \notin S => running' # <<>> /\ running'[1] = running[1]
  <2>1. running' \in Without(running, S)
    BY DEF EndRequests
  <2> QED BY <1>1, <2>1, QueueWithout
<1>5. Live' = Live \ S /\ Running' = Running \ S
  BY <1>2, <1>4 DEF Live, Running
<1>6. Depth' = Depth /\ RunCap' = RunCap /\ RunCap \in Nat
  BY <1>1, LaunchKept, LaunchIs DEF Types
<1>7. Types'
  <2>1. Counts' \subseteq [Reqs -> Nat]
    BY <1>3 DEF Counts
  <2>2. gone' \subseteq Reqs
    BY <1>1, <1>2 DEF Types
  <2> QED BY <1>1, <1>3, <1>4, <1>6, <2>1, <2>2 DEF Types, StepsRemain
<1>8. Queue'
  <2>1. Running' = {r \in Reqs : status'[r] = "running"}
    BY <1>1, <1>2, <1>5 DEF Queue
  <2>2. gone' \cap Live' = {}
    BY <1>1, <1>2, <1>5 DEF Queue
  <2>3. Len(running') <= RunCap'
    <3>1. Len(running) <= RunCap
      BY <1>1 DEF Queue
    <3>2. running \in Seq(Reqs) /\ running' \in Seq(Reqs)
      BY <1>1, <1>4
    <3>3. Len(running) \in Nat /\ Len(running') \in Nat
      BY <3>2
    <3> QED BY <1>4, <1>6, <3>1, <3>3
  <2> QED BY <1>4, <2>1, <2>2, <2>3 DEF Queue
<1>9. Accounts'
  <2> SUFFICES ASSUME NEW r \in Reqs
               PROVE  /\ status'[r] = "idle" =>
                           emitted'[r] = 0 /\ computed'[r] = 0 /\ reserved'[r] = 0 /\ stale'[r] = 0
                      /\ status'[r] = "waiting" =>
                           emitted'[r] = 0 /\ computed'[r] = 0 /\ reserved'[r] = 0 /\ stale'[r] = 0
                           /\ Flying(r)' = 0
                      /\ status'[r] = "preempted" =>
                           computed'[r] = 0 /\ reserved'[r] = 0 /\ stale'[r] = Flying(r)'
                      /\ status'[r] = "running" =>
                           /\ stale'[r] = 0 /\ reserved'[r] = OwedAll(r)'
                           /\ computed'[r] < prompt'[r] + emitted'[r] + reserved'[r]
                           /\ computed'[r] <= MaxModelLen - 1
    BY DEF Accounts
  <2>1. CASE r \in S
    <3>1. status'[r] = "idle" /\ emitted'[r] = 0 /\ computed'[r] = 0 /\ reserved'[r] = 0 /\ stale'[r] = 0
      BY <1>2, <2>1
    <3> QED BY <3>1
  <2>2. CASE r \notin S
    <3>1. /\ status'[r] = status[r] /\ emitted'[r] = now[r] /\ computed'[r] = computed[r]
          /\ reserved'[r] = owed[r] /\ stale'[r] = late[r] /\ prompt'[r] = prompt[r]
      BY <1>2, <2>2
    <3>2. /\ status[r] \in {"idle", "waiting", "preempted"} => computed[r] = 0
          /\ status[r] = "running" => computed[r] <= MaxModelLen - 1
      BY <1>1 DEF Accounts
    <3> QED BY <2>2, <3>1, <3>2 DEF Settled
  <2> QED BY <2>1, <2>2
<1>10. \A r \in Live' : /\ r \in Live /\ r \notin S /\ prompt'[r] = prompt[r] /\ limit'[r] = limit[r]
                        /\ emitted'[r] = now[r]
  BY <1>1, <1>2, <1>5
<1>11. Rooms'
  <2> SUFFICES ASSUME NEW r \in Live'
               PROVE  /\ 1 <= prompt'[r] /\ prompt'[r] + emitted'[r] < MaxModelLen
                      /\ Remaining(prompt'[r]) \in Nat
                      /\ Physical(limit'[r]) <= Remaining(prompt'[r])
    BY DEF Rooms, Remaining, Physical, RoundUp, RoundDown
  <2> QED BY <1>1, <1>10 DEF Rooms, Roomy
<1>12. Canvases'
  <2> SUFFICES ASSUME launch = Plain, NEW r \in Live'
               PROVE  \E k \in Nat : emitted'[r] = k * Width
                                     /\ emitted'[r] + Width <= Physical(limit'[r])
    BY DEF Canvases, Physical
  <2> QED BY <1>10 DEF Roomy
<1>13. Blocks'
  <2> SUFFICES ASSUME NEW i \in DOMAIN inflight'
               PROVE  /\ inflight'[i].rows # {}
                      /\ inflight'[i].block \subseteq inflight'[i].rows
                      /\ \A r \in inflight'[i].rows :
                           inflight'[i].width[r] = IF r \in inflight'[i].block THEN Width ELSE 1
                      /\ \A r \in inflight'[i].block \cap Live' : running' # <<>> /\ running'[1] = r
                      /\ launch = Plain => inflight'[i].block = inflight'[i].rows
    BY DEF Blocks
  <2>1. PICK j \in DOMAIN inflight : inflight'[i] = inflight[j]
    BY DEF StepsRemain
  <2>2. ASSUME NEW r \in inflight[j].block \cap Live' PROVE running' # <<>> /\ running'[1] = r
    <3>1. r \in Live /\ r \notin S
      BY <1>5
    <3>2. running # <<>> /\ running[1] = r
      BY <1>1, <3>1 DEF Blocks
    <3> QED BY <1>4, <3>1, <3>2
  <2> QED BY <1>1, <2>1, <2>2 DEF Blocks
<1>14. Mirror' /\ NoFault'
  BY <1>1, <1>5 DEF Mirror, MirrorAgrees, NoFault, StepsRemain
<1>15. Forgotten'
  BY <1>1, <1>2 DEF Forgotten
<1> QED BY <1>7, <1>8, <1>9, <1>11, <1>12, <1>13, <1>14, <1>15 DEF IInv

(* Finishing requests from outside keeps the invariant. *)
LEMMA FinishRequestsIInv ==
  ASSUME IInv, NEW S \in SUBSET Reqs, FinishRequests(S)
  PROVE  IInv'
<1>1. /\ Types /\ Accounts /\ Rooms /\ Canvases
      /\ emitted \in [Reqs -> Nat] /\ reserved \in [Reqs -> Nat] /\ stale \in [Reqs -> Nat]
  BY CountsTyped DEF IInv
<1>2. /\ S \in SUBSET Live /\ EndRequests(S, emitted, reserved, stale)
      /\ launch' = launch /\ inflight' = inflight /\ owner' = owner /\ session' = session
      /\ fault' = fault
  BY DEF FinishRequests
<1>3. \A r \in Reqs : Flying(r)' = Flying(r) /\ OwedAll(r)' = OwedAll(r)
  BY <1>2, SharesKept
<1>4. Settled(S, emitted, reserved, stale)
  BY <1>1, <1>3 DEF Accounts, Settled
<1>5. Roomy(S, emitted)
  BY <1>1 DEF Rooms, Canvases, Roomy
<1>6. StepsRemain
  BY <1>1, <1>2 DEF Types, StepsRemain
<1> QED BY <1>1, <1>2, <1>4, <1>5, <1>6, EndedIInv

(* A request of the oldest step: it is running or preempted, and a block of it
   is neither late nor of another width than was reserved. *)
LEMMA HeadIs ==
  ASSUME IInv, inflight # <<>>, NEW r \in Head(inflight).rows \cap Live
  PROVE  /\ r \in Reqs /\ status[r] \in {"running", "preempted"}
         /\ Head(inflight).width[r] = Reconciled(r) /\ Reconciled(r) \in {1, Width}
         /\ launch = Plain => Reconciled(r) = Width
         /\ CommitFault(r) = "none"
         /\ status[r] = "preempted" => stale[r] > 0
<1>1. /\ Types /\ Queue /\ Accounts /\ Blocks /\ r \in Reqs /\ status[r] # "idle"
      /\ status \in [Reqs -> Statuses] /\ Width \in Nat \ {0, 1}
      /\ stale[r] \in Nat /\ reserved[r] \in Nat
  BY CountsTyped, LaunchAssumption DEF IInv, Types, Live
<1>2. 1 \in DOMAIN inflight /\ Head(inflight) = inflight[1]
  <2>1. inflight' = Tail(inflight) => 1 \in DOMAIN inflight /\ Head(inflight) = inflight[1]
    BY <1>1, StepCommitted
  <2>2. inflight \in Seq(Steps) /\ Len(inflight) # 0 /\ DOMAIN inflight = 1 .. Len(inflight)
    BY <1>1 DEF Types
  <2> QED BY <2>2
<1>3. Owed(r, 1) = inflight[1].width[r] /\ r \in inflight[1].rows
  BY <1>2 DEF Owed
<1>4. Flying(r) > 0 /\ Owed(r, 2) \in Nat
  <2>1. Flying(r) \in Nat /\ Flying(r) # 0
    BY <1>1, <1>2, <1>3, FlyingIs
  <2>2. Owed(r, 2) \in Nat
    BY <1>1, Shares
  <2> QED BY <2>1, <2>2
<1>5. status[r] \in {"running", "preempted"}
  BY <1>1, <1>4 DEF Accounts, Statuses
<1>6. inflight[1].width[r] = IF r \in inflight[1].block THEN Width ELSE 1
  BY <1>1, <1>2, <1>3 DEF Blocks
<1>7. Head(inflight).width[r] = Reconciled(r) /\ Reconciled(r) \in {1, Width}
  BY <1>2, <1>6 DEF Reconciled, CommittedAsBlock
<1>8. launch = Plain => Reconciled(r) = Width
  BY <1>1, <1>2, <1>3 DEF Reconciled, CommittedAsBlock, Blocks
<1>9. status[r] = "preempted" => stale[r] > 0
  BY <1>1, <1>4 DEF Accounts
<1>10. CASE r \notin inflight[1].block
  <2>1. ~CommittedAsBlock(r) /\ Head(inflight).width[r] = 1
    BY <1>2, <1>6, <1>10 DEF CommittedAsBlock
  <2> QED BY <1>1, <1>5, <1>7, <1>8, <1>9, <2>1 DEF CommitFault
<1>11. CASE r \in inflight[1].block
  <2>1. CommittedAsBlock(r) /\ Head(inflight).width[r] = Width
    BY <1>2, <1>6, <1>11 DEF CommittedAsBlock
  <2>2. running # <<>> /\ running[1] = r
    BY <1>1, <1>2, <1>11 DEF Blocks
  <2>3. r \in Running
    <3>1. running \in Seq(Reqs)
      BY <1>1 DEF Types
    <3>2. 1 \in DOMAIN running
      BY <2>2, <3>1
    <3> QED BY <2>2, <3>2 DEF Running, ToSet
  <2>4. stale[r] = 0 /\ reserved[r] = Owed(r, 1) + Owed(r, 2)
    BY <1>1, <2>3 DEF Queue, Accounts, OwedAll
  <2>5. reserved[r] >= Width
    BY <1>1, <1>2, <1>3, <1>4, <2>1, <2>4
  <2>6. CommitFault(r) = "none"
    BY <1>1, <2>1, <2>4, <2>5 DEF CommitFault
  <2> QED BY <1>1, <1>5, <1>7, <1>8, <1>9, <2>6
<1> QED BY <1>10, <1>11

(* Tokens are appended until a stop: one at least, and all that came unless the
   request is done. *)
LEMMA AppendedIs ==
  ASSUME IInv, inflight # <<>>, NEW r \in Head(inflight).rows \cap Live
  PROVE  LET now == emitted[r] + Appended(r) IN
         /\ Appended(r) \in Nat
         /\ Appended(r) = Reconciled(r) \/ now >= limit[r] \/ prompt[r] + now >= MaxModelLen
<1>1. /\ Rooms /\ r \in Live /\ Head(inflight).width[r] = Reconciled(r)
      /\ Reconciled(r) \in Nat \ {0} /\ r \in Reqs
  BY HeadIs, LaunchAssumption DEF IInv
<1>2. /\ prompt[r] \in Nat /\ emitted[r] \in Nat /\ limit[r] \in Nat /\ MaxModelLen \in Nat
      /\ prompt[r] + emitted[r] < MaxModelLen
  BY <1>1, CountsTyped, LaunchAssumption DEF IInv, Rooms
<1> DEFINE rest == Max({1, limit[r] - emitted[r]})
           room == MaxModelLen - prompt[r] - emitted[r]
<1>3. rest \in Int /\ rest >= 1 /\ rest >= limit[r] - emitted[r]
  <2>1. Max({1, limit[r] - emitted[r]}) =
          IF 1 >= limit[r] - emitted[r] THEN 1 ELSE limit[r] - emitted[r]
    BY <1>2, MaxOfTwo
  <2> QED BY <1>2, <2>1
<1>4. room \in Int /\ room >= 1
  BY <1>2
<1>5. Appended(r) = Min({Reconciled(r), rest, room})
  BY <1>1 DEF Appended
<1> HIDE DEF rest
<1>6. Appended(r) \in {Reconciled(r), rest, room}
  <2> DEFINE w == Reconciled(r)
  <2>1. w \in Int
    BY <1>1
  <2> HIDE DEF w, room
  <2>2. Min({w, rest, room}) \in {w, rest, room}
    BY <1>3, <1>4, <2>1, MinOfThree, Zenon
  <2> QED BY <1>5, <2>2, Zenon DEF w
<1>7. CASE Appended(r) = Reconciled(r)
  BY <1>1, <1>7
<1>8. CASE Appended(r) = rest
  BY <1>2, <1>3, <1>8
<1>9. CASE Appended(r) = room
  BY <1>2, <1>4, <1>9
<1> QED BY <1>6, <1>7, <1>8, <1>9

(* Taking the oldest result keeps the invariant. *)
LEMMA CommitIInv ==
  ASSUME IInv, NEW eos \in SUBSET Reqs, Commit(eos)
  PROVE  IInv'
<1> DEFINE rows == Head(inflight).rows \cap Live
           now  == [r \in Reqs |-> IF r \in rows THEN emitted[r] + Appended(r) ELSE emitted[r]]
           owed == [r \in Reqs |-> IF r \in rows /\ stale[r] = 0
                                   THEN reserved[r] - Reconciled(r) ELSE reserved[r]]
           late == [r \in Reqs |-> IF r \in rows /\ stale[r] > 0 THEN stale[r] - 1 ELSE stale[r]]
           done == eos \cup {r \in rows : now[r] >= limit[r] \/ prompt[r] + now[r] >= MaxModelLen}
<1>1. /\ Types /\ Queue /\ Accounts /\ Rooms /\ Canvases /\ Blocks
      /\ status \in [Reqs -> Statuses]
      /\ prompt \in [Reqs -> Nat] /\ limit \in [Reqs -> Nat] /\ emitted \in [Reqs -> Nat]
      /\ computed \in [Reqs -> Nat] /\ reserved \in [Reqs -> Nat] /\ stale \in [Reqs -> Nat]
      /\ Width \in Nat \ {0, 1} /\ MaxModelLen \in Nat
  BY CountsTyped, LaunchAssumption DEF IInv, Types
<1>2. inflight # <<>> /\ eos \subseteq rows /\ launch' = launch /\ owner' = owner /\ session' = session
  BY DEF Commit
<1>3. \A r \in rows : /\ r \in Reqs /\ r \in Live /\ status[r] \in {"running", "preempted"}
                      /\ Head(inflight).width[r] = Reconciled(r) /\ Reconciled(r) \in {1, Width}
                      /\ launch = Plain => Reconciled(r) = Width
                      /\ CommitFault(r) = "none"
                      /\ status[r] = "preempted" => stale[r] > 0
  BY <1>2, HeadIs
<1>4. EndRequests(done, now, owed, late) /\ inflight' = Tail(inflight) /\ fault' = fault
  <2>1. {r \in rows : CommitFault(r) # "none"} = {}
    BY <1>3
  <2> QED BY <2>1 DEF Commit
<1>5. \A r \in rows : /\ Appended(r) \in Nat
                      /\ Appended(r) = Reconciled(r) \/ emitted[r] + Appended(r) >= limit[r]
                         \/ prompt[r] + (emitted[r] + Appended(r)) >= MaxModelLen
  BY <1>2, AppendedIs
<1>6. \A r \in Reqs : /\ Flying(r) = Flying(r)' + IF r \in Head(inflight).rows THEN 1 ELSE 0
                      /\ OwedAll(r) = OwedAll(r)' + IF r \in Head(inflight).rows
                                                    THEN Head(inflight).width[r] ELSE 0
                      /\ Flying(r)' \in Nat /\ OwedAll(r)' \in Nat
  BY <1>1, <1>2, <1>4, SharesCommitted
<1>7. \A r \in Reqs : r \in Head(inflight).rows /\ status[r] # "idle" => r \in rows
  BY DEF Live
<1>8. \A r \in rows : now[r] = emitted[r] + Appended(r)
  BY <1>3
<1>9. \A r \in Reqs \ rows : now[r] = emitted[r] /\ owed[r] = reserved[r] /\ late[r] = stale[r]
  OBVIOUS
<1>10. \A r \in rows : /\ stale[r] = 0 => owed[r] = reserved[r] - Reconciled(r) /\ late[r] = 0
                       /\ stale[r] > 0 => owed[r] = reserved[r] /\ late[r] = stale[r] - 1
  BY <1>1, <1>3
<1>11. \A r \in rows \ done : /\ Appended(r) = Reconciled(r)
                              /\ now[r] < limit[r] /\ prompt[r] + now[r] < MaxModelLen
  <2> SUFFICES ASSUME NEW r \in rows, r \notin done
               PROVE  /\ Appended(r) = Reconciled(r)
                      /\ now[r] < limit[r] /\ prompt[r] + now[r] < MaxModelLen
    OBVIOUS
  <2>1. ~(now[r] >= limit[r]) /\ ~(prompt[r] + now[r] >= MaxModelLen)
    OBVIOUS
  <2>2. now[r] = emitted[r] + Appended(r)
    BY <1>8
  <2> HIDE DEF now, done, rows
  <2> QED BY <1>1, <1>3, <1>5, <2>1, <2>2
<1>12. done \in SUBSET Live
  BY <1>2
<1>13. now \in [Reqs -> Nat] /\ late \in [Reqs -> Nat]
  <2>1. \A r \in Reqs : now[r] \in Nat /\ late[r] \in Nat
    <3> SUFFICES ASSUME NEW r \in Reqs PROVE now[r] \in Nat /\ late[r] \in Nat
      OBVIOUS
    <3>1. emitted[r] \in Nat /\ stale[r] \in Nat
      BY <1>1
    <3>2. now[r] \in Nat
      <4>1. r \in rows => Appended(r) \in Nat
        BY <1>5
      <4> HIDE DEF rows
      <4> QED BY <3>1, <4>1
    <3>3. late[r] \in Nat
      <4> HIDE DEF rows
      <4> QED BY <3>1
    <3> QED BY <3>2, <3>3
  <2>2. now = [r \in Reqs |-> now[r]] /\ late = [r \in Reqs |-> late[r]]
    OBVIOUS
  <2> HIDE DEF now, late
  <2> QED BY <2>1, <2>2
<1>14. owed = [r \in Reqs |-> owed[r]]
  OBVIOUS
<1> HIDE DEF now, owed, late, done, rows
<1>15. \A r \in Reqs : status[r] = "running" => stale[r] = 0 /\ reserved[r] = OwedAll(r)
  BY <1>1 DEF Accounts
(* What is left of a running request's placeholders is what it is still owed. *)
<1>16. \A r \in Reqs : status[r] = "running" => owed[r] = OwedAll(r)' /\ late[r] = 0
  <2> SUFFICES ASSUME NEW r \in Reqs, status[r] = "running"
               PROVE  owed[r] = OwedAll(r)' /\ late[r] = 0
    OBVIOUS
  <2>1. stale[r] = 0 /\ reserved[r] = OwedAll(r)
    BY <1>15
  <2>2. OwedAll(r)' \in Nat
    BY <1>6
  <2>3. CASE r \in rows
    <3>1. /\ OwedAll(r) = OwedAll(r)' + Reconciled(r) /\ Reconciled(r) \in Nat
          /\ owed[r] = reserved[r] - Reconciled(r) /\ late[r] = 0
      BY <1>1, <1>3, <1>6, <1>10, <2>1, <2>3 DEF rows
    <3> QED BY <2>1, <2>2, <3>1
  <2>4. CASE r \notin rows
    <3>1. OwedAll(r) = OwedAll(r)' + 0
      BY <1>6, <1>7, <2>4
    <3> QED BY <1>9, <2>1, <2>2, <2>4, <3>1
  <2> QED BY <2>3, <2>4
<1>17. \A r \in Reqs : status[r] # "running" => owed[r] = reserved[r]
  <2> SUFFICES ASSUME NEW r \in Reqs, status[r] # "running" PROVE owed[r] = reserved[r]
    OBVIOUS
  <2> QED BY <1>3, <1>9, <1>10
<1>18. owed \in [Reqs -> Nat]
  <2>1. \A r \in Reqs : owed[r] \in Nat
    BY <1>1, <1>6, <1>16, <1>17
  <2> QED BY <1>14, <2>1
<1>19. Settled(done, now, owed, late)
  <2> SUFFICES ASSUME NEW r \in Reqs, r \notin done
               PROVE  /\ status[r] = "idle" => now[r] = 0 /\ owed[r] = 0 /\ late[r] = 0
                      /\ status[r] = "waiting" =>
                           now[r] = 0 /\ owed[r] = 0 /\ late[r] = 0 /\ Flying(r)' = 0
                      /\ status[r] = "preempted" => owed[r] = 0 /\ late[r] = Flying(r)'
                      /\ status[r] = "running" =>
                           late[r] = 0 /\ owed[r] = OwedAll(r)'
                           /\ computed[r] < prompt[r] + now[r] + owed[r]
    BY DEF Settled
  <2>1. /\ emitted[r] \in Nat /\ prompt[r] \in Nat /\ computed[r] \in Nat /\ stale[r] \in Nat
        /\ Flying(r)' \in Nat /\ OwedAll(r)' \in Nat /\ reserved[r] \in Nat
    BY <1>1, <1>6
  <2>2. CASE status[r] \in {"idle", "waiting"}
    <3>1. r \notin rows
      BY <1>3, <2>2
    <3>2. /\ emitted[r] = 0 /\ reserved[r] = 0 /\ stale[r] = 0
          /\ status[r] = "waiting" => Flying(r) = 0
      BY <1>1, <2>2 DEF Accounts
    <3>3. status[r] = "waiting" => Flying(r)' = 0
      BY <1>6, <1>7, <2>1, <3>1, <3>2
    <3> QED BY <1>9, <2>2, <3>1, <3>2, <3>3
  <2>3. CASE status[r] = "preempted"
    <3>1. reserved[r] = 0 /\ stale[r] = Flying(r)
      BY <1>1, <2>3 DEF Accounts
    <3>2. CASE r \in rows
      <4>1. stale[r] > 0 /\ Flying(r) = Flying(r)' + 1
        BY <1>3, <1>6, <2>3, <3>2 DEF rows
      <4> QED BY <1>10, <2>1, <2>3, <3>1, <3>2, <4>1
    <3>3. CASE r \notin rows
      <4>1. Flying(r) = Flying(r)' + 0
        BY <1>6, <1>7, <2>3, <3>3
      <4> QED BY <1>9, <2>1, <2>3, <3>1, <3>3, <4>1
    <3> QED BY <3>2, <3>3
  <2>4. CASE status[r] = "running"
    <3>1. computed[r] < prompt[r] + emitted[r] + reserved[r]
      BY <1>1, <2>4 DEF Accounts
    <3>2. late[r] = 0 /\ owed[r] = OwedAll(r)'
      BY <1>16, <2>4
    <3>3. CASE r \in rows
      <4>1. /\ now[r] = emitted[r] + Reconciled(r) /\ owed[r] = reserved[r] - Reconciled(r)
            /\ Reconciled(r) \in Nat
        BY <1>1, <1>3, <1>8, <1>10, <1>11, <1>15, <2>4, <3>3
      <4> QED BY <2>1, <2>4, <3>1, <3>2, <4>1
    <3>4. CASE r \notin rows
      BY <1>9, <2>4, <3>1, <3>2, <3>4
    <3> QED BY <3>3, <3>4
  <2> QED BY <1>1, <2>2, <2>3, <2>4 DEF Statuses
<1>20. Roomy(done, now)
  <2> SUFFICES ASSUME NEW r \in Live, r \notin done
               PROVE  /\ prompt[r] + now[r] < MaxModelLen
                      /\ launch = Plain => \E k \in Nat : now[r] = k * Width
                                                          /\ now[r] + Width <= Physical(limit[r])
    BY DEF Roomy
  <2>1. r \in Reqs
    BY DEF Live
  <2>2. CASE r \in rows
    <3>1. /\ now[r] = emitted[r] + Appended(r) /\ Appended(r) = Reconciled(r)
          /\ now[r] < limit[r] /\ prompt[r] + now[r] < MaxModelLen
      BY <1>8, <1>11, <2>2
    <3>2. ASSUME launch = Plain
          PROVE  \E k \in Nat : now[r] = k * Width /\ now[r] + Width <= Physical(limit[r])
      <4>1. PICK k \in Nat : emitted[r] = k * Width
        BY <1>1, <3>2 DEF Canvases
      <4>2. now[r] = k * Width + Width
        BY <1>3, <2>2, <3>1, <3>2, <4>1
      <4>3. (k + 1) * Width = k * Width + Width
        BY <1>1, SMTT(30)
      <4>4. k + 1 \in Nat /\ now[r] = (k + 1) * Width /\ limit[r] \in Nat
        BY <1>1, <2>1, <4>2, <4>3
      <4>5. (k + 1) * Width + Width <= Physical(limit[r])
        BY <3>1, <4>4, NextCanvas
      <4> QED BY <4>4, <4>5
    <3> QED BY <3>1, <3>2
  <2>3. CASE r \notin rows
    <3>1. now[r] = emitted[r]
      BY <1>9, <2>1, <2>3
    <3> QED BY <1>1, <3>1 DEF Rooms, Canvases
  <2> QED BY <2>2, <2>3
<1>21. StepsRemain
  <2>1. /\ 1 \in DOMAIN inflight
        /\ inflight' \in Seq(Steps) /\ Len(inflight') <= Depth
        /\ \A i \in DOMAIN inflight' : i + 1 \in DOMAIN inflight /\ inflight'[i] = inflight[i + 1]
        /\ inflight' # <<>> => inflight'[Len(inflight')] = inflight[Len(inflight)]
    BY <1>1, <1>2, <1>4, StepCommitted
  <2> QED BY <1>2, <2>1 DEF StepsRemain
<1> QED BY <1>2, <1>4, <1>12, <1>13, <1>18, <1>19, <1>20, <1>21, EndedIInv

-----------------------------------------------------------------------------
(* The theorems. *)

(* Every step keeps the invariant. *)
LEMMA StepIInv ==
  ASSUME IInv, [Next]_vars
  PROVE  IInv'
<1>1. ASSUME NEW r \in Reqs, NEW p \in RawPrompts, NEW m \in RawLimits, AddRequest(r, p, m)
      PROVE  IInv'
  BY <1>1, AddRequestIInv
<1>2. ASSUME NEW adm \in SUBSET Reqs, SchedulePrefill(adm) PROVE IInv'
  BY <1>2, SchedulePrefillIInv
<1>3. ASSUME NEW kept \in 0 .. Len(running), ScheduleDecode(kept) PROVE IInv'
  BY <1>3, ScheduleDecodeIInv
<1>4. ASSUME NEW eos \in SUBSET Reqs, Commit(eos) PROVE IInv'
  BY <1>4, CommitIInv
<1>5. ASSUME NEW S \in SUBSET Reqs, FinishRequests(S) PROVE IInv'
  BY <1>5, FinishRequestsIInv
<1>6. CASE UNCHANGED vars
  <2>1. /\ launch' = launch /\ status' = status /\ running' = running /\ inflight' = inflight
        /\ prompt' = prompt /\ limit' = limit /\ emitted' = emitted /\ computed' = computed
        /\ reserved' = reserved /\ stale' = stale
        /\ owner' = owner /\ session' = session /\ gone' = gone /\ fault' = fault
    BY <1>6 DEF vars, requestVars, counts, sessionVars
  <2>2. Types /\ Queue /\ Accounts /\ Forgotten /\ Rooms /\ Canvases /\ Blocks /\ Mirror /\ NoFault
    BY DEF IInv
  <2>3. Depth' = Depth /\ RunCap' = RunCap /\ Live' = Live /\ Running' = Running
    BY <2>1, LaunchKept DEF Live, Running
  <2>4. Types' /\ Queue' /\ NoFault'
    BY <2>1, <2>2, <2>3 DEF Types, Queue, NoFault, Counts
  <2>5. Accounts'
    <3>1. \A r \in Reqs : Flying(r)' = Flying(r) /\ OwedAll(r)' = OwedAll(r)
      BY <2>1, SharesKept
    <3> QED BY <2>1, <2>2, <3>1 DEF Accounts
  <2>6. Forgotten' /\ Rooms' /\ Canvases'
    BY <2>1, <2>2, <2>3 DEF Forgotten, Rooms, Canvases, Remaining, Physical, RoundUp, RoundDown
  <2>7. Blocks' /\ Mirror'
    BY <2>1, <2>2, <2>3 DEF Blocks, Mirror, MirrorAgrees
  <2> QED BY <2>4, <2>5, <2>6, <2>7 DEF IInv
<1> QED BY <1>1, <1>2, <1>3, <1>4, <1>5, <1>6 DEF Next

(* The invariant holds in every reachable state. *)
LEMMA Inductive == Spec => []IInv
BY InitIInv, StepIInv, PTL DEF Spec

(* Every variable keeps its type, the counts their bounds. *)
THEOREM TypeCorrect == Spec => []TypeOK
<1>1. ASSUME IInv PROVE TypeOK
  <2>1. /\ Types /\ Queue /\ Accounts /\ Forgotten /\ Rooms /\ Blocks /\ NoFault
        /\ prompt \in [Reqs -> Nat] /\ limit \in [Reqs -> Nat] /\ emitted \in [Reqs -> Nat]
        /\ computed \in [Reqs -> Nat] /\ reserved \in [Reqs -> Nat] /\ stale \in [Reqs -> Nat]
        /\ status \in [Reqs -> Statuses] /\ MaxModelLen \in Nat /\ Width \in Nat
    BY <1>1, CountsTyped, LaunchAssumption DEF IInv, Types
  <2>2. ASSUME NEW r \in Reqs
        PROVE  /\ prompt[r] \in Positions /\ limit[r] \in Positions /\ emitted[r] \in Positions
               /\ computed[r] \in Positions /\ reserved[r] \in Positions
               /\ stale[r] \in 0 .. Depth
    <3>1. /\ prompt[r] \in Nat /\ limit[r] \in Nat /\ emitted[r] \in Nat
          /\ computed[r] \in Nat /\ reserved[r] \in Nat /\ stale[r] \in Nat
          /\ status[r] \in {"idle", "waiting", "running", "preempted"}
      BY <2>1 DEF Statuses
    <3>2. OwedAll(r) <= 2 * Width /\ OwedAll(r) \in Nat /\ Flying(r) <= Depth /\ Depth \in Nat
      <4>1. /\ Owed(r, 1) \in {0, 1, Width} /\ Owed(r, 2) \in {0, 1, Width}
            /\ In(r, 1) \in {0, 1} /\ In(r, 2) \in {0, 1} /\ Width \in Nat \ {0, 1}
        BY <2>1, Shares
      <4>2. OwedAll(r) <= 2 * Width /\ OwedAll(r) \in Nat
        BY <4>1 DEF OwedAll
      <4>3. Depth \in {1, 2} /\ Len(inflight) <= Depth /\ DOMAIN inflight = 1 .. Len(inflight)
        BY <2>1, LaunchIs, StepsAre DEF Types
      <4>4. Depth = 1 => 2 \notin DOMAIN inflight
        BY <4>3
      <4>5. Depth = 1 => In(r, 2) = 0
        BY <4>4 DEF In
      <4>6. Flying(r) <= Depth
        BY <4>1, <4>3, <4>5 DEF Flying
      <4> QED BY <4>2, <4>3, <4>6
    <3>3. /\ reserved[r] <= 2 * Width /\ stale[r] <= Depth
          /\ computed[r] < MaxModelLen \/ computed[r] = 0
      BY <2>1, <3>1, <3>2 DEF Accounts
    <3>4. prompt[r] <= MaxModelLen /\ emitted[r] <= MaxModelLen /\ limit[r] <= MaxModelLen
      <4>1. CASE status[r] = "idle"
        BY <2>1, <4>1 DEF Accounts, Forgotten
      <4>2. CASE status[r] # "idle"
        <5>1. /\ prompt[r] + emitted[r] < MaxModelLen
              /\ Physical(limit[r]) <= Remaining(prompt[r])
          BY <2>1, <4>2 DEF Rooms, Live
        <5>2. limit[r] <= Physical(limit[r]) /\ Physical(limit[r]) \in Nat
          BY <3>1, PhysicalHolds
        <5>3. /\ RoundUp(prompt[r]) \in Nat /\ RoundDown(MaxModelLen) \in Nat
              /\ RoundDown(MaxModelLen) <= MaxModelLen
          BY <2>1, <3>1, UpIs, DownIs
        <5>4. Remaining(prompt[r]) = RoundDown(MaxModelLen) - RoundUp(prompt[r])
          BY DEF Remaining
        <5> QED BY <2>1, <3>1, <5>1, <5>2, <5>3, <5>4
      <4> QED BY <4>1, <4>2
    <3> QED BY <2>1, <3>1, <3>2, <3>3, <3>4 DEF Positions
  <2>3. /\ {prompt, limit, emitted, computed, reserved} \subseteq [Reqs -> Positions]
        /\ stale \in [Reqs -> 0 .. Depth]
    <3> HIDE DEF Positions
    <3> QED BY <2>1, <2>2
  <2>4. fault \in Faults \cup {"none"}
    BY <2>1 DEF NoFault
  <2> QED BY <2>1, <2>3, <2>4 DEF TypeOK, Types, Queue
<1> QED BY <1>1, Inductive, PTL

(* The engine never dies committing a step or clamping a request, whatever was
   scheduled, preempted and ended in between. *)
THEOREM NeverDies == Spec => []NoFault
<1>1. IInv => NoFault
  BY DEF IInv
<1> QED BY <1>1, Inductive, PTL

(* The placeholders of a running request are the tokens the model owes it for
   the steps in flight. *)
THEOREM PlaceholdersAreOwed == Spec => []ReservedIsOwed
<1>1. IInv => ReservedIsOwed
  BY DEF IInv, Queue, Accounts, OwedAll, ReservedIsOwed
<1> QED BY <1>1, Inductive, PTL

(* For a running request the scheduler's mirror and the model agree on who owns
   the session. *)
THEOREM MirrorsAgree == Spec => []MirrorAgrees
<1>1. IInv => MirrorAgrees
  BY DEF IInv, Mirror
<1> QED BY <1>1, Inductive, PTL

(* The canvas that a step in flight fills lies within the model's length. *)
THEOREM CanvasesFit == Spec => []CanvasFits
<1>1. ASSUME IInv PROVE CanvasFits
  <2> SUFFICES ASSUME launch = Plain, NEW i \in DOMAIN inflight,
                      NEW r \in inflight[i].rows \cap Live
               PROVE  RoundUp(prompt[r]) + emitted[r] + Width <= RoundDown(MaxModelLen)
    BY DEF CanvasFits
  <2>1. r \in Live /\ r \in Reqs /\ prompt[r] \in Nat /\ emitted[r] \in Nat /\ limit[r] \in Nat
        /\ Width \in Nat /\ MaxModelLen \in Nat
    BY <1>1, CountsTyped, LaunchAssumption DEF IInv, Live
  <2>2. emitted[r] + Width <= Physical(limit[r]) /\ Physical(limit[r]) <= Remaining(prompt[r])
        /\ Physical(limit[r]) \in Nat
    BY <1>1, <2>1, PhysicalHolds DEF IInv, Canvases, Rooms
  <2>3. RoundUp(prompt[r]) \in Nat /\ RoundDown(MaxModelLen) \in Nat
    BY <2>1, UpIs, DownIs
  <2>4. Remaining(prompt[r]) = RoundDown(MaxModelLen) - RoundUp(prompt[r])
    BY DEF Remaining
  <2> QED BY <2>1, <2>2, <2>3, <2>4
<1> QED BY <1>1, Inductive, PTL

================================================================================
