----------------------------- MODULE Subsequences -----------------------------
(* Subsequences by position: SelectSeq with its test as a set of positions, a
   form theorems can be stated about. *)
EXTENDS Integers, Sequences

Grown(q, x, taken) == IF taken THEN Append(q, x) ELSE q

(* The elements of s at the positions K, in their order. *)
Picked(s, K) ==
  LET picked[i \in 0 .. Len(s)] ==
        IF i = 0 THEN <<>> ELSE Grown(picked[i - 1], s[i], i \in K)
  IN  picked[Len(s)]

(* The elements of s that are in R. *)
Within(s, R) == Picked(s, {i \in DOMAIN s : s[i] \in R})

=============================================================================
