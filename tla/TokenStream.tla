----------------------------- MODULE TokenStream -----------------------------
(***************************************************************************)
(* What decoding promises a client, whatever is in flight below: the       *)
(* tokens delivered for a request are the model's continuation of what was *)
(* delivered before, none is lost, repeated or taken from elsewhere, and   *)
(* nothing follows the one that finished the request.  The token that      *)
(* continues a history of k tokens is written k + 1; any other value       *)
(* stands for a token computed from the wrong inputs.                      *)
(***************************************************************************)
EXTENDS Naturals, Sequences

CONSTANTS Reqs, MaxTokens

VARIABLES hist, finished

Continuation(k) == [i \in 1 .. k |-> i]

Init ==
  /\ hist = [r \in Reqs |-> <<>>]
  /\ finished = {}

(* Some requests move on, some finish. *)
Deliver ==
  /\ finished \subseteq finished'
  /\ hist' \in [Reqs -> {Continuation(k) : k \in 0 .. MaxTokens}]
  /\ \A r \in Reqs :
       /\ Len(hist[r]) <= Len(hist'[r])
       /\ r \in finished => hist'[r] = hist[r]

Spec == Init /\ [][Deliver]_<<hist, finished>>

=============================================================================
