---------------------------- MODULE MCFrontPacked ----------------------------
(* FrontPackedRunner on small instances: the requests are interchangeable. *)
EXTENDS FrontPackedRunner, TLC

ReqSymmetry == Permutations(Reqs)

=============================================================================
