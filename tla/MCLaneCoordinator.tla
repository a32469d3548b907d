------------------------- MODULE MCLaneCoordinator -------------------------
(* LaneCoordinator on small instances: the requests are interchangeable. *)
EXTENDS LaneCoordinator, TLC

ReqSymmetry == Permutations(Reqs)

=============================================================================
