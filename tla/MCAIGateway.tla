---------------------------- MODULE MCAIGateway ----------------------------
(* Instances of AIGateway for TLC. *)
EXTENDS AIGateway, TLC

Symmetry == Permutations(Caller)

=============================================================================
