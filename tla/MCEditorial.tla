----------------------------- MODULE MCEditorial -----------------------------
(* Instances of Editorial for TLC. *)
EXTENDS Editorial, TLC

=============================================================================
