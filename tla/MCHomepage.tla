----------------------------- MODULE MCHomepage -----------------------------
(* An instance of Homepage for TLC. *)
EXTENDS Homepage, TLC

=============================================================================
