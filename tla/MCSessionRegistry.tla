-------------------------- MODULE MCSessionRegistry --------------------------
(* The instance of SessionRegistry for TLC. *)
EXTENDS SessionRegistry
=============================================================================
