-------------------------- MODULE MCManagedRuntime --------------------------
(***************************************************************************)
(* A managed runtime with one subscription, one reader of its events, one  *)
(* processor hook and two processors run as programs, under a limit of two *)
(* consumers.                                                              *)
(***************************************************************************)
EXTENDS ManagedRuntime

MCLeases == Programs \cup Effects
=============================================================================
