----------------------------- MODULE MCBrokerHost -----------------------------
(***************************************************************************)
(* Two clients of one identity that share one source.  Their command       *)
(* chains are short, and one refresh is rejected: with a second rejection  *)
(* two clients can wait for each other's chains.                           *)
(***************************************************************************)
EXTENDS BrokerHost, TLC

Symmetry == Permutations(Clients)
=============================================================================
