--------------------------- MODULE MCSessionEvents ---------------------------
(* Instances of SessionEvents for TLC. *)
EXTENDS SessionEvents

Symmetry == Permutations(Sessions) \cup Permutations(Handles)

Instance(holders, restarted, grace) ==
    [handles |-> holders, restarts |-> restarted, grace |-> grace]

\* A session that closes beside its successor, and one that is restarted.
MCBounds == {Instance(2, 0, TRUE), Instance(1, 1, FALSE)}
=============================================================================
