---------------------------- MODULE MCNatsRuntime ----------------------------
(* Instances of NatsRuntime for TLC. *)
EXTENDS NatsRuntime

\* Restart after a permanent close with a retry policy, and, with status streams
\* that may fail, wait for the next caller.
RuntimeOptions ==
    {[maxAttempts |-> 2, restart |-> TRUE, brittle |-> FALSE],
     [maxAttempts |-> 1, restart |-> FALSE, brittle |-> TRUE]}

\* One attempt per series: a failed one leaves the rest to the next caller.
OneAttempt == {[maxAttempts |-> 1, restart |-> TRUE, brittle |-> FALSE]}
=============================================================================
