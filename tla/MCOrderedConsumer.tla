-------------------------- MODULE MCOrderedConsumer --------------------------
(* Instances of OrderedConsumer for TLC. *)
EXTENDS OrderedConsumer, TLC

Symmetry == Permutations(Leases)

Setting(retention, start) ==
    [maxItems |-> 2, timed |-> FALSE, duplicates |-> "drop",
     retention |-> retention, start |-> start]

\* Coalescing by time alone.
Timed == [Setting("error", "all") EXCEPT !.maxItems = 0, !.timed = TRUE]

\* Two leases over one checkpoint: coalescing by count, each policy for
\* retention gaps and each start without a checkpoint; and coalescing by time,
\* on a shorter stream with a message that comes again.
ResumeBounds ==
    Timed :> [messages |-> 2, redeliveries |-> 1] @@
    [o \in {Setting("error", "all"), Setting("continue", "all"), Setting("error", "new")}
        |-> [messages |-> 3, redeliveries |-> 0]]

ResumeOptions == DOMAIN ResumeBounds
=============================================================================
