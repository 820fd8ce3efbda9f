---------------------------- MODULE MCEventStream ----------------------------
(***************************************************************************)
(* One lease under an application's own handler, under an Effect stream    *)
(* that suspends it, and under the materializer on a stream that fails on  *)
(* overflow; the queue is the smallest there is.                           *)
(***************************************************************************)
EXTENDS EventStream

Setting(maxItems, timed, duplicates, retention) ==
    [maxItems |-> maxItems, timed |-> timed,
     duplicates |-> duplicates, retention |-> retention, start |-> "all"]

\* Every save waited for, coalescing by count and time, and a deployment that
\* tolerates duplicates and retention gaps.
ProgressOptions ==
    {Setting(0, FALSE, "error", "error"), Setting(2, TRUE, "drop", "error"),
     Setting(0, TRUE, "deliver", "continue")}

ProgressBounds == [o \in ProgressOptions |-> [messages |-> 2, redeliveries |-> 1]]

Stream(kind, capacity, overflow, batchSize) ==
    [kind |-> kind, capacity |-> capacity, overflow |-> overflow,
     batchSize |-> batchSize, maxBytes |-> 1000]

AllAdapters == {Stream("plain", 1, "suspend", 1), Stream("events", 1, "suspend", 1),
                Stream("materialize", 1, "error", 3)}

\* The instance has the one lease that the code has.
ASSUME MCAssumption == OneLease
=============================================================================
