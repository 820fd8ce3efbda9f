---------------------------- MODULE MCProcessor ----------------------------
(***************************************************************************)
(* Small instances of Processor.  With outages a deployment allows one     *)
(* unacknowledged delivery at a time; with two there are deletions only.   *)
(* The consumer that a processor finds may be missing, current, drifted,   *)
(* partly delivered or somebody else's.                                    *)
(***************************************************************************)
EXTENDS Processor

\* An owned, recovering processor without a consumer on the server.
Fresh == [mode |-> "owned", start |-> New, drift |-> "unset",
          recovering |-> TRUE, confirmed |-> FALSE, maxAckPending |-> 1,
          outages |-> TRUE, found |-> NoConsumer, stored |-> 1]

\* The consumer that an earlier deployment left, with two messages stored.
Left == [policy |-> "new", start |-> 0, contract |-> "old", settings |-> "current",
         marked |-> TRUE, base |-> 0, acked |-> {1}, pending |-> {}]
Upon(found) == [Fresh EXCEPT !.found = found, !.stored = 2]

MCDeployments == {
    Fresh,
    [Fresh EXCEPT !.confirmed = TRUE],
    [Fresh EXCEPT !.maxAckPending = 2, !.outages = FALSE],
    [Fresh EXCEPT !.start = All, !.maxAckPending = 2, !.outages = FALSE, !.stored = 2],
    [Fresh EXCEPT !.start = After(1), !.drift = "update-editable", !.stored = 2],
    [Fresh EXCEPT !.recovering = FALSE, !.confirmed = TRUE],
    Upon(Left),
    Upon([Left EXCEPT !.acked = {}, !.pending = {1}]),
    Upon([Left EXCEPT !.acked = {}, !.base = 1]),
    Upon([Left EXCEPT !.marked = FALSE]),
    [Upon([Left EXCEPT !.policy = "all", !.pending = {2}]) EXCEPT !.start = All],
    [Upon([Left EXCEPT !.policy = "all", !.contract = "current", !.settings = "old"])
        EXCEPT !.mode = "ensure", !.start = All],
    [Upon([Left EXCEPT !.policy = "all", !.contract = "current"])
        EXCEPT !.mode = "bind", !.start = All] }

\* Two unacknowledged deliveries at a time, and outages.
WideWindow == {[Fresh EXCEPT !.start = All, !.maxAckPending = 2, !.stored = 2]}
=============================================================================
