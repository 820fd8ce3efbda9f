----------------------------- MODULE MCProjection -----------------------------
(***************************************************************************)
(* Instances of StateViews: policies in which a batch is filled by count,  *)
(* by bytes or only by its timer, and each adapter with and without        *)
(* coalescing.                                                             *)
(***************************************************************************)
EXTENDS StateViews

MCSizes == 1 :> 1 @@ 2 :> 2 @@ 3 :> 1

Policy(items, bytes, liveBatchMs, attempts) ==
    [maxItems |-> items, maxBytes |-> bytes, liveBatchMs |-> liveBatchMs,
     maxAttempts |-> attempts]

View(kind, items, timer, capacity, overflow) ==
    [kind |-> kind, maxItems |-> items, timer |-> timer, capacity |-> capacity,
     overflow |-> overflow]

MCPolicies == {Policy(2, 0, 16, Unbounded), Policy(0, 2, 16, 2)}

MCViews == {View("rxjs", Unbounded, "wait", 1, "error"),
            View("react", 2, "frame", 1, "error"),
            View("effect", Unbounded, "wait", 2, "sliding")}
=============================================================================
