--------------------------- MODULE ExclusiveSource ---------------------------
(***************************************************************************)
(* What a shared session promises to the server: at any time it occupies   *)
(* at most one upstream source, each source it opens is a new one, and a   *)
(* session that has been retired never occupies one again.                 *)
(***************************************************************************)
EXTENDS Naturals

CONSTANTS Sessions, Generations

VARIABLES
    held,     \* the upstream sources that each session occupies
    opened,   \* every source that the session has ever opened
    retired   \* sessions that are closed for good

sourceVars == <<held, opened, retired>>

Init ==
    /\ held = [s \in Sessions |-> {}]
    /\ opened = [s \in Sessions |-> {}]
    /\ retired = {}

Take(s, g) ==
    /\ s \notin retired
    /\ held[s] = {}
    /\ g \notin opened[s]
    /\ held' = [held EXCEPT ![s] = {g}]
    /\ opened' = [opened EXCEPT ![s] = @ \cup {g}]
    /\ UNCHANGED retired

Drop(s) ==
    /\ held[s] # {}
    /\ held' = [held EXCEPT ![s] = {}]
    /\ UNCHANGED <<opened, retired>>

Retire(s) ==
    /\ held[s] = {}
    /\ retired' = retired \cup {s}
    /\ UNCHANGED <<held, opened>>

Next == \E s \in Sessions : Drop(s) \/ Retire(s) \/ \E g \in Generations : Take(s, g)

Spec == Init /\ [][Next]_sourceVars
=============================================================================
