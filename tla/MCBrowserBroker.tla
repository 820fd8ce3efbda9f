--------------------------- MODULE MCBrowserBroker ---------------------------
(***************************************************************************)
(* Two tabs over one worker, of which the first may be connected again, so *)
(* that it meets a new worker or port while messages of the old one are    *)
(* under way; and that tab alone, with trouble after trouble, so that a    *)
(* new port can fail and be replaced in turn.                              *)
(***************************************************************************)
EXTENDS BrowserBroker, TLC

CONSTANTS t1, t2
Generations == (t1 :> 3) @@ (t2 :> 1)

MCInstances == {[tabs |-> {t1, t2}, troubles |-> 1], [tabs |-> {t1}, troubles |-> 2]}
=============================================================================
