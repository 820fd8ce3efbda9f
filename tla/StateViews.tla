------------------------------ MODULE StateViews ------------------------------
(***************************************************************************)
(* The adapters that show the state of a reducing source to an             *)
(* application: observeNatsJetStreamState() of @natsail/rxjs,              *)
(* useNatsJetStreamReducer() of @natsail/react and jetStreamState() of     *)
(* @natsail/effect.  Each follows one session: SharedSession.update()      *)
(* calls its listener synchronously, with the session's new snapshot in    *)
(* place, so a step of the source that changes the session includes the    *)
(* listener's work.  Each coalesces live states its own way, and each      *)
(* shows a state that is not live, and the first live one, without delay.  *)
(***************************************************************************)
EXTENDS ReducingSource

(***************************************************************************)
(* maxItems is the count bound of the adapter's policy; timer says whether *)
(* it has a time bound ("wait"), an animation frame ("frame") or neither   *)
(* ("none"); capacity and overflow are the Effect queue's.                 *)
(***************************************************************************)
CONSTANT Views

\* resolveStreamOptions() of an Effect stream.
ValidQueue(v) == v.capacity \in Nat \ {0} /\ v.overflow \in {"error", "dropping", "sliding"}

ASSUME ViewsAssumption ==
    \A v \in Views : /\ v.kind \in {"rxjs", "react", "effect"}
                     /\ v.maxItems \in Nat \ {0}
                     /\ v.timer \in {"none", "wait", "frame"}
                     /\ ValidQueue(v)

VARIABLES
    adapter,   \* the view's options; never change
    view       \* what the adapter keeps, and what it has shown last

vars == <<sourceVars, adapter, view>>

ViewInit ==
    /\ adapter \in Views
    /\ view = [state |-> "idle", seen |-> 0, seenLive |-> FALSE, lastPhase |-> "none",
               held |-> NoSnapshot, count |-> 0, timer |-> FALSE, queue |-> <<>>,
               terminal |-> FALSE, shown |-> NoSnapshot]

Shows(v, snapshot) == [v EXCEPT !.shown = snapshot]
Over(v)            == [v EXCEPT !.state = "over", !.held = NoSnapshot, !.count = 0,
                                !.timer = FALSE, !.queue = <<>>]

-----------------------------------------------------------------------------
(***************************************************************************)
(* RxJS: createPolicyBuffer() holds the latest live state until its count  *)
(* or its timer is reached.                                                *)
(***************************************************************************)
Flushed(v) ==
    IF v.count = 0 THEN [v EXCEPT !.timer = FALSE]
    ELSE [Shows(v, v.held) EXCEPT !.held = NoSnapshot, !.count = 0, !.timer = FALSE]

NotFlushed(v) == v
FlushedFirst(v) == Flushed(v)

Buffered(v, snapshot) ==
    LET held == [v EXCEPT !.held = snapshot, !.count = @ + 1]
    IN  IF held.count >= adapter.maxItems THEN Flushed(held)
        ELSE [held EXCEPT !.timer = @ \/ adapter.timer # "none"]

RxjsNext(v, snapshot) ==
    IF snapshot.phase # "live"
    THEN [Shows(FlushedFirst(v), snapshot) EXCEPT !.seenLive = FALSE]
    ELSE IF ~v.seenLive THEN [Shows(v, snapshot) EXCEPT !.seenLive = TRUE]
    ELSE Buffered(v, snapshot)

\* observeNatsSessionValues(): a value is passed on once; an error drops what is
\* held, a normal end shows it.
RxjsNotified(v, s) ==
    LET next == IF s.valueRevision = v.seen THEN v
                ELSE [RxjsNext(v, s.value) EXCEPT !.seen = s.valueRevision]
    IN  IF s.phase = "error" THEN Over(next)
        ELSE IF s.phase = "closed" THEN Over(Flushed(next))
        ELSE next

-----------------------------------------------------------------------------
(***************************************************************************)
(* React: the listener asks useSyncExternalStore to read the snapshot that *)
(* is current then.  A frame does not reset the count, a timer does.       *)
(***************************************************************************)
StatePhase(snapshot) == snapshot.phase

PhaseTransition(v, phase) ==
    phase # "none" /\ (phase # "live" \/ (v.lastPhase # "none" /\ phase # v.lastPhase))

Rendered(v, s) == [Shows(v, s.value) EXCEPT !.count = 0, !.timer = FALSE]

ReactNotified(v, s) ==
    LET phase == StatePhase(s.value)
        next  == [v EXCEPT !.lastPhase = phase]
        more  == [next EXCEPT !.count = @ + 1]
    IN  IF PhaseTransition(v, phase) \/ more.count >= adapter.maxItems
        THEN Rendered(next, s)
        ELSE [more EXCEPT !.timer = TRUE]

ReactDue(v, s) ==
    [Shows(v, s.value) EXCEPT !.timer = FALSE,
                              !.count = IF adapter.timer = "wait" THEN 0 ELSE @]

-----------------------------------------------------------------------------
(***************************************************************************)
(* Effect: the listener offers every session snapshot to a bounded queue;  *)
(* the stream pulls from it, drops repeated values and coalesces.          *)
(***************************************************************************)
Offered(v, s) ==
    LET item == [valueRevision |-> s.valueRevision, value |-> s.value] IN
    IF Len(v.queue) < adapter.capacity THEN [v EXCEPT !.queue = Append(@, item)]
    ELSE IF adapter.overflow = "sliding"
         THEN [v EXCEPT !.queue = Append(Tail(@), item)]
    ELSE IF adapter.overflow = "dropping" THEN v
    ELSE [v EXCEPT !.terminal = TRUE]

EffectNotified(v, s) ==
    IF v.terminal THEN v
    ELSE [Offered(v, s) EXCEPT !.terminal = @ \/ s.phase \in {"closed", "error"}]

\* Without liveBatchWithin every live state is shown.
Uncoalesced == adapter.timer = "none"

\* flushPending() comes before a state that is not live.
Coalesced(v, snapshot) ==
    IF snapshot.phase # "live"
    THEN [Shows(v, snapshot) EXCEPT !.seenLive = FALSE, !.held = NoSnapshot,
                                    !.timer = FALSE]
    ELSE IF ~v.seenLive \/ Uncoalesced
    THEN [Shows(v, snapshot) EXCEPT !.seenLive = TRUE]
    ELSE [v EXCEPT !.held = snapshot, !.timer = TRUE]

Pulled(v) ==
    LET item == Head(v.queue)
        rest == [v EXCEPT !.queue = Tail(@)]
    IN  IF item.valueRevision = v.seen THEN rest
        ELSE [Coalesced(rest, item.value) EXCEPT !.seen = item.valueRevision]

EffectFlushed(v) ==
    [Shows(v, v.held) EXCEPT !.held = NoSnapshot, !.timer = FALSE]

-----------------------------------------------------------------------------
(***************************************************************************)
(* The view beside the source.                                             *)
(***************************************************************************)
Notified(v, s) ==
    IF v.state # "mounted" THEN v
    ELSE CASE adapter.kind = "rxjs"   -> RxjsNotified(v, s)
           [] adapter.kind = "react"  -> ReactNotified(v, s)
           [] adapter.kind = "effect" -> EffectNotified(v, s)

\* A component mounts, or an Observable or a stream gets its subscriber: it
\* acquires the session and is shown the current snapshot.
Mounted == [view EXCEPT !.state = "mounted"]

Mount ==
    /\ adapter.kind = "react"
    /\ view' = [Shows(Mounted, session.value)
                   EXCEPT !.lastPhase = StatePhase(session.value)]

SubscribeValues ==
    /\ adapter.kind = "rxjs"
    /\ view' = RxjsNotified(Mounted, session)

StartStream ==
    /\ adapter.kind = "effect"
    /\ view' = EffectNotified(Mounted, session)

Subscribe ==
    /\ view.state = "idle"
    /\ Idle
    /\ Mount \/ SubscribeValues \/ StartStream
    /\ UNCHANGED <<sourceVars, adapter>>

Unsubscribe ==
    /\ view.state = "mounted"
    /\ Idle
    /\ view' = Over(view)
    /\ UNCHANGED <<sourceVars, adapter>>

\* The view's timer or frame.
Due ==
    /\ view.state = "mounted"
    /\ Idle
    /\ view.timer
    /\ view' = CASE adapter.kind = "rxjs"   -> Flushed(view)
                 [] adapter.kind = "react"  -> ReactDue(view, session)
                 [] adapter.kind = "effect" -> EffectFlushed(view)
    /\ UNCHANGED <<sourceVars, adapter>>

Pull ==
    /\ view.state = "mounted" /\ view.queue # <<>>
    /\ view' = Pulled(view)
    /\ UNCHANGED <<sourceVars, adapter>>

\* The queue has ended and is empty: a held state is shown before the end.
PullEnds ==
    /\ view.state = "mounted" /\ view.terminal /\ view.queue = <<>>
    /\ view' = IF view.held # NoSnapshot THEN EffectFlushed(view) ELSE Over(view)
    /\ UNCHANGED <<sourceVars, adapter>>

\* A step of the source, with the listener's work when it updates the session.
Beside(step) ==
    /\ step
    /\ view' = IF session' = session THEN view ELSE Notified(view, session')
    /\ UNCHANGED adapter

ViewWork == Subscribe \/ Due \/ Pull \/ PullEnds

Init == SourceInit /\ ViewInit
Next == Beside(SourceNext) \/ ViewWork \/ Unsubscribe

(***************************************************************************)
(* Promises, timers and frames run; a retry's delay passes; a subscriber   *)
(* that pulls goes on pulling.  Nothing is assumed of the stream, of       *)
(* outages, of the reducer's failures, or of close().                      *)
(***************************************************************************)
Spec == Init /\ [][Next]_vars /\ WF_vars(Beside(Work)) /\ WF_vars(ViewWork)

-----------------------------------------------------------------------------
(***************************************************************************)
(* What a view shows never goes back: a later state extends an earlier     *)
(* one, over coalescing, recovery and the end of the session.              *)
(***************************************************************************)
NeverBack == [][IsPrefix(view.shown.data, view'.shown.data)]_view

(***************************************************************************)
(* Everything the stream receives is in the end folded and shown, unless   *)
(* the session or the view has ended: neither the barriers of the batcher, *)
(* nor a coalesced last state, hold anything back for ever.  It needs a    *)
(* time bound on both sides, and a queue that does not drop.               *)
(***************************************************************************)
Timed == /\ policy.timed
         /\ adapter.timer = "none" => adapter.kind = "effect"
         /\ adapter.overflow # "dropping"

Shown == view.shown.phase = "live" /\ view.shown.data = Upto(published)

Converges == Timed => <>[](Shown \/ SessionOver \/ view.state = "over")
=============================================================================
