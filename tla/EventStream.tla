----------------------------- MODULE EventStream -----------------------------
(***************************************************************************)
(* jetStreamEvents() and materializeJetStream() of @natsail/effect: an     *)
(* ordered consumer whose handler offers each delivery to a bounded Effect *)
(* queue, with one caught-up event between replay and live.                *)
(*                                                                         *)
(* OrderedConsumer is the lease; here its handler is offerEvent().  The    *)
(* handler waits while the queue is full, so the consumer of the stream    *)
(* holds up the lease, and whoever ends the stream must let it go.  The    *)
(* plain adapter keeps the handler of OrderedConsumer, which may do        *)
(* anything.                                                               *)
(***************************************************************************)
EXTENDS OrderedConsumer, SequencesExt

(***************************************************************************)
(* capacity and overflow are the options of the stream; batchSize and      *)
(* maxBytes bound a batch of the materializer (deliveries have size 1).    *)
(***************************************************************************)
CONSTANT Adapters

ASSUME EventStreamAssumption ==
    Adapters \subseteq [kind : {"plain", "events", "materialize"},
                        capacity : Nat \ {0}, overflow : {"suspend", "error"},
                        batchSize : Nat \ {0}, maxBytes : Nat \ {0}]

\* A stream has one lease, and the lease to itself.
OneLease == \E l \in Leases : Leases = {l}

VARIABLES
    adapter,       \* the options; never change
    queue,         \* events admitted and not yet taken
    queueState,    \* of the Effect queue
    marker,        \* catchUpMarkerEnqueued: the promise live deliveries await
    consumer,      \* whoever runs the stream
    seen,          \* events the consumer has taken
    batch,         \* events of the materializer's current batch
    materialized,  \* its accumulator
    shown          \* the snapshot it has emitted last

queueVars  == <<queue, queueState, marker>>
pullVars   == <<consumer, seen, batch, materialized, shown>>
streamAll  == <<adapter, queueVars, pullVars>>
eventVars  == <<vars, streamAll>>

Lease    == CHOOSE l \in Leases : TRUE
CaughtUp == 0   \* the caught-up event; a delivery is its sequence

\* The first snapshot is replaying, with the initial state.
MaterializerInit ==
    /\ batch = <<>>
    /\ materialized = [phase |-> "replaying", data |-> <<>>]
    /\ shown = [phase |-> "replaying", data |-> <<>>]

EventInit ==
    /\ Init
    /\ adapter \in Adapters
    /\ queue = <<>> /\ queueState = "open" /\ marker = "waiting"
    /\ consumer = "pulling" /\ seen = <<>>
    /\ MaterializerInit

-----------------------------------------------------------------------------
(***************************************************************************)
(* The producer: offerEvent() and the handler around it.                   *)
(***************************************************************************)
Streaming == adapter.kind # "plain"
Room      == queueState = "open" /\ Len(queue) < adapter.capacity

\* The queue is full and the strategy is `error`: the stream fails.
Overflows == queueState = "open" /\ ~Room /\ adapter.overflow = "error"

\* offerToQueue() returns false: the queue is not open, or the offer was parked
\* when the signal aborted.
Unaccepted == queueState # "open" \/ (~Room /\ closeRequested[Lease])

\* A live delivery waits for the caught-up event.
NeverWaits(l)     == TRUE
MayOffer(l)       == remaining[l] = 0 => marker = "enqueued"
MarkerRejected(l) == remaining[l] = 0 /\ marker = "rejected"

OfferDelivery(l) ==
    /\ Streaming /\ MayOffer(l) /\ Room
    /\ HandlerSucceeds(l)
    /\ queue' = Append(queue, current[l])
    /\ UNCHANGED <<adapter, queueState, marker, pullVars>>

\* An unaccepted event throws, so that its sequence is never saved.
RefuseDelivery(l) ==
    /\ Streaming
    /\ HandlerFails(l)
    /\ \/ /\ MayOffer(l) /\ Overflows
          /\ queueState' = "failed"
       \/ /\ MarkerRejected(l) \/ (MayOffer(l) /\ Unaccepted)
          /\ UNCHANGED queueState
    /\ UNCHANGED <<adapter, queue, marker, pullVars>>

PlainHandler(l) == ~Streaming /\ Handler(l) /\ UNCHANGED streamAll

\* lease.caughtUp, and the event it puts into the queue.
OfferMarker(l) ==
    /\ Streaming /\ marker = "waiting"
    /\ \/ /\ caughtUp[l] = "resolved" /\ Room
          /\ queue' = Append(queue, CaughtUp)
          /\ marker' = "enqueued"
          /\ UNCHANGED queueState
       \/ /\ caughtUp[l] = "resolved" /\ Overflows
          /\ queueState' = "failed"
          /\ marker' = "rejected"
          /\ UNCHANGED queue
       \/ /\ caughtUp[l] = "rejected" \/ (caughtUp[l] = "resolved" /\ Unaccepted)
          /\ marker' = "rejected"
          /\ UNCHANGED <<queue, queueState>>
    /\ UNCHANGED <<vars, adapter, pullVars>>

\* The registration follows the lease: a failure fails the queue, and the end
\* of a lease that has caught up ends it.
Registration(l) ==
    /\ Streaming /\ queueState = "open"
    /\ \/ /\ marker = "rejected" \/ pc[l] = "error"
          /\ queueState' = "failed"
       \/ /\ marker = "enqueued" /\ pc[l] = "closed"
          /\ queueState' = "ended"
    /\ UNCHANGED <<vars, adapter, queue, marker, pullVars>>

-----------------------------------------------------------------------------
(***************************************************************************)
(* The materializer works through a batch of events in order.              *)
(***************************************************************************)
Reduced(a) == [a EXCEPT !.data = @ \o a.pending, !.pending = <<>>]
Emitted(a) == [a EXCEPT !.snapshot = [phase |-> a.phase, data |-> a.data]]

CatchUp(a) == Emitted([Reduced(a) EXCEPT !.phase = "live"])

BatchFull(items) == Len(items) >= adapter.batchSize \/ Len(items) >= adapter.maxBytes

Materialize(event, a) ==
    IF event = CaughtUp THEN CatchUp(a)
    ELSE LET more == [a EXCEPT !.pending = Append(@, event)]
         IN  IF BatchFull(more.pending) THEN Reduced(more) ELSE more

\* What is still pending behind the last event gets a snapshot of its own.
Closing(a) ==
    IF a.pending # <<>> /\ a.phase = "live" THEN Emitted(Reduced(a)) ELSE Reduced(a)

Processed ==
    Closing(FoldLeft(LAMBDA a, event : Materialize(event, a),
                     [phase |-> materialized.phase, data |-> materialized.data,
                      pending |-> <<>>, snapshot |-> shown],
                     batch))

BatchOpen == Len(batch) < adapter.batchSize /\ (batch # <<>> => Last(batch) # CaughtUp)

Take ==
    /\ Streaming /\ consumer = "pulling"
    /\ queue # <<>>
    /\ adapter.kind = "materialize" => BatchOpen
    /\ queue' = Tail(queue)
    /\ seen' = Append(seen, Head(queue))
    /\ batch' = IF adapter.kind = "materialize" THEN Append(batch, Head(queue)) ELSE batch
    /\ UNCHANGED <<vars, adapter, queueState, marker, consumer, materialized, shown>>

\* The batch is full, ends in the caught-up event, or its time is up.
ProcessBatch ==
    /\ consumer = "pulling" /\ batch # <<>>
    /\ batch' = <<>>
    /\ materialized' = [phase |-> Processed.phase, data |-> Processed.data]
    /\ shown' = Processed.snapshot
    /\ UNCHANGED <<vars, adapter, queueVars, consumer, seen>>

(***************************************************************************)
(* The stream is over for its consumer: it was interrupted, its reducer    *)
(* failed, or the queue has nothing more to give.  releaseLease() shuts    *)
(* the queue, so that no offer stays parked, and closes the lease.         *)
(***************************************************************************)
Release(l) ==
    /\ Streaming /\ consumer = "pulling"
    /\ consumer' = "gone"
    /\ queue' = <<>> /\ batch' = <<>>
    /\ queueState' = "shutdown"
    /\ IF pc[l] \in {"idle"} \cup Over \/ closeRequested[l] THEN UNCHANGED vars ELSE Close(l)
    /\ UNCHANGED <<adapter, marker, seen, materialized, shown>>

StreamEnds(l) == queueState \in {"ended", "failed"} /\ queue = <<>> /\ Release(l)
Interrupt(l)  == pc[l] # "idle" /\ Release(l)

-----------------------------------------------------------------------------
\* What the lease does outside its handler.
LeaseStep(l) ==
    \/ Open(l) \/ Work(l) \/ ReceiveAgain(l) \/ StartFails(l) \/ TimedFlush(l)
    \/ Save(l) \/ Close(l) \/ MessagesEnd(l)

Producer(l) == PlainHandler(l) \/ OfferDelivery(l) \/ RefuseDelivery(l)
Follow(l)   == OfferMarker(l) \/ Registration(l)
Pulling(l)  == Take \/ ProcessBatch \/ StreamEnds(l)

EventNext ==
    \/ (Publish \/ Purge) /\ UNCHANGED streamAll
    \/ \E l \in Leases :
          \/ LeaseStep(l) /\ UNCHANGED streamAll
          \/ Producer(l) \/ Follow(l) \/ Pulling(l) \/ Interrupt(l)
          \/ Crash(l) /\ consumer' = "gone"
             /\ UNCHANGED <<adapter, queueVars, seen, batch, materialized, shown>>

\* As for OrderedConsumer; a consumer that pulls goes on until it leaves.
EventFairness ==
    \A l \in Leases :
        /\ WF_eventVars(Work(l) /\ UNCHANGED streamAll)
        /\ WF_eventVars(Producer(l))
        /\ WF_eventVars(TimedFlush(l) /\ UNCHANGED streamAll)
        /\ WF_eventVars(Save(l) /\ UNCHANGED streamAll)
        /\ WF_eventVars(Follow(l))
        /\ WF_eventVars(Pulling(l))

EventSpec == EventInit /\ [][EventNext]_eventVars /\ EventFairness

-----------------------------------------------------------------------------
(***************************************************************************)
(* The caught-up event parts replay from live: every message of the        *)
(* captured replay comes before it and every other after it, and a live    *)
(* snapshot of the materializer holds all of the replay.                   *)
(***************************************************************************)
AtomicReplay ==
    LET events == seen \o queue IN
    redeliveries = 0 =>
    /\ \A i \in DOMAIN events : events[i] = CaughtUp =>
          /\ \A m \in replay[Lease] : \E j \in 1 .. i - 1 : events[j] = m
          /\ \A j \in 1 .. i - 1 : events[j] \in replay[Lease]
    /\ shown.phase = "live" =>
          \A m \in replay[Lease] : \E j \in DOMAIN shown.data : shown.data[j] = m
=============================================================================
