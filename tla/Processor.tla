------------------------------ MODULE Processor ------------------------------
(***************************************************************************)
(* processJetStream() of @natsail/jetstream: one logical processor of a    *)
(* durable consumer with explicit acknowledgements, JetStreamProcessor     *)
(* alone or under RecoveringJetStreamProcessor, which opens a new lease    *)
(* after an infrastructure failure.  Leases follow one another, so the     *)
(* variables describe the current one; boundary is handed on.              *)
(*                                                                         *)
(* The stream, its consumer and the SDK's iterator are external.  Requests *)
(* may fail, the consumer may be deleted by others, and a message that is  *)
(* not acknowledged may come again at any time.                            *)
(***************************************************************************)
EXTENDS ProcessorAdmin

CONSTANTS Deployments,     \* option settings, each with the consumer it finds
          MaxSequence,     \* bound on the messages of the stream
          MaxAttempts,     \* recovery.maxAttempts
          MaxFaults,       \* bound on failing requests and early redeliveries
          MaxDeletions,    \* bound on deletions by others
          MaxRetries       \* bound on the retries that handlers ask for

\* recovering and confirmed are recovery and acknowledgement of the options;
\* outages says that iterators and acknowledgements may fail; found and stored
\* are the consumer of the name and the last message when the processor starts.
ASSUME ProcessorAssumption ==
    /\ {MaxSequence, MaxAttempts, MaxFaults, MaxDeletions, MaxRetries}
          \subseteq Nat
    /\ \A d \in Deployments :
          /\ ValidOptions(d)
          /\ {d.recovering, d.confirmed, d.outages} \subseteq BOOLEAN
          /\ d.stored \in 0 .. MaxSequence
          /\ d.found \in {NoConsumer} \cup Consumers(d.stored)
          /\ d.found # NoConsumer => Placed(d.found)

VARIABLES
    options,         \* this.options, never changes
    last,            \* last message of the stream
    consumer,        \* the consumer on the server
    pc,              \* where start() or run() stands
    attempt,         \* leases so far
    boundary,        \* recoveryBoundary, Unknown when undefined
    replaced,        \* the consumer that recreation is replacing
    messages,        \* this.messages: none, open or closed
    buffer,          \* messages that the iterator holds
    current,         \* sequence being handled, 0 when there is none
    retryGap,        \* this.retryGap
    statusFailure,   \* the iterator ended because of a failure
    failure,         \* failure of the lease: none, infrastructure or final
    closeRequested,  \* close() was called
    signal,          \* options.signal.aborted
    cancelled,       \* cancellation.signal.aborted
    abandoned,       \* abort() was called
    finished,        \* history: sequences handled to the end
    origin,          \* history: the first sequence to process, less one
    used             \* counters of the bounds

serverVars == <<options, last, consumer>>
leaseVars  == <<attempt, boundary, replaced, retryGap>>
flowVars   == <<messages, buffer, current, statusFailure>>
endVars    == <<closeRequested, signal, cancelled, abandoned>>
history    == <<finished, origin>>
vars       == <<serverVars, pc, leaseVars, flowVars, failure, endVars, history, used>>

Unknown == -1
Requests == {"connecting", "deleting", "adding", "rollback", "updating", "opening",
             "consuming"}
Phases == Requests \cup {"live", "handling", "acking", "lost", "final", "delay",
                         "cleanup", "removing", "over"}
Bounds == [faults |-> MaxFaults, deletions |-> MaxDeletions, retries |-> MaxRetries]
Spend(bound) == used[bound] < Bounds[bound] /\ used' = [used EXCEPT ![bound] = @ + 1]

Init ==
    /\ options \in Deployments
    /\ last = options.stored
    /\ consumer = options.found
    /\ pc = "connecting" /\ attempt = 1
    /\ boundary = Unknown /\ replaced = NoConsumer
    /\ messages = "none" /\ buffer = <<>> /\ current = 0
    /\ retryGap = FALSE /\ statusFailure = FALSE /\ failure = "none"
    /\ closeRequested = FALSE /\ signal = FALSE
    /\ cancelled = FALSE /\ abandoned = FALSE
    /\ finished = (IF consumer = NoConsumer THEN {} ELSE consumer.acked)
    /\ origin = (IF consumer = NoConsumer THEN Unknown ELSE consumer.base)
    /\ used = [bound \in DOMAIN Bounds |-> 0]

-----------------------------------------------------------------------------
(***************************************************************************)
(* The stream and the server.                                              *)
(***************************************************************************)
Publish ==
    /\ last < MaxSequence
    /\ last' = last + 1
    /\ UNCHANGED <<options, consumer, pc, leaseVars, flowVars, failure, endVars, history, used>>

AtClient == Range(buffer) \cup {current}

\* A pull is answered with the next message, or with an unacknowledged one
\* whose acknowledgement wait or retry delay is over.
Deliver(s) ==
    /\ messages = "open" /\ consumer # NoConsumer
    /\ \/ /\ s = Delivered(consumer) + 1 /\ s <= last
          /\ Cardinality(consumer.pending) < options.maxAckPending
          /\ UNCHANGED used
       \/ s \in consumer.pending \ AtClient /\ UNCHANGED used
       \/ s \in consumer.pending \cap AtClient /\ Spend("faults")
    /\ consumer' = [consumer EXCEPT !.pending = @ \cup {s}]
    /\ buffer' = Append(buffer, s)
    /\ UNCHANGED <<options, last, pc, leaseVars, messages, current, statusFailure,
                   failure, endVars, history>>

\* The position of the processor is kept by its consumer and by boundary.
Forgotten == IF boundary = Unknown THEN Unknown ELSE origin

\* Somebody else deletes the consumer.  observeDiagnostics() is told and
\* closes the iterator.
DeletedByOthers ==
    /\ consumer # NoConsumer /\ Spend("deletions")
    /\ consumer' = NoConsumer
    /\ origin' = Forgotten
    /\ IF messages = "open" /\ ~closeRequested
       THEN statusFailure' = TRUE /\ messages' = "closed" /\ buffer' = <<>>
       ELSE UNCHANGED <<statusFailure, messages, buffer>>
    /\ UNCHANGED <<options, last, pc, leaseVars, current, failure, endVars, finished>>

\* The iterator ends with an error; the consumer stays.
Outage ==
    /\ options.outages /\ messages = "open" /\ Spend("faults")
    /\ statusFailure' = TRUE /\ messages' = "closed" /\ buffer' = <<>>
    /\ UNCHANGED <<serverVars, pc, leaseVars, current, failure, endVars, history>>

-----------------------------------------------------------------------------
(***************************************************************************)
(* start(): the controller reconciles the consumer, then it is opened.     *)
(***************************************************************************)
Step(to) == pc' = to /\ UNCHANGED <<attempt, boundary, retryGap, flowVars, failure, endVars>>
Fails(with) == /\ pc' = "final" /\ failure' = with
               /\ UNCHANGED <<attempt, boundary, retryGap, flowVars, endVars>>

\* Any request may fail.  A recreation that cannot add rolls back first; one
\* whose rollback fails too, or whose delete was carried out but not answered,
\* leaves no consumer behind.
RequestFails ==
    /\ pc \in Requests \ {"deleting", "rollback"} /\ Spend("faults")
    /\ IF pc = "adding" /\ replaced # NoConsumer THEN Step("rollback")
       ELSE Fails("infrastructure")
    /\ UNCHANGED <<serverVars, replaced, history>>
RecreationFails ==
    /\ pc \in {"deleting", "rollback"} /\ Spend("faults")
    /\ Fails("infrastructure")
    /\ \/ pc = "deleting" /\ UNCHANGED <<consumer, origin>>
       \/ consumer' = NoConsumer /\ origin' = Forgotten
    /\ UNCHANGED <<options, last, replaced, finished>>

\* reconcileWith()
Reconcile ==
    /\ pc = "connecting"
    /\ \/ Rejected(options, consumer) /\ Fails("final") /\ UNCHANGED replaced
       \/ /\ ~Rejected(options, consumer)
          /\ \/ consumer = NoConsumer /\ Step("adding") /\ UNCHANGED replaced
             \/ /\ consumer # NoConsumer /\ ImmutableDrift(options, consumer)
                /\ IF RefusesRecreation(consumer)
                   THEN Fails("final") /\ UNCHANGED replaced
                   ELSE Step("deleting") /\ replaced' = consumer
             \/ /\ consumer # NoConsumer /\ ~ImmutableDrift(options, consumer)
                /\ Step(IF EditableDrift(consumer) THEN "updating" ELSE "opening")
                /\ UNCHANGED replaced
    /\ UNCHANGED <<serverVars, history, used>>

DeleteReplaced ==
    /\ pc = "deleting" /\ consumer # NoConsumer
    /\ consumer' = NoConsumer
    /\ Step("adding")
    /\ UNCHANGED <<options, last, replaced, history, used>>

\* The first sequence that a created consumer leaves out is final.
Origin(created) == IF origin = Unknown THEN created.base ELSE origin

\* A missing consumer is created after the boundary of the last lease, a
\* drifted one after the boundary of the consumer it replaces.
ResumeStart ==
    IF options.mode = "owned" /\ boundary # Unknown THEN After(boundary) ELSE options.start
AddConsumer ==
    LET start == IF replaced = NoConsumer THEN ResumeStart ELSE After(RecreationBoundary(replaced))
        created == Created(Config(options, start), last)
    IN  /\ pc = "adding" /\ consumer = NoConsumer
        /\ consumer' = created
        /\ origin' = Origin(created)
        /\ replaced' = NoConsumer
        /\ Step("opening")
        /\ UNCHANGED <<options, last, finished, used>>

Rollback ==
    /\ pc = "rollback" /\ consumer = NoConsumer
    /\ consumer' = Created(RollbackConfig(replaced, RecreationBoundary(replaced)), last)
    /\ replaced' = NoConsumer
    /\ Fails("infrastructure")
    /\ UNCHANGED <<options, last, history, used>>

\* The update takes effect, or a second classification finds what is left.
Update ==
    /\ pc = "updating" /\ consumer # NoConsumer
    /\ \/ consumer' = [consumer EXCEPT !.settings = "current"] /\ Step("opening")
       \/ UNCHANGED consumer /\ Fails("final")
    /\ UNCHANGED <<options, last, replaced, history, used>>

\* The delete, update, get() or info() of a consumer that is gone fails.
Missing ==
    /\ pc \in {"deleting", "updating", "opening", "consuming"} /\ consumer = NoConsumer
    /\ Fails("infrastructure")
    /\ UNCHANGED <<serverVars, replaced, history, used>>

\* The boundary before the first acknowledgement of a lease.
FirstBoundary ==
    IF boundary # Unknown THEN boundary
    ELSE IF consumer.policy = "sequence" THEN consumer.start - 1
    ELSE IF options.start = New /\ Untouched(consumer) THEN Delivered(consumer)
    ELSE Unknown

StopsEarlyNever == FALSE
StopsEarly == closeRequested \/ signal

OpenConsumer ==
    /\ pc = "opening" /\ consumer # NoConsumer
    /\ boundary' = FirstBoundary
    /\ pc' = IF StopsEarly THEN "final" ELSE "consuming"
    /\ UNCHANGED <<serverVars, attempt, replaced, retryGap, flowVars, failure, endVars,
                   history, used>>

Consume ==
    /\ pc = "consuming" /\ consumer # NoConsumer
    /\ messages' = "open" /\ pc' = "live"
    /\ UNCHANGED <<serverVars, leaseVars, buffer, current, statusFailure, failure,
                   endVars, history, used>>

-----------------------------------------------------------------------------
(***************************************************************************)
(* The loop over the messages.                                             *)
(***************************************************************************)
Receive ==
    /\ pc = "live" /\ messages = "open" /\ buffer # <<>>
    /\ IF closeRequested
       THEN /\ pc' = "final" /\ messages' = "closed" /\ buffer' = <<>>
            /\ UNCHANGED current
       ELSE /\ pc' = "handling" /\ current' = Head(buffer) /\ buffer' = Tail(buffer)
            /\ UNCHANGED messages
    /\ UNCHANGED <<serverVars, leaseVars, statusFailure, failure, endVars, history, used>>

IterationEnds ==
    /\ pc = "live" /\ messages = "closed"
    /\ IF statusFailure THEN Fails("infrastructure") ELSE Step("final")
    /\ UNCHANGED <<serverVars, replaced, history, used>>

\* message.working() of the progress heartbeat throws and cancels the handler.
HeartbeatFails ==
    /\ pc = "handling" /\ ~cancelled /\ options.outages /\ Spend("faults")
    /\ cancelled' = TRUE
    /\ UNCHANGED <<serverVars, pc, leaseVars, flowVars, failure, closeRequested, signal,
                   abandoned, history>>

Thrown(with) ==
    /\ pc' = "final" /\ failure' = with /\ current' = 0
    /\ UNCHANGED <<messages, buffer, statusFailure>>
Continue ==
    /\ pc' = "live" /\ current' = 0
    /\ UNCHANGED <<messages, buffer, statusFailure, failure>>

\* The handler returns or throws.  A result after cancellation is dropped.
LateNever == FALSE
Late == cancelled

\* The server hears the acknowledgement of the message in hand.
Acknowledged ==
    IF consumer # NoConsumer /\ current \in consumer.pending
    THEN [consumer EXCEPT !.pending = @ \ {current}, !.acked = @ \cup {current}]
    ELSE consumer

BoundaryAlways == current
Advanced == IF retryGap THEN boundary ELSE current

HandlerThrows ==
    /\ pc = "handling" /\ ~cancelled
    /\ Thrown("final")
    /\ UNCHANGED <<serverVars, leaseVars, endVars, history, used>>

HandlerIsLate ==
    /\ pc = "handling" /\ Late
    /\ Thrown("infrastructure")
    /\ UNCHANGED <<serverVars, leaseVars, endVars, history, used>>

HandlerRetries ==
    /\ pc = "handling" /\ ~Late /\ Spend("retries")
    /\ retryGap' = TRUE
    /\ Continue
    /\ UNCHANGED <<serverVars, attempt, boundary, replaced, endVars, history>>

\* term(), or ack() that is only sent: it may get lost in an outage.
HandlerSucceeds ==
    /\ pc = "handling" /\ ~Late
    /\ finished' = finished \cup {current}
    /\ \/ /\ boundary' = Advanced
          /\ Continue
          /\ \/ consumer' = Acknowledged /\ UNCHANGED used
             \/ options.outages /\ UNCHANGED consumer /\ Spend("faults")
       \/ /\ options.confirmed
          /\ consumer' = Acknowledged
          /\ pc' = "acking"
          /\ UNCHANGED <<boundary, flowVars, failure, used>>
       \/ /\ options.confirmed /\ options.outages /\ Spend("faults")
          /\ pc' = "lost"
          /\ UNCHANGED <<consumer, boundary, flowVars, failure>>
    /\ UNCHANGED <<options, last, attempt, replaced, retryGap, endVars, origin>>

\* ackAck() is answered, or the answer does not come in time.
AckConfirmed ==
    /\ pc = "acking" /\ consumer # NoConsumer
    /\ IF cancelled THEN Thrown("infrastructure") /\ UNCHANGED boundary
       ELSE boundary' = Advanced /\ Continue
    /\ UNCHANGED <<serverVars, attempt, replaced, retryGap, endVars, history, used>>
AckTimesOut ==
    /\ \/ pc = "acking" /\ \/ consumer = NoConsumer /\ UNCHANGED used
                           \/ options.outages /\ Spend("faults")
       \/ pc = "lost" /\ UNCHANGED used
    /\ Thrown("infrastructure")
    /\ UNCHANGED <<serverVars, leaseVars, endVars, history>>

-----------------------------------------------------------------------------
(***************************************************************************)
(* The end of a lease, recovery and the end of the processor.              *)
(***************************************************************************)
\* shouldRetry(): handler, decoder and contract failures are final.
Retries == /\ options.recovering /\ ~closeRequested /\ ~signal
           /\ failure # "final" /\ attempt < MaxAttempts

LeaseEnds ==
    /\ pc = "final"
    /\ messages' = IF messages = "open" THEN "closed" ELSE messages
    /\ buffer' = <<>>
    /\ pc' = IF Retries THEN "delay" ELSE "cleanup"
    /\ failure' = IF options.recovering /\ (closeRequested \/ signal) THEN "none" ELSE failure
    /\ UNCHANGED <<serverVars, leaseVars, current, statusFailure, endVars, history, used>>

\* The delay passes or close() cancels it.
NextLease ==
    /\ pc = "delay"
    /\ IF closeRequested \/ signal
       THEN pc' = "cleanup" /\ UNCHANGED <<attempt, retryGap, messages, statusFailure, cancelled>>
       ELSE /\ pc' = "connecting" /\ attempt' = attempt + 1
            /\ retryGap' = FALSE /\ messages' = "none"
            /\ statusFailure' = FALSE /\ cancelled' = FALSE
    /\ failure' = "none" /\ replaced' = NoConsumer
    /\ UNCHANGED <<serverVars, boundary, buffer, current, closeRequested, signal, abandoned,
                   history, used>>

\* deleteOwnedConsumer() reads the mark, then deletes.
IsOwned == IF consumer = NoConsumer THEN FALSE ELSE consumer.marked
Cleanup ==
    /\ pc = "cleanup"
    /\ \/ /\ options.mode # "owned" \/ abandoned
          /\ pc' = "over" /\ UNCHANGED <<failure, used>>
       \/ /\ options.mode = "owned" /\ ~abandoned
          /\ \/ /\ IsOwned
                /\ pc' = "removing" /\ UNCHANGED <<failure, used>>
             \/ /\ ~IsOwned
                /\ pc' = "over" /\ failure' = "final" /\ UNCHANGED used
             \/ Spend("faults") /\ pc' = "over" /\ failure' = "final"
    /\ UNCHANGED <<serverVars, leaseVars, flowVars, endVars, history>>

RemoveOwned ==
    /\ pc = "removing"
    /\ pc' = "over"
    /\ \/ /\ consumer # NoConsumer
          /\ consumer' = NoConsumer /\ UNCHANGED <<failure, used>>
       \/ consumer = NoConsumer /\ failure' = "final" /\ UNCHANGED <<consumer, used>>
       \/ Spend("faults") /\ failure' = "final" /\ UNCHANGED consumer
    /\ UNCHANGED <<options, last, leaseVars, flowVars, endVars, history>>

\* close() has an iterator to close once consume() has returned it.
CloseMessages ==
    IF messages = "open" THEN messages' = "closed" /\ buffer' = <<>>
    ELSE UNCHANGED <<messages, buffer>>
Close ==
    /\ ~closeRequested /\ pc # "over"
    /\ closeRequested' = TRUE
    /\ CloseMessages
    /\ UNCHANGED <<serverVars, pc, leaseVars, current, statusFailure, failure, signal,
                   cancelled, abandoned, history, used>>

\* The runtime's grace period is over.
Abort ==
    /\ ~abandoned /\ pc # "over"
    /\ abandoned' = TRUE /\ cancelled' = TRUE /\ closeRequested' = TRUE
    /\ CloseMessages
    /\ UNCHANGED <<serverVars, pc, leaseVars, current, statusFailure, failure, signal,
                   history, used>>

\* options.signal: recovery listens always, a lease once it is live.
SignalAborts ==
    /\ ~signal /\ pc # "over"
    /\ signal' = TRUE
    /\ cancelled' = (cancelled \/ pc \in {"live", "handling", "acking", "lost"})
    /\ IF options.recovering \/ cancelled'
       THEN closeRequested' = TRUE /\ CloseMessages
       ELSE UNCHANGED <<closeRequested, messages, buffer>>
    /\ UNCHANGED <<serverVars, pc, leaseVars, current, statusFailure, failure, abandoned,
                   history, used>>

-----------------------------------------------------------------------------
Starting == \/ RequestFails \/ RecreationFails \/ Reconcile \/ DeleteReplaced \/ AddConsumer \/ Rollback
            \/ Update \/ Missing \/ OpenConsumer \/ Consume
Working == \/ Receive \/ IterationEnds \/ HandlerThrows \/ HandlerIsLate \/ HandlerRetries
           \/ HandlerSucceeds \/ AckConfirmed \/ AckTimesOut
Ending == LeaseEnds \/ NextLease \/ Cleanup \/ RemoveOwned
Caller == Close \/ Abort \/ SignalAborts
Server == \/ Publish \/ DeletedByOthers \/ Outage \/ HeartbeatFails
          \/ \E s \in 1 .. MaxSequence : Deliver(s)

Next == Starting \/ Working \/ Ending \/ Caller \/ Server

\* Requests are answered or time out, handlers return, delays pass.
Spec == Init /\ [][Next]_vars /\ WF_vars(Starting \/ Working \/ Ending)

-----------------------------------------------------------------------------
\* A consumer, whatever its start sequence is.
Durables ==
    [policy : {"all", "new", "sequence"}, start : Nat,
     contract : Versions, settings : Versions, marked : BOOLEAN, base : Nat,
     acked : SUBSET (1 .. MaxSequence), pending : SUBSET (1 .. MaxSequence)]

TypeOK ==
    /\ options \in Deployments
    /\ last \in 0 .. MaxSequence
    /\ consumer \in {NoConsumer} \cup Durables
    /\ pc \in Phases
    /\ attempt \in Nat
    /\ boundary \in {Unknown} \cup Nat
    /\ replaced \in {NoConsumer} \cup Durables
    /\ messages \in {"none", "open", "closed"}
    /\ buffer \in Seq(1 .. MaxSequence)
    /\ current \in 0 .. MaxSequence
    /\ {retryGap, statusFailure, closeRequested, signal, cancelled, abandoned}
          \subseteq BOOLEAN
    /\ failure \in {"none", "infrastructure", "final"}
    /\ finished \in SUBSET (1 .. MaxSequence)
    /\ origin \in {Unknown} \cup Nat

\* A message that the handler has not finished is never left out: whatever
\* consumer exists still has it in its future or among its unacknowledged
\* deliveries.  Holds across deletion, recreation, rollback and retries for an
\* owned consumer and for start:"all"; jetstream/index.ts:1395,
\* processor-admin.ts:839-933.
NothingLeftOut ==
    consumer # NoConsumer /\ (options.mode = "owned" \/ options.start = All) =>
        \A s \in origin + 1 .. Delivered(consumer) : s \in finished \cup consumer.pending

\* After abort() no result of a handler is acknowledged
\* (docs/PRODUCTION.md:38, "late processor results are not acknowledged").
LateResultsDropped ==
    [][abandoned => /\ finished' = finished
                    /\ consumer # NoConsumer /\ consumer' # NoConsumer
                          => consumer'.acked \subseteq consumer.acked]_vars

\* close() settles, wherever it finds the processor, but for a close() while
\* consume() is awaited: that one waits for a message (jetstream/index.ts:1249).
CloseSettles ==
    (closeRequested /\ messages # "open" /\ pc # "consuming") ~> (pc = "over")
=============================================================================
