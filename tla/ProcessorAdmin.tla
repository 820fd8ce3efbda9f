--------------------------- MODULE ProcessorAdmin ---------------------------
(***************************************************************************)
(* The durable consumer of a JetStream processor and what the processor    *)
(* controller of @natsail/jetstream decides about it: the configuration    *)
(* that the options ask for, how an existing consumer differs from it, and *)
(* the stream sequence after which a consumer may be created again.        *)
(*                                                                         *)
(* The configuration fields that no decision tells apart are one value:    *)
(* contract for those a server cannot change on an existing consumer,      *)
(* settings for those it can.  A consumer delivers the sequences after its *)
(* base; the server keeps the delivered ones that are pending and acked.   *)
(***************************************************************************)
EXTENDS Integers, FiniteSets, Sequences, FiniteSetsExt

Modes    == {"bind", "ensure", "owned"}
Policies == {"error", "update-editable", "recreate-owned"}

\* JetStreamProcessorStart, as the deliver policy and start sequence it gives.
All == [policy |-> "all", sequence |-> 0]
New == [policy |-> "new", sequence |-> 0]
After(boundary) == [policy |-> "sequence", sequence |-> boundary + 1]
Starts == {All, New} \cup [policy : {"sequence"}, sequence : Nat \ {0}]

NoConsumer == [policy |-> "none"]
Versions   == {"current", "old"}
Consumers(last) ==
    [policy : {"all", "new", "sequence"}, start : 0 .. last + 1,
     contract : Versions, settings : Versions, marked : BOOLEAN,
     base : 0 .. last, acked : SUBSET (1 .. last), pending : SUBSET (1 .. last)]

\* What happens to a drifted consumer, when the options do not say it.
DesiredPolicy(options) ==
    IF options.drift # "unset" THEN options.drift
    ELSE CASE options.mode = "bind"   -> "error"
           [] options.mode = "ensure" -> "update-editable"
           [] options.mode = "owned"  -> "recreate-owned"

\* validateJetStreamProcessorAdminOptions()
ValidOptions(options) ==
    /\ options.mode \in Modes /\ options.start \in Starts
    /\ options.drift \in Policies \cup {"unset"} /\ options.maxAckPending \in Nat \ {0}
    /\ options.mode = "bind" => DesiredPolicy(options) = "error"
    /\ options.mode = "ensure" => DesiredPolicy(options) # "recreate-owned"

-----------------------------------------------------------------------------
(***************************************************************************)
(* consumers.add() of the server: an existing consumer of the name is an   *)
(* error, "new" starts after the last stored message.                      *)
(***************************************************************************)
Created(config, last) ==
    [config EXCEPT !.base = CASE config.policy = "all"      -> 0
                              [] config.policy = "new"      -> last
                              [] config.policy = "sequence" -> config.start - 1]

Placed(consumer) == consumer.policy = "sequence" => consumer.start = consumer.base + 1

\* delivered.stream_seq and ack_floor.stream_seq of the consumer info.
Delivered(consumer) == Max({consumer.base} \cup consumer.acked \cup consumer.pending)
Untouched(consumer) == consumer.acked = {} /\ consumer.pending = {}
AckFloor(consumer) ==
    Max({0} \cup {s \in consumer.acked : \A p \in consumer.pending : s < p})

\* jetStreamProcessorConsumerConfig(): the configuration for a start.
Config(options, start) ==
    [policy |-> start.policy, start |-> start.sequence,
     contract |-> "current", settings |-> "current",
     marked |-> options.mode = "owned",
     base |-> 0, acked |-> {}, pending |-> {}]

\* An owned start:"new" consumer that was created again keeps its sequence.
EffectiveStart(options, consumer) ==
    IF options.mode = "owned" /\ options.start = New /\ consumer.policy = "sequence"
    THEN After(consumer.start - 1)
    ELSE options.start

\* classifyJetStreamProcessorDrift()
EditableDrift(consumer) == consumer.settings # "current"
ImmutableDrift(options, consumer) ==
    LET desired == Config(options, EffectiveStart(options, consumer))
    IN  \/ consumer.contract # desired.contract
        \/ consumer.policy # desired.policy
        \/ consumer.start # desired.start

\* reconcileWith() returns status rejected.
Rejected(options, consumer) ==
    IF consumer = NoConsumer THEN options.mode = "bind"
    ELSE \/ options.mode = "owned" /\ ~consumer.marked
         \/ /\ EditableDrift(consumer) \/ ImmutableDrift(options, consumer)
            /\ DesiredPolicy(options) = "error"
         \/ ImmutableDrift(options, consumer) /\ DesiredPolicy(options) # "recreate-owned"

\* processorRecreationBoundary()
RecreationBoundary(consumer) ==
    IF AckFloor(consumer) > 0 THEN AckFloor(consumer)
    ELSE CASE consumer.policy = "sequence" -> consumer.start - 1
           [] consumer.policy = "new"      -> Delivered(consumer)
           [] consumer.policy = "all"      -> 0

\* The boundary of a delivered start:"new" consumer is not known.
RefusesRecreation(consumer) ==
    /\ AckFloor(consumer) = 0 /\ consumer.policy = "new"
    /\ ~Untouched(consumer)

\* rollbackConfigAtBoundary(): the old configuration, after the boundary.
RollbackConfig(consumer, boundary) ==
    [consumer EXCEPT !.policy = "sequence", !.start = boundary + 1,
                     !.acked = {}, !.pending = {}]
=============================================================================
