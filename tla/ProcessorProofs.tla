--------------------------- MODULE ProcessorProofs ---------------------------
(***************************************************************************)
(* A processor that has one unacknowledged delivery at a time leaves no    *)
(* message out, whatever is deleted, refused, redelivered or interrupted   *)
(* and however often it recovers; and after abort() it drops what its      *)
(* handlers still return.  For any deployment, stream and bounds.          *)
(***************************************************************************)
EXTENDS Processor, FiniteSetTheorems, SequenceTheorems, WellFoundedInduction, TLAPS

-----------------------------------------------------------------------------
(***************************************************************************)
(* Max on bounded sets of naturals: delivered.stream_seq and ack_floor.    *)
(***************************************************************************)
LEMMA MaxOfBounded ==
    ASSUME NEW S \in SUBSET Nat, NEW K \in Nat, \A s \in S : s <= K, S # {}
    PROVE  Max(S) \in S /\ \A s \in S : s <= Max(S)
<1> DEFINE T == {K - s : s \in S}
           R == OpToRel(<, Nat)
<1>1. T \subseteq Nat /\ T # {}
  <2>1. \A s \in S : s \in Nat /\ s <= K /\ K - s \in Nat  OBVIOUS
  <2>2. PICK s \in S : TRUE  OBVIOUS
  <2>3. K - s \in T  OBVIOUS
  <2> QED  BY <2>1, <2>3
<1>2. \A m, n \in Nat : m < n => <<m, n>> \in R  BY DEF OpToRel
<1>3. IsWellFoundedOn(R, Nat)  BY NatLessThanWellFounded
<1> HIDE DEF R
<1>4. \E x \in T : \A y \in T : ~(<<y, x>> \in R)  BY <1>1, <1>3, WFMin
<1>5. PICK x \in T : \A y \in T : ~(<<y, x>> \in R)  BY <1>4
<1>6. PICK top \in S : x = K - top  BY <1>5
<1>7. ASSUME NEW s \in S PROVE s <= top
  <2>1. (K - s) \in T /\ (K - s) \in Nat /\ (K - top) \in Nat  OBVIOUS
  <2>2. ~(K - s < K - top)  BY <1>2, <1>5, <1>6, <2>1
  <2>3. s \in Nat /\ top \in Nat  OBVIOUS
  <2> QED  BY ONLY <2>2, <2>3, K \in Nat
<1>8. \E m \in S : \A s \in S : m >= s  BY <1>7
<1>9. Max(S) \in S /\ \A s \in S : Max(S) >= s  BY <1>8 DEF Max
<1> QED  BY <1>9

-----------------------------------------------------------------------------
(***************************************************************************)
(* The consumer records of ProcessorAdmin.                                 *)
(***************************************************************************)
\* delivered.stream_seq is the base or something delivered, and behind all.
LEMMA DeliveredIs ==
    ASSUME NEW c \in Durables
    PROVE  /\ Delivered(c) \in Nat
           /\ Delivered(c) \in {c.base} \cup c.acked \cup c.pending
           /\ \A s \in {c.base} \cup c.acked \cup c.pending : s <= Delivered(c)
<1> DEFINE S == {c.base} \cup c.acked \cup c.pending
<1>1. c.base \in Nat /\ c.acked \in SUBSET (1 .. MaxSequence) /\ c.pending \in SUBSET (1 .. MaxSequence)
      BY DEF Durables
<1>2. MaxSequence \in Nat  BY ProcessorAssumption DEF ProcessorAssumption
<1>3. S \in SUBSET Nat /\ S # {}  BY <1>1
<1>4. \A s \in S : s <= c.base + MaxSequence  BY <1>1, <1>2
<1>5. c.base + MaxSequence \in Nat  BY <1>1, <1>2
<1> HIDE DEF S
<1>6. Max(S) \in S /\ \A s \in S : s <= Max(S)  BY ONLY <1>3, <1>4, <1>5, MaxOfBounded
<1> QED  BY <1>3, <1>6 DEF Delivered, S

\* ack_floor.stream_seq: what lies behind it is not pending.
LEMMA AckFloorIs ==
    ASSUME NEW c \in Durables
    PROVE  /\ AckFloor(c) \in Nat /\ AckFloor(c) <= Delivered(c)
           /\ AckFloor(c) > 0 => \A p \in c.pending : AckFloor(c) < p
<1> DEFINE S == {0} \cup {s \in c.acked : \A p \in c.pending : s < p}
<1>1. c.acked \in SUBSET (1 .. MaxSequence) /\ c.pending \in SUBSET (1 .. MaxSequence)
      BY DEF Durables
<1>2. MaxSequence \in Nat  BY ProcessorAssumption DEF ProcessorAssumption
<1>3. S \in SUBSET Nat /\ S # {} /\ \A s \in S : s <= MaxSequence  BY <1>1, <1>2
<1> HIDE DEF S
<1>4. Max(S) \in S  BY ONLY <1>2, <1>3, MaxOfBounded
<1>5. AckFloor(c) = Max(S)  BY DEF AckFloor, S
<1>6. AckFloor(c) \in Nat  BY <1>3, <1>4, <1>5
<1>7. AckFloor(c) > 0 => AckFloor(c) \in c.acked /\ \A p \in c.pending : AckFloor(c) < p
      BY <1>4, <1>5, <1>6 DEF S
<1>8. AckFloor(c) <= Delivered(c)
  <2>1. CASE AckFloor(c) > 0  BY <1>7, <2>1, DeliveredIs
  <2>2. CASE AckFloor(c) = 0  BY <2>2, DeliveredIs
  <2> QED  BY <1>6, <2>1, <2>2
<1> QED  BY <1>6, <1>7, <1>8

\* A consumer is told apart from none by its policy.
LEMMA DurableIsSome == ASSUME NEW c \in Durables PROVE c # NoConsumer
BY DEF Durables, NoConsumer

\* The options of a deployment are valid.
LEMMA OptionsValid ==
    ASSUME TypeOK
    PROVE  /\ options.mode \in Modes /\ options.start \in Starts
           /\ options.maxAckPending \in Nat \ {0}
           /\ options.stored \in 0 .. MaxSequence
           /\ options.found \in {NoConsumer} \cup Consumers(options.stored)
           /\ options.recovering \in BOOLEAN /\ options.confirmed \in BOOLEAN
BY ProcessorAssumption DEF ProcessorAssumption, TypeOK, ValidOptions

\* What the server makes of a configuration: a consumer that is untouched, at
\* the base that its start asks for.
LEMMA CreatedIs ==
    ASSUME NEW config \in Durables, NEW n \in Nat,
           config.policy = "sequence" => config.start \in Nat \ {0},
           config.acked = {}, config.pending = {}
    PROVE  LET created == Created(config, n)
           IN  /\ created \in Durables /\ created.acked = {} /\ created.pending = {}
               /\ created.policy = config.policy /\ created.start = config.start
               /\ created.policy = "sequence" => created.start = created.base + 1
               /\ config.policy = "all" => created.base = 0
               /\ Delivered(created) = created.base
<1> DEFINE created == Created(config, n)
<1>1. /\ created \in Durables /\ created.acked = {} /\ created.pending = {}
      /\ created.policy = config.policy /\ created.start = config.start
      /\ config.policy = "all" => created.base = 0
      /\ created.policy = "sequence" => created.start = created.base + 1
      BY DEF Created, Durables
<1>2. Delivered(created) = created.base  BY <1>1, DeliveredIs
<1> QED  BY <1>1, <1>2

\* jetStreamProcessorConsumerConfig() for a start of the options.
LEMMA ConfigIs ==
    ASSUME NEW o, NEW start \in Starts
    PROVE  LET config == Config(o, start)
           IN  /\ config \in Durables /\ config.acked = {} /\ config.pending = {}
               /\ config.policy = start.policy /\ config.start = start.sequence
               /\ config.policy = "sequence" => config.start \in Nat \ {0}
<1>1. /\ start.policy \in {"all", "new", "sequence"} /\ start.sequence \in Nat
      /\ start.policy = "sequence" => start.sequence \in Nat \ {0}
      BY DEF Starts, All, New
<1>2. (o.mode = "owned") \in BOOLEAN  OBVIOUS
<1> QED  BY <1>1, <1>2 DEF Config, Durables, Versions

LEMMA AfterIsStart == ASSUME NEW b \in Nat
                      PROVE  After(b) \in Starts /\ After(b).policy = "sequence" /\ After(b).sequence = b + 1
BY DEF After, Starts

\* processorRecreationBoundary() is a sequence, or none that is less.
LEMMA BoundaryIs ==
    ASSUME NEW c \in Durables, Placed(c)
    PROVE  RecreationBoundary(c) \in Nat
<1>1. AckFloor(c) \in Nat /\ Delivered(c) \in Nat  BY AckFloorIs, DeliveredIs
<1>2. /\ c.base \in Nat /\ (c.policy = "sequence" => c.start - 1 = c.base)
      /\ c.policy \in {"all", "new", "sequence"}
      BY DEF Durables, Placed
<1> QED  BY <1>1, <1>2 DEF RecreationBoundary

\* rollbackConfigAtBoundary()
LEMMA RollbackIs ==
    ASSUME NEW c \in Durables, NEW b \in Nat
    PROVE  LET config == RollbackConfig(c, b)
           IN  /\ config \in Durables /\ config.acked = {} /\ config.pending = {}
               /\ config.policy = "sequence" /\ config.start = b + 1
<1> DEFINE placed  == [c EXCEPT !.policy = "sequence"]
           started == [placed EXCEPT !.start = b + 1]
           config  == [started EXCEPT !.acked = {}, !.pending = {}]
<1>1. placed \in Durables /\ placed.policy = "sequence"  BY DEF Durables
<1>2. RollbackConfig(c, b) = config  BY DEF RollbackConfig
<1> HIDE DEF placed
<1>3. started \in Durables /\ started.policy = placed.policy /\ started.start = b + 1
      BY <1>1 DEF Durables
<1> HIDE DEF started
<1>4. /\ config \in Durables /\ config.acked = {} /\ config.pending = {}
      /\ config.policy = started.policy /\ config.start = started.start
      BY <1>3 DEF Durables
<1> HIDE DEF config
<1> QED  BY <1>1, <1>2, <1>3, <1>4

\* Acknowledging what is pending moves it; nothing else of a consumer changes.
LEMMA AcknowledgedIs ==
    ASSUME TypeOK, consumer # NoConsumer, current # 0
    PROVE  /\ Acknowledged \in Durables
           /\ Acknowledged.policy = consumer.policy /\ Acknowledged.start = consumer.start
           /\ Acknowledged.base = consumer.base
           /\ Acknowledged.pending \in {consumer.pending, consumer.pending \ {current}}
           /\ Delivered(Acknowledged) = Delivered(consumer)
<1>1. consumer \in Durables /\ current \in 1 .. MaxSequence
      BY DEF TypeOK
<1>2. CASE current \in consumer.pending
  <2>1. Acknowledged = [consumer EXCEPT !.pending = @ \ {current}, !.acked = @ \cup {current}]
        BY <1>2 DEF Acknowledged
  <2>2. /\ Acknowledged \in Durables /\ Acknowledged.policy = consumer.policy
        /\ Acknowledged.start = consumer.start /\ Acknowledged.base = consumer.base
        /\ Acknowledged.pending = consumer.pending \ {current}
        /\ Acknowledged.acked = consumer.acked \cup {current}
        BY <1>1, <2>1 DEF Durables
  <2>3. {Acknowledged.base} \cup Acknowledged.acked \cup Acknowledged.pending
           = {consumer.base} \cup consumer.acked \cup consumer.pending
        BY <1>2, <2>2
  <2> QED  BY <2>2, <2>3 DEF Delivered
<1>3. CASE current \notin consumer.pending  BY <1>1, <1>3 DEF Acknowledged
<1> QED  BY <1>2, <1>3

\* A delivery joins the pending ones; a new one is behind all the others.
LEMMA DeliveredNext ==
    ASSUME NEW c \in Durables, NEW s \in 1 .. MaxSequence, NEW d,
           d = [c EXCEPT !.pending = @ \cup {s}]
    PROVE  /\ d \in Durables /\ d.policy = c.policy /\ d.start = c.start /\ d.base = c.base
           /\ d.pending = c.pending \cup {s} /\ d.acked = c.acked
           /\ s \in c.pending => Delivered(d) = Delivered(c)
           /\ s > Delivered(c) => Delivered(d) = s
<1>1. /\ d \in Durables /\ d.policy = c.policy /\ d.start = c.start /\ d.base = c.base
      /\ d.pending = c.pending \cup {s} /\ d.acked = c.acked
      BY DEF Durables
<1>2. ASSUME s \in c.pending PROVE Delivered(d) = Delivered(c)
  <2>1. c.pending \cup {s} = c.pending  BY <1>2
  <2> QED  BY <1>1, <2>1 DEF Delivered
<1>3. ASSUME s > Delivered(c) PROVE Delivered(d) = s
  <2>1. Delivered(d) \in Nat /\ Delivered(c) \in Nat  BY <1>1, DeliveredIs
  <2>2. s <= Delivered(d)  BY <1>1, DeliveredIs
  <2>3. Delivered(d) \in {c.base} \cup c.acked \cup c.pending \cup {s}  BY <1>1, DeliveredIs
  <2>4. \A x \in {c.base} \cup c.acked \cup c.pending : x <= Delivered(c)  BY DeliveredIs
  <2> QED  BY <1>3, <2>1, <2>2, <2>3, <2>4
<1> QED  BY <1>1, <1>2, <1>3

\* The queue of the iterator.
LEMMA QueueIs ==
    ASSUME NEW S, NEW q \in Seq(S)
    PROVE  /\ \A s \in S : Append(q, s) \in Seq(S) /\ Range(Append(q, s)) = Range(q) \cup {s}
           /\ q # <<>> => /\ Head(q) \in S /\ Head(q) \in Range(q)
                          /\ Tail(q) \in Seq(S) /\ Range(Tail(q)) \subseteq Range(q)
<1>1. ASSUME NEW s \in S PROVE Append(q, s) \in Seq(S) /\ Range(Append(q, s)) = Range(q) \cup {s}
      BY <1>1, AppendProperties DEF Range
<1>2. ASSUME q # <<>>
      PROVE  /\ Head(q) \in S /\ Head(q) \in Range(q)
             /\ Tail(q) \in Seq(S) /\ Range(Tail(q)) \subseteq Range(q)
      BY <1>2, HeadTailProperties, LenProperties, EmptySeq DEF Range
<1> QED  BY <1>1, <1>2

-----------------------------------------------------------------------------
(***************************************************************************)
(* Type correctness: most actions change the types of nothing but phases   *)
(* and flags; those that create or change a consumer come one by one.      *)
(***************************************************************************)
LEMMA ProcessorStarts == Init => TypeOK
<1> SUFFICES ASSUME Init PROVE TypeOK  OBVIOUS
<1>1. /\ options \in Deployments /\ options.stored \in 0 .. MaxSequence
      /\ consumer \in {NoConsumer} \cup Consumers(options.stored)
      /\ MaxSequence \in Nat
      BY ProcessorAssumption DEF Init, ProcessorAssumption
<1>2. Consumers(options.stored) \subseteq Durables
  <2>1. options.stored \in Nat /\ 1 .. options.stored \subseteq 1 .. MaxSequence  BY <1>1
  <2> HIDE DEF Init
  <2> QED  BY <1>1, <2>1 DEF Consumers, Durables
<1>3. consumer \in {NoConsumer} \cup Durables  BY <1>1, <1>2
<1>4. /\ finished \in SUBSET (1 .. MaxSequence) /\ origin \in {Unknown} \cup Nat
  <2>1. CASE consumer = NoConsumer  BY <2>1 DEF Init
  <2>2. CASE consumer # NoConsumer  BY <1>3, <2>2 DEF Init, Durables
  <2> QED  BY <2>1, <2>2
<1>5. <<>> \in Seq(1 .. MaxSequence)  OBVIOUS
<1>6. options \in Deployments /\ last \in 0 .. MaxSequence /\ 0 \in 0 .. MaxSequence
      BY <1>1 DEF Init
<1>7. /\ pc = "connecting" /\ attempt = 1 /\ boundary = Unknown /\ replaced = NoConsumer
      /\ messages = "none" /\ buffer = <<>> /\ current = 0 /\ failure = "none"
      /\ {retryGap, statusFailure, closeRequested, signal, cancelled, abandoned} \subseteq BOOLEAN
      BY DEF Init
<1> QED  BY <1>3, <1>4, <1>5, <1>6, <1>7 DEF TypeOK, Phases, Requests

\* The flags, which every action sets to a Boolean or leaves alone.
Flags == <<retryGap, statusFailure, closeRequested, signal, cancelled, abandoned>>

\* Actions that leave the server, the positions and the history alone.
Bystander ==
    \/ RequestFails \/ Missing \/ IterationEnds \/ HandlerThrows \/ HandlerIsLate
    \/ HandlerRetries \/ AckTimesOut \/ LeaseEnds \/ NextLease \/ Cleanup
    \/ Close \/ Abort \/ SignalAborts \/ Outage \/ HeartbeatFails \/ Consume

LEMMA BystanderTyped ==
    ASSUME TypeOK, Bystander
    PROVE  /\ UNCHANGED <<serverVars, boundary, history>>
           /\ replaced' \in {replaced, NoConsumer} /\ buffer' \in {buffer, <<>>}
           /\ current' \in {current, 0}
           /\ TypeOK'
<1>1. UNCHANGED <<serverVars, boundary, history>>
      BY DEF Bystander, RequestFails, Missing, IterationEnds, HandlerThrows, HandlerIsLate,
             HandlerRetries, AckTimesOut, LeaseEnds, NextLease, Cleanup, Close, Abort,
             SignalAborts, Outage, HeartbeatFails, Consume, Step, Fails, Thrown, Continue,
             serverVars, leaseVars, flowVars, endVars, history, CloseMessages
<1>2. replaced' \in {replaced, NoConsumer} /\ buffer' \in {buffer, <<>>} /\ current' \in {current, 0}
      BY DEF Bystander, RequestFails, Missing, IterationEnds, HandlerThrows, HandlerIsLate,
             HandlerRetries, AckTimesOut, LeaseEnds, NextLease, Cleanup, Close, Abort,
             SignalAborts, Outage, HeartbeatFails, Consume, Step, Fails, Thrown, Continue,
             leaseVars, flowVars, CloseMessages
<1>3. /\ pc' \in Phases /\ attempt' \in Nat /\ messages' \in {"none", "open", "closed"}
      /\ failure' \in {"none", "infrastructure", "final"}
      BY DEF TypeOK, Phases, Requests,
             Bystander, RequestFails, Missing, IterationEnds, HandlerThrows, HandlerIsLate,
             HandlerRetries, AckTimesOut, LeaseEnds, NextLease, Cleanup, Close, Abort,
             SignalAborts, Outage, HeartbeatFails, Consume, Step, Fails, Thrown, Continue,
             leaseVars, flowVars, endVars, CloseMessages
<1>4. {retryGap, statusFailure, closeRequested, signal, cancelled, abandoned}' \subseteq BOOLEAN
  <2>1. /\ retryGap' \in {retryGap, TRUE, FALSE} /\ statusFailure' \in {statusFailure, TRUE, FALSE}
        /\ closeRequested' \in {closeRequested, TRUE} /\ signal' \in {signal, TRUE}
        /\ abandoned' \in {abandoned, TRUE}
        BY DEF Bystander, RequestFails, Missing, IterationEnds, HandlerThrows, HandlerIsLate,
             HandlerRetries, AckTimesOut, LeaseEnds, NextLease, Cleanup, Close, Abort,
             SignalAborts, Outage, HeartbeatFails, Consume, Step, Fails, Thrown, Continue,
             leaseVars, flowVars, endVars
  <2>2. cancelled' \in BOOLEAN
        BY DEF TypeOK, Bystander, RequestFails, Missing, IterationEnds, HandlerThrows, HandlerIsLate,
             HandlerRetries, AckTimesOut, LeaseEnds, NextLease, Cleanup, Close, Abort,
             SignalAborts, Outage, HeartbeatFails, Consume, Step, Fails, Thrown, Continue,
             leaseVars, flowVars, endVars
  <2> QED  BY <2>1, <2>2 DEF TypeOK
<1>5. <<>> \in Seq(1 .. MaxSequence) /\ 0 \in 0 .. MaxSequence
      BY ProcessorAssumption DEF ProcessorAssumption
<1>6. TypeOK'  BY <1>1, <1>2, <1>3, <1>4, <1>5 DEF TypeOK, serverVars, history
<1> QED  BY <1>1, <1>2, <1>6

\* A consumer that starts at a sequence delivers from there.
WellPlaced == /\ consumer # NoConsumer => Placed(consumer)
              /\ replaced # NoConsumer => Placed(replaced)

LEMMA PlacedStarts == Init => WellPlaced
BY ProcessorAssumption DEF ProcessorAssumption, Init, WellPlaced

LEMMA BystanderPlaced ==
    ASSUME TypeOK, WellPlaced, Bystander
    PROVE  WellPlaced'
<1>1. consumer' = consumer /\ replaced' \in {replaced, NoConsumer}
      BY BystanderTyped DEF serverVars
<1> QED  BY <1>1 DEF WellPlaced

\* The rest of the variables, when an action touches a few of them.
LEMMA RestTyped ==
    ASSUME TypeOK, pc' \in Phases, UNCHANGED <<options, attempt, endVars, retryGap, statusFailure>>,
           last' \in 0 .. MaxSequence, consumer' \in {NoConsumer} \cup Durables,
           replaced' \in {NoConsumer} \cup Durables, boundary' \in {Unknown} \cup Nat,
           origin' \in {Unknown} \cup Nat, messages' \in {"none", "open", "closed"},
           buffer' \in Seq(1 .. MaxSequence), current' \in 0 .. MaxSequence,
           finished' \in SUBSET (1 .. MaxSequence), failure' \in {"none", "infrastructure", "final"}
    PROVE  TypeOK'
BY DEF TypeOK, endVars

LEMMA PublishTyped ==
    ASSUME TypeOK, WellPlaced, Publish
    PROVE  TypeOK' /\ WellPlaced'
<1>1. last' \in 0 .. MaxSequence
      BY ProcessorAssumption DEF ProcessorAssumption, TypeOK, Publish
<1>2. TypeOK'
      BY <1>1, RestTyped DEF TypeOK, Publish, leaseVars, flowVars, history
<1>3. WellPlaced'  BY DEF WellPlaced, Publish, leaseVars
<1> QED  BY <1>2, <1>3

LEMMA DeliverTyped ==
    ASSUME TypeOK, WellPlaced, NEW s \in 1 .. MaxSequence, Deliver(s)
    PROVE  TypeOK' /\ WellPlaced'
<1>1. consumer \in Durables  BY DEF TypeOK, Deliver
<1>2. /\ consumer' \in Durables /\ consumer'.policy = consumer.policy
      /\ consumer'.start = consumer.start /\ consumer'.base = consumer.base
      BY <1>1, DeliveredNext DEF Deliver
<1>3. buffer' \in Seq(1 .. MaxSequence)
  <2>1. buffer' = Append(buffer, s) /\ buffer \in Seq(1 .. MaxSequence)  BY DEF Deliver, TypeOK
  <2> QED  BY <2>1, QueueIs
<1>4. TypeOK'
      BY <1>2, <1>3, RestTyped DEF TypeOK, Deliver, leaseVars, history
<1>5. WellPlaced'
  <2>1. consumer # NoConsumer /\ replaced' = replaced  BY DEF Deliver, leaseVars
  <2> QED  BY <1>2, <2>1 DEF WellPlaced, Placed
<1> QED  BY <1>4, <1>5

LEMMA DeletedTyped ==
    ASSUME TypeOK, WellPlaced, DeletedByOthers
    PROVE  TypeOK' /\ WellPlaced'
<1>1. origin' \in {Unknown} \cup Nat  BY DEF TypeOK, DeletedByOthers, Forgotten
<1>2. /\ messages' \in {"none", "open", "closed"} /\ buffer' \in {buffer, <<>>}
      /\ statusFailure' \in BOOLEAN /\ consumer' = NoConsumer
      /\ UNCHANGED <<options, last, pc, leaseVars, current, failure, endVars, finished>>
      BY DEF TypeOK, DeletedByOthers
<1>3. <<>> \in Seq(1 .. MaxSequence)  OBVIOUS
<1>4. TypeOK'  BY <1>1, <1>2, <1>3 DEF TypeOK, leaseVars, endVars
<1>5. WellPlaced'  BY <1>2 DEF WellPlaced, leaseVars
<1> QED  BY <1>4, <1>5

LEMMA StartTyped ==
    ASSUME TypeOK, WellPlaced, RecreationFails \/ Reconcile \/ DeleteReplaced
    PROVE  TypeOK' /\ WellPlaced'
<1>1. /\ consumer' \in {consumer, NoConsumer} /\ replaced' \in {replaced, consumer}
      /\ origin' \in {origin, Unknown} /\ pc' \in Phases
      /\ failure' \in {"none", "infrastructure", "final"}
      BY DEF TypeOK, RecreationFails, Reconcile, DeleteReplaced, Step, Fails, Forgotten,
             serverVars, history, Phases, Requests
<1>2. UNCHANGED <<options, last, attempt, boundary, retryGap, flowVars, endVars, finished>>
      BY DEF RecreationFails, Reconcile, DeleteReplaced, Step, Fails, serverVars, history
<1>3. TypeOK'  BY <1>1, <1>2, RestTyped DEF TypeOK, flowVars
<1>4. WellPlaced'  BY <1>1 DEF WellPlaced
<1> QED  BY <1>3, <1>4

\* consumers.add(): after the boundary, or after that of the consumer that it
\* replaces.
AddStart ==
    IF replaced = NoConsumer THEN ResumeStart ELSE After(RecreationBoundary(replaced))

LEMMA AddStartIs ==
    ASSUME TypeOK, WellPlaced
    PROVE  AddStart \in Starts
<1>1. CASE replaced = NoConsumer
  <2>1. ASSUME boundary # Unknown PROVE After(boundary) \in Starts
        BY <2>1, AfterIsStart DEF TypeOK
  <2>2. options.start \in Starts  BY OptionsValid
  <2> QED  BY <1>1, <2>1, <2>2 DEF AddStart, ResumeStart
<1>2. CASE replaced # NoConsumer
  <2>1. replaced \in Durables /\ Placed(replaced)  BY <1>2 DEF TypeOK, WellPlaced
  <2>2. RecreationBoundary(replaced) \in Nat  BY <2>1, BoundaryIs
  <2> QED  BY <1>2, <2>2, AfterIsStart DEF AddStart
<1> QED  BY <1>1, <1>2

LEMMA AddedIs ==
    ASSUME TypeOK, WellPlaced, AddConsumer
    PROVE  /\ consumer' \in Durables /\ consumer'.pending = {} /\ Placed(consumer')
           /\ consumer'.policy = AddStart.policy /\ consumer'.start = AddStart.sequence
           /\ AddStart.policy = "all" => consumer'.base = 0
           /\ Delivered(consumer') = consumer'.base
           /\ origin' = IF origin = Unknown THEN consumer'.base ELSE origin
<1> DEFINE config == Config(options, AddStart)
<1>1. /\ config \in Durables /\ config.acked = {} /\ config.pending = {}
      /\ config.policy = AddStart.policy /\ config.start = AddStart.sequence
      /\ config.policy = "sequence" => config.start \in Nat \ {0}
      BY AddStartIs, ConfigIs
<1>2. consumer' = Created(config, last) /\ origin' = Origin(Created(config, last))
      BY DEF AddConsumer, AddStart
<1>3. last \in Nat  BY ProcessorAssumption DEF TypeOK, ProcessorAssumption
<1> HIDE DEF config
<1> QED  BY <1>1, <1>2, <1>3, CreatedIs DEF Origin, Placed

LEMMA AddTyped ==
    ASSUME TypeOK, WellPlaced, AddConsumer
    PROVE  TypeOK' /\ WellPlaced'
<1>1. /\ consumer' \in Durables /\ Placed(consumer')
      /\ origin' = IF origin = Unknown THEN consumer'.base ELSE origin
      BY AddedIs
<1>2. origin' \in {Unknown} \cup Nat  BY <1>1 DEF TypeOK, Durables
<1>3. /\ replaced' = NoConsumer /\ pc' = "opening"
      /\ UNCHANGED <<options, last, finished, attempt, boundary, retryGap, flowVars, failure, endVars>>
      BY DEF AddConsumer, Step
<1>4. TypeOK'
      BY <1>1, <1>2, <1>3, RestTyped DEF TypeOK, flowVars, Phases, Requests
<1> QED  BY <1>1, <1>3, <1>4 DEF WellPlaced

LEMMA RolledBackIs ==
    ASSUME TypeOK, WellPlaced, Rollback, replaced # NoConsumer
    PROVE  /\ consumer' \in Durables /\ consumer'.pending = {} /\ Placed(consumer')
           /\ consumer'.base = RecreationBoundary(replaced)
           /\ Delivered(consumer') = consumer'.base
<1> DEFINE b == RecreationBoundary(replaced)
           config == RollbackConfig(replaced, b)
<1>1. replaced \in Durables /\ b \in Nat  BY BoundaryIs DEF TypeOK, WellPlaced
<1>2. consumer' = Created(config, last)  BY DEF Rollback
<1> HIDE DEF b
<1>3. /\ config \in Durables /\ config.acked = {} /\ config.pending = {}
      /\ config.policy = "sequence" /\ config.start = b + 1
      BY <1>1, RollbackIs
<1>4. last \in Nat  BY ProcessorAssumption DEF TypeOK, ProcessorAssumption
<1> HIDE DEF config
<1>5. /\ consumer' \in Durables /\ consumer'.pending = {} /\ Placed(consumer')
      /\ consumer'.policy = "sequence" /\ consumer'.start = b + 1
      /\ Delivered(consumer') = consumer'.base
      BY <1>1, <1>2, <1>3, <1>4, CreatedIs DEF Placed
<1>6. consumer'.base \in Nat  BY <1>5 DEF Durables
<1>7. consumer'.base = b  BY <1>1, <1>5, <1>6 DEF Placed
<1> QED  BY <1>5, <1>7 DEF b

-----------------------------------------------------------------------------
(***************************************************************************)
(* What the phases mean, for any deployment.                               *)
(***************************************************************************)
Busy      == {"handling", "acking", "lost"}
Consuming == Busy \cup {"live", "final"}

Phased ==
    /\ messages = "open" => pc \in Consuming
    /\ buffer # <<>> => messages = "open"
    /\ pc \in Busy <=> current # 0
    /\ pc = "connecting" => replaced = NoConsumer
    /\ pc \in {"deleting", "rollback"} => replaced # NoConsumer
    /\ pc \in {"adding", "rollback"} => consumer = NoConsumer
    /\ abandoned => cancelled /\ closeRequested

LEMMA PhasedStarts == Init => Phased
BY DEF Init, Phased, Busy, Consuming

LEMMA BystanderPhased ==
    ASSUME TypeOK, Phased, Bystander
    PROVE  Phased'
<1>1. ASSUME RequestFails \/ Missing \/ IterationEnds \/ LeaseEnds \/ NextLease \/ Cleanup \/ Consume
      PROVE  Phased'
      BY <1>1
      DEF TypeOK, Phased, Busy, Consuming, Requests, RequestFails, Missing, IterationEnds,
          LeaseEnds, NextLease, Cleanup, Consume, Step, Fails, serverVars, leaseVars, flowVars, endVars
<1>2. ASSUME HandlerThrows \/ HandlerIsLate \/ HandlerRetries \/ AckTimesOut
      PROVE  Phased'
      BY <1>2
      DEF TypeOK, Phased, Busy, Consuming, HandlerThrows, HandlerIsLate, HandlerRetries, AckTimesOut,
          Thrown, Continue, serverVars, leaseVars, flowVars, endVars
<1>3. ASSUME Close \/ Abort \/ SignalAborts \/ Outage \/ HeartbeatFails
      PROVE  Phased'
      BY <1>3
      DEF TypeOK, Phased, Busy, Consuming, Close, Abort, SignalAborts, Outage, HeartbeatFails,
          CloseMessages, serverVars, leaseVars, flowVars, endVars
<1> QED  BY <1>1, <1>2, <1>3 DEF Bystander

LEMMA RollbackTyped ==
    ASSUME TypeOK, WellPlaced, Phased, Rollback
    PROVE  TypeOK' /\ WellPlaced' /\ Phased'
<1>1. replaced # NoConsumer  BY DEF Phased, Rollback
<1>2. consumer' \in Durables /\ Placed(consumer')  BY <1>1, RolledBackIs
<1>3. /\ replaced' = NoConsumer /\ pc' = "final" /\ failure' = "infrastructure"
      /\ UNCHANGED <<options, last, history, attempt, boundary, retryGap, flowVars, endVars>>
      BY DEF Rollback, Fails
<1>4. TypeOK'
      BY <1>2, <1>3, RestTyped DEF TypeOK, flowVars, history, Phases
<1>5. WellPlaced'  BY <1>2, <1>3 DEF WellPlaced
<1>6. Phased'
      BY <1>3 DEF Rollback, Phased, Busy, Consuming, flowVars, endVars
<1> QED  BY <1>4, <1>5, <1>6

LEMMA StartPhased ==
    ASSUME TypeOK, Phased, RecreationFails \/ Reconcile \/ DeleteReplaced \/ AddConsumer
    PROVE  Phased'
BY DEF TypeOK, Phased, Busy, Consuming, RecreationFails, Reconcile, DeleteReplaced, AddConsumer,
       Step, Fails, serverVars, flowVars, endVars, history

\* Update, OpenConsumer and RemoveOwned keep or drop the consumer.
LEMMA OpenTyped ==
    ASSUME TypeOK, WellPlaced, Phased, Update \/ OpenConsumer \/ RemoveOwned
    PROVE  TypeOK' /\ WellPlaced' /\ Phased'
<1>1. CASE Update
  <2>1. consumer \in Durables  BY <1>1 DEF TypeOK, Update
  <2>2. consumer' \in Durables /\ consumer'.policy = consumer.policy
        /\ consumer'.start = consumer.start /\ consumer'.base = consumer.base
        BY <1>1, <2>1 DEF Update, Durables, Versions
  <2>3. /\ pc' \in {"opening", "final"} /\ failure' \in {failure, "final"}
        /\ UNCHANGED <<options, last, replaced, history, attempt, boundary, retryGap, flowVars, endVars>>
        BY <1>1 DEF Update, Step, Fails
  <2>4. TypeOK'
        BY <2>2, <2>3, RestTyped DEF TypeOK, flowVars, history, Phases, Requests
  <2>5. WellPlaced'  BY <1>1, <2>2, <2>3 DEF Update, WellPlaced, Placed
  <2>6. Phased'
        BY <1>1, <2>3 DEF Update, Phased, Busy, Consuming, flowVars, endVars
  <2> QED  BY <2>4, <2>5, <2>6
<1>2. CASE OpenConsumer
  <2>1. consumer \in Durables /\ Placed(consumer)  BY <1>2 DEF TypeOK, OpenConsumer, WellPlaced
  <2>2. Delivered(consumer) \in Nat  BY <2>1, DeliveredIs
  <2>3. consumer.policy = "sequence" => consumer.start - 1 \in Nat
        BY <2>1 DEF Durables, Placed
  <2>4. FirstBoundary \in {Unknown} \cup Nat  BY <2>2, <2>3 DEF FirstBoundary, TypeOK
  <2>5. /\ pc' \in {"final", "consuming"} /\ boundary' = FirstBoundary
        /\ UNCHANGED <<serverVars, attempt, replaced, retryGap, flowVars, failure, endVars, history>>
        BY <1>2 DEF OpenConsumer
  <2>6. TypeOK'
        BY <2>4, <2>5, RestTyped DEF TypeOK, serverVars, flowVars, history, Phases, Requests
  <2>7. WellPlaced'  BY <2>5 DEF WellPlaced, serverVars
  <2>8. Phased'
        BY <1>2, <2>5 DEF OpenConsumer, Phased, Busy, Consuming, serverVars, flowVars, endVars
  <2> QED  BY <2>6, <2>7, <2>8
<1>3. CASE RemoveOwned
  <2>1. /\ consumer' \in {consumer, NoConsumer} /\ pc' = "over" /\ failure' \in {failure, "final"}
        /\ UNCHANGED <<options, last, leaseVars, flowVars, endVars, history>>
        BY <1>3 DEF RemoveOwned
  <2>2. TypeOK'
        BY <2>1, RestTyped DEF TypeOK, leaseVars, flowVars, history, Phases
  <2>3. WellPlaced'  BY <2>1 DEF WellPlaced, leaseVars
  <2>4. Phased'
        BY <1>3, <2>1 DEF RemoveOwned, Phased, Busy, Consuming, leaseVars, flowVars, endVars
  <2> QED  BY <2>2, <2>3, <2>4
<1> QED  BY <1>1, <1>2, <1>3

LEMMA ServerPhased ==
    ASSUME TypeOK, Phased, Publish \/ DeletedByOthers \/ \E s \in 1 .. MaxSequence : Deliver(s)
    PROVE  Phased'
<1>1. CASE Publish
  BY <1>1 DEF Publish, Phased, Busy, Consuming, leaseVars, flowVars, endVars
<1>2. CASE DeletedByOthers
  BY <1>2 DEF DeletedByOthers, Phased, Busy, Consuming, leaseVars, flowVars, endVars
<1>3. ASSUME NEW s \in 1 .. MaxSequence, Deliver(s) PROVE Phased'
  BY <1>3 DEF Deliver, Phased, Busy, Consuming, leaseVars, flowVars, endVars
<1> QED  BY <1>1, <1>2, <1>3

\* The message that is taken from the queue of the iterator.
LEMMA ReceiveTyped ==
    ASSUME TypeOK, WellPlaced, Phased, Receive
    PROVE  /\ TypeOK' /\ WellPlaced' /\ Phased'
           /\ current' \in {current} \cup Range(buffer) /\ Range(buffer') \subseteq Range(buffer)
<1>1. buffer \in Seq(1 .. MaxSequence) /\ buffer # <<>>  BY DEF TypeOK, Receive
<1>2. /\ Head(buffer) \in 1 .. MaxSequence /\ Head(buffer) \in Range(buffer)
      /\ Tail(buffer) \in Seq(1 .. MaxSequence) /\ Range(Tail(buffer)) \subseteq Range(buffer)
      BY ONLY <1>1, QueueIs
<1>3. /\ <<>> \in Seq(1 .. MaxSequence) /\ Range(<<>>) = {}  BY DEF Range
<1>4. CASE pc' = "final" /\ messages' = "closed" /\ buffer' = <<>> /\ current' = current
  <2>1. UNCHANGED <<serverVars, leaseVars, statusFailure, failure, endVars, history>>
        BY DEF Receive
  <2>2. TypeOK'
        BY <1>3, <1>4, <2>1, RestTyped DEF TypeOK, serverVars, leaseVars, history, Phases
  <2>3. WellPlaced'  BY <2>1 DEF WellPlaced, serverVars, leaseVars
  <2>4. Phased'
        BY <1>4, <2>1 DEF Receive, Phased, Busy, Consuming, serverVars, leaseVars, endVars
  <2> QED  BY <1>3, <1>4, <2>2, <2>3, <2>4
<1>5. CASE /\ pc' = "handling" /\ current' = Head(buffer) /\ buffer' = Tail(buffer)
           /\ messages' = messages
  <2>1. UNCHANGED <<serverVars, leaseVars, statusFailure, failure, endVars, history>>
        BY DEF Receive
  <2>2. current' \in 0 .. MaxSequence /\ current' # 0
        BY <1>2, <1>5, ProcessorAssumption DEF ProcessorAssumption
  <2>3. TypeOK'
        BY <1>2, <1>5, <2>1, <2>2, RestTyped DEF TypeOK, serverVars, leaseVars, history, Phases
  <2>4. WellPlaced'  BY <2>1 DEF WellPlaced, serverVars, leaseVars
  <2>5. Phased'
        BY <1>5, <2>1, <2>2 DEF Receive, Phased, Busy, Consuming, serverVars, leaseVars, endVars
  <2> QED  BY <1>2, <1>5, <2>3, <2>4, <2>5
<1> QED  BY <1>4, <1>5 DEF Receive

\* The handler's success, and the answer to its acknowledgement.
LEMMA SuccessTyped ==
    ASSUME TypeOK, WellPlaced, Phased, HandlerSucceeds \/ AckConfirmed
    PROVE  TypeOK' /\ WellPlaced' /\ Phased'
<1>1. current # 0 /\ current \in 1 .. MaxSequence
      BY DEF HandlerSucceeds, AckConfirmed, Phased, Busy, TypeOK
<1>2. consumer' \in {consumer, Acknowledged}
      BY DEF HandlerSucceeds, AckConfirmed, serverVars
<1>3. consumer # NoConsumer => /\ Acknowledged \in Durables /\ Acknowledged.policy = consumer.policy
                               /\ Acknowledged.start = consumer.start /\ Acknowledged.base = consumer.base
      BY <1>1, AcknowledgedIs
<1>4. consumer = NoConsumer => Acknowledged = NoConsumer  BY DEF Acknowledged
<1>5. consumer' \in {NoConsumer} \cup Durables /\ (consumer = NoConsumer <=> consumer' = NoConsumer)
      BY <1>2, <1>3, <1>4, DurableIsSome DEF TypeOK
<1>6. /\ boundary' \in {boundary, current} /\ finished' \in {finished, finished \cup {current}}
      /\ pc' \in {"live", "acking", "lost", "final"} /\ messages' = messages /\ buffer' = buffer
      /\ current' \in {current, 0} /\ failure' \in {failure, "infrastructure"}
      /\ pc' \in {"acking", "lost"} => current' = current
      /\ pc' \in {"live", "final"} => current' = 0
      /\ UNCHANGED <<options, last, attempt, replaced, retryGap, statusFailure, endVars, origin>>
      BY DEF HandlerSucceeds, AckConfirmed, Advanced, Continue, Thrown, serverVars, flowVars, history
<1>7. 0 \in 0 .. MaxSequence /\ current \in Nat
      BY <1>1, ProcessorAssumption DEF ProcessorAssumption
<1>8. TypeOK'
      BY <1>1, <1>5, <1>6, <1>7, RestTyped DEF TypeOK, Phases
<1>9. WellPlaced'  BY <1>2, <1>3, <1>4, <1>5, <1>6 DEF WellPlaced, Placed
<1>10. Phased'
       BY <1>1, <1>5, <1>6 DEF HandlerSucceeds, AckConfirmed, Phased, Busy, Consuming, endVars
<1> QED  BY <1>8, <1>9, <1>10

-----------------------------------------------------------------------------
(***************************************************************************)
(* A processor with one unacknowledged delivery at a time, upon a consumer *)
(* that such a processor leaves: everything it delivered is acknowledged   *)
(* but for the last message, which may be pending.                         *)
(***************************************************************************)
Orderly(c) == /\ \A s \in c.base + 1 .. Delivered(c) : s \in c.acked \cup c.pending
              /\ c.pending \subseteq {Delivered(c)}

OneByOne == /\ options.maxAckPending = 1
            /\ options.mode = "owned" \/ options.start = All
            /\ options.found # NoConsumer => Orderly(options.found)

\* The handler has finished everything from the origin up to n.
Done(n) == origin # Unknown => \A s \in origin + 1 .. n : s \in finished

ServerKeepsUp ==
    consumer # NoConsumer =>
        /\ consumer.pending \subseteq {Delivered(consumer)}
        /\ origin # Unknown /\ Done(consumer.base)
        /\ \A s \in origin + 1 .. Delivered(consumer) : s \in finished \cup consumer.pending

HandInOrder ==
    /\ options.mode = "owned" /\ boundary # Unknown => Done(boundary)
    /\ \A e \in Range(buffer) : Done(e - 1)
    /\ Done(current - 1)
    /\ pc = "acking" => current \in finished

Recreating == {"deleting", "adding", "rollback"}
ReplacedIsDone ==
    pc \in Recreating /\ replaced # NoConsumer =>
        /\ Done(RecreationBoundary(replaced))
        /\ pc # "deleting" => origin # Unknown

\* Without a consumer and a boundary there is no position to go on from.
PositionForgotten ==
    consumer = NoConsumer /\ boundary = Unknown /\ pc # "over"
      /\ ~(pc \in {"adding", "rollback"} /\ replaced # NoConsumer)
    => origin = Unknown

Sequenced == ServerKeepsUp /\ HandInOrder /\ ReplacedIsDone /\ PositionForgotten

Grounded == TypeOK /\ WellPlaced /\ Phased
ProcessorIInv == Grounded /\ (OneByOne => Sequenced)

LEMMA SequencedStarts == Init /\ OneByOne => Sequenced
<1> SUFFICES ASSUME Init, OneByOne PROVE Sequenced  OBVIOUS
<1>1. TypeOK  BY ProcessorStarts
<1>2. consumer = options.found /\ boundary = Unknown /\ replaced = NoConsumer /\ pc = "connecting"
      /\ buffer = <<>> /\ current = 0
      BY DEF Init
<1>3. ServerKeepsUp
  <2> SUFFICES ASSUME consumer # NoConsumer PROVE ServerKeepsUp  BY DEF ServerKeepsUp
  <2>1. Orderly(consumer)  BY <1>2 DEF OneByOne
  <2>2. consumer.base \in Nat  BY <1>1 DEF TypeOK, Durables
  <2>3. origin = consumer.base /\ finished = consumer.acked  BY DEF Init
  <2> QED  BY <2>1, <2>2, <2>3 DEF Orderly, ServerKeepsUp, Done, Unknown
<1>4. HandInOrder
  <2>1. Range(buffer) = {}  BY <1>2 DEF Range
  <2> QED  BY <1>1, <1>2, <2>1 DEF HandInOrder, Done, TypeOK
<1>5. ReplacedIsDone /\ PositionForgotten
      BY <1>2 DEF ReplacedIsDone, PositionForgotten, Init
<1> QED  BY <1>3, <1>4, <1>5 DEF Sequenced

-----------------------------------------------------------------------------
(***************************************************************************)
(* The position is kept by every action of such a processor.               *)
(***************************************************************************)
LEMMA BystanderSequenced ==
    ASSUME Grounded, Sequenced, Bystander
    PROVE  Sequenced'

<1>1. /\ UNCHANGED <<serverVars, boundary, history>>
      /\ replaced' \in {replaced, NoConsumer} /\ buffer' \in {buffer, <<>>}
      /\ current' \in {current, 0}
      BY BystanderTyped DEF Grounded
<1>2. /\ pc # "over"
      /\ pc' = "acking" => pc = "acking" /\ current' = current
      /\ pc' \in Recreating => pc \in Recreating /\ replaced' = replaced
      /\ pc' \in {"adding", "rollback"} => pc \in {"adding", "rollback"}
      /\ pc \in {"adding", "rollback"} /\ replaced # NoConsumer
            => pc' \in {"adding", "rollback"} /\ replaced' # NoConsumer
  <2>1. ASSUME RequestFails \/ Missing \/ IterationEnds \/ LeaseEnds \/ NextLease \/ Cleanup \/ Consume
        PROVE  <1>2
        BY <2>1
        DEF Grounded, Phased, Recreating, Requests, RequestFails, Missing, IterationEnds,
            LeaseEnds, NextLease, Cleanup, Consume, Step, Fails, leaseVars, flowVars
  <2>2. ASSUME HandlerThrows \/ HandlerIsLate \/ HandlerRetries \/ AckTimesOut
        PROVE  <1>2
        BY <2>2
        DEF Recreating, HandlerThrows, HandlerIsLate, HandlerRetries, AckTimesOut,
            Thrown, Continue, leaseVars, flowVars
  <2>3. ASSUME Close \/ Abort \/ SignalAborts \/ Outage \/ HeartbeatFails
        PROVE  <1>2
        BY <2>3
        DEF Grounded, Phased, Busy, Consuming, Recreating, Close, Abort, SignalAborts, Outage,
            HeartbeatFails, leaseVars, flowVars
  <2> QED  BY <2>1, <2>2, <2>3 DEF Bystander
<1>3. Range(<<>>) = {}  BY DEF Range
<1>4. UNCHANGED <<options, consumer, finished, origin, boundary>>
      BY <1>1 DEF serverVars, history
<1>5. ServerKeepsUp'  BY <1>4 DEF Sequenced, ServerKeepsUp, Done
<1>6. HandInOrder'
  <2>1. \A e \in Range(buffer') : e \in Range(buffer)  BY <1>1, <1>3
  <2>2. origin \in {Unknown} \cup Nat  BY DEF Grounded, TypeOK
  <2> QED  BY <1>1, <1>2, <1>4, <2>1, <2>2 DEF Sequenced, HandInOrder, Done, Unknown
<1>7. ReplacedIsDone'
      BY <1>2, <1>4 DEF Sequenced, ReplacedIsDone, Done, Recreating
<1>8. PositionForgotten'
      BY <1>1, <1>2, <1>4 DEF Sequenced, PositionForgotten
<1> QED  BY <1>5, <1>6, <1>7, <1>8 DEF Sequenced

\* Nothing changes but the stream or the queue of the iterator.
LEMMA ReceiveSequenced ==
    ASSUME Grounded, Sequenced, Publish \/ Receive
    PROVE  Sequenced'
<1>1. /\ UNCHANGED <<options, consumer, boundary, replaced, history>>
      /\ pc' \in {pc, "final", "handling"}
      /\ pc \in Consuming \/ pc' = pc
      /\ pc' = "acking" => pc = "acking" /\ current' = current
      BY DEF Publish, Receive, serverVars, leaseVars, history, Consuming, flowVars
<1>2. current' \in {current} \cup Range(buffer) /\ Range(buffer') \subseteq Range(buffer)
  <2>1. CASE Receive  BY <2>1, ReceiveTyped DEF Grounded
  <2>2. CASE Publish  BY <2>2 DEF Publish, flowVars
  <2> QED  BY <2>1, <2>2
<1>3. ServerKeepsUp'  BY <1>1 DEF Sequenced, ServerKeepsUp, Done, history
<1>4. HandInOrder'  BY <1>1, <1>2 DEF Sequenced, HandInOrder, Done, history
<1>5. ReplacedIsDone'
      BY <1>1 DEF Sequenced, ReplacedIsDone, Done, history, Recreating
<1>6. PositionForgotten'
      BY <1>1 DEF Sequenced, PositionForgotten, history, Consuming, Busy
<1> QED  BY <1>3, <1>4, <1>5, <1>6 DEF Sequenced

\* With one delivery at a time, the one that is pending is the last one, and a
\* new one follows only when none is: all before it are finished.
LEMMA DeliverSequenced ==
    ASSUME Grounded, Sequenced, OneByOne, NEW s \in 1 .. MaxSequence, Deliver(s)
    PROVE  Sequenced'
<1>1. consumer \in Durables /\ consumer # NoConsumer
      BY DEF Grounded, TypeOK, Deliver
<1>2. consumer' = [consumer EXCEPT !.pending = @ \cup {s}] /\ buffer' = Append(buffer, s)
      BY DEF Deliver
<1>3. UNCHANGED <<options, pc, boundary, replaced, current, history>>
      BY DEF Deliver, leaseVars
<1>4. consumer.pending # {} => Cardinality(consumer.pending) >= 1
  <2>1. consumer.pending \subseteq 1 .. MaxSequence /\ MaxSequence \in Nat
        BY <1>1, ProcessorAssumption DEF Durables, ProcessorAssumption
  <2>2. IsFiniteSet(consumer.pending)
    <3>1. IsFiniteSet(1 .. MaxSequence)  BY <2>1, FS_Interval
    <3> QED  BY ONLY <2>1, <3>1, FS_Subset
  <2>3. Cardinality(consumer.pending) \in Nat
        /\ (Cardinality(consumer.pending) = 0 <=> consumer.pending = {})
        BY <2>2, FS_CardinalityType, FS_EmptySet
  <2> QED  BY <2>3
<1>5. \/ s \in consumer.pending
      \/ s = Delivered(consumer) + 1 /\ consumer.pending = {}
  <2>1. options.maxAckPending = 1  BY DEF OneByOne
  <2>2. \/ s \in consumer.pending
        \/ s = Delivered(consumer) + 1 /\ Cardinality(consumer.pending) < options.maxAckPending
        BY DEF Deliver
  <2>3. ~(1 < 1) /\ (Cardinality(consumer.pending) >= 1 => ~(Cardinality(consumer.pending) < 1))
    <3>1. consumer.pending \subseteq 1 .. MaxSequence /\ MaxSequence \in Nat
          BY <1>1, ProcessorAssumption DEF Durables, ProcessorAssumption
    <3>2. IsFiniteSet(1 .. MaxSequence)  BY <3>1, FS_Interval
    <3>3. IsFiniteSet(consumer.pending)  BY ONLY <3>1, <3>2, FS_Subset
    <3>4. Cardinality(consumer.pending) \in Nat  BY <3>3, FS_CardinalityType
    <3> QED  BY <3>4
  <2> QED  BY <1>4, <2>1, <2>2, <2>3
<1>6. /\ consumer' \in Durables /\ consumer'.base = consumer.base
      /\ consumer'.pending = consumer.pending \cup {s}
      /\ s \in consumer.pending => Delivered(consumer') = Delivered(consumer)
      /\ s > Delivered(consumer) => Delivered(consumer') = s
      BY <1>1, <1>2, DeliveredNext
<1>7. Delivered(consumer) \in Nat /\ origin \in Nat /\ consumer.base \in Nat
  <2>1. origin # Unknown  BY <1>1 DEF Sequenced, ServerKeepsUp
  <2> QED  BY <1>1, <2>1, DeliveredIs DEF Grounded, TypeOK, Durables
<1>8. /\ consumer.pending \subseteq {Delivered(consumer)} /\ Done(consumer.base)
      /\ \A m \in origin + 1 .. Delivered(consumer) : m \in finished \cup consumer.pending
      BY <1>1 DEF Sequenced, ServerKeepsUp
<1>9. Done(s - 1)
  <2>1. CASE s \in consumer.pending
    <3>1. s = Delivered(consumer)  BY <1>8, <2>1
    <3> QED  BY <1>7, <1>8, <3>1 DEF Done
  <2>2. CASE s = Delivered(consumer) + 1 /\ consumer.pending = {}
        BY <1>7, <1>8, <2>2 DEF Done
  <2> QED  BY <1>5, <2>1, <2>2
<1>10. ServerKeepsUp'
  <2>1. /\ consumer'.pending \subseteq {Delivered(consumer')}
        /\ \A m \in origin + 1 .. Delivered(consumer') : m \in finished \cup consumer'.pending
    <3>1. CASE s \in consumer.pending  BY <1>6, <1>8, <3>1
    <3>2. CASE s = Delivered(consumer) + 1 /\ consumer.pending = {}
          BY <1>6, <1>7, <1>8, <3>2
    <3> QED  BY <1>5, <3>1, <3>2
  <2>2. origin # Unknown  BY <1>7 DEF Unknown
  <2> QED  BY <1>3, <1>6, <1>8, <2>1, <2>2 DEF ServerKeepsUp, Done, history
<1>11. HandInOrder'
  <2>1. \E S : buffer \in Seq(S) /\ s \in S  BY DEF Grounded, TypeOK
  <2>2. Range(Append(buffer, s)) = Range(buffer) \cup {s}  BY ONLY <2>1, QueueIs
  <2>3. Range(buffer') = Range(buffer) \cup {s}  BY <1>2, <2>2
  <2> QED  BY <1>3, <1>9, <2>3 DEF Sequenced, HandInOrder, Done, history
<1>12. ReplacedIsDone'  BY <1>3 DEF Sequenced, ReplacedIsDone, Done, history
<1>13. PositionForgotten'  BY <1>6, DurableIsSome DEF PositionForgotten
<1> QED  BY <1>10, <1>11, <1>12, <1>13 DEF Sequenced

\* With the consumer goes the position, unless the boundary has it.
LEMMA DeletedSequenced ==
    ASSUME Grounded, Sequenced, DeletedByOthers
    PROVE  Sequenced'
<1>1. /\ consumer' = NoConsumer /\ origin' = Forgotten /\ finished' = finished
      /\ UNCHANGED <<options, pc, boundary, replaced, current>> /\ buffer' \in {buffer, <<>>}
      BY DEF DeletedByOthers, leaseVars
<1>2. origin' \in {origin, Unknown} /\ (boundary = Unknown => origin' = Unknown)
      BY <1>1 DEF Forgotten
<1>3. Range(<<>>) = {}  BY DEF Range
<1>4. ServerKeepsUp' /\ PositionForgotten'
      BY <1>1, <1>2 DEF ServerKeepsUp, PositionForgotten
<1>5. HandInOrder'
  <2>1. \A e \in Range(buffer') : e \in Range(buffer)  BY <1>1, <1>3
  <2> QED  BY <1>1, <1>2, <2>1 DEF Sequenced, HandInOrder, Done
<1>6. ReplacedIsDone'
  <2>1. pc \notin {"adding", "rollback"}  BY DEF DeletedByOthers, Grounded, Phased
  <2> QED  BY <1>1, <1>2, <2>1 DEF Sequenced, ReplacedIsDone, Done, Recreating
<1> QED  BY <1>4, <1>5, <1>6 DEF Sequenced

\* processorRecreationBoundary() of the consumer at hand: all up to there is
\* finished, or recreation is refused.
LEMMA BoundaryIsDone ==
    ASSUME Grounded, Sequenced, consumer # NoConsumer, ~RefusesRecreation(consumer)
    PROVE  Done(RecreationBoundary(consumer))
<1>1. consumer \in Durables /\ Placed(consumer)  BY DEF Grounded, TypeOK, WellPlaced
<1>2. /\ AckFloor(consumer) \in Nat /\ AckFloor(consumer) <= Delivered(consumer)
      /\ AckFloor(consumer) > 0 => \A p \in consumer.pending : AckFloor(consumer) < p
      /\ Delivered(consumer) \in Nat
      /\ Delivered(consumer) \in {consumer.base} \cup consumer.acked \cup consumer.pending
      BY <1>1, AckFloorIs, DeliveredIs
<1>3. /\ origin \in Nat /\ Done(consumer.base)
      /\ \A s \in origin + 1 .. Delivered(consumer) : s \in finished \cup consumer.pending
  <2>1. origin # Unknown /\ origin \in {Unknown} \cup Nat
        BY DEF Sequenced, ServerKeepsUp, Grounded, TypeOK
  <2> QED  BY <2>1 DEF Sequenced, ServerKeepsUp
<1>4. CASE AckFloor(consumer) > 0
  <2>1. RecreationBoundary(consumer) = AckFloor(consumer)  BY <1>4 DEF RecreationBoundary
  <2>2. ASSUME NEW s \in origin + 1 .. AckFloor(consumer) PROVE s \in finished
    <3>1. s \in origin + 1 .. Delivered(consumer) /\ s <= AckFloor(consumer) /\ s \in Int
          BY <1>2, <1>3
    <3>2. ASSUME s \in consumer.pending PROVE FALSE
          BY <1>2, <1>4, <3>1, <3>2
    <3> QED  BY <1>3, <3>1, <3>2
  <2> QED  BY <2>1, <2>2 DEF Done
<1>5. CASE AckFloor(consumer) = 0
  <2>1. consumer.base \in Nat /\ (consumer.policy = "sequence" => consumer.start - 1 = consumer.base)
        BY <1>1 DEF Durables, Placed
  <2>2. CASE consumer.policy = "sequence"
    <3>1. RecreationBoundary(consumer) = consumer.base
          BY <1>5, <2>1, <2>2 DEF RecreationBoundary
    <3> QED  BY <1>3, <3>1
  <2>3. CASE consumer.policy = "new"
    <3>1. Untouched(consumer)  BY <1>5, <2>3 DEF RefusesRecreation
    <3>2. Delivered(consumer) = consumer.base  BY <1>2, <3>1 DEF Untouched
    <3>3. RecreationBoundary(consumer) = consumer.base
          BY <1>5, <2>3, <3>2 DEF RecreationBoundary
    <3> QED  BY <1>3, <3>3
  <2>4. CASE consumer.policy = "all"
    <3>1. RecreationBoundary(consumer) = 0  BY <1>5, <2>4 DEF RecreationBoundary
    <3> QED  BY <1>3, <3>1 DEF Done
  <2>5. consumer.policy \in {"all", "new", "sequence"}  BY <1>1 DEF Durables
  <2> QED  BY <2>2, <2>3, <2>4, <2>5
<1> QED  BY <1>2, <1>4, <1>5

LEMMA StartSequenced ==
    ASSUME Grounded, Sequenced, RecreationFails \/ Reconcile \/ DeleteReplaced
    PROVE  Sequenced'
<1>1. /\ finished' = finished /\ UNCHANGED <<options, boundary, buffer, current>>
      BY DEF RecreationFails, Reconcile, DeleteReplaced, Step, Fails, serverVars, history, flowVars
<1>2. /\ pc \in {"connecting", "deleting", "rollback"}
      /\ pc' \in {"final", "adding", "deleting", "updating", "opening"}
      BY DEF RecreationFails, Reconcile, DeleteReplaced, Step, Fails
<1>3. HandInOrder'
  <2>1. origin' \in {origin, Unknown}
        BY DEF RecreationFails, Reconcile, DeleteReplaced, Forgotten, history
  <2> QED  BY <1>1, <1>2, <2>1 DEF Sequenced, HandInOrder, Done
<1>4. CASE RecreationFails
  <2>1. /\ pc' = "final"
        /\ \/ consumer' = consumer /\ origin' = origin /\ pc = "deleting"
           \/ consumer' = NoConsumer /\ origin' = Forgotten
        BY <1>4 DEF RecreationFails, Fails
  <2>2. ServerKeepsUp'  BY <1>1, <2>1 DEF Sequenced, ServerKeepsUp, Done
  <2>3. ReplacedIsDone'  BY <2>1 DEF ReplacedIsDone, Recreating
  <2>4. PositionForgotten'
        BY <1>1, <2>1 DEF Sequenced, PositionForgotten, Forgotten
  <2> QED  BY <1>3, <2>2, <2>3, <2>4 DEF Sequenced
<1>5. CASE Reconcile
  <2>1. /\ consumer' = consumer /\ origin' = origin /\ pc = "connecting" /\ replaced = NoConsumer
        /\ \/ pc' \notin Recreating /\ replaced' = replaced
           \/ pc' = "adding" /\ replaced' = replaced
           \/ /\ pc' = "deleting" /\ replaced' = consumer /\ consumer # NoConsumer
              /\ ~RefusesRecreation(consumer)
        BY <1>5 DEF Reconcile, Fails, Step, serverVars, history, Recreating, Grounded, Phased
  <2>2. ServerKeepsUp'  BY <1>1, <2>1 DEF Sequenced, ServerKeepsUp, Done
  <2>3. ReplacedIsDone'
    <3>1. ASSUME pc' = "deleting", consumer # NoConsumer, ~RefusesRecreation(consumer), replaced' = consumer
          PROVE  ReplacedIsDone'
      <4>1. Done(RecreationBoundary(consumer))  BY <3>1, BoundaryIsDone
      <4> QED  BY <1>1, <2>1, <3>1, <4>1 DEF ReplacedIsDone, Done
    <3> QED  BY <2>1, <3>1 DEF ReplacedIsDone
  <2>4. PositionForgotten'
        BY <1>1, <2>1 DEF Sequenced, PositionForgotten, Recreating
  <2> QED  BY <1>3, <2>2, <2>3, <2>4 DEF Sequenced
<1>6. CASE DeleteReplaced
  <2>1. /\ consumer' = NoConsumer /\ consumer # NoConsumer /\ pc = "deleting" /\ pc' = "adding"
        /\ origin' = origin /\ replaced' = replaced /\ replaced # NoConsumer
        BY <1>6 DEF DeleteReplaced, Step, history, Grounded, Phased
  <2>2. origin # Unknown /\ Done(RecreationBoundary(replaced))
        BY <2>1 DEF Sequenced, ServerKeepsUp, ReplacedIsDone, Recreating
  <2>3. ServerKeepsUp' /\ PositionForgotten'
        BY <2>1 DEF ServerKeepsUp, PositionForgotten
  <2>4. ReplacedIsDone'  BY <1>1, <2>1, <2>2 DEF ReplacedIsDone, Done
  <2> QED  BY <1>3, <2>3, <2>4 DEF Sequenced
<1> QED  BY <1>4, <1>5, <1>6

\* A created consumer starts after what is finished, or where the position is
\* set anew.
LEMMA AddSequenced ==
    ASSUME Grounded, Sequenced, OneByOne, AddConsumer
    PROVE  Sequenced'
<1>1. /\ consumer' \in Durables /\ consumer'.pending = {} /\ Placed(consumer')
      /\ consumer'.policy = AddStart.policy /\ consumer'.start = AddStart.sequence
      /\ AddStart.policy = "all" => consumer'.base = 0
      /\ Delivered(consumer') = consumer'.base
      /\ origin' = IF origin = Unknown THEN consumer'.base ELSE origin
      BY AddedIs DEF Grounded
<1>2. /\ pc = "adding" /\ pc' = "opening" /\ consumer = NoConsumer
      /\ UNCHANGED <<options, finished, boundary, buffer, current>>
      BY DEF AddConsumer, Step, flowVars
<1>3. consumer'.base \in Nat /\ origin \in {Unknown} \cup Nat /\ origin' \in Nat
  <2>1. consumer'.base \in Nat /\ origin \in {Unknown} \cup Nat
        BY <1>1 DEF Durables, Grounded, TypeOK
  <2> QED  BY <1>1, <2>1
<1>4. origin # Unknown => Done(consumer'.base)
  <2> SUFFICES ASSUME origin # Unknown PROVE Done(consumer'.base)  OBVIOUS
  <2>1. CASE replaced # NoConsumer
    <3>1. replaced \in Durables /\ Placed(replaced)
          BY <2>1 DEF Grounded, TypeOK, WellPlaced
    <3>2. RecreationBoundary(replaced) \in Nat /\ Done(RecreationBoundary(replaced))
          BY <1>2, <2>1, <3>1, BoundaryIs DEF Sequenced, ReplacedIsDone, Recreating
    <3>3. consumer'.base = RecreationBoundary(replaced)
          BY <1>1, <1>3, <2>1, <3>2, AfterIsStart DEF AddStart, Placed
    <3> QED  BY <3>2, <3>3
  <2>2. CASE replaced = NoConsumer /\ options.mode = "owned"
    <3>1. boundary # Unknown
          BY <1>2, <2>2 DEF Sequenced, PositionForgotten
    <3>2. boundary \in Nat /\ Done(boundary)
          BY <2>2, <3>1 DEF Sequenced, HandInOrder, Grounded, TypeOK
    <3>3. AddStart = After(boundary)  BY <2>2, <3>1 DEF AddStart, ResumeStart
    <3>4. consumer'.base = boundary
          BY <1>1, <1>3, <3>2, <3>3, AfterIsStart DEF Placed
    <3> QED  BY <3>2, <3>4
  <2>3. CASE replaced = NoConsumer /\ options.mode # "owned"
    <3>1. options.start = All  BY <2>3 DEF OneByOne
    <3>2. AddStart.policy = "all"  BY <2>3, <3>1 DEF AddStart, ResumeStart, All
    <3> QED  BY <1>1, <1>3, <3>2 DEF Done
  <2> QED  BY <2>1, <2>2, <2>3
<1>5. ServerKeepsUp'
  <2>1. origin' # Unknown  BY <1>3 DEF Unknown
  <2>2. \A m \in origin' + 1 .. consumer'.base : m \in finished
    <3>1. CASE origin = Unknown
      <4>1. origin' = consumer'.base  BY <1>1, <3>1
      <4> QED  BY <1>3, <4>1
    <3>2. CASE origin # Unknown
      <4>1. origin' = origin  BY <1>1, <3>2
      <4> QED  BY <1>4, <3>2, <4>1 DEF Done
    <3> QED  BY <3>1, <3>2
  <2> QED  BY <1>1, <1>2, <2>1, <2>2 DEF ServerKeepsUp, Done
<1>6. HandInOrder'
  <2>1. current = 0 /\ buffer = <<>> /\ Range(<<>>) = {}
        BY <1>2 DEF Grounded, Phased, Busy, Consuming, Range
  <2>2. options.mode = "owned" /\ boundary # Unknown => \A m \in origin' + 1 .. boundary : m \in finished
    <3> SUFFICES ASSUME options.mode = "owned", boundary # Unknown
                 PROVE  \A m \in origin' + 1 .. boundary : m \in finished
        OBVIOUS
    <3>1. boundary \in Nat /\ Done(boundary)
          BY DEF Sequenced, HandInOrder, Grounded, TypeOK
    <3>2. CASE origin # Unknown  BY <1>1, <3>1, <3>2 DEF Done
    <3>3. CASE origin = Unknown
      <4>1. replaced = NoConsumer
            BY <1>2, <3>3 DEF Sequenced, ReplacedIsDone, Recreating
      <4>2. AddStart = After(boundary)  BY <4>1 DEF AddStart, ResumeStart
      <4>3. consumer'.base = boundary
            BY <1>1, <1>3, <3>1, <4>2, AfterIsStart DEF Placed
      <4> QED  BY <1>1, <3>1, <3>3, <4>3
    <3> QED  BY <3>2, <3>3
  <2>3. \A n \in Nat : \A m \in n + 1 .. 0 - 1 : m \in finished  OBVIOUS
  <2> QED  BY <1>2, <1>3, <2>1, <2>2, <2>3 DEF HandInOrder, Done
<1>7. ReplacedIsDone' /\ PositionForgotten'
      BY <1>1, <1>2, DurableIsSome DEF ReplacedIsDone, Recreating, PositionForgotten
<1> QED  BY <1>5, <1>6, <1>7 DEF Sequenced

\* A rollback brings the old consumer back, after what is finished.
LEMMA RollbackSequenced ==
    ASSUME Grounded, Sequenced, Rollback
    PROVE  Sequenced'
<1>1. pc = "rollback" /\ replaced # NoConsumer  BY DEF Rollback, Grounded, Phased
<1>2. /\ consumer' \in Durables /\ consumer'.pending = {}
      /\ consumer'.base = RecreationBoundary(replaced) /\ Delivered(consumer') = consumer'.base
      BY <1>1, RolledBackIs DEF Grounded
<1>3. pc' = "final" /\ UNCHANGED <<options, finished, origin, boundary, buffer, current>>
      BY DEF Rollback, Fails, history, flowVars
<1>4. origin # Unknown /\ Done(RecreationBoundary(replaced))
      BY <1>1 DEF Sequenced, ReplacedIsDone, Recreating
<1>5. ServerKeepsUp'  BY <1>2, <1>3, <1>4 DEF ServerKeepsUp, Done
<1>6. HandInOrder'  BY <1>3 DEF Sequenced, HandInOrder, Done
<1>7. ReplacedIsDone' /\ PositionForgotten'
      BY <1>2, <1>3, DurableIsSome DEF ReplacedIsDone, Recreating, PositionForgotten
<1> QED  BY <1>5, <1>6, <1>7 DEF Sequenced

\* An update leaves the deliveries alone; the first boundary of a lease is the
\* base of its consumer.
LEMMA OpenSequenced ==
    ASSUME Grounded, Sequenced, Update \/ OpenConsumer \/ RemoveOwned
    PROVE  Sequenced'
<1>1. /\ UNCHANGED <<options, finished, origin, buffer, current>>
      /\ pc' \in {"opening", "consuming", "final", "over"}
      BY DEF Update, OpenConsumer, RemoveOwned, Step, Fails, serverVars, flowVars, history
<1>2. CASE Update
  <2>1. consumer \in Durables /\ consumer # NoConsumer  BY <1>2 DEF Grounded, TypeOK, Update
  <2>2. /\ consumer'.base = consumer.base /\ consumer'.acked = consumer.acked
        /\ consumer'.pending = consumer.pending /\ consumer' \in Durables
        BY <1>2, <2>1 DEF Update, Durables, Versions
  <2>3. Delivered(consumer') = Delivered(consumer)  BY <2>2 DEF Delivered
  <2>4. boundary' = boundary  BY <1>2 DEF Update, Step, Fails
  <2>5. ServerKeepsUp'  BY <1>1, <2>1, <2>2, <2>3 DEF Sequenced, ServerKeepsUp, Done
  <2>6. HandInOrder'  BY <1>1, <2>4 DEF Sequenced, HandInOrder, Done
  <2>7. ReplacedIsDone' /\ PositionForgotten'
        BY <1>1, <2>2, DurableIsSome DEF ReplacedIsDone, Recreating, PositionForgotten
  <2> QED  BY <2>5, <2>6, <2>7 DEF Sequenced
<1>3. CASE OpenConsumer
  <2>1. consumer' = consumer /\ consumer # NoConsumer /\ boundary' = FirstBoundary
        BY <1>3 DEF OpenConsumer, serverVars
  <2>2. consumer \in Durables /\ Placed(consumer)
        BY <2>1 DEF Grounded, TypeOK, WellPlaced
  <2>3. Done(consumer.base)  BY <2>1 DEF Sequenced, ServerKeepsUp
  <2>4. ASSUME options.mode = "owned", FirstBoundary # Unknown PROVE Done(FirstBoundary)
    <3>1. CASE boundary # Unknown
          BY <2>4, <3>1 DEF FirstBoundary, Sequenced, HandInOrder
    <3>2. CASE boundary = Unknown /\ consumer.policy = "sequence"
      <4>1. consumer.base \in Nat /\ consumer.start - 1 = consumer.base
            BY <2>2, <3>2 DEF Placed, Durables
      <4> QED  BY <2>3, <3>2, <4>1 DEF FirstBoundary
    <3>3. CASE boundary = Unknown /\ consumer.policy # "sequence"
      <4>1. Untouched(consumer) /\ FirstBoundary = Delivered(consumer)
            BY <2>4, <3>3 DEF FirstBoundary
      <4>2. Delivered(consumer) = consumer.base
            BY <2>2, <4>1, DeliveredIs DEF Untouched
      <4> QED  BY <2>3, <4>1, <4>2
    <3> QED  BY <3>1, <3>2, <3>3
  <2>5. ServerKeepsUp'  BY <1>1, <2>1 DEF Sequenced, ServerKeepsUp, Done
  <2>6. HandInOrder'
    <3>1. pc' # "acking"  BY <1>1
    <3> QED  BY <1>1, <2>1, <2>4, <3>1 DEF Sequenced, HandInOrder, Done
  <2>7. ReplacedIsDone' /\ PositionForgotten'
        BY <1>1, <2>1 DEF ReplacedIsDone, Recreating, PositionForgotten
  <2> QED  BY <2>5, <2>6, <2>7 DEF Sequenced
<1>4. CASE RemoveOwned
  <2>1. /\ consumer' \in {consumer, NoConsumer} /\ pc' = "over"
        /\ UNCHANGED boundary
        BY <1>4 DEF RemoveOwned, leaseVars
  <2>2. ServerKeepsUp'  BY <1>1, <2>1 DEF Sequenced, ServerKeepsUp, Done
  <2>3. HandInOrder'  BY <1>1, <2>1 DEF Sequenced, HandInOrder, Done
  <2>4. ReplacedIsDone' /\ PositionForgotten'
        BY <2>1 DEF ReplacedIsDone, Recreating, PositionForgotten
  <2> QED  BY <2>2, <2>3, <2>4 DEF Sequenced
<1> QED  BY <1>2, <1>3, <1>4

\* What the handler finishes is the next message, if it is not one that came
\* again; its acknowledgement takes it out of the pending ones.
LEMMA SuccessSequenced ==
    ASSUME Grounded, Sequenced, HandlerSucceeds \/ AckConfirmed
    PROVE  Sequenced'
<1>1. current # 0 /\ current \in 1 .. MaxSequence
      BY DEF HandlerSucceeds, AckConfirmed, Grounded, Phased, Busy, TypeOK
<1>2. /\ UNCHANGED <<options, origin, buffer, replaced>>
      /\ consumer' \in {consumer, Acknowledged}
      /\ boundary' \in {boundary, current} /\ current' \in {current, 0}
      /\ pc \in {"handling", "acking"} /\ pc' \in {"live", "acking", "lost", "final"}
      /\ finished' = finished \cup {current}
      /\ pc' = "acking" => current' = current
  <2>1. CASE HandlerSucceeds
        BY <2>1 DEF HandlerSucceeds, Advanced, Continue, flowVars
  <2>2. CASE AckConfirmed
    <3>1. pc = "acking" /\ finished' = finished  BY <2>2 DEF AckConfirmed, history
    <3>2. current \in finished  BY <3>1 DEF Sequenced, HandInOrder
    <3> QED  BY <2>2, <3>1, <3>2 DEF AckConfirmed, Advanced, Continue, Thrown, serverVars, flowVars, history
  <2> QED  BY <2>1, <2>2
<1> DEFINE DoneNext(n) == origin # Unknown => \A s \in origin + 1 .. n : s \in finished'
<1>3. \A n : Done(n) => DoneNext(n)  BY <1>2 DEF Done
<1>4. DoneNext(current)
  <2>1. Done(current - 1) /\ origin \in {Unknown} \cup Nat /\ current \in Nat
        BY <1>1 DEF Sequenced, HandInOrder, Grounded, TypeOK
  <2>2. ASSUME origin # Unknown, NEW s \in origin + 1 .. current PROVE s \in finished \cup {current}
        BY <2>1, <2>2 DEF Done
  <2> QED  BY <1>2, <2>2 DEF Done
<1>5. ServerKeepsUp'
  <2> SUFFICES ASSUME consumer' # NoConsumer PROVE ServerKeepsUp'  BY DEF ServerKeepsUp
  <2>1. consumer # NoConsumer  BY <1>2 DEF Acknowledged
  <2>2. /\ consumer'.base = consumer.base /\ Delivered(consumer') = Delivered(consumer)
        /\ consumer'.pending \in {consumer.pending, consumer.pending \ {current}}
        BY <1>1, <1>2, <2>1, AcknowledgedIs DEF Grounded
  <2>3. DoneNext(consumer.base) /\ origin # Unknown
        BY <1>3, <2>1 DEF Sequenced, ServerKeepsUp
  <2>4. \A s \in origin + 1 .. Delivered(consumer) : s \in finished' \cup consumer'.pending
        BY <1>2, <2>1, <2>2 DEF Sequenced, ServerKeepsUp
  <2>5. consumer'.pending \subseteq {Delivered(consumer')}
        BY <2>1, <2>2 DEF Sequenced, ServerKeepsUp
  <2> QED  BY <1>2, <2>2, <2>3, <2>4, <2>5 DEF ServerKeepsUp, Done
<1>6. HandInOrder'
  <2>1. options.mode = "owned" /\ boundary' # Unknown => DoneNext(boundary')
        BY <1>2, <1>3, <1>4 DEF Sequenced, HandInOrder
  <2>2. \A e \in Range(buffer) : DoneNext(e - 1)  BY <1>3 DEF Sequenced, HandInOrder
  <2>3. DoneNext(current' - 1)
    <3>1. CASE current' = current  BY <1>3, <3>1 DEF Sequenced, HandInOrder
    <3>2. CASE current' = 0
      <4>1. \A n \in Nat : \A m \in n + 1 .. 0 - 1 : m \in finished'  OBVIOUS
      <4> QED  BY <3>2, <4>1 DEF Grounded, TypeOK
    <3> QED  BY <1>2, <3>1, <3>2
  <2>4. pc' = "acking" => current' \in finished'  BY <1>2
  <2> QED  BY <1>2, <2>1, <2>2, <2>3, <2>4 DEF HandInOrder, Done
<1>7. ReplacedIsDone'  BY <1>2 DEF ReplacedIsDone, Recreating
<1>8. PositionForgotten'
  <2>1. current # Unknown  BY <1>1 DEF Unknown
  <2>2. consumer' = NoConsumer => consumer = NoConsumer
    <3>1. consumer # NoConsumer => Acknowledged # NoConsumer
          BY <1>1, AcknowledgedIs, DurableIsSome DEF Grounded
    <3> QED  BY <1>2, <3>1
  <2> QED  BY <1>2, <2>1, <2>2 DEF Sequenced, PositionForgotten
<1> QED  BY <1>5, <1>6, <1>7, <1>8 DEF Sequenced

-----------------------------------------------------------------------------
(***************************************************************************)
(* The invariant and the theorems.                                         *)
(***************************************************************************)
LEMMA ProcessorInvariantStarts == Init => ProcessorIInv
BY ProcessorStarts, PlacedStarts, PhasedStarts, SequencedStarts DEF ProcessorIInv, Grounded

LEMMA StepsTyped ==
    ASSUME Grounded, Next
    PROVE  Grounded' /\ options' = options
<1>1. ASSUME Bystander PROVE Grounded' /\ options' = options
      BY <1>1, BystanderTyped, BystanderPlaced, BystanderPhased DEF Grounded, serverVars
<1>2. ASSUME Publish \/ DeletedByOthers \/ \E s \in 1 .. MaxSequence : Deliver(s)
      PROVE  Grounded' /\ options' = options
      BY <1>2, PublishTyped, DeletedTyped, DeliverTyped, ServerPhased
      DEF Grounded, Publish, DeletedByOthers, Deliver
<1>3. ASSUME RecreationFails \/ Reconcile \/ DeleteReplaced \/ AddConsumer
      PROVE  Grounded' /\ options' = options
      BY <1>3, StartTyped, AddTyped, StartPhased
      DEF Grounded, RecreationFails, Reconcile, DeleteReplaced, AddConsumer, serverVars
<1>4. ASSUME Rollback \/ Update \/ OpenConsumer \/ RemoveOwned
      PROVE  Grounded' /\ options' = options
      BY <1>4, RollbackTyped, OpenTyped
      DEF Grounded, Rollback, Update, OpenConsumer, RemoveOwned, serverVars
<1>5. ASSUME Receive \/ HandlerSucceeds \/ AckConfirmed
      PROVE  Grounded' /\ options' = options
      BY <1>5, ReceiveTyped, SuccessTyped
      DEF Grounded, Receive, HandlerSucceeds, AckConfirmed, serverVars
<1> QED  BY <1>1, <1>2, <1>3, <1>4, <1>5
         DEF Next, Starting, Working, Ending, Caller, Server, Bystander

LEMMA StepsSequenced ==
    ASSUME Grounded, Sequenced, OneByOne, Next
    PROVE  Sequenced'
BY BystanderSequenced, ReceiveSequenced, DeliverSequenced, DeletedSequenced, StartSequenced,
   AddSequenced, RollbackSequenced, OpenSequenced, SuccessSequenced
DEF Next, Starting, Working, Ending, Caller, Server, Bystander

LEMMA ProcessorSteps == ProcessorIInv /\ [Next]_vars => ProcessorIInv'
<1> SUFFICES ASSUME ProcessorIInv, [Next]_vars PROVE ProcessorIInv'  OBVIOUS
<1>1. CASE Next
  <2>1. Grounded' /\ options' = options  BY <1>1, StepsTyped DEF ProcessorIInv
  <2>2. OneByOne' => OneByOne  BY <2>1 DEF OneByOne, Orderly
  <2> QED  BY <1>1, <2>1, <2>2, StepsSequenced DEF ProcessorIInv
<1>2. CASE UNCHANGED vars
  <2>1. UNCHANGED <<options, last, consumer, pc, attempt, boundary, replaced, retryGap, messages,
                    buffer, current, statusFailure>>
        /\ UNCHANGED <<failure, closeRequested, signal, cancelled, abandoned, finished, origin>>
        BY <1>2 DEF vars, serverVars, leaseVars, flowVars, endVars, history
  <2>2. Grounded'  BY <2>1 DEF ProcessorIInv, Grounded, TypeOK, WellPlaced, Phased
  <2>3. Sequenced => Sequenced'
        BY <2>1 DEF Sequenced, ServerKeepsUp, HandInOrder, ReplacedIsDone, PositionForgotten, Done
  <2>4. OneByOne' => OneByOne  BY <2>1 DEF OneByOne, Orderly
  <2> QED  BY <2>2, <2>3, <2>4 DEF ProcessorIInv
<1> QED  BY <1>1, <1>2

\* The inductive invariant: types, what the phases mean, and where the position
\* of a processor with one delivery at a time is kept.
THEOREM ProcessorInvariant == Spec => []ProcessorIInv
BY ProcessorInvariantStarts, ProcessorSteps, PTL DEF Spec

\* Every variable of a processor keeps its type.
THEOREM ProcessorTyped == Spec => []TypeOK
<1>1. ProcessorIInv => TypeOK  BY DEF ProcessorIInv, Grounded
<1> QED  BY <1>1, ProcessorInvariant, PTL

\* A processor that has one unacknowledged delivery at a time, owned or with
\* start:"all", leaves no message out that its handler has not finished:
\* deletions by others, recreation, rollback, redelivery, lost acknowledgements
\* and any number of recoveries notwithstanding (jetstream/index.ts:1395,
\* processor-admin.ts:839-933).
THEOREM OneAtATimeLeavesNothingOut == Spec => [](OneByOne => NothingLeftOut)
<1>1. ProcessorIInv => (OneByOne => NothingLeftOut)
      BY DEF ProcessorIInv, Sequenced, ServerKeepsUp, NothingLeftOut
<1> QED  BY <1>1, ProcessorInvariant, PTL

\* What an aborted processor's handlers still return is neither recorded as
\* finished nor acknowledged.
LEMMA AbortedStaysSo ==
    ASSUME Grounded, Next, abandoned
    PROVE  /\ finished' = finished
           /\ consumer # NoConsumer /\ consumer' # NoConsumer => consumer'.acked \subseteq consumer.acked
<1>1. cancelled /\ ~HandlerSucceeds  BY DEF Grounded, Phased, HandlerSucceeds, Late
<1>2. ASSUME Bystander
      PROVE  finished' = finished /\ consumer' = consumer
      BY <1>2, BystanderTyped DEF Grounded, serverVars, history
<1>3. ASSUME Publish \/ DeletedByOthers \/ Receive \/ AckConfirmed \/ RecreationFails \/ Reconcile
                \/ DeleteReplaced \/ OpenConsumer \/ RemoveOwned
      PROVE  finished' = finished /\ consumer' \in {consumer, NoConsumer}
      BY <1>3 DEF Publish, DeletedByOthers, Receive, AckConfirmed, RecreationFails, Reconcile,
                  DeleteReplaced, OpenConsumer, RemoveOwned, serverVars, history
<1>4. ASSUME AddConsumer \/ Rollback
      PROVE  finished' = finished /\ consumer = NoConsumer
      BY <1>4 DEF AddConsumer, Rollback, history
<1>5. ASSUME Update \/ \E s \in 1 .. MaxSequence : Deliver(s)
      PROVE  finished' = finished /\ consumer'.acked = consumer.acked
  <2>1. consumer \in Durables
        BY <1>5 DEF Grounded, TypeOK, Update, Deliver
  <2> QED  BY <1>5, <2>1 DEF Update, Deliver, Durables, history
<1> QED  BY <1>1, <1>2, <1>3, <1>4, <1>5
         DEF Next, Starting, Working, Ending, Caller, Server, Bystander

\* After abort() no result of a handler is acknowledged
\* (docs/PRODUCTION.md:38), in whatever lease and however late it comes.
THEOREM LateResultsAreDropped == Spec => LateResultsDropped
<1>1. ProcessorIInv /\ [Next]_vars
      => [abandoned => /\ finished' = finished
                       /\ consumer # NoConsumer /\ consumer' # NoConsumer
                             => consumer'.acked \subseteq consumer.acked]_vars
  <2> SUFFICES ASSUME ProcessorIInv, Next, abandoned
               PROVE  /\ finished' = finished
                      /\ consumer # NoConsumer /\ consumer' # NoConsumer
                            => consumer'.acked \subseteq consumer.acked
      OBVIOUS
  <2> QED  BY AbortedStaysSo DEF ProcessorIInv
<1> QED  BY <1>1, ProcessorInvariant, PTL DEF Spec, LateResultsDropped

=============================================================================
