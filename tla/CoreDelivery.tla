---------------------------- MODULE CoreDelivery ----------------------------
(***************************************************************************)
(* The core of a runtime in use: subscriptions (CoreSubscription), their   *)
(* Effect streams (createSubjectStream()), a request, the resources that   *)
(* count against the limits (manage()), and the shutdown of all of them.   *)
(* How the connection itself is made and replaced is NatsRuntime's matter; *)
(* here one action stands for each outcome.                                *)
(*                                                                         *)
(* The server, nats.js subscriptions and handlers are external.  Messages  *)
(* of a subscription are numbered; nats.js hands them over in order, those *)
(* already buffered even after the subscription is closed, and drain()     *)
(* closes it when all that was in flight has arrived.                      *)
(***************************************************************************)
EXTENDS RuntimeFeed, FiniteSets

CONSTANTS Subs,       \* subscriptions
          Policies,   \* what consumes them: a callback or an overflow strategy
          bufferSize, \* of the Effect streams
          Leases,     \* JetStream resources, each of one consumer
          limit,      \* limits.maxJetStreamConsumers
          MaxInputs   \* bound on what users and the network do

\* resolveSubjectStreamOptions() accepts these strategies, and no empty buffer.
Strategies      == {"suspend", "error", "dropping", "sliding"}
ValidBuffer(n)  == n \in Nat \ {0}

ASSUME DeliveryAssumption ==
    /\ Policies \subseteq {"callback"} \cup Strategies
    /\ ValidBuffer(bufferSize) /\ limit \in Nat /\ MaxInputs \in Nat

VARIABLES
    connection,  \* the shared connection: none, pending, up, down
    closePhase,  \* where close() of the runtime stands
    sub,         \* the subscriptions, with their nats.js subscription
    stream,      \* the Effect stream that a subscription feeds
    request,     \* a request(): its operation, and the promise of the caller
    lease,       \* state of each JetStream resource
    used,        \* usedJetStreamConsumers
    inputs       \* number of inputs so far

coreVars == <<connection, closePhase, sub, stream, request, lease, used>>
vars     == <<feedVars, coreVars, inputs>>

Promise == {"pending", "resolved", "rejected"}

CoreTypeOK ==
    /\ connection \in {"none", "pending", "up", "down"}
    /\ closePhase \in {"open", "closing", "settled"}
    /\ sub \in [Subs ->
         [policy  : Policies \cup {"none"},
          pc      : {"none", "connecting", "starting", "refused", "waiting", "decoding",
                     "handling", "ended"},
          native  : {"none", "open", "draining", "closed"},
          error   : BOOLEAN,   \* the server has refused the subscription
          lost    : BOOLEAN,   \* its connection closed for good
          routed  : Nat, arrived : Nat, pulled : Nat, done : Nat,
          closing : BOOLEAN,   \* closeRequested
          cancelled : BOOLEAN, \* cancellation is aborted
          stopped : BOOLEAN,   \* options.signal is aborted
          ready   : Promise, closed : Promise]]
    /\ stream \in [Subs -> [queue : Seq(Nat), taken : Seq(Nat),
                            state : {"open", "failed", "ended", "shutdown"},
                            seen  : {"nothing", "failure", "end", "interrupt"}]]
    /\ request \in [op     : {"none", "connecting", "sending", "sent", "over"},
                    result : Promise, aborted : BOOLEAN]
    /\ lease \in [Leases -> {"none", "open", "closing", "ended"}]
    /\ used \in Int
    /\ inputs \in 0 .. MaxInputs

CoreInit ==
    /\ FeedInit
    /\ connection = "none" /\ closePhase = "open"
    /\ sub = [s \in Subs |->
               [policy |-> "none", pc |-> "none", native |-> "none", error |-> FALSE,
                lost |-> FALSE, routed |-> 0, arrived |-> 0, pulled |-> 0, done |-> 0,
                closing |-> FALSE, cancelled |-> FALSE, stopped |-> FALSE,
                ready |-> "pending", closed |-> "pending"]]
    /\ stream = [s \in Subs |-> [queue |-> <<>>, taken |-> <<>>, state |-> "open",
                                 seen |-> "nothing"]]
    /\ request = [op |-> "none", result |-> "pending", aborted |-> FALSE]
    /\ lease = [l \in Leases |-> "none"]
    /\ used = 0 /\ inputs = 0

Input == inputs < MaxInputs /\ inputs' = inputs + 1

Connected == connection \in {"up", "down"}
Active(x) == x.pc \notin {"none", "ended"}
Live      == {l \in Leases : lease[l] \in {"open", "closing"}}

-----------------------------------------------------------------------------
(***************************************************************************)
(* The connection.  Subscriptions and the request wait for one shared      *)
(* promise and go on with its outcome.                                     *)
(***************************************************************************)
\* connection(): starts an attempt unless there is a promise to share.
AskConnection ==
    IF connection = "none"
    THEN connection' = "pending" /\ Emit(<<"connecting", "diagnostic">>)
    ELSE UNCHANGED <<connection, feedVars>>

\* connection() or publish() of other code.
Connect ==
    /\ closePhase = "open" /\ connection = "none" /\ Input
    /\ AskConnection
    /\ UNCHANGED <<closePhase, sub, stream, request, lease, used>>

Outcome(x, next) == IF x.pc = "connecting" THEN [x EXCEPT !.pc = next] ELSE x

PromiseSettles(ok) ==
    /\ sub' = [s \in Subs |-> Outcome(sub[s], IF ok THEN "starting" ELSE "refused")]
    /\ request' = IF request.op # "connecting" THEN request
                  ELSE IF ok THEN [request EXCEPT !.op = "sending"]
                  ELSE [request EXCEPT !.op = "over",
                           !.result = IF @ = "pending" THEN "rejected" ELSE @]

Established ==
    /\ connection = "pending" /\ closePhase = "open"
    /\ connection' = "up"
    /\ PromiseSettles(TRUE)
    /\ Emit(<<"diagnostic", "connected">>)
    /\ UNCHANGED <<closePhase, stream, lease, used, inputs>>

\* The attempt fails, or yields a connection that is discarded after close().
Refused ==
    /\ connection = "pending"
    /\ connection' = "none"
    /\ PromiseSettles(FALSE)
    /\ Emit(IF closePhase = "open" THEN <<"diagnostic", "diagnostic", "disconnected">>
            ELSE <<"diagnostic">>)
    /\ UNCHANGED <<closePhase, stream, lease, used, inputs>>

\* nats.js loses its link and finds it again: nothing is reported after close().
Reported(s) == IF closePhase = "open" THEN Emit(<<s>>) ELSE UNCHANGED feedVars

LinkDrops ==
    /\ connection = "up" /\ Input
    /\ connection' = "down" /\ Reported("disconnected")
    /\ UNCHANGED <<closePhase, sub, stream, request, lease, used>>

LinkRecovers ==
    /\ connection = "down"
    /\ connection' = "up" /\ Reported("connected")
    /\ UNCHANGED <<closePhase, sub, stream, request, lease, used, inputs>>

\* A status of the connection that changes nothing but is reported.
Reports ==
    /\ connection = "up" /\ closePhase = "open" /\ Input
    /\ Emit(<<"diagnostic">>)
    /\ UNCHANGED coreVars

\* A closed connection closes its subscriptions; what is buffered stays.
Cut(x) == IF x.native \in {"open", "draining"}
          THEN [x EXCEPT !.native = "closed", !.lost = TRUE] ELSE x

CutAll == sub' = [s \in Subs |-> Cut(sub[s])]

\* handlePermanentClose(), with onPermanentClose = "restart".
ClosesForGood ==
    /\ Connected /\ Input
    /\ CutAll
    /\ IF closePhase = "open"
       THEN /\ connection' = "pending"
            /\ Emit(<<"diagnostic", "disconnected", "connecting", "diagnostic">>)
       ELSE connection' = "none" /\ UNCHANGED feedVars
    /\ UNCHANGED <<closePhase, stream, request, lease, used>>

-----------------------------------------------------------------------------
(***************************************************************************)
(* CoreSubscription.  start() runs as the loop `pc`.                       *)
(***************************************************************************)
\* start() is over: the finally block unsubscribes.
Over(x, ready, closed) ==
    [x EXCEPT !.pc     = "ended",
              !.native = IF @ = "none" THEN @ ELSE "closed",
              !.ready  = IF @ = "pending" THEN ready ELSE @,
              !.closed = closed]

Ended(x)  == Over(x, "resolved", "resolved")
Failed(x) == Over(x, "rejected", "rejected")

ClosingAtOnce(x) == [x EXCEPT !.closing = TRUE,
                              !.native  = IF @ = "none" THEN @ ELSE "closed"]

\* close(): drain a subscription that is open, else only ask the loop to end.
Closing(x) == [x EXCEPT !.closing = TRUE,
                        !.native  = IF ~x.closing /\ @ = "open" THEN "draining" ELSE @]

AbortedLater(x) ==
    [x EXCEPT !.closing = TRUE, !.cancelled = TRUE,
              !.native  = IF @ = "none" THEN @ ELSE "closed"]

\* abort(): only the wait for the connection is left at once.
Aborted(x) ==
    LET y == [x EXCEPT !.closing = TRUE, !.cancelled = TRUE,
                       !.native  = IF @ = "none" THEN @ ELSE "closed"]
    IN  IF x.pc = "connecting" THEN Failed(y) ELSE y

SubStep(s, x) == sub' = [sub EXCEPT ![s] = x]

BesideSub    == <<connection, closePhase, request, lease, used, feedVars>>
OnlySubMoves == UNCHANGED <<BesideSub, stream, inputs>>

\* subscribe() of a runtime that is open.
Subscribe(s, policy) ==
    /\ closePhase = "open" /\ sub[s].pc = "none" /\ Input
    /\ SubStep(s, [sub[s] EXCEPT !.policy = policy,
                                 !.pc = IF Connected THEN "starting" ELSE "connecting"])
    /\ AskConnection
    /\ UNCHANGED <<closePhase, stream, request, lease, used>>

Start(s) ==
    LET x == sub[s] IN
    /\ x.pc = "starting"
    /\ SubStep(s, IF x.closing \/ x.stopped THEN Ended(x)
                  ELSE IF ~Connected THEN Failed(x)
                  ELSE [x EXCEPT !.native = "open", !.ready = "resolved", !.pc = "waiting"])
    /\ OnlySubMoves

\* The connection failed: a lease that was asked to close has nothing to report.
StartFails(s) ==
    LET x == sub[s] IN
    /\ x.pc = "refused"
    /\ SubStep(s, IF x.closing /\ ~x.cancelled THEN Ended(x) ELSE Failed(x))
    /\ OnlySubMoves

\* The iterator yields a message: no handling begins after an abort.
Checked(x, pc) == IF x.cancelled THEN Failed(x) ELSE [x EXCEPT !.pc = pc]

Next(s) ==
    LET x == sub[s] IN
    /\ x.pc = "waiting" /\ ~x.error /\ x.pulled < x.arrived
    /\ SubStep(s, Checked([x EXCEPT !.pulled = @ + 1], "decoding"))
    /\ OnlySubMoves

Decoded(s) ==
    /\ sub[s].pc = "decoding"
    /\ SubStep(s, Checked(sub[s], "handling"))
    /\ OnlySubMoves

\* The decoder or the handler throws.
Throws(s) ==
    /\ \/ sub[s].pc = "decoding"
       \/ sub[s].pc = "handling" /\ sub[s].policy = "callback"
    /\ Input
    /\ SubStep(s, Failed(sub[s]))
    /\ UNCHANGED <<BesideSub, stream>>

Returned(x) == Checked([x EXCEPT !.done = @ + 1], "waiting")

Returns(s) ==
    /\ sub[s].pc = "handling" /\ sub[s].policy = "callback"
    /\ SubStep(s, Returned(sub[s]))
    /\ OnlySubMoves

\* The iterator ends, or throws the error of the subscription.
LoopEnds(s) ==
    LET x == sub[s] IN
    /\ x.pc = "waiting" /\ x.native = "closed"
    /\ x.error \/ x.pulled = x.arrived
    /\ SubStep(s, IF x.error THEN Failed(x) ELSE Ended(x))
    /\ OnlySubMoves

\* close() of the lease, and its options.signal, which start() begins to
\* listen to when it has subscribed.
Close(s) ==
    /\ Active(sub[s]) /\ ~sub[s].closing /\ Input
    /\ SubStep(s, Closing(sub[s]))
    /\ UNCHANGED <<BesideSub, stream>>

Stopped(x) == LET y == [x EXCEPT !.stopped = TRUE]
              IN  IF x.native = "none" THEN y ELSE Aborted(y)

SignalAborts(s) ==
    /\ Active(sub[s]) /\ ~sub[s].stopped /\ Input
    /\ SubStep(s, Stopped(sub[s]))
    /\ UNCHANGED <<BesideSub, stream>>

-----------------------------------------------------------------------------
(***************************************************************************)
(* The server and nats.js.                                                 *)
(***************************************************************************)
Route(s) ==
    /\ connection = "up" /\ sub[s].native \in {"open", "draining"} /\ Input
    /\ SubStep(s, [sub[s] EXCEPT !.routed = @ + 1])
    /\ UNCHANGED <<BesideSub, stream>>

Arrives(s) ==
    /\ connection = "up" /\ sub[s].native \in {"open", "draining"}
    /\ sub[s].arrived < sub[s].routed
    /\ SubStep(s, [sub[s] EXCEPT !.arrived = @ + 1])
    /\ OnlySubMoves

Drained(s) ==
    /\ connection = "up" /\ sub[s].native = "draining"
    /\ sub[s].arrived = sub[s].routed
    /\ SubStep(s, [sub[s] EXCEPT !.native = "closed"])
    /\ OnlySubMoves

Denied(s) ==
    /\ connection = "up" /\ sub[s].native = "open" /\ Input
    /\ SubStep(s, [sub[s] EXCEPT !.native = "closed", !.error = TRUE])
    /\ UNCHANGED <<BesideSub, stream>>

-----------------------------------------------------------------------------
(***************************************************************************)
(* createSubjectStream(): the handler offers each message to a queue, the  *)
(* lease's end ends the queue, and an interruption stops both.             *)
(***************************************************************************)
StreamOf(s) == sub[s].policy \notin {"none", "callback"}
Full(q)     == Len(q.queue) >= bufferSize
Add(q, m)   == [q EXCEPT !.queue = Append(@, m)]

OfferedOrDropped(q, policy, m) ==
    IF q.state # "open" THEN q
    ELSE IF ~Full(q) THEN Add(q, m)
    ELSE IF policy = "sliding" THEN Add([q EXCEPT !.queue = Tail(@)], m)
    ELSE q

\* A full queue makes room, refuses the message, or fails; or else the handler
\* is parked until a take, the signal or an interruption wakes it.
Offered(q, policy, m) ==
    IF q.state # "open" THEN q
    ELSE IF ~Full(q) THEN Add(q, m)
    ELSE IF policy = "sliding" THEN Add([q EXCEPT !.queue = Tail(@)], m)
    ELSE IF policy = "error" THEN [q EXCEPT !.state = "failed"]
    ELSE q

Parked(s) ==
    /\ sub[s].policy = "suspend" /\ stream[s].state = "open" /\ Full(stream[s])
    /\ ~sub[s].stopped

Offer(s) ==
    LET x == sub[s]
        q == Offered(stream[s], x.policy, x.pulled)
    IN
    /\ x.pc = "handling" /\ StreamOf(s) /\ ~Parked(s)
    /\ stream' = [stream EXCEPT ![s] = q]
    /\ SubStep(s, IF stream[s].state = "open" /\ q.state = "failed"
                  THEN Failed(x) ELSE Returned(x))
    /\ UNCHANGED <<BesideSub, inputs>>

\* lease.closed, or lease.ready, has settled.
SourceEnds(s) ==
    /\ StreamOf(s) /\ stream[s].state = "open" /\ sub[s].closed # "pending"
    /\ stream' = [stream EXCEPT ![s].state =
                     IF sub[s].closed = "resolved" THEN "ended" ELSE "failed"]
    /\ UNCHANGED <<BesideSub, sub, inputs>>

Take(s) ==
    LET q == stream[s] IN
    /\ q.queue # <<>> /\ q.state # "shutdown"
    /\ stream' = [stream EXCEPT ![s].taken = Append(@, Head(q.queue)), ![s].queue = Tail(@)]
    /\ UNCHANGED <<BesideSub, sub, inputs>>

SeesEnd(s) ==
    LET q == stream[s] IN
    /\ q.queue = <<>> /\ q.seen = "nothing" /\ q.state \in {"failed", "ended"}
    /\ stream' = [stream EXCEPT ![s].seen = IF q.state = "ended" THEN "end" ELSE "failure"]
    /\ UNCHANGED <<BesideSub, sub, inputs>>

\* releaseLease(): the signal, the queue, and then close() of the lease.
Interrupt(s) ==
    /\ StreamOf(s) /\ stream[s].seen = "nothing" /\ Input
    /\ stream' = [stream EXCEPT ![s] = [@ EXCEPT !.queue = <<>>, !.state = "shutdown",
                                                 !.seen = "interrupt"]]
    /\ SubStep(s, IF Active(sub[s]) THEN Closing(Stopped(sub[s])) ELSE sub[s])
    /\ UNCHANGED BesideSub

-----------------------------------------------------------------------------
(***************************************************************************)
(* request(): the caller's promise ends with its signal or the runtime,    *)
(* the operation behind it does not.                                       *)
(***************************************************************************)
BesideRequest == <<closePhase, sub, stream, lease, used>>

Request ==
    /\ closePhase = "open" /\ request.op = "none" /\ Input
    /\ request' = [request EXCEPT !.op = IF Connected THEN "sending" ELSE "connecting"]
    /\ AskConnection
    /\ UNCHANGED BesideRequest

\* A request that was aborted while it waited for the connection is not sent.
Send ==
    /\ request.op = "sending"
    /\ request' = IF Connected /\ ~request.aborted THEN [request EXCEPT !.op = "sent"]
                  ELSE [request EXCEPT !.op = "over",
                           !.result = IF @ = "pending" THEN "rejected" ELSE @]
    /\ UNCHANGED <<BesideRequest, feedVars, connection, inputs>>

\* The answer, or nats.js's timeout.
Answered ==
    /\ request.op = "sent"
    /\ \E result \in {"resolved", "rejected"} :
          request' = [request EXCEPT !.op = "over",
                         !.result = IF @ = "pending" THEN result ELSE @]
    /\ UNCHANGED <<BesideRequest, feedVars, connection, inputs>>

AbortRequest ==
    /\ request.op \notin {"none", "over"} /\ ~request.aborted /\ Input
    /\ request' = [request EXCEPT !.aborted = TRUE, !.result = "rejected"]
    /\ UNCHANGED <<BesideRequest, feedVars, connection>>

-----------------------------------------------------------------------------
(***************************************************************************)
(* manage() of a resource that needs one consumer: it is refused beyond    *)
(* the limit, and gives its share back when its creation throws, or when   *)
(* it has closed.  `opened` and `thrown` are what follows for the caller.  *)
(***************************************************************************)
Reserved(n) == n + 1
Released(n) == n - 1

Manage(l, opened, thrown) ==
    \/ /\ closePhase = "open" /\ used + 1 <= limit
       /\ lease' = [lease EXCEPT ![l] = "open"]
       /\ used' = Reserved(used) /\ opened
       /\ UNCHANGED feedVars
    \/ /\ closePhase = "open" /\ used + 1 > limit
       /\ Emit(<<"diagnostic">>) /\ thrown
       /\ UNCHANGED <<lease, used>>
    \/ /\ closePhase # "open" /\ thrown
       /\ UNCHANGED <<feedVars, lease, used>>

\* create() throws: what was reserved is released.
CreateThrows(thrown) ==
    /\ closePhase = "open" /\ used + 1 <= limit
    /\ used' = Released(Reserved(used)) /\ thrown
    /\ UNCHANGED <<feedVars, lease>>

LeaseEnds(l) ==
    /\ l \in Live
    /\ lease' = [lease EXCEPT ![l] = "ended"]
    /\ used' = Released(used)
    /\ UNCHANGED <<feedVars, connection, closePhase, sub, stream, request>>

-----------------------------------------------------------------------------
(***************************************************************************)
(* close() and closeRuntime().                                             *)
(***************************************************************************)
ClosingLeases == lease' = [l \in Leases |-> IF lease[l] = "open" THEN "closing" ELSE lease[l]]

CloseRuntime ==
    /\ closePhase = "open"
    /\ closePhase' = "closing"
    /\ Emit(<<"diagnostic">>)
    /\ sub' = [s \in Subs |-> IF Active(sub[s]) THEN Closing(sub[s]) ELSE sub[s]]
    /\ ClosingLeases
    /\ request' = IF request.op = "none" \/ request.result # "pending" THEN request
                  ELSE [request EXCEPT !.result = "rejected"]
    /\ UNCHANGED <<connection, stream, used>>

\* All resources have ended and the connection is drained, or was not made.
ShutdownEnds ==
    /\ closePhase = "closing"
    /\ Live = {} /\ \A s \in Subs : ~Active(sub[s])
    /\ connection \in {"none", "up"}
    /\ closePhase' = "settled" /\ connection' = "none"
    /\ Emit(<<"diagnostic", "closed">>)
    /\ UNCHANGED <<sub, stream, request, lease, used, inputs>>

\* The deadline: abort the resources and close the connection at once.
Deadline ==
    /\ closePhase = "closing"
    /\ closePhase' = "settled"
    /\ connection' = IF Connected THEN "none" ELSE connection
    /\ sub' = [s \in Subs |-> IF Active(sub[s]) THEN Aborted(sub[s]) ELSE sub[s]]
    /\ Emit(<<"diagnostic", "closed">>)
    /\ UNCHANGED <<stream, request, lease, used, inputs>>

-----------------------------------------------------------------------------
(***************************************************************************)
(* A lease that has closed without an error has handled every message the  *)
(* server had routed to it, those in flight at the close included, unless  *)
(* it was aborted or its connection was lost.                              *)
(***************************************************************************)
GracefulLosesNothing ==
    \A s \in Subs : LET x == sub[s] IN
        x.closed = "resolved" /\ ~x.cancelled /\ ~x.lost => x.done = x.routed

(***************************************************************************)
(* A stream of a strategy that must not lose messages does not end well    *)
(* when one is missing: it has handed on all that was routed, in order.    *)
(***************************************************************************)
StreamTellsLosses ==
    \A s \in Subs : LET x == sub[s] IN
        /\ stream[s].seen = "end" /\ x.policy \in {"suspend", "error"}
        /\ ~x.cancelled /\ ~x.lost
        => stream[s].taken = [m \in 1 .. x.routed |-> m]
=============================================================================
