---------------------------- MODULE BrowserBroker ----------------------------
(***************************************************************************)
(* @natsail/browser-broker: a worker opens one physical source for all the *)
(* tabs that attach to it and sends each tab its deliveries in batches, of *)
(* which one is in flight; a tab acknowledges a batch after its handler    *)
(* has accepted every item.  Worker and tab talk over a MessagePort, which *)
(* keeps the order of the messages in each direction.                      *)
(*                                                                         *)
(* The worker may be lost and replaced, a tab may open a new port at any   *)
(* time, and both sides go on with what they believe.  There is one source *)
(* key with one contract, and one lease per tab.  A delivery is its        *)
(* sequence in the stream, which is also its cursor.                       *)
(***************************************************************************)
EXTENDS Integers, FiniteSets, Sequences, SequencesExt

CONSTANTS Tabs,
          MaxSequence,      \* bound on the messages of the stream
          MaxGenerations,   \* bound on the ports each tab opens
          Instances,        \* the tabs there are, and the bound on what Trouble names
          Starts,           \* where a source without a cursor may start
          MaxRetained,      \* maxRetainedItems
          MaxTabQueue,      \* maxTabQueueItems
          MaxBatch,         \* maxBatchItems
          Grace,            \* idleTeardownMs is not 0
          SourceMayEnd      \* the physical source may end by itself

ASSUME BrokerAssumption ==
    /\ MaxSequence \in Nat /\ Starts \subseteq 0 .. MaxSequence
    /\ MaxGenerations \in [Tabs -> Nat \ {0}]
    /\ Instances \subseteq [tabs : SUBSET Tabs, troubles : Nat]
    /\ {MaxRetained, MaxTabQueue, MaxBatch} \subseteq Nat \ {0}
    /\ {Grace, SourceMayEnd} \subseteq BOOLEAN

VARIABLES
    source,       \* the PhysicalSource of the key and its session
    host,         \* HostClient, its HostSubscription and what it has posted
    up,           \* commands on their way to the worker, per port
    troubles,     \* troubles that are left
    generation,   \* connectionGeneration
    link,         \* how far establish() is
    reconnecting, \* establish() was called by reconnect()
    lease,        \* state of the tab's ClientSourceLease
    cursor,       \* lastCursor, 0 when there is none
    chain,        \* acceptChain: the batches received and not done
    acking,       \* the first batch of the chain awaits its acknowledgement
    seen,         \* history: highest sequence the handler has accepted
    gap,          \* history: a sequence was passed over
    blind         \* history: a lease reattached without a cursor

hostVars    == <<source, host, troubles>>
tabVars     == <<generation, link, reconnecting, lease, cursor, chain, acking>>
history     == <<seen, gap, blind>>
brokerVars  == <<hostVars, up, tabVars, history>>

Ports == UNION {{t} \X (1 .. MaxGenerations[t]) : t \in Tabs}
Port(t) == <<t, generation[t]>>
HasPort(t) == link[t] \in {"hello", "reattach", "up"}
Listening(p) == p = Port(p[1]) /\ HasPort(p[1])

(***************************************************************************)
(* What applications, sources and links do to disturb the delivery, whose  *)
(* number is bounded: a tab reconnects or loses its port without need, the *)
(* worker is lost, a source or a handler fails, a lease or a tab closes.   *)
(***************************************************************************)
Trouble == troubles > 0 /\ troubles' = troubles - 1
TroubleUnless(expected) == IF expected THEN UNCHANGED troubles ELSE Trouble

NoSource == [phase |-> "none", position |-> 0, log |-> <<>>,
             truncated |-> FALSE, timer |-> FALSE]
NoClient == [status |-> "none", attached |-> FALSE, pending |-> <<>>,
             inflight |-> <<>>, batch |-> 0, cursor |-> 0, lagged |-> FALSE,
             waiting |-> "no", down |-> <<>>]

Result(of, ok) == [type |-> "result", of |-> of, ok |-> ok]
State(state)   == [type |-> "state", state |-> state]
Batch(id, items) == [type |-> "batch", id |-> id, items |-> items]
Attach(of, after) == [type |-> of, after |-> after]

\* createBrowserBrokerClient() hands out a client that is connected; a tab that
\* is not there counts as one that has been closed.
BrokerInit ==
    /\ source = NoSource
    /\ \E i \in Instances :
          /\ troubles = i.troubles
          /\ link = [t \in Tabs |-> IF t \in i.tabs THEN "up" ELSE "closed"]
          /\ host = [p \in Ports |->
                [NoClient EXCEPT !.status = IF p[1] \in i.tabs /\ p[2] = 1 THEN "open" ELSE @]]
    /\ up = [p \in Ports |-> <<>>]
    /\ generation = [t \in Tabs |-> 1]
    /\ reconnecting = [t \in Tabs |-> FALSE]
    /\ lease = [t \in Tabs |-> "idle"]
    /\ cursor = [t \in Tabs |-> 0]
    /\ chain = [t \in Tabs |-> <<>>]
    /\ acking = [t \in Tabs |-> FALSE]
    /\ seen = [t \in Tabs |-> 0]
    /\ gap = [t \in Tabs |-> FALSE]
    /\ blind = [t \in Tabs |-> FALSE]

-----------------------------------------------------------------------------
(***************************************************************************)
(* The worker.  These operators give the client h of port p after a call.  *)
(***************************************************************************)
Post(h, p, message) == IF Listening(p) THEN [h EXCEPT !.down = Append(@, message)] ELSE h

\* flush(): the next batch, when none is in flight.
Flush(h, p) ==
    LET n == IF Len(h.pending) < MaxBatch THEN Len(h.pending) ELSE MaxBatch
        items == SubSeq(h.pending, 1, n)
    IN  IF h.lagged \/ h.inflight # <<>> \/ h.pending = <<>> THEN h
        ELSE Post([h EXCEPT !.pending = SubSeq(@, n + 1, Len(@)),
                            !.inflight = items, !.batch = @ + 1],
                  p, Batch(h.batch + 1, items))

RequireResume(h, p) ==
    Post([h EXCEPT !.lagged = TRUE, !.pending = <<>>, !.inflight = <<>>],
         p, State("resume-required"))

\* The bound counts the batch in flight.
Full(h) == Len(h.pending) + Len(h.inflight) + 1 > MaxTabQueue

Enqueue(h, p, s) ==
    IF h.lagged THEN h
    ELSE IF Full(h) THEN RequireResume(h, p)
         ELSE Flush([h EXCEPT !.pending = Append(@, s)], p)

\* The loop of enqueueRetained() for a client that has just attached, with
\* nothing queued: the first entry goes out at once and the others wait for
\* its acknowledgement, unless the entry is among them that meets the bound.
EnqueueAll(h, p, entries) ==
    IF entries = <<>> THEN h
    ELSE LET first == Enqueue(h, p, Head(entries))
         IN  IF Len(entries) > MaxTabQueue THEN RequireResume(first, p)
             ELSE [first EXCEPT !.pending = Tail(entries)]

\* Where the retained log has the cursor a tab goes on after, or 0.
Index(log, after) == SelectInSeq(log, LAMBDA s : s = after)
CoversLoosely(log, after) == log # <<>>
Covers(log, after) == Index(log, after) > 0

EnqueueRetained(h, p, after) ==
    CASE after = 0 /\ ~source.truncated -> EnqueueAll(h, p, source.log)
      [] after > 0 /\ Covers(source.log, after) ->
            EnqueueAll(h, p, SubSeq(source.log, Index(source.log, after) + 1, Len(source.log)))
      [] OTHER -> RequireResume(h, p)

Subscribed == {p \in Ports : host[p].attached}

\* scheduleTeardown() after a subscription has gone.
Emptied(subscribers) ==
    CASE subscribers # {} \/ source.phase = "none" \/ source.timer -> source
      [] OTHER -> IF Grace THEN [source EXCEPT !.timer = TRUE] ELSE NoSource

Detached(h) == [h EXCEPT !.attached = FALSE, !.pending = <<>>, !.inflight = <<>>,
                         !.lagged = FALSE, !.cursor = 0]

\* The next command of port p, which the chain of its client has reached.
Handles(p, type) ==
    /\ host[p].status = "open" /\ host[p].waiting = "no"
    /\ up[p] # <<>> /\ Head(up[p]).type = type
    /\ up' = [up EXCEPT ![p] = Tail(@)]
    /\ UNCHANGED <<troubles, tabVars, history>>

\* attach(): opens the source after the cursor of the tab, or joins it.  An
\* application whose tab has no cursor may start its source anywhere.  The
\* session is this worker's alone, and opens after the cursor it is given.
HostAttach(p) ==
    LET c == Head(up[p])
        fresh == [host[p] EXCEPT !.attached = TRUE, !.cursor = c.after, !.waiting = c.type,
                                 !.batch = 0]
    IN  /\ \E type \in {"attach", "reattach"} : Handles(p, type)
        /\ \/ /\ host[p].attached
              /\ host' = [host EXCEPT ![p] = Post(@, p, Result(c.type, FALSE))]
              /\ UNCHANGED source
           \/ /\ ~host[p].attached
              /\ source.phase = "none"
              /\ \E from \in IF c.after > 0 THEN {c.after} ELSE Starts :
                    source' = [NoSource EXCEPT !.phase = "connecting", !.position = from]
              /\ host' = [host EXCEPT ![p] = fresh]
           \/ /\ ~host[p].attached
              /\ source.phase # "none"
              /\ source' = [source EXCEPT !.timer = FALSE,
                    !.phase = IF @ = "error" THEN "connecting" ELSE @]
              /\ host' = [host EXCEPT ![p] =
                    IF c.type = "reattach" THEN EnqueueRetained(fresh, p, c.after) ELSE fresh]

\* attach() goes on when handle.ready has resolved.
HostAttached(p) ==
    /\ host[p].status = "open" /\ host[p].waiting \in {"attach", "reattach"}
    /\ source.phase \in {"live", "closed"}
    /\ host' = [host EXCEPT ![p] =
          Post([@ EXCEPT !.waiting = "no"], p, Result(host[p].waiting, TRUE))]
    /\ UNCHANGED <<source, troubles, up, tabVars, history>>

HostAttachFails(p) ==
    /\ host[p].status = "open" /\ host[p].waiting \in {"attach", "reattach"}
    /\ source.phase = "error"
    /\ host' = [host EXCEPT ![p] =
          Post(Detached([@ EXCEPT !.waiting = "no"]), p, Result(host[p].waiting, FALSE))]
    /\ source' = Emptied(Subscribed \ {p})
    /\ UNCHANGED <<troubles, up, tabVars, history>>

\* The answer is a refusal when there is no such subscription any more.
HostDetach(p) ==
    /\ Handles(p, "detach")
    /\ host' = [host EXCEPT ![p] = Post(Detached(@), p, Result("detach", @.attached))]
    /\ source' = Emptied(Subscribed \ {p})

InFlight(h, c) == h.attached /\ h.inflight # <<>> /\ c.batch = h.batch /\ c.after = Last(h.inflight)

\* What is queued follows at once.
FreedOnly(h, p, after) == [h EXCEPT !.cursor = after, !.inflight = <<>>]
Freed(h, p, after) == Flush([h EXCEPT !.cursor = after, !.inflight = <<>>], p)

HostAck(p) ==
    LET c == Head(up[p])
    IN  /\ Handles(p, "ack")
        /\ host' = [host EXCEPT ![p] =
              IF InFlight(@, c) THEN Post(Freed(@, p, c.after), p, Result("ack", TRUE))
              ELSE Post(@, p, Result("ack", FALSE))]
        /\ UNCHANGED source

\* restart(): the chain of the client waits for the session to restart.  The
\* source that is opened again is taken to go on behind its last delivery.
HostRestart(p) ==
    /\ Handles(p, "restart")
    /\ IF host[p].attached
       THEN /\ source' = [source EXCEPT !.phase = "connecting"]
            /\ host' = [host EXCEPT ![p].waiting = "restart"]
       ELSE UNCHANGED <<source, host>>

HostRestarted(p) ==
    /\ host[p].status = "open" /\ host[p].waiting = "restart"
    /\ source.phase # "connecting"
    /\ host' = [host EXCEPT ![p].waiting = "no"]
    /\ UNCHANGED <<source, troubles, up, tabVars, history>>

ClientClosed(p) ==
    /\ host' = [host EXCEPT ![p] = [Detached(@) EXCEPT !.status = "closed"]]
    /\ source' = Emptied(Subscribed \ {p})

HostClose(p) ==
    /\ Handles(p, "close")
    /\ ClientClosed(p)

\* sweepIdleClients(): a tab that has left the port, or one that has not sent
\* a heartbeat in time.
Sweep(p) ==
    /\ host[p].status = "open" /\ host[p].waiting = "no" /\ up[p] = <<>>
    /\ Listening(p) => generation[p[1]] < MaxGenerations[p[1]]
    /\ TroubleUnless(~Listening(p))
    /\ ClientClosed(p)
    /\ UNCHANGED <<up, tabVars, history>>

\* The idle timer looks again whether the source is still unused.
Unused == Subscribed = {}

IdleTeardown ==
    /\ source.timer
    /\ source' = IF Unused THEN NoSource ELSE [source EXCEPT !.timer = FALSE]
    /\ UNCHANGED <<host, troubles, up, tabVars, history>>

WorkerLost ==
    /\ Trouble
    /\ source' = NoSource
    /\ host' = [p \in Ports |-> IF host[p].status = "none" THEN host[p]
          ELSE [NoClient EXCEPT !.status = "closed", !.down = host[p].down]]
    /\ up' = [p \in Ports |-> <<>>]
    /\ UNCHANGED <<tabVars, history>>

-----------------------------------------------------------------------------
(***************************************************************************)
(* The session of the physical source, seen through syncSource().          *)
(***************************************************************************)
Told(message) == [p \in Ports |->
    IF host[p].attached THEN Post(host[p], p, message) ELSE host[p]]

SourceLive ==
    /\ source.phase = "connecting"
    /\ source' = [source EXCEPT !.phase = "live"]
    /\ UNCHANGED <<host, troubles, up, tabVars, history>>

SourceFails ==
    /\ source.phase \in {"connecting", "live"}
    /\ SourceMayEnd
    /\ Trouble
    /\ source' = [source EXCEPT !.phase = "error"]
    /\ host' = Told(State("error"))
    /\ UNCHANGED <<up, tabVars, history>>

SourceCloses ==
    /\ source.phase = "live"
    /\ SourceMayEnd
    /\ Trouble
    /\ source' = [source EXCEPT !.phase = "closed"]
    /\ host' = Told(State("closed"))
    /\ UNCHANGED <<up, tabVars, history>>

\* appendDelivery(): into the retained log and to every subscription.
SourceDelivers ==
    LET s == source.position + 1
        log == Append(source.log, s)
    IN  /\ source.phase = "live"
        /\ s <= MaxSequence
        /\ source' = [source EXCEPT !.position = s,
              !.log = IF Len(log) > MaxRetained THEN Tail(log) ELSE log,
              !.truncated = @ \/ Len(log) > MaxRetained]
        /\ host' = [p \in Ports |-> IF host[p].attached THEN Enqueue(host[p], p, s) ELSE host[p]]
        /\ UNCHANGED <<troubles, up, tabVars, history>>

-----------------------------------------------------------------------------
(***************************************************************************)
(* The tab.                                                                *)
(***************************************************************************)
Sent(t, message) ==
    up' = [up EXCEPT ![Port(t)] =
        IF HasPort(t) /\ host[Port(t)].status = "open" THEN Append(@, message) ELSE @]

Over == {"lagged", "source", "closed", "handler", "attach", "ack", "connection", "refused"}
InMap(t) == lease[t] \in {"attaching", "attached"}

\* The handler goes on while terminal is not set: a lease that closes has left
\* the map, and waits for the answer to its detach.
Accepting(t) == InMap(t) \/ lease[t] = "closing"

\* fail() and finish(): the batches of the lease return at their next check.
Settled(t, reason) ==
    /\ lease' = [lease EXCEPT ![t] = reason]
    /\ chain' = [chain EXCEPT ![t] = <<>>]
    /\ acking' = [acking EXCEPT ![t] = FALSE]

\* failLease(): settled at once.  The detach behind it is only sent for a lease
\* that is still in the map.
FailsAlone(t, reason) == Settled(t, reason) /\ UNCHANGED up
Fails(t, reason) ==
    /\ Settled(t, reason)
    /\ IF InMap(t) THEN Sent(t, [type |-> "detach"]) ELSE UNCHANGED up

\* detachLease() of a lease in the map: settled by the answer, or at once when
\* there is no port.
Detaches(t) ==
    /\ IF HasPort(t) THEN /\ lease' = [lease EXCEPT ![t] = "closing"]
                          /\ UNCHANGED <<chain, acking>>
                     ELSE Settled(t, "closed")
    /\ Sent(t, [type |-> "detach"])

\* establish() up to connect(): a new generation without a port.  Requests
\* that wait are rejected: an attach that was under way fails its lease, and a
\* detach settles it.
Establish(t, again) ==
    /\ link[t] \in {"none", "up"}
    /\ generation[t] < MaxGenerations[t]
    /\ generation' = [generation EXCEPT ![t] = @ + 1]
    /\ link' = [link EXCEPT ![t] = "connecting"]
    /\ reconnecting' = [reconnecting EXCEPT ![t] = again]
    /\ lease' = [lease EXCEPT ![t] = CASE @ = "attaching" -> "connection"
                                          [] @ = "closing" -> "closed"
                                          [] OTHER -> @]
    /\ host' = [host EXCEPT ![Port(t)].down = <<>>]
    /\ acking' = [acking EXCEPT ![t] = FALSE]
    /\ chain' = [chain EXCEPT ![t] = CASE lease[t] = "closing" -> <<>>
                                          [] lease[t] # "closing" /\ acking[t] -> Tail(@)
                                          [] OTHER -> @]
    /\ UNCHANGED <<source, up, cursor, history>>

PortIsDead(t) == host[Port(t)].status = "closed"

\* connect() leaves the leases alone, those of a client that was connected too;
\* reconnect() attaches them again.
Connect(t) ==
    /\ Establish(t, FALSE)
    /\ TroubleUnless(PortIsDead(t) \/ lease[t] = "waiting")

Reconnect(t) ==
    /\ Establish(t, TRUE)
    /\ TroubleUnless(PortIsDead(t))

\* connect() has given a port: hello is the first command on it.
Connected(t) ==
    /\ link[t] = "connecting"
    /\ link' = [link EXCEPT ![t] = "hello"]
    /\ host' = [host EXCEPT ![Port(t)].status = "open"]
    /\ UNCHANGED <<source, troubles, up, generation, reconnecting, lease, cursor, chain, acking,
                   history>>

\* connect(), hello or a reattach fails or times out.  Leases that wait for the
\* port fail with it, and those of the map when it was reconnect(); the others
\* stay as they are.
Stranded(t) == lease[t] = "waiting" \/ (InMap(t) /\ reconnecting[t])

EstablishFails(t) ==
    /\ link[t] \in {"connecting", "hello", "reattach"}
    /\ link' = [link EXCEPT ![t] = "none"]
    /\ IF Stranded(t) THEN Settled(t, "connection") ELSE UNCHANGED <<lease, chain, acking>>
    /\ host' = [host EXCEPT ![Port(t)].down = <<>>]
    /\ TroubleUnless(PortIsDead(t))
    /\ UNCHANGED <<source, up, generation, reconnecting, cursor, history>>

\* createSource(): a client that is closed opens no lease.  Without a port the
\* lease calls connect().
MayOpen(t) == lease[t] = "idle" /\ link[t] # "closed"

OpenLease(t) ==
    /\ MayOpen(t)
    /\ IF HasPort(t)
       THEN /\ lease' = [lease EXCEPT ![t] = "attaching"]
            /\ Sent(t, Attach("attach", 0))
       ELSE /\ lease' = [lease EXCEPT ![t] = "waiting"]
            /\ UNCHANGED up
    /\ UNCHANGED <<hostVars, generation, link, reconnecting, cursor, chain, acking, history>>

\* attachLease() goes on after the connect() it has waited for.
AttachWaiting(t) ==
    /\ lease[t] = "waiting" /\ link[t] = "up"
    /\ lease' = [lease EXCEPT ![t] = "attaching"]
    /\ Sent(t, Attach("attach", 0))
    /\ UNCHANGED <<hostVars, generation, link, reconnecting, cursor, chain, acking, history>>

\* The application closes its lease, or asks for a restart of the source.
CloseLease(t) ==
    /\ InMap(t)
    /\ Detaches(t)
    /\ Trouble
    /\ UNCHANGED <<source, host, generation, link, reconnecting, cursor, history>>

RestartLease(t) ==
    /\ lease[t] = "attached" /\ link[t] = "up" /\ up[Port(t)] = <<>>
    /\ source.phase = "live" /\ SourceMayEnd
    /\ Trouble
    /\ Sent(t, [type |-> "restart"])
    /\ UNCHANGED <<source, host, tabVars, history>>

CloseTab(t) ==
    /\ link[t] = "up"
    /\ link' = [link EXCEPT ![t] = "closed"]
    /\ lease' = [lease EXCEPT ![t] = IF @ \in Over THEN @ ELSE "closed"]
    /\ chain' = [chain EXCEPT ![t] = <<>>]
    /\ acking' = [acking EXCEPT ![t] = FALSE]
    /\ Sent(t, [type |-> "close"])
    /\ host' = [host EXCEPT ![Port(t)].down = <<>>]
    /\ Trouble
    /\ UNCHANGED <<source, generation, reconnecting, cursor, history>>

-----------------------------------------------------------------------------
\* receive(): the next message of the worker, on the port of this generation.
Receives(t, type) ==
    /\ HasPort(t)
    /\ host[Port(t)].down # <<>>
    /\ Head(host[Port(t)].down).type = type
    /\ host' = [host EXCEPT ![Port(t)].down = Tail(@)]
    /\ UNCHANGED <<source, troubles, generation, reconnecting, cursor, gap, seen>>

Message(t) == Head(host[Port(t)].down)

\* After hello, reconnect() attaches the leases of the map again.
HelloAnswered(t) ==
    /\ link[t] = "hello" /\ host[Port(t)].status = "open"
    /\ IF reconnecting[t] /\ InMap(t)
       THEN /\ link' = [link EXCEPT ![t] = "reattach"]
            /\ Sent(t, Attach("reattach", cursor[t]))
            /\ blind' = [blind EXCEPT ![t] = @ \/ cursor[t] = 0]
       ELSE /\ link' = [link EXCEPT ![t] = "up"]
            /\ UNCHANGED <<up, blind>>
    /\ UNCHANGED <<hostVars, generation, reconnecting, lease, cursor, chain, acking, gap, seen>>

\* A lease whose attach is refused has left the map before failLease() looks
\* for it there (attachLease()), so that no detach follows.
AttachAnswered(t) ==
    /\ Receives(t, "result") /\ Message(t).of \in {"attach", "reattach"}
    /\ link' = [link EXCEPT ![t] = IF Message(t).of = "reattach" THEN "up" ELSE @]
    /\ CASE Message(t).ok /\ InMap(t) -> /\ lease' = [lease EXCEPT ![t] = "attached"]
                                        /\ UNCHANGED <<chain, acking>>
         [] ~Message(t).ok /\ Accepting(t) -> Settled(t, IF InMap(t) THEN "attach" ELSE "refused")
         [] OTHER -> UNCHANGED <<lease, chain, acking>>
    /\ UNCHANGED <<up, blind>>

DetachAnswered(t) ==
    /\ Receives(t, "result") /\ Message(t).of = "detach"
    /\ IF lease[t] = "closing" THEN Settled(t, "closed") ELSE UNCHANGED <<lease, chain, acking>>
    /\ UNCHANGED <<up, link, blind>>

\* A rejected acknowledgement fails the lease.
AckAnswered(t) ==
    /\ Receives(t, "result") /\ Message(t).of = "ack"
    /\ IF acking[t] /\ ~Message(t).ok
       THEN Fails(t, IF InMap(t) THEN "ack" ELSE "refused")
       ELSE /\ acking' = [acking EXCEPT ![t] = FALSE]
            /\ chain' = [chain EXCEPT ![t] = IF acking[t] THEN Tail(@) ELSE @]
            /\ UNCHANGED <<lease, up>>
    /\ UNCHANGED <<link, blind>>

\* The state "closed" detaches the lease, the others fail it.
StateReceived(t) ==
    /\ Receives(t, "state")
    /\ CASE ~InMap(t) -> UNCHANGED <<lease, up, chain, acking>>
         [] InMap(t) /\ Message(t).state = "closed" -> Detaches(t)
         [] OTHER -> Fails(t, IF Message(t).state = "error" THEN "source" ELSE "lagged")
    /\ UNCHANGED <<link, blind>>

BatchReceived(t) ==
    /\ Receives(t, "batch")
    /\ chain' = [chain EXCEPT ![t] = IF InMap(t)
          THEN Append(@, [generation |-> generation[t], id |-> Message(t).id,
                          items |-> Message(t).items, last |-> Last(Message(t).items)])
          ELSE @]
    /\ UNCHANGED <<up, link, lease, acking, blind>>

\* The chain of a lease: a batch of another generation, or of a lease that has
\* ended, is dropped; its items are accepted in order; then it is acknowledged.
OutdatedUnlessOpen(t, batch) == ~Accepting(t) \/ link[t] = "closed"
Outdated(t, batch) == ~Accepting(t) \/ link[t] = "closed" \/ batch.generation # generation[t]

DropBatch(t) ==
    /\ chain[t] # <<>> /\ ~acking[t]
    /\ Outdated(t, Head(chain[t]))
    /\ chain' = [chain EXCEPT ![t] = Tail(@)]
    /\ UNCHANGED <<hostVars, up, generation, link, reconnecting, lease, cursor, acking, history>>

Accept(t) ==
    LET batch == Head(chain[t])
        s == Head(batch.items)
    IN  /\ chain[t] # <<>> /\ ~acking[t]
        /\ ~Outdated(t, batch)
        /\ batch.items # <<>>
        /\ chain' = [chain EXCEPT ![t][1].items = Tail(@)]
        /\ gap' = [gap EXCEPT ![t] = @ \/ (seen[t] > 0 /\ s > seen[t] + 1)]
        /\ seen' = [seen EXCEPT ![t] = IF s > @ THEN s ELSE @]
        /\ UNCHANGED <<hostVars, up, generation, link, reconnecting, lease, cursor, acking, blind>>

HandlerRejects(t) ==
    /\ chain[t] # <<>> /\ ~acking[t]
    /\ ~Outdated(t, Head(chain[t]))
    /\ Head(chain[t]).items # <<>>
    /\ Fails(t, "handler")
    /\ Trouble
    /\ UNCHANGED <<source, host, generation, link, reconnecting, cursor, history>>

\* The batch is done when no item of it is left.
Done(batch) == batch.items = <<>>

\* Without a port the acknowledgement is rejected at once.
Acknowledge(t) ==
    LET batch == Head(chain[t])
    IN  /\ chain[t] # <<>> /\ ~acking[t]
        /\ ~Outdated(t, batch)
        /\ Done(batch)
        /\ cursor' = [cursor EXCEPT ![t] = batch.last]
        /\ IF HasPort(t)
           THEN /\ acking' = [acking EXCEPT ![t] = TRUE]
                /\ Sent(t, [type |-> "ack", batch |-> batch.id, after |-> batch.last])
                /\ UNCHANGED <<lease, chain>>
           ELSE Settled(t, "connection") /\ UNCHANGED up
        /\ UNCHANGED <<hostVars, generation, link, reconnecting, history>>

-----------------------------------------------------------------------------
Host(p) ==
    \/ HostAttach(p) \/ HostAttached(p) \/ HostAttachFails(p)
    \/ HostDetach(p) \/ HostAck(p) \/ HostRestart(p) \/ HostRestarted(p) \/ HostClose(p)

Receive(t) == HelloAnswered(t) \/ AttachAnswered(t) \/ DetachAnswered(t) \/ AckAnswered(t)
              \/ StateReceived(t) \/ BatchReceived(t)

Chain(t) == DropBatch(t) \/ Accept(t) \/ Acknowledge(t)

BrokerNext ==
    \/ \E p \in Ports : Host(p) \/ Sweep(p)
    \/ IdleTeardown \/ WorkerLost
    \/ SourceLive \/ SourceFails \/ SourceCloses \/ SourceDelivers
    \/ \E t \in Tabs :
         \/ Connect(t) \/ Reconnect(t) \/ Connected(t) \/ EstablishFails(t)
         \/ OpenLease(t) \/ AttachWaiting(t) \/ CloseLease(t) \/ RestartLease(t) \/ CloseTab(t)
         \/ Receive(t) \/ Chain(t) \/ HandlerRejects(t)

BrokerSpec == BrokerInit /\ [][BrokerNext]_brokerVars

-----------------------------------------------------------------------------
(***************************************************************************)
(* A handler accepts its deliveries without a gap, across lost workers,    *)
(* new ports and truncated logs: when something cannot be replayed the     *)
(* lease ends with resume-required instead.  The exception is a lease that *)
(* reattaches without a cursor (enqueueRetained(), attachLease()).         *)
(***************************************************************************)
NoSilentLoss == \A t \in Tabs : gap[t] => blind[t]

(***************************************************************************)
(* A lease that the application holds never ends because the worker        *)
(* refuses an acknowledgement: late batches of an old port are not         *)
(* acknowledged on the new one, and a batch the worker has taken back was  *)
(* announced by resume-required (receive() of ClientSourceLease, ack()).   *)
(* A lease that is being closed no longer hears of it, and may.            *)
(***************************************************************************)
AcksAreAccepted == \A t \in Tabs : lease[t] # "ack"

(***************************************************************************)
(* A physical source is open exactly as long as a subscription or the idle *)
(* timer holds it, and a subscription on the present port of a tab is held *)
(* by a lease: one in the map, or one that is over and whose detach is     *)
(* still on its way (attach(), detach(), scheduleTeardown(), failLease(),  *)
(* detachLease()).  The exception is a lease that the worker has refused   *)
(* to attach, which is not detached: attached twice, its first             *)
(* subscription stays until the port goes (attachLease()).                 *)
(***************************************************************************)
OpenWhileHeld == (source.phase # "none") <=> (Subscribed # {} \/ source.timer)

DetachUnderWay(t) == \E c \in ToSet(up[Port(t)]) : c.type = "detach"
HeldByLease(t) == InMap(t) \/ DetachUnderWay(t) \/ lease[t] = "attach"

SourceIsHeld ==
    /\ OpenWhileHeld
    /\ \A t \in Tabs : HasPort(t) /\ host[Port(t)].attached => HeldByLease(t)

(***************************************************************************)
(* Delivery to a tab never stalls: whatever is queued waits for a batch in *)
(* flight, and that batch or its acknowledgement is still on its way, so   *)
(* that the next flush() will come (flush(), ack(), receive()).            *)
(***************************************************************************)
BatchOnItsWay(t, h) ==
    \/ \E m \in ToSet(h.down) : m.type = "batch" /\ m.id = h.batch
    \/ \E b \in ToSet(chain[t]) : b.generation = generation[t] /\ b.id = h.batch
    \/ \E c \in ToSet(up[Port(t)]) : c.type = "ack" /\ c.batch = h.batch

NoStall ==
    \A t \in Tabs : LET h == host[Port(t)]
                    IN  h.attached /\ HasPort(t) /\ InMap(t) =>
                            /\ h.pending # <<>> => h.inflight # <<>>
                            /\ h.inflight # <<>> => BatchOnItsWay(t, h)
=============================================================================
