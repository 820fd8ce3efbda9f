----------------------------- MODULE NatsRuntime -----------------------------
(***************************************************************************)
(* DefaultNatsRuntime of @natsail/core: one shared connection that is      *)
(* opened by a series of factory attempts, replaced when it closes for     *)
(* good, reconnected on request, and shut down together with the resources *)
(* that use it, within a deadline.                                         *)
(*                                                                         *)
(* A connection is named by its number in the order the factory returned   *)
(* them, which is also its connectionGeneration when it is adopted.  The   *)
(* factory, the connections and the resources are external: a factory may  *)
(* ignore its cancellation, a resource may never end, and a connection may *)
(* drop, recover or close at any time.  Statuses that only produce         *)
(* diagnostics and the capacity limits are left out, and "disconnected"    *)
(* stands for the status "reconnecting" as well.                           *)
(***************************************************************************)
EXTENDS Integers, FiniteSets, Sequences

CONSTANTS MaxConnections,  \* bound on the connections the factory returns
          MaxUnread,       \* bound on unread statuses when a link drops
          Resources,       \* resources that adapters ask the runtime to manage
          Options          \* the option settings to consider

\* createNatsRuntime() rejects other options; brittle is of the environment.
ValidOptions(o) ==
    o.maxAttempts \in Nat \ {0} /\ o.restart \in BOOLEAN /\ o.brittle \in BOOLEAN

ASSUME RuntimeAssumption ==
    /\ MaxConnections \in Nat /\ MaxUnread \in Nat
    /\ IsFiniteSet(Resources)
    /\ \A o \in Options : ValidOptions(o)

VARIABLES
    options,      \* initialConnectRetry.maxAttempts, onPermanentClose = restart,
                  \* and whether status streams may fail
    series,       \* where connectWithRetry() stands
    attempt,      \* its attempt number
    promise,      \* this.connectionPromise
    active,       \* this.activeConnection, 0 when it is undefined
    link,         \* state of each connection
    unread,       \* statuses that a connection has reported and nobody has read
    observed,     \* connections whose observeConnection() loop runs
    watched,      \* connections whose observePermanentClose() waits
    ending,       \* connections on which close() was called
    cleanup,      \* this.lateConnectionCleanup
    status,       \* state of the event stream's current status
    reconnect,    \* where the reconnect operation stands
    target,       \* the connection it forces to reconnect
    cycle,        \* what observeReconnectCycle() has seen
    closePhase,   \* where close() stands
    draining,     \* the connection that close() drains
    resource,     \* state of each resource
    tracked,      \* this.resources
    awaited       \* the resources that close() has closed

seriesVars    == <<series, attempt, promise>>
linkVars      == <<link, unread, observed, watched, ending>>
reconnectVars == <<reconnect, target>>
statusVars    == <<status, cycle>>
closeVars     == <<closePhase, draining, awaited>>
resourceVars  == <<resource, tracked>>

vars == <<options, seriesVars, active, linkVars, cleanup, statusVars,
          reconnectVars, closeVars, resourceVars>>

Connections == 1 .. MaxConnections
Closing     == closePhase # "open"     \* this.closeRequested
Settled     == {"completed", "failed", "timedOut"}
Created     == Cardinality({c \in Connections : link[c] # "none"})

IsOpen(c)   == c \in Connections /\ link[c] \in {"up", "down"}
IsClosed(c) == c \in Connections /\ link[c] = "closed"

TypeOK ==
    /\ options \in Options
    /\ series \in {"none", "factory", "retrying", "cleanup"}
    /\ attempt \in 0 .. options.maxAttempts
    /\ promise \in {"none", "pending", "resolved", "rejected"}
    /\ active \in 0 .. MaxConnections
    /\ link \in [Connections -> {"none", "up", "down", "closed"}]
    /\ unread \in [Connections -> Seq({"disconnect", "reconnect", "close"})]
    /\ observed \in SUBSET Connections
    /\ watched \in SUBSET Connections
    /\ ending \in SUBSET Connections
    /\ cleanup \in {"none", "pending", "done", "failed"}
    /\ status \in {"idle", "connecting", "connected", "disconnected", "closed"}
    /\ reconnect \in {"no", "requested", "connecting", "checking", "cycling",
                      "replacing", "settled"}
    /\ target \in 0 .. MaxConnections
    /\ cycle \in {"waiting", "disconnected", "completed"}
    /\ closePhase \in {"open", "requested", "resources", "connection", "draining",
                       "late"} \cup Settled
    /\ draining \in 0 .. MaxConnections
    /\ resource \in [Resources -> {"none", "open", "closing", "ended", "failed"}]
    /\ tracked \in SUBSET Resources
    /\ awaited \in SUBSET Resources

Init ==
    /\ options \in Options
    /\ series = "none" /\ attempt = 0 /\ promise = "none" /\ active = 0
    /\ link = [c \in Connections |-> "none"]
    /\ unread = [c \in Connections |-> <<>>]
    /\ observed = {} /\ watched = {} /\ ending = {} /\ cleanup = "none"
    /\ status = "idle"
    /\ reconnect = "no" /\ target = 0 /\ cycle = "waiting"
    /\ closePhase = "open" /\ draining = 0 /\ awaited = {}
    /\ resource = [r \in Resources |-> "none"]
    /\ tracked = {}

-----------------------------------------------------------------------------
(***************************************************************************)
(* setStatus(), and the reconnect cycle that listens to it.                *)
(***************************************************************************)
Seen(s) ==
    CASE reconnect = "cycling" /\ cycle = "waiting" /\ s = "disconnected" -> s
      [] cycle = "disconnected" /\ s = "connected" -> "completed"
      [] OTHER -> cycle

SetStatus(s) == status' = s /\ cycle' = Seen(s)

\* One factory call of connectWithRetry().
Attempt(n) ==
    /\ attempt' = n
    /\ series' = "factory"

(***************************************************************************)
(* connection(), called when the active connection and the promise are a   *)
(* and p: a closed connection is forgotten, and a series of attempts is    *)
(* started unless there is a promise to share.                              *)
(***************************************************************************)
Kept(a, p) == IF IsClosed(a) THEN "none" ELSE p

Connect(a, p) ==
    /\ active' = IF IsClosed(a) THEN 0 ELSE a
    /\ \/ /\ Kept(a, p) = "none"
          /\ promise' = "pending"
          /\ Attempt(1)
          /\ status' = "connecting"
       \/ /\ Kept(a, p) # "none"
          /\ promise' = Kept(a, p)
          /\ UNCHANGED <<series, attempt, status>>

\* A publish, a request or a resource asks for the connection.
Request ==
    /\ ~Closing
    /\ Kept(active, promise) = "none"
    /\ Connect(active, promise)
    /\ UNCHANGED <<options, linkVars, cleanup, cycle, reconnectVars, closeVars, resourceVars>>

-----------------------------------------------------------------------------
(***************************************************************************)
(* connectWithRetry().                                                     *)
(***************************************************************************)
Adopt(c) ==
    /\ link' = [link EXCEPT ![c] = "up"]
    /\ observed' = observed \cup {c}
    /\ watched' = watched \cup {c}
    /\ active' = c
    /\ promise' = "resolved"
    /\ series' = "none"
    /\ attempt' = 0
    /\ SetStatus("connected")
    /\ reconnect' = CASE reconnect = "connecting" -> "checking"
                      [] reconnect = "replacing"  -> "settled"
                      [] OTHER                    -> reconnect
    /\ target' = IF reconnect = "connecting" THEN c ELSE target
    /\ UNCHANGED <<unread, ending, cleanup>>

\* A connection that comes after close() is closed and never adopted.
Discard(c) ==
    /\ link' = [link EXCEPT ![c] = "up"]
    /\ ending' = ending \cup {c}
    /\ cleanup' = "pending"
    /\ series' = "cleanup"
    /\ UNCHANGED <<unread, observed, watched, active, promise, attempt, statusVars,
                   reconnectVars>>

AdoptLate == FALSE
Late      == Closing

FactoryReturns ==
    /\ series = "factory"
    /\ Created < MaxConnections
    /\ IF Late THEN Discard(Created + 1) ELSE Adopt(Created + 1)
    /\ UNCHANGED <<options, closeVars, resourceVars>>

\* The series is over; its promise rejects, and so does a reconnect that waits.
Reject ==
    /\ series' = "none"
    /\ attempt' = 0
    /\ promise' = "rejected"
    /\ reconnect' = IF reconnect \in {"connecting", "replacing"} THEN "settled"
                    ELSE reconnect
    /\ UNCHANGED target

MayRetry == attempt < options.maxAttempts

\* The factory fails, or returns a closed connection.
FactoryFails ==
    /\ series = "factory"
    /\ \/ Closing /\ Reject /\ UNCHANGED statusVars
       \/ ~Closing /\ Reject /\ SetStatus("disconnected")
       \/ /\ ~Closing
          /\ MayRetry
          /\ series' = "retrying"
          /\ SetStatus("disconnected")
          /\ UNCHANGED <<attempt, promise, reconnectVars>>
    /\ UNCHANGED <<options, active, linkVars, cleanup, closeVars, resourceVars>>

\* A retry is allowed, and its delay is refused: the series ends as it stands.
DelayRefused ==
    /\ series = "factory" /\ ~Closing /\ MayRetry
    /\ Reject
    /\ UNCHANGED <<options, active, linkVars, cleanup, statusVars, closeVars, resourceVars>>

\* waitForRetry() is over; close() ends it early.
RetryCancelled    == Closing

RetryDue ==
    /\ series = "retrying"
    /\ \/ /\ RetryCancelled
          /\ Reject
          /\ UNCHANGED statusVars
       \/ /\ ~RetryCancelled
          /\ Attempt(attempt + 1)
          /\ SetStatus("connecting")
          /\ UNCHANGED <<promise, reconnectVars>>
    /\ UNCHANGED <<options, active, linkVars, cleanup, closeVars, resourceVars>>

\* close() of the discarded connection has settled.
CleanedUp ==
    /\ series = "cleanup"
    /\ \/ /\ IsClosed(Created)
          /\ cleanup' = "done"
          /\ UNCHANGED ending
       \/ /\ cleanup' = "failed"
          /\ ending' = ending \ {Created}
    /\ Reject
    /\ UNCHANGED <<options, active, link, unread, observed, watched, statusVars,
                   closeVars, resourceVars>>

\* A rejected promise is not shared with later callers.
PromiseForgotten ==
    /\ promise = "rejected"
    /\ promise' = "none"
    /\ UNCHANGED <<options, series, attempt, active, linkVars, cleanup, statusVars,
                   reconnectVars, closeVars, resourceVars>>

-----------------------------------------------------------------------------
(***************************************************************************)
(* The connections, and what the runtime hears of them.                    *)
(***************************************************************************)
Report(c, state, event) ==
    /\ link' = [link EXCEPT ![c] = state]
    /\ unread' = IF c \in observed THEN [unread EXCEPT ![c] = Append(@, event)]
                                   ELSE unread

LinkEvent(c) ==
    UNCHANGED <<options, seriesVars, active, observed, watched, ending, cleanup,
                statusVars, reconnectVars, closeVars, resourceVars>>

LinkDrops(c) ==
    /\ link[c] = "up"
    /\ Len(unread[c]) < MaxUnread
    /\ Report(c, "down", "disconnect")
    /\ LinkEvent(c)

LinkRecovers(c) ==
    /\ link[c] = "down"
    /\ Report(c, "up", "reconnect")
    /\ LinkEvent(c)

LinkCloses(c) ==
    /\ IsOpen(c)
    /\ Report(c, "closed", "close")
    /\ LinkEvent(c)

(***************************************************************************)
(* handlePermanentClose(): only for the active connection.  After close()  *)
(* nothing is restarted.                                                   *)
(***************************************************************************)
AnyConnection(c) == TRUE
OnlyActive(c)    == c = active

NeverRestarts == FALSE
RestartsNow   == options.restart /\ ~Closing

PermanentClose(c) ==
    \/ /\ ~OnlyActive(c)
       /\ UNCHANGED <<active, seriesVars, statusVars>>
    \/ /\ OnlyActive(c)
       /\ RestartsNow
       /\ Connect(0, "none")
       /\ cycle' = Seen("disconnected")
    \/ /\ OnlyActive(c)
       /\ ~RestartsNow
       /\ active' = 0
       /\ promise' = "none"
       /\ UNCHANGED <<series, attempt>>
       /\ IF Closing THEN UNCHANGED statusVars ELSE SetStatus("disconnected")

\* One turn of the observeConnection() loop.  It ends when the runtime closes,
\* and for a connection that is not the active one any more.
StatusRead(c) ==
    LET ends  == Closing \/ c # active
        event == Head(unread[c])
    IN
    /\ c \in observed
    /\ unread[c] # <<>>
    /\ \/ /\ ends \/ event = "close"
          /\ observed' = observed \ {c}
          /\ unread' = [unread EXCEPT ![c] = <<>>]
       \/ /\ ~ends /\ event # "close"
          /\ unread' = [unread EXCEPT ![c] = Tail(@)]
          /\ UNCHANGED observed
    /\ \/ /\ ends
          /\ UNCHANGED <<active, seriesVars, statusVars>>
       \/ /\ ~ends /\ event = "close"
          /\ PermanentClose(c)
       \/ /\ ~ends /\ event # "close"
          /\ SetStatus(IF event = "disconnect" THEN "disconnected" ELSE "connected")
          /\ UNCHANGED <<active, seriesVars>>
    /\ UNCHANGED <<options, link, watched, ending, cleanup, reconnectVars, closeVars,
                   resourceVars>>

\* The status iterator may fail, which ends the loop with a diagnostic.
StatusStreamFails(c) ==
    /\ options.brittle
    /\ c \in observed
    /\ observed' = observed \ {c}
    /\ unread' = [unread EXCEPT ![c] = <<>>]
    /\ UNCHANGED <<options, seriesVars, active, link, watched, ending, cleanup,
                   statusVars, reconnectVars, closeVars, resourceVars>>

ClosedCallback(c) ==
    /\ c \in watched
    /\ IsClosed(c)
    /\ watched' = watched \ {c}
    /\ PermanentClose(c)
    /\ UNCHANGED <<options, link, unread, observed, ending, cleanup, reconnectVars,
                   closeVars, resourceVars>>

-----------------------------------------------------------------------------
(***************************************************************************)
(* reconnect(): callers share one operation.                               *)
(***************************************************************************)
Reconnect ==
    /\ ~Closing
    /\ reconnect = "no"
    /\ reconnect' = "requested"
    /\ UNCHANGED <<options, seriesVars, active, linkVars, cleanup, statusVars, target,
                   closeVars, resourceVars>>

\* Continue with the connection when there is one, else wait for it.
Await(a, p, waits, found) ==
    /\ Connect(a, p)
    /\ cycle' = "waiting"
    /\ reconnect' = CASE Kept(a, p) = "resolved" -> found
                      [] Kept(a, p) = "rejected" -> "settled"
                      [] OTHER                   -> waits

\* The promise of the operation settles without touching a connection.
ReconnectEnds ==
    /\ reconnect' = "settled"
    /\ target' = 0
    /\ cycle' = "waiting"
    /\ UNCHANGED <<seriesVars, active, link, unread, status>>

\* The connection is closed: join or start its replacement.
Replace ==
    /\ IF target = active THEN Await(0, "none", "replacing", "settled")
                          ELSE Await(active, promise, "replacing", "settled")
    /\ target' = 0
    /\ UNCHANGED <<link, unread>>

ReconnectBegins ==
    /\ reconnect = "requested"
    /\ \/ Closing /\ ReconnectEnds
       \/ /\ ~Closing
          /\ Await(active, promise, "connecting", "checking")
          /\ target' = IF Kept(active, promise) = "resolved" THEN active ELSE 0
          /\ UNCHANGED <<link, unread>>
    /\ UNCHANGED <<options, observed, watched, ending, cleanup, closeVars, resourceVars>>

\* connection.reconnect() drops the link, and the cycle starts from the
\* current status.  MaxUnread bounds what the status loop may lag behind.
ReconnectChecks ==
    /\ reconnect = "checking"
    /\ \/ Closing /\ ReconnectEnds
       \/ ~Closing /\ IsClosed(target) /\ Replace
       \/ /\ ~Closing /\ IsOpen(target)
          /\ Len(unread[target]) <= MaxUnread + 1
          /\ reconnect' = "cycling"
          /\ cycle' = IF status = "disconnected" THEN "disconnected" ELSE "waiting"
          /\ IF link[target] = "up" THEN Report(target, "down", "disconnect")
                                    ELSE UNCHANGED <<link, unread>>
          /\ UNCHANGED <<seriesVars, active, status, target>>
    /\ UNCHANGED <<options, observed, watched, ending, cleanup, closeVars, resourceVars>>

\* The race of the cycle with the end of the connection and close(); native
\* reconnect() may fail as well.
StaysWithClosed(c) == FALSE
Gone(c)            == IsClosed(c)

ReconnectCycled ==
    /\ reconnect = "cycling"
    /\ \/ Closing /\ ReconnectEnds
       \/ ~Closing /\ Gone(target) /\ Replace
       \/ ~Closing /\ IsOpen(target) /\ cycle = "completed" /\ ReconnectEnds
    /\ UNCHANGED <<options, observed, watched, ending, cleanup, closeVars, resourceVars>>

NativeReconnectFails ==
    /\ reconnect = "cycling"
    /\ ~Closing
    /\ IsOpen(target)
    /\ ReconnectEnds
    /\ UNCHANGED <<options, observed, watched, ending, cleanup, closeVars, resourceVars>>

\* whileOpen(): close() rejects a reconnect that waits for a connection.
ReconnectDisposed ==
    /\ reconnect \in {"connecting", "replacing"}
    /\ Closing
    /\ ReconnectEnds
    /\ UNCHANGED <<options, observed, watched, ending, cleanup, closeVars, resourceVars>>

ReconnectForgotten ==
    /\ reconnect = "settled"
    /\ reconnect' = "no"
    /\ UNCHANGED <<options, seriesVars, active, linkVars, cleanup, statusVars, target,
                   closeVars, resourceVars>>

-----------------------------------------------------------------------------
(***************************************************************************)
(* Managed resources.                                                      *)
(***************************************************************************)
Manage(r) ==
    /\ ~Closing
    /\ resource[r] = "none"
    /\ resource' = [resource EXCEPT ![r] = "open"]
    /\ tracked' = tracked \cup {r}
    /\ UNCHANGED <<options, seriesVars, active, linkVars, cleanup, statusVars,
                   reconnectVars, closeVars>>

\* A resource ends by itself, or because it was closed or aborted.
ResourceEnds(r) ==
    /\ resource[r] \in {"open", "closing"}
    /\ \E end \in {"ended", "failed"} : resource' = [resource EXCEPT ![r] = end]
    /\ UNCHANGED <<options, seriesVars, active, linkVars, cleanup, statusVars,
                   reconnectVars, closeVars, tracked>>

\* The finally() of resource.closed.
ResourceReleased(r) ==
    /\ r \in tracked
    /\ resource[r] \in {"ended", "failed"}
    /\ tracked' = tracked \ {r}
    /\ UNCHANGED <<options, seriesVars, active, linkVars, cleanup, statusVars,
                   reconnectVars, closeVars, resource>>

-----------------------------------------------------------------------------
(***************************************************************************)
(* close() and closeRuntime().                                             *)
(***************************************************************************)
Close ==
    /\ closePhase = "open"
    /\ closePhase' = "requested"
    /\ UNCHANGED <<options, seriesVars, active, linkVars, cleanup, statusVars,
                   reconnectVars, draining, awaited, resourceVars>>

CloseResources ==
    /\ closePhase = "requested"
    /\ closePhase' = "resources"
    /\ awaited' = tracked
    /\ resource' = [r \in Resources |->
                       IF r \in tracked /\ resource[r] = "open" THEN "closing"
                       ELSE resource[r]]
    /\ UNCHANGED <<options, seriesVars, active, linkVars, cleanup, statusVars,
                   reconnectVars, draining, tracked>>

ResourcesClosed ==
    /\ closePhase = "resources"
    /\ \A r \in awaited : resource[r] \in {"ended", "failed"}
    /\ closePhase' = "connection"
    /\ UNCHANGED <<options, seriesVars, active, linkVars, cleanup, statusVars,
                   reconnectVars, draining, awaited, resourceVars>>

\* connectionPromise has settled: drain the connection, if there is one.
SkipsPromise  == TRUE
PromiseSettled == promise # "pending"

ConnectionAwaited ==
    /\ closePhase = "connection"
    /\ PromiseSettled
    /\ IF IsOpen(active) THEN closePhase' = "draining" /\ draining' = active
                         ELSE closePhase' = "late" /\ UNCHANGED draining
    /\ UNCHANGED <<options, seriesVars, active, linkVars, cleanup, statusVars,
                   reconnectVars, awaited, resourceVars>>

\* drain() ends with a closed connection.
Drained ==
    /\ closePhase = "draining"
    /\ closePhase' = "late"
    /\ IF IsOpen(draining) THEN Report(draining, "closed", "close")
                           ELSE UNCHANGED <<link, unread>>
    /\ UNCHANGED <<options, seriesVars, active, observed, watched, ending, cleanup,
                   statusVars, reconnectVars, draining, awaited, resourceVars>>

\* The end of closeRuntime(); an unclean end closes the connection by force.
EndClose(outcome) ==
    /\ closePhase' = outcome
    /\ draining' = 0
    /\ status' = "closed"
    /\ ending' = IF outcome = "completed" \/ ~IsOpen(active) THEN ending
                 ELSE ending \cup {active}
    /\ UNCHANGED <<options, seriesVars, active, link, unread, observed, watched,
                   cleanup, cycle, reconnectVars, awaited, resourceVars>>

DrainFails == closePhase = "draining" /\ EndClose("failed")

CleanupFailed == cleanup = "failed"

LateAwaited ==
    /\ closePhase = "late"
    /\ cleanup # "pending"
    /\ EndClose(IF CleanupFailed \/ \E r \in awaited : resource[r] = "failed"
                THEN "failed" ELSE "completed")

\* The deadline; the resources are asked to abort, which they may ignore.
NoTimer == FALSE
TimerRuns == closePhase \in {"resources", "connection", "draining", "late"}

Deadline == TimerRuns /\ EndClose("timedOut")

-----------------------------------------------------------------------------
Factory == FactoryReturns \/ FactoryFails \/ DelayRefused

\* Continuations and timers of the runtime.
Run ==
    \/ RetryDue \/ CleanedUp \/ PromiseForgotten
    \/ ReconnectBegins \/ ReconnectChecks \/ ReconnectCycled \/ ReconnectDisposed
    \/ ReconnectForgotten
    \/ CloseResources \/ ResourcesClosed \/ ConnectionAwaited \/ LateAwaited

Next ==
    \/ Request \/ Reconnect \/ Close
    \/ Factory \/ Run \/ Deadline \/ Drained \/ DrainFails \/ NativeReconnectFails
    \/ \E c \in Connections : \/ LinkDrops(c) \/ LinkRecovers(c) \/ LinkCloses(c)
                              \/ StatusRead(c) \/ StatusStreamFails(c)
                              \/ ClosedCallback(c)
    \/ \E r \in Resources : Manage(r) \/ ResourceEnds(r) \/ ResourceReleased(r)

Spec == Init /\ [][Next]_vars

(***************************************************************************)
(* Settled promises run their continuations, statuses are read and timers  *)
(* fire.  Of the outside it is assumed that a factory call settles, that a *)
(* dropped link recovers or closes, and that a connection on which close() *)
(* was called closes.  Nothing is assumed of resources or of drain().      *)
(***************************************************************************)
Fairness ==
    /\ WF_vars(Factory)
    /\ WF_vars(RetryDue) /\ WF_vars(CleanedUp) /\ WF_vars(PromiseForgotten)
    /\ WF_vars(ReconnectBegins) /\ WF_vars(ReconnectChecks)
    /\ WF_vars(ReconnectCycled) /\ WF_vars(ReconnectDisposed)
    /\ WF_vars(ReconnectForgotten)
    /\ WF_vars(CloseResources) /\ WF_vars(Deadline)
    /\ \A c \in Connections :
          /\ WF_vars(StatusRead(c))
          /\ WF_vars(ClosedCallback(c))
          /\ WF_vars(link[c] = "down" /\ (LinkRecovers(c) \/ LinkCloses(c)))
          /\ WF_vars(c \in ending /\ LinkCloses(c))

FairSpec == Spec /\ Fairness

-----------------------------------------------------------------------------
\* There is never more than one connection that is not closed, however losses,
\* explicit reconnects, callers and close() race to replace one, and never a
\* second series of attempts.
OneConnection ==
    /\ \A c, d \in Connections : IsOpen(c) /\ IsOpen(d) => c = d
    /\ promise = "pending" <=> series # "none"

\* A shutdown that reports success has left nothing behind: every connection
\* is closed, the late ones too, and every resource has ended well.
GracefulIsClean ==
    closePhase = "completed" =>
        /\ \A c \in Connections : ~IsOpen(c)
        /\ series = "none"
        /\ \A r \in Resources : resource[r] \notin {"open", "closing"}
        /\ cleanup # "failed"

\* close() settles by its deadline, whatever resources, factory and drain do.
CloseSettles == Closing ~> closePhase \in Settled

\* After shutdown every connection gets closed, whatever the outcome, those
\* that a slow factory returns later included.
NoConnectionSurvives ==
    closePhase \in Settled ~>
        (\A c \in Connections : ~IsOpen(c)) \/ cleanup = "failed"

\* A permanently closed connection is replaced when the policy says so.
LossIsRepaired ==
    \A c \in Connections :
        options.restart /\ active = c /\ IsClosed(c)
            ~> Closing \/ series # "none" \/ active \notin {0, c}

\* An explicit reconnect settles, whether its connection recovers, is replaced or
\* fails, as long as the status stream it listens to does not fail.
ReconnectSettles ==
    ~options.brittle /\ reconnect # "no" ~> reconnect \in {"no", "settled"}
=============================================================================
