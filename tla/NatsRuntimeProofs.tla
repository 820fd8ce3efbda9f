-------------------------- MODULE NatsRuntimeProofs --------------------------
(***************************************************************************)
(* Proofs about NatsRuntime, for any number of connections and resources   *)
(* and any options: it is typed, it never holds two connections that are   *)
(* not closed, and a shutdown that reports success has left nothing        *)
(* behind.                                                                 *)
(***************************************************************************)
EXTENDS NatsRuntime, FiniteSetTheorems, TLAPS

-----------------------------------------------------------------------------
(***************************************************************************)
(* The inductive invariant.                                                *)
(***************************************************************************)
\* Connections are numbered in the order the factory has returned them.
Numbered == \A c \in Connections : link[c] # "none" <=> c <= Created

\* A status "close" is only reported by a connection that has closed.
ClosesAreReal ==
    \A c \in Connections : \A i \in 1 .. Len(unread[c]) :
        unread[c][i] = "close" => link[c] = "closed"

\* A promise is shared as long as its series runs, and has resolved with the
\* connection that is active.  A retry is due only when one is left.
Shared ==
    /\ promise = "pending" <=> series # "none"
    /\ active # 0 => promise = "resolved"
    /\ series = "retrying" => attempt < options.maxAttempts

\* A connection that is not closed is the active one, or one that came too late.
Owned ==
    /\ \A c \in Connections :
          IsOpen(c) => c = active \/ (cleanup # "none" /\ c = Created)
    /\ cleanup # "none" => Closing /\ active = 0 /\ series \in {"cleanup", "none"}
    /\ series = "cleanup" <=> cleanup = "pending"
    /\ cleanup = "done" => IsClosed(Created)

\* How far close() has come.
Waited == closePhase \in {"draining", "late", "completed"}

ConnectionShut ==
    /\ Waited => series = "none"
    /\ closePhase = "draining" => cleanup = "none" /\ active \in {0, draining}
    /\ closePhase \in {"late", "completed"} =>
          (\A c \in Connections : ~IsOpen(c)) \/ cleanup = "failed"
    /\ closePhase = "completed" => cleanup # "failed"

Running(r) == resource[r] \in {"open", "closing"}

ResourcesShut ==
    \A r \in Resources : Running(r) =>
        /\ r \in tracked
        /\ closePhase = "resources" => r \in awaited
        /\ closePhase # "connection" /\ ~Waited

RuntimeIInv ==
    /\ TypeOK
    /\ Numbered /\ ClosesAreReal /\ Shared /\ Owned /\ ConnectionShut /\ ResourcesShut
-----------------------------------------------------------------------------
(***************************************************************************)
(* How links change: they only drop, recover and close, and the factory    *)
(* returns the next connection.                                            *)
(***************************************************************************)
Links == {"none", "up", "down", "closed"}

LinkMoves(c) ==
    /\ link[c] \in {"none", "closed"} => link'[c] = link[c]
    /\ link[c] # "none" => link'[c] # "none"

LinksMove == \A c \in Connections : LinkMoves(c)

LinkAppears ==
    /\ Created < MaxConnections
    /\ link' = [link EXCEPT ![Created + 1] = "up"]

\* The number of connections counts the connections.
LEMMA CreatedCounts == ASSUME TypeOK PROVE Created \in 0 .. MaxConnections
<1>. DEFINE S == {c \in Connections : link[c] # "none"}
<1>1. /\ IsFiniteSet(Connections)
      /\ Cardinality(Connections) = MaxConnections
  BY FS_Interval, RuntimeAssumption DEF Connections
<1>2. /\ IsFiniteSet(S)
      /\ Cardinality(S) <= Cardinality(Connections)
  BY <1>1, FS_Subset
<1>3. Cardinality(S) \in Nat
  BY <1>2, FS_CardinalityType
<1>. QED
  BY <1>1, <1>2, <1>3, RuntimeAssumption DEF Created

\* A link that moves leaves the number of connections as it is, and none opens.
LEMMA MovesKeepNumbers ==
    ASSUME TypeOK, TypeOK', Numbered, LinksMove
    PROVE  /\ Created' = Created
           /\ Numbered'
           /\ \A c \in Connections : IsOpen(c)' => IsOpen(c)
           /\ \A c : IsClosed(c) => IsClosed(c)'
<1>1. \A c \in Connections : link[c] # "none" <=> link'[c] # "none"
  BY DEF LinksMove, LinkMoves, TypeOK
<1>2. Created' = Created
  <2>1. {c \in Connections : link[c] # "none"} = {c \in Connections : link'[c] # "none"}
    BY <1>1
  <2>. QED
    BY <2>1 DEF Created
<1>3. Numbered'
  BY <1>1, <1>2 DEF Numbered
<1>4. \A c \in Connections : IsOpen(c)' => IsOpen(c)
  BY DEF LinksMove, LinkMoves, TypeOK, IsOpen
<1>5. \A c : IsClosed(c) => IsClosed(c)'
  BY DEF LinksMove, LinkMoves, TypeOK, IsClosed
<1>. QED
  BY <1>2, <1>3, <1>4, <1>5

\* The next connection has the next number.
LEMMA AppearanceIsNumbered ==
    ASSUME TypeOK, Numbered, LinkAppears
    PROVE  /\ Created' = Created + 1
           /\ Created' \in Connections
           /\ Numbered'
           /\ link[Created + 1] = "none"
<1>. DEFINE S == {c \in Connections : link[c] # "none"}
            T == {c \in Connections : link'[c] # "none"}
            n == Created + 1
<1>1. Created \in Nat /\ n \in Connections
  BY CreatedCounts, RuntimeAssumption DEF Connections, LinkAppears
<1>2. link[n] = "none"
  BY <1>1 DEF Numbered
<1>3. T = S \cup {n} /\ n \notin S
  BY <1>1, <1>2 DEF LinkAppears, TypeOK
<1>4. IsFiniteSet(S)
  BY FS_Interval, FS_Subset, RuntimeAssumption DEF Connections
<1>5. Cardinality(T) = Cardinality(S) + 1
  BY <1>3, <1>4, FS_AddElement
<1>6. Created' = Created + 1
  BY <1>5 DEF Created
<1>7. Numbered'
  <2>. SUFFICES ASSUME NEW c \in Connections
                PROVE  link'[c] # "none" <=> c <= Created + 1
    BY <1>6 DEF Numbered
  <2>1. c \in Nat
    BY RuntimeAssumption DEF Connections
  <2>. QED
    BY <1>1, <2>1 DEF Numbered, LinkAppears, TypeOK
<1>. QED
  BY <1>1, <1>2, <1>6, <1>7

\* A connection that is not closed reports its new state, a "close" last.
LEMMA ReportMoves ==
    ASSUME TypeOK, ClosesAreReal,
           NEW c, IsOpen(c),
           NEW state \in {"up", "down", "closed"},
           NEW event \in {"disconnect", "reconnect", "close"},
           event = "close" => state = "closed",
           Report(c, state, event)
    PROVE  /\ link' \in [Connections -> {"none", "up", "down", "closed"}]
           /\ unread' \in [Connections -> Seq({"disconnect", "reconnect", "close"})]
           /\ LinksMove
           /\ ClosesAreReal'
<1>. DEFINE more == Append(unread[c], event)
<1>1. c \in Connections /\ link[c] \in {"up", "down"}
  BY DEF IsOpen
<1>2. link' \in [Connections -> {"none", "up", "down", "closed"}]
  BY <1>1 DEF TypeOK, Report
<1>3. LinksMove
  BY <1>1 DEF TypeOK, Report, LinksMove, LinkMoves
<1>4. unread[c] \in Seq({"disconnect", "reconnect", "close"})
  BY <1>1 DEF TypeOK
<1>5. /\ more \in Seq({"disconnect", "reconnect", "close"})
      /\ Len(more) = Len(unread[c]) + 1
      /\ more[Len(more)] = event
      /\ \A i \in 1 .. Len(unread[c]) : more[i] = unread[c][i]
  BY <1>4
<1>6. \/ unread' = unread
      \/ unread' = [unread EXCEPT ![c] = more]
  BY DEF Report
<1>7. unread' \in [Connections -> Seq({"disconnect", "reconnect", "close"})]
  BY <1>1, <1>5, <1>6 DEF TypeOK
<1>8. ClosesAreReal'
  <2>. SUFFICES ASSUME NEW d \in Connections, NEW i \in 1 .. Len(unread'[d]),
                       unread'[d][i] = "close"
                PROVE  link'[d] = "closed"
    BY DEF ClosesAreReal
  <2>1. CASE i \in 1 .. Len(unread[d]) /\ unread[d][i] = "close"
    <3>1. link[d] = "closed"
      BY <2>1 DEF ClosesAreReal
    <3>. QED
      BY <1>1, <3>1 DEF TypeOK, Report
  <2>2. CASE d = c /\ unread' = [unread EXCEPT ![c] = more] /\ i = Len(more)
    BY <1>1, <1>5, <2>2 DEF TypeOK, Report
  <2>. HIDE DEF more
  <2>. QED
    BY <1>4, <1>5, <1>6, <2>1, <2>2 DEF TypeOK
<1>. QED
  BY <1>2, <1>3, <1>7, <1>8

-----------------------------------------------------------------------------
(***************************************************************************)
(* Every step keeps the types.                                             *)
(***************************************************************************)
LEMMA TypeStep == ASSUME RuntimeIInv, Next PROVE TypeOK'
<1>. USE RuntimeAssumption DEF RuntimeIInv, TypeOK, Connections, ValidOptions, Settled
<1>1. CASE Request
  BY <1>1 DEF Request, Connect, Attempt, Kept, seriesVars, linkVars, statusVars,
     reconnectVars, closeVars, resourceVars
<1>2. CASE Reconnect
  BY <1>2 DEF Reconnect, seriesVars, linkVars, statusVars, reconnectVars, closeVars,
     resourceVars
<1>3. CASE Close
  BY <1>3 DEF Close, seriesVars, linkVars, statusVars, reconnectVars, closeVars,
     resourceVars
<1>4. CASE FactoryReturns
  <2>1. /\ Created + 1 \in Connections
        /\ link' = [link EXCEPT ![Created + 1] = "up"]
    <3>1. LinkAppears
      BY <1>4 DEF FactoryReturns, Adopt, Discard, LinkAppears
    <3>. QED
      BY <3>1, CreatedCounts DEF LinkAppears
  <2>2. /\ ending' \in SUBSET Connections
        /\ observed' \in SUBSET Connections
        /\ watched' \in SUBSET Connections
        /\ active' \in 0 .. MaxConnections
        /\ target' \in 0 .. MaxConnections
    BY <1>4, <2>1 DEF FactoryReturns, Adopt, Discard, reconnectVars
  <2>3. /\ reconnect' \in {"no", "requested", "connecting", "checking", "cycling",
                           "replacing", "settled"}
        /\ cycle' \in {"waiting", "disconnected", "completed"}
    BY <1>4 DEF FactoryReturns, Adopt, Discard, SetStatus, Seen, reconnectVars,
       statusVars
  <2>. QED
    BY SMTT(30), <1>4, <2>1, <2>2, <2>3 DEF FactoryReturns, Adopt, Discard, SetStatus,
       statusVars, closeVars, resourceVars
<1>5. CASE FactoryFails
  BY <1>5 DEF FactoryFails, Reject, MayRetry, SetStatus, Seen, seriesVars, linkVars,
     statusVars, reconnectVars, closeVars, resourceVars
<1>6. CASE DelayRefused
  BY <1>6 DEF DelayRefused, Reject, seriesVars, linkVars, statusVars, reconnectVars,
     closeVars, resourceVars
<1>7. CASE RetryDue
  BY SMTT(30), <1>7 DEF RetryDue, Reject, Attempt, Shared, SetStatus, Seen, seriesVars,
     linkVars, statusVars, reconnectVars, closeVars, resourceVars
<1>8. CASE CleanedUp
  <2>1. ending' \in SUBSET Connections
    BY <1>8 DEF CleanedUp
  <2>. QED
    BY <1>8, <2>1 DEF CleanedUp, Reject, statusVars, closeVars, resourceVars
<1>9. CASE PromiseForgotten
  BY <1>9 DEF PromiseForgotten, seriesVars, linkVars, statusVars, reconnectVars,
     closeVars, resourceVars
<1>10. CASE ReconnectBegins
  BY <1>10 DEF ReconnectBegins, ReconnectEnds, Replace, Await, Connect, Attempt, Kept,
     seriesVars, linkVars, statusVars, reconnectVars, closeVars, resourceVars
<1>11. CASE ReconnectChecks
  <2>1. CASE Closing /\ ReconnectEnds
    BY <1>11, <2>1 DEF ReconnectChecks, ReconnectEnds, seriesVars, closeVars,
       resourceVars
  <2>2. CASE Replace
    BY <1>11, <2>2 DEF ReconnectChecks, Replace, Await, Connect, Attempt, Kept,
       closeVars,
       resourceVars
  <2>3. CASE ~Closing /\ IsOpen(target) /\ reconnect' = "cycling"
    <3>1. /\ link' \in [Connections -> {"none", "up", "down", "closed"}]
          /\ unread' \in [Connections -> Seq({"disconnect", "reconnect", "close"})]
      <4>1. \/ Report(target, "down", "disconnect")
            \/ UNCHANGED <<link, unread>>
        BY <1>11, <2>3 DEF ReconnectChecks, ReconnectEnds, Replace, Await
      <4>. QED
        BY <2>3, <4>1, ReportMoves
    <3>2. /\ UNCHANGED <<seriesVars, active, status, target>>
          /\ cycle' \in {"waiting", "disconnected", "completed"}
      BY <1>11, <2>3 DEF ReconnectChecks, ReconnectEnds, Replace, Await
    <3>. QED
      BY <1>11, <2>3, <3>1, <3>2 DEF ReconnectChecks, seriesVars, closeVars,
         resourceVars
  <2>. QED
    BY <1>11, <2>1, <2>2, <2>3 DEF ReconnectChecks
<1>12. CASE ReconnectCycled
  BY <1>12 DEF ReconnectCycled, ReconnectEnds, Replace, Await, Connect, Attempt, Kept,
     seriesVars, linkVars, statusVars, reconnectVars, closeVars, resourceVars
<1>13. CASE NativeReconnectFails
  BY <1>13 DEF NativeReconnectFails, ReconnectEnds, seriesVars, linkVars, statusVars,
     reconnectVars, closeVars, resourceVars
<1>14. CASE ReconnectDisposed
  BY <1>14 DEF ReconnectDisposed, ReconnectEnds, seriesVars, linkVars, statusVars,
     reconnectVars, closeVars, resourceVars
<1>15. CASE ReconnectForgotten
  BY <1>15 DEF ReconnectForgotten, seriesVars, linkVars, statusVars, reconnectVars,
     closeVars, resourceVars
<1>16. ASSUME NEW c \in Connections, LinkDrops(c) PROVE TypeOK'
  <2>1. /\ link' \in [Connections -> {"none", "up", "down", "closed"}]
        /\ unread' \in [Connections -> Seq({"disconnect", "reconnect", "close"})]
    BY <1>16, ReportMoves DEF LinkDrops, IsOpen
  <2>. QED
    BY <1>16, <2>1 DEF LinkDrops, LinkEvent, seriesVars, statusVars, reconnectVars,
       closeVars, resourceVars
<1>17. ASSUME NEW c \in Connections, LinkRecovers(c) PROVE TypeOK'
  BY <1>17 DEF LinkRecovers, Report, LinkEvent, seriesVars, linkVars, statusVars,
     reconnectVars, closeVars, resourceVars
<1>18. ASSUME NEW c \in Connections, LinkCloses(c) PROVE TypeOK'
  BY <1>18 DEF LinkCloses, Report, LinkEvent, seriesVars, linkVars, statusVars,
     reconnectVars, closeVars, resourceVars
<1>19. ASSUME NEW c \in Connections, StatusRead(c) PROVE TypeOK'
  <2>1. unread' \in [Connections -> Seq({"disconnect", "reconnect", "close"})]
    <3>1. unread[c] \in Seq({"disconnect", "reconnect", "close"}) /\ unread[c] # <<>>
      BY <1>19 DEF StatusRead
    <3>2. /\ Tail(unread[c]) \in Seq({"disconnect", "reconnect", "close"})
          /\ <<>> \in Seq({"disconnect", "reconnect", "close"})
      BY <3>1
    <3>3. \/ unread' = [unread EXCEPT ![c] = <<>>]
          \/ unread' = [unread EXCEPT ![c] = Tail(unread[c])]
      BY <1>19 DEF StatusRead
    <3>. QED
      BY <3>2, <3>3
  <2>2. /\ active' \in 0 .. MaxConnections
        /\ series' \in {"none", "factory", "retrying", "cleanup"}
        /\ attempt' \in 0 .. options.maxAttempts
        /\ promise' \in {"none", "pending", "resolved", "rejected"}
    BY <1>19 DEF StatusRead, PermanentClose, Connect, Attempt, Kept, seriesVars
  <2>3. /\ status' \in {"idle", "connecting", "connected", "disconnected", "closed"}
        /\ cycle' \in {"waiting", "disconnected", "completed"}
    BY <1>19 DEF StatusRead, PermanentClose, Connect, Kept, SetStatus, Seen, statusVars
  <2>4. observed' \in SUBSET Connections
    BY <1>19 DEF StatusRead
  <2>. QED
    BY <1>19, <2>1, <2>2, <2>3, <2>4 DEF StatusRead, reconnectVars, closeVars,
       resourceVars
<1>20. ASSUME NEW c \in Connections, StatusStreamFails(c) PROVE TypeOK'
  BY <1>20 DEF StatusStreamFails, seriesVars, linkVars, statusVars, reconnectVars,
     closeVars, resourceVars
<1>21. ASSUME NEW c \in Connections, ClosedCallback(c) PROVE TypeOK'
  BY <1>21 DEF ClosedCallback, PermanentClose, Connect, Attempt, Kept, SetStatus,
     Seen, seriesVars, linkVars, statusVars, reconnectVars, closeVars, resourceVars
<1>22. ASSUME NEW r \in Resources, Manage(r) PROVE TypeOK'
  BY <1>22 DEF Manage, seriesVars, linkVars, statusVars, reconnectVars, closeVars,
     resourceVars
<1>23. ASSUME NEW r \in Resources, ResourceEnds(r) PROVE TypeOK'
  BY <1>23 DEF ResourceEnds, seriesVars, linkVars, statusVars, reconnectVars,
     closeVars, resourceVars
<1>24. ASSUME NEW r \in Resources, ResourceReleased(r) PROVE TypeOK'
  BY <1>24 DEF ResourceReleased, seriesVars, linkVars, statusVars, reconnectVars,
     closeVars, resourceVars
<1>25. CASE CloseResources
  BY <1>25 DEF CloseResources, seriesVars, linkVars, statusVars, reconnectVars,
     closeVars, resourceVars
<1>26. CASE ResourcesClosed
  BY <1>26 DEF ResourcesClosed, seriesVars, linkVars, statusVars, reconnectVars,
     closeVars, resourceVars
<1>27. CASE ConnectionAwaited
  BY <1>27 DEF ConnectionAwaited, seriesVars, linkVars, statusVars, reconnectVars,
     closeVars, resourceVars
<1>28. CASE Drained
  <2>1. /\ link' \in [Connections -> {"none", "up", "down", "closed"}]
        /\ unread' \in [Connections -> Seq({"disconnect", "reconnect", "close"})]
    <3>1. \/ IsOpen(draining) /\ Report(draining, "closed", "close")
          \/ UNCHANGED <<link, unread>>
      BY <1>28 DEF Drained
    <3>. QED
      BY <3>1, ReportMoves
  <2>. QED
    BY SMTT(30), <1>28, <2>1 DEF Drained, seriesVars, statusVars, reconnectVars, resourceVars
<1>29. CASE DrainFails
  BY <1>29 DEF DrainFails, EndClose, IsOpen, seriesVars, linkVars, statusVars,
     reconnectVars, closeVars, resourceVars
<1>30. CASE LateAwaited
  BY <1>30 DEF LateAwaited, EndClose, IsOpen, seriesVars, linkVars, statusVars,
     reconnectVars, closeVars, resourceVars
<1>31. CASE Deadline
  BY <1>31 DEF Deadline, EndClose, IsOpen, seriesVars, linkVars, statusVars,
     reconnectVars, closeVars, resourceVars
<1>. QED
  BY <1>1, <1>2, <1>3, <1>4, <1>5, <1>6, <1>7, <1>8, <1>9, <1>10, <1>11, <1>12, <1>13,
     <1>14, <1>15, <1>16, <1>17, <1>18, <1>19, <1>20, <1>21, <1>22, <1>23, <1>24,
     <1>25, <1>26, <1>27, <1>28, <1>29, <1>30, <1>31 DEF Next, Factory, Run
-----------------------------------------------------------------------------
(***************************************************************************)
(* What a step does to the links.                                          *)
(***************************************************************************)
\* The loop that reads the statuses of a connection removes some of them.
Forgotten(c) == \/ unread' = [unread EXCEPT ![c] = <<>>]
                \/ unread[c] # <<>> /\ unread' = [unread EXCEPT ![c] = Tail(@)]

\* Reading a status invents none.
LEMMA ReadingIsSound ==
    ASSUME TypeOK, ClosesAreReal, UNCHANGED link,
           NEW c \in Connections, Forgotten(c)
    PROVE  ClosesAreReal'
<1>. SUFFICES ASSUME NEW d \in Connections, NEW i \in 1 .. Len(unread'[d]),
                     unread'[d][i] = "close"
              PROVE  link[d] = "closed"
  BY DEF ClosesAreReal
<1>1. unread[d] \in Seq({"disconnect", "reconnect", "close"})
  BY DEF TypeOK
<1>2. CASE unread'[d] = unread[d]
  BY <1>2 DEF ClosesAreReal
<1>3. CASE unread[d] # <<>> /\ unread'[d] = Tail(unread[d])
  <2>1. i + 1 \in 1 .. Len(unread[d]) /\ unread[d][i + 1] = "close"
    BY <1>1, <1>3
  <2>. QED
    BY <2>1 DEF ClosesAreReal
<1>4. CASE unread'[d] = <<>>
  BY <1>4
<1>. QED
  BY <1>2, <1>3, <1>4 DEF TypeOK, Forgotten

\* A step moves links, or adds the connection that the factory returns.
LEMMA LinkSteps ==
    ASSUME RuntimeIInv, Next
    PROVE  /\ ClosesAreReal'
           /\ LinksMove \/ (FactoryReturns /\ LinkAppears)
<1>. USE DEF RuntimeIInv
<1>1. ASSUME UNCHANGED <<link, unread>> PROVE ClosesAreReal' /\ LinksMove
  BY <1>1 DEF ClosesAreReal, LinksMove, LinkMoves
<1>2. CASE FactoryReturns
  <2>1. LinkAppears /\ UNCHANGED unread
    BY <1>2 DEF FactoryReturns, Adopt, Discard, LinkAppears
  <2>2. link[Created + 1] = "none"
    BY <2>1, AppearanceIsNumbered
  <2>3. \A c \in Connections : link[c] = "closed" => link'[c] = "closed"
    BY <2>1, <2>2 DEF LinkAppears, TypeOK
  <2>. QED
    BY <1>2, <2>1, <2>3 DEF ClosesAreReal
<1>3. ASSUME NEW c \in Connections,
             LinkDrops(c) \/ LinkRecovers(c) \/ LinkCloses(c)
      PROVE  ClosesAreReal' /\ LinksMove
  BY <1>3, ReportMoves DEF LinkDrops, LinkRecovers, LinkCloses, IsOpen
<1>4. ASSUME NEW c \in Connections, StatusRead(c) \/ StatusStreamFails(c)
      PROVE  ClosesAreReal' /\ LinksMove
  <2>1. UNCHANGED link /\ Forgotten(c)
    BY <1>4 DEF StatusRead, StatusStreamFails, Forgotten
  <2>. QED
    BY <2>1, ReadingIsSound DEF LinksMove, LinkMoves
<1>5. CASE ReconnectChecks
  <2>1. \/ IsOpen(target) /\ Report(target, "down", "disconnect")
        \/ UNCHANGED <<link, unread>>
    BY <1>5 DEF ReconnectChecks, ReconnectEnds, Replace
  <2>. QED
    BY <1>1, <2>1, ReportMoves
<1>6. CASE Drained
  <2>1. \/ IsOpen(draining) /\ Report(draining, "closed", "close")
        \/ UNCHANGED <<link, unread>>
    BY <1>6 DEF Drained
  <2>. QED
    BY <1>1, <2>1, ReportMoves
<1>7. CASE \/ Request \/ Reconnect \/ Close \/ FactoryFails \/ DelayRefused
           \/ RetryDue \/ CleanedUp \/ PromiseForgotten
  BY <1>1, <1>7 DEF Request, Reconnect, Close, FactoryFails, DelayRefused, RetryDue,
     CleanedUp, PromiseForgotten, linkVars
<1>8. CASE \/ ReconnectBegins \/ ReconnectCycled \/ NativeReconnectFails
           \/ ReconnectDisposed \/ ReconnectForgotten
  BY <1>1, <1>8 DEF ReconnectBegins, ReconnectCycled, NativeReconnectFails,
     ReconnectDisposed, ReconnectForgotten, ReconnectEnds, Replace, linkVars
<1>9. CASE \/ CloseResources \/ ResourcesClosed \/ ConnectionAwaited \/ LateAwaited
           \/ Deadline \/ DrainFails
  BY <1>1, <1>9 DEF CloseResources, ResourcesClosed, ConnectionAwaited, LateAwaited,
     Deadline, DrainFails, EndClose, linkVars
<1>10. ASSUME NEW c \in Connections, ClosedCallback(c)
       PROVE  ClosesAreReal' /\ LinksMove
  BY <1>1, <1>10 DEF ClosedCallback
<1>11. ASSUME NEW r \in Resources, Manage(r) \/ ResourceEnds(r) \/ ResourceReleased(r)
       PROVE  ClosesAreReal' /\ LinksMove
  BY <1>1, <1>11 DEF Manage, ResourceEnds, ResourceReleased, linkVars
<1>. QED
  BY <1>2, <1>3, <1>4, <1>5, <1>6, <1>7, <1>8, <1>9, <1>10, <1>11 DEF Next, Factory, Run
-----------------------------------------------------------------------------
(***************************************************************************)
(* What a step does to the connection of the runtime: most leave it alone; *)
(* connection() is called, with a closed connection forgotten or not; a    *)
(* closed connection is forgotten for good.  The other kinds are one       *)
(* action each.                                                            *)
(***************************************************************************)
Stays == UNCHANGED <<options, seriesVars, active, cleanup, closePhase, draining>>

Connects ==
    /\ ~Closing
    /\ \/ Connect(active, promise)
       \/ Connect(0, "none") /\ IsClosed(active)
    /\ UNCHANGED <<options, cleanup, closePhase, draining>>

Forgets ==
    /\ IsClosed(active) /\ active' = 0
    /\ promise' = "none"
    /\ UNCHANGED <<options, series, attempt, cleanup, closePhase, draining>>

SeriesSteps == FactoryFails \/ DelayRefused \/ RetryDue \/ CleanedUp \/ PromiseForgotten

CloseSteps == \/ Close \/ CloseResources \/ ResourcesClosed \/ ConnectionAwaited
              \/ Drained \/ DrainFails \/ LateAwaited \/ Deadline

\* handlePermanentClose() is only called for a connection that has closed.
LEMMA PermanentCloseIsReal ==
    ASSUME NEW c, IsClosed(c), PermanentClose(c),
           UNCHANGED <<options, cleanup, closeVars>>
    PROVE  Stays \/ Connects \/ Forgets
<1>1. CASE ~OnlyActive(c)
  BY <1>1 DEF PermanentClose, Stays, closeVars
<1>2. CASE OnlyActive(c) /\ RestartsNow
  BY <1>2 DEF PermanentClose, OnlyActive, RestartsNow, Connects, closeVars
<1>3. CASE OnlyActive(c) /\ ~RestartsNow
  BY <1>3 DEF PermanentClose, OnlyActive, Forgets, closeVars
<1>. QED
  BY <1>1, <1>2, <1>3

\* The kinds are all.
LEMMA StepKinds ==
    ASSUME RuntimeIInv, Next
    PROVE  \/ Stays \/ Connects \/ Forgets
           \/ FactoryReturns \/ SeriesSteps \/ CloseSteps
<1>. USE DEF RuntimeIInv
<1>1. CASE Request
  BY <1>1 DEF Request, Connects, closeVars
<1>2. CASE Reconnect \/ ReconnectForgotten \/ NativeReconnectFails \/ ReconnectDisposed
  BY <1>2 DEF Reconnect, ReconnectForgotten, NativeReconnectFails, ReconnectDisposed,
     ReconnectEnds, Stays, closeVars
<1>3. CASE ReconnectBegins
  BY <1>3 DEF ReconnectBegins, ReconnectEnds, Await, Stays, Connects, closeVars
<1>4. ASSUME Replace, IsClosed(target), ~Closing, UNCHANGED <<options, cleanup, closeVars>>
      PROVE  Connects
  BY <1>4 DEF Replace, Await, Connects, closeVars
<1>5. CASE ReconnectChecks
  <2>1. CASE Closing /\ ReconnectEnds
    BY <1>5, <2>1 DEF ReconnectChecks, ReconnectEnds, Stays, closeVars
  <2>2. CASE ~Closing /\ IsClosed(target) /\ Replace
    BY <1>4, <1>5, <2>2 DEF ReconnectChecks
  <2>3. CASE UNCHANGED <<seriesVars, active>>
    BY <1>5, <2>3 DEF ReconnectChecks, Stays, closeVars
  <2>. QED
    BY <1>5, <2>1, <2>2, <2>3 DEF ReconnectChecks
<1>6. CASE ReconnectCycled
  <2>1. CASE ReconnectEnds
    BY <1>6, <2>1 DEF ReconnectCycled, ReconnectEnds, Stays, closeVars
  <2>2. CASE ~Closing /\ IsClosed(target) /\ Replace
    BY <1>4, <1>6, <2>2 DEF ReconnectCycled
  <2>. QED
    BY <1>6, <2>1, <2>2 DEF ReconnectCycled, Gone
<1>7. ASSUME NEW c \in Connections,
             LinkDrops(c) \/ LinkRecovers(c) \/ LinkCloses(c) \/ StatusStreamFails(c)
      PROVE  Stays
  BY <1>7 DEF LinkDrops, LinkRecovers, LinkCloses, LinkEvent, StatusStreamFails, Stays,
     closeVars
<1>8. ASSUME NEW c \in Connections, StatusRead(c)
      PROVE  Stays \/ Connects \/ Forgets
  <2>1. CASE UNCHANGED <<active, seriesVars>>
    BY <1>8, <2>1 DEF StatusRead, Stays, closeVars
  <2>2. CASE Head(unread[c]) = "close" /\ PermanentClose(c)
    <3>1. /\ unread[c] \in Seq({"disconnect", "reconnect", "close"})
          /\ unread[c] # <<>>
      BY <1>8 DEF StatusRead, TypeOK
    <3>2. 1 \in 1 .. Len(unread[c]) /\ unread[c][1] = "close"
      BY <2>2, <3>1
    <3>3. IsClosed(c)
      BY <3>2 DEF ClosesAreReal, IsClosed
    <3>. QED
      BY <1>8, <2>2, <3>3, PermanentCloseIsReal DEF StatusRead
  <2>. QED
    BY <1>8, <2>1, <2>2 DEF StatusRead
<1>9. ASSUME NEW c \in Connections, ClosedCallback(c)
      PROVE  Stays \/ Connects \/ Forgets
  BY <1>9, PermanentCloseIsReal DEF ClosedCallback
<1>10. ASSUME NEW r \in Resources, Manage(r) \/ ResourceEnds(r) \/ ResourceReleased(r)
       PROVE  Stays
  BY <1>10 DEF Manage, ResourceEnds, ResourceReleased, Stays, closeVars
<1>. QED
  BY <1>1, <1>2, <1>3, <1>5, <1>6, <1>7, <1>8, <1>9, <1>10
  DEF Next, Factory, Run, SeriesSteps, CloseSteps
-----------------------------------------------------------------------------
(***************************************************************************)
(* Every kind of step keeps what the invariant says of the connection.     *)
(***************************************************************************)
Kernel == Shared /\ Owned /\ ConnectionShut

\* No connection opens, and none is added.
LinksSettle == /\ Created' = Created
               /\ \A c \in Connections : IsOpen(c)' => IsOpen(c)
               /\ \A c : IsClosed(c) => IsClosed(c)'

LEMMA StayingKeeps ==
    ASSUME Kernel, LinksSettle, Stays
    PROVE  Kernel'
<1>. USE DEF Kernel, LinksSettle, Stays, seriesVars
<1>1. Shared'
  BY DEF Shared
<1>2. Owned'
  BY DEF Owned, Closing
<1>3. ConnectionShut'
  BY DEF ConnectionShut, Waited
<1>. QED
  BY <1>1, <1>2, <1>3

\* A series starts only when there is no connection and no other series.
LEMMA ConnectingKeeps ==
    ASSUME TypeOK, Kernel, LinksSettle, Connects
    PROVE  Kernel'
<1>. USE DEF Kernel, LinksSettle, Connects
<1>1. cleanup = "none" /\ ~Waited
  BY DEF Owned, Closing, Waited
<1>2. \A c \in Connections : IsOpen(c) => c = active /\ ~IsClosed(c)
  BY <1>1 DEF Owned, IsOpen, IsClosed
<1>3. CASE Connect(active, promise)
  <2>1. Shared'
    BY <1>3 DEF Shared, Connect, Kept, Attempt, TypeOK
  <2>2. Owned'
    BY <1>1, <1>2, <1>3, <2>1 DEF Owned, Shared, Connect, Kept, Attempt
  <2>3. ConnectionShut'
    BY <1>1 DEF ConnectionShut, Waited
  <2>. QED
    BY <2>1, <2>2, <2>3
<1>4. CASE Connect(0, "none") /\ IsClosed(active)
  <2>1. active # 0 /\ ~IsClosed(0) /\ series = "none"
    BY <1>4, RuntimeAssumption DEF IsClosed, Connections, Shared
  <2>2. Shared'
    BY <1>4, <2>1 DEF Shared, Connect, Kept, Attempt
  <2>3. Owned'
    BY <1>1, <1>2, <1>4, <2>1 DEF Owned, Connect, Kept, Attempt
  <2>4. ConnectionShut'
    BY <1>1 DEF ConnectionShut, Waited
  <2>. QED
    BY <2>2, <2>3, <2>4
<1>. QED
  BY <1>3, <1>4

LEMMA ForgettingKeeps ==
    ASSUME TypeOK, Kernel, LinksSettle, Forgets
    PROVE  Kernel'
<1>. USE DEF Kernel, LinksSettle, Forgets
<1>1. active # 0 /\ series = "none" /\ cleanup = "none"
  BY RuntimeAssumption DEF IsClosed, Connections, Shared, Owned
<1>2. \A c \in Connections : ~IsOpen(c)
  BY <1>1 DEF Owned, IsOpen, IsClosed
<1>3. Shared'
  BY <1>1 DEF Shared
<1>4. Owned'
  BY <1>1, <1>2 DEF Owned
<1>5. ConnectionShut'
  BY <1>1, <1>2 DEF ConnectionShut, Waited
<1>. QED
  BY <1>3, <1>4, <1>5

\* A connection that comes in time is the only one; one that comes too late is
\* the only one as well, and is not adopted.
LEMMA ReturningKeeps ==
    ASSUME TypeOK, TypeOK', Kernel, FactoryReturns, LinkAppears, Numbered
    PROVE  Kernel'
<1>. USE DEF Kernel
<1>1. /\ Created' = Created + 1
      /\ Created' \in Connections
      /\ link[Created'] = "none"
  BY AppearanceIsNumbered
<1>2. series = "factory" /\ promise = "pending" /\ active = 0 /\ cleanup = "none"
  BY DEF FactoryReturns, Shared, Owned
<1>3. \A c \in Connections : ~IsOpen(c)
  BY <1>2, RuntimeAssumption DEF Owned, Connections
<1>4. \A c \in Connections : IsOpen(c)' => c = Created'
  BY <1>1, <1>3 DEF LinkAppears, TypeOK, IsOpen
<1>5. UNCHANGED <<options, closePhase, draining>> /\ ~Waited
  BY <1>2 DEF FactoryReturns, closeVars, ConnectionShut
<1>6. CASE Closing
  <2>. USE <1>6 DEF FactoryReturns, Late, Discard
  <2>1. Shared'
    BY <1>2, <1>5 DEF Shared
  <2>2. Owned'
    BY <1>2, <1>4, <1>5 DEF Owned, Closing
  <2>3. ConnectionShut'
    BY <1>2, <1>5 DEF ConnectionShut, Waited
  <2>. QED
    BY <2>1, <2>2, <2>3
<1>7. CASE ~Closing
  <2>. USE <1>7 DEF FactoryReturns, Late, Adopt
  <2>1. Shared'
    BY <1>2, <1>5 DEF Shared
  <2>2. Owned'
    BY <1>1, <1>2, <1>4, <1>5 DEF Owned, Closing
  <2>3. ConnectionShut'
    BY <1>2, <1>5, <1>7 DEF ConnectionShut, Waited, Closing
  <2>. QED
    BY <2>1, <2>2, <2>3
<1>. QED
  BY <1>6, <1>7

\* A series goes on with its promise, or ends with it.
LEMMA SeriesKeeps ==
    ASSUME TypeOK, TypeOK', Kernel, LinksSettle, UNCHANGED link, SeriesSteps
    PROVE  Kernel'
<1>. USE DEF Kernel, LinksSettle
<1>1. UNCHANGED <<options, active, closePhase, draining>>
  BY DEF SeriesSteps, FactoryFails, DelayRefused, RetryDue, CleanedUp, PromiseForgotten,
     closeVars
<1>2. \A c \in Connections : IsOpen(c)' <=> IsOpen(c)
  BY DEF IsOpen
<1>3. CASE Reject /\ series \in {"factory", "retrying"} /\ UNCHANGED cleanup
  <2>. USE <1>3 DEF Reject
  <2>1. Shared'
    BY <1>1 DEF Shared
  <2>2. Owned'
    BY <1>1 DEF Owned, Closing
  <2>3. ConnectionShut'
    BY <1>1, <1>2 DEF ConnectionShut, Waited
  <2>. QED
    BY <2>1, <2>2, <2>3
<1>4. CASE FactoryFails \/ DelayRefused \/ RetryDue
  <2>1. CASE Reject
    BY <1>3, <1>4, <2>1 DEF FactoryFails, DelayRefused, RetryDue
  <2>2. CASE ~Reject
    <3>1. /\ UNCHANGED <<promise, cleanup>>
          /\ \/ series = "factory" /\ series' = "retrying" /\ MayRetry /\ UNCHANGED attempt
             \/ series = "retrying" /\ series' = "factory"
      BY <1>4, <2>2 DEF FactoryFails, DelayRefused, RetryDue, Attempt
    <3>2. Shared'
      BY <1>1, <3>1 DEF Shared, MayRetry
    <3>3. Owned'
      BY <1>1, <3>1 DEF Owned, Closing
    <3>4. ConnectionShut'
      BY <1>1, <1>2, <3>1 DEF ConnectionShut, Waited
    <3>. QED
      BY <3>2, <3>3, <3>4
  <2>. QED
    BY <2>1, <2>2
<1>5. CASE CleanedUp
  <2>. USE <1>5 DEF CleanedUp, Reject
  <2>1. /\ active = 0 /\ cleanup = "pending" /\ cleanup' # "pending"
        /\ Closing /\ ~Waited
    BY DEF Owned, ConnectionShut
  <2>2. Shared'
    BY <1>1, <2>1 DEF Shared
  <2>3. Owned'
    BY <1>1, <1>2, <2>1 DEF Owned, Closing
  <2>4. ConnectionShut'
    BY <1>1, <2>1 DEF ConnectionShut, Waited
  <2>. QED
    BY <2>2, <2>3, <2>4
<1>6. CASE PromiseForgotten
  <2>. USE <1>6 DEF PromiseForgotten
  <2>1. Shared'
    BY DEF Shared
  <2>2. Owned'
    BY DEF Owned, Closing, closeVars
  <2>3. ConnectionShut'
    BY <1>1, <1>2 DEF ConnectionShut, Waited
  <2>. QED
    BY <2>1, <2>2, <2>3
<1>. QED
  BY <1>4, <1>5, <1>6 DEF SeriesSteps

\* close() waits for the series, then drains what is left, then awaits the
\* cleanup of a connection that came late.
LEMMA ClosingKeeps ==
    ASSUME TypeOK, TypeOK', Kernel, LinksSettle, UNCHANGED link \/ Drained, CloseSteps
    PROVE  Kernel'
<1>. USE DEF Kernel, LinksSettle
<1>1. UNCHANGED <<options, seriesVars, active, cleanup>>
  BY DEF CloseSteps, Close, CloseResources, ResourcesClosed, ConnectionAwaited, Drained,
     DrainFails, LateAwaited, Deadline, EndClose
<1>2. Shared'
  BY <1>1 DEF Shared, seriesVars
<1>3. Closing'
  BY DEF CloseSteps, Close, CloseResources, ResourcesClosed, ConnectionAwaited, Drained,
     DrainFails, LateAwaited, Deadline, EndClose, Closing
<1>4. Owned'
  BY <1>1, <1>3 DEF Owned, seriesVars
<1>. SUFFICES ConnectionShut'
  BY <1>2, <1>4
<1>5. ASSUME closePhase' \notin {"draining", "late", "completed"}
      PROVE  ConnectionShut'
  BY <1>5 DEF ConnectionShut, Waited
<1>6. CASE ConnectionAwaited
  <2>. USE <1>1, <1>6 DEF ConnectionAwaited, seriesVars
  <2>1. series = "none"
    BY DEF Shared, PromiseSettled
  <2>2. cleanup # "pending"
    BY <2>1 DEF Owned
  <2>3. CASE IsOpen(active)
    <3>1. active # 0 /\ cleanup = "none"
      BY <2>3, RuntimeAssumption DEF IsOpen, Connections, Owned
    <3>. QED
      BY <2>1, <2>3, <3>1 DEF ConnectionShut, Waited
  <2>4. CASE ~IsOpen(active)
    <3>1. cleanup # "failed" => \A c \in Connections : ~IsOpen(c)
      BY <2>2, <2>4 DEF Owned, IsOpen, IsClosed, TypeOK
    <3>. QED
      BY <2>1, <2>4, <3>1 DEF ConnectionShut, Waited
  <2>. QED
    BY <2>3, <2>4
<1>7. CASE Drained
  <2>. USE <1>1, <1>7 DEF Drained, seriesVars
  <2>1. series = "none" /\ cleanup = "none" /\ active \in {0, draining}
    BY DEF ConnectionShut, Waited
  <2>2. ~IsOpen(draining)'
    <3>1. CASE IsOpen(draining)
      BY <3>1 DEF Report, IsOpen, TypeOK
    <3>2. CASE ~IsOpen(draining)
      BY <3>2 DEF IsOpen
    <3>. QED
      BY <3>1, <3>2
  <2>3. \A c \in Connections : ~IsOpen(c)'
    BY <2>1, <2>2, RuntimeAssumption DEF Owned, Connections
  <2>. QED
    BY <2>1, <2>3 DEF ConnectionShut, Waited
<1>8. CASE LateAwaited
  <2>. USE <1>1, <1>8 DEF LateAwaited, EndClose, CleanupFailed, seriesVars
  <2>1. series = "none" /\ ((\A c \in Connections : ~IsOpen(c)) \/ cleanup = "failed")
    BY DEF ConnectionShut, Waited
  <2>2. CASE cleanup = "failed"
    BY <1>5, <2>2
  <2>3. CASE cleanup # "failed"
    BY <2>1, <2>3 DEF ConnectionShut, Waited
  <2>. QED
    BY <2>2, <2>3
<1>9. CASE Close \/ CloseResources \/ ResourcesClosed \/ DrainFails \/ Deadline
  BY <1>5, <1>9 DEF Close, CloseResources, ResourcesClosed, DrainFails, Deadline, EndClose
<1>. QED
  BY <1>6, <1>7, <1>8, <1>9 DEF CloseSteps

-----------------------------------------------------------------------------
(***************************************************************************)
(* The resources: close() closes those that the runtime tracks and waits   *)
(* for all of them; after close() none is added.                           *)
(***************************************************************************)
LEMMA ResourcesStep ==
    ASSUME RuntimeIInv, Next
    PROVE  ResourcesShut'
<1>. USE DEF RuntimeIInv, ResourcesShut, Running, Waited, Closing
<1>1. ASSUME UNCHANGED <<resource, tracked, awaited, closePhase>> PROVE ResourcesShut'
  BY <1>1
<1>2. CASE Close
  BY <1>2 DEF Close, resourceVars
<1>3. CASE CloseResources
  BY <1>3 DEF CloseResources, TypeOK
<1>4. CASE ResourcesClosed
  BY <1>4 DEF ResourcesClosed, resourceVars
<1>5. CASE ConnectionAwaited \/ Drained
  BY <1>5 DEF ConnectionAwaited, Drained, resourceVars
<1>6. CASE DrainFails \/ LateAwaited \/ Deadline
  BY <1>6 DEF DrainFails, LateAwaited, Deadline, TimerRuns, EndClose, resourceVars
<1>7. ASSUME NEW r \in Resources, Manage(r) PROVE ResourcesShut'
  BY <1>7 DEF Manage, closeVars, TypeOK
<1>8. ASSUME NEW r \in Resources, ResourceEnds(r) \/ ResourceReleased(r)
      PROVE  ResourcesShut'
  BY <1>8 DEF ResourceEnds, ResourceReleased, closeVars, TypeOK
<1>9. CASE \/ Request \/ Reconnect \/ FactoryFails \/ DelayRefused \/ RetryDue
           \/ CleanedUp \/ PromiseForgotten \/ FactoryReturns
  BY <1>1, <1>9 DEF Request, Reconnect, FactoryFails, DelayRefused, RetryDue, CleanedUp,
     PromiseForgotten, FactoryReturns, closeVars, resourceVars
<1>10. CASE \/ ReconnectBegins \/ ReconnectChecks \/ ReconnectCycled
            \/ NativeReconnectFails \/ ReconnectDisposed \/ ReconnectForgotten
  BY <1>1, <1>10 DEF ReconnectBegins, ReconnectChecks, ReconnectCycled,
     NativeReconnectFails, ReconnectDisposed, ReconnectForgotten, closeVars, resourceVars
<1>11. ASSUME NEW c \in Connections,
              \/ LinkDrops(c) \/ LinkRecovers(c) \/ LinkCloses(c)
              \/ StatusRead(c) \/ StatusStreamFails(c) \/ ClosedCallback(c)
       PROVE  ResourcesShut'
  BY <1>1, <1>11 DEF LinkDrops, LinkRecovers, LinkCloses, LinkEvent, StatusRead,
     StatusStreamFails, ClosedCallback, closeVars, resourceVars
<1>. QED
  BY <1>2, <1>3, <1>4, <1>5, <1>6, <1>7, <1>8, <1>9, <1>10, <1>11 DEF Next, Factory, Run

-----------------------------------------------------------------------------
(***************************************************************************)
(* The theorems.                                                           *)
(***************************************************************************)
\* Nothing has happened to a new runtime.
LEMMA InitialRuntime == Init => RuntimeIInv
<1>. SUFFICES ASSUME Init PROVE RuntimeIInv
  OBVIOUS
<1>. USE RuntimeAssumption DEF Init
<1>1. TypeOK
  BY DEF TypeOK, ValidOptions, Settled
<1>2. Numbered
  <2>1. {c \in Connections : link[c] # "none"} = {}
    OBVIOUS
  <2>2. Created = 0
    BY <2>1, FS_EmptySet DEF Created
  <2>. QED
    BY <2>2 DEF Numbered, Connections
<1>3. ClosesAreReal /\ Shared
  BY DEF ClosesAreReal, Shared
<1>4. Owned /\ ConnectionShut /\ ResourcesShut
  BY DEF Owned, IsOpen, ConnectionShut, Waited, ResourcesShut, Running
<1>. QED
  BY <1>1, <1>2, <1>3, <1>4 DEF RuntimeIInv

\* Every step keeps the invariant.
LEMMA RuntimeSteps ==
    ASSUME RuntimeIInv, [Next]_vars
    PROVE  RuntimeIInv'
<1>1. CASE Next
  <2>1. TypeOK' /\ ClosesAreReal' /\ ResourcesShut'
    BY <1>1, TypeStep, LinkSteps, ResourcesStep
  <2>2. Kernel /\ TypeOK /\ Numbered
    BY DEF RuntimeIInv, Kernel
  <2>3. CASE FactoryReturns /\ LinkAppears
    BY <2>1, <2>2, <2>3, AppearanceIsNumbered, ReturningKeeps DEF RuntimeIInv, Kernel
  <2>4. CASE LinksMove
    <3>1. Numbered' /\ LinksSettle
      BY <2>1, <2>2, <2>4, MovesKeepNumbers DEF LinksSettle
    <3>2. ~FactoryReturns
      <4>1. SUFFICES ASSUME FactoryReturns PROVE FALSE
        OBVIOUS
      <4>2. LinkAppears
        BY <4>1 DEF FactoryReturns, Adopt, Discard, LinkAppears
      <4>3. Created' = Created + 1 /\ Created \in Nat
        BY <2>2, <4>2, AppearanceIsNumbered, CreatedCounts
      <4>. QED
        BY <3>1, <4>3 DEF LinksSettle
    <3>3. SeriesSteps => UNCHANGED link
      BY DEF SeriesSteps, FactoryFails, DelayRefused, RetryDue, CleanedUp,
         PromiseForgotten, linkVars
    <3>4. CloseSteps => UNCHANGED link \/ Drained
      BY DEF CloseSteps, Close, CloseResources, ResourcesClosed, ConnectionAwaited,
         DrainFails, LateAwaited, Deadline, EndClose, linkVars
    <3>5. Kernel'
      BY <1>1, <2>1, <2>2, <3>1, <3>2, <3>3, <3>4, StepKinds, StayingKeeps,
         ConnectingKeeps, ForgettingKeeps, SeriesKeeps, ClosingKeeps
    <3>. QED
      BY <2>1, <3>1, <3>5 DEF RuntimeIInv, Kernel
  <2>. QED
    BY <1>1, <2>3, <2>4, LinkSteps
<1>2. CASE UNCHANGED vars
  <2>. USE <1>2 DEF vars, seriesVars, linkVars, statusVars, reconnectVars, closeVars,
                    resourceVars
  <2>1. TypeOK' /\ ClosesAreReal' /\ ResourcesShut'
    BY DEF RuntimeIInv, TypeOK, ClosesAreReal, ResourcesShut, Running, Waited
  <2>2. LinksMove /\ Stays
    BY DEF LinksMove, LinkMoves, Stays
  <2>3. Numbered' /\ LinksSettle
    BY <2>1, <2>2, MovesKeepNumbers DEF RuntimeIInv, LinksSettle
  <2>. QED
    BY <2>1, <2>2, <2>3, StayingKeeps DEF RuntimeIInv, Kernel
<1>. QED
  BY <1>1, <1>2

\* The inductive invariant of the runtime.
THEOREM RuntimeInvariant == Spec => []RuntimeIInv
  BY InitialRuntime, RuntimeSteps, PTL DEF Spec

\* Types: no attempt is made beyond maxAttempts.
THEOREM RuntimeTyped == Spec => []TypeOK
<1>1. RuntimeIInv => TypeOK
  BY DEF RuntimeIInv
<1>. QED
  BY <1>1, RuntimeInvariant, PTL

\* However losses, explicit reconnects, callers and close() race to replace the
\* connection, one at most is not closed, and one series of attempts runs.
THEOREM AtMostOneConnection == Spec => []OneConnection
<1>1. RuntimeIInv => OneConnection
  <2>. SUFFICES ASSUME RuntimeIInv PROVE OneConnection
    OBVIOUS
  <2>1. cleanup # "none" => active = 0 /\ 0 \notin Connections
    BY RuntimeAssumption DEF RuntimeIInv, Owned, Connections
  <2>2. \A c, d \in Connections : IsOpen(c) /\ IsOpen(d) => c = d
    BY <2>1 DEF RuntimeIInv, Owned
  <2>. QED
    BY <2>2 DEF RuntimeIInv, Shared, OneConnection
<1>. QED
  BY <1>1, RuntimeInvariant, PTL

\* A shutdown that reports success has left no connection, no series of
\* attempts and no resource behind, and no cleanup has failed.
THEOREM CompletedIsClean == Spec => []GracefulIsClean
<1>1. RuntimeIInv => GracefulIsClean
  BY DEF RuntimeIInv, ConnectionShut, Waited, ResourcesShut, Running, GracefulIsClean
<1>. QED
  BY <1>1, RuntimeInvariant, PTL
=============================================================================
