----------------------------- MODULE RuntimeFeed -----------------------------
(***************************************************************************)
(* runtime.events of @natsail/core: RuntimeEventStream, and the loops that *)
(* read it.  Every iterator has a buffer of `capacity` events; a slow one  *)
(* loses its oldest events and is told how many, before the events it has  *)
(* kept.  The loops of useNatsRuntimeStatus() and observeNatsRuntimeEvents()*)
(* call next() as soon as the last event is handled, so an iterator always *)
(* has one promise out: it waits, or it is resolved and not yet handled.   *)
(*                                                                         *)
(* The events for an iterator are numbered in the order of their emission; *)
(* diagnostics look alike; "disconnected" stands for "reconnecting" too.   *)
(***************************************************************************)
EXTENDS Integers, Sequences

CONSTANTS Readers,    \* loops that may read the events
          capacity    \* RuntimeEventStream.capacity

ASSUME FeedAssumption == capacity \in Nat \ {0}

VARIABLES
    status,   \* currentStatus.state
    feed      \* the iterator of each reader, and its loop

feedVars == <<status, feed>>

States == {"idle", "connecting", "connected", "disconnected", "closed"}
Kinds  == States \cup {"diagnostic"}

Unread == [phase   : {"none", "waiting", "resolved", "ended"},
           result  : Kinds \cup {"none", "overflow", "done"},  \* of the promise
           queue   : Seq([n : Nat, kind : Kinds]),
           dropped : Nat,
           closed  : BOOLEAN,
           events  : Nat,      \* emitted since it was created
           read    : Nat,      \* events handed over, or told to be lost
           left    : BOOLEAN,  \* the loop's cancelled
           shown   : States,
           gap     : BOOLEAN]  \* told of a loss since the last status

FeedTypeOK ==
    /\ status \in States
    /\ feed \in [Readers -> Unread]

FeedInit ==
    /\ status = "idle"
    /\ feed = [r \in Readers |->
                  [phase |-> "none", result |-> "none", queue |-> <<>>, dropped |-> 0,
                   closed |-> FALSE, events |-> 0, read |-> 0, left |-> FALSE,
                   shown |-> "idle", gap |-> FALSE]]

Reading(f) == f.phase \in {"waiting", "resolved"}

-----------------------------------------------------------------------------
KeepsOldest(f, kinds) ==
    LET waits == f.phase = "waiting"
        new   == [i \in 1 .. Len(kinds) |-> [n |-> f.events + i, kind |-> kinds[i]]]
        queue == f.queue \o (IF waits THEN Tail(new) ELSE new)
        lost  == IF Len(queue) > capacity THEN Len(queue) - capacity ELSE 0
    IN  [f EXCEPT !.phase   = "resolved",
                  !.result  = IF waits THEN new[1].kind ELSE @,
                  !.read    = IF waits THEN @ + 1 ELSE @,
                  !.events  = @ + Len(kinds),
                  !.queue   = SubSeq(queue, 1, Len(queue) - lost),
                  !.dropped = @ + lost]

(***************************************************************************)
(* emit(), for the events of one step: the first one resolves a promise    *)
(* that waits, the others are queued, and the oldest ones make room.       *)
(***************************************************************************)
Pushed(f, kinds) ==
    LET waits == f.phase = "waiting"
        new   == [i \in 1 .. Len(kinds) |-> [n |-> f.events + i, kind |-> kinds[i]]]
        queue == f.queue \o (IF waits THEN Tail(new) ELSE new)
        lost  == IF Len(queue) > capacity THEN Len(queue) - capacity ELSE 0
    IN  [f EXCEPT !.phase   = "resolved",
                  !.result  = IF waits THEN new[1].kind ELSE @,
                  !.read    = IF waits THEN @ + 1 ELSE @,
                  !.events  = @ + Len(kinds),
                  !.queue   = SubSeq(queue, lost + 1, Len(queue)),
                  !.dropped = @ + lost]

LastStatus(kinds) ==
    LET changes == {i \in DOMAIN kinds : kinds[i] \in States}
    IN  IF changes = {} THEN status
        ELSE kinds[CHOOSE i \in changes : \A j \in changes : j <= i]

\* What one step of the runtime reports.
Emissions == UNION {[1 .. n -> Kinds] : n \in 1 .. 4}

\* setStatus() and diagnostic(): nothing follows the status "closed".
Emit(kinds) ==
    IF status = "closed" THEN UNCHANGED feedVars ELSE
    /\ status' = LastStatus(kinds)
    /\ feed' = [r \in Readers |->
                  IF ~Reading(feed[r]) \/ feed[r].closed THEN feed[r] ELSE
                  [Pushed(feed[r], kinds) EXCEPT !.closed = status' = "closed"]]

NoticeLast(f) ==
    IF f.queue # <<>>
    THEN [f EXCEPT !.phase = "resolved", !.result = Head(f.queue).kind,
                   !.read = Head(f.queue).n, !.queue = Tail(@)]
    ELSE IF f.dropped > 0
    THEN [f EXCEPT !.phase = "resolved", !.result = "overflow",
                   !.read = @ + f.dropped, !.dropped = 0]
    ELSE IF f.closed
    THEN [f EXCEPT !.phase = "resolved", !.result = "done"]
    ELSE [f EXCEPT !.phase = "waiting"]

\* next() of an iterator whose last result has been handled.
Asked(f) ==
    IF f.dropped > 0
    THEN [f EXCEPT !.phase = "resolved", !.result = "overflow",
                   !.read = @ + f.dropped, !.dropped = 0]
    ELSE IF f.queue # <<>>
    THEN [f EXCEPT !.phase = "resolved", !.result = Head(f.queue).kind,
                   !.read = Head(f.queue).n, !.queue = Tail(@)]
    ELSE IF f.closed
    THEN [f EXCEPT !.phase = "resolved", !.result = "done"]
    ELSE [f EXCEPT !.phase = "waiting"]

\* remove(), which return() calls.
Removed(f) ==
    [f EXCEPT !.closed = TRUE, !.queue = <<>>, !.dropped = 0,
              !.phase  = IF @ = "waiting" THEN "resolved" ELSE @,
              !.result = IF f.phase = "waiting" THEN "done" ELSE @]

\* A new iterator begins with the current status, and next() is called at once.
Observe(r) ==
    /\ feed[r].phase = "none"
    /\ feed' = [feed EXCEPT ![r] =
                   Asked([@ EXCEPT !.queue  = <<[n |-> 1, kind |-> status]>>,
                                   !.events = 1,
                                   !.closed = status = "closed"])]
    /\ UNCHANGED status

\* The loop goes on with the result of next().
Handled(f) ==
    [f EXCEPT !.shown = IF f.result \in States THEN f.result ELSE @,
              !.gap   = IF f.result \in States THEN FALSE ELSE @ \/ f.result = "overflow"]

Handle(r) ==
    LET f == Handled(feed[r]) IN
    /\ f.phase = "resolved"
    /\ feed' = [feed EXCEPT ![r] = IF f.left \/ f.result = "done"
                                   THEN [Removed(f) EXCEPT !.phase = "ended"]
                                   ELSE Asked(f)]
    /\ UNCHANGED status

\* The effect is cleaned up, or the subscriber unsubscribes.
Leaves(f) == IF Reading(f) THEN [Removed(f) EXCEPT !.left = TRUE] ELSE f

Leave(r) ==
    /\ Reading(feed[r]) /\ ~feed[r].left
    /\ feed' = [feed EXCEPT ![r] = Leaves(@)]
    /\ UNCHANGED status

\* All readers below a provider are cleaned up with it.
LeaveTogether == feed' = [r \in Readers |-> Leaves(feed[r])] /\ UNCHANGED status

\* What a runtime and its readers do, whatever else happens (ManagedRuntime).
FeedNext ==
    \/ \E kinds \in Emissions : Emit(kinds)
    \/ \E r \in Readers : Observe(r) \/ Handle(r) \/ Leave(r)
    \/ LeaveTogether

FeedSpec == FeedInit /\ [][FeedNext]_feedVars

-----------------------------------------------------------------------------
(***************************************************************************)
(* A reader misses no event without being told: what it has read or been   *)
(* told of, what it still has to be told, and its buffer make up all       *)
(* events, in their order, with the notice before the retained ones.       *)
(***************************************************************************)
GapsAreTold ==
    \A r \in Readers : LET f == feed[r] IN
        Reading(f) /\ ~f.left =>
            /\ f.result # "done" => f.read + f.dropped + Len(f.queue) = f.events
            /\ \A i \in 1 .. Len(f.queue) : f.queue[i].n = f.read + f.dropped + i

(***************************************************************************)
(* In the end a mounted reader shows the runtime's state, "closed" after   *)
(* the shutdown, unless it has been told of lost events since the last     *)
(* status it has seen.                                                     *)
(***************************************************************************)
StatusFinallyShown ==
    \A r \in Readers :
        <>[](feed[r].phase # "none" /\ ~feed[r].left
                => feed[r].shown = status \/ feed[r].gap)
=============================================================================
