---------------------------- MODULE SessionEvents ----------------------------
(***************************************************************************)
(* registry.events of @natsail/session: SessionEventStream with one        *)
(* iterator, as observeNatsSessionEvents() of @natsail/rxjs drives it.     *)
(*                                                                         *)
(* A session reports within the step that changes it, so every step of     *)
(* SessionRegistry here hands its events to the stream as well.  An event  *)
(* names a key, and carries the phase and the references of that moment;   *)
(* which session of the key it is about is known to the model only.        *)
(***************************************************************************)
EXTENDS SessionRegistry, SequencesExt

\* The instances to explore: how many handles acquire a session, how many
\* restarts are asked for, and whether sessions have an idle grace period.
CONSTANT Bounds

ASSUME EventsAssumption ==
    Bounds \subseteq [handles : Nat, restarts : Nat, grace : GraceModes]

VARIABLES
    bounds,   \* the instance; never changes
    restarts, \* restarts so far
    reader,   \* the iterator: absent, reading, waiting, done or gone
    queue,    \* subscriber.queue
    known     \* history: what the reader has been told of each session

readerVars == <<bounds, restarts, reader, queue, known>>
eventVars  == <<vars, readerVars>>

Subscribed == reader \in {"reading", "waiting"}

\* What inspect() of the session says, and whether its close() has settled.
Inspected(s) == [opened |-> phase[s] # "none", phase |-> phase[s],
                 references |-> references[s], closed |-> closing[s] = "done"]

Unheard == [opened |-> FALSE, phase |-> "none", references |-> 0, closed |-> FALSE]

EventsInit ==
    /\ Init
    /\ bounds \in Bounds /\ idleGrace = bounds.grace
    /\ restarts = 0
    /\ reader = "absent" /\ queue = <<>>
    /\ known = [s \in Sessions |-> Unheard]

-----------------------------------------------------------------------------
(***************************************************************************)
(* The stream.  A waiting reader gets the next event at once; for another  *)
(* one an update takes the place of the update of its key that is still    *)
(* queued, and every other event joins the queue.  A closed stream takes   *)
(* no more events.                                                         *)
(***************************************************************************)
SameKind(e, queued)   == queued.type = e.type /\ queued.key = e.key
Supersedes(e, queued) == e.type = "updated" /\ queued.type = "updated" /\ queued.key = e.key

Queued(q, e) ==
    IF \E i \in DOMAIN q : Supersedes(e, q[i])
    THEN [i \in DOMAIN q |-> IF Supersedes(e, q[i]) THEN e ELSE q[i]]
    ELSE Append(q, e)

(***************************************************************************)
(* What an event tells the reader.  It takes the phase from updates, and   *)
(* from another event only of a session it has not heard of.               *)
(***************************************************************************)
Told(view, e) ==
    [view EXCEPT ![e.session] =
        [opened     |-> @.opened \/ e.type = "opened",
         phase      |-> IF e.type = "updated" \/ @.phase = "none" THEN e.phase ELSE @.phase,
         references |-> e.references,
         closed     |-> @.closed \/ e.type = "closed"]]

Emit(events) ==
    LET direct == reader = "waiting" /\ events # <<>> IN
    /\ reader' = IF direct THEN "reading" ELSE reader
    /\ known' = IF direct THEN Told(known, Head(events)) ELSE known
    /\ queue' = IF Subscribed /\ registryPhase # "closed"
                THEN FoldLeft(Queued, queue, IF direct THEN Tail(events) ELSE events)
                ELSE queue

\* report(): an event of s, with the phase and the references of its moment.
Report(s, type, state, count) ==
    [type |-> type, session |-> s, key |-> identity'[s].key, phase |-> state,
     references |-> count]

-----------------------------------------------------------------------------
\* A source that throws reports its error before the session is announced.
AcquireReports(h, k, c) ==
    LET s == handle'[h]
        failed == IF phase'[s] = "error" THEN <<Report(s, "updated", "error", 0)>> ELSE <<>>
        opened == <<Report(s, "opened", phase'[s], 0)>>
        retained == <<Report(s, "retained", phase'[s], references'[s])>>
    IN
    /\ Acquire(h, k, c) /\ UNCHANGED <<bounds, restarts>>
    /\ Cardinality({other \in Handles : handle'[other] # None}) <= bounds.handles
    /\ Emit(IF sessions[k] = None THEN failed \o opened \o retained ELSE retained)

ReleaseReports(h) ==
    /\ Release(h) /\ UNCHANGED <<bounds, restarts>>
    /\ Emit(<<Report(handle[h], "released", phase[handle[h]], references'[handle[h]])>>)

Restarted(s) ==
    LET begun == <<Report(s, "restarting", phase[s], references[s]),
                   Report(s, "updated", "connecting", references[s])>>
    IN  IF phase'[s] = "error" THEN Append(begun, Report(s, "updated", "error", references[s]))
                               ELSE begun

RestartReports ==
    /\ restarts < bounds.restarts
    /\ restarts' = restarts + 1 /\ UNCHANGED bounds
    /\ \/ \E h \in Handles : RestartHandle(h) /\ Emit(Restarted(handle[h]))
       \/ \E k \in Keys : RestartKey(k) /\ Emit(Restarted(sessions[k]))

\* update() of start(), finish(), accept() and close(), and the end of close().
ProgressReports(s) ==
    LET moved == phase'[s] # phase[s] \/ value'[s] # value[s]
        done  == closing'[s] = "done" /\ closing[s] # "done"
    IN
    /\ SessionProgress(s) /\ UNCHANGED <<bounds, restarts>>
    /\ Emit((IF moved THEN <<Report(s, "updated", phase'[s], references[s])>> ELSE <<>>)
            \o (IF done THEN <<Report(s, "closed", "closed", references[s])>> ELSE <<>>))

Silent ==
    /\ (\E s \in Sessions : IdleTimeout(s)) \/ CloseRegistry
    /\ UNCHANGED readerVars

\* The stream closes behind the sessions of the registry: what is queued can
\* still be read.
StreamCloses ==
    /\ RegistryClosed
    /\ reader' = IF reader = "waiting" THEN "done" ELSE reader
    /\ UNCHANGED <<bounds, restarts, queue, known>>

-----------------------------------------------------------------------------
(***************************************************************************)
(* The reader.                                                             *)
(***************************************************************************)
Observe ==
    /\ reader = "absent" /\ registryPhase # "closed"
    /\ reader' = "reading"
    /\ known' = [s \in Sessions |-> Inspected(s)]
    /\ UNCHANGED <<vars, bounds, restarts, queue>>

\* next() of the iterator: the oldest event, the end, or a promise.
NextEvent ==
    \/ /\ queue # <<>>
       /\ queue' = Tail(queue)
       /\ known' = Told(known, Head(queue))
       /\ UNCHANGED reader
    \/ /\ queue = <<>>
       /\ reader' = IF registryPhase = "closed" THEN "done" ELSE "waiting"
       /\ UNCHANGED <<queue, known>>

Read ==
    /\ reader = "reading"
    /\ NextEvent
    /\ UNCHANGED <<vars, bounds, restarts>>

\* The subscriber unsubscribes: return() of the iterator.
Leave ==
    /\ Subscribed
    /\ reader' = "gone" /\ queue' = <<>>
    /\ known' = [s \in Sessions |-> Unheard]
    /\ UNCHANGED <<vars, bounds, restarts>>

EventsNext ==
    \/ \E h \in Handles, k \in Keys, c \in Contracts : AcquireReports(h, k, c)
    \/ \E h \in Handles : ReleaseReports(h)
    \/ RestartReports
    \/ \E s \in Sessions : ProgressReports(s)
    \/ Silent \/ StreamCloses
    \/ Observe \/ Read \/ Leave

EventsSpec == EventsInit /\ [][EventsNext]_eventVars

-----------------------------------------------------------------------------
(***************************************************************************)
(* Once it has read what is queued, a reader that knew the sessions when   *)
(* it began knows of each whether it was opened, how many hold it and      *)
(* whether it is closed, although updates overtake other events.  It knows *)
(* the phase too, unless another session of the key has been opened: their *)
(* updates supersede each other.                                           *)
(***************************************************************************)
Alone(s) == \A other \in Sessions \ {s} : identity[other].key # identity[s].key

EventsAddUp ==
    Subscribed /\ registryPhase # "closed" =>
        LET told == FoldLeft(Told, known, queue) IN
        \A s \in Sessions :
            told[s] = IF Alone(s) THEN Inspected(s)
                      ELSE [Inspected(s) EXCEPT !.phase = told[s].phase]
=============================================================================
