--------------------------- MODULE OrderedConsumer ---------------------------
(***************************************************************************)
(* consumeJetStream() of @natsail/jetstream with a resume configuration:   *)
(* JetStreamSubscription replays an ordered consumer into one handler, and *)
(* CheckpointWriter saves the handled sequences to a CheckpointStore of    *)
(* @natsail/checkpoints.                                                   *)
(*                                                                         *)
(* Leases share one stream, one checkpoint key and one store: a lease that *)
(* opens after another has ended or crashed resumes its work, and one that *)
(* opens while another runs is a second writer.  A crash loses everything  *)
(* but the store.  The stream and its consumers are external.              *)
(***************************************************************************)
EXTENDS Integers, FiniteSets, Sequences

CONSTANTS Leases,            \* runs of consumeJetStream()
          Options,           \* the option settings to consider
          Bounds,            \* of the instance for each of them: how many messages
                             \* the stream receives, and how many come again
          LivePurge          \* TRUE when retention may overtake a running lease

(***************************************************************************)
(* The settings that consumeJetStream() accepts: maxItems and timed are    *)
(* the two bounds of resume.coalesce (0 and FALSE when unset), duplicates  *)
(* is duplicateDeliveryPolicy, retention is resume.retentionGapPolicy, and *)
(* start says where a lease without a checkpoint begins.                   *)
(***************************************************************************)
Settings == [maxItems : Nat, timed : BOOLEAN,
             duplicates : {"drop", "deliver", "error"},
             retention : {"error", "continue"},
             start : {"all", "new"}]

ASSUME ConsumerAssumption ==
    /\ Options \subseteq Settings
    /\ Bounds \in [Options -> [messages : Nat, redeliveries : Nat]]
    /\ LivePurge \in BOOLEAN

VARIABLES
    options,         \* this.options; never changes
    first, last,     \* first retained and last stored stream sequence
    redeliveries,    \* redeliveries by the server so far
    store,           \* saved checkpoint sequence, 0 when there is none
    pc,              \* where each lease stands in start()
    closeRequested,  \* this.closeRequested
    messages,        \* this.messages: not there yet, open or closed
    position,        \* last sequence the consumer has delivered
    committed,       \* committedSequence, 0 when it is undefined
    remaining,       \* initial deliveries still to be processed
    caughtUp,        \* state of the caughtUp promise
    current,         \* sequence being handled, 0 when there is none
    pending,         \* CheckpointWriter.pending, 0 when there is none
    unsaved,         \* CheckpointWriter.unsaved
    timer,           \* CheckpointWriter.timer is armed
    saving,          \* the chain of saves: sequence and origin
    saveFailed,      \* CheckpointWriter.failure
    handled,         \* history: sequences each lease has handled
    replay,          \* history: the captured replay of each lease
    origin           \* history: position of the last start without checkpoint

streamVars == <<options, first, last, redeliveries>>
writerVars == <<pending, unsaved, timer, saving, saveFailed>>
leaseVars  == <<pc, closeRequested, messages, position, committed, remaining,
                caughtUp, current>>
history    == <<handled, replay, origin>>
vars       == <<streamVars, store, leaseVars, writerVars, history>>

Coalescing == options.maxItems > 0 \/ options.timed
Over       == {"closed", "error", "crashed"}

MaxSequence     == Bounds[options].messages
MaxRedeliveries == Bounds[options].redeliveries
Sequences       == 1 .. MaxSequence

TypeOK ==
    /\ options \in Options
    /\ first \in 1 .. MaxSequence + 1
    /\ last \in 0 .. MaxSequence
    /\ redeliveries \in 0 .. MaxRedeliveries
    /\ store \in 0 .. MaxSequence
    /\ pc \in [Leases -> {"idle", "loading", "creating", "consuming", "receive",
                          "handling", "saving", "final", "failing"} \cup Over]
    /\ closeRequested \in [Leases -> BOOLEAN]
    /\ messages \in [Leases -> {"none", "open", "closed"}]
    /\ position \in [Leases -> 0 .. MaxSequence]
    /\ committed \in [Leases -> 0 .. MaxSequence]
    /\ remaining \in [Leases -> 0 .. MaxSequence]
    /\ caughtUp \in [Leases -> {"pending", "resolved", "rejected"}]
    /\ current \in [Leases -> 0 .. MaxSequence]
    /\ pending \in [Leases -> 0 .. MaxSequence]
    /\ unsaved \in [Leases -> Nat]
    /\ timer \in [Leases -> BOOLEAN]
    /\ saving \in [Leases -> Seq([sequence : Sequences, timed : BOOLEAN])]
    /\ saveFailed \in [Leases -> BOOLEAN]
    /\ handled \in [Leases -> SUBSET Sequences]
    /\ replay \in [Leases -> SUBSET Sequences]
    /\ origin \in 0 .. MaxSequence

Init ==
    /\ options \in Options
    /\ first = 1 /\ last = 0 /\ redeliveries = 0
    /\ store = 0
    /\ pc = [l \in Leases |-> "idle"]
    /\ closeRequested = [l \in Leases |-> FALSE]
    /\ messages = [l \in Leases |-> "none"]
    /\ position = [l \in Leases |-> 0]
    /\ committed = [l \in Leases |-> 0]
    /\ remaining = [l \in Leases |-> 0]
    /\ caughtUp = [l \in Leases |-> "pending"]
    /\ current = [l \in Leases |-> 0]
    /\ pending = [l \in Leases |-> 0]
    /\ unsaved = [l \in Leases |-> 0]
    /\ timer = [l \in Leases |-> FALSE]
    /\ saving = [l \in Leases |-> <<>>]
    /\ saveFailed = [l \in Leases |-> FALSE]
    /\ handled = [l \in Leases |-> {}]
    /\ replay = [l \in Leases |-> {}]
    /\ origin = 0

-----------------------------------------------------------------------------
(***************************************************************************)
(* The stream.                                                             *)
(***************************************************************************)
Publish ==
    /\ last < MaxSequence
    /\ last' = last + 1
    /\ UNCHANGED <<options, first, redeliveries, store, leaseVars, writerVars, history>>

\* Retention removes the oldest message.
Purge ==
    /\ first <= last
    /\ LivePurge \/ \A l \in Leases : pc[l] \in {"idle", "loading"} \cup Over
    /\ first' = first + 1
    /\ UNCHANGED <<options, last, redeliveries, store, leaseVars, writerVars, history>>

-----------------------------------------------------------------------------
(***************************************************************************)
(* The checkpoint writer.  flush() cancels the timer and chains a save of  *)
(* the newest pending checkpoint.                                          *)
(***************************************************************************)
Flushed(l, checkpoint, timed) ==
    /\ timer' = [timer EXCEPT ![l] = FALSE]
    /\ pending' = [pending EXCEPT ![l] = 0]
    /\ unsaved' = [unsaved EXCEPT ![l] = 0]
    /\ saving' = IF checkpoint = 0 THEN saving
                 ELSE [saving EXCEPT ![l] =
                          Append(@, [sequence |-> checkpoint, timed |-> timed])]

\* The timer's flush does not wait for the loop.
TimedFlush(l) ==
    /\ timer[l]
    /\ pc[l] \notin Over
    /\ Flushed(l, pending[l], TRUE)
    /\ UNCHANGED <<streamVars, store, leaseVars, saveFailed, history>>

(***************************************************************************)
(* The store of the checkpoint key.  Either implementation loads what was  *)
(* saved last and refuses, in the one transaction that reads and writes,   *)
(* to move the sequence back.                                              *)
(***************************************************************************)
Loaded == store
Accepted(sequence) == sequence >= store
Stored(sequence) == Accepted(sequence) /\ store' = sequence

(***************************************************************************)
(* The next save of the chain: skipped after a failure, else refused by    *)
(* the store or failing by itself.  A failed flush of the timer closes the *)
(* messages.                                                               *)
(***************************************************************************)

TimedFailureIgnored(l) == UNCHANGED messages
TimedFailure(l) ==
    messages' = IF messages[l] = "open" THEN [messages EXCEPT ![l] = "closed"]
                                        ELSE messages

Save(l) ==
    LET save == Head(saving[l]) IN
    /\ saving[l] # <<>>
    /\ pc[l] # "crashed"
    /\ saving' = [saving EXCEPT ![l] = Tail(@)]
    /\ \/ /\ ~saveFailed[l]
          /\ Stored(save.sequence)
          /\ UNCHANGED <<saveFailed, messages>>
       \/ /\ saveFailed' = [saveFailed EXCEPT ![l] = TRUE]
          /\ IF save.timed THEN TimedFailure(l) ELSE UNCHANGED messages
          /\ UNCHANGED store
    /\ UNCHANGED <<streamVars, pc, closeRequested, position, committed, remaining,
                   caughtUp, current, pending, unsaved, timer, history>>

-----------------------------------------------------------------------------
(***************************************************************************)
(* start() up to the loop, one action for each await.                      *)
(***************************************************************************)
Goto(l, step) == pc' = [pc EXCEPT ![l] = step]

Open(l) ==
    /\ pc[l] = "idle"
    /\ Goto(l, "loading")
    /\ UNCHANGED <<streamVars, store, closeRequested, messages, position, committed,
                   remaining, caughtUp, current, writerVars, history>>

\* The checkpoint is older than the first message of the stream.
GapIgnored == FALSE
Gap == Loaded # 0 /\ Loaded + 1 < first /\ options.retention = "error"

\* Load the checkpoint and the stream's state, as of one moment, and refuse a
\* retention gap.
Load(l) ==
    /\ pc[l] = "loading"
    /\ \/ /\ Gap
          /\ Goto(l, "failing")
          /\ UNCHANGED committed
       \/ /\ ~Gap
          /\ Goto(l, "creating")
          /\ committed' = [committed EXCEPT ![l] = Loaded]
    /\ UNCHANGED <<streamVars, store, closeRequested, messages, position, remaining,
                   caughtUp, current, writerVars, history>>

\* orderedOptions(): deliver after the checkpoint, as far as it is still there;
\* without one, deliver everything or only what comes next.
Start(l) ==
    IF committed[l] = 0 /\ options.start = "new" THEN last
    ELSE IF committed[l] + 1 < first THEN first - 1 ELSE committed[l]

CloseMissed(l) == FALSE
CloseSeen(l)   == closeRequested[l]

\* The consumer is created and num_pending captured.  This is the last look of
\* start() at closeRequested.
Create(l) ==
    LET start    == Start(l)
        captured == (start + 1) .. last
    IN
    /\ pc[l] = "creating"
    /\ position' = [position EXCEPT ![l] = start]
    /\ remaining' = [remaining EXCEPT ![l] = Cardinality(captured)]
    /\ replay' = [replay EXCEPT ![l] = captured]
    /\ origin' = IF committed[l] = 0 THEN start ELSE origin
    /\ Goto(l, IF CloseSeen(l) THEN "closed" ELSE "consuming")
    /\ UNCHANGED <<streamVars, store, closeRequested, messages, committed, caughtUp,
                   current, writerVars, handled>>

Consume(l) ==
    /\ pc[l] = "consuming"
    /\ messages' = [messages EXCEPT ![l] = "open"]
    /\ caughtUp' = IF remaining[l] = 0 /\ caughtUp[l] = "pending"
                   THEN [caughtUp EXCEPT ![l] = "resolved"] ELSE caughtUp
    /\ Goto(l, "receive")
    /\ UNCHANGED <<streamVars, store, closeRequested, position, committed, remaining,
                   current, writerVars, history>>

\* Any request of start() may fail.
StartFails(l) ==
    /\ pc[l] \in {"loading", "creating", "consuming"}
    /\ Goto(l, "failing")
    /\ UNCHANGED <<streamVars, store, closeRequested, messages, position, committed,
                   remaining, caughtUp, current, writerVars, history>>

-----------------------------------------------------------------------------
(***************************************************************************)
(* The loop.                                                               *)
(***************************************************************************)
\* advanceInitialReplay(): the last initial delivery resolves caughtUp.
NeverLast(l)     == remaining[l] = 0
LastInitial(l)   == remaining[l] = 1
DecrementTo0(n)  == IF n = 0 THEN 0 ELSE n - 1

AdvanceInitialReplay(l) ==
    /\ remaining' = [remaining EXCEPT ![l] = DecrementTo0(@)]
    /\ caughtUp' = IF LastInitial(l) /\ caughtUp[l] = "pending"
                   THEN [caughtUp EXCEPT ![l] = "resolved"] ELSE caughtUp

\* The next retained message.
Upcoming(l) == IF position[l] + 1 < first THEN first ELSE position[l] + 1

Duplicate(l, m) == m <= committed[l]

\* Messages fetched before the iterator was closed may still be handed over.
Receive(l, m) ==
    LET duplicate == Duplicate(l, m) IN
    /\ pc[l] = "receive"
    /\ m \in first .. last
    /\ position' = [position EXCEPT ![l] = IF m > @ THEN m ELSE @]
    /\ \/ /\ duplicate /\ options.duplicates = "drop"
          /\ AdvanceInitialReplay(l)
          /\ UNCHANGED <<pc, current>>
       \/ /\ duplicate /\ options.duplicates = "error"
          /\ Goto(l, "failing")
          /\ UNCHANGED <<remaining, caughtUp, current>>
       \/ /\ duplicate => options.duplicates = "deliver"
          /\ Goto(l, "handling")
          /\ current' = [current EXCEPT ![l] = m]
          /\ UNCHANGED <<remaining, caughtUp>>
    /\ UNCHANGED <<options, first, last, store, closeRequested, messages, committed,
                   writerVars, history>>

ReceiveNext(l) == Receive(l, Upcoming(l)) /\ UNCHANGED redeliveries

\* The consumer may hand over a message again.
ReceiveAgain(l) ==
    /\ redeliveries < MaxRedeliveries
    /\ redeliveries' = redeliveries + 1
    /\ \E m \in handled[l] : Receive(l, m)

\* The end of commitDelivery(): cursor, replay progress, committedSequence.
Commit(l) ==
    /\ AdvanceInitialReplay(l)
    /\ committed' = IF current[l] > committed[l]
                    THEN [committed EXCEPT ![l] = current[l]] ELSE committed
    /\ current' = [current EXCEPT ![l] = 0]
    /\ Goto(l, "receive")

\* record() and the flush before the last replayed delivery: does handling the
\* current message make the loop wait for a save?
FlushOnBoundOnly(l, duplicate) ==
    \/ ~duplicate /\ ~Coalescing
    \/ ~duplicate /\ options.maxItems > 0 /\ unsaved[l] + 1 >= options.maxItems

FlushPastBound(l, duplicate) ==
    \/ remaining[l] = 1
    \/ ~duplicate /\ ~Coalescing
    \/ ~duplicate /\ options.maxItems > 0 /\ unsaved[l] >= options.maxItems

FlushDue(l, duplicate) ==
    \/ remaining[l] = 1
    \/ ~duplicate /\ ~Coalescing
    \/ ~duplicate /\ options.maxItems > 0 /\ unsaved[l] + 1 >= options.maxItems

HandlerSucceeds(l) ==
    LET duplicate == Duplicate(l, current[l]) IN
    /\ pc[l] = "handling"
    /\ handled' = [handled EXCEPT ![l] = @ \cup {current[l]}]
    /\ \/ /\ saveFailed[l] /\ (~duplicate \/ remaining[l] = 1)
          /\ Goto(l, "failing")
          /\ UNCHANGED <<committed, remaining, caughtUp, current, writerVars>>
       \/ /\ ~(saveFailed[l] /\ (~duplicate \/ remaining[l] = 1))
          /\ FlushDue(l, duplicate)
          /\ Flushed(l, IF duplicate THEN pending[l] ELSE current[l], FALSE)
          /\ Goto(l, "saving")
          /\ UNCHANGED <<committed, remaining, caughtUp, current, saveFailed>>
       \/ /\ ~(saveFailed[l] /\ (~duplicate \/ remaining[l] = 1))
          /\ ~FlushDue(l, duplicate)
          /\ pending' = IF duplicate THEN pending
                        ELSE [pending EXCEPT ![l] = current[l]]
          /\ unsaved' = IF duplicate THEN unsaved ELSE [unsaved EXCEPT ![l] = @ + 1]
          /\ timer' = IF duplicate THEN timer
                      ELSE [timer EXCEPT ![l] = options.timed]
          /\ UNCHANGED <<saving, saveFailed>>
          /\ Commit(l)
    /\ UNCHANGED <<streamVars, store, closeRequested, messages, position, replay,
                   origin>>

HandlerFails(l) ==
    /\ pc[l] = "handling"
    /\ Goto(l, "failing")
    /\ UNCHANGED <<streamVars, store, closeRequested, messages, position, committed,
                   remaining, caughtUp, current, writerVars, history>>

\* `await flush()` returns when the chain is empty, and throws its failure.
Saved(l) ==
    /\ pc[l] = "saving"
    /\ saving[l] = <<>>
    /\ \/ /\ saveFailed[l]
          /\ Goto(l, "failing")
          /\ UNCHANGED <<committed, remaining, caughtUp, current>>
       \/ /\ ~saveFailed[l]
          /\ Commit(l)
    /\ UNCHANGED <<streamVars, store, closeRequested, messages, position, writerVars,
                   history>>

-----------------------------------------------------------------------------
(***************************************************************************)
(* The end of a lease.                                                     *)
(***************************************************************************)
\* close(), from the application or its abort signal.
Close(l) ==
    /\ pc[l] \notin {"idle"} \cup Over
    /\ ~closeRequested[l]
    /\ closeRequested' = [closeRequested EXCEPT ![l] = TRUE]
    /\ caughtUp' = IF caughtUp[l] = "pending"
                   THEN [caughtUp EXCEPT ![l] = "rejected"] ELSE caughtUp
    /\ messages' = IF messages[l] = "open"
                   THEN [messages EXCEPT ![l] = "closed"] ELSE messages
    /\ UNCHANGED <<streamVars, store, pc, position, committed, remaining, current,
                   writerVars, history>>

\* The consumer's iterator ends by itself, for instance with its connection.
MessagesEnd(l) ==
    /\ messages[l] = "open"
    /\ pc[l] \notin Over
    /\ messages' = [messages EXCEPT ![l] = "closed"]
    /\ UNCHANGED <<streamVars, store, pc, closeRequested, position, committed,
                   remaining, caughtUp, current, writerVars, history>>

\* The loop is over: save what is pending.
LoopEnds(l) ==
    /\ pc[l] = "receive"
    /\ messages[l] = "closed"
    /\ Flushed(l, pending[l], FALSE)
    /\ Goto(l, "final")
    /\ UNCHANGED <<streamVars, store, closeRequested, messages, position, committed,
                   remaining, caughtUp, current, saveFailed, history>>

\* The final flush has returned; the iterator may have ended with an error.
Finish(l) ==
    /\ pc[l] = "final"
    /\ saving[l] = <<>>
    /\ \/ saveFailed[l] /\ Goto(l, "failing")
       \/ ~saveFailed[l] /\ Goto(l, "closed")
       \/ ~saveFailed[l] /\ ~closeRequested[l] /\ Goto(l, "failing")
    /\ UNCHANGED <<streamVars, store, closeRequested, messages, position, committed,
                   remaining, caughtUp, current, writerVars, history>>

\* The catch and finally blocks: flush once more, then settle every promise.
FlushAfterFailure(l) ==
    /\ pc[l] = "failing"
    /\ pending[l] # 0
    /\ Flushed(l, pending[l], FALSE)
    /\ UNCHANGED <<streamVars, store, leaseVars, saveFailed, history>>

Fail(l) ==
    /\ pc[l] = "failing"
    /\ pending[l] = 0
    /\ saving[l] = <<>>
    /\ Goto(l, "error")
    /\ caughtUp' = IF caughtUp[l] = "pending"
                   THEN [caughtUp EXCEPT ![l] = "rejected"] ELSE caughtUp
    /\ messages' = [messages EXCEPT ![l] = "closed"]
    /\ UNCHANGED <<streamVars, store, closeRequested, position, committed, remaining,
                   current, writerVars, history>>

\* The process dies: saves that have not reached the store are lost.
Crash(l) ==
    /\ pc[l] \notin {"idle"} \cup Over
    /\ Goto(l, "crashed")
    /\ saving' = [saving EXCEPT ![l] = <<>>]
    /\ UNCHANGED <<streamVars, store, closeRequested, messages, position, committed,
                   remaining, caughtUp, current, pending, unsaved, timer, saveFailed,
                   history>>

-----------------------------------------------------------------------------
Work(l) ==
    \/ Load(l) \/ Create(l) \/ Consume(l)
    \/ ReceiveNext(l) \/ Saved(l) \/ LoopEnds(l) \/ Finish(l)
    \/ FlushAfterFailure(l) \/ Fail(l)

Handler(l) == HandlerSucceeds(l) \/ HandlerFails(l)

Next ==
    \/ Publish \/ Purge
    \/ \E l \in Leases :
          \/ Open(l) \/ Work(l) \/ Handler(l)
          \/ ReceiveAgain(l) \/ StartFails(l) \/ TimedFlush(l) \/ Save(l)
          \/ Close(l) \/ MessagesEnd(l) \/ Crash(l)

Spec == Init /\ [][Next]_vars

(***************************************************************************)
(* Promises settle and continuations run: requests to the server and to    *)
(* the store are answered, handlers return, timers fire.                   *)
(***************************************************************************)
Fairness ==
    \A l \in Leases :
        /\ WF_vars(Work(l))
        /\ WF_vars(Handler(l))
        /\ WF_vars(TimedFlush(l))
        /\ WF_vars(Save(l))

FairSpec == Spec /\ Fairness

-----------------------------------------------------------------------------
Handled == UNION {handled[l] : l \in Leases}

\* At-least-once across crashes, failing handlers, failing saves and second
\* writers: whatever a resuming lease skips has been handled by some lease, or
\* was removed by retention under the `continue` policy.
NothingSkipped ==
    \A m \in (origin + 1) .. store :
        m \in Handled \/ (options.retention = "continue" /\ m < first)

\* Coalescing widens the redelivery window to at most maxItems deliveries.
Window == IF options.maxItems = 0 THEN 1 ELSE options.maxItems

RedeliveryWindow ==
    ~options.timed =>
    \A l \in Leases : Cardinality({m \in handled[l] : m > store}) <= Window

\* A caught-up lease has handled its whole captured replay, and its checkpoint
\* has been saved up to there.  A message that comes again during the replay
\* counts as one of it (advanceInitialReplay() for a dropped duplicate, 943).
CaughtUpMeansReplayed ==
    \A l \in Leases :
        caughtUp[l] = "resolved" /\ redeliveries = 0 =>
            \A m \in replay[l] : m \in handled[l] /\ m <= store

\* A lease that stays up works off its captured replay and says so.
CatchesUp ==
    \A l \in Leases :
        pc[l] = "consuming" ~> caughtUp[l] # "pending" \/ pc[l] \in Over

\* A failed save ends the lease, a timed one too, so nothing is handled for
\* long that cannot be recorded.
FailedSaveEndsLease ==
    \A l \in Leases : saveFailed[l] ~> pc[l] \in Over

\* A close() that finds the iterator, or that start() still looks for, ends the
\* lease.
CloseSettles ==
    \A l \in Leases :
        closeRequested[l] /\ pc[l] # "consuming" /\ messages[l] # "open"
            ~> pc[l] \in Over
=============================================================================
