---------------------------- MODULE ReducingSource ----------------------------
(***************************************************************************)
(* createReducingJetStreamSessionSource() of @natsail/jetstream: a stream  *)
(* folded, batch by batch, into one state that a SharedSession publishes.  *)
(* Four parts of the code meet here: createNatsailBatcher() of             *)
(* @natsail/core; the batched loop of JetStreamSubscription, which keeps   *)
(* the applications of its messages in a chain of their own;               *)
(* RecoveringJetStreamLease, which replaces a failed subscription by one   *)
(* that resumes from the checkpoint in memory; and the closure that holds  *)
(* the state and publishes it.                                             *)
(*                                                                         *)
(* The stream and the connection are external.  An ordered consumer hands  *)
(* over every message after its start once, in order.                      *)
(***************************************************************************)
EXTENDS Integers, Sequences, FiniteSets, SequencesExt

CONSTANTS MaxSequence,   \* bound on the messages the stream receives
          Sizes,         \* sizeOf() of each message
          Policies,      \* the options to consider
          MaxOutages,    \* bound on the failures of a consumer
          MaxFailures    \* bound on the batches the reducer refuses

(***************************************************************************)
(* The options give the bounds of batchPolicy, 0 when they leave one out,  *)
(* liveBatchMs, which is a time bound unless it is 0, and maxAttempts of   *)
(* the recovery options.                                                   *)
(***************************************************************************)
Unbounded == 1000

\* reducingBatchPolicy(): there always is a bound on the items.
BatchPolicy(o) ==
    [maxItems |-> IF o.maxItems = 0 THEN 256 ELSE o.maxItems,
     maxBytes |-> IF o.maxBytes = 0 THEN Unbounded ELSE o.maxBytes,
     timed    |-> o.liveBatchMs # 0,
     maxAttempts |-> o.maxAttempts]

\* What defineNatsailBatchPolicy() and validateRecovery() accept.
ValidBatchPolicy(p) ==
    p.maxItems \in Nat \ {0} /\ p.maxBytes \in Nat \ {0} /\ p.timed \in BOOLEAN
ValidRecovery(p) == p.maxAttempts \in Nat \ {0}

ASSUME ReducingAssumption ==
    /\ MaxSequence \in Nat /\ MaxOutages \in Nat /\ MaxFailures \in Nat
    /\ Sizes \in [1 .. MaxSequence -> Nat]
    /\ \A o \in Policies : ValidBatchPolicy(BatchPolicy(o)) /\ ValidRecovery(o)

VARIABLES
    policy,      \* the bounds of batches and recovery; never change
    published,   \* last sequence of the stream
    outages,     \* consumer failures so far
    failures,    \* refused batches so far
    store,       \* the memory checkpoint, 0 when there is none
    lease,       \* the recovering lease
    sub,         \* its subscription: JetStreamSubscription
    apps,        \* pendingApplications: deliveries not yet committed
    batcher,     \* the subscription's batcher
    source,      \* the closure of the reducing source
    publishing,  \* its chain of updates, `pending`
    session      \* snapshot of the SharedSession

world      == <<policy, published, outages, failures>>
sourceVars == <<world, store, lease, sub, apps, batcher, source, publishing, session>>

Upto(n)     == [i \in 1 .. n |-> i]
NoSnapshot  == [phase |-> "none", data |-> <<>>, cursor |-> 0]
Recovering  == {"connecting", "replaying", "reconnecting"}
LeaseOver   == lease.phase \in {"closed", "error"} /\ sub.pc = "over"
SessionOver == session.phase \in {"closed", "error"}

EmptyBatcher == [pending |-> <<>>, timer |-> FALSE, chain |-> <<>>,
                 barrierFailure |-> FALSE, cancelled |-> FALSE]

\* start() of a subscription that has not got its consumer yet.
Connecting == [pc |-> "opening", phase |-> "connecting", messages |-> "none",
               initial |-> 0, remaining |-> 0, assigned |-> 0, position |-> 0,
               wait |-> 0, rejected |-> {}, thrown |-> "none"]

NewLease == [phase |-> "connecting", restarts |-> 0, closing |-> FALSE,
             caughtUp |-> "pending", cursor |-> 0]

\* Each attempt of run() opens a subscription of its own, with its own batcher.
Attempt ==
    /\ sub' = Connecting
    /\ batcher' = EmptyBatcher

SourceInit ==
    /\ policy \in {BatchPolicy(o) : o \in Policies}
    /\ published = 0 /\ outages = 0 /\ failures = 0
    /\ store = 0
    /\ lease = NewLease
    /\ sub = Connecting
    /\ apps = <<>>
    /\ batcher = EmptyBatcher
    /\ source = [data |-> <<>>, cursor |-> 0, hydrated |-> FALSE, said |-> "replaying",
                 ready |-> FALSE]
    /\ publishing = <<[phase |-> "replaying", data |-> <<>>, cursor |-> 0,
                       then |-> "nothing"]>>
    /\ session = [phase |-> "connecting", valueRevision |-> 0, value |-> NoSnapshot]

-----------------------------------------------------------------------------
(***************************************************************************)
(* Timers, the network and the application's calls run when no promise     *)
(* reaction is left to run.  A reducer may or may not be synchronous, and  *)
(* a message may or may not be in the consumer's buffer: those two may     *)
(* come at any time.                                                       *)
(***************************************************************************)
Settled(commit) == \A i \in DOMAIN apps : apps[i].at # commit

Working(kind, stage) ==
    batcher.chain # <<>> /\ Head(batcher.chain).kind = kind
                         /\ Head(batcher.chain).stage = stage

Idle ==
    /\ apps # <<>> => Head(apps).handled = "waiting"
    /\ ~Working("batch", "queued")
    /\ Working("barrier", "queued") => ~Settled(Head(batcher.chain).commit)
    /\ publishing = <<>>
    /\ lease.caughtUp = "resolved" => source.hydrated
    /\ session.phase = "connecting" /\ source.ready => lease.closing
    /\ LeaseOver => SessionOver

(***************************************************************************)
(* The stream.                                                             *)
(***************************************************************************)
Publish ==
    /\ Idle
    /\ published < MaxSequence
    /\ published' = published + 1
    /\ UNCHANGED <<policy, outages, failures, store, lease, sub, apps, batcher, source,
                   publishing, session>>

\* The consumer fails: its iterator ends, or throws at the next message.
Outage ==
    /\ Idle
    /\ outages < MaxOutages
    /\ sub.messages = "open"
    /\ outages' = outages + 1
    /\ \E end \in {"closed", "broken"} : sub' = [sub EXCEPT !.messages = end]
    /\ UNCHANGED <<policy, published, failures, store, lease, apps, batcher, source,
                   publishing, session>>

-----------------------------------------------------------------------------
(***************************************************************************)
(* Publishing: a snapshot is taken at once and joins the chain of updates; *)
(* `then` says what waits for it.                                          *)
(***************************************************************************)
Update(s, phase, then) == [phase |-> phase, data |-> s.data, cursor |-> s.cursor,
                           then |-> then]

Said(s, phase) == [s EXCEPT !.said = phase]

\* What the listener of the lease publishes when the lease turns to `phase`.
Announcement(s, phase) ==
    IF ~s.hydrated THEN "nothing"
    ELSE IF phase \in Recovering /\ s.said # "reconnecting" THEN "reconnecting"
    ELSE IF phase = "live" /\ s.said = "reconnecting" THEN "live"
    ELSE "nothing"

\* The listener of the lease, called when the lease has turned to `phase`.
Announces(phase) ==
    LET say == Announcement(source, phase) IN
    IF say = "nothing" THEN UNCHANGED <<source, publishing>>
    ELSE /\ source' = Said(source, say)
         /\ publishing' = Append(publishing, Update(source, say, "nothing"))

-----------------------------------------------------------------------------
(***************************************************************************)
(* The batcher.  Its chain holds batches and barriers in the order of      *)
(* their registration; `queued` counts the batches, the one being applied  *)
(* included.                                                               *)
(***************************************************************************)
Batch(items)    == [kind |-> "batch", items |-> items, commit |-> 0, stage |-> "queued",
                    base |-> <<>>]
Barrier(commit) == [kind |-> "barrier", items |-> <<>>, commit |-> commit,
                    stage |-> "queued", base |-> <<>>]

Bytes(items) == FoldSeq(LAMBDA m, sum : sum + Sizes[m], 0, items)
Queued(b)    == \E i \in DOMAIN b.chain : b.chain[i].kind = "batch"

Drained(b) ==
    IF b.pending = <<>> \/ b.cancelled THEN b
    ELSE [b EXCEPT !.chain = Append(@, Batch(b.pending)), !.pending = <<>>,
                   !.timer = FALSE]

BarrierAfter(b, commit) == [b EXCEPT !.chain = Append(@, Barrier(commit))]

\* add() rejects its value at once.
Refused(b, m) == b.cancelled \/ Sizes[m] > policy.maxBytes

Full(items) == Len(items) >= policy.maxItems \/ Bytes(items) >= policy.maxBytes

Added(b, m) ==
    LET room == IF b.pending # <<>> /\ Bytes(b.pending) + Sizes[m] > policy.maxBytes
                THEN Drained(b) ELSE b
        held == [room EXCEPT !.pending = Append(@, m)]
    IN  IF Full(held.pending) THEN Drained(held)
        ELSE [held EXCEPT !.timer = @ \/ policy.timed]

\* The deliveries in `items` are handled with this outcome.
Handled(items, outcome) ==
    [i \in DOMAIN apps |-> IF \E j \in DOMAIN items : items[j] = apps[i].at
                           THEN [apps[i] EXCEPT !.handled = outcome] ELSE apps[i]]

\* cancel() rejects the partial batch; what is queued is still applied.
Cancel ==
    /\ batcher' = [batcher EXCEPT !.cancelled = TRUE, !.timer = FALSE, !.pending = <<>>]
    /\ apps' = Handled(batcher.pending, "failed")

TimerFires ==
    /\ Idle
    /\ batcher.timer
    /\ batcher' = Drained(batcher)
    /\ UNCHANGED <<world, store, lease, sub, apps, source, publishing, session>>

Popped == [batcher EXCEPT !.chain = Tail(@)]

\* A batch starts from the state of this moment, unless a barrier has failed.
BatchStarts ==
    /\ Working("batch", "queued")
    /\ \/ /\ batcher.barrierFailure
          /\ batcher' = Popped
          /\ apps' = Handled(Head(batcher.chain).items, "failed")
       \/ /\ ~batcher.barrierFailure
          /\ batcher' = [batcher EXCEPT !.chain[1].stage = "reducing",
                                        !.chain[1].base = source.data]
          /\ UNCHANGED apps
    /\ UNCHANGED <<world, store, lease, sub, source, publishing, session>>

\* Every delivery has been reduced: the state moves on as a whole, and is
\* published once the replay is over.
BatchReduced ==
    LET batch == Head(batcher.chain)
        folded == [source EXCEPT !.data = batch.base \o batch.items,
                                 !.cursor = Last(batch.items)]
        phase == IF lease.phase \in Recovering THEN "reconnecting" ELSE "live"
    IN
    /\ Working("batch", "reducing")
    /\ \/ /\ source.hydrated
          /\ source' = Said(folded, phase)
          /\ publishing' = Append(publishing, Update(folded, phase, "batch"))
          /\ batcher' = [batcher EXCEPT !.chain[1].stage = "publishing"]
          /\ UNCHANGED apps
       \/ /\ ~source.hydrated
          /\ source' = folded
          /\ batcher' = Popped
          /\ apps' = Handled(batch.items, "done")
          /\ UNCHANGED publishing
    /\ UNCHANGED <<world, store, lease, sub, session>>

\* The reducer throws: none of the batch is kept.
BatchFails ==
    /\ Working("batch", "reducing")
    /\ failures < MaxFailures
    /\ failures' = failures + 1
    /\ batcher' = Popped
    /\ apps' = Handled(Head(batcher.chain).items, "failed")
    /\ UNCHANGED <<policy, published, outages, store, lease, sub, source, publishing,
                   session>>

BarrierPasses ==
    LET commit == Head(batcher.chain).commit IN
    /\ Working("barrier", "queued")
    /\ Settled(commit)
    /\ batcher' = [Popped EXCEPT !.barrierFailure = @ \/ commit \in sub.rejected]
    /\ UNCHANGED <<world, store, lease, sub, apps, source, publishing, session>>

-----------------------------------------------------------------------------
(***************************************************************************)
(* The updates of the chain reach SharedSession.accept() one by one.       *)
(***************************************************************************)
Accepted(update) ==
    IF SessionOver THEN session
    ELSE [session EXCEPT !.valueRevision = @ + 1,
                         !.value = [phase |-> update.phase, data |-> update.data,
                                    cursor |-> update.cursor]]

Accept ==
    LET update == Head(publishing) IN
    /\ publishing # <<>>
    /\ publishing' = Tail(publishing)
    /\ session' = Accepted(update)
    /\ source' = [source EXCEPT !.ready = @ \/ update.then = "ready"]
    /\ IF update.then = "batch"
       THEN /\ batcher' = Popped
            /\ apps' = Handled(Head(batcher.chain).items, "done")
       ELSE UNCHANGED <<batcher, apps>>
    /\ UNCHANGED <<world, store, lease, sub>>

\* The lease has caught up: the state becomes visible in one piece.
Hydrate ==
    LET hydrated == [source EXCEPT !.hydrated = TRUE, !.said = "live",
                                   !.cursor = IF lease.cursor = 0 THEN @ ELSE lease.cursor]
    IN
    /\ lease.caughtUp = "resolved"
    /\ ~source.hydrated
    /\ publishing = <<>>
    /\ source' = hydrated
    /\ publishing' = <<Update(hydrated, "live", "ready")>>
    /\ UNCHANGED <<world, store, lease, sub, apps, batcher, session>>

\* start() of the session continues after `await lease.ready`.
SessionLive ==
    /\ source.ready
    /\ session.phase = "connecting"
    /\ ~lease.closing
    /\ session' = [session EXCEPT !.phase = "live"]
    /\ UNCHANGED <<world, store, lease, sub, apps, batcher, source, publishing>>

\* The lease has ended: finish(), or the end of close().
SessionEnds ==
    /\ LeaseOver
    /\ ~SessionOver
    /\ session' = [session EXCEPT !.phase = lease.phase]
    /\ UNCHANGED <<world, store, lease, sub, apps, batcher, source, publishing>>

-----------------------------------------------------------------------------
(***************************************************************************)
(* The subscription.  Open loads the checkpoint, creates the consumer      *)
(* after it and captures what is to be replayed; a lease closed meanwhile  *)
(* ends there.                                                             *)
(***************************************************************************)
\* resolveCaughtUp(): the first catch-up of any subscription is that of the lease.
CaughtUp(l, cursor) ==
    IF l.caughtUp = "pending" THEN [l EXCEPT !.caughtUp = "resolved", !.cursor = cursor]
    ELSE l

Ends(phase) ==
    /\ sub' = [sub EXCEPT !.pc = "over", !.messages = "none"]
    /\ lease' = [lease EXCEPT !.phase = phase,
                              !.caughtUp = IF @ = "pending" THEN "rejected" ELSE @]
    /\ UNCHANGED <<source, publishing>>

Open ==
    LET initial == published - store
        phase == IF initial = 0 THEN "live" ELSE "replaying"
        turned == [lease EXCEPT !.phase = phase]
    IN
    /\ Idle
    /\ sub.pc = "opening"
    /\ \/ lease.closing /\ Ends("closed")
       \/ /\ ~lease.closing
          /\ sub' = [sub EXCEPT !.pc = "next", !.phase = phase, !.messages = "open",
                                !.initial = initial, !.remaining = initial,
                                !.position = store]
          /\ lease' = IF initial = 0 THEN CaughtUp(turned, store) ELSE turned
          /\ Announces(phase)
    /\ UNCHANGED <<world, store, apps, batcher, session>>

\* The catch block: nothing pending is applied any more.
Throws(error) ==
    /\ sub' = [sub EXCEPT !.pc = "settling", !.thrown = error]
    /\ Cancel

\* A request of start() fails.
OpenFails ==
    /\ Idle
    /\ sub.pc = "opening"
    /\ outages < MaxOutages
    /\ outages' = outages + 1
    /\ Throws("outage")
    /\ UNCHANGED <<policy, published, failures, store, lease, source, publishing, session>>

\* Which application the loop waits for before it takes the next message: its
\* own when its batch has left, else the one before it.
OwnApplication(b, own, previous) == own
CommitTarget(b, own, previous) == IF b.pending = <<>> THEN own ELSE previous

Receive ==
    LET m == sub.position + 1
        initial == sub.assigned < sub.initial
        last == initial /\ sub.assigned + 1 = sub.initial
        added == IF Refused(batcher, m) THEN batcher ELSE Added(batcher, m)
        commit == CommitTarget(added, m, IF sub.assigned = 0 THEN 0 ELSE sub.position)
    IN
    /\ sub.pc = "next"
    /\ sub.messages \in {"open", "closed"}
    /\ sub.position < published
    /\ apps' = Append(apps, [at |-> m, handled |-> IF Refused(batcher, m) THEN "failed"
                                                   ELSE "waiting"])
    /\ LET taken == [sub EXCEPT !.position = m, !.assigned = @ + 1]
       IN  \/ /\ last
              /\ batcher' = BarrierAfter(Drained(added), m)
              /\ sub' = [taken EXCEPT !.pc = "await", !.wait = m]
           \/ /\ ~last /\ Queued(added)
              /\ batcher' = BarrierAfter(added, commit)
              /\ sub' = [taken EXCEPT !.pc = "await", !.wait = commit]
           \/ /\ ~last /\ ~Queued(added)
              /\ batcher' = added
              /\ sub' = taken
    /\ UNCHANGED <<world, store, lease, source, publishing, session>>

\* The next application of the chain commits its delivery: the checkpoint, the
\* replay's progress and, with its last delivery, the catch-up.
CommitAtOnce(app) == app.handled # "failed"
CommitReady(app)  == app.handled = "done"

Commit ==
    LET at == Head(apps).at
        progressed == [sub EXCEPT !.remaining = IF @ = 0 THEN 0 ELSE @ - 1,
                                  !.phase = IF sub.remaining = 1 THEN "live" ELSE @]
        turned == [lease EXCEPT !.phase = progressed.phase]
    IN
    /\ apps # <<>>
    /\ CommitReady(Head(apps))
    /\ apps' = Tail(apps)
    /\ store' = at
    /\ sub' = progressed
    /\ \/ sub.remaining = 0 /\ UNCHANGED <<lease, source, publishing>>
       \/ /\ sub.remaining > 0
          /\ lease' = IF sub.remaining = 1 /\ ~lease.closing
                      THEN CaughtUp(turned, at) ELSE turned
          /\ Announces(progressed.phase)
    /\ UNCHANGED <<world, batcher, session>>

\* A failed application closes the messages; the chain goes on behind it.
Reject ==
    /\ apps # <<>>
    /\ Head(apps).handled = "failed"
    /\ apps' = Tail(apps)
    /\ sub' = [sub EXCEPT !.rejected = @ \cup {Head(apps).at},
                          !.messages = IF @ = "open" THEN "closed" ELSE @]
    /\ UNCHANGED <<world, store, lease, batcher, source, publishing, session>>

\* What the loop awaits has settled.
Awaited ==
    /\ Settled(sub.wait)
    /\ \A i \in DOMAIN batcher.chain :
          ~(batcher.chain[i].kind = "barrier" /\ batcher.chain[i].commit = sub.wait)

Continue ==
    /\ sub.pc = "await"
    /\ Awaited
    /\ \/ sub.rejected # {} /\ Throws("application")
       \/ /\ sub.rejected = {}
          /\ sub' = [sub EXCEPT !.pc = "next"]
          /\ UNCHANGED <<batcher, apps>>
    /\ UNCHANGED <<world, store, lease, source, publishing, session>>

\* The iterator throws.
LoopBreaks ==
    /\ sub.pc = "next" /\ sub.messages = "broken"
    /\ Throws("outage")
    /\ UNCHANGED <<world, store, lease, source, publishing, session>>

\* The iterator ends: a lease that is not being closed applies the partial batch.
LoopEnds ==
    LET last == IF sub.assigned = 0 THEN 0 ELSE sub.position IN
    /\ sub.pc = "next" /\ sub.messages = "closed"
    /\ \/ /\ lease.closing
          /\ sub' = [sub EXCEPT !.pc = "settling", !.thrown = "closed"]
          /\ UNCHANGED batcher
       \/ /\ ~lease.closing
          /\ sub' = [sub EXCEPT !.pc = "final", !.wait = last]
          /\ batcher' = BarrierAfter(Drained(batcher), last)
    /\ UNCHANGED <<world, store, lease, apps, source, publishing, session>>

Finish ==
    /\ sub.pc = "final"
    /\ Awaited
    /\ \/ sub.rejected # {} /\ Throws("application")
       \/ sub.rejected = {} /\ Throws("outage")
    /\ UNCHANGED <<world, store, lease, source, publishing, session>>

-----------------------------------------------------------------------------
(***************************************************************************)
(* The recovering lease.  A subscription reports its end only when the     *)
(* batcher and the applications have settled.                              *)
(***************************************************************************)
Quiet == batcher.chain = <<>> /\ apps = <<>>

\* shouldRetry() and the attempts.
Retries == sub.thrown # "application" /\ lease.restarts + 1 < policy.maxAttempts

SubscriptionEnds ==
    /\ sub.pc = "settling"
    /\ Quiet
    /\ \/ lease.closing /\ Ends("closed")
       \/ ~lease.closing /\ ~Retries /\ Ends("error")
       \/ /\ ~lease.closing /\ Retries
          /\ sub' = [sub EXCEPT !.pc = "delay", !.messages = "none"]
          /\ lease' = [lease EXCEPT !.phase = "reconnecting", !.restarts = @ + 1]
          /\ Announces("reconnecting")
    /\ UNCHANGED <<world, store, apps, batcher, session>>

\* The delay has passed, or close() has cut it short.
Retry ==
    /\ Idle
    /\ sub.pc = "delay"
    /\ \/ lease.closing /\ Ends("closed") /\ UNCHANGED batcher
       \/ /\ ~lease.closing
          /\ Attempt
          /\ UNCHANGED <<lease, source, publishing>>
    /\ UNCHANGED <<world, store, apps, session>>

\* close() of the lease closes the messages of its subscription.
CloseLease ==
    /\ lease' = [lease EXCEPT !.closing = TRUE]
    /\ sub' = [sub EXCEPT !.messages = IF @ = "open" THEN "closed" ELSE @]

\* SharedSession.close() reaches close() of the source, which cancels the batcher.
Close ==
    /\ Idle
    /\ ~lease.closing /\ ~LeaseOver
    /\ Cancel
    /\ CloseLease
    /\ UNCHANGED <<world, store, source, publishing, session>>

-----------------------------------------------------------------------------
\* What the program does by itself once its inputs are there.
Work ==
    \/ TimerFires \/ BatchStarts \/ BatchReduced \/ BarrierPasses
    \/ Accept \/ Hydrate \/ SessionLive \/ SessionEnds
    \/ Open \/ Receive \/ Commit \/ Reject \/ Continue \/ LoopBreaks \/ LoopEnds
    \/ Finish \/ SubscriptionEnds \/ Retry

SourceNext == Work \/ Publish \/ Outage \/ OpenFails \/ BatchFails \/ Close

(***************************************************************************)
(* The state is the fold of the stream: every message up to some sequence, *)
(* each once and in order, and the checkpoint from which a replacement     *)
(* subscription resumes is exactly what has been folded.  Between a        *)
(* refused batch and the end of its subscription the state may hold later  *)
(* batches without it (a batch queued behind it is applied all the same),  *)
(* but no subscription is opened from there as long as every message fits  *)
(* the byte limit of a batch.                                              *)
(***************************************************************************)
Refusing == sub.rejected # {} \/ \E i \in DOMAIN apps : apps[i].handled = "failed"

FoldedOnce ==
    /\ sub.pc \in {"delay", "opening"} => source.data = Upto(store)
    /\ ~Refusing => /\ source.data = Upto(Len(source.data))
                    /\ store <= Len(source.data)
=============================================================================
