# NATSail in TLA+

NATSail is a set of TypeScript packages that put long-lived, shared
subscriptions, resumable JetStream consumers and shared browser sessions on top
of the official NATS client. Everything runs on one JavaScript thread per
context: there are no data races, but every `await`, timer and promise callback
is a place where other code runs, and the lifecycles of the objects (open,
restart, fail, close) overlap. That is what these modules are about.

Contents: [inventory](#inventory), [how the code is turned into
actions](#from-code-to-actions), [modules](#the-modules), [runs](#the-runs),
[fairness](#fairness), [proofs](#what-is-proved), [disagreements with the
docs](#where-the-code-and-its-documents-disagree), [other
observations](#other-observations), [what is left out](#what-is-not-modelled),
[plan](#plan).

## Inventory

| component | state | operations | hard part | what makes it correct | module |
|---|---|---|---|---|---|
| `session`: `SharedSession` | snapshot, generation, current lease, `restartPromise`, `closePromise` | constructor, `restart`, `close`, `start`, `accept`, `finish` | promises of superseded leases settle late; restart and close overlap; the source throws | one source at a time, none after the end; no session that says it is live without a lease; values never go back | `SharedSession`, `ExclusiveSource` |
| `session`: registry | map of sessions, idle timers, reference counts | `acquire`, `release`, `restart`, `close`, idle timer | a timer, a release and an acquire of the same key race | a held session stays open, an idle one is closed, none is lost | `SessionRegistry` |
| `session`: events | a queue per iterator, updates of a key coalesced | `emit`, `next`, `return`, `close` | an update supersedes one that is queued; registrations must not be | the events read and queued tell what sessions there are | `SessionEvents` |
| `core`: connection and shutdown | connection promise, active connection, status, explicit reconnect, resources, `closePromise` | `connection`, `reconnect`, `manage`, `close`, status and close observers | statuses of a replaced connection arrive late; several parties replace one connection; the factory answers after `close()` | one connection at a time; shutdown settles and leaves nothing | `NatsRuntime` |
| `core`: event stream | bounded buffer, drop counter and one waiting promise per iterator | `emit`, `next`, `return`, `close` | a bound reached while the reader is busy; `close()` with a notice still to give | an event is read, or its loss is told before what follows it | `RuntimeFeed` |
| `core`: subscriptions, requests, limits | loop of a subscription, `ready`/`closed`, counters | `subscribe`, `close`, `abort`, `request`, `reserve`, `release` | drain against abort against a lost link; a reservation whose creation fails | a graceful close handles all it was sent; counters return to zero | `CoreDelivery` |
| `core`: batcher | pending batch, timer, chain of batches and barriers | `add`, `barrier`, `drain`, `cancel` | a barrier in the middle of a batch; a refused batch with another behind it | batches are applied in order and barriers pass behind them | `ReducingSource` |
| `checkpoints` | stored sequence per key | `load`, `save` | two writers of one key | the stored sequence never goes back | `OrderedConsumer` |
| `jetstream`: ordered consumer | delivery loop, committed sequence, replay counter, `CheckpointWriter` | `start`, commit, coalesced save, `close` | crash between handler and save, timer in the background, retention, redelivery | nothing skipped, bounded redelivery, `caughtUp` tells the truth | `OrderedConsumer` |
| `jetstream`: batched consumer, recovery, reducing source | chain of applications; last processed cursor; reducer state | `consumeJetStreamBatched`, `RecoveringJetStreamLease`, `createReducingJetStreamSessionSource` | a lease is replaced behind its user while batches are under way | the state is the fold of the stream, and a new lease resumes exactly there | `ReducingSource` |
| `jetstream`: explicit-ack processor | message in hand, retry gap, recovery boundary, abort state | `processJetStream`, dispositions, `close`, `abort`, recovery | acknowledgements out of order with recovery; the consumer is deleted or recreated meanwhile | no message is left out; late results are dropped; `close()` settles | `Processor` |
| `jetstream`: processor administration | none of its own | reconcile, recreate, roll back, clean up | one request of several fails | the consumer that results continues where the old one stood | `ProcessorAdmin`, `Processor` |
| `browser-broker`: worker | clients, sources, retained log, queues, credentials, command chains | `hello`, `attach`, `ack`, `detach`, `refresh`, teardown | tabs come and go across awaits on one source; a queue at its limit | each tab sees its source in order or is told of a gap; resources last as long as their users | `BrowserBroker`, `BrokerHost` |
| `browser-broker`: client | generation, cursor, receive chain | handshake, reconnect, attach, acknowledge | the worker is lost with messages in flight | no delivery of an old generation is applied | `BrowserBroker` |
| `react` | resource of a provider, lease of a hook, rendered state | `NatsManagedProvider`, `useNatsRuntimeStatus`, `useNatsJetStreamProcessor`, `useNatsJetStreamReducer` | StrictMode replays, cleanups in microtasks, re-renders | the runtime is open while it is mounted; at most one lease | `ManagedRuntime`, `StateViews` |
| `rxjs` | held state, timer | observables of states and events | coalescing with a held state at the end | no view goes back; the last state is shown | `StateViews` |
| `effect` | bounded queues, batches of the materializer, scopes | streams of subjects, events and states; processor programs | a full queue holds up the lease that its interruption closes | losses are told; replay is separated from live; a scope lets its lease go | `EventStream`, `CoreDelivery`, `StateViews`, `ManagedRuntime` |
| `opentelemetry` | instruments | translation of telemetry records | none | (values of metrics) | not modelled |

The components call each other top down. A session owns one lease at a time, and
a lease is anything with `ready`, `closed` and `close()`: a core subscription, an
ordered consumer or a recovering lease. Subscriptions and consumers get their
connection from the runtime and register themselves with `manage()`, so that
`runtime.close()` can close them. An ordered consumer saves its progress to a
checkpoint store that outlives it. The broker runs a runtime and consumers in a
shared worker for the tabs of an origin. The bindings turn leases, sessions and
event streams into hooks, observables and Effect streams, and own what they opened.

## From code to actions

* The code up to the next `await` is one action; what follows the `await` is an
  action of its own whose guard is that the promise has settled. The order in
  which settled promises resume is left open, so a model has every order of
  microtasks, and some that a particular engine would not produce. The single
  microtask of an `await` on something that is there already is not interleaved
  with other work, unless a check of the code depends on it.
* Code that calls listeners synchronously is one action with what the listeners
  do: a step of a source with the session it updates and the adapter that shows it.
* A lease, a connection, the server, a store backend, the factory, React, the
  Effect runtime and the application are external. They may do anything their
  interface allows.
* Payloads are numbers that tell one value from another, and a delivery is its
  sequence; errors are told apart only where the code does.
* Diagnostics, telemetry and wording are left out.

Next to some operators stands a second one of the same shape (`AnyConnection` beside
`OnlyActive`, `OutdatedUnlessOpen` beside `Outdated`, `FreedOnly` beside `Freed`): it
is the guard or the update as a plausible mistake would have it, and shows that
the property that depends on it can fail. Nothing else uses these operators.

## The modules

```
ExclusiveSource <- SharedSession <- SessionRegistry <- SessionEvents
RuntimeFeed <- CoreDelivery <- ManagedRuntime          NatsRuntime
OrderedConsumer <- EventStream                         ReducingSource <- StateViews
ProcessorAdmin <- Processor                            BrowserBroker, BrokerHost
```

An arrow points from a module to the one that extends or instantiates it; the
`MC` modules give the constants that a `.cfg` cannot write, the `Proofs` modules
hold the theorems.

### Sessions

**`SharedSession`** is the class of that name (`packages/session/src/index.ts`
187-409), for a set of session objects. `generation`, `closeRequested` and
`current` (the lease in `this.lease`, named by the generation that opened it) are
the fields. `restarting` and `closing` are the progress of the two promises.
`starting` and `watching` are the continuations that still have to run for each
lease: `start()` behind `await lease.ready`, and the callbacks of `lease.closed`.
Each of `Open`, `Restart`, `RestartDrained`, `RestartSettled`, `ReadySettled`,
`LeaseSettled`, `CloseAll`, `CloseDrained` and `Deliver` is one synchronous
stretch of the code; `LeaseReady` and `LeaseEnds` are the lease's own moves.

**`ExclusiveSource`** is the abstract specification: a session takes a fresh
source when it has none, drops it, and takes none once it is retired. Under the
mapping of `SharedSession!Source` the sources held are the open leases, and the
retired sessions those whose `close()` has settled.

**`SessionRegistry`** extends `SharedSession` with the registry (514-671):
`Acquire` constructs or shares, `Release` is the first `release()` of a handle
with `releaseIdleSession()` in it, `IdleTimeout` the timer, `CloseRegistry` and
`RegistryClosed` the two parts of `close()`. The registry's call and the
session's reaction are one step, as they are in the code.

**`SessionEvents`** extends the registry with `registry.events` (411-512) and one
iterator, read as `observeNatsSessionEvents()` of `rxjs` reads it. Every step of
the registry is taken together with `Report`, the events that `onEvent` hands over
in that step: a session was registered, was updated, or was unregistered.
`Queued` is `emit()` for the iterator, with `Supersedes`: an update replaces the
update of its key that is still queued. `Read` and `Leave` are the reader's. The
reader may subscribe at any time.

### Core

**`NatsRuntime`** is the connection lifecycle of `DefaultNatsRuntime`
(`packages/core/src/index.ts` 1047-1780): `connectWithRetry()` as `series` with
`FactoryReturns`, `FactoryFails`, `RetryDue` and `CleanedUp`; the two observers as
`StatusRead` and `ClosedCallback`, which both end in `PermanentClose`; the explicit
reconnect as `ReconnectBegins`, `ReconnectChecks`, `ReconnectCycled` and its ends;
resources as `Manage`, `ResourceEnds` and `ResourceReleased`; shutdown as
`CloseResources`, `ResourcesClosed`, `ConnectionAwaited`, `Drained` and
`LateAwaited`, with `Deadline` racing all of them. `unread` holds the statuses
that a connection has reported and the loop has not read.

**`RuntimeFeed`** is `runtime.events` (`RuntimeEventStream`, 800-934) for a set of
iterators. `Pushed` is `emit()` for one iterator: it resolves a waiting promise, or
queues, or drops the oldest and counts; `Asked` is `next()`, which gives the count
as a notice before anything else; `Removed` is `return()` and `close()`. `Observe`,
`Handle` and `Leave` are the loop of `useNatsRuntimeStatus()` and of
`observeNatsRuntimeEvents()`. The history of an iterator numbers the events
addressed to it, so that "every event was read or told as lost, in order" is a
statement about numbers (`GapsAreTold`). `FeedSpec` lets anybody report anything;
the composed modules are shown to implement it.

**`CoreDelivery`** extends it with the runtime in use. A subscription `sub[s]` is
`CoreSubscription` (936-1045): `pc` is the place of its loop, `native` and `inbox`
the SDK's subscription, `ready` and `closed` its promises. `Start`, `Next`,
`Decoded`, `Returns`, `Throws` and `LoopEnds` are the loop, `Close`,
`SignalAborts` and `AbortedLater` the ways to end it. `stream[s]` is the Effect
stream over it (`createSubjectStream()`, `packages/effect/src/index.ts` 482-575):
`Offer` with its four overflow strategies, `Take`, `SourceEnds`, `Interrupt`.
`Request`, `Send`, `Answered` and `AbortRequest` are one request with its abort
signal; `Manage`, `CreateThrows` and `LeaseEnds` reserve and release under a limit;
`CloseRuntime`, `ShutdownEnds` and `Deadline` are the shutdown of all of these.
A connection series is one outcome here (`Established`, `Refused`, `LinkDrops`,
`LinkRecovers`, `ClosesForGood`); `NatsRuntime` has its parts.

**`ManagedRuntime`** extends that with its owners: `NatsManagedProvider` (mount,
StrictMode replay, unmount, and `Disposes`, the cleanup in a microtask), the
effects of one `useNatsJetStreamProcessor()` (`MountEffect`, `StartProcessor`,
`CleanUp`), and Effect programs that acquire a processor lease in a scope
(`Acquire`, `InterruptProgram`, `ProgramEnds`). The documents call for this
composition: a runtime closes its leases on shutdown, `close()` drains while
`abort()` cancels, and a managed provider survives StrictMode.

### JetStream

**`OrderedConsumer`** is `consumeJetStream()` with a resume configuration:
`JetStreamSubscription` without batching and `CheckpointWriter`
(`packages/jetstream/src/index.ts` 679-1131) over a `CheckpointStore`
(`packages/checkpoints/src/index.ts`). `pc` is the place of a lease in `start()`.
`Load`, `Create` and `Consume` are its three requests; `ReceiveNext`,
`HandlerSucceeds`, `HandlerFails` and `Saved` are one turn of the loop;
`TimedFlush` and `Save` are the writer's timer and its chain of saves; `LoopEnds`,
`Finish`, `FlushAfterFailure` and `Fail` are the ends. `Publish`, `Purge`,
`ReceiveAgain` and `MessagesEnd` belong to the server, `Crash` to the process.
Three history variables (`handled`, `replay`, `origin`) only serve the properties.

**`EventStream`** extends it with the Effect adapters. The handler of the lease is
`offerEvent()`: it waits while the queue is full, so whoever leaves the stream must
let the lease go. `Producer` is the handler and the fibre that puts the one
`CaughtUp` marker between replay and live; `Pulling` is the consumer of the stream,
which for `materializeJetStream()` batches and gives out snapshots; `Follow` and
`Interrupt` end it. The adapter `plain` leaves the handler as it was.

**`ReducingSource`** is `createReducingJetStreamSessionSource()` and the three parts
it is built from. `batcher` is `createNatsailBatcher()` of core: `Added`, `Drained`,
`Barrier`, `TimerFires`, `Cancel`, and the chain in which `BatchStarts`,
`BatchReduced`, `BatchFails` and `BarrierPasses` run. `sub` is one batched
`JetStreamSubscription`, with `apps` the chain of its applications
(`Receive`, `Commit`, `Reject`, `Awaited`, `LoopEnds`, `Finish`). `lease` is
`RecoveringJetStreamLease` (`SubscriptionEnds`, `Retry`, `CloseLease`). `session` is
the shared session that shows what the closure publishes (`Update`, `Accept`).

**`StateViews`** extends it with one adapter at a time: the `rxjs` observable that
holds a state back for a time, the React hook that renders on an animation frame, the
Effect stream with its queue. `Notified` is the listener; `Due`, `Pull` and
`PullEnds` are the timer, the frame and the consumer.

**`ProcessorAdmin`** is the pure part of the processor's administration: the
configuration that the options ask for, how an existing consumer differs
(`EditableDrift`, `ImmutableDrift`), what a mode and a policy do about it, and after which sequence a
consumer may be created again. **`Processor`** extends it with
`JetStreamProcessor` and `RecoveringJetStreamProcessor` (1180-1760): `Reconcile`,
`DeleteReplaced`, `AddConsumer`, `Rollback` and `Update` are the requests of one
reconciliation, each of which may fail; `Receive`, the four outcomes of a handler and
the acknowledgement are the loop; `LeaseEnds`, `NextLease`, `Cleanup` and
`RemoveOwned` the recovery and the end; `Close`, `Abort` and `SignalAborts` the caller's.
`Deliver` lets the server send unacknowledged messages again, in any order.

### Browser broker

**`BrowserBroker`** is one source of the worker and the tabs attached to it, over
`MessagePort`s that keep the order of each direction. `host[p]` is what the worker
knows of a port, `source` the physical subscription with its retained log;
`HostAttach`, `HostAck`, `HostDetach`, `HostRestart`, `HostClose`, `Sweep` and
`IdleTeardown` are the worker's commands, `SourceDelivers`, `SourceFails` and
`SourceCloses` the source. `Connect`, `Reconnect`, `Establish`, `OpenLease`,
`CloseLease`, `RestartLease` and `CloseTab` are the client's calls, `Receives` its
dispatch, and `DropBatch`, `Accept`, `HandlerRejects` and `Acknowledge` the receive
chain of its lease. `WorkerLost` takes everything the worker knows. A lease ends as in
the client: one that fails is over at once and its detach follows, if it is still in the
map (`Fails`, as `failLease()`); one that is closed leaves the map, sends its detach and
goes on with what it has received until the answer (`Detaches` and `DetachAnswered`, as
`detachLease()`); one whose attach is refused has left the map before `failLease()` looks
for it, so that nothing is sent (`AttachAnswered`).

**`BrokerHost`** is the rest of the worker: the chain of commands of each client,
the credentials of an identity with their revisions and rejected refreshes, the
sources that clients hold, operations beside the chains, the idle sweep, the hook
that closes the shared resources, and `close()` of the host: `CloseHost` adds a close to
every chain that has not had one, and a command whose turn comes after it
`ReturnsAtOnce`.

## The runs

| run | instance | question |
|---|---|---|
| `session_sharing` | 2 sessions, 1 key, 1 contract; 2 handles with grace, or 1 handle and a restart without; one reader of the events | Do releases, timers and acquires ever close a held session or lose one, and do the events add up? |
| `session_lifecycle` | 1 session, 4 generations, 1 value per lease | Do restarts, closes, failing sources and late promises keep the session exclusive, honest and moving? |
| `resume` | 2 leases; 3 messages, saves every 2 handled messages, each retention policy and start; or 2 messages, timed saves and a redelivery | Do crashes, failures and a second writer skip a message, or repeat more than the window? |
| `consumer_progress` | 1 lease, 2 messages, 1 redelivery, timed saves, each duplicate policy; a plain handler, an event stream, a materializer | Is replay parted from live and worked off, and do failures and closes come to an end? |
| `runtime_safety` | 2 connections, 1 resource, 2 attempts, failing status streams | Is there one connection, and nothing after a graceful `close()`? |
| `runtime_progress` | 2 connections, 1 attempt per series | Does shutdown settle, and is a lost connection replaced? |
| `managed_runtime` | 1 subscription under 5 policies, 1 event reader with 2 places, 1 hook mounted twice, 2 programs, a limit of 2 | Does everything that a React tree uses of its runtime lose nothing silently and settle after the unmount? |
| `projection` | 3 messages of sizes 1, 2, 1; batches filled by count or bytes; 3 adapters; 1 outage, 1 refused batch | Is the state the fold of the stream, and does every view of it move forward and arrive? |
| `processing` | 13 deployments, 3 messages, 3 leases, 2 faults, 1 deletion, 1 retry | Is a message left out by recovery, recreation or rollback, and does `close()` settle? |
| `retry_gap` | two unacknowledged deliveries at a time, with outages | the disagreement below |
| `broker_delivery` | 2 tabs and 1 trouble, or 1 tab and 2 troubles; 3 messages, 2 retained, queues of 2 | Do tabs see their source in order, without a silent gap or a stall? |
| `broker_host` | 2 clients, 1 source, 2 revisions, 5 commands, 1 rejection | Do credentials and resources last as long as their users, and do commands settle? |

What each property says stands above it in its module. In short:

* **Sessions.** `HeldSessionsStayOpen`, `NoOrphanSession`: the registry neither closes
  what a handle holds nor forgets what is not closing. `EventsAddUp`: a reader that
  reads what is queued knows of each session whether it was opened, how many hold it,
  its phase, and whether it is closed. `NoZombie`: a session that says it is
  connecting or live has a lease that is open, or one whose end it will still notice. `FinalValueKept`, `ValuesMoveForward`,
  `HoldsSourceExclusively`, `IdleSessionsClose` as named.
* **Consumer.** `NothingSkipped`: what a resuming lease skips was handled by some lease,
  over crashes and writers. `RedeliveryWindow`: what comes again fits the coalescing
  bound. `CaughtUpMeansReplayed`: the captured replay was handled and saved.
  `AtomicReplay`: the caught-up event of an Effect stream comes after all of the replay
  and before everything else.
* **Runtime.** `OneConnection`, `GracefulIsClean`, `CloseSettles`,
  `NoConnectionSurvives`, `LossIsRepaired`, `ReconnectSettles`.
* **Runtime in use.** `GapsAreTold`: a reader has every event or the number of the lost
  ones. `GracefulLosesNothing`: a subscription closed without error, abort or lost
  link has handled all it was sent. `StreamTellsLosses`: an Effect stream that must
  not drop gave everything out, in order, when it ends well. `LeasesWithinLimits`,
  `InUseStaysOpen`, `StatusFinallyShown`, `UnmountSettles`.
* **Projection.** `FoldedOnce`: the state is the fold of a prefix of the stream, each
  message once, and a new subscription resumes exactly there. `NeverBack`, `Converges`.
* **Processor.** `NothingLeftOut`: a message that the consumer of the moment will not
  deliver for the first time is handled to its end or still unacknowledged there, over
  deletion, recreation, rollback and recovery. `LateResultsDropped`: nothing is
  acknowledged after `abort()`. `CloseSettles`.
* **Broker.** `NoSilentLoss`, `AcksAreAccepted` (no lease that the application holds ends
  because the worker refuses an acknowledgement), `SourceIsHeld` (a source is open exactly
  while it is held, and a subscription on the present port of a tab belongs to a lease in
  the map or has a detach on its way, except behind a refused attach), `NoStall` (a worker
  with something queued for a tab has a batch on its way); `ResourcesKept`,
  `CommandsSettle`.

### Bounds

* *Sessions.* Two sessions of one key are a session and its successor while the first
  still closes. One handle leaves and another arrives; a handle that stays while
  another leaves needs only two. Restart with two sessions costs most, so it has an
  instance of its own with one handle; the session invariants are proved for every
  bound, with restarts. Four generations are the constructor's, two for a restart, and
  the one that `close()` adds; the guard of `Restart` keeps room for the later ones.
* *Consumer.* Three messages and saves every two give a save in the middle of the
  replay, a pending message behind it, and a crash between the two. Two leases are a
  predecessor and its successor, or two writers of one key. With timed saves every
  pause of a loop may have a save beside it, so that setting has a stream of two
  messages, and one of them may come again. `consumer_progress` has one
  lease and two messages, of which the first can be replay and the second live; its
  streams have one place, so that the second offer waits.
* *Runtime.* Two connections are a lost one and its replacement. `MaxUnread` limits how
  many statuses a connection may report ahead of the loop when its link drops; one is
  enough for a stale status of a replaced connection.
* *Runtime in use.* Two places in the buffer of a reader are the smallest in which a drop
  leaves an event behind; one place in a stream makes the second message wait or drop.
  The limit of two is reached by two programs, or by a program and a hook. `MaxInputs`
  bounds what the outside does (messages, link events, aborts), and `MaxUses` how many
  kinds of use (subscription, request, consumers, events) one behaviour mixes: the
  kinds meet only in the connection and the shutdown, which every behaviour has.
  The invariants of this run are proved without these bounds.
* *Projection.* Message 2 fills a batch by bytes alone, messages 1 and 2 by count; a third
  follows either. One outage meets each stage of a batch, and recovery takes place once.
* *Processor.* The deployments are those in which a decision differs: without consumer,
  with one that is current, drifted, partly delivered, unmarked or owned, in each mode.
  Three messages are a handled one, one in hand, and one behind. Deployments with two
  unacknowledged deliveries have no outages in `processing`; with both, the property
  fails, which is `retry_gap`.
* *Broker.* A trouble is a lost worker, a failing source or handler, a lagging tab, a
  reconnection or a close that nothing called for. One lets each recovery run beside
  the other tab; two let a recovery fail in its turn, with a third port after it. The
  tab's queue of two with batches of two fills and empties. A source that retains two of
  three messages truncates with the third, and a tab that comes back may be sent two
  retained entries at once; longer replays are covered by the proofs, for any bound.
* *Commands.* Two queued commands are one that runs and one that waits. One rejection, since
  two can wait for each other ([below](#other-observations)).

The bounds called `Max…` appear as guards of the actions they bound (`Trouble`,
`Spend`, `Input`, `MaxInputs`, `MaxUnread`, …) and nowhere else. Deadlock checking is
off in every run: each of these systems ends (a closed registry, a lease that is over,
a closed runtime, or bounds used up).

`LivePurge` is FALSE in every run: it lets retention overtake a running lease, which
the code does not notice ([below](#where-the-code-and-its-documents-disagree)).

## Fairness

* Continuations of settled promises and expired timers run (`WF` on each): the
  event loop guarantees it.
* Of a session's lease: one being opened becomes ready or ends, and one whose `close()`
  was called ends. The code awaits both without a timeout, so its own progress
  depends on it.
* `OrderedConsumer`, `EventStream`: requests are answered, saves settle, and handlers
  return. The consumer of an Effect stream that pulls goes on until it leaves. A
  delivery is not forced while the iterator is closed, and nothing forces a publish, a
  purge, a crash or a close.
* `NatsRuntime`: a factory call settles, a dropped link recovers or closes (the NATS
  client gives up after its own reconnect attempts), and a connection on which
  `close()` was called closes. Nothing is assumed of resources or of `drain()`: the
  shutdown deadline has to do without.
* `ManagedRuntime`: loops, microtasks and the shutdown timer run; a handler or a lease is
  only trusted to end once it was told to; consumers of streams keep taking. The
  network and the factory are not trusted.
* `StateViews`: promises, timers, frames and the delay of a retry; a subscriber that
  pulls goes on. Nothing of the stream, of outages, of the reducer or of `close()`.
* `Processor`: requests settle, the loop runs, handlers end. Nothing of the server.
* `BrokerHost`: commands at the head of a chain, operations and the hook come to an end.
  `BrowserBroker` has safety properties only.
* `ReconnectSettles` excludes runtimes whose status stream fails: an explicit
  reconnect has no other way to learn of the cycle's end.
* `CloseSettles` of `OrderedConsumer` and of `Processor` exclude a `close()` that meets a
  pending `consume()` (below); `CatchesUp` asks only for leases that stay up; `Converges`
  only for views with a time bound and a queue that does not drop.

## What is proved

The theorems hold for every value of the constants under the assumption that the module
names (`SessionAssumption`, `RuntimeAssumption`, `ProcessorAssumption` and so on): any
sets of sessions, keys, handles, readers, subscriptions, connections, leases, clients and
deployments, any capacity, limit and bound. The arguments are of one shape: an invariant
that is inductive (`...IInv`; TLC has checked those of the consumer, the event stream, the source, the
host, the processor and the events of the registry on the instances of their runs), a lemma for each action or group of actions,
and the property as a consequence.

| theorem | states | hypothesis |
|---|---|---|
| `EndsAreNoticed`, `SharedSessionKeepsPromises` | `NoZombie`, alone and under the registry | |
| `CloseKeepsLastValue`, `ValueNeverGoesBack` | `FinalValueKept`, `ValuesMoveForward` | |
| `SessionIsExclusive`, `SharedSessionIsExclusive` | refinement of `ExclusiveSource` | |
| `HeldSessionsStay`, `NoSessionIsLost` | `HeldSessionsStayOpen`, `NoOrphanSession` | |
| `ReadersKnow` | `EventsAddUp` | |
| `AtMostOneConnection`, `CompletedIsClean` | `OneConnection`, `GracefulIsClean` | |
| `GapsAlwaysTold`, `ReadersAreTold` | `GapsAreTold`, alone and in a managed runtime | |
| `MountedIsOpen`, `GracefulHandlesAll` | `InUseStaysOpen`, `GracefulLosesNothing` | |
| `StreamsTell`, `LeasesAreLimited` | `StreamTellsLosses`, `LeasesWithinLimits` | |
| `AtLeastOnce` | `NothingSkipped` | retention does not overtake a lease that refuses gaps |
| `WindowIsBounded` | `RedeliveryWindow` | |
| `CaughtUpIsTrue` | `CaughtUpMeansReplayed` | nothing is removed under a running lease |
| `MarkerParts` | `AtomicReplay` | one lease; nothing is removed under it while it runs |
| `OneAtATimeLeavesNothingOut` | `NothingLeftOut` | one unacknowledged delivery at a time |
| `LateResultsAreDropped` | `LateResultsDropped` | |
| `ResourcesLast` | `ResourcesKept` | |
| `SourceStaysHeld`, `AcksStayAccepted` | `SourceIsHeld`, `AcksAreAccepted` | |
| `NothingIsLostSilently`, `NothingStalls` | `NoSilentLoss`, `NoStall` | |
| `ShownNeverGoesBack` | `NeverBack` | |
| `FoldedWhenFitting`, `ShownIsTheFold` | `FoldedOnce`, and the same of what is shown | every message fits the byte limit of a batch |

**`SessionRegistryProofs`.** First a session alone: `SessionIInv` is inductive. Per session it says, besides
types, that this.lease is the latest lease and only it can be open (`Numbered`,
`OnlyCurrentOpen`), that `closeRequested` and `closePromise` agree
(`CloseFlags`), that a draining restart has superseded every lease (`Superseded`:
without it a late `ready` could make the session terminal while the restart goes
on to open another lease), and that a terminal snapshot or a settled `close()`
leaves no lease open (`ShutDown`). `Room` is the bookkeeping of the bound on
generations. Each action has its own lemma, and the frame lemma says that
sessions do not disturb one another. From it follow

* `NeverTwoLeases` and `EndedMeansReleased`: one open lease, and none once the snapshot
  is terminal;
* `SessionIsExclusive`: `SharedSession` implements `ExclusiveSource`. Opening
  takes, the end of a lease drops, the end of `close()` retires, and every other
  step stutters;
* with `AllWatched` (the latest lease of a session that runs is watched until its end
  has been handled), `EndsAreNoticed`: no session says it is live over a lease that
  has ended unheard;
* with the second invariant `ValueIInv` (what the snapshot shows is the newest
  value of the latest lease, unless a restart has superseded it),
  `CloseKeepsLastValue` and `ValueNeverGoesBack`.

Then the registry. `RegistryIInv` adds to `SessionIInv` that the registry
knows nothing of sessions it has not constructed (`Unknown`), files the others
under their key (`Filed`, `Reachable`), that `references` counts the holders
(`Counted`; the handles are finite, and the count uses the library's facts about
cardinality), and that timers run only for sessions without holders and, while
the registry is open, are the ones stored for the key (`Timed`). That last part is
what makes `acquire()` safe: the timer it cancels by key is the only one that
could close the session it hands out. From it follow `RegistryRunsSessions` (every
step of the registry is a step of `SharedSession`, so the theorems above hold of
sessions that are shared, as `SharedSessionIsExclusive` and
`SharedSessionKeepsPromises` restate), `HeldSessionsStay`, `NoSessionIsLost`, `IdleSessionsArePlanned` and
`RegistryTyped`.

At the end the events of the registry: `ReadersKnow`, for any sessions, keys and handles and
however many events are queued. `EventsIInv` adds three things to `RegistryIInv`: a session
that was not constructed has no key, nothing is queued before somebody reads, and, for as
long as somebody does and the stream is open, the queue is on its way (`Adding`) from what the
reader has been told to what there is. `Adding` says for each session, of the queue as it
stands, that it was opened or closed since the reader was told just when such an event is
queued, that its last event that is not an update, and every update behind that, has the
references of the moment, and, if it is alone under its key, that its queued update has the
phase of the moment; and it says that a key has one queued update at most. That is what
replacing an update in the middle of the queue preserves (`QueuedAdds`), as do reading
(`ReadAdds`) and handing an event to a waiting reader (`DirectAdds`). Each step then has a
lemma that leads event by event from the picture before it to the one after it
(`NewAdds`, `RestartAdds`, `ProgressAdds` and so on). `EventsAddUp` folds over the queue, and the
library defines a fold by choosing a function with the equations of one: `FoldsExist` proves
that there is one, by an induction from the well-foundedness of `<`, and `ToldInTurn` that the
fold tells the reader one event after the other.

**`ManagedRuntimeProofs`.** First the event stream alone. `GapsAlwaysTold`: whatever the
runtime reports and whenever
readers come and go, a reader has read every event or was told how many it lost, in
order. `GapsAreTold` alone is not inductive: it says nothing of an iterator that
waits or is done. `FeedIInv` adds that one that waits has nothing left in its buffer
and no loss to tell, that a done one has told everything, and that the numbers in the
buffer follow what has been told (`Following`, `Retained`, `Account`). One lemma each
says that `Pushed` (`PushedKeeps`) and `Asked` (`AskedKeeps`) keep it, for every
state of an iterator; the actions are then instances.

Then the composition. Every step of it is one of the event stream or
leaves it alone, so `ReadersAreTold` carries the theorem over: `Spec => FeedSpec`,
and with it `GapsAreTold`. Four invariants of its own follow:

* `MountedIsOpen`: `OpenWhileMounted` says that while the provider is mounted no cleanup
  of the current run of its effect is outstanding, so that a microtask that is left
  from a StrictMode replay finds a later run and closes nothing;
* `GracefulHandlesAll`: `SubsSound` says of every subscription, at each place of its
  loop, that what was handled, is in hand, is buffered and is in flight is all
  that was routed to it (`Delivered`), and what `ready`, `closed` and the flags can
  be there;
* `StreamsTell`: `StreamsSound` adds that what an Effect stream has given out and what it
  has queued are, in order, the messages its subscription has handled, as long as the
  strategy may not drop and nobody cancelled; an ended stream has a subscription that
  resolved `closed`, so `GracefulHandlesAll` says those are all;
* `LeasesAreLimited`: `LeaseIInv` says that the counter is the number of leases that
  are open or closing (`CountRight`, by the library's facts about adding to and
  removing from a finite set), that the hook's open lease is that of the latest run
  (`HooksOwn`), and that a program out of its scope has none (`ProgramsOwn`).

**`NatsRuntimeProofs`.** `OneConnection` is not inductive. `RuntimeIInv` says who owns a
connection that is not closed: it is the active one, or the last one that the factory
returned, which came after `close()` and is being cleaned up (`Owned`). For that, a
status "close" must come from a connection that has closed (`ClosesAreReal`), and a shared promise
must end with its series (`Shared`); otherwise a stale status could clear the active
connection and a second series begin beside it. `ConnectionShut` and `ResourcesShut` follow
`close()` through its phases, and give `CompletedIsClean`.

**`OrderedConsumerProofs`.** `ConsumerIInv` has one part per theorem above the types and
the places of a lease (`Placed`).

* `Complete`, for `AtLeastOnce`: everything that a lease has recorded or will still save
  (`Recorded`: its cursor, what the writer holds back, what is on its way to the store),
  and everything that it has passed, is covered: handled by some lease, or removed where the
  options accept a gap. It must hold of every lease at once, since a second writer of the
  checkpoint key may save last. The hypothesis `~Overtaken` excludes retention that
  overtakes a running lease under `retention: "error"`, which the code does not notice.
* `Windowed`, for `WindowIsBounded`: without a timer, what a lease has handled beyond the
  store is what its writer counts, or what it is saving. No hypothesis.
* `Replayed`, for `CaughtUpIsTrue`: `remaining` is the number of captured messages still
  to do (`Remains`), those behind the position are handled (`Behind`), those ahead are
  without a hole (`Ahead`), so the count reaches zero at the last of them.

The same module proves `MarkerParts` of `EventStream`, for any capacity, overflow strategy
and bounds of a batch, whoever ends the stream and however the lease fails. `OneLease` is a
hypothesis of these theorems alone: the stream has one lease, as in the code, while those
above hold for any number of them. `~LivePurge` says, as in the run, that retention waits
for the lease; otherwise a message of the replay may never come. Every
step of the stream is a step of the consumer or leaves it alone (`EventNextIsNext`), so
`ConsumerIInv` holds, and `StreamIInv` adds `Parting`, about what was taken and what is queued
as one sequence (`Given`):

* `AllGiven`: as long as the queue is not shut, every handled delivery is in it. With `Settled`
  of the consumer, the whole replay is there when the caught-up event joins.
* `ReplayFirst`: before the marker there is nothing but the replay. A delivery that does not
  wait for the marker is one of it, since then `remaining` is not zero, something is to
  do, and what is ahead has no hole (`BeforeTheMarker`).
* `WorkedOff`: the batch is the end of what was taken, and what came before is in the
  materializer's data; so its data holds the replay when it meets the marker (`OneWorked`,
  carried through the fold of a whole batch in `BatchWorked`).
* `Untouched`: until the consumer is created, which captures the replay, nothing has come.

**`BrowserBrokerProofs`.** None of the four promises is inductive: each depends on what is
on its way between worker and tab. `BrokerIInv` says, besides the types (`BrokerTypeOK`):

* `SourceSound`: the retained log is a run of sequences that ends at the source's
  position, and the source is open exactly while it is held;
* `ClientSound`, of the worker's side of every port: what is queued runs up to that
  position and follows on the batch in flight, nothing is queued without one, and a client
  that is not attached, or that has lagged, has neither;
* `TabSound`, of every tab: the ports of generations to come are unspoken on, received
  batches are of generations that have been, the cursor is not ahead of what the handler has
  seen. A lease that still accepts, which is longer than it is in the map, has one batch of
  the present port at most, and it follows on what the handler has seen (`Resumes`). A lease
  that has left the map without a refused attach is not subscribed, with no attach on its
  way, or has a detach on its way behind which there is no attach (`Parted`);
* `Talks`, of every tab whose lease is in the map of a client with a port: the conversation
  across both directions of the port, the chain of received batches and the worker's
  record. There is one unacknowledged batch at most, on its way down, in the chain, or as
  its acknowledgement on its way up (`OneBatch`); it is the one the worker holds in flight,
  unless a message that ends the lease is ahead of it (`Agreed`), and the worker waits for
  none that is nowhere (`Awaited`). A refusal comes only behind a message that ends the
  lease (`Refused`): that is why a batch which the worker took back does not end a lease
  with an error of its own. What is on its way or queued follows on what the handler has
  seen (`NoneSkipped`), and an attach is the first word on its port (`Asked`).

`AcksStayAccepted` needs `Agreed` and `Refused`, `NothingIsLostSilently` needs
`NoneSkipped` and `Resumes`, `NothingStalls` needs `Awaited`, and `SourceStaysHeld` needs
`Parted`, which says for a lease that is over what becomes of its subscription. Each kind of message has one lemma
over the records of the conversation (`Talk`), in which the variables of the model do not
occur: taking an answer, a batch that arrives, is accepted or is acknowledged, a command that
the worker handles. The actions are instances of these, and of the fact that every other tab
talks on as before.

**`BrokerHostProofs`.** `ResourcesKept` becomes inductive with `AtWork`: a chain in the
middle of a command has that command at its head, and one that waits for the hook is an
attach of a client with an identity. The second is why the credential store is still there
when the hook ends and the source opens.

**`ProcessorProofs`.** `ProcessorIInv` has a part for any deployment (types, `WellPlaced`,
and `Phased`: in which phase there is an iterator, a message in hand or a
consumer being replaced, and that an aborted processor is cancelled for good).
`LateResultsAreDropped` follows from it. `Sequenced` is for deployments with one
unacknowledged delivery at a time, owned or from the beginning, upon no consumer or an
orderly one (`OneByOne`): the only pending delivery is the last one, so everything before
a message in hand or in the buffer is finished (`HandInOrder`), and so is everything up to
the boundary, up to the recreation boundary of a consumer that is being replaced
(`ReplacedIsDone`), and up to the base of the consumer of the moment (`ServerKeepsUp`). With
neither consumer nor boundary the position is forgotten and set anew (`PositionForgotten`).
The hypothesis is what the property needs: `retry_gap` refutes it for two deliveries at a
time and outages. What `Max` gives on a bounded set (`MaxOfBounded`) is proved from
the well-foundedness of `<`, by a least counterexample.

**`StateViewsProofs`.** The source with its batcher, its subscription and its recovery, and
one adapter on top. `Kept` is what the types are and how the records are formed, and
`ViewIInv` that the data in the queue of publications, in the session, held back by the
adapter and shown continue one another (`Forward`): `NeverBack` follows for every
adapter, without any hypothesis.

`FoldedOnce` says nothing of the chain in which messages wait, so it is far from inductive.
`FoldInv` has four parts:

* `InLine`: the chain of applications is the end of what was received, without a gap;
  batches are runs of sequences in order, and every application that waits is in a batch or in
  the pending one;
* `Placed`: what holds at each place of the loop. The one that carries the rest is
  `Waits`: while the loop awaits message n it has received n or n + 1, and in the second case
  n + 1 is behind a barrier. So of all batches the first alone can be at work when something fails, and none
  is applied behind a refused one;
* `InStep`: the state is the fold of what is committed and of what is applied and still to
  commit (`Whole`); after an outage or a refusal the failed part is the end of what was received
  (`CutShort`), so that a replacement which opens after the checkpoint continues the state;
* `OneBatch`: one publication at most belongs to a batch, that at the head of the chain.

The hypothesis `Fitting` (every message is at most `maxBytes` large) is needed: a message that
is larger is refused with a batch before it still pending, which no barrier protects, and
TLC then refutes `FoldedOnce` (*oversized* [below](#where-the-code-and-its-documents-disagree)).
`projection` meets the hypothesis. The proof was what found this: without the hypothesis
`Behind` fails. TLC has checked `FoldInv` on the instances of the run.

Not proved, only model-checked:

* every liveness property, which is out of reach of the prover (`IdleSessionsClose`,
  `CatchesUp`, `FailedSaveEndsLease`, the `CloseSettles`, `NoConnectionSurvives`,
  `LossIsRepaired`, `ReconnectSettles`, `CommandsSettle`, `Converges`,
  `StatusFinallyShown`, `UnmountSettles`);
* `NothingLeftOut` for wider windows without outages, which `processing` checks for two.

## Where the code and its documents disagree

One of these has a run; the others are described by the model and left out of the
properties that they would break.

* **`retry_gap`** (run): `docs/PRODUCTION.md:73` says that recovery must not skip an
  unfinished delivery because later messages succeed. A recovered lease starts without
  the gap of the one before it (`packages/jetstream/src/index.ts:1395`): with two
  unacknowledged deliveries at a time it handles the one behind the interrupted
  delivery, and the boundary moves past that. When the consumer is then deleted, it is
  created again after the boundary, and the interrupted message is never handled.
* *live gap*: retention that overtakes a running lease removes messages without the
  `retention-gap` error of `docs/DELIVERY.md:71`; the check (jetstream 865-878) runs
  once, when the lease starts. `LivePurge` enables it in `OrderedConsumer`.
* *late close*: `close()` of a JetStream subscription that arrives while `start()` awaits
  `consumer.consume()` (jetstream 917) finds no iterator to close; nobody looks
  again, and delivery goes on. The processor has the same place (1249): there
  `close()` waits for the next message.
* *unsettled*: when the iterator ends by itself during replay, the lease closes
  (jetstream 1064-1065) and `caughtUp` stays pending.
* *oversized*: a message larger than `maxBytes` is refused before it is in a batch
  (`NatsailBatchItemTooLargeError`, core 518-519), while earlier messages are pending without a
  barrier. When an outage ends the iterator at that moment, the loop of the batched consumer
  goes on to settle what it has received (jetstream 1017-1027): the refusal is noticed, but
  the messages behind it are committed, and the recovering lease takes the outage
  for the cause and reopens after them (2039-2058). The refused message is missing
  from the state for good, although `docs/DELIVERY.md:93` keeps handler failures
  terminal and `README.md:104` says that a failed handler does not advance the
  checkpoint. With sizes 1, 5, 1 and `maxBytes` 2, TLC refutes `FoldedOnce` so.
* *full batch*: a live snapshot of the materializer is emitted only if deliveries are
  pending at the end of a batch (`packages/effect/src/index.ts:784`). A batch that its
  last delivery fills has none, so its state is not shown until the next one; with
  `batchSize` 1 never. `packages/effect/README.md:146-148` promises a snapshot per batch.

* *attached twice*: a lease opened while a reconnect awaits `hello` sends its attach and is
  then attached again with the leases of the map (`packages/browser-broker/src/client.ts`
  363-387, 423-530). The worker refuses the second attach (`worker.ts:453`); the client
  removes the lease from its map before `failLease()` looks for it there (378-392), so that
  it sends no detach, and the worker's first subscription stays and holds the source until
  the port goes. `packages/browser-broker/README.md:101` says that when a source attachment
  fails the client detaches that subscription instead of leaving a host reference behind.
  `BrowserBroker` has the behaviour; `SourceIsHeld` excepts leases whose attach was refused
  (`lease = "attach"`), and TLC refutes it without the exception.

## Other observations

Behaviour met while modelling, of which no document says otherwise. The models have it
unless noted.

* `registry.close()` awaits the sessions in its map; one that left the map earlier may
  still drain when it resolves, and its last events are lost.
* A retry policy that refuses (`retryDelay`, core 1563-1575) ends the series with the
  status still "connecting".
* `close()` or an abort of a core subscription that has no connection yet waits for it
  (core 972, 1305); an abort of an idle one resolves `closed`.
* A message that comes again within the captured replay counts as one of it, dropped or
  not (jetstream 943), so `caughtUp` may resolve one message early.
  `CaughtUpMeansReplayed` and `AtomicReplay` exempt instances in which one came again.
* Two rejected credential refreshes of one identity at the same time wait for each other's
  command chains for good (browser-broker `worker.ts:886`; `MaxRejections` is 1).
* A lease that reattaches without a cursor has nothing to compare, so it may have missed
  messages (`worker.ts:615`; the variable `blind` exempts it, as the broker's README:97
  does).
* A tab that attaches to a source whose session has closed within the grace period is
  answered live and receives nothing (`worker.ts:470-505`).
* A broker lease that is being closed has left the map, so it does not hear that it has
  lagged; when it acknowledges a batch that the worker has taken back, or when an attach
  still under way is refused, its `closed` promise rejects instead of resolving
  (`client.ts` 389-421; state "refused", which `AcksAreAccepted` does not ask about).
* `connect()` of a broker client that is connected opens a new port and leaves the leases
  of the map unattached on it, without an error (`client.ts` 242-248, 483; `Connect`).
* The processor: a rejected drift or a refused recreation can be followed by the deletion
  of the consumer it owns (jetstream 1427, 1737); a consumer that was recreated under
  `drift: "error"` or `"update-editable"` counts as drifted at the next recovery; a
  signal that aborts during `consume()` of a lease without recovery is not noticed (1326).
* Effect: the event stream awaits the catch-up event before `lease.closed`, so one whose
  lease ends before that waits on (625-640); events that were accepted but not taken are
  covered by the checkpoint and lost on interruption (578-601); the "suspend" offer does
  not look at the runtime's grace signal (515); the "dropping" strategy loses the latest
  state; `rxjs` drops a held live state on an error while Effect flushes it.
* React: hiding and showing an `Activity` re-uses a closed resource (150-165).

## What is not modelled

* The work controller of core (574-600): a counter of yields to the scheduler.
* `createReducingSessionSource` of `session` folds values synchronously; the definition
  helpers build objects.
* The IndexedDB store's opening and upgrade: browser I/O. Its save does the comparison
  of `rejectSequenceRegression` inside one transaction, as the in-memory store does in
  one turn.
* The processor controller's inspect, pause and resume: single requests, whose effect on
  a lease is that of a slow server.
* `close()` of a broker client while it is connecting; a broker lease that is closed while
  it waits for `connect()` and is attached afterwards all the same (client 363-366); one
  that is opened while a reconnect reads its credentials, so that its attach precedes
  `hello` and is refused.
* How the physical source of the broker goes on after a restart. The model lets it resume
  exactly behind its last delivery. The worker opens the factory's source again, which
  was created with the first `resumeAfter` (worker 530-538, 741-744), and the session
  ignores values of the superseded lease (session 321-343): whether anything repeats or is
  passed over depends on the source the application supplies. A source that the map does
  not have opens after the cursor it is given, although `sessions.acquire()` (worker 536,
  session 548) may hand out a session that another user of the registry holds.
* In `BrokerHost`, an `openSource()` that throws, with the `closeIdleResources()` behind it
  (worker 470-478), and more than one publish or request of a client at a time.
* `store.load()` and `streams.info()` at the start of an ordered lease (jetstream 831-836)
  are one step of `OrderedConsumer`, and the deletion of a consumer by somebody else and
  its notification (jetstream 1544) one step of `Processor`. An `ack()`, `nak()` or
  `term()` that throws because the connection is closed (1381-1384) is left out there.
* Byte limits, heartbeat timing and the field-by-field validation of broker messages;
  tabs and keys beyond the instances, since keys do not meet in the worker.
* Two concurrent `next()` calls on one event iterator: they share one waiting slot (core
  858); no code of the repository makes them.
* The other React hooks, which compose the modelled ones; Effect layers, schemas and error
  mapping; the Effect runtime and React's scheduling themselves.
* `opentelemetry` translates records into metrics, and nothing depends on it. Examples,
  benchmarks and test servers.

## Plan

The model covers the parts of the code in which actors meet, and its invariants are proved.
What is left is a composition of `NatsRuntime` and `CoreDelivery`, with the outcomes of a
series as the abstract specification of the connection.
