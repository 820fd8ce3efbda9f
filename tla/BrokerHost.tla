----------------------------- MODULE BrokerHost -----------------------------
(***************************************************************************)
(* The worker host of @natsail/browser-broker apart from its deliveries:   *)
(* the command chain of each client, the credentials of an identity, the   *)
(* sources that clients hold, and the resources that the host closes when  *)
(* the last source and the last operation have gone.                       *)
(*                                                                         *)
(* All clients have one identity.  A command runs until it is done before  *)
(* the next one of its client starts; publish and request run beside the   *)
(* chain.  A revision stands for the credentials that carry it.            *)
(***************************************************************************)
EXTENDS Integers, FiniteSets, Sequences, SequencesExt

CONSTANTS Clients, Sources,
          MaxRevision,     \* bound on the credential revisions of the tabs
          MaxCommands,     \* bound on the commands of all clients
          MaxQueued,       \* bound on the commands in the chain of a client
          MaxRejections    \* bound on the refreshes that a source rejects

ASSUME HostAssumption == {MaxRevision, MaxCommands, MaxQueued, MaxRejections} \subseteq Nat

VARIABLES
    status,       \* of each client: open, closing or closed
    identity,     \* the client has an identity and its credential key
    jobs,         \* client.pending: the commands that wait, the running first
    stage,        \* where the running command stands
    held,         \* the sources that a client is subscribed to
    store,        \* revision of the credential store, 0 when there is none
    sources,      \* keys of the physical sources
    active,       \* resourcesActive
    hook,         \* closeIdleResources is running
    operation,    \* the publish or request of a client
    hostClosed,   \* close() was called
    sent,         \* commands so far
    rejections    \* rejected refreshes so far

clientVars   == <<status, identity, jobs, stage, held>>
resourceVars == <<sources, active, hook, operation>>
boundVars    == <<sent, rejections>>
hostVars     == <<clientVars, resourceVars, store, hostClosed, boundVars>>

HostInit ==
    /\ status = [c \in Clients |-> "open"]
    /\ identity = [c \in Clients |-> FALSE]
    /\ jobs = [c \in Clients |-> <<>>]
    /\ stage = [c \in Clients |-> "ready"]
    /\ held = [c \in Clients |-> {}]
    /\ store = 0
    /\ sources = {}
    /\ active = FALSE /\ hook = FALSE
    /\ operation = [c \in Clients |-> "none"]
    /\ hostClosed = FALSE
    /\ sent = 0
    /\ rejections = 0

\* What tabs send: establish() and refreshCredentials() the credentials that
\* the application has at the time, whose revisions may come in any order.
Credentials == [type : {"hello", "refresh"}, revision : 1 .. MaxRevision]
Commands == Credentials
            \cup [type : {"attach", "detach"}, source : Sources]
            \cup [type : {"close"}]

\* onmessage: a client that is closing hears no more commands.
Command(c, job) ==
    /\ status[c] = "open" /\ ~hostClosed
    /\ sent < MaxCommands /\ Len(jobs[c]) < MaxQueued
    /\ sent' = sent + 1
    /\ jobs' = [jobs EXCEPT ![c] = Append(@, job)]
    /\ status' = [status EXCEPT ![c] = IF job.type = "close" THEN "closing" ELSE @]
    /\ UNCHANGED <<identity, stage, held, resourceVars, store, hostClosed, rejections>>

\* enqueueClientClose(): a tab whose heartbeats have stopped, with an idle chain.
Sweep(c) ==
    /\ status[c] = "open" /\ ~hostClosed
    /\ jobs[c] = <<>> /\ operation[c] = "none"
    /\ status' = [status EXCEPT ![c] = "closing"]
    /\ jobs' = [jobs EXCEPT ![c] = <<[type |-> "close"]>>]
    /\ UNCHANGED <<identity, stage, held, resourceVars, store, hostClosed, boundVars>>

Running(c, type) == jobs[c] # <<>> /\ Head(jobs[c]).type = type
Turn(c, type)    == stage[c] = "ready" /\ Running(c, type)
Starts(c, type)  == Turn(c, type) /\ ~hostClosed
ClosesLater(c)   == \E i \in 2 .. Len(jobs[c]) : jobs[c][i].type = "close"
Finished(c) == /\ jobs' = [jobs EXCEPT ![c] = Tail(@)]
               /\ stage' = [stage EXCEPT ![c] = "ready"]
Goto(c, to) == stage' = [stage EXCEPT ![c] = to] /\ UNCHANGED jobs

\* cleanupCredentials(): the store goes with the last client and source.
UnneededBySources(identities, remaining) == remaining = {}
Unneeded(identities, remaining) ==
    remaining = {} /\ \A c \in Clients : ~identities[c]
Cleaned(identities, remaining) == IF Unneeded(identities, remaining) THEN 0 ELSE store

\* A newer revision is committed, then each source is told and may reject it.
Newer(revision) == revision > store
NotOlder(revision) == revision >= store

\* invalidateIdentity(): every client of the identity detaches what it has,
\* each in its own chain, and the caller waits for all of them.
EveryClient(c) == {d \in Clients : identity[d]}
Others(c) == {d \in Clients : d # c /\ identity[d]}

Invalidate(c) ==
    /\ stage' = [stage EXCEPT ![c] = "detaching"]
    /\ jobs' = [d \in Clients |->
          IF d \in Others(c) THEN Append(jobs[d], [type |-> "invalidate", by |-> c])
          ELSE jobs[d]]
    /\ UNCHANGED identity

Refresh(c) ==
    LET revision == Head(jobs[c]).revision
    IN  /\ Starts(c, "refresh")
        /\ \/ /\ ~identity[c] \/ ~Newer(revision)
              /\ Finished(c)
              /\ UNCHANGED <<store, rejections, identity>>
           \/ /\ identity[c] /\ Newer(revision)
              /\ store' = revision
              /\ Finished(c)
              /\ UNCHANGED <<rejections, identity>>
           \/ /\ identity[c] /\ Newer(revision)
              /\ sources # {} /\ rejections < MaxRejections
              /\ rejections' = rejections + 1
              /\ store' = revision
              /\ Invalidate(c)
        /\ UNCHANGED <<status, held, resourceVars, hostClosed, sent>>

\* hello(): creates the store, or brings credentials at least as new.
Hello(c) ==
    LET revision == Head(jobs[c]).revision
    IN  /\ Starts(c, "hello")
        /\ \/ /\ identity[c] \/ ~NotOlder(revision)
              /\ Finished(c)
              /\ UNCHANGED <<store, rejections, identity>>
           \/ /\ ~identity[c] /\ NotOlder(revision)
              /\ store' = revision
              /\ identity' = [identity EXCEPT ![c] = TRUE]
              /\ Finished(c)
              /\ UNCHANGED rejections
           \/ /\ ~identity[c] /\ store > 0 /\ Newer(revision)
              /\ sources # {} /\ rejections < MaxRejections
              /\ rejections' = rejections + 1
              /\ store' = revision
              /\ Invalidate(c)
        /\ UNCHANGED <<status, held, resourceVars, hostClosed, sent>>

\* attach() waits for a running hook; openSource() and the subscription follow
\* in one turn.
Opened(cs) ==
    LET key(c) == Head(jobs[c]).source
    IN  /\ sources' = sources \cup {key(c) : c \in cs}
        /\ held' = [c \in Clients |-> IF c \in cs THEN held[c] \cup {key(c)} ELSE held[c]]
        /\ active' = (active \/ \E c \in cs : key(c) \notin sources)

Attach(c) ==
    /\ Starts(c, "attach")
    /\ IF ~identity[c] \/ Head(jobs[c]).source \in held[c]
       THEN Finished(c) /\ UNCHANGED <<sources, held, active>>
       ELSE IF hook THEN Goto(c, "hook") /\ UNCHANGED <<sources, held, active>>
       ELSE Goto(c, "opening") /\ Opened({c})
    /\ UNCHANGED <<status, identity, hook, operation, store, hostClosed, boundVars>>

\* handle.ready has resolved; when it rejects, the subscription goes again.
AttachReady(c) ==
    /\ stage[c] = "opening"
    /\ Finished(c)
    /\ UNCHANGED <<status, identity, held, resourceVars, store, hostClosed, boundVars>>

AttachFails(c) ==
    /\ stage[c] = "opening"
    /\ Goto(c, "detaching")
    /\ UNCHANGED <<status, identity, held, resourceVars, store, hostClosed, boundVars>>

\* detach, a failed attach, invalidate and close let go of subscriptions.
Detach(c) ==
    /\ \/ Starts(c, "detach")
       \/ Turn(c, "invalidate")
       \/ Turn(c, "close") /\ operation[c] = "none" /\ (hostClosed => ~ClosesLater(c))
    /\ IF Running(c, "close") THEN status' = [status EXCEPT ![c] = "closed"] ELSE UNCHANGED status
    /\ Goto(c, "detaching")
    /\ UNCHANGED <<identity, held, resourceVars, store, hostClosed, boundVars>>

Leaving(c) == CASE Running(c, "attach") \/ Running(c, "detach") -> held[c] \cap {Head(jobs[c]).source}
                [] OTHER -> held[c]

\* One subscription goes; teardownSource() takes the source of the last one out
\* of the map and waits for its release.
DetachOne(c) ==
    /\ stage[c] = "detaching"
    /\ \E s \in Leaving(c) :
         /\ held' = [held EXCEPT ![c] = @ \ {s}]
         /\ IF \E d \in Clients \ {c} : s \in held[d]
            THEN UNCHANGED <<sources, stage, jobs>>
            ELSE sources' = sources \ {s} /\ Goto(c, "releasing")
    /\ UNCHANGED <<status, identity, active, hook, operation, store, hostClosed, boundVars>>

\* closeIdleResources() starts the hook only when nothing uses the resources.
Idle(remaining, operations) ==
    active /\ remaining = {} /\ \A c \in Clients : operations[c] # "running"

Released(c) ==
    /\ stage[c] = "releasing"
    /\ store' = Cleaned(identity, sources)
    /\ hook' = (hook \/ Idle(sources, operation))
    /\ Goto(c, IF hook' THEN "closing" ELSE "detaching")
    /\ UNCHANGED <<status, identity, held, sources, active, operation, hostClosed, boundVars>>

\* All subscriptions are gone: invalidate forgets the identity, close the
\* client, and the caller of invalidateIdentity() waits for the others.
Left(c) ==
    LET invalidates == Running(c, "refresh") \/ Running(c, "hello")
        forgets == invalidates \/ Running(c, "invalidate") \/ Running(c, "close")
        identities == [identity EXCEPT ![c] = @ /\ ~forgets]
    IN  /\ stage[c] = "detaching" /\ Leaving(c) = {}
        /\ identity' = identities
        /\ store' = IF Running(c, "close") THEN Cleaned(identities, sources) ELSE store
        /\ IF invalidates THEN Goto(c, "waiting") ELSE Finished(c)
        /\ UNCHANGED <<status, held, resourceVars, hostClosed, boundVars>>

Invalidated(c) ==
    /\ stage[c] = "waiting"
    /\ \A d \in Clients : [type |-> "invalidate", by |-> c] \notin ToSet(jobs[d])
    /\ store' = Cleaned(identity, sources)
    /\ Finished(c)
    /\ UNCHANGED <<status, identity, held, resourceVars, hostClosed, boundVars>>

\* withResources(): publish and request wait for a running hook.
Waits == hook

\* publish() or request() of a tab: the command runs beside the chain.
Sends(c) ==
    /\ status[c] = "open" /\ operation[c] = "none"
    /\ sent < MaxCommands
    /\ sent' = sent + 1

Operate(c) ==
    /\ Sends(c)
    /\ identity[c] /\ ~hostClosed
    /\ operation' = [operation EXCEPT ![c] = IF Waits THEN "waiting" ELSE "running"]
    /\ active' = (active \/ ~Waits)
    /\ UNCHANGED <<clientVars, sources, hook, store, hostClosed, rejections>>

Operated(c) ==
    /\ operation[c] = "running"
    /\ operation' = [operation EXCEPT ![c] = "none"]
    /\ hook' = (hook \/ Idle(sources, operation'))
    /\ UNCHANGED <<clientVars, sources, active, store, hostClosed, boundVars>>

\* The hook ends, well or not: whoever waited for it goes on in the same turn.
HookEnds ==
    LET attaching == {c \in Clients : stage[c] = "hook"}
        waiting == {c \in Clients : operation[c] = "waiting"}
    IN  /\ hook
        /\ hook' = FALSE
        /\ operation' = [c \in Clients |-> IF c \in waiting THEN "running" ELSE operation[c]]
        /\ sources' = sources \cup {Head(jobs[c]).source : c \in attaching}
        /\ held' = [c \in Clients |->
              IF c \in attaching THEN held[c] \cup {Head(jobs[c]).source} ELSE held[c]]
        /\ \E failed \in BOOLEAN : active' = (failed \/ attaching # {} \/ waiting # {})
        /\ stage' = [c \in Clients |-> CASE stage[c] = "hook" -> "opening"
                                         [] stage[c] = "closing" -> "detaching"
                                         [] OTHER -> stage[c]]
        /\ UNCHANGED <<status, identity, jobs, store, hostClosed, boundVars>>

\* close() closes every client behind what its chain still holds.
CloseHost ==
    /\ ~hostClosed
    /\ hostClosed' = TRUE
    /\ jobs' = [c \in Clients |->
          IF status[c] = "closed" THEN jobs[c] ELSE Append(jobs[c], [type |-> "close"])]
    /\ status' = [c \in Clients |-> IF status[c] = "open" THEN "closing" ELSE status[c]]
    /\ UNCHANGED <<identity, stage, held, resourceVars, store, boundVars>>

\* receive(): a command whose turn comes after close() returns at once.
ReturnsAtOnce(c) ==
    /\ hostClosed
    /\ \/ \E type \in {"hello", "refresh", "attach", "detach"} : Turn(c, type)
       \/ Turn(c, "close") /\ ClosesLater(c)
    /\ Finished(c)
    /\ UNCHANGED <<status, identity, held, resourceVars, store, hostClosed, boundVars>>

-----------------------------------------------------------------------------
Chain(c) ==
    \/ Hello(c) \/ Refresh(c) \/ Attach(c) \/ AttachReady(c) \/ AttachFails(c)
    \/ Detach(c) \/ DetachOne(c) \/ Released(c) \/ Left(c) \/ Invalidated(c)
    \/ ReturnsAtOnce(c)

HostNext ==
    \/ \E c \in Clients : \/ \E job \in Commands : Command(c, job)
                          \/ Sweep(c) \/ Chain(c) \/ Operate(c) \/ Operated(c)
    \/ HookEnds \/ CloseHost

HostFairness == WF_hostVars(HookEnds \/ \E c \in Clients : Chain(c) \/ Operated(c))

HostSpec == HostInit /\ [][HostNext]_hostVars /\ HostFairness

-----------------------------------------------------------------------------
(***************************************************************************)
(* A client with an identity and a source that is open always have their   *)
(* credential store: no close, teardown or invalidation of another client  *)
(* disposes of it (cleanupCredentials()).                                  *)
(***************************************************************************)
CredentialsKept == (sources # {} \/ \E c \in Clients : identity[c]) => store > 0

(***************************************************************************)
(* The hook that closes the shared resources never runs while a source is  *)
(* open or an operation is running (closeIdleResources(), withResources(), *)
(* awaitIdleResources()).                                                  *)
(***************************************************************************)
HookRunsAlone == hook => sources = {} /\ \A c \in Clients : operation[c] # "running"

(***************************************************************************)
(* What clients share is there while one of them uses it.                  *)
(***************************************************************************)
ResourcesKept == CredentialsKept /\ HookRunsAlone

(***************************************************************************)
(* Every command comes to its end, also those of the clients that a failed *)
(* refresh of another one invalidates (invalidateIdentity(), closeClient). *)
(***************************************************************************)
CommandsSettle == \A c \in Clients : jobs[c] # <<>> ~> jobs[c] = <<>>
=============================================================================
