---------------------------- MODULE SharedSession ----------------------------
(***************************************************************************)
(* The SharedSession class of @natsail/session: one logical source that is *)
(* opened, restarted and closed while the promises of its leases settle in *)
(* the background.                                                         *)
(*                                                                         *)
(* Every await of the code is a place where other code runs, so each       *)
(* continuation is an action of its own.  The order in which settled       *)
(* promises run their continuations is left open.  A lease is external: it *)
(* is any SubscriptionLease, and all that is assumed of it is that close() *)
(* settles only when the lease has ended and that `ready` is rejected only *)
(* by a lease that has ended.                                              *)
(*                                                                         *)
(* A lease is named by the generation of the start() that opened it.  The  *)
(* environment (handles and the registry) may call restart() and close()   *)
(* at any time; SessionRegistry says when it does.                         *)
(***************************************************************************)
EXTENDS Integers, FiniteSets

CONSTANTS Sessions,       \* identities of the SharedSession objects
          MaxGeneration,  \* bound on the generation counter of a session
          MaxValues       \* bound on the values that one lease delivers

ASSUME SessionAssumption ==
    /\ MaxGeneration \in Nat
    /\ MaxGeneration >= 2
    /\ MaxValues \in Nat

VARIABLES
    phase,           \* snapshot.phase; "none" before the constructor
    generation,      \* this.generation
    closeRequested,  \* this.closeRequested
    current,         \* generation of this.lease, 0 when it is undefined
    lease,           \* state of the lease opened by each generation
    starting,        \* generations whose start() awaits lease.ready
    watching,        \* generations whose lease.closed callback has not run
    restarting,      \* progress of restartPromise
    closing,         \* progress of closePromise
    delivered,       \* number of values that each lease has handed over
    value            \* snapshot.value: who delivered it, and its position

sessionVars == <<phase, generation, closeRequested, current, lease, starting,
                 watching, restarting, closing, delivered, value>>

Generations == 1 .. MaxGeneration
Terminal    == {"closed", "error"}
Ended       == {"closed", "failed", "rejected"}
NoValue     == [by |-> 0, n |-> 0]

LeaseOpen(s, g)  == lease[s][g] \in {"opening", "ready"}
LeaseEnded(s, g) == lease[s][g] \in Ended

\* this.lease?.close() has settled.  Its rejection counts too: restart() and
\* close() go on when the lease has failed.
CurrentEnded(s) == \A g \in Generations : g = current[s] => LeaseEnded(s, g)

SessionTypeOK ==
    /\ phase \in [Sessions -> {"none", "connecting", "live"} \cup Terminal]
    /\ generation \in [Sessions -> 0 .. MaxGeneration]
    /\ closeRequested \in [Sessions -> BOOLEAN]
    /\ current \in [Sessions -> 0 .. MaxGeneration]
    /\ lease \in [Sessions -> [Generations -> {"none", "opening", "ready"} \cup Ended]]
    /\ starting \in [Sessions -> SUBSET Generations]
    /\ watching \in [Sessions -> SUBSET Generations]
    /\ restarting \in [Sessions -> {"no", "draining", "starting", "settled"}]
    /\ closing \in [Sessions -> {"no", "draining", "done"}]
    /\ delivered \in [Sessions -> [Generations -> 0 .. MaxValues]]
    /\ value \in [Sessions -> [by : 0 .. MaxGeneration, n : 0 .. MaxValues]]

SessionInit ==
    /\ phase = [s \in Sessions |-> "none"]
    /\ generation = [s \in Sessions |-> 0]
    /\ closeRequested = [s \in Sessions |-> FALSE]
    /\ current = [s \in Sessions |-> 0]
    /\ lease = [s \in Sessions |-> [g \in Generations |-> "none"]]
    /\ starting = [s \in Sessions |-> {}]
    /\ watching = [s \in Sessions |-> {}]
    /\ restarting = [s \in Sessions |-> "no"]
    /\ closing = [s \in Sessions |-> "no"]
    /\ delivered = [s \in Sessions |-> [g \in Generations |-> 0]]
    /\ value = [s \in Sessions |-> NoValue]

-----------------------------------------------------------------------------
(***************************************************************************)
(* finish(): a lease that ended ends its session, unless the session has   *)
(* moved on to another generation, is being closed, or is terminal.        *)
(***************************************************************************)
IgnoredUnlessTerminal(s, g) == g # generation[s] \/ closeRequested[s]
Ignored(s, g) ==
    g # generation[s] \/ closeRequested[s] \/ phase[s] \in Terminal

Finish(s, g, outcome) ==
    phase' = IF Ignored(s, g) THEN phase ELSE [phase EXCEPT ![s] = outcome]

(***************************************************************************)
(* The synchronous part of start() under generation g: the source returns  *)
(* a lease, or throws and leaves the previous lease in this.lease.         *)
(***************************************************************************)
SourceOpens(s, g) ==
    /\ lease' = [lease EXCEPT ![s][g] = "opening"]
    /\ current' = [current EXCEPT ![s] = g]
    /\ starting' = [starting EXCEPT ![s] = @ \cup {g}]
    /\ watching' = [watching EXCEPT ![s] = @ \cup {g}]

SourceThrows ==
    UNCHANGED <<lease, current, starting, watching>>

\* The constructor: retained by the caller, start() runs at once.
Open(s) ==
    /\ phase[s] = "none"
    /\ generation' = [generation EXCEPT ![s] = 1]
    /\ \/ SourceOpens(s, 1) /\ phase' = [phase EXCEPT ![s] = "connecting"]
       \/ SourceThrows      /\ phase' = [phase EXCEPT ![s] = "error"]
    /\ UNCHANGED <<closeRequested, restarting, closing, delivered, value>>

(***************************************************************************)
(* restart(): concurrent callers share restartPromise.  The previous lease *)
(* is invalidated and closed before the source is called again; without a  *)
(* previous lease the source is called in the same turn.  The guard keeps  *)
(* room for the generations of start() and of close() under the bound.     *)
(***************************************************************************)
Restart(s) ==
    /\ phase[s] # "none"
    /\ ~closeRequested[s]
    /\ restarting[s] = "no"
    /\ generation[s] + 3 <= MaxGeneration
    /\ \/ /\ current[s] # 0
          /\ generation' = [generation EXCEPT ![s] = @ + 1]
          /\ phase' = [phase EXCEPT ![s] = "connecting"]
          /\ restarting' = [restarting EXCEPT ![s] = "draining"]
          /\ UNCHANGED <<lease, current, starting, watching>>
       \/ /\ current[s] = 0
          /\ generation' = [generation EXCEPT ![s] = @ + 2]
          /\ \/ /\ SourceOpens(s, generation[s] + 2)
                /\ phase' = [phase EXCEPT ![s] = "connecting"]
                /\ restarting' = [restarting EXCEPT ![s] = "starting"]
             \/ /\ SourceThrows
                /\ phase' = [phase EXCEPT ![s] = "error"]
                /\ restarting' = [restarting EXCEPT ![s] = "settled"]
    /\ UNCHANGED <<closeRequested, closing, delivered, value>>

\* restartSession() after previous.close(): a close() that came in the
\* meantime wins, otherwise the source is called again.
RestartWins(s) == FALSE
CloseWins(s)   == closeRequested[s]

RestartDrained(s) ==
    /\ restarting[s] = "draining"
    /\ CurrentEnded(s)
    /\ \/ /\ CloseWins(s)
          /\ restarting' = [restarting EXCEPT ![s] = "settled"]
          /\ UNCHANGED <<phase, generation, lease, current, starting, watching>>
       \/ /\ ~CloseWins(s)
          /\ generation' = [generation EXCEPT ![s] = @ + 1]
          /\ \/ /\ SourceOpens(s, generation[s] + 1)
                /\ restarting' = [restarting EXCEPT ![s] = "starting"]
                /\ UNCHANGED phase
             \/ /\ SourceThrows
                /\ restarting' = [restarting EXCEPT ![s] = "settled"]
                /\ phase' = [phase EXCEPT ![s] = "error"]
    /\ UNCHANGED <<closeRequested, closing, delivered, value>>

\* The finally() of restart() forgets the settled promise.
RestartSettled(s) ==
    /\ restarting[s] = "settled"
    /\ restarting' = [restarting EXCEPT ![s] = "no"]
    /\ UNCHANGED <<phase, generation, closeRequested, current, lease, starting,
                   watching, closing, delivered, value>>

\* start() after `await lease.ready`, resolved or rejected.
ReadySettled(s, g) ==
    /\ g \in starting[s]
    /\ lease[s][g] # "opening"
    /\ starting' = [starting EXCEPT ![s] = @ \ {g}]
    /\ IF lease[s][g] = "rejected" THEN Finish(s, g, "error")
                                   ELSE Finish(s, g, "live")
    /\ restarting' = IF restarting[s] = "starting" /\ g = current[s]
                     THEN [restarting EXCEPT ![s] = "settled"]
                     ELSE restarting
    /\ UNCHANGED <<generation, closeRequested, current, lease, watching,
                   closing, delivered, value>>

\* The callbacks of lease.closed.
LeaseSettled(s, g) ==
    /\ g \in watching[s]
    /\ LeaseEnded(s, g)
    /\ watching' = [watching EXCEPT ![s] = @ \ {g}]
    /\ Finish(s, g, IF lease[s][g] = "closed" THEN "closed" ELSE "error")
    /\ UNCHANGED <<generation, closeRequested, current, lease, starting,
                   restarting, closing, delivered, value>>

\* close() on each session of a set; a second call shares closePromise.
CloseAll(S) ==
    /\ closeRequested' = [s \in Sessions |-> closeRequested[s] \/ s \in S]
    /\ closing' = [s \in Sessions |->
          IF s \in S /\ closing[s] = "no" THEN "draining" ELSE closing[s]]
    /\ UNCHANGED <<phase, generation, current, lease, starting, watching,
                   restarting, delivered, value>>

\* The finally block of close(), once this.lease.close() has settled.
CloseDrained(s) ==
    /\ closing[s] = "draining"
    /\ CurrentEnded(s)
    /\ closing' = [closing EXCEPT ![s] = "done"]
    /\ generation' = [generation EXCEPT ![s] = @ + 1]
    /\ phase' = [phase EXCEPT ![s] = "closed"]
    /\ UNCHANGED <<closeRequested, current, lease, starting, watching,
                   restarting, delivered, value>>

\* accept(): values of another generation, or after the end, are dropped.
AcceptsAnyGeneration(s, g) == phase[s] \notin Terminal
AcceptsUntilClose(s, g) ==
    g = generation[s] /\ phase[s] \notin Terminal /\ ~closeRequested[s]
Accepts(s, g) == g = generation[s] /\ phase[s] \notin Terminal

Deliver(s, g) ==
    /\ LeaseOpen(s, g)
    /\ delivered[s][g] < MaxValues
    /\ delivered' = [delivered EXCEPT ![s][g] = @ + 1]
    /\ value' = IF Accepts(s, g)
                THEN [value EXCEPT ![s] = [by |-> g, n |-> delivered[s][g] + 1]]
                ELSE value
    /\ UNCHANGED <<phase, generation, closeRequested, current, lease, starting,
                   watching, restarting, closing>>

(***************************************************************************)
(* The leases.  A lease becomes ready, ends by itself, or ends because its *)
(* close() was called; one that fails before it is ready rejects `ready`.  *)
(***************************************************************************)
MoveLease(s, g, state) ==
    /\ lease' = [lease EXCEPT ![s][g] = state]
    /\ UNCHANGED <<phase, generation, closeRequested, current, starting,
                   watching, restarting, closing, delivered, value>>

LeaseReady(s, g) == lease[s][g] = "opening" /\ MoveLease(s, g, "ready")

LeaseEnds(s, g) ==
    \/ LeaseOpen(s, g) /\ MoveLease(s, g, "closed")
    \/ lease[s][g] = "opening" /\ MoveLease(s, g, "rejected")
    \/ lease[s][g] = "ready" /\ MoveLease(s, g, "failed")

\* close() was called on the lease and has not settled.
LeaseDraining(s, g) ==
    /\ g = current[s]
    /\ restarting[s] = "draining" \/ closing[s] = "draining"

-----------------------------------------------------------------------------
\* What a session does on its own, once opened.
Progress(s) ==
    \/ RestartDrained(s)
    \/ RestartSettled(s)
    \/ CloseDrained(s)
    \/ \E g \in Generations : \/ ReadySettled(s, g)
                              \/ LeaseSettled(s, g)
                              \/ Deliver(s, g)
                              \/ LeaseReady(s, g)
                              \/ LeaseEnds(s, g)

SessionNext ==
    \/ \E s \in Sessions : Open(s) \/ Restart(s) \/ Progress(s)
    \/ \E S \in SUBSET {s \in Sessions : phase[s] # "none"} : CloseAll(S)

(***************************************************************************)
(* Continuations of settled promises always run.  Of the leases it is      *)
(* assumed that one being opened becomes ready or ends, and that one being *)
(* closed ends.                                                            *)
(***************************************************************************)
SessionFairness ==
    \A s \in Sessions :
        /\ WF_sessionVars(RestartDrained(s))
        /\ WF_sessionVars(RestartSettled(s))
        /\ WF_sessionVars(CloseDrained(s))
        /\ \A g \in Generations :
              /\ WF_sessionVars(ReadySettled(s, g))
              /\ WF_sessionVars(LeaseSettled(s, g))
              /\ WF_sessionVars(LeaseReady(s, g))
              /\ WF_sessionVars(LeaseDraining(s, g) /\ LeaseEnds(s, g))

SessionSpec == SessionInit /\ [][SessionNext]_sessionVars

FairSessionSpec == SessionSpec /\ SessionFairness

-----------------------------------------------------------------------------
\* restart() waits for the previous lease, so a session never has two open
\* leases, however restarts, closes and settling promises interleave.
OneOpenLease ==
    \A s \in Sessions : \A g, h \in Generations :
        LeaseOpen(s, g) /\ LeaseOpen(s, h) => g = h

\* A session whose snapshot is terminal holds no open lease: neither a closed
\* session (a restart that was under way included) nor one reported as ended.
TerminalHoldsNoLease ==
    \A s \in Sessions :
        phase[s] \in Terminal => \A g \in Generations : ~LeaseOpen(s, g)

\* No end of a lease goes unnoticed: a session that says it is live or
\* connecting, and that is neither draining a lease nor being closed, has a lease
\* that is open, or whose callback is still to run and will not be ignored.
NoZombie ==
    \A s \in Sessions : LET g == current[s] IN
        /\ phase[s] \in {"connecting", "live"}
        /\ restarting[s] # "draining" /\ closing[s] = "no"
        => g # 0 /\ (LeaseOpen(s, g) \/ (g \in watching[s] /\ ~Ignored(s, g)))

\* Graceful close keeps accepting the draining lease: unless a restart had
\* superseded that lease, the final snapshot holds its last value.
FinalValueKept ==
    \A s \in Sessions :
        LET g == current[s] IN
        /\ closing[s] = "done" /\ g # 0 /\ generation[s] = g + 1
        /\ delivered[s][g] > 0
        => value[s] = [by |-> g, n |-> delivered[s][g]]

\* accept() drops superseded generations: while a restart drains the previous
\* lease the snapshot keeps its value, and otherwise it moves forward through
\* the leases and, within one lease, through its values in order.
ValuesMoveForward ==
    [][\A s \in Sessions :
          value'[s] # value[s] =>
             /\ restarting[s] # "draining"
             /\ \/ value'[s].by > value[s].by
                \/ value'[s].by = value[s].by /\ value'[s].n = value[s].n + 1
      ]_sessionVars

\* However restarts, closes, failing sources and late promises interleave, a
\* session occupies one source at a time and none after close() has settled.
Source == INSTANCE ExclusiveSource WITH
    held    <- [s \in Sessions |-> {g \in Generations : LeaseOpen(s, g)}],
    opened  <- [s \in Sessions |-> {g \in Generations : lease[s][g] # "none"}],
    retired <- {s \in Sessions : closing[s] = "done"}

HoldsSourceExclusively == Source!Spec
=============================================================================
