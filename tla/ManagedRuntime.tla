--------------------------- MODULE ManagedRuntime ---------------------------
(***************************************************************************)
(* A runtime owned by a React tree (@natsail/react): NatsManagedProvider   *)
(* creates it and closes it after the final unmount, components below read *)
(* its status (RuntimeFeed) and own a processor lease each for the         *)
(* lifetime of a key (useNatsJetStreamProcessor()), and other code uses    *)
(* its subscriptions and requests (CoreDelivery) and runs processors as    *)
(* Effect programs (runJetStreamProcessorEffect() of @natsail/effect).     *)
(*                                                                         *)
(* Lease i belongs to the i-th run of the effect of one                    *)
(* useNatsJetStreamProcessor(), each of the leases `Programs` to one       *)
(* program.  React itself is external: an effect and its cleanup run at    *)
(* once, a microtask before any further event, so a replay by StrictMode   *)
(* is one step.                                                            *)
(***************************************************************************)
EXTENDS CoreDelivery

CONSTANTS Programs,    \* leases of processors run as Effect programs
          MaxEffects,  \* bound on the runs of the processor's effect
          MaxUses      \* bound on the kinds of use that one behaviour mixes

Effects == 1 .. MaxEffects

ASSUME LeaseAssumption ==
    /\ MaxEffects \in Nat /\ MaxUses \in Nat
    /\ IsFiniteSet(Programs) /\ Programs \cap Effects = {}
    /\ Leases = Programs \cup Effects

VARIABLES
    mounted,    \* the provider's effect is in force
    effectRun,  \* effectRun.current of the provider
    cleanups,   \* runs whose cleanup has queued its microtask
    effect,     \* each run of the processor's effect
    previous,   \* previousClose of each run: a lease, or 0
    closing,    \* closingRef: the lease whose close() it holds, or 0
    program     \* each program: in its scope, releasing the lease, or over

providerVars == <<mounted, effectRun, cleanups>>
hookVars     == <<effect, previous, closing>>
programVars  == <<program>>
allVars      == <<vars, providerVars, hookVars, programVars>>

TypeOK ==
    /\ FeedTypeOK /\ CoreTypeOK
    /\ mounted \in BOOLEAN /\ effectRun \in 0 .. 2 /\ cleanups \subseteq 1 .. 2
    /\ effect \in [Effects -> {"none", "waiting", "running", "failed", "cleaned"}]
    /\ previous \in [Effects -> 0 .. MaxEffects]
    /\ closing \in 0 .. MaxEffects
    /\ program \in [Programs -> {"none", "running", "releasing", "over"}]

Init ==
    /\ CoreInit
    /\ mounted = FALSE /\ effectRun = 0 /\ cleanups = {}
    /\ effect = [i \in Effects |-> "none"]
    /\ previous = [i \in Effects |-> 0]
    /\ closing = 0
    /\ program = [l \in Programs |-> "none"]

-----------------------------------------------------------------------------
(***************************************************************************)
(* useNatsJetStreamProcessor(): a run waits for the close of the lease     *)
(* before it, and its cleanup closes the lease it has opened.              *)
(***************************************************************************)
MountEffect(i) ==
    /\ mounted /\ effect[i] = "none" /\ Input
    /\ \A j \in 1 .. i - 1 : effect[j] = "cleaned"
    /\ effect' = [effect EXCEPT ![i] = "waiting"]
    /\ previous' = [previous EXCEPT ![i] = closing]
    /\ UNCHANGED <<closing, providerVars, programVars, coreVars, feedVars>>

NotAwaited(i) == TRUE

Awaited(i) == \A e \in Effects : e = previous[i] => lease[e] = "ended"

StartProcessor(i) ==
    /\ effect[i] = "waiting" /\ Awaited(i)
    /\ \/ Manage(i, effect' = [effect EXCEPT ![i] = "running"],
                    effect' = [effect EXCEPT ![i] = "failed"])
       \/ CreateThrows(effect' = [effect EXCEPT ![i] = "failed"])
    /\ UNCHANGED <<connection, closePhase, sub, stream, request, inputs,
                   previous, closing, providerVars, programVars>>

Cleaned(i) == IF effect[i] = "none" THEN "none" ELSE "cleaned"

CleanUp(i) ==
    /\ effect[i] \in {"waiting", "running", "failed"} /\ Input
    /\ effect' = [effect EXCEPT ![i] = "cleaned"]
    /\ IF effect[i] = "running"
       THEN /\ closing' = i
            /\ lease' = [lease EXCEPT ![i] = IF @ = "open" THEN "closing" ELSE @]
       ELSE UNCHANGED <<closing, lease>>
    /\ UNCHANGED <<previous, providerVars, programVars, feedVars, connection, closePhase,
                   sub, stream, request, used>>

-----------------------------------------------------------------------------
(***************************************************************************)
(* ManagedProviderInstance.                                                *)
(***************************************************************************)
ProviderMounts ==
    /\ effectRun = 0
    /\ mounted' = TRUE /\ effectRun' = 1
    /\ UNCHANGED <<cleanups, vars, hookVars, programVars>>

\* StrictMode cleans the first effect up and runs it again with the resource.
Replays ==
    /\ mounted /\ effectRun = 1 /\ inputs = 0
    /\ cleanups' = {1} /\ effectRun' = 2
    /\ UNCHANGED <<mounted, vars, hookVars, programVars>>

\* The final unmount takes the components below along.
Unmounts ==
    /\ mounted
    /\ mounted' = FALSE /\ cleanups' = cleanups \cup {effectRun}
    /\ LeaveTogether
    /\ effect' = [i \in Effects |-> Cleaned(i)]
    /\ closing' = IF \E i \in Effects : effect[i] = "running"
                  THEN CHOOSE i \in Effects : effect[i] = "running" ELSE closing
    /\ lease' = [l \in Leases |-> IF /\ l \in Effects /\ effect[l] = "running"
                                     /\ lease[l] = "open"
                                  THEN "closing" ELSE lease[l]]
    /\ UNCHANGED <<effectRun, previous, connection, closePhase, sub,
                   stream, request, used, inputs, programVars>>

\* The microtask of a cleanup closes the resource unless the effect ran again.
DownAnyway(run) == TRUE

StillDown(run) == effectRun = run

Disposes(run) ==
    /\ run \in cleanups
    /\ cleanups' = cleanups \ {run}
    /\ IF StillDown(run) /\ closePhase = "open"
       THEN CloseRuntime /\ UNCHANGED inputs
       ELSE UNCHANGED vars
    /\ UNCHANGED <<mounted, effectRun, hookVars, programVars>>

-----------------------------------------------------------------------------
(***************************************************************************)
(* runJetStreamProcessorEffect(): the program acquires the lease in its    *)
(* scope and lasts as long as it.  Leaving the scope, by interruption too, *)
(* aborts the handler in flight and closes the lease.                      *)
(***************************************************************************)
Acquire(l) ==
    /\ effectRun > 0 /\ program[l] = "none" /\ Input
    /\ \/ Manage(l, program' = [program EXCEPT ![l] = "running"],
                    program' = [program EXCEPT ![l] = "over"])
       \/ CreateThrows(program' = [program EXCEPT ![l] = "over"])
    /\ UNCHANGED <<connection, closePhase, sub, stream, request>>

InterruptProgram(l) ==
    /\ program[l] = "running" /\ Input
    /\ program' = [program EXCEPT ![l] = "releasing"]
    /\ lease' = [lease EXCEPT ![l] = IF @ = "open" THEN "closing" ELSE @]
    /\ UNCHANGED <<feedVars, connection, closePhase, sub, stream, request, used>>

ProgramEnds(l) ==
    /\ program[l] \in {"running", "releasing"} /\ lease[l] = "ended"
    /\ program' = [program EXCEPT ![l] = "over"]
    /\ UNCHANGED vars

Program ==
    \E l \in Programs : Acquire(l) \/ InterruptProgram(l) \/ ProgramEnds(l)

-----------------------------------------------------------------------------
Runtime ==
    \/ Connect \/ Established \/ Refused \/ LinkDrops \/ LinkRecovers \/ Reports \/ ClosesForGood
    \/ \E s \in Subs : \/ \E p \in Policies : Subscribe(s, p)
                       \/ Start(s) \/ StartFails(s) \/ Next(s) \/ Decoded(s) \/ Throws(s)
                       \/ Returns(s) \/ LoopEnds(s) \/ Close(s) \/ SignalAborts(s)
                       \/ Route(s) \/ Arrives(s) \/ Drained(s) \/ Denied(s)
                       \/ Offer(s) \/ SourceEnds(s) \/ Take(s) \/ SeesEnd(s) \/ Interrupt(s)
    \/ Request \/ Send \/ Answered \/ AbortRequest
    \/ ShutdownEnds \/ Deadline

Read(r) ==
    /\ \/ Handle(r) /\ UNCHANGED inputs
       \/ mounted /\ Observe(r) /\ Input
       \/ Leave(r) /\ Input
    /\ UNCHANGED coreVars

AnyEnds == \E l \in Leases : LeaseEnds(l) /\ UNCHANGED inputs

Hook == \E i \in Effects : MountEffect(i) \/ StartProcessor(i) \/ CleanUp(i)

Provider == ProviderMounts \/ Replays \/ Unmounts \/ \E n \in cleanups : Disposes(n)

\* What the runtime has been used for so far.
Uses ==
    {u \in {"subscriptions", "requests", "consumers", "events"} :
        CASE u = "subscriptions" -> \E s \in Subs : sub[s].pc # "none"
          [] u = "requests"      -> request.op # "none"
          [] u = "consumers"     -> \/ \E l \in Leases : lease[l] # "none"
                                    \/ \E i \in Effects : effect[i] # "none"
          [] u = "events"        -> \E r \in Readers : feed[r].phase # "none"}

AllNext ==
    /\ \/ effectRun > 0 /\ Runtime /\ UNCHANGED <<providerVars, hookVars, programVars>>
       \/ \E r \in Readers : Read(r) /\ UNCHANGED <<providerVars, hookVars, programVars>>
       \/ AnyEnds /\ UNCHANGED <<providerVars, hookVars, programVars>>
       \/ Program /\ UNCHANGED <<providerVars, hookVars>>
       \/ Hook
       \/ Provider
    /\ Cardinality(Uses') <= MaxUses

Spec == Init /\ [][AllNext]_allVars

-----------------------------------------------------------------------------
(***************************************************************************)
(* What runs by itself: microtasks, the loops of subscriptions, streams    *)
(* and readers, the timer of the shutdown.  Handlers and leases are only   *)
(* trusted to end once they are told to, and the network is not trusted.   *)
(***************************************************************************)
Runs(s) ==
    \/ Start(s) \/ StartFails(s) \/ Next(s) \/ Decoded(s) \/ LoopEnds(s) \/ Offer(s)
    \/ sub[s].cancelled /\ Returns(s)

Consumes(s) == SourceEnds(s) \/ Take(s) \/ SeesEnd(s)

Alone(A) == A /\ UNCHANGED <<providerVars, hookVars, programVars>>

FairSpec ==
    /\ Spec
    /\ \A s \in Subs : WF_allVars(Alone(Runs(s))) /\ WF_allVars(Alone(Consumes(s)))
    /\ \A r \in Readers : WF_allVars(Alone(Handle(r) /\ UNCHANGED <<coreVars, inputs>>))
    /\ \A l \in Leases :
          WF_allVars(Alone(lease[l] = "closing" /\ LeaseEnds(l) /\ UNCHANGED inputs))
    /\ \A l \in Programs : WF_allVars(ProgramEnds(l) /\ UNCHANGED <<providerVars, hookVars>>)
    /\ \A n \in 1 .. 2 : WF_allVars(Disposes(n))
    /\ WF_allVars(Alone(ShutdownEnds \/ Deadline))

-----------------------------------------------------------------------------
(***************************************************************************)
(* The runtime counts the consumers that exist, never more than its limit, *)
(* a component that mounts its processor again and again never holds two   *)
(* leases, and a program out of its scope has let its own go.              *)
(***************************************************************************)
LeasesWithinLimits ==
    /\ used = Cardinality(Live) /\ used <= limit
    /\ Cardinality(Live \cap Effects) <= 1
    /\ \A l \in Programs : program[l] \in {"releasing", "over"} => lease[l] # "open"

(***************************************************************************)
(* A mounted provider's runtime is open, whatever cleanups StrictMode has  *)
(* run before.                                                             *)
(***************************************************************************)
InUseStaysOpen == mounted => closePhase = "open"

(***************************************************************************)
(* After the final unmount everything settles: the shutdown, every         *)
(* subscription, stream, request, consumer, program and reader, and no     *)
(* share of the limits is kept.                                            *)
(***************************************************************************)
AllSettled ==
    /\ closePhase = "settled" /\ Live = {} /\ used = 0
    /\ request.op = "none" \/ request.result # "pending"
    /\ \A s \in Subs : ~Active(sub[s]) /\ (StreamOf(s) => stream[s].seen # "nothing")
    /\ \A r \in Readers : ~Reading(feed[r])
    /\ \A l \in Programs : program[l] \in {"none", "over"}

UnmountSettles == ~mounted /\ effectRun > 0 ~> AllSettled
=============================================================================
