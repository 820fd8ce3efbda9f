--------------------------- MODULE SessionRegistry ---------------------------
(***************************************************************************)
(* DefaultSessionRegistry of @natsail/session: keyed sessions shared by    *)
(* reference-counted handles, with an optional idle grace period.          *)
(*                                                                         *)
(* acquire(), release(), restart() and close() run to their first await    *)
(* without interruption and are atomic; what they leave running is the     *)
(* Progress of each SharedSession and the idle timers.                     *)
(***************************************************************************)
EXTENDS SharedSession

CONSTANTS Keys,       \* session keys
          Contracts,  \* serialized delivery contracts
          Handles,    \* handles that callers obtain from acquire()
          None,       \* the absent session, contract or key
          GraceModes  \* the settings of options.idleCloseMs to consider

ASSUME RegistryAssumption ==
    /\ GraceModes \subseteq BOOLEAN
    /\ IsFiniteSet(Handles)
    /\ None \notin Sessions \cup Keys \cup Contracts

VARIABLES
    idleGrace,        \* options.idleCloseMs is above 0; never changes
    sessions,         \* key -> active session
    cleanupTimers,    \* key -> session whose idle timer is stored
    armed,            \* sessions with a timer that will fire
    identity,         \* key and contract of each constructed session
    references,       \* references counter of each session
    handle,           \* session of each handle
    released,         \* handles whose release() has run
    registryPhase,    \* progress of the registry's closePromise
    awaited           \* sessions whose close() the registry awaits

registryVars == <<idleGrace, sessions, cleanupTimers, armed, identity, references, handle,
                  released, registryPhase, awaited>>

vars == <<sessionVars, registryVars>>

NoIdentity == [key |-> None, contract |-> None]

TypeOK ==
    /\ SessionTypeOK
    /\ idleGrace \in GraceModes
    /\ sessions \in [Keys -> Sessions \cup {None}]
    /\ cleanupTimers \in [Keys -> Sessions \cup {None}]
    /\ armed \in SUBSET Sessions
    /\ identity \in [Sessions -> [key : Keys \cup {None},
                                  contract : Contracts \cup {None}]]
    /\ references \in [Sessions -> Nat]
    /\ handle \in [Handles -> Sessions \cup {None}]
    /\ released \in SUBSET Handles
    /\ registryPhase \in {"open", "closing", "closed"}
    /\ awaited \in SUBSET Sessions

Init ==
    /\ SessionInit
    /\ idleGrace \in GraceModes
    /\ sessions = [k \in Keys |-> None]
    /\ cleanupTimers = [k \in Keys |-> None]
    /\ armed = {}
    /\ identity = [s \in Sessions |-> NoIdentity]
    /\ references = [s \in Sessions |-> 0]
    /\ handle = [h \in Handles |-> None]
    /\ released = {}
    /\ registryPhase = "open"
    /\ awaited = {}

-----------------------------------------------------------------------------
\* acquire() cancels the idle timer of the key.
KeepTimer(k) == UNCHANGED <<armed, cleanupTimers>>
Disarm(k) ==
    /\ armed' = armed \ {cleanupTimers[k]}
    /\ cleanupTimers' = [cleanupTimers EXCEPT ![k] = None]

\* acquire() of a key without a session constructs and stores one.
AcquireNew(h, k, c, s) ==
    /\ sessions[k] = None
    /\ Open(s)
    /\ sessions' = [sessions EXCEPT ![k] = s]
    /\ identity' = [identity EXCEPT ![s] = [key |-> k, contract |-> c]]
    /\ handle' = [handle EXCEPT ![h] = s]
    /\ references' = [references EXCEPT ![s] = @ + 1]
    /\ Disarm(k)

\* acquire() of an active key; another contract throws before any change.
AcquireShared(h, k, c) ==
    LET s == sessions[k] IN
    /\ s # None
    /\ identity[s].contract = c
    /\ handle' = [handle EXCEPT ![h] = s]
    /\ references' = [references EXCEPT ![s] = @ + 1]
    /\ Disarm(k)
    /\ UNCHANGED <<sessions, identity, sessionVars>>

Acquire(h, k, c) ==
    /\ registryPhase = "open"
    /\ handle[h] = None
    /\ \/ AcquireShared(h, k, c)
       \/ \E s \in Sessions : AcquireNew(h, k, c, s)
    /\ UNCHANGED <<idleGrace, released, registryPhase, awaited>>

\* releaseIdleSession(): close at once, or after the grace period.
ForgetIdle(k, s) ==
    /\ sessions' = [sessions EXCEPT ![k] = None]
    /\ UNCHANGED <<cleanupTimers, armed, sessionVars>>

ReleaseIdle(k, s) ==
    \/ /\ ~idleGrace
       /\ sessions' = [sessions EXCEPT ![k] = None]
       /\ CloseAll({s})
       /\ UNCHANGED <<cleanupTimers, armed>>
    \/ /\ idleGrace
       /\ cleanupTimers' = [cleanupTimers EXCEPT ![k] = s]
       /\ armed' = armed \cup {s}
       /\ UNCHANGED <<sessions, sessionVars>>

FirstCall(h) == h \notin released

AlreadyIdle(s)   == references[s] = 0
LastReference(s) == references[s] = 1

\* handle.release(): only the first call of a handle counts.
Release(h) ==
    LET s == handle[h] IN
    /\ s # None
    /\ FirstCall(h)
    /\ released' = released \cup {h}
    /\ references' = [references EXCEPT ![s] = @ - 1]
    /\ \/ LastReference(s) /\ ReleaseIdle(identity[s].key, s)
       \/ ~LastReference(s) /\ UNCHANGED <<sessions, cleanupTimers, armed, sessionVars>>
    /\ UNCHANGED <<idleGrace, identity, handle, registryPhase, awaited>>

\* The idle timer; a key that meanwhile names another session is left alone.
IdleTimeout(s) ==
    LET k == identity[s].key IN
    /\ s \in armed
    /\ armed' = armed \ {s}
    /\ cleanupTimers' = [cleanupTimers EXCEPT ![k] = None]
    /\ \/ /\ sessions[k] = s
          /\ sessions' = [sessions EXCEPT ![k] = None]
          /\ CloseAll({s})
       \/ /\ sessions[k] # s
          /\ UNCHANGED <<sessions, sessionVars>>
    /\ UNCHANGED <<idleGrace, identity, references, handle, released, registryPhase,
                   awaited>>

\* handle.restart() works on a released handle too; registry.restart(key)
\* needs an open registry and reaches the same session.
RestartHandle(h) ==
    /\ handle[h] # None
    /\ Restart(handle[h])
    /\ UNCHANGED registryVars

RestartKey(k) ==
    /\ registryPhase = "open"
    /\ sessions[k] # None
    /\ Restart(sessions[k])
    /\ UNCHANGED registryVars

\* close(): timers are cancelled, the map is emptied, each session closes.
CloseRegistry ==
    LET active == {sessions[k] : k \in Keys} \ {None} IN
    /\ registryPhase = "open"
    /\ registryPhase' = "closing"
    /\ armed' = armed \ {cleanupTimers[k] : k \in Keys}
    /\ cleanupTimers' = [k \in Keys |-> None]
    /\ sessions' = [k \in Keys |-> None]
    /\ awaited' = active
    /\ CloseAll(active)
    /\ UNCHANGED <<idleGrace, identity, references, handle, released>>

\* closeRegistry() after Promise.allSettled.
RegistryClosed ==
    /\ registryPhase = "closing"
    /\ \A s \in awaited : closing[s] = "done"
    /\ registryPhase' = "closed"
    /\ UNCHANGED <<idleGrace, sessions, cleanupTimers, armed, identity, references,
                   handle, released, awaited, sessionVars>>

SessionProgress(s) == Progress(s) /\ UNCHANGED registryVars

-----------------------------------------------------------------------------
Next ==
    \/ \E h \in Handles : \/ \E k \in Keys, c \in Contracts : Acquire(h, k, c)
                          \/ Release(h)
                          \/ RestartHandle(h)
    \/ \E k \in Keys : RestartKey(k)
    \/ \E s \in Sessions : IdleTimeout(s) \/ SessionProgress(s)
    \/ CloseRegistry
    \/ RegistryClosed

Spec == Init /\ [][Next]_vars

\* Besides the fairness of the sessions, timers fire and settled promises
\* resume closeRegistry().
FairSpec ==
    /\ Spec
    /\ SessionFairness
    /\ \A s \in Sessions : WF_vars(IdleTimeout(s))
    /\ WF_vars(RegistryClosed)

-----------------------------------------------------------------------------
Holders(s) == {h \in Handles : handle[h] = s /\ h \notin released}

\* A session that some handle still holds is the one its key names and is not
\* being closed, until the registry itself closes: no idle timer, no release of
\* another handle and no restart closes a source under its user.
HeldSessionsStayOpen ==
    registryPhase = "open" =>
        \A s \in Sessions :
            Holders(s) # {} => /\ ~closeRequested[s]
                               /\ sessions[identity[s].key] = s

\* Every session that is not being closed is reachable through the map, so
\* there is at most one such session per key, and registry.close() finds it.
NoOrphanSession ==
    \A s \in Sessions :
        phase[s] # "none" /\ ~closeRequested[s] => sessions[identity[s].key] = s

\* A session without holders is closing or has a timer that will close it;
\* a pending timer of a session in the map means that nobody holds it.
IdleSessionsWillClose ==
    \A s \in Sessions : phase[s] # "none" =>
        /\ Holders(s) = {} => closeRequested[s] \/ s \in armed
        /\ s \in armed => Holders(s) = {}
        /\ s \in armed /\ registryPhase = "open" => cleanupTimers[identity[s].key] = s

\* Every session is eventually closed after its last holder has left it for
\* good, and every lease it opened has ended.
IdleSessionsClose ==
    \A s \in Sessions :
        [](phase[s] # "none" /\ Holders(s) = {}) ~>
            (closing[s] = "done" /\ \A g \in Generations : ~LeaseOpen(s, g))
=============================================================================
