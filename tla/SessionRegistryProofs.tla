------------------------ MODULE SessionRegistryProofs ------------------------
(***************************************************************************)
(* Proofs about SharedSession, for any set of sessions and any bounds (the *)
(* inductive invariant, the safety invariants that follow from it and the  *)
(* refinement of ExclusiveSource), then about SessionRegistry, for any     *)
(* keys, contracts and sessions and any finite set of handles (it only     *)
(* runs SharedSession's steps, so what is proved of sessions holds under   *)
(* it, and its reference counts, map and timers agree with who holds       *)
(* what), and at the end about SessionEvents: what the registry reports    *)
(* adds up to what there is.                                               *)
(***************************************************************************)
EXTENDS SessionEvents, FiniteSetTheorems, SequenceTheorems, WellFoundedInduction, TLAPS

-----------------------------------------------------------------------------
(***************************************************************************)
(* The inductive invariant, one session at a time.                         *)
(***************************************************************************)

\* An object that has not been constructed is in its initial state.
Unopened(s) ==
    phase[s] = "none" => /\ generation[s] = 0
                         /\ restarting[s] = "no"
                         /\ closing[s] = "no"

\* The generations that a draining restart and close() have yet to take fit
\* under the bound.
Room(s) ==
    /\ generation[s] <= MaxGeneration
    /\ closing[s] # "done" => generation[s] + 1 <= MaxGeneration
    /\ restarting[s] = "draining" => generation[s] + 1 <= MaxGeneration
    /\ restarting[s] = "draining" /\ closing[s] # "done"
         => generation[s] + 2 <= MaxGeneration

\* this.lease is the latest lease, and no lease is ahead of the counter.
Numbered(s) ==
    /\ current[s] <= generation[s]
    /\ \A g \in Generations : lease[s][g] # "none" => g <= current[s]
    /\ \A g \in starting[s] \cup watching[s] : lease[s][g] # "none"

\* Only the lease in this.lease can be open.
OnlyCurrentOpen(s) ==
    \A g \in Generations : LeaseOpen(s, g) => g = current[s]

\* closeRequested and closePromise are set in the same turn.
CloseFlags(s) == closeRequested[s] <=> closing[s] # "no"

\* A draining restart has superseded every lease, and nothing but a close can
\* end its "connecting".
Superseded(s) ==
    restarting[s] = "draining" =>
        /\ current[s] < generation[s]
        /\ ~closeRequested[s] => phase[s] = "connecting"

\* A terminal snapshot, or a settled close(), leaves no lease open.
ShutDown(s) ==
    phase[s] \in Terminal \/ closing[s] = "done" =>
        \A g \in Generations : ~LeaseOpen(s, g)

Consistent(s) ==
    /\ Unopened(s) /\ Room(s) /\ Numbered(s) /\ OnlyCurrentOpen(s)
    /\ CloseFlags(s) /\ Superseded(s) /\ ShutDown(s)

SessionIInv ==
    /\ SessionTypeOK
    /\ \A s \in Sessions : Consistent(s)

-----------------------------------------------------------------------------
\* A step that leaves the state of session t alone.
Untouched(t) ==
    /\ phase'[t] = phase[t] /\ generation'[t] = generation[t]
    /\ closeRequested'[t] = closeRequested[t] /\ current'[t] = current[t]
    /\ lease'[t] = lease[t] /\ starting'[t] = starting[t]
    /\ watching'[t] = watching[t] /\ restarting'[t] = restarting[t]
    /\ closing'[t] = closing[t]

\* Sessions do not disturb one another.
LEMMA Frame ==
    ASSUME NEW t \in Sessions, Consistent(t), Untouched(t)
    PROVE  Consistent(t)'
BY DEF Untouched, Consistent, Unopened, Room, Numbered, OnlyCurrentOpen, CloseFlags,
       Superseded, ShutDown, LeaseOpen

\* The bound on generations as a number.
LEMMA BoundIsNatural == MaxGeneration \in Nat /\ MaxGeneration >= 2
BY SessionAssumption

\* Before its construction a session has nothing that could disagree.
LEMMA InitConsistent == SessionInit => SessionIInv
<1> SUFFICES ASSUME SessionInit PROVE SessionIInv
  OBVIOUS
<1>1. SessionTypeOK
  BY SessionAssumption DEF SessionInit, SessionTypeOK, NoValue
<1>2. ASSUME NEW s \in Sessions PROVE Consistent(s)
  BY SessionAssumption DEF SessionInit, Consistent, Unopened, Room, Numbered,
     OnlyCurrentOpen, CloseFlags, Superseded, ShutDown, LeaseOpen, Terminal
<1> QED
  BY <1>1, <1>2 DEF SessionIInv

\* What a call of the source does to the variables of the leases.
LEMMA SourceCalled ==
    ASSUME SessionTypeOK, NEW s \in Sessions, NEW g \in Generations, SourceOpens(s, g)
    PROVE  /\ lease' \in [Sessions -> [Generations -> {"none", "opening", "ready"} \cup Ended]]
           /\ current' \in [Sessions -> 0 .. MaxGeneration]
           /\ starting' \in [Sessions -> SUBSET Generations]
           /\ watching' \in [Sessions -> SUBSET Generations]
           /\ \A h \in Generations :
                 lease'[s][h] = IF h = g THEN "opening" ELSE lease[s][h]
           /\ current'[s] = g
           /\ starting'[s] = starting[s] \cup {g}
           /\ watching'[s] = watching[s] \cup {g}
<1>1. lease' \in [Sessions -> [Generations -> {"none", "opening", "ready"} \cup Ended]]
  BY DEF SourceOpens, SessionTypeOK
<1>2. current' \in [Sessions -> 0 .. MaxGeneration]
  BY BoundIsNatural DEF SourceOpens, SessionTypeOK, Generations
<1>3. starting' \in [Sessions -> SUBSET Generations]
  BY DEF SourceOpens, SessionTypeOK
<1>4. watching' \in [Sessions -> SUBSET Generations]
  BY DEF SourceOpens, SessionTypeOK
<1>5. \A h \in Generations : lease'[s][h] = IF h = g THEN "opening" ELSE lease[s][h]
  BY DEF SourceOpens, SessionTypeOK
<1>6. /\ current'[s] = g
      /\ starting'[s] = starting[s] \cup {g}
      /\ watching'[s] = watching[s] \cup {g}
  BY DEF SourceOpens, SessionTypeOK
<1> QED
  BY <1>1, <1>2, <1>3, <1>4, <1>5, <1>6

\* The constructor.
LEMMA OpenConsistent ==
    ASSUME SessionIInv, NEW s \in Sessions, Open(s)
    PROVE  SessionIInv'
<1>1. SessionTypeOK'
  <2>1. 1 \in Generations /\ 1 \in 0 .. MaxGeneration
    BY SessionAssumption DEF Generations
  <2>2. CASE SourceOpens(s, 1) /\ phase' = [phase EXCEPT ![s] = "connecting"]
    BY <2>1, <2>2 DEF SessionIInv, SessionTypeOK, Open, SourceOpens
  <2>3. CASE SourceThrows /\ phase' = [phase EXCEPT ![s] = "error"]
    BY <2>1, <2>3 DEF SessionIInv, SessionTypeOK, Open, SourceThrows, Terminal
  <2> QED
    BY <2>2, <2>3 DEF Open
<1>2. ASSUME NEW t \in Sessions, t # s PROVE Consistent(t)'
  <2>1. Untouched(t)
    BY <1>2 DEF SessionIInv, SessionTypeOK, Open, SourceOpens, SourceThrows, Untouched
  <2> QED
    BY <2>1, Frame DEF SessionIInv
<1>3. Consistent(s)'
  <2>1. /\ generation'[s] = 1 /\ closing'[s] = "no" /\ restarting'[s] = "no"
        /\ closeRequested'[s] = FALSE /\ phase'[s] # "none"
        /\ \A g \in Generations : lease[s][g] = "none"
        /\ current[s] = 0
    BY DEF SessionIInv, SessionTypeOK, Consistent, Unopened, Numbered, CloseFlags, Open, Generations
  <2> QED
    BY SMTT(30), <2>1, SessionAssumption DEF SessionIInv, SessionTypeOK, Open, SourceOpens, SourceThrows, Consistent, Unopened, Room, Numbered,
     OnlyCurrentOpen, CloseFlags, Superseded, ShutDown, LeaseOpen, Terminal, Generations
<1> QED
  BY <1>1, <1>2, <1>3 DEF SessionIInv

\* restart(), with and without a previous lease.
LEMMA RestartConsistent ==
    ASSUME SessionIInv, NEW s \in Sessions, Restart(s)
    PROVE  SessionIInv'
<1>1. /\ generation[s] \in Nat
      /\ generation[s] + 2 \in Generations
      /\ generation[s] + 1 \in 0 .. MaxGeneration
      /\ generation[s] + 2 \in 0 .. MaxGeneration
  <2>1. generation[s] \in 0 .. MaxGeneration /\ generation[s] + 3 <= MaxGeneration
    BY DEF SessionIInv, SessionTypeOK, Restart
  <2> QED
    BY <2>1, BoundIsNatural DEF Generations
<1>2. SessionTypeOK /\ Consistent(s)
  BY DEF SessionIInv
<1>3. ~closeRequested[s] /\ closing[s] = "no"
  BY <1>2 DEF SessionTypeOK, Consistent, CloseFlags, Restart
<1>4. SessionTypeOK'
  <2>1. phase' \in [Sessions -> {"none", "connecting", "live"} \cup Terminal]
    BY <1>2 DEF Restart, SessionTypeOK, Terminal
  <2>2. generation' \in [Sessions -> 0 .. MaxGeneration]
    <3>1. \E n \in 0 .. MaxGeneration : generation' = [generation EXCEPT ![s] = n]
      BY <1>1 DEF Restart
    <3> QED
      BY <1>2, <3>1 DEF SessionTypeOK
  <2>3. restarting' \in [Sessions -> {"no", "draining", "starting", "settled"}]
    BY <1>2 DEF Restart, SessionTypeOK
  <2>4. CASE SourceOpens(s, generation[s] + 2)
    BY <1>1, <1>2, <2>1, <2>2, <2>3, <2>4, SourceCalled DEF Restart, SessionTypeOK
  <2>5. CASE UNCHANGED <<lease, current, starting, watching>>
    BY <1>2, <2>1, <2>2, <2>3, <2>5 DEF Restart, SessionTypeOK
  <2> QED
    BY <2>4, <2>5 DEF Restart, SourceThrows
<1>5. ASSUME NEW t \in Sessions, t # s PROVE Consistent(t)'
  <2>1. Untouched(t)
    BY <1>2, <1>5 DEF SessionTypeOK, Restart, SourceOpens, SourceThrows, Untouched
  <2> QED
    BY <2>1, Frame DEF SessionIInv
<1>6. Consistent(s)'
  <2> USE DEF Consistent, Unopened, Room, Numbered, OnlyCurrentOpen, CloseFlags, Superseded,
              ShutDown, LeaseOpen, Terminal, SessionTypeOK, Restart
  <2>1. CASE current[s] # 0
    BY <1>1, <1>2, <1>3, <2>1
  <2>2. CASE current[s] = 0
    <3>1. \A g \in Generations : lease[s][g] = "none"
      BY <1>2, <2>2 DEF Generations
    <3>2. CASE /\ SourceOpens(s, generation[s] + 2)
               /\ phase' = [phase EXCEPT ![s] = "connecting"]
               /\ restarting' = [restarting EXCEPT ![s] = "starting"]
      <4>1. /\ phase'[s] \notin Terminal \cup {"none"} /\ closing'[s] = "no"
            /\ generation'[s] = generation[s] + 2
            /\ generation[s] + 3 <= MaxGeneration
            /\ closeRequested' = closeRequested /\ restarting'[s] # "draining"
        BY <1>1, <1>2, <1>3, <2>2, <3>2
      <4>2. /\ current'[s] = generation[s] + 2
            /\ \A h \in Generations : lease'[s][h] # "none" => h = current'[s]
            /\ \A h \in starting'[s] \cup watching'[s] : lease'[s][h] # "none"
        BY <1>1, <1>2, <2>2, <3>1, <3>2, SourceCalled
      <4> QED
        BY <1>1, <1>2, <1>3, <4>1, <4>2, BoundIsNatural
    <3>3. CASE SourceThrows
      BY <1>1, <1>2, <1>3, <2>2, <3>1, <3>3 DEF SourceThrows
    <3> QED
      BY <2>2, <3>2, <3>3
  <2> QED
    BY <2>1, <2>2
<1> QED
  BY <1>4, <1>5, <1>6 DEF SessionIInv

\* restartSession() after the previous lease has been drained.
LEMMA RestartDrainedConsistent ==
    ASSUME SessionIInv, NEW s \in Sessions, RestartDrained(s)
    PROVE  SessionIInv'
<1>1. SessionTypeOK /\ Consistent(s) /\ generation[s] \in Nat
  BY DEF SessionIInv, SessionTypeOK
<1>2. generation[s] + 1 \in Generations /\ generation[s] + 1 \in 0 .. MaxGeneration
  BY <1>1, BoundIsNatural DEF RestartDrained, Consistent, Room, Generations
<1>3. \A g \in Generations : ~LeaseOpen(s, g)
  BY <1>1 DEF RestartDrained, CurrentEnded, LeaseEnded, LeaseOpen, Ended, Consistent,
     OnlyCurrentOpen
<1>4. ASSUME NEW t \in Sessions, t # s PROVE Consistent(t)'
  <2>1. Untouched(t)
    BY <1>1, <1>4 DEF SessionTypeOK, RestartDrained, SourceOpens, SourceThrows, Untouched
  <2> QED
    BY <2>1, Frame DEF SessionIInv
<1>5. CASE CloseWins(s)
  <2>1. SessionTypeOK'
    BY <1>1, <1>5 DEF SessionTypeOK, RestartDrained
  <2>2. Consistent(s)'
    BY <1>1, <1>3, <1>5 DEF SessionTypeOK, RestartDrained, Consistent, Unopened, Room,
       Numbered, OnlyCurrentOpen, CloseFlags, Superseded, ShutDown, LeaseOpen
  <2> QED
    BY <1>4, <2>1, <2>2 DEF SessionIInv
<1>6. CASE ~CloseWins(s)
  <2>1. /\ ~closeRequested[s] /\ closing[s] = "no" /\ phase[s] = "connecting"
        /\ generation' = [generation EXCEPT ![s] = @ + 1]
    BY <1>1, <1>6 DEF CloseWins, RestartDrained, SessionTypeOK, Consistent, CloseFlags,
       Superseded
  <2>2. generation' \in [Sessions -> 0 .. MaxGeneration]
    BY <1>1, <1>2, <2>1 DEF SessionTypeOK
  <2>3. CASE /\ SourceOpens(s, generation[s] + 1)
             /\ restarting' = [restarting EXCEPT ![s] = "starting"]
             /\ UNCHANGED phase
    <3>1. SessionTypeOK'
      BY <1>1, <1>2, <2>2, <2>3, SourceCalled DEF SessionTypeOK, RestartDrained
    <3>2. /\ current'[s] = generation[s] + 1 /\ generation'[s] = generation[s] + 1
          /\ \A h \in Generations : LeaseOpen(s, h)' => h = current'[s]
          /\ \A h \in Generations : lease'[s][h] # "none" => h <= current'[s]
          /\ \A h \in starting'[s] \cup watching'[s] : lease'[s][h] # "none"
      <4>1. /\ current'[s] = generation[s] + 1 /\ generation'[s] = generation[s] + 1
            /\ \A h \in Generations :
                  lease'[s][h] = IF h = generation[s] + 1 THEN "opening" ELSE lease[s][h]
            /\ starting'[s] = starting[s] \cup {generation[s] + 1}
            /\ watching'[s] = watching[s] \cup {generation[s] + 1}
        BY <1>1, <1>2, <2>1, <2>3, SourceCalled DEF SessionTypeOK
      <4>2. \A h \in Generations : lease[s][h] # "none" => h <= generation[s]
        BY <1>1 DEF SessionTypeOK, Consistent, Numbered, Generations
      <4>3. starting[s] \cup watching[s] \subseteq Generations
        BY <1>1 DEF SessionTypeOK
      <4>4. \A h \in Generations : LeaseOpen(s, h)' => h = current'[s]
        BY <1>3, <4>1 DEF LeaseOpen
      <4>5. \A h \in Generations : lease'[s][h] # "none" => h <= current'[s]
        BY <1>1, <4>1, <4>2 DEF Generations
      <4>6. \A h \in starting'[s] \cup watching'[s] : lease'[s][h] # "none"
        BY <1>1, <1>2, <4>1, <4>3 DEF Consistent, Numbered
      <4> QED
        BY <4>1, <4>4, <4>5, <4>6
    <3>3. Consistent(s)'
      BY <1>1, <1>2, <2>1, <2>3, <3>2 DEF SessionTypeOK, RestartDrained, Consistent, Unopened,
         Room, Numbered, OnlyCurrentOpen, CloseFlags, Superseded, ShutDown, Terminal
    <3> QED
      BY <1>4, <3>1, <3>3 DEF SessionIInv
  <2>4. CASE /\ SourceThrows
             /\ restarting' = [restarting EXCEPT ![s] = "settled"]
             /\ phase' = [phase EXCEPT ![s] = "error"]
    <3>1. SessionTypeOK'
      BY <1>1, <2>2, <2>4 DEF SessionTypeOK, RestartDrained, SourceThrows, Terminal
    <3>2. Consistent(s)'
      BY <1>1, <1>2, <1>3, <2>1, <2>4 DEF SessionTypeOK, RestartDrained, SourceThrows,
         Consistent, Unopened, Room, Numbered, OnlyCurrentOpen, CloseFlags, Superseded,
         ShutDown, LeaseOpen
    <3> QED
      BY <1>4, <3>1, <3>2 DEF SessionIInv
  <2> QED
    BY <1>6, <2>3, <2>4 DEF RestartDrained
<1> QED
  BY <1>5, <1>6

\* The finally() of restart().
LEMMA RestartSettledConsistent ==
    ASSUME SessionIInv, NEW s \in Sessions, RestartSettled(s)
    PROVE  SessionIInv'
<1>1. SessionTypeOK'
  BY DEF SessionIInv, SessionTypeOK, RestartSettled
<1>2. ASSUME NEW t \in Sessions PROVE Consistent(t)'
  BY DEF SessionIInv, SessionTypeOK, RestartSettled, Consistent, Unopened, Room, Numbered,
     OnlyCurrentOpen, CloseFlags, Superseded, ShutDown, LeaseOpen
<1> QED
  BY <1>1, <1>2 DEF SessionIInv

\* finish() of the lease of generation g, which has ended when the outcome is
\* terminal: it leaves a terminal session alone and a draining restart too.
LEMMA Finished ==
    ASSUME SessionTypeOK, NEW s \in Sessions, NEW g \in Generations, Consistent(s),
           lease[s][g] # "none", NEW outcome \in {"live"} \cup Terminal,
           outcome \in Terminal => ~LeaseOpen(s, g), Finish(s, g, outcome)
    PROVE  /\ phase' \in [Sessions -> {"none", "connecting", "live"} \cup Terminal]
           /\ \A t \in Sessions : t # s => phase'[t] = phase[t]
           /\ phase'[s] = "none" => phase[s] = "none"
           /\ phase'[s] \in Terminal => \A h \in Generations : ~LeaseOpen(s, h)
           /\ restarting[s] = "draining" => phase'[s] = phase[s]
<1>1. phase' \in [Sessions -> {"none", "connecting", "live"} \cup Terminal]
  BY DEF Finish, SessionTypeOK
<1>2. \A t \in Sessions : t # s => phase'[t] = phase[t]
  BY DEF Finish, SessionTypeOK
<1>3. CASE Ignored(s, g)
  BY <1>1, <1>2, <1>3 DEF Finish, Consistent, ShutDown
<1>4. CASE ~Ignored(s, g)
  <2>1. g = generation[s] /\ g = current[s]
    BY <1>4 DEF Ignored, Consistent, Numbered, SessionTypeOK, Generations
  <2>2. phase'[s] = outcome
    BY <1>4 DEF Finish, SessionTypeOK
  <2>3. restarting[s] # "draining"
    BY <2>1 DEF Consistent, Superseded, SessionTypeOK
  <2>4. outcome \in Terminal => \A h \in Generations : ~LeaseOpen(s, h)
    BY <2>1 DEF Consistent, OnlyCurrentOpen
  <2> QED
    BY <1>1, <1>2, <2>2, <2>3, <2>4 DEF Terminal
<1> QED
  BY <1>3, <1>4

\* start() after `await lease.ready`, and the callbacks of lease.closed.
LEMMA ReadySettledConsistent ==
    ASSUME SessionIInv, NEW s \in Sessions, NEW g \in Generations, ReadySettled(s, g)
    PROVE  SessionIInv'
<1>1. SessionTypeOK /\ Consistent(s) /\ lease[s][g] # "none"
  BY DEF SessionIInv, ReadySettled, Consistent, Numbered
<1>2. PICK outcome \in {"live"} \cup Terminal :
          Finish(s, g, outcome) /\ (outcome \in Terminal => ~LeaseOpen(s, g))
  BY DEF ReadySettled, Terminal, LeaseOpen
<1>3. /\ phase' \in [Sessions -> {"none", "connecting", "live"} \cup Terminal]
      /\ \A t \in Sessions : t # s => phase'[t] = phase[t]
      /\ phase'[s] = "none" => phase[s] = "none"
      /\ phase'[s] \in Terminal => \A h \in Generations : ~LeaseOpen(s, h)
      /\ restarting[s] = "draining" => phase'[s] = phase[s]
  BY <1>1, <1>2, Finished
<1>4. /\ restarting' \in [Sessions -> {"no", "draining", "starting", "settled"}]
      /\ starting' \in [Sessions -> SUBSET Generations]
      /\ \A t \in Sessions : t # s => restarting'[t] = restarting[t]
      /\ restarting'[s] # restarting[s] =>
            (restarting[s] = "starting" /\ restarting'[s] = "settled")
      /\ starting'[s] \subseteq starting[s]
  <2>1. /\ starting' \in [Sessions -> SUBSET Generations]
        /\ starting'[s] \subseteq starting[s]
    BY <1>1 DEF ReadySettled, SessionTypeOK
  <2>2. CASE restarting' = restarting
    BY <1>1, <2>1, <2>2 DEF SessionTypeOK
  <2>3. CASE /\ restarting[s] = "starting"
             /\ restarting' = [restarting EXCEPT ![s] = "settled"]
    BY <1>1, <2>1, <2>3 DEF SessionTypeOK
  <2> QED
    BY <2>2, <2>3 DEF ReadySettled
<1>5. SessionTypeOK'
  BY <1>1, <1>3, <1>4 DEF ReadySettled, SessionTypeOK
<1>6. ASSUME NEW t \in Sessions, t # s PROVE Consistent(t)'
  <2>1. Untouched(t)
    BY <1>1, <1>3, <1>4, <1>6 DEF SessionTypeOK, ReadySettled, Untouched
  <2> QED
    BY <2>1, Frame DEF SessionIInv
<1>7. Consistent(s)'
  BY <1>1, <1>3, <1>4 DEF ReadySettled, Consistent, Unopened, Room, Numbered,
     OnlyCurrentOpen, CloseFlags, Superseded, ShutDown, LeaseOpen, Terminal
<1> QED
  BY <1>5, <1>6, <1>7 DEF SessionIInv

\* The callback of lease.closed: a lease of the current generation finishes.
LEMMA LeaseSettledConsistent ==
    ASSUME SessionIInv, NEW s \in Sessions, NEW g \in Generations, LeaseSettled(s, g)
    PROVE  SessionIInv'
<1>1. SessionTypeOK /\ Consistent(s) /\ lease[s][g] # "none" /\ ~LeaseOpen(s, g)
  BY DEF SessionIInv, LeaseSettled, LeaseEnded, LeaseOpen, Ended
<1>2. PICK outcome \in {"live"} \cup Terminal : Finish(s, g, outcome)
  BY DEF LeaseSettled, Terminal
<1>3. /\ phase' \in [Sessions -> {"none", "connecting", "live"} \cup Terminal]
      /\ \A t \in Sessions : t # s => phase'[t] = phase[t]
      /\ phase'[s] = "none" => phase[s] = "none"
      /\ phase'[s] \in Terminal => \A h \in Generations : ~LeaseOpen(s, h)
      /\ restarting[s] = "draining" => phase'[s] = phase[s]
  BY <1>1, <1>2, Finished
<1>4. /\ watching' \in [Sessions -> SUBSET Generations]
      /\ \A t \in Sessions : t # s => watching'[t] = watching[t]
      /\ watching'[s] \subseteq watching[s]
  BY <1>1 DEF LeaseSettled, SessionTypeOK
<1>5. SessionTypeOK'
  BY <1>1, <1>3, <1>4 DEF LeaseSettled, SessionTypeOK
<1>6. ASSUME NEW t \in Sessions, t # s PROVE Consistent(t)'
  <2>1. Untouched(t)
    BY <1>1, <1>3, <1>4, <1>6 DEF SessionTypeOK, LeaseSettled, Untouched
  <2> QED
    BY <2>1, Frame DEF SessionIInv
<1>7. Consistent(s)'
  BY <1>1, <1>3, <1>4 DEF LeaseSettled, Consistent, Unopened, Room, Numbered,
     OnlyCurrentOpen, CloseFlags, Superseded, ShutDown, LeaseOpen, Terminal
<1> QED
  BY <1>5, <1>6, <1>7 DEF SessionIInv

\* close(), on any set of constructed sessions.
LEMMA CloseAllConsistent ==
    ASSUME SessionIInv, NEW S \in SUBSET {s \in Sessions : phase[s] # "none"}, CloseAll(S)
    PROVE  SessionIInv'
<1>1. SessionTypeOK'
  BY DEF SessionIInv, SessionTypeOK, CloseAll
<1>2. ASSUME NEW t \in Sessions PROVE Consistent(t)'
  <2>1. Consistent(t) /\ SessionTypeOK
    BY DEF SessionIInv
  <2>2. /\ closeRequested'[t] <=> closeRequested[t] \/ t \in S
        /\ closing'[t] = IF t \in S /\ closing[t] = "no" THEN "draining" ELSE closing[t]
        /\ t \in S => phase[t] # "none"
    BY <1>2 DEF CloseAll
  <2> QED
    BY <2>1, <2>2 DEF SessionTypeOK, CloseAll, Consistent, Unopened, Room, Numbered,
       OnlyCurrentOpen, CloseFlags, Superseded, ShutDown, LeaseOpen
<1> QED
  BY <1>1, <1>2 DEF SessionIInv

\* The finally block of close().
LEMMA CloseDrainedConsistent ==
    ASSUME SessionIInv, NEW s \in Sessions, CloseDrained(s)
    PROVE  SessionIInv'
<1>1. SessionTypeOK /\ Consistent(s) /\ generation[s] \in Nat
  BY DEF SessionIInv, SessionTypeOK
<1>2. generation[s] + 1 \in 0 .. MaxGeneration
  BY <1>1, BoundIsNatural DEF CloseDrained, Consistent, Room
<1>3. \A g \in Generations : ~LeaseOpen(s, g)
  BY <1>1 DEF CloseDrained, CurrentEnded, LeaseEnded, LeaseOpen, Ended, Consistent,
     OnlyCurrentOpen
<1>4. SessionTypeOK'
  <2>1. generation' \in [Sessions -> 0 .. MaxGeneration]
    BY <1>1, <1>2 DEF SessionTypeOK, CloseDrained
  <2> QED
    BY <1>1, <2>1 DEF SessionTypeOK, CloseDrained, Terminal
<1>5. ASSUME NEW t \in Sessions, t # s PROVE Consistent(t)'
  <2>1. Untouched(t)
    BY <1>1, <1>5 DEF SessionTypeOK, CloseDrained, Untouched
  <2> QED
    BY <2>1, Frame DEF SessionIInv
<1>6. Consistent(s)'
  <2>1. /\ closing[s] = "draining" /\ closing'[s] = "done" /\ phase'[s] = "closed"
        /\ generation'[s] = generation[s] + 1 /\ current[s] \in Nat
        /\ closeRequested[s] /\ closeRequested' = closeRequested
        /\ UNCHANGED <<current, lease, starting, watching, restarting>>
    BY <1>1 DEF SessionTypeOK, CloseDrained, Consistent, CloseFlags
  <2>2. Room(s)'
    BY <1>1, <2>1, BoundIsNatural DEF Consistent, Room
  <2> QED
    BY <1>1, <1>3, <2>1, <2>2 DEF Consistent, Unopened, Numbered, OnlyCurrentOpen, CloseFlags,
       Superseded, ShutDown, LeaseOpen
<1> QED
  BY <1>4, <1>5, <1>6 DEF SessionIInv

\* Values, and moves of a lease that open none.
LEMMA DeliverConsistent ==
    ASSUME SessionIInv, NEW s \in Sessions, NEW g \in Generations, Deliver(s, g),
           MaxValues \in Nat
    PROVE  SessionIInv'
<1>1. SessionTypeOK'
  <2>1. delivered[s][g] + 1 \in 0 .. MaxValues /\ g \in 0 .. MaxGeneration
    BY BoundIsNatural DEF SessionIInv, SessionTypeOK, Deliver, Generations
  <2>2. delivered' \in [Sessions -> [Generations -> 0 .. MaxValues]]
    BY <2>1 DEF SessionIInv, SessionTypeOK, Deliver
  <2>3. value' \in [Sessions -> [by : 0 .. MaxGeneration, n : 0 .. MaxValues]]
    BY <2>1 DEF SessionIInv, SessionTypeOK, Deliver
  <2> QED
    BY <2>2, <2>3 DEF SessionIInv, SessionTypeOK, Deliver
<1>2. ASSUME NEW t \in Sessions PROVE Consistent(t)'
  BY Frame DEF SessionIInv, Deliver, Untouched
<1> QED
  BY <1>1, <1>2 DEF SessionIInv

\* A lease that ends or becomes ready on its own opens nothing.
LEMMA MoveLeaseConsistent ==
    ASSUME SessionIInv, NEW s \in Sessions, NEW g \in Generations,
           NEW state \in {"opening", "ready"} \cup Ended, MoveLease(s, g, state),
           LeaseOpen(s, g)
    PROVE  SessionIInv'
<1>1. SessionTypeOK /\ lease' = [lease EXCEPT ![s][g] = state]
  BY DEF SessionIInv, MoveLease
<1>2. lease' \in [Sessions -> [Generations -> {"none", "opening", "ready"} \cup Ended]]
  BY <1>1 DEF SessionTypeOK
<1>3. SessionTypeOK'
  BY <1>1, <1>2 DEF SessionTypeOK, MoveLease
<1>4. ASSUME NEW t \in Sessions, t # s PROVE Consistent(t)'
  <2>1. Untouched(t)
    BY <1>1, <1>4 DEF SessionTypeOK, MoveLease, Untouched
  <2> QED
    BY <2>1, Frame DEF SessionIInv
<1>5. Consistent(s)'
  <2>1. \A h \in Generations : lease'[s][h] = IF h = g THEN state ELSE lease[s][h]
    BY <1>1 DEF SessionTypeOK
  <2>2. \A h \in Generations : LeaseOpen(s, h)' => LeaseOpen(s, h)
    BY <2>1 DEF LeaseOpen
  <2>3. \A h \in Generations : (lease'[s][h] # "none") <=> (lease[s][h] # "none")
    BY <2>1 DEF LeaseOpen, Ended
  <2>4. starting[s] \cup watching[s] \subseteq Generations
    BY <1>1 DEF SessionTypeOK
  <2> QED
    BY <2>2, <2>3, <2>4 DEF SessionIInv, MoveLease, Consistent, Unopened, Room, Numbered,
       OnlyCurrentOpen, CloseFlags, Superseded, ShutDown
<1> QED
  BY <1>3, <1>4, <1>5 DEF SessionIInv

\* Every step of a session preserves the invariant.
LEMMA NextConsistent == SessionIInv /\ [SessionNext]_sessionVars => SessionIInv'
<1> SUFFICES ASSUME SessionIInv, [SessionNext]_sessionVars PROVE SessionIInv'
  OBVIOUS
<1>1. ASSUME NEW s \in Sessions, Open(s) PROVE SessionIInv'
  BY <1>1, OpenConsistent
<1>2. ASSUME NEW s \in Sessions, Restart(s) PROVE SessionIInv'
  BY <1>2, RestartConsistent
<1>3. ASSUME NEW s \in Sessions, RestartDrained(s) PROVE SessionIInv'
  BY <1>3, RestartDrainedConsistent
<1>4. ASSUME NEW s \in Sessions, RestartSettled(s) PROVE SessionIInv'
  BY <1>4, RestartSettledConsistent
<1>5. ASSUME NEW s \in Sessions, CloseDrained(s) PROVE SessionIInv'
  BY <1>5, CloseDrainedConsistent
<1>6. ASSUME NEW s \in Sessions, NEW g \in Generations, ReadySettled(s, g) PROVE SessionIInv'
  BY <1>6, ReadySettledConsistent
<1>7. ASSUME NEW s \in Sessions, NEW g \in Generations, LeaseSettled(s, g) PROVE SessionIInv'
  BY <1>7, LeaseSettledConsistent
<1>8. ASSUME NEW s \in Sessions, NEW g \in Generations, Deliver(s, g) PROVE SessionIInv'
  BY <1>8, DeliverConsistent, SessionAssumption
<1>9. ASSUME NEW s \in Sessions, NEW g \in Generations, LeaseReady(s, g) \/ LeaseEnds(s, g)
      PROVE SessionIInv'
  BY <1>9, MoveLeaseConsistent DEF LeaseReady, LeaseEnds, LeaseOpen, Ended
<1>10. ASSUME NEW S \in SUBSET {s \in Sessions : phase[s] # "none"}, CloseAll(S)
       PROVE SessionIInv'
  BY <1>10, CloseAllConsistent
<1>11. CASE UNCHANGED sessionVars
  <2>1. SessionTypeOK'
    BY <1>11 DEF SessionIInv, SessionTypeOK, sessionVars
  <2>2. ASSUME NEW t \in Sessions PROVE Consistent(t)'
    BY <1>11, Frame DEF SessionIInv, Untouched, sessionVars
  <2> QED
    BY <2>1, <2>2 DEF SessionIInv
<1> QED
  BY <1>1, <1>2, <1>3, <1>4, <1>5, <1>6, <1>7, <1>8, <1>9, <1>10, <1>11 DEF SessionNext, Progress

-----------------------------------------------------------------------------
\* The invariant holds in every state of a session.
THEOREM SessionInvariant == SessionSpec => []SessionIInv
BY InitConsistent, NextConsistent, PTL DEF SessionSpec

\* A session never has two open leases: restart() waits for the previous one.
THEOREM NeverTwoLeases == SessionSpec => []OneOpenLease
<1>1. SessionIInv => OneOpenLease
  BY DEF SessionIInv, Consistent, OnlyCurrentOpen, OneOpenLease
<1> QED
  BY <1>1, SessionInvariant, PTL

\* A session that reports its end holds no lease open, whichever of restart(),
\* close() and the callbacks of its leases came first.
THEOREM EndedMeansReleased == SessionSpec => []TerminalHoldsNoLease
<1>1. SessionIInv => TerminalHoldsNoLease
  BY DEF SessionIInv, Consistent, ShutDown, TerminalHoldsNoLease
<1> QED
  BY <1>1, SessionInvariant, PTL

-----------------------------------------------------------------------------
(***************************************************************************)
(* Why no end of a lease goes unnoticed: as long as a session says that it *)
(* is connecting or live, its lease belongs to the generation in force and *)
(* the callback of lease.closed, which finish() cannot ignore then, has    *)
(* still to run.                                                           *)
(***************************************************************************)
Watched(s) ==
    /\ phase[s] \in {"connecting", "live"}
    /\ restarting[s] # "draining" /\ closing[s] = "no"
    => current[s] # 0 /\ current[s] = generation[s] /\ current[s] \in watching[s]

AllWatched == \A s \in Sessions : Watched(s)

LEMMA WatchedFrame ==
    ASSUME NEW t \in Sessions, Watched(t), Untouched(t)
    PROVE  Watched(t)'
BY DEF Watched, Untouched

\* A call of the source: its lease is watched, or the session has failed.
LEMMA OpenWatched ==
    ASSUME SessionIInv, AllWatched, NEW s \in Sessions, Open(s)
    PROVE  AllWatched'
<1>1. SessionTypeOK /\ 1 \in Generations
  BY BoundIsNatural DEF SessionIInv, Generations
<1>2. ASSUME NEW t \in Sessions, t # s PROVE Watched(t)'
  <2>1. Untouched(t)
    BY <1>1, <1>2 DEF SessionTypeOK, Open, SourceOpens, SourceThrows, Untouched
  <2> QED
    BY <2>1, WatchedFrame DEF AllWatched
<1>3. Watched(s)'
  <2>1. CASE SourceOpens(s, 1)
    BY <1>1, <2>1, SourceCalled DEF Open, SessionTypeOK, Watched
  <2>2. CASE phase' = [phase EXCEPT ![s] = "error"]
    BY <1>1, <2>2 DEF SessionTypeOK, Watched
  <2> QED
    BY <2>1, <2>2 DEF Open
<1> QED
  BY <1>2, <1>3 DEF AllWatched

LEMMA RestartWatched ==
    ASSUME SessionIInv, AllWatched, NEW s \in Sessions, Restart(s)
    PROVE  AllWatched'
<1>1. SessionTypeOK /\ generation[s] \in Nat /\ generation[s] + 2 \in Generations
  <2>1. generation[s] \in 0 .. MaxGeneration /\ generation[s] + 3 <= MaxGeneration
    BY DEF SessionIInv, SessionTypeOK, Restart
  <2> QED
    BY <2>1, BoundIsNatural DEF Generations, SessionIInv
<1>2. ASSUME NEW t \in Sessions, t # s PROVE Watched(t)'
  <2>1. Untouched(t)
    BY <1>1, <1>2 DEF SessionTypeOK, Restart, SourceOpens, SourceThrows, Untouched
  <2> QED
    BY <2>1, WatchedFrame DEF AllWatched
<1>3. Watched(s)'
  <2>1. CASE restarting' = [restarting EXCEPT ![s] = "draining"]
    BY <1>1, <2>1 DEF SessionTypeOK, Watched
  <2>2. CASE /\ SourceOpens(s, generation[s] + 2)
             /\ generation' = [generation EXCEPT ![s] = @ + 2]
    <3>1. /\ current'[s] = generation[s] + 2 /\ generation'[s] = generation[s] + 2
          /\ current'[s] \in watching'[s]
      BY <1>1, <2>2, SourceCalled DEF SessionTypeOK
    <3> QED
      BY <1>1, <3>1 DEF Watched
  <2>3. CASE phase' = [phase EXCEPT ![s] = "error"]
    BY <1>1, <2>3 DEF SessionTypeOK, Watched
  <2> QED
    BY <2>1, <2>2, <2>3 DEF Restart
<1> QED
  BY <1>2, <1>3 DEF AllWatched

LEMMA RestartDrainedWatched ==
    ASSUME SessionIInv, AllWatched, NEW s \in Sessions, RestartDrained(s)
    PROVE  AllWatched'
<1>1. SessionTypeOK /\ Consistent(s) /\ generation[s] \in Nat
  BY DEF SessionIInv, SessionTypeOK
<1>2. ASSUME NEW t \in Sessions, t # s PROVE Watched(t)'
  <2>1. Untouched(t)
    BY <1>1, <1>2 DEF SessionTypeOK, RestartDrained, SourceOpens, SourceThrows, Untouched
  <2> QED
    BY <2>1, WatchedFrame DEF AllWatched
<1>3. Watched(s)'
  <2>1. CASE CloseWins(s)
    BY <1>1, <2>1 DEF CloseWins, RestartDrained, Consistent, CloseFlags, Watched
  <2>2. CASE ~CloseWins(s) /\ SourceOpens(s, generation[s] + 1)
    <3>1. generation[s] + 1 \in Generations
      BY <1>1, <2>2, BoundIsNatural
         DEF RestartDrained, CloseWins, Consistent, CloseFlags, Room, SessionTypeOK, Generations
    <3>2. /\ current'[s] = generation[s] + 1 /\ generation'[s] = generation[s] + 1
          /\ current'[s] \in watching'[s]
      BY <1>1, <2>2, <3>1, SourceCalled DEF SessionTypeOK, RestartDrained
    <3> QED
      BY <1>1, <3>2 DEF Watched
  <2>3. CASE phase' = [phase EXCEPT ![s] = "error"]
    BY <1>1, <2>3 DEF SessionTypeOK, Watched
  <2> QED
    BY <2>1, <2>2, <2>3 DEF RestartDrained
<1> QED
  BY <1>2, <1>3 DEF AllWatched

\* finish() makes no session that was over connecting or live again.
LEMMA FinishRevivesNone ==
    ASSUME SessionTypeOK, NEW s \in Sessions, Consistent(s), NEW g \in Generations,
           lease[s][g] # "none", NEW outcome \in {"live"} \cup Terminal,
           Finish(s, g, outcome)
    PROVE  /\ phase'[s] \in {"connecting", "live"} => phase[s] \in {"connecting", "live"}
           /\ \A t \in Sessions : t # s => phase'[t] = phase[t]
<1>1. phase[s] # "none"
  BY DEF Consistent, Numbered, Unopened, SessionTypeOK, Generations
<1>2. phase[s] \in {"connecting", "live"} \cup Terminal
  BY <1>1 DEF SessionTypeOK
<1>3. CASE Ignored(s, g)
  BY <1>2, <1>3 DEF Finish
<1>4. CASE ~Ignored(s, g)
  BY <1>2, <1>4 DEF Finish, Ignored, SessionTypeOK
<1> QED
  BY <1>3, <1>4

LEMMA ReadySettledWatched ==
    ASSUME SessionIInv, AllWatched, NEW s \in Sessions, NEW g \in Generations,
           ReadySettled(s, g)
    PROVE  AllWatched'
<1>1. SessionTypeOK /\ Consistent(s) /\ lease[s][g] # "none"
  BY DEF SessionIInv, ReadySettled, Consistent, Numbered
<1>2. PICK outcome \in {"live"} \cup Terminal : Finish(s, g, outcome)
  BY DEF ReadySettled, Terminal
<1>3. /\ phase'[s] \in {"connecting", "live"} => phase[s] \in {"connecting", "live"}
      /\ \A t \in Sessions : t # s => phase'[t] = phase[t]
  BY <1>1, <1>2, FinishRevivesNone
<1>4. /\ \A t \in Sessions : t # s => restarting'[t] = restarting[t]
      /\ restarting[s] = "draining" => restarting'[s] = "draining"
      /\ UNCHANGED <<current, generation, watching, closing>>
  BY <1>1 DEF ReadySettled, SessionTypeOK
<1>5. ASSUME NEW t \in Sessions PROVE Watched(t)'
  BY <1>3, <1>4 DEF AllWatched, Watched
<1> QED
  BY <1>5 DEF AllWatched

\* The lease of a session that is connecting or live ends it; a lease of
\* another generation leaves its watcher alone.
LEMMA LeaseSettledWatched ==
    ASSUME SessionIInv, AllWatched, NEW s \in Sessions, NEW g \in Generations,
           LeaseSettled(s, g)
    PROVE  AllWatched'
<1>1. SessionTypeOK /\ Consistent(s) /\ lease[s][g] # "none"
  BY DEF SessionIInv, LeaseSettled, Consistent, Numbered
<1>2. PICK outcome \in Terminal : Finish(s, g, outcome)
  BY DEF LeaseSettled, Terminal
<1>3. /\ phase'[s] \in {"connecting", "live"} => phase[s] \in {"connecting", "live"}
      /\ \A t \in Sessions : t # s => phase'[t] = phase[t]
  BY <1>1, <1>2, FinishRevivesNone
<1>4. /\ watching' = [watching EXCEPT ![s] = @ \ {g}]
      /\ UNCHANGED <<current, generation, restarting, closing, closeRequested>>
  BY DEF LeaseSettled
<1>5. ASSUME NEW t \in Sessions, t # s PROVE Watched(t)'
  BY <1>1, <1>3, <1>4, <1>5 DEF AllWatched, Watched, SessionTypeOK
<1>6. Watched(s)'
  <2> SUFFICES ASSUME phase'[s] \in {"connecting", "live"}, restarting[s] # "draining",
                      closing[s] = "no"
               PROVE  current[s] # 0 /\ current[s] = generation[s] /\ current[s] \in watching'[s]
    BY <1>4 DEF Watched
  <2>1. current[s] # 0 /\ current[s] = generation[s] /\ current[s] \in watching[s]
    BY <1>3 DEF AllWatched, Watched
  <2>2. g # current[s]
    <3> SUFFICES ASSUME g = current[s]
                 PROVE  FALSE
      OBVIOUS
    <3>1. ~Ignored(s, g)
      BY <1>1, <1>3, <2>1 DEF Ignored, Consistent, CloseFlags, Terminal
    <3>2. phase'[s] = outcome
      BY <1>1, <1>2, <3>1 DEF Finish, SessionTypeOK
    <3> QED
      BY <3>2 DEF Terminal
  <2>3. watching'[s] = watching[s] \ {g}
    BY <1>1, <1>4 DEF SessionTypeOK
  <2> QED
    BY <2>1, <2>2, <2>3
<1> QED
  BY <1>5, <1>6 DEF AllWatched

\* The steps of restart(), close() and the leases that start nothing.
LEMMA OtherWatched ==
    ASSUME SessionIInv, AllWatched, UNCHANGED <<generation, current, watching>>,
           \A t \in Sessions :
              /\ phase'[t] \in {"connecting", "live"} => phase[t] \in {"connecting", "live"}
              /\ restarting[t] = "draining" => restarting'[t] = "draining"
              /\ closing[t] # "no" => closing'[t] # "no"
    PROVE  AllWatched'
BY DEF AllWatched, Watched

LEMMA NextWatched == SessionIInv /\ AllWatched /\ [SessionNext]_sessionVars => AllWatched'
<1> SUFFICES ASSUME SessionIInv, AllWatched, [SessionNext]_sessionVars
             PROVE  AllWatched'
  OBVIOUS
<1>1. ASSUME NEW s \in Sessions, Open(s) \/ Restart(s) \/ RestartDrained(s)
      PROVE  AllWatched'
  BY <1>1, OpenWatched, RestartWatched, RestartDrainedWatched
<1>2. ASSUME NEW s \in Sessions, RestartSettled(s) PROVE AllWatched'
  <2>1. \A t \in Sessions : restarting[t] = "draining" => restarting'[t] = "draining"
    BY <1>2 DEF RestartSettled, SessionIInv, SessionTypeOK
  <2> QED
    BY <1>2, <2>1, OtherWatched DEF RestartSettled
<1>3. ASSUME NEW s \in Sessions, CloseDrained(s) PROVE AllWatched'
  <2>1. \A t \in Sessions : t # s => /\ phase'[t] = phase[t] /\ generation'[t] = generation[t]
                                     /\ closing'[t] = closing[t]
    BY <1>3 DEF CloseDrained, SessionIInv, SessionTypeOK
  <2>2. closing'[s] = "done"
    BY <1>3 DEF CloseDrained, SessionIInv, SessionTypeOK
  <2> QED
    BY <1>3, <2>1, <2>2 DEF CloseDrained, AllWatched, Watched
<1>4. ASSUME NEW s \in Sessions, NEW g \in Generations, ReadySettled(s, g) \/ LeaseSettled(s, g)
      PROVE  AllWatched'
  BY <1>4, ReadySettledWatched, LeaseSettledWatched
<1>5. ASSUME NEW s \in Sessions, NEW g \in Generations,
             Deliver(s, g) \/ LeaseReady(s, g) \/ LeaseEnds(s, g)
      PROVE  AllWatched'
  BY <1>5, OtherWatched DEF Deliver, LeaseReady, LeaseEnds, MoveLease
<1>6. ASSUME NEW S \in SUBSET {s \in Sessions : phase[s] # "none"}, CloseAll(S)
      PROVE  AllWatched'
  <2>1. \A t \in Sessions : closing[t] # "no" => closing'[t] # "no"
    BY <1>6 DEF CloseAll
  <2> QED
    BY <1>6, <2>1, OtherWatched DEF CloseAll
<1>7. CASE UNCHANGED sessionVars
  BY <1>7, OtherWatched DEF sessionVars
<1> QED
  BY <1>1, <1>2, <1>3, <1>4, <1>5, <1>6, <1>7 DEF SessionNext, Progress

(***************************************************************************)
(* However the callbacks of superseded leases, restarts, closes and        *)
(* sources that throw interleave (session 187-330), a session that says it *)
(* is connecting or live has a lease that is open, or whose end it is      *)
(* still going to notice.                                                  *)
(***************************************************************************)
THEOREM EndsAreNoticed == SessionSpec => []NoZombie
<1>1. SessionInit => AllWatched
  BY DEF SessionInit, AllWatched, Watched
<1>2. ASSUME SessionIInv, AllWatched PROVE NoZombie
  <2> SUFFICES ASSUME NEW s \in Sessions, phase[s] \in {"connecting", "live"},
                      restarting[s] # "draining", closing[s] = "no"
               PROVE  /\ current[s] # 0 /\ current[s] \in watching[s]
                      /\ ~Ignored(s, current[s])
    BY DEF NoZombie
  <2>1. /\ current[s] # 0 /\ current[s] = generation[s] /\ current[s] \in watching[s]
    BY <1>2 DEF AllWatched, Watched
  <2> QED
    BY <1>2, <2>1 DEF SessionIInv, SessionTypeOK, Consistent, CloseFlags, Ignored, Terminal
<1> QED
  BY <1>1, <1>2, InitConsistent, NextConsistent, NextWatched, PTL DEF SessionSpec

-----------------------------------------------------------------------------
(***************************************************************************)
(* The refinement of ExclusiveSource: a call of the source takes one, the  *)
(* end of a lease drops it, and a settled close() retires the session.     *)
(***************************************************************************)
\* Opening a lease takes the free source.
LEMMA OpeningTakes ==
    ASSUME SessionTypeOK, NEW s \in Sessions, NEW g \in Generations, SourceOpens(s, g),
           \A h \in Generations : ~LeaseOpen(s, h), lease[s][g] = "none",
           closing[s] # "done", UNCHANGED closing
    PROVE  Source!Take(s, g)
<1>1. lease' = [lease EXCEPT ![s] = [lease[s] EXCEPT ![g] = "opening"]]
  BY DEF SourceOpens
<1>2. /\ \A t \in Sessions : t # s => lease'[t] = lease[t]
      /\ \A h \in Generations : lease'[s][h] = IF h = g THEN "opening" ELSE lease[s][h]
  BY <1>1 DEF SessionTypeOK
<1>3. \A t \in Sessions : {h \in Generations : LeaseOpen(t, h)'} =
                             IF t = s THEN {g} ELSE {h \in Generations : LeaseOpen(t, h)}
  BY <1>2 DEF LeaseOpen
<1>4. \A t \in Sessions : {h \in Generations : lease'[t][h] # "none"} =
                             IF t = s THEN {h \in Generations : lease[t][h] # "none"} \cup {g}
                             ELSE {h \in Generations : lease[t][h] # "none"}
  BY <1>2
<1> QED
  BY <1>3, <1>4 DEF Source!Take

\* The end of an open lease gives the source back.
LEMMA EndingDrops ==
    ASSUME SessionIInv, NEW s \in Sessions, NEW g \in Generations,
           NEW state \in Ended, MoveLease(s, g, state), LeaseOpen(s, g)
    PROVE  Source!Drop(s)
<1>1. SessionTypeOK /\ lease' = [lease EXCEPT ![s][g] = state]
  BY DEF SessionIInv, MoveLease
<1>2. /\ \A t \in Sessions : t # s => lease'[t] = lease[t]
      /\ \A h \in Generations : lease'[s][h] = IF h = g THEN state ELSE lease[s][h]
  BY <1>1 DEF SessionTypeOK
<1>3. \A h \in Generations : ~LeaseOpen(s, h)'
  BY <1>2 DEF SessionIInv, Consistent, OnlyCurrentOpen, LeaseOpen, Ended
<1>4. \A t \in Sessions : {h \in Generations : LeaseOpen(t, h)'} =
                             IF t = s THEN {} ELSE {h \in Generations : LeaseOpen(t, h)}
  BY <1>2, <1>3 DEF LeaseOpen
<1>5. \A t \in Sessions : {h \in Generations : lease'[t][h] # "none"} =
                          {h \in Generations : lease[t][h] # "none"}
  BY <1>2 DEF LeaseOpen, Ended
<1> QED
  BY <1>4, <1>5 DEF Source!Drop, MoveLease

\* A settled close() retires the session; nothing holds its source then.
LEMMA DrainedRetires ==
    ASSUME SessionIInv, NEW s \in Sessions, CloseDrained(s)
    PROVE  Source!Retire(s)
<1>1. \A g \in Generations : ~LeaseOpen(s, g)
  BY DEF SessionIInv, CloseDrained, CurrentEnded, LeaseEnded, LeaseOpen, Ended, Consistent,
     OnlyCurrentOpen
<1>2. {t \in Sessions : closing'[t] = "done"} = {t \in Sessions : closing[t] = "done"} \cup {s}
  BY DEF SessionIInv, SessionTypeOK, CloseDrained
<1>3. \A t \in Sessions : \A h \in Generations : LeaseOpen(t, h)' <=> LeaseOpen(t, h)
  BY DEF CloseDrained, LeaseOpen
<1> QED
  BY <1>1, <1>2, <1>3 DEF Source!Retire, CloseDrained

\* A step that opens and ends no lease and settles no close().
LEMMA OtherStutters ==
    ASSUME \A t \in Sessions : \A h \in Generations :
              /\ LeaseOpen(t, h)' <=> LeaseOpen(t, h)
              /\ lease'[t][h] = "none" <=> lease[t][h] = "none",
           \A t \in Sessions : closing'[t] = "done" <=> closing[t] = "done"
    PROVE  UNCHANGED Source!sourceVars
BY DEF Source!sourceVars

\* Every step of a session is a step of ExclusiveSource or leaves it alone.
LEMMA NextRefines ==
    ASSUME SessionIInv, [SessionNext]_sessionVars
    PROVE  [Source!Next]_(Source!sourceVars)
<1> USE DEF Source!Next
<1>1. ASSUME NEW s \in Sessions, Open(s) PROVE [Source!Next]_(Source!sourceVars)
  <2>1. /\ SessionTypeOK /\ 1 \in Generations /\ closing[s] = "no" /\ UNCHANGED closing
        /\ \A g \in Generations : lease[s][g] = "none"
    BY SMTT(30), <1>1, BoundIsNatural DEF Open, SessionIInv, SessionTypeOK, Consistent, Unopened,
       Numbered, Generations
  <2>2. CASE SourceOpens(s, 1)
    BY <2>1, <2>2, OpeningTakes DEF LeaseOpen
  <2>3. CASE SourceThrows
    BY <2>1, <2>3, OtherStutters DEF SourceThrows, LeaseOpen
  <2> QED
    BY <1>1, <2>2, <2>3 DEF Open
<1>2. ASSUME NEW s \in Sessions, Restart(s) PROVE [Source!Next]_(Source!sourceVars)
  <2>1. /\ SessionTypeOK /\ closing[s] = "no" /\ UNCHANGED closing
        /\ generation[s] + 2 \in Generations
    <3>1. /\ SessionTypeOK /\ UNCHANGED closing /\ generation[s] + 3 <= MaxGeneration
          /\ generation[s] \in 0 .. MaxGeneration /\ closing[s] = "no"
      BY <1>2 DEF Restart, SessionIInv, SessionTypeOK, Consistent, CloseFlags
    <3> QED
      BY <3>1, BoundIsNatural DEF Generations
  <2>2. CASE current[s] = 0 /\ SourceOpens(s, generation[s] + 2)
    <3>1. \A g \in Generations : lease[s][g] = "none"
      BY <2>2 DEF SessionIInv, SessionTypeOK, Consistent, Numbered, Generations
    <3> QED
      BY <2>1, <2>2, <3>1, OpeningTakes DEF LeaseOpen
  <2>3. CASE UNCHANGED lease
    BY <2>1, <2>3, OtherStutters DEF LeaseOpen
  <2> QED
    BY <1>2, <2>2, <2>3 DEF Restart, SourceThrows
<1>3. ASSUME NEW s \in Sessions, RestartDrained(s) PROVE [Source!Next]_(Source!sourceVars)
  <2>1. SessionTypeOK /\ UNCHANGED closing
    BY <1>3 DEF RestartDrained, SessionIInv
  <2>2. CASE ~CloseWins(s) /\ SourceOpens(s, generation[s] + 1)
    <3>1. /\ generation[s] + 1 \in Generations /\ closing[s] = "no"
          /\ \A g \in Generations : lease[s][g] # "none" => g <= generation[s]
      BY <1>3, <2>2, BoundIsNatural DEF RestartDrained, CloseWins, SessionIInv, SessionTypeOK,
         Consistent, CloseFlags, Room, Numbered, Generations
    <3>2. \A g \in Generations : ~LeaseOpen(s, g)
      BY <1>3 DEF SessionIInv, RestartDrained, CurrentEnded, LeaseEnded, LeaseOpen, Ended,
         Consistent, OnlyCurrentOpen
    <3>3. lease[s][generation[s] + 1] = "none"
      BY <2>1, <3>1 DEF SessionTypeOK
    <3> QED
      BY <2>1, <2>2, <3>1, <3>2, <3>3, OpeningTakes
  <2>3. CASE UNCHANGED lease
    BY <2>1, <2>3, OtherStutters DEF LeaseOpen
  <2> QED
    BY <1>3, <2>2, <2>3 DEF RestartDrained, SourceThrows
<1>4. ASSUME NEW s \in Sessions, CloseDrained(s) PROVE [Source!Next]_(Source!sourceVars)
  BY <1>4, DrainedRetires
<1>5. ASSUME NEW s \in Sessions, NEW g \in Generations, LeaseEnds(s, g)
      PROVE [Source!Next]_(Source!sourceVars)
  BY <1>5, EndingDrops DEF LeaseEnds, LeaseOpen, Ended
<1>6. ASSUME NEW s \in Sessions, NEW g \in Generations, LeaseReady(s, g)
      PROVE [Source!Next]_(Source!sourceVars)
  <2>1. \A t \in Sessions : \A h \in Generations :
            lease'[t][h] = IF t = s /\ h = g THEN "ready" ELSE lease[t][h]
    BY <1>6 DEF SessionIInv, SessionTypeOK, LeaseReady, MoveLease
  <2> QED
    BY <1>6, <2>1, OtherStutters DEF LeaseReady, MoveLease, LeaseOpen
<1>7. ASSUME NEW S \in SUBSET Sessions, CloseAll(S) PROVE [Source!Next]_(Source!sourceVars)
  <2>1. \A t \in Sessions : closing'[t] = "done" <=> closing[t] = "done"
    BY <1>7 DEF CloseAll
  <2> QED
    BY <1>7, <2>1, OtherStutters DEF CloseAll, LeaseOpen
<1>8. CASE UNCHANGED <<lease, closing>>
  BY <1>8, OtherStutters DEF LeaseOpen
<1> QED
  BY <1>1, <1>2, <1>3, <1>4, <1>5, <1>6, <1>7, <1>8 DEF SessionNext, Progress, RestartSettled,
     ReadySettled, LeaseSettled, Deliver, sessionVars

\* However restarts, closes, failing sources and late promises interleave, a
\* session occupies one source at a time and none after close() has settled.
THEOREM SessionIsExclusive == SessionSpec => HoldsSourceExclusively
<1>1. SessionInit => Source!Init
  BY DEF SessionInit, Source!Init, LeaseOpen
<1>2. SessionIInv /\ [SessionNext]_sessionVars => [Source!Next]_(Source!sourceVars)
  BY NextRefines
<1> QED
  BY <1>1, <1>2, SessionInvariant, PTL DEF SessionSpec, HoldsSourceExclusively, Source!Spec

-----------------------------------------------------------------------------
(***************************************************************************)
(* The snapshot's value.                                                   *)
(***************************************************************************)

\* The value is of no later generation than the counter, and the last one of
\* the current generation; a lease that was never opened has delivered none.
ValueAgrees(s) ==
    /\ value[s].by <= generation[s]
    /\ value[s].by = generation[s] /\ value[s].by # 0
         => value[s].n = delivered[s][value[s].by]
    /\ \A g \in Generations : lease[s][g] = "none" => delivered[s][g] = 0

\* Unless a restart has superseded it, also through close(), the latest lease
\* is the one whose last value is shown.
LatestShown(s) ==
    /\ current[s] # 0
    /\ generation[s] = current[s] \/ (closing[s] = "done" /\ generation[s] = current[s] + 1)
    /\ delivered[s][current[s]] > 0
    => value[s] = [by |-> current[s], n |-> delivered[s][current[s]]]

ValueIInv == \A s \in Sessions : ValueAgrees(s) /\ LatestShown(s)

\* The value invariant of a session depends on its own state only.
LEMMA ValueFrame ==
    ASSUME NEW t \in Sessions, ValueAgrees(t), LatestShown(t), Untouched(t),
           value'[t] = value[t], delivered'[t] = delivered[t]
    PROVE  ValueAgrees(t)' /\ LatestShown(t)'
BY DEF ValueAgrees, LatestShown, Untouched

\* A value that is accepted comes from the latest lease, while no restart drains.
LEMMA AcceptedIsLatest ==
    ASSUME SessionIInv, NEW s \in Sessions, NEW g \in Generations, LeaseOpen(s, g)
    PROVE  /\ g = current[s]
           /\ g = generation[s] => Accepts(s, g) /\ restarting[s] # "draining"
BY DEF SessionIInv, SessionTypeOK, Consistent, OnlyCurrentOpen, ShutDown, Superseded, Accepts

\* accept() leaves the invariant: it shows the newest value of the lease.
LEMMA DeliverShows ==
    ASSUME SessionIInv, ValueIInv, NEW s \in Sessions, NEW g \in Generations, Deliver(s, g)
    PROVE  ValueIInv'
<1>1. SessionTypeOK /\ g = current[s] /\ LeaseOpen(s, g)
      /\ (g = generation[s] <=> Accepts(s, g))
  BY AcceptedIsLatest DEF SessionIInv, Deliver, Accepts
<1>2. /\ \A h \in Generations :
            delivered'[s][h] = IF h = g THEN delivered[s][g] + 1 ELSE delivered[s][h]
      /\ value'[s] = IF g = generation[s] THEN [by |-> g, n |-> delivered[s][g] + 1]
                                          ELSE value[s]
  BY <1>1 DEF SessionTypeOK, Deliver
<1>3. /\ generation[s] \in Nat /\ delivered[s][g] \in Nat /\ g \in Nat /\ g # 0
      /\ UNCHANGED <<generation, current, closing, lease>>
  <2>1. generation[s] \in 0 .. MaxGeneration /\ delivered[s][g] \in 0 .. MaxValues
    BY <1>1 DEF SessionTypeOK
  <2>2. UNCHANGED <<generation, current, closing, lease>>
    BY DEF Deliver
  <2> QED
    BY <2>1, <2>2 DEF Generations
<1>4. ASSUME NEW t \in Sessions, t # s PROVE ValueAgrees(t)' /\ LatestShown(t)'
  <2>1. Untouched(t) /\ value'[t] = value[t] /\ delivered'[t] = delivered[t]
    BY <1>1, <1>4 DEF SessionTypeOK, Deliver, Untouched
  <2> QED
    BY <2>1, ValueFrame DEF ValueIInv
<1>5. ValueAgrees(s)'
  <2>1. lease[s][g] # "none"
    BY <1>1 DEF LeaseOpen
  <2>2. value[s].by \in 0 .. MaxGeneration
    BY <1>1 DEF SessionTypeOK
  <2>3. \A h \in Generations : lease'[s][h] = "none" => delivered'[s][h] = 0
    BY <1>2, <1>3, <2>1 DEF ValueIInv, ValueAgrees
  <2>4. CASE g = generation[s]
    <3>1. value'[s].by = g /\ value'[s].n = delivered'[s][g] /\ generation'[s] = g
      BY <1>2, <1>3, <2>4
    <3> QED
      BY <1>3, <2>3, <3>1 DEF ValueAgrees
  <2>5. CASE g # generation[s]
    <3>1. value'[s] = value[s] /\ generation'[s] = generation[s]
      BY <1>2, <1>3, <2>5
    <3>2. ASSUME value[s].by = generation[s], value[s].by # 0
          PROVE  value[s].n = delivered'[s][value[s].by]
      <4>1. value[s].by \in Generations
        BY <2>2, <3>2, BoundIsNatural DEF Generations
      <4> QED
        BY <1>2, <2>5, <3>2, <4>1 DEF ValueIInv, ValueAgrees
    <3> QED
      BY <2>3, <3>1, <3>2 DEF ValueIInv, ValueAgrees
  <2> QED
    BY <2>4, <2>5
<1>6. LatestShown(s)'
  <2>1. closing[s] # "done"
    BY <1>1 DEF SessionIInv, Consistent, ShutDown
  <2> QED
    BY <1>1, <1>2, <1>3, <2>1 DEF LatestShown
<1> QED
  BY <1>4, <1>5, <1>6 DEF ValueIInv

(***************************************************************************)
(* The other steps leave the values alone.  For session t they keep its    *)
(* generation, or move past the lease whose value is shown, or settle its  *)
(* close().                                                                *)
(***************************************************************************)
Keeps(t) ==
    /\ generation'[t] = generation[t] /\ current'[t] = current[t]
    /\ closing'[t] = "done" <=> closing[t] = "done"
    /\ \A g \in Generations : lease'[t][g] = "none" => lease[t][g] = "none"

Outdates(t) ==
    /\ generation'[t] > generation[t]
    /\ \A g \in Generations : lease'[t][g] = "none" => lease[t][g] = "none"
    /\ \/ current'[t] = 0
       \/ delivered[t][current'[t]] = 0
       \/ current'[t] < generation'[t] /\ closing'[t] # "done"

Retires(t) ==
    /\ generation'[t] = generation[t] + 1 /\ current'[t] = current[t]
    /\ current[t] <= generation[t] /\ closing[t] # "done"
    /\ lease'[t] = lease[t]

LeftAlone ==
    /\ value' = value /\ delivered' = delivered
    /\ \A t \in Sessions : Keeps(t) \/ Outdates(t) \/ Retires(t)

LEMMA ValuesLeftAlone ==
    ASSUME SessionTypeOK, SessionTypeOK', ValueIInv, LeftAlone
    PROVE  ValueIInv'
<1> SUFFICES ASSUME NEW t \in Sessions PROVE ValueAgrees(t)' /\ LatestShown(t)'
  BY DEF ValueIInv
<1>1. /\ generation[t] \in Nat /\ generation'[t] \in Nat /\ value[t].by \in Nat
      /\ current[t] \in Nat /\ current'[t] \in Nat
  BY DEF SessionTypeOK
<1>2. ValueAgrees(t) /\ LatestShown(t) /\ value'[t] = value[t] /\ delivered'[t] = delivered[t]
  BY DEF ValueIInv, LeftAlone
<1>3. CASE Keeps(t)
  BY <1>1, <1>2, <1>3 DEF Keeps, ValueAgrees, LatestShown
<1>4. CASE Outdates(t)
  <2>1. ValueAgrees(t)'
    BY <1>1, <1>2, <1>4 DEF Outdates, ValueAgrees
  <2>2. LatestShown(t)'
    <3>1. \/ current'[t] = 0
          \/ delivered[t][current'[t]] = 0
          \/ current'[t] < generation'[t] /\ closing'[t] # "done"
      BY <1>4 DEF Outdates
    <3> QED
      BY <1>1, <1>2, <3>1 DEF LatestShown
  <2> QED
    BY <2>1, <2>2
<1>5. CASE Retires(t)
  <2>1. ValueAgrees(t)'
    BY <1>1, <1>2, <1>5 DEF Retires, ValueAgrees
  <2>2. LatestShown(t)'
    BY <1>1, <1>2, <1>5 DEF Retires, LatestShown
  <2> QED
    BY <2>1, <2>2
<1> QED
  BY <1>3, <1>4, <1>5 DEF LeftAlone

\* What the steps of the counter need of the invariants.
LEMMA Counters ==
    ASSUME SessionIInv, ValueIInv, NEW s \in Sessions
    PROVE  /\ generation[s] \in Nat /\ current[s] \in Nat /\ current[s] <= generation[s]
           /\ generation[s] + 1 > generation[s] /\ generation[s] + 2 > generation[s]
           /\ generation[s] + 1 \in Nat /\ generation[s] + 2 \in Nat
           /\ \A g \in Generations : g > generation[s] => delivered[s][g] = 0
<1>1. /\ generation[s] \in Nat /\ current[s] \in Nat /\ current[s] <= generation[s]
      /\ \A g \in Generations : lease[s][g] # "none" => g <= current[s]
      /\ \A g \in Generations : lease[s][g] = "none" => delivered[s][g] = 0
  BY DEF SessionIInv, SessionTypeOK, Consistent, Numbered, ValueIInv, ValueAgrees
<1> QED
  BY <1>1 DEF Generations

\* A lease that is opened supersedes the shown value by its generation.
LEMMA OpeningSupersedes ==
    ASSUME SessionIInv, ValueIInv, NEW s \in Sessions, NEW g \in Generations,
           g > generation[s], SourceOpens(s, g),
           generation' = [generation EXCEPT ![s] = g],
           closing' = closing, value' = value, delivered' = delivered
    PROVE  LeftAlone
<1>1. SessionTypeOK
  BY DEF SessionIInv
<1>2. ASSUME NEW t \in Sessions, t # s PROVE Keeps(t)
  BY <1>1, <1>2 DEF SourceOpens, SessionTypeOK, Keeps
<1>3. /\ current'[s] = g /\ generation'[s] = g
      /\ \A h \in Generations : lease'[s][h] = IF h = g THEN "opening" ELSE lease[s][h]
  BY <1>1, SourceCalled DEF SessionTypeOK
<1>4. Outdates(s)
  BY <1>3, Counters DEF Outdates
<1> QED
  BY <1>2, <1>4 DEF LeftAlone

\* A restart that only counts a generation supersedes the shown value too.
LEMMA CountingSupersedes ==
    ASSUME SessionIInv, ValueIInv, NEW s \in Sessions, NEW n \in Nat, n > generation[s],
           generation' = [generation EXCEPT ![s] = n],
           closing[s] # "done", lease' = lease, current' = current,
           closing' = closing, value' = value, delivered' = delivered
    PROVE  LeftAlone
<1>1. SessionTypeOK
  BY DEF SessionIInv
<1>2. ASSUME NEW t \in Sessions, t # s PROVE Keeps(t)
  BY <1>1, <1>2 DEF SessionTypeOK, Keeps
<1>3. Outdates(s)
  <2>1. generation'[s] = n /\ current[s] < n
    BY <1>1, Counters DEF SessionTypeOK
  <2> QED
    BY <2>1 DEF Outdates
<1> QED
  BY <1>2, <1>3 DEF LeftAlone

\* Every step but accept() keeps, supersedes or retires, so it shows as before.
LEMMA OtherStepsShow ==
    ASSUME SessionIInv, ValueIInv, SessionIInv', [SessionNext]_sessionVars,
           \A s \in Sessions : \A g \in Generations : ~Deliver(s, g)
    PROVE  ValueIInv'
<1>1. SessionTypeOK /\ SessionTypeOK'
  BY DEF SessionIInv
<1>2. ASSUME NEW s \in Sessions, Open(s) PROVE LeftAlone
  <2>1. /\ generation[s] = 0 /\ 1 \in Generations /\ 1 \in Nat /\ 1 > generation[s]
        /\ closing[s] # "done" /\ generation' = [generation EXCEPT ![s] = 1]
        /\ closing' = closing /\ value' = value /\ delivered' = delivered
    BY <1>2, BoundIsNatural DEF Open, SessionIInv, Consistent, Unopened, Generations
  <2>2. CASE SourceOpens(s, 1)
    BY <2>1, <2>2, OpeningSupersedes
  <2>3. CASE SourceThrows
    BY <2>1, <2>3, CountingSupersedes DEF SourceThrows
  <2> QED
    BY <1>2, <2>2, <2>3 DEF Open
<1>3. ASSUME NEW s \in Sessions, Restart(s) PROVE LeftAlone
  <2>1. closing[s] # "done" /\ closing' = closing /\ value' = value /\ delivered' = delivered
    BY <1>3 DEF Restart, SessionIInv, Consistent, CloseFlags
  <2>2. generation[s] + 2 \in Generations
    BY <1>3, Counters, BoundIsNatural DEF Restart, Generations
  <2>3. CASE lease' = lease /\ current' = current
             /\ generation' = [generation EXCEPT ![s] = generation[s] + 1]
    BY <2>1, <2>3, Counters, CountingSupersedes
  <2>4. CASE lease' = lease /\ current' = current
             /\ generation' = [generation EXCEPT ![s] = generation[s] + 2]
    BY <2>1, <2>4, Counters, CountingSupersedes
  <2>5. CASE SourceOpens(s, generation[s] + 2)
             /\ generation' = [generation EXCEPT ![s] = generation[s] + 2]
    BY <2>1, <2>2, <2>5, Counters, OpeningSupersedes
  <2> QED
    BY <1>3, <2>3, <2>4, <2>5 DEF Restart, SourceThrows
<1>4. ASSUME NEW s \in Sessions, RestartDrained(s) PROVE LeftAlone
  <2>1. closing' = closing /\ value' = value /\ delivered' = delivered
    BY <1>4 DEF RestartDrained
  <2>2. CASE CloseWins(s)
    BY <1>4, <2>1, <2>2 DEF RestartDrained, Keeps, LeftAlone
  <2>3. CASE ~CloseWins(s)
    <3>1. /\ closing[s] # "done"
          /\ generation' = [generation EXCEPT ![s] = generation[s] + 1]
      BY <1>4, <2>3 DEF RestartDrained, CloseWins, SessionIInv, Consistent, CloseFlags
    <3>2. generation[s] + 1 \in Generations
      BY <1>4, Counters, BoundIsNatural DEF RestartDrained, SessionIInv, Consistent, Room,
         Generations
    <3>3. CASE SourceOpens(s, generation[s] + 1)
      BY <2>1, <3>1, <3>2, <3>3, Counters, OpeningSupersedes
    <3>4. CASE SourceThrows
      BY <2>1, <3>1, <3>4, Counters, CountingSupersedes DEF SourceThrows
    <3> QED
      BY <1>4, <2>3, <3>3, <3>4 DEF RestartDrained
  <2> QED
    BY <2>2, <2>3
<1>5. ASSUME NEW s \in Sessions, CloseDrained(s) PROVE LeftAlone
  <2>1. ASSUME NEW t \in Sessions, t # s PROVE Keeps(t)
    BY <1>1, <1>5, <2>1 DEF CloseDrained, SessionTypeOK, Keeps
  <2>2. Retires(s)
    BY <1>1, <1>5, Counters DEF CloseDrained, SessionTypeOK, Retires
  <2> QED
    BY <1>5, <2>1, <2>2 DEF CloseDrained, LeftAlone
<1>6. ASSUME NEW s \in Sessions, NEW g \in Generations, NEW state \in {"ready"} \cup Ended,
             MoveLease(s, g, state)
      PROVE  LeftAlone
  <2>1. \A t \in Sessions : \A h \in Generations :
            lease'[t][h] = IF t = s /\ h = g THEN state ELSE lease[t][h]
    BY <1>1, <1>6 DEF SessionTypeOK, MoveLease
  <2>2. state # "none"
    BY DEF Ended
  <2>3. \A t \in Sessions : \A h \in Generations : lease'[t][h] = "none" => lease[t][h] = "none"
    BY <2>1, <2>2
  <2> QED
    BY <1>6, <2>3 DEF MoveLease, Keeps, LeftAlone
<1>7. ASSUME NEW S \in SUBSET Sessions, CloseAll(S) PROVE LeftAlone
  <2>1. \A t \in Sessions : closing'[t] = "done" <=> closing[t] = "done"
    BY <1>7 DEF CloseAll
  <2> QED
    BY <1>7, <2>1 DEF CloseAll, Keeps, LeftAlone
<1>8. ASSUME generation' = generation, current' = current, closing' = closing,
             lease' = lease, value' = value, delivered' = delivered
      PROVE  LeftAlone
  <2>1. \A t \in Sessions : Keeps(t)
    BY <1>8 DEF Keeps
  <2> QED
    BY <1>8, <2>1 DEF LeftAlone
<1>9. LeftAlone
  <2>1. CASE UNCHANGED sessionVars
    BY <1>8, <2>1 DEF sessionVars
  <2>2. ASSUME NEW s \in Sessions, Progress(s) PROVE LeftAlone
    <3>1. ASSUME NEW g \in Generations, LeaseReady(s, g) \/ LeaseEnds(s, g) PROVE LeftAlone
      BY <1>6, <3>1 DEF LeaseReady, LeaseEnds, Ended
    <3>2. ASSUME RestartSettled(s) PROVE LeftAlone
      BY <1>8, <3>2 DEF RestartSettled
    <3>3. ASSUME NEW g \in Generations, ReadySettled(s, g) \/ LeaseSettled(s, g)
          PROVE  LeftAlone
      BY <1>8, <3>3 DEF ReadySettled, LeaseSettled
    <3> QED
      BY <1>4, <1>5, <2>2, <3>1, <3>2, <3>3 DEF Progress
  <2> QED
    BY <1>2, <1>3, <1>7, <2>1, <2>2 DEF SessionNext
<1> QED
  BY <1>1, <1>9, ValuesLeftAlone

-----------------------------------------------------------------------------
\* A session that was not constructed shows no value.
LEMMA InitShows == SessionInit => ValueIInv
BY DEF SessionInit, ValueIInv, ValueAgrees, LatestShown, NoValue

\* Every step of a session preserves the value invariant.
LEMMA NextShows == SessionIInv /\ ValueIInv /\ [SessionNext]_sessionVars => ValueIInv'
<1> SUFFICES ASSUME SessionIInv, ValueIInv, [SessionNext]_sessionVars PROVE ValueIInv'
  OBVIOUS
<1>1. CASE \E s \in Sessions : \E g \in Generations : Deliver(s, g)
  BY <1>1, DeliverShows
<1>2. CASE \A s \in Sessions : \A g \in Generations : ~Deliver(s, g)
  BY <1>2, NextConsistent, OtherStepsShow
<1> QED
  BY <1>1, <1>2

\* Every session shows the latest value that its latest lease delivered, or one
\* that a restart has superseded.
THEOREM ValueInvariant == SessionSpec => [](SessionIInv /\ ValueIInv)
<1>1. SessionInit => SessionIInv /\ ValueIInv
  BY InitConsistent, InitShows
<1>2. SessionIInv /\ ValueIInv /\ [SessionNext]_sessionVars => (SessionIInv /\ ValueIInv)'
  BY NextConsistent, NextShows
<1> QED
  BY <1>1, <1>2, PTL DEF SessionSpec

\* A graceful close shows the last value of the lease it drained, whatever
\* restarts were tried before it.
THEOREM CloseKeepsLastValue == SessionSpec => []FinalValueKept
<1>1. SessionIInv /\ ValueIInv => FinalValueKept
  BY DEF ValueIInv, LatestShown, FinalValueKept
<1> QED
  BY <1>1, ValueInvariant, PTL

\* The value never goes back to an earlier lease or an earlier value, and it
\* does not change while a restart drains the previous lease.
THEOREM ValueNeverGoesBack == SessionSpec => ValuesMoveForward
<1> DEFINE Forward == \A s \in Sessions :
                         value'[s] # value[s] =>
                            /\ restarting[s] # "draining"
                            /\ \/ value'[s].by > value[s].by
                               \/ value'[s].by = value[s].by /\ value'[s].n = value[s].n + 1
<1>1. SessionIInv /\ ValueIInv /\ [SessionNext]_sessionVars => [Forward]_sessionVars
  <2> SUFFICES ASSUME SessionIInv, ValueIInv, SessionNext PROVE Forward
    OBVIOUS
  <2>1. CASE value' = value
    BY <2>1
  <2>2. ASSUME NEW s \in Sessions, NEW g \in Generations, Deliver(s, g) PROVE Forward
    <3>1. SessionTypeOK /\ LeaseOpen(s, g)
      BY <2>2 DEF SessionIInv, Deliver
    <3>2. CASE g # generation[s]
      BY <2>2, <3>2 DEF Deliver, Accepts
    <3>3. CASE g = generation[s]
      <4>1. \A t \in Sessions : t # s => value'[t] = value[t]
        BY <2>2, <3>1 DEF Deliver, SessionTypeOK
      <4>2. value'[s] = [by |-> g, n |-> delivered[s][g] + 1] /\ restarting[s] # "draining"
        BY <2>2, <3>1, <3>3, AcceptedIsLatest DEF Deliver, SessionTypeOK
      <4>3. value[s].by < g \/ (value[s].by = g /\ value[s].n = delivered[s][g])
        <5>1. value[s].by \in Nat /\ g \in Nat /\ g # 0
          BY <3>1 DEF SessionTypeOK, Generations
        <5>2. value[s].by <= g /\ (value[s].by = g => value[s].n = delivered[s][g])
          BY <3>3, <5>1 DEF ValueIInv, ValueAgrees
        <5> QED
          BY <5>1, <5>2
      <4> QED
        BY <4>1, <4>2, <4>3 DEF Generations
    <3> QED
      BY <3>2, <3>3
  <2> QED
    BY <2>1, <2>2 DEF SessionNext, Progress, Open, Restart, RestartDrained, RestartSettled,
       CloseDrained, ReadySettled, LeaseSettled, LeaseReady, LeaseEnds, MoveLease, CloseAll
<1> QED
  BY <1>1, ValueInvariant, PTL DEF SessionSpec, ValuesMoveForward

-----------------------------------------------------------------------------
(***************************************************************************)
(* The inductive invariant.                                                *)
(***************************************************************************)
RegistryTypeOK ==
    /\ idleGrace \in GraceModes
    /\ sessions \in [Keys -> Sessions \cup {None}]
    /\ cleanupTimers \in [Keys -> Sessions \cup {None}]
    /\ armed \in SUBSET Sessions
    /\ identity \in [Sessions -> [key : Keys \cup {None},
                                  contract : Contracts \cup {None}]]
    /\ references \in [Sessions -> Nat]
    /\ handle \in [Handles -> Sessions \cup {None}]
    /\ released \in SUBSET Handles
    /\ registryPhase \in {"open", "closing", "closed"}
    /\ awaited \in SUBSET Sessions

\* Only a handle that acquire() has returned can be released.
ReleasedOnce == \A h \in released : handle[h] # None

\* close() empties the map for good.
EmptyAfterClose == registryPhase # "open" => \A k \in Keys : sessions[k] = None

\* The registry knows nothing of a session that it has not constructed ...
Unknown(s) ==
    phase[s] = "none" =>
        /\ \A h \in Handles : handle[h] # s
        /\ \A k \in Keys : sessions[k] # s /\ cleanupTimers[k] # s
        /\ s \notin armed

\* ... and files one that it has under its key.
Filed(s) ==
    /\ phase[s] # "none" => identity[s].key \in Keys
    /\ \A k \in Keys : sessions[k] = s => identity[s].key = k /\ ~closeRequested[s]
    /\ \A k \in Keys : cleanupTimers[k] = s => identity[s].key = k

Reachable(s) == phase[s] # "none" /\ ~closeRequested[s] => sessions[identity[s].key] = s

Counted(s) == references[s] = Cardinality(Holders(s))

Held(s) == registryPhase = "open" /\ Holders(s) # {} => ~closeRequested[s]

\* A timer runs for a session without holders.  While the registry is open it is
\* the timer stored for the key, of a session that is not being closed.
Timed(s) ==
    s \in armed =>
        /\ Holders(s) = {}
        /\ registryPhase = "open" => ~closeRequested[s] /\ cleanupTimers[identity[s].key] = s

Planned(s) ==
    phase[s] # "none" /\ Holders(s) = {} => closeRequested[s] \/ s \in armed

Tracked(s) ==
    /\ Unknown(s) /\ Filed(s) /\ Reachable(s) /\ Counted(s)
    /\ Held(s) /\ Timed(s) /\ Planned(s)

RegistryConsistent ==
    /\ RegistryTypeOK /\ ReleasedOnce /\ EmptyAfterClose
    /\ \A s \in Sessions : Tracked(s)

RegistryIInv == SessionIInv /\ RegistryConsistent

-----------------------------------------------------------------------------
\* None names no session, key or contract.
LEMMA NoneIsNoSession == None \notin Sessions /\ None \notin Keys
BY RegistryAssumption

\* The holders of a session can be counted.
LEMMA HoldersFinite == ASSUME NEW s PROVE IsFiniteSet(Holders(s))
BY RegistryAssumption, FS_Subset DEF Holders

\* A handle that was not released counts.
LEMMA HolderCounts ==
    ASSUME NEW s, NEW h \in Handles, handle[h] = s, h \notin released
    PROVE  /\ h \in Holders(s)
           /\ Cardinality(Holders(s)) \in Nat \ {0}
<1>1. h \in Holders(s)
  BY DEF Holders
<1>2. Cardinality(Holders(s)) \in Nat /\ Cardinality(Holders(s)) # 0
  BY <1>1, HoldersFinite, FS_CardinalityType, FS_EmptySet
<1> QED
  BY <1>1, <1>2

\* The invariant in the initial state.
LEMMA InitTracked == Init => RegistryConsistent
<1> SUFFICES ASSUME Init PROVE RegistryConsistent
  OBVIOUS
<1>1. RegistryTypeOK
  BY DEF Init, RegistryTypeOK, NoIdentity
<1>2. ReleasedOnce /\ EmptyAfterClose
  BY DEF Init, ReleasedOnce, EmptyAfterClose
<1>3. ASSUME NEW s \in Sessions PROVE Tracked(s)
  <2>1. \A h \in Handles : handle[h] # s
    BY NoneIsNoSession DEF Init
  <2>2. Holders(s) = {}
    BY <2>1 DEF Holders
  <2>3. phase[s] = "none" /\ s \notin armed /\ references[s] = 0
    BY DEF Init, SessionInit
  <2>4. \A k \in Keys : sessions[k] # s /\ cleanupTimers[k] # s
    BY NoneIsNoSession DEF Init
  <2>5. Counted(s)
    BY <2>2, <2>3, FS_EmptySet DEF Counted
  <2> QED
    BY <2>1, <2>2, <2>3, <2>4, <2>5 DEF Tracked, Unknown, Filed, Reachable, Held, Timed, Planned
<1> QED
  BY <1>1, <1>2, <1>3 DEF RegistryConsistent

-----------------------------------------------------------------------------
(***************************************************************************)
(* Every step of the registry is a step of the sessions.                   *)
(***************************************************************************)
\* close() of constructed sessions is a step of theirs.
LEMMA CloseAllIsSessionStep ==
    ASSUME NEW S, \A s \in S : s \in Sessions /\ phase[s] # "none", CloseAll(S)
    PROVE  SessionNext
BY DEF SessionNext

\* A session that is handed out, in the map or timed has been constructed.
LEMMA KnownIsConstructed ==
    ASSUME RegistryConsistent
    PROVE  /\ \A h \in Handles : handle[h] # None =>
                  handle[h] \in Sessions /\ phase[handle[h]] # "none"
           /\ \A k \in Keys : sessions[k] # None =>
                  sessions[k] \in Sessions /\ phase[sessions[k]] # "none"
           /\ \A s \in armed : s \in Sessions /\ phase[s] # "none"
BY DEF RegistryConsistent, RegistryTypeOK, Tracked, Unknown

\* Whatever the registry does, each session does what SharedSession allows.
LEMMA NextRunsSessions ==
    RegistryConsistent /\ [Next]_vars => [SessionNext]_sessionVars
<1> SUFFICES ASSUME RegistryConsistent, [Next]_vars PROVE [SessionNext]_sessionVars
  OBVIOUS
<1>1. ASSUME NEW h \in Handles, NEW k \in Keys, NEW c \in Contracts, Acquire(h, k, c)
      PROVE [SessionNext]_sessionVars
  BY <1>1 DEF Acquire, AcquireShared, AcquireNew, SessionNext
<1>2. ASSUME NEW h \in Handles, Release(h) PROVE [SessionNext]_sessionVars
  <2>1. handle[h] \in Sessions /\ phase[handle[h]] # "none"
    BY <1>2, KnownIsConstructed DEF Release
  <2>2. CASE CloseAll({handle[h]})
    BY <2>1, <2>2, CloseAllIsSessionStep
  <2>3. CASE UNCHANGED sessionVars
    BY <2>3
  <2> QED
    BY <1>2, <2>2, <2>3 DEF Release, ReleaseIdle
<1>3. ASSUME NEW h \in Handles, RestartHandle(h) PROVE [SessionNext]_sessionVars
  BY <1>3, KnownIsConstructed DEF RestartHandle, SessionNext
<1>4. ASSUME NEW k \in Keys, RestartKey(k) PROVE [SessionNext]_sessionVars
  BY <1>4, KnownIsConstructed DEF RestartKey, SessionNext
<1>5. ASSUME NEW s \in Sessions, IdleTimeout(s) PROVE [SessionNext]_sessionVars
  <2>1. phase[s] # "none"
    BY <1>5, KnownIsConstructed DEF IdleTimeout
  <2>2. CASE CloseAll({s})
    BY <2>1, <2>2, CloseAllIsSessionStep
  <2>3. CASE UNCHANGED sessionVars
    BY <2>3
  <2> QED
    BY <1>5, <2>2, <2>3 DEF IdleTimeout
<1>6. ASSUME NEW s \in Sessions, SessionProgress(s) PROVE [SessionNext]_sessionVars
  BY <1>6 DEF SessionProgress, SessionNext
<1>7. CASE CloseRegistry
  <2>1. \A s \in {sessions[k] : k \in Keys} \ {None} : s \in Sessions /\ phase[s] # "none"
    BY KnownIsConstructed
  <2> QED
    BY <1>7, <2>1, CloseAllIsSessionStep DEF CloseRegistry
<1>8. CASE RegistryClosed
  BY <1>8 DEF RegistryClosed
<1>9. CASE UNCHANGED vars
  BY <1>9 DEF vars
<1> QED
  BY <1>1, <1>2, <1>3, <1>4, <1>5, <1>6, <1>7, <1>8, <1>9 DEF Next

-----------------------------------------------------------------------------
(***************************************************************************)
(* The invariant is preserved: first the steps that leave the registry's   *)
(* own variables alone.                                                    *)
(***************************************************************************)
\* What a step of a session means to the registry: nothing.
SameStatus ==
    /\ closeRequested' = closeRequested
    /\ \A t \in Sessions : phase'[t] = "none" <=> phase[t] = "none"

\* finish() does not undo the construction of a session.
LEMMA FinishKeepsStatus ==
    ASSUME SessionTypeOK, NEW s \in Sessions, phase[s] # "none", NEW g,
           NEW outcome \in {"live", "closed", "error"}, Finish(s, g, outcome)
    PROVE  \A t \in Sessions : phase'[t] = "none" <=> phase[t] = "none"
BY DEF Finish, SessionTypeOK

\* Only a constructed session has continuations to run.
LEMMA OnlyConstructedRun ==
    ASSUME SessionIInv, NEW s \in Sessions
    PROVE  /\ restarting[s] # "no" => phase[s] # "none"
           /\ closing[s] # "no" => phase[s] # "none"
           /\ \A g \in Generations : g \in starting[s] \cup watching[s] => phase[s] # "none"
<1>1. Unopened(s) /\ Numbered(s) /\ SessionTypeOK
  BY DEF SessionIInv, Consistent
<1>2. ASSUME NEW g \in Generations, g \in starting[s] \cup watching[s], phase[s] = "none"
      PROVE FALSE
  <2>1. g <= current[s] /\ current[s] <= generation[s] /\ generation[s] = 0
    BY <1>1, <1>2 DEF Unopened, Numbered
  <2>2. g \in Int /\ g >= 1 /\ current[s] \in Int
    BY <1>1, BoundIsNatural DEF Generations, SessionTypeOK
  <2> QED
    BY <2>1, <2>2
<1> QED
  BY <1>1, <1>2 DEF Unopened

\* A restart or a continuation of a session is nothing to the registry.
LEMMA SessionStepKeepsStatus ==
    ASSUME SessionIInv, NEW s \in Sessions, Restart(s) \/ Progress(s)
    PROVE  SameStatus
<1>1. SessionTypeOK
  BY DEF SessionIInv
<1>2. CASE Restart(s)
  BY <1>1, <1>2 DEF Restart, SessionTypeOK, SameStatus
<1>3. CASE RestartDrained(s)
  BY <1>1, <1>3, OnlyConstructedRun DEF RestartDrained, SessionTypeOK, SameStatus
<1>4. CASE RestartSettled(s)
  BY <1>4 DEF RestartSettled, SameStatus
<1>5. CASE CloseDrained(s)
  BY <1>1, <1>5, OnlyConstructedRun DEF CloseDrained, SessionTypeOK, SameStatus
<1>6. ASSUME NEW g \in Generations, ReadySettled(s, g) PROVE SameStatus
  <2>1. phase[s] # "none"
    BY <1>6, OnlyConstructedRun DEF ReadySettled
  <2>2. \A t \in Sessions : phase'[t] = "none" <=> phase[t] = "none"
    BY <1>1, <1>6, <2>1, FinishKeepsStatus DEF ReadySettled
  <2> QED
    BY <1>6, <2>2 DEF ReadySettled, SameStatus
<1>7. ASSUME NEW g \in Generations, LeaseSettled(s, g) PROVE SameStatus
  <2>1. phase[s] # "none"
    BY <1>7, OnlyConstructedRun DEF LeaseSettled
  <2>2. \A t \in Sessions : phase'[t] = "none" <=> phase[t] = "none"
    BY <1>1, <1>7, <2>1, FinishKeepsStatus DEF LeaseSettled
  <2> QED
    BY <1>7, <2>2 DEF LeaseSettled, SameStatus
<1>8. ASSUME NEW g \in Generations, Deliver(s, g) \/ LeaseReady(s, g) \/ LeaseEnds(s, g)
      PROVE SameStatus
  BY <1>8 DEF Deliver, LeaseReady, LeaseEnds, MoveLease, SameStatus
<1> QED
  BY <1>2, <1>3, <1>4, <1>5, <1>6, <1>7, <1>8 DEF Progress

\* Steps that only move sessions or registryPhase preserve the invariant.
LEMMA StatusFrame ==
    ASSUME RegistryConsistent, SameStatus,
           UNCHANGED <<idleGrace, sessions, cleanupTimers, armed, identity, references,
                       handle, released>>,
           EmptyAfterClose',
           registryPhase' = "open" => registryPhase = "open",
           registryPhase' \in {"open", "closing", "closed"}, awaited' \in SUBSET Sessions
    PROVE  RegistryConsistent'
<1>1. RegistryTypeOK' /\ ReleasedOnce'
  BY DEF RegistryConsistent, RegistryTypeOK, ReleasedOnce
<1>2. ASSUME NEW t \in Sessions PROVE Tracked(t)'
  <2>1. Tracked(t)
    BY DEF RegistryConsistent
  <2>2. Holders(t)' = Holders(t)
    BY DEF Holders
  <2>3. (phase'[t] = "none" <=> phase[t] = "none") /\ closeRequested' = closeRequested
    BY DEF SameStatus
  <2> QED
    BY <2>1, <2>2, <2>3 DEF Tracked, Unknown, Filed, Reachable, Counted, Held, Timed, Planned
<1> QED
  BY <1>1, <1>2 DEF RegistryConsistent

-----------------------------------------------------------------------------
(***************************************************************************)
(* acquire().                                                              *)
(***************************************************************************)
\* A handle that joins the holders of s.
LEMMA HolderJoins ==
    ASSUME RegistryConsistent, NEW s \in Sessions, NEW h \in Handles, handle[h] = None,
           handle' = [handle EXCEPT ![h] = s], released' = released
    PROVE  /\ Holders(s)' = Holders(s) \cup {h}
           /\ h \notin Holders(s)
           /\ \A t \in Sessions \ {s} : Holders(t)' = Holders(t)
           /\ Cardinality(Holders(s)') = Cardinality(Holders(s)) + 1
<1>1. h \notin released
  BY DEF RegistryConsistent, ReleasedOnce
<1>2. \A i \in Handles : handle'[i] = IF i = h THEN s ELSE handle[i]
  BY DEF RegistryConsistent, RegistryTypeOK
<1>3. Holders(s)' = Holders(s) \cup {h}
  BY <1>1, <1>2 DEF Holders
<1>4. h \notin Holders(s)
  BY NoneIsNoSession DEF Holders
<1>5. \A t \in Sessions \ {s} : Holders(t)' = Holders(t)
  BY <1>2, NoneIsNoSession DEF Holders
<1>6. Cardinality(Holders(s)') = Cardinality(Holders(s)) + 1
  BY <1>3, <1>4, HoldersFinite, FS_AddElement
<1> QED
  BY <1>3, <1>4, <1>5, <1>6

\* Only the session that its key names can have a timer while the registry is open.
LEMMA TimedIsMapped ==
    ASSUME RegistryConsistent, registryPhase = "open", NEW s \in armed
    PROVE  /\ s \in Sessions
           /\ identity[s].key \in Keys
           /\ sessions[identity[s].key] = s
           /\ cleanupTimers[identity[s].key] = s
<1>1. s \in Sessions /\ Tracked(s)
  BY DEF RegistryConsistent, RegistryTypeOK
<1>2. phase[s] # "none"
  BY <1>1 DEF Tracked, Unknown
<1> QED
  BY <1>1, <1>2 DEF Tracked, Filed, Reachable, Timed

\* acquire() of an active key.
LEMMA SharedTracked ==
    ASSUME RegistryConsistent, NEW h \in Handles, NEW k \in Keys, NEW c \in Contracts,
           Acquire(h, k, c), AcquireShared(h, k, c)
    PROVE  RegistryConsistent'
<1> DEFINE s == sessions[k]
<1>1. s \in Sessions /\ phase[s] # "none" /\ identity[s].key = k /\ ~closeRequested[s]
  <2>1. s \in Sessions
    BY DEF AcquireShared, RegistryConsistent, RegistryTypeOK
  <2>2. Tracked(s)
    BY <2>1 DEF RegistryConsistent
  <2> QED
    BY <2>1, <2>2 DEF Tracked, Unknown, Filed
<1>2. /\ registryPhase = "open" /\ registryPhase' = "open" /\ handle[h] = None
      /\ handle' = [handle EXCEPT ![h] = s] /\ released' = released
      /\ references' = [references EXCEPT ![s] = @ + 1]
      /\ armed' = armed \ {cleanupTimers[k]}
      /\ cleanupTimers' = [cleanupTimers EXCEPT ![k] = None]
      /\ sessions' = sessions /\ identity' = identity
      /\ phase' = phase /\ closeRequested' = closeRequested
      /\ idleGrace' = idleGrace /\ awaited' = awaited
  BY DEF Acquire, AcquireShared, Disarm, sessionVars
<1>3. /\ Holders(s)' = Holders(s) \cup {h}
      /\ \A t \in Sessions \ {s} : Holders(t)' = Holders(t)
      /\ Cardinality(Holders(s)') = Cardinality(Holders(s)) + 1
  BY <1>1, <1>2, HolderJoins
<1>4. RegistryTypeOK'
  BY <1>1, <1>2 DEF RegistryConsistent, RegistryTypeOK
<1>5. ReleasedOnce' /\ EmptyAfterClose'
  BY <1>1, <1>2, NoneIsNoSession DEF RegistryConsistent, RegistryTypeOK, ReleasedOnce, EmptyAfterClose
<1>6. ASSUME NEW t \in Sessions PROVE Tracked(t)'
  <2>1. Tracked(t) /\ RegistryTypeOK
    BY DEF RegistryConsistent
  <2>2. Unknown(t)'
    BY <1>1, <1>2, <2>1, NoneIsNoSession DEF Tracked, Unknown, RegistryTypeOK
  <2>3. Filed(t)' /\ Reachable(t)'
    BY <1>2, <2>1, NoneIsNoSession DEF Tracked, Filed, Reachable, RegistryTypeOK
  <2>4. Counted(t)'
    BY <1>2, <1>3, <2>1 DEF Tracked, Counted, RegistryTypeOK
  <2>5. Held(t)'
    BY <1>1, <1>2, <1>3, <2>1 DEF Tracked, Held
  <2>6. t \in armed' => t # s /\ t \in armed /\ identity[t].key # k
    <3>1. ASSUME t \in armed, identity[t].key = k PROVE t \notin armed'
      BY <1>2, <3>1, TimedIsMapped
    <3> QED
      BY <1>1, <1>2, <3>1
  <2>7. Timed(t)'
    BY <1>2, <1>3, <2>1, <2>6 DEF Tracked, Timed, RegistryTypeOK
  <2>8. t \in armed /\ t \notin armed' => t = s
    <3>1. ASSUME t \in armed, t \notin armed' PROVE t = s
      <4>1. cleanupTimers[k] = t /\ identity[t].key = k
        BY <1>2, <2>1, <3>1 DEF Tracked, Filed
      <4> QED
        BY <1>2, <3>1, <4>1, TimedIsMapped
    <3> QED
      BY <3>1
  <2>9. Planned(t)'
    BY <1>2, <1>3, <2>1, <2>8 DEF Tracked, Planned
  <2> QED
    BY <2>2, <2>3, <2>4, <2>5, <2>7, <2>9 DEF Tracked
<1> QED
  BY <1>4, <1>5, <1>6 DEF RegistryConsistent

\* acquire() of a key without a session.
LEMMA NewTracked ==
    ASSUME RegistryConsistent, SessionIInv, NEW h \in Handles, NEW k \in Keys,
           NEW c \in Contracts, NEW s \in Sessions, Acquire(h, k, c), AcquireNew(h, k, c, s)
    PROVE  RegistryConsistent'
<1>1. /\ registryPhase = "open" /\ registryPhase' = "open" /\ handle[h] = None
      /\ sessions[k] = None
      /\ handle' = [handle EXCEPT ![h] = s] /\ released' = released
      /\ references' = [references EXCEPT ![s] = @ + 1]
      /\ armed' = armed \ {cleanupTimers[k]}
      /\ cleanupTimers' = [cleanupTimers EXCEPT ![k] = None]
      /\ sessions' = [sessions EXCEPT ![k] = s]
      /\ identity' = [identity EXCEPT ![s] = [key |-> k, contract |-> c]]
      /\ idleGrace' = idleGrace /\ awaited' = awaited
  BY DEF Acquire, AcquireNew, Disarm
<1>2. /\ phase[s] = "none" /\ ~closeRequested[s]
      /\ phase'[s] # "none" /\ closeRequested' = closeRequested
      /\ \A t \in Sessions \ {s} : phase'[t] = phase[t]
  <2>1. SessionTypeOK /\ Consistent(s)
    BY DEF SessionIInv
  <2>2. Open(s)
    BY DEF AcquireNew
  <2> QED
    BY <2>1, <2>2 DEF Open, SessionTypeOK, Consistent, Unopened, CloseFlags
<1>3. /\ Holders(s)' = Holders(s) \cup {h}
      /\ \A t \in Sessions \ {s} : Holders(t)' = Holders(t)
      /\ Cardinality(Holders(s)') = Cardinality(Holders(s)) + 1
  BY <1>1, HolderJoins
<1>4. RegistryTypeOK'
  BY <1>1 DEF RegistryConsistent, RegistryTypeOK
<1>5. ReleasedOnce' /\ EmptyAfterClose'
  BY <1>1, NoneIsNoSession DEF RegistryConsistent, RegistryTypeOK, ReleasedOnce, EmptyAfterClose
<1>6. ASSUME NEW t \in Sessions, t # s PROVE Tracked(t)'
  <2>1. Tracked(t) /\ RegistryTypeOK
    BY DEF RegistryConsistent
  <2>2. Unknown(t)'
    BY <1>1, <1>2, <1>6, <2>1, NoneIsNoSession DEF Tracked, Unknown, RegistryTypeOK
  <2>3. identity'[t] = identity[t] /\ phase'[t] = phase[t] /\ Holders(t)' = Holders(t)
        /\ references'[t] = references[t]
    BY <1>1, <1>2, <1>3, <1>6, <2>1 DEF RegistryTypeOK
  <2>4. Filed(t)'
    BY <1>1, <1>2, <1>6, <2>1, <2>3, NoneIsNoSession DEF Tracked, Filed, RegistryTypeOK
  <2>5. sessions[k] # t
    BY <1>1, NoneIsNoSession
  <2>6. Reachable(t)'
    BY <1>1, <1>2, <1>6, <2>1, <2>3, <2>5 DEF Tracked, Filed, Reachable, RegistryTypeOK
  <2>7. Counted(t)'
    BY <2>1, <2>3 DEF Tracked, Counted
  <2>8. Held(t)'
    BY <1>1, <1>2, <2>1, <2>3 DEF Tracked, Held
  <2>9. t \in armed => identity[t].key # k /\ t # cleanupTimers[k]
    BY <1>1, <2>1, <2>5, TimedIsMapped DEF Tracked, Filed
  <2>10. Timed(t)'
    BY <1>1, <1>2, <2>1, <2>3, <2>9 DEF Tracked, Timed, RegistryTypeOK
  <2>11. Planned(t)'
    BY <1>1, <1>2, <2>1, <2>3, <2>9 DEF Tracked, Planned
  <2> QED
    BY <2>2, <2>4, <2>6, <2>7, <2>8, <2>10, <2>11 DEF Tracked
<1>7. Tracked(s)'
  <2>1. Tracked(s) /\ RegistryTypeOK
    BY DEF RegistryConsistent
  <2>2. /\ s \notin armed' /\ identity'[s].key = k /\ sessions'[k] = s
        /\ references'[s] = references[s] + 1
        /\ \A i \in Keys \ {k} : sessions'[i] # s
        /\ \A i \in Keys : cleanupTimers'[i] # s
    BY <1>1, <1>2, <2>1, NoneIsNoSession DEF Tracked, Unknown, RegistryTypeOK
  <2>3. Unknown(s)' /\ Filed(s)' /\ Reachable(s)' /\ Held(s)' /\ Timed(s)'
    BY <1>2, <2>2 DEF Unknown, Filed, Reachable, Held, Timed
  <2>4. Counted(s)'
    BY <1>3, <2>1, <2>2 DEF Tracked, Counted
  <2>5. Planned(s)'
    BY <1>3 DEF Planned
  <2> QED
    BY <2>3, <2>4, <2>5 DEF Tracked
<1> QED
  BY <1>4, <1>5, <1>6, <1>7 DEF RegistryConsistent

-----------------------------------------------------------------------------
(***************************************************************************)
(* release() and the idle timer.                                           *)
(***************************************************************************)
\* A handle that leaves the holders of its session.
LEMMA HolderLeaves ==
    ASSUME RegistryConsistent, NEW h \in Handles, handle[h] # None, h \notin released,
           released' = released \cup {h}, handle' = handle
    PROVE  /\ handle[h] \in Sessions
           /\ h \in Holders(handle[h])
           /\ Holders(handle[h])' = Holders(handle[h]) \ {h}
           /\ \A t \in Sessions \ {handle[h]} : Holders(t)' = Holders(t)
           /\ references[handle[h]] \in Nat \ {0}
           /\ Cardinality(Holders(handle[h])') = references[handle[h]] - 1
           /\ Holders(handle[h])' = {} <=> references[handle[h]] = 1
<1> DEFINE s == handle[h]
<1>1. s \in Sessions
  BY DEF RegistryConsistent, RegistryTypeOK
<1>2. h \in Holders(s) /\ Cardinality(Holders(s)) \in Nat \ {0}
  BY HolderCounts
<1>3. references[s] = Cardinality(Holders(s))
  BY <1>1 DEF RegistryConsistent, Tracked, Counted
<1>4. Holders(s)' = Holders(s) \ {h}
  BY DEF Holders
<1>5. \A t \in Sessions \ {s} : Holders(t)' = Holders(t)
  BY DEF Holders
<1>6. Cardinality(Holders(s)') = references[s] - 1 /\ IsFiniteSet(Holders(s)')
  BY <1>2, <1>3, <1>4, HoldersFinite, FS_RemoveElement
<1>7. Holders(s)' = {} <=> Cardinality(Holders(s)') = 0
  BY <1>6, FS_EmptySet
<1> QED
  BY <1>1, <1>2, <1>3, <1>4, <1>5, <1>6, <1>7

\* A held session is the one its key names, or the registry is closing.
LEMMA HeldIsMapped ==
    ASSUME RegistryConsistent, NEW s \in Sessions, Holders(s) # {}
    PROVE  /\ phase[s] # "none" /\ identity[s].key \in Keys /\ s \notin armed
           /\ registryPhase = "open" =>
                 ~closeRequested[s] /\ sessions[identity[s].key] = s
<1>1. Tracked(s)
  BY DEF RegistryConsistent
<1>2. phase[s] # "none"
  BY <1>1 DEF Tracked, Unknown, Holders
<1> QED
  BY <1>1, <1>2 DEF Tracked, Filed, Reachable, Held, Timed

\* Nothing but s is filed under its key, when s is in the map or the map is empty.
LEMMA OthersFiledElsewhere ==
    ASSUME RegistryConsistent, NEW s \in Sessions, identity[s].key \in Keys,
           registryPhase = "open" => sessions[identity[s].key] = s,
           NEW t \in Sessions, t # s, phase[t] # "none", ~closeRequested[t]
    PROVE  registryPhase = "open" /\ identity[t].key # identity[s].key
<1>1. identity[t].key \in Keys /\ sessions[identity[t].key] = t
  BY DEF RegistryConsistent, Tracked, Filed, Reachable
<1>2. registryPhase = "open"
  BY <1>1, NoneIsNoSession DEF RegistryConsistent, EmptyAfterClose
<1> QED
  BY <1>1, <1>2

\* close() of one session, and its key forgotten.
LEMMA ClosedTracked ==
    ASSUME RegistryConsistent, NEW s \in Sessions, phase[s] # "none",
           identity[s].key \in Keys,
           registryPhase = "open" => sessions[identity[s].key] = s,
           sessions' = [sessions EXCEPT ![identity[s].key] = None],
           CloseAll({s}), s \notin armed',
           identity' = identity, handle' = handle, registryPhase' = registryPhase,
           Counted(s)', Holders(s)' = {},
           \A i \in Keys : cleanupTimers'[i] = s => identity[s].key = i
    PROVE  Tracked(s)'
<1>1. closeRequested'[s] /\ phase'[s] # "none"
  BY DEF CloseAll
<1>2. \A i \in Keys : sessions'[i] # s
  BY NoneIsNoSession DEF RegistryConsistent, RegistryTypeOK, Tracked, Filed
<1>3. Held(s)'
  BY DEF Held
<1> QED
  BY <1>1, <1>2, <1>3 DEF Tracked, Unknown, Filed, Reachable, Timed, Planned

\* release(): the last holder closes the session or starts its timer.
LEMMA ReleaseTracked ==
    ASSUME RegistryConsistent, NEW h \in Handles, NEW s \in Sessions, handle[h] = s,
           Release(h)
    PROVE  RegistryConsistent'
<1> DEFINE k == identity[s].key
<1>1. /\ handle[h] = s /\ s # None /\ h \notin released
      /\ released' = released \cup {h} /\ handle' = handle
      /\ references' = [references EXCEPT ![s] = @ - 1]
      /\ idleGrace' = idleGrace /\ identity' = identity
      /\ registryPhase' = registryPhase /\ awaited' = awaited
  BY DEF Release, FirstCall
<1>2. /\ h \in Holders(s)
      /\ references[s] \in Nat \ {0}
      /\ Cardinality(Holders(s)') = references[s] - 1
      /\ Holders(s)' = {} <=> references[s] = 1
      /\ \A t \in Sessions \ {s} : Holders(t)' = Holders(t)
  BY <1>1, HolderLeaves
<1>3. /\ phase[s] # "none" /\ k \in Keys /\ s \notin armed
      /\ registryPhase = "open" => ~closeRequested[s] /\ sessions[k] = s
  BY <1>2, HeldIsMapped
<1>4. references' \in [Sessions -> Nat] /\ references'[s] = references[s] - 1
      /\ \A t \in Sessions \ {s} : references'[t] = references[t]
  <2>1. references \in [Sessions -> Nat]
    BY DEF RegistryConsistent, RegistryTypeOK
  <2>2. references[s] - 1 \in Nat
    BY <1>2
  <2>3. references' = [references EXCEPT ![s] = references[s] - 1]
    BY <1>1
  <2> QED
    BY <2>1, <2>2, <2>3
<1>5. \A t \in Sessions : Counted(t)'
  BY <1>2, <1>4 DEF RegistryConsistent, Tracked, Counted
<1>6. ReleasedOnce'
  BY <1>1 DEF RegistryConsistent, ReleasedOnce
<1>7. CASE ~LastReference(s) /\ UNCHANGED <<sessions, cleanupTimers, armed, sessionVars>>
  <2>1. sessions' = sessions /\ cleanupTimers' = cleanupTimers /\ armed' = armed
        /\ phase' = phase /\ closeRequested' = closeRequested
    BY <1>7 DEF sessionVars
  <2>2. RegistryTypeOK' /\ EmptyAfterClose'
    BY <1>1, <1>4, <2>1 DEF RegistryConsistent, RegistryTypeOK, EmptyAfterClose
  <2>3. Holders(s)' # {}
    BY <1>2, <1>7 DEF LastReference
  <2>4. ASSUME NEW t \in Sessions PROVE Tracked(t)'
    <3>1. Tracked(t) /\ Counted(t)' /\ Holders(t)' \subseteq Holders(t)
      BY <1>1, <1>5 DEF RegistryConsistent, Holders
    <3>2. Unknown(t)' /\ Filed(t)' /\ Reachable(t)'
      BY <1>1, <2>1, <3>1 DEF Tracked, Unknown, Filed, Reachable
    <3>3. Held(t)' /\ Timed(t)'
      BY <1>1, <2>1, <3>1 DEF Tracked, Held, Timed
    <3>4. Planned(t)'
      BY <1>2, <2>1, <2>3, <3>1 DEF Tracked, Planned
    <3> QED
      BY <3>1, <3>2, <3>3, <3>4 DEF Tracked
  <2> QED
    BY <1>6, <2>2, <2>4 DEF RegistryConsistent
<1>8. CASE /\ LastReference(s)
           /\ sessions' = [sessions EXCEPT ![k] = None]
           /\ CloseAll({s})
           /\ UNCHANGED <<cleanupTimers, armed>>
  <2>1. RegistryTypeOK' /\ EmptyAfterClose'
    BY <1>1, <1>3, <1>4, <1>8 DEF RegistryConsistent, RegistryTypeOK, EmptyAfterClose
  <2>2. Tracked(s)'
    <3>1. Holders(s)' = {}
      BY <1>2, <1>8 DEF LastReference
    <3>2. \A i \in Keys : cleanupTimers'[i] = s => k = i
      BY <1>2, <1>8 DEF RegistryConsistent, Tracked, Filed
    <3> QED
      BY <1>1, <1>2, <1>3, <1>5, <1>8, <3>1, <3>2, ClosedTracked
  <2>3. ASSUME NEW t \in Sessions, t # s PROVE Tracked(t)'
    <3>1. /\ Tracked(t) /\ Counted(t)' /\ Holders(t)' = Holders(t)
          /\ phase' = phase /\ (closeRequested'[t] <=> closeRequested[t])
      BY <1>2, <1>5, <1>8, <2>3 DEF RegistryConsistent, CloseAll
    <3>2. phase[t] # "none" /\ ~closeRequested[t] => identity[t].key # k
      BY <1>2, <1>3, <2>3, OthersFiledElsewhere
    <3>3. Unknown(t)' /\ Filed(t)' /\ Reachable(t)'
      BY <1>1, <1>3, <1>8, <3>1, <3>2, NoneIsNoSession
         DEF RegistryConsistent, RegistryTypeOK, Tracked, Unknown, Filed, Reachable
    <3>4. Held(t)' /\ Timed(t)' /\ Planned(t)'
      BY <1>1, <1>8, <3>1 DEF Tracked, Held, Timed, Planned
    <3> QED
      BY <3>1, <3>3, <3>4 DEF Tracked
  <2> QED
    BY <1>6, <2>1, <2>2, <2>3 DEF RegistryConsistent
<1>9. CASE /\ LastReference(s)
           /\ cleanupTimers' = [cleanupTimers EXCEPT ![k] = s]
           /\ armed' = armed \cup {s}
           /\ UNCHANGED <<sessions, sessionVars>>
  <2>1. sessions' = sessions /\ phase' = phase /\ closeRequested' = closeRequested
    BY <1>9 DEF sessionVars
  <2>2. RegistryTypeOK' /\ EmptyAfterClose'
    BY <1>1, <1>2, <1>3, <1>4, <1>9, <2>1 DEF RegistryConsistent, RegistryTypeOK, EmptyAfterClose
  <2>3. /\ \A i \in Keys : cleanupTimers'[i] = IF i = k THEN s ELSE cleanupTimers[i]
    BY <1>3, <1>9 DEF RegistryConsistent, RegistryTypeOK
  <2>4. ASSUME NEW t \in Sessions, t # s PROVE Tracked(t)'
    <3>1. Tracked(t) /\ Counted(t)' /\ Holders(t)' = Holders(t) /\ (t \in armed' <=> t \in armed)
      BY <1>2, <1>5, <1>9, <2>4 DEF RegistryConsistent
    <3>2. Unknown(t)' /\ Filed(t)' /\ Reachable(t)'
      BY <1>1, <2>1, <2>3, <2>4, <3>1 DEF Tracked, Unknown, Filed, Reachable
    <3>3. Held(t)' /\ Planned(t)'
      BY <1>1, <2>1, <3>1 DEF Tracked, Held, Planned
    <3>4. t \in armed /\ registryPhase = "open" => identity[t].key \in Keys \ {k}
      BY <1>3, <2>4, TimedIsMapped
    <3>5. Timed(t)'
      BY <1>1, <2>1, <2>3, <3>1, <3>4 DEF Tracked, Timed
    <3> QED
      BY <3>1, <3>2, <3>3, <3>5 DEF Tracked
  <2>5. Tracked(s)'
    <3>1. Tracked(s) /\ Counted(s)' /\ Holders(s)' = {}
      BY <1>2, <1>5, <1>9 DEF RegistryConsistent, LastReference
    <3>2. Unknown(s)' /\ Filed(s)' /\ Reachable(s)'
      BY <1>1, <1>3, <2>1, <2>3, <3>1 DEF Tracked, Unknown, Filed, Reachable
    <3>3. Held(s)' /\ Planned(s)' /\ Timed(s)'
      BY <1>1, <1>3, <1>9, <2>1, <2>3, <3>1 DEF Held, Planned, Timed
    <3> QED
      BY <3>1, <3>2, <3>3 DEF Tracked
  <2> QED
    BY <1>6, <2>2, <2>4, <2>5 DEF RegistryConsistent
<1> QED
  BY <1>7, <1>8, <1>9 DEF Release, ReleaseIdle

\* The idle timer.
LEMMA IdleTimeoutTracked ==
    ASSUME RegistryConsistent, NEW s \in Sessions, IdleTimeout(s)
    PROVE  RegistryConsistent'
<1> DEFINE k == identity[s].key
<1>1. /\ s \in armed /\ armed' = armed \ {s}
      /\ cleanupTimers' = [cleanupTimers EXCEPT ![k] = None]
      /\ identity' = identity /\ references' = references /\ handle' = handle
      /\ released' = released /\ registryPhase' = registryPhase
      /\ idleGrace' = idleGrace /\ awaited' = awaited
  BY DEF IdleTimeout
<1>2. Tracked(s) /\ RegistryTypeOK
  BY DEF RegistryConsistent
<1>3. phase[s] # "none" /\ k \in Keys /\ Holders(s) = {}
  BY <1>1, <1>2 DEF Tracked, Unknown, Filed, Timed
<1>4. registryPhase = "open" => sessions[k] = s /\ cleanupTimers[k] = s
  BY <1>1, TimedIsMapped
<1>5. \A i \in Keys : cleanupTimers'[i] = IF i = k THEN None ELSE cleanupTimers[i]
  BY <1>1, <1>2, <1>3 DEF RegistryTypeOK
<1>6. \A t \in Sessions : Holders(t)' = Holders(t) /\ Counted(t)'
  BY <1>1 DEF RegistryConsistent, Tracked, Counted, Holders
<1>7. ASSUME NEW t \in Sessions, t # s, closeRequested'[t] <=> closeRequested[t],
             phase'[t] = phase[t], Unknown(t)', Filed(t)', Reachable(t)'
      PROVE  Tracked(t)'
  <2>1. Tracked(t) /\ (t \in armed' <=> t \in armed)
    BY <1>1, <1>7 DEF RegistryConsistent
  <2>2. Held(t)' /\ Planned(t)'
    BY <1>1, <1>6, <1>7, <2>1 DEF Tracked, Held, Planned
  <2>3. t \in armed /\ registryPhase = "open" => identity[t].key \in Keys \ {k}
    BY <1>4, <1>7, TimedIsMapped
  <2>4. Timed(t)'
    BY <1>1, <1>5, <1>6, <1>7, <2>1, <2>3 DEF Tracked, Timed
  <2> QED
    BY <1>6, <1>7, <2>2, <2>4 DEF Tracked
<1>8. CASE /\ sessions[k] = s
           /\ sessions' = [sessions EXCEPT ![k] = None]
           /\ CloseAll({s})
  <2>1. RegistryTypeOK' /\ ReleasedOnce' /\ EmptyAfterClose'
    BY <1>1, <1>3, <1>8 DEF RegistryConsistent, RegistryTypeOK, ReleasedOnce, EmptyAfterClose
  <2>2. Tracked(s)'
    <3>1. \A i \in Keys : cleanupTimers'[i] = s => k = i
      BY <1>2, <1>5, NoneIsNoSession DEF Tracked, Filed
    <3>2. s \notin armed' /\ Holders(s)' = {} /\ Counted(s)'
      BY <1>1, <1>3, <1>6
    <3> QED
      BY <1>1, <1>3, <1>8, <3>1, <3>2, ClosedTracked
  <2>3. ASSUME NEW t \in Sessions, t # s PROVE Tracked(t)'
    <3>1. Tracked(t) /\ phase' = phase /\ (closeRequested'[t] <=> closeRequested[t])
      BY <1>8, <2>3 DEF RegistryConsistent, CloseAll
    <3>2. phase[t] # "none" /\ ~closeRequested[t] => identity[t].key # k
      BY <1>3, <1>8, <2>3, OthersFiledElsewhere
    <3>3. Unknown(t)' /\ Filed(t)' /\ Reachable(t)'
      BY <1>1, <1>2, <1>3, <1>5, <1>8, <3>1, <3>2, NoneIsNoSession
         DEF RegistryTypeOK, Tracked, Unknown, Filed, Reachable
    <3> QED
      BY <1>7, <2>3, <3>1, <3>3
  <2> QED
    BY <2>1, <2>2, <2>3 DEF RegistryConsistent
<1>9. CASE sessions[k] # s /\ UNCHANGED <<sessions, sessionVars>>
  <2>1. sessions' = sessions /\ phase' = phase /\ closeRequested' = closeRequested
    BY <1>9 DEF sessionVars
  <2>2. RegistryTypeOK' /\ ReleasedOnce' /\ EmptyAfterClose'
    BY <1>1, <1>3, <2>1 DEF RegistryConsistent, RegistryTypeOK, ReleasedOnce, EmptyAfterClose
  <2>3. ASSUME NEW t \in Sessions PROVE Unknown(t)' /\ Filed(t)' /\ Reachable(t)'
    <3>1. Tracked(t)
      BY DEF RegistryConsistent
    <3> QED
      BY <1>1, <1>5, <2>1, <3>1, NoneIsNoSession DEF Tracked, Unknown, Filed, Reachable
  <2>4. ASSUME NEW t \in Sessions, t # s PROVE Tracked(t)'
    BY <1>7, <2>1, <2>3, <2>4
  <2>5. Tracked(s)'
    <3>1. closeRequested[s]
      BY <1>2, <1>3, <1>9 DEF Tracked, Reachable
    <3>2. Held(s)' /\ Timed(s)' /\ Planned(s)'
      BY <1>1, <1>3, <1>6, <2>1, <3>1 DEF Held, Timed, Planned
    <3> QED
      BY <1>6, <2>3, <3>2 DEF Tracked
  <2> QED
    BY <2>2, <2>4, <2>5 DEF RegistryConsistent
<1> QED
  BY <1>8, <1>9 DEF IdleTimeout

-----------------------------------------------------------------------------
\* close(): every session that is not being closed is in the map.
LEMMA CloseRegistryTracked ==
    ASSUME RegistryConsistent, CloseRegistry
    PROVE  RegistryConsistent'
<1> DEFINE active == {sessions[k] : k \in Keys} \ {None}
<1>1. /\ registryPhase = "open" /\ registryPhase' = "closing"
      /\ armed' = armed \ {cleanupTimers[k] : k \in Keys}
      /\ cleanupTimers' = [k \in Keys |-> None] /\ sessions' = [k \in Keys |-> None]
      /\ awaited' = active /\ CloseAll(active)
      /\ identity' = identity /\ references' = references /\ handle' = handle
      /\ released' = released /\ idleGrace' = idleGrace
  BY DEF CloseRegistry
<1>2. armed' = {}
  BY <1>1, TimedIsMapped
<1>3. RegistryTypeOK' /\ ReleasedOnce' /\ EmptyAfterClose'
  BY <1>1, <1>2 DEF RegistryConsistent, RegistryTypeOK, ReleasedOnce, EmptyAfterClose
<1>4. ASSUME NEW t \in Sessions PROVE Tracked(t)'
  <2>1. Tracked(t) /\ Holders(t)' = Holders(t)
    BY <1>1 DEF RegistryConsistent, Holders
  <2>2. phase' = phase /\ closeRequested'[t] = (closeRequested[t] \/ t \in active)
    BY <1>1 DEF CloseAll
  <2>3. phase[t] # "none" => closeRequested'[t]
    <3>1. ASSUME phase[t] # "none", ~closeRequested[t] PROVE t \in active
      BY <2>1, <3>1, NoneIsNoSession DEF Tracked, Filed, Reachable
    <3> QED
      BY <2>2, <3>1
  <2>4. \A k \in Keys : sessions'[k] # t /\ cleanupTimers'[k] # t
    BY <1>1, NoneIsNoSession
  <2> QED
    BY <1>1, <1>2, <2>1, <2>2, <2>3, <2>4
       DEF Tracked, Unknown, Filed, Reachable, Counted, Held, Timed, Planned
<1> QED
  BY <1>3, <1>4 DEF RegistryConsistent

\* Every step of the registry preserves the invariant.
LEMMA NextTracked ==
    RegistryIInv /\ [Next]_vars => RegistryConsistent'
<1> SUFFICES ASSUME RegistryIInv, [Next]_vars PROVE RegistryConsistent'
  OBVIOUS
<1>1. RegistryConsistent /\ SessionIInv
  BY DEF RegistryIInv
<1>2. ASSUME SameStatus, UNCHANGED registryVars PROVE RegistryConsistent'
  BY <1>1, <1>2, StatusFrame DEF registryVars, RegistryConsistent, RegistryTypeOK, EmptyAfterClose
<1>3. ASSUME NEW h \in Handles, NEW k \in Keys, NEW c \in Contracts, Acquire(h, k, c)
      PROVE RegistryConsistent'
  BY <1>1, <1>3, SharedTracked, NewTracked DEF Acquire
<1>4. ASSUME NEW h \in Handles, Release(h) PROVE RegistryConsistent'
  BY <1>1, <1>4, KnownIsConstructed, ReleaseTracked DEF Release
<1>5. ASSUME NEW h \in Handles, RestartHandle(h) PROVE RegistryConsistent'
  BY <1>1, <1>2, <1>5, KnownIsConstructed, SessionStepKeepsStatus DEF RestartHandle
<1>6. ASSUME NEW k \in Keys, RestartKey(k) PROVE RegistryConsistent'
  BY <1>1, <1>2, <1>6, KnownIsConstructed, SessionStepKeepsStatus DEF RestartKey
<1>7. ASSUME NEW s \in Sessions, IdleTimeout(s) PROVE RegistryConsistent'
  BY <1>1, <1>7, IdleTimeoutTracked
<1>8. ASSUME NEW s \in Sessions, SessionProgress(s) PROVE RegistryConsistent'
  BY <1>1, <1>2, <1>8, SessionStepKeepsStatus DEF SessionProgress
<1>9. CASE CloseRegistry
  BY <1>1, <1>9, CloseRegistryTracked
<1>10. CASE RegistryClosed
  <2>1. SameStatus
    BY <1>10 DEF RegistryClosed, sessionVars, SameStatus
  <2> QED
    BY <1>1, <1>10, <2>1, StatusFrame
       DEF RegistryClosed, RegistryConsistent, RegistryTypeOK, EmptyAfterClose
<1>11. CASE UNCHANGED vars
  BY <1>2, <1>11 DEF vars, sessionVars, SameStatus
<1> QED
  BY <1>3, <1>4, <1>5, <1>6, <1>7, <1>8, <1>9, <1>10, <1>11 DEF Next

-----------------------------------------------------------------------------
\* The invariant holds in every state of the registry.
THEOREM RegistryInvariant == Spec => []RegistryIInv
<1>1. Init => RegistryIInv
  BY InitTracked, InitConsistent DEF Init, RegistryIInv
<1>2. RegistryIInv /\ [Next]_vars => RegistryIInv'
  BY NextTracked, NextRunsSessions, NextConsistent DEF RegistryIInv
<1> QED
  BY <1>1, <1>2, PTL DEF Spec

\* The registry is typed; in particular no reference count becomes negative,
\* however handles are released and restarted.
THEOREM RegistryTyped == Spec => []TypeOK
<1>1. RegistryIInv => TypeOK
  BY DEF RegistryIInv, SessionIInv, RegistryConsistent, RegistryTypeOK, TypeOK
<1> QED
  BY <1>1, RegistryInvariant, PTL

\* The registry drives its sessions as SharedSession allows, so everything that
\* is proved of a session on its own holds of one that is shared.
THEOREM RegistryRunsSessions == Spec => SessionSpec
<1>1. Init => SessionInit
  BY DEF Init
<1>2. RegistryIInv /\ [Next]_vars => [SessionNext]_sessionVars
  BY NextRunsSessions DEF RegistryIInv
<1> QED
  BY <1>1, <1>2, RegistryInvariant, PTL DEF Spec, SessionSpec

\* A shared session occupies one source at a time and none after its close().
THEOREM SharedSessionIsExclusive == Spec => HoldsSourceExclusively
BY RegistryRunsSessions, SessionIsExclusive

\* So do the promises about its values and its end: no end of a lease goes
\* unnoticed, a graceful close keeps the last value, and values move forward.
THEOREM SharedSessionKeepsPromises ==
    Spec => []NoZombie /\ []FinalValueKept /\ ValuesMoveForward
BY RegistryRunsSessions, EndsAreNoticed, CloseKeepsLastValue, ValueNeverGoesBack

\* No release, timer, restart or acquire closes a session that somebody holds.
THEOREM HeldSessionsStay == Spec => []HeldSessionsStayOpen
<1>1. RegistryIInv => HeldSessionsStayOpen
  <2> SUFFICES ASSUME RegistryIInv, registryPhase = "open", NEW s \in Sessions, Holders(s) # {}
               PROVE  ~closeRequested[s] /\ sessions[identity[s].key] = s
    BY DEF HeldSessionsStayOpen
  <2> QED
    BY HeldIsMapped DEF RegistryIInv
<1> QED
  BY <1>1, RegistryInvariant, PTL

\* Every session that is not being closed can be reached through its key.
THEOREM NoSessionIsLost == Spec => []NoOrphanSession
<1>1. RegistryIInv => NoOrphanSession
  BY DEF RegistryIInv, RegistryConsistent, Tracked, Reachable, NoOrphanSession
<1> QED
  BY <1>1, RegistryInvariant, PTL

\* A session that nobody holds is being closed or has a timer that will do it, and
\* a timer never runs for a session that is held.
THEOREM IdleSessionsArePlanned == Spec => []IdleSessionsWillClose
<1>1. RegistryIInv => IdleSessionsWillClose
  BY DEF RegistryIInv, RegistryConsistent, Tracked, Planned, Timed, IdleSessionsWillClose
<1> QED
  BY <1>1, RegistryInvariant, PTL

-----------------------------------------------------------------------------
(***************************************************************************)
(* The events of the registry. What is queued, read in order, leads from   *)
(* what the reader has been told (v, of a session) to what there is (c):   *)
(* that is an invariant of the queue, and each event that is reported,     *)
(* queued or read preserves it.                                            *)
(***************************************************************************)
Phases == {"none", "connecting", "live", "closed", "error"}
Kinds  == {"opened", "updated", "retained", "released", "restarting", "closed"}

Views  == [opened : BOOLEAN, phase : Phases, references : Nat, closed : BOOLEAN]
Events == [type : Kinds, session : Sessions, key : Keys \cup {None},
           phase : Phases \ {"none"}, references : Nat]
Pictures == [Sessions -> Views]

\* The key of each session, and whether it shares it.
Named(K, s) == \A other \in Sessions \ {s} : K[other] # K[s]

\* What is queued is about sessions that exist, one update for a key at most.
InOrder(q, cur, K) ==
    /\ \A i \in 1 .. Len(q) : q[i].key = K[q[i].session] /\ cur[q[i].session].phase # "none"
    /\ \A i, j \in 1 .. Len(q) :
          q[i].type = "updated" /\ q[j].type = "updated" /\ q[i].key = q[j].key => i = j

\* No event of s but updates behind position i.
LastBut(q, s, i) == \A j \in 1 .. Len(q) : j > i /\ q[j].session = s => q[j].type = "updated"

NoneOf(q, s, type) == \A i \in 1 .. Len(q) : q[i].session = s => q[i].type # type

\* The queue adds up: v is what the reader has been told of s, c what there is.
OpenedAdds(v, q, s, c) == ~c.opened <=> ~v.opened /\ NoneOf(q, s, "opened")
ClosedAdds(v, q, s, c) == ~c.closed <=> ~v.closed /\ NoneOf(q, s, "closed")

ReferencesAdd(v, q, s, c) ==
    /\ \A i \in 1 .. Len(q) :
          q[i].session = s /\ LastBut(q, s, i) => q[i].references = c.references
    /\ LastBut(q, s, 0) => v.references = c.references

PhaseAdds(v, q, s, c) ==
    /\ \A i \in 1 .. Len(q) : q[i].session = s /\ q[i].type = "updated" => q[i].phase = c.phase
    /\ NoneOf(q, s, "updated") =>
          /\ v.phase # "none" => v.phase = c.phase
          /\ v.phase = "none" =>
                /\ \A i \in 1 .. Len(q) :
                      q[i].session = s /\ (\A j \in 1 .. Len(q) : j < i => q[j].session # s)
                         => q[i].phase = c.phase
                /\ (\A i \in 1 .. Len(q) : q[i].session # s) => c.phase = "none"

Adds(v, q, s, c, K) ==
    /\ OpenedAdds(v, q, s, c) /\ ClosedAdds(v, q, s, c) /\ ReferencesAdd(v, q, s, c)
    /\ Named(K, s) => PhaseAdds(v, q, s, c)
    /\ c.phase = "none" => v = Unheard

Adding(kn, q, cur, K) ==
    /\ kn \in Pictures /\ cur \in Pictures /\ q \in Seq(Events)
    /\ InOrder(q, cur, K)
    /\ \A s \in Sessions : Adds(kn[s], q, s, cur[s], K)

\* An event that may be reported when the sessions are as in cur.
Reportable(e, cur, K) ==
    /\ e \in Events /\ e.key = K[e.session]
    /\ e.type = "updated" => e.references = cur[e.session].references

\* What an event makes of the reader's picture, one field after the other.
LEMMA ToldIs ==
    ASSUME NEW kn \in Pictures, NEW e \in Events
    PROVE  /\ Told(kn, e) \in Pictures
           /\ \A s \in Sessions : s # e.session => Told(kn, e)[s] = kn[s]
           /\ Told(kn, e)[e.session].opened = (kn[e.session].opened \/ e.type = "opened")
           /\ Told(kn, e)[e.session].closed = (kn[e.session].closed \/ e.type = "closed")
           /\ Told(kn, e)[e.session].references = e.references
           /\ Told(kn, e)[e.session].phase =
                 IF e.type = "updated" \/ kn[e.session].phase = "none"
                 THEN e.phase ELSE kn[e.session].phase
           /\ Told(kn, e)[e.session].phase # "none"
<1> DEFINE s == e.session
           v == [opened     |-> kn[s].opened \/ e.type = "opened",
                 phase      |-> IF e.type = "updated" \/ kn[s].phase = "none" THEN e.phase ELSE kn[s].phase,
                 references |-> e.references,
                 closed     |-> kn[s].closed \/ e.type = "closed"]
<1>1. s \in Sessions /\ e.phase \in Phases \ {"none"} /\ e.references \in Nat  BY DEF Events
<1>2. kn[s] \in Views  BY <1>1 DEF Pictures
<1>3. kn[s].opened \in BOOLEAN /\ kn[s].closed \in BOOLEAN /\ kn[s].phase \in Phases  BY <1>2 DEF Views
<1>4. (kn[s].opened \/ e.type = "opened") \in BOOLEAN /\ (kn[s].closed \/ e.type = "closed") \in BOOLEAN
  OBVIOUS
<1>5. (IF e.type = "updated" \/ kn[s].phase = "none" THEN e.phase ELSE kn[s].phase) \in Phases \ {"none"}
  BY <1>1, <1>3
<1>6. v \in Views  BY <1>1, <1>4, <1>5 DEF Views
<1>7. Told(kn, e) = [kn EXCEPT ![s] = v]  BY DEF Told
<1>8. /\ v.opened = (kn[s].opened \/ e.type = "opened") /\ v.closed = (kn[s].closed \/ e.type = "closed")
      /\ v.references = e.references
      /\ v.phase = IF e.type = "updated" \/ kn[s].phase = "none" THEN e.phase ELSE kn[s].phase
  OBVIOUS
<1>9. v.phase # "none"  BY <1>5, <1>8
<1> HIDE DEF v
<1>10. Told(kn, e) \in Pictures  BY <1>6, <1>7 DEF Pictures
<1>11. Told(kn, e)[s] = v  BY <1>1, <1>7 DEF Pictures
<1>12. \A t \in Sessions : t # s => Told(kn, e)[t] = kn[t]  BY <1>7 DEF Pictures
<1>. QED  BY <1>8, <1>9, <1>10, <1>11, <1>12

\* An event takes the place of the update it supersedes, or joins the end.
LEMMA QueuedIs ==
    ASSUME NEW q \in Seq(Events), NEW e \in Events,
           \A i, j \in 1 .. Len(q) :
              q[i].type = "updated" /\ q[j].type = "updated" /\ q[i].key = q[j].key => i = j
    PROVE  /\ Queued(q, e) \in Seq(Events)
           /\ \/ \E k \in 1 .. Len(q) :
                    /\ e.type = "updated" /\ q[k].type = "updated" /\ q[k].key = e.key
                    /\ Len(Queued(q, e)) = Len(q) /\ Queued(q, e)[k] = e
                    /\ \A i \in 1 .. Len(q) : i # k => Queued(q, e)[i] = q[i]
              \/ /\ \A i \in 1 .. Len(q) : ~(e.type = "updated" /\ q[i].type = "updated" /\ q[i].key = e.key)
                 /\ Len(Queued(q, e)) = Len(q) + 1 /\ Queued(q, e)[Len(q) + 1] = e
                 /\ \A i \in 1 .. Len(q) : Queued(q, e)[i] = q[i]
<1>1. DOMAIN q = 1 .. Len(q) /\ Len(q) \in Nat  OBVIOUS
<1>2. CASE \E i \in 1 .. Len(q) : Supersedes(e, q[i])
  <2>1. PICK k \in 1 .. Len(q) : Supersedes(e, q[k])  BY <1>2
  <2>2. Queued(q, e) = [i \in 1 .. Len(q) |-> IF Supersedes(e, q[i]) THEN e ELSE q[i]]
    BY <1>1, <1>2 DEF Queued
  <2>3. \A i \in 1 .. Len(q) : Supersedes(e, q[i]) => i = k  BY <2>1 DEF Supersedes
  <2>4. \A i \in 1 .. Len(q) : q[i] \in Events  OBVIOUS
  <2>5. Queued(q, e) \in Seq(Events) /\ Len(Queued(q, e)) = Len(q)  BY <1>1, <2>2, <2>4
  <2>6. Queued(q, e)[k] = e /\ \A i \in 1 .. Len(q) : i # k => Queued(q, e)[i] = q[i]
    BY <2>1, <2>2, <2>3
  <2>. QED  BY <2>1, <2>5, <2>6 DEF Supersedes
<1>3. CASE ~ \E i \in 1 .. Len(q) : Supersedes(e, q[i])
  <2>1. Queued(q, e) = Append(q, e)  BY <1>1, <1>3 DEF Queued
  <2>. QED  BY <1>3, <2>1 DEF Supersedes
<1>. QED  BY <1>2, <1>3

\* What is queued are events.
LEMMA Member == ASSUME NEW q \in Seq(Events) PROVE \A i \in 1 .. Len(q) : q[i] \in Events
  OBVIOUS

\* The fields of an event.
LEMMA MemberIs ==
    ASSUME NEW e \in Events
    PROVE  /\ e.session \in Sessions /\ e.references \in Nat /\ e.type \in Kinds
           /\ e.phase \in Phases /\ e.phase # "none"
  BY DEF Events

(***************************************************************************)
(* A waiting reader gets the event itself.                                 *)
(***************************************************************************)
LEMMA DirectAdds ==
    ASSUME NEW kn, NEW cur, NEW K, NEW e, Adding(kn, <<>>, cur, K), Reportable(e, cur, K)
    PROVE  Adding(Told(kn, e), <<>>, Told(cur, e), K)
<1>1. kn \in Pictures /\ cur \in Pictures /\ e \in Events  BY DEF Adding, Reportable
<1>2. e.session \in Sessions  BY <1>1, MemberIs
<1>3. Len(<<>>) = 0 /\ <<>> \in Seq(Events)  OBVIOUS
<1>4. ASSUME NEW s \in Sessions PROVE Adds(Told(kn, e)[s], <<>>, s, Told(cur, e)[s], K)
  <2>1. Adds(kn[s], <<>>, s, cur[s], K)  BY DEF Adding
  <2>2. CASE s # e.session
    <3>1. Told(kn, e)[s] = kn[s] /\ Told(cur, e)[s] = cur[s]  BY <1>1, <2>2, ToldIs
    <3>. QED  BY <2>1, <3>1
  <2>3. CASE s = e.session
    <3> DEFINE v == Told(kn, e)[s]
               c == Told(cur, e)[s]
    <3>1. /\ v.opened = (kn[s].opened \/ e.type = "opened") /\ v.closed = (kn[s].closed \/ e.type = "closed")
          /\ v.references = e.references
          /\ v.phase = IF e.type = "updated" \/ kn[s].phase = "none" THEN e.phase ELSE kn[s].phase
          /\ v.phase # "none"
      BY <1>1, <2>3, ToldIs
    <3>2. /\ c.opened = (cur[s].opened \/ e.type = "opened") /\ c.closed = (cur[s].closed \/ e.type = "closed")
          /\ c.references = e.references
          /\ c.phase = IF e.type = "updated" \/ cur[s].phase = "none" THEN e.phase ELSE cur[s].phase
          /\ c.phase # "none"
      BY <1>1, <2>3, ToldIs
    <3> HIDE DEF v, c
    <3>3. OpenedAdds(v, <<>>, s, c) /\ ClosedAdds(v, <<>>, s, c) /\ ReferencesAdd(v, <<>>, s, c)
      BY <1>3, <2>1, <3>1, <3>2 DEF Adds, OpenedAdds, ClosedAdds, ReferencesAdd, NoneOf, LastBut
    <3>4. Named(K, s) => PhaseAdds(v, <<>>, s, c)
      BY <1>3, <2>1, <3>1, <3>2 DEF Adds, PhaseAdds, NoneOf
    <3>. QED  BY <3>2, <3>3, <3>4 DEF Adds, v, c
  <2>. QED  BY <2>2, <2>3
<1>5. Told(kn, e) \in Pictures /\ Told(cur, e) \in Pictures  BY <1>1, ToldIs
<1>. QED  BY <1>3, <1>4, <1>5 DEF Adding, InOrder

(***************************************************************************)
(* The reader takes the oldest event.                                      *)
(***************************************************************************)
LEMMA ReadAdds ==
    ASSUME NEW kn, NEW q, NEW cur, NEW K, Adding(kn, q, cur, K), q # <<>>
    PROVE  Adding(Told(kn, Head(q)), Tail(q), cur, K)
<1> DEFINE e == Head(q)
           r == Tail(q)
<1>1. kn \in Pictures /\ cur \in Pictures /\ q \in Seq(Events) /\ Len(q) \in Nat  BY DEF Adding
<1>2. /\ e = q[1] /\ 1 \in 1 .. Len(q) /\ r \in Seq(Events) /\ Len(r) = Len(q) - 1
      /\ \A i \in 1 .. Len(r) : r[i] = q[i + 1] /\ i + 1 \in 1 .. Len(q)
  BY <1>1
<1>3. e \in Events  BY <1>1, <1>2, Member
<1>4. e.session \in Sessions /\ e.phase # "none"  BY <1>3, MemberIs
<1>5. Told(kn, e) \in Pictures  BY <1>1, <1>3, ToldIs
<1>6. InOrder(q, cur, K)  BY DEF Adding
<1> HIDE DEF e, r
<1>7. InOrder(r, cur, K)
  <2>1. ASSUME NEW i \in 1 .. Len(r), NEW j \in 1 .. Len(r), i + 1 = j + 1 PROVE i = j  BY <2>1
  <2>2. ASSUME NEW i \in 1 .. Len(r)
        PROVE  r[i].key = K[r[i].session] /\ cur[r[i].session].phase # "none"
    <3>1. r[i] = q[i + 1] /\ i + 1 \in 1 .. Len(q)  BY <1>2
    <3>2. q[i + 1].key = K[q[i + 1].session] /\ cur[q[i + 1].session].phase # "none"
      BY <1>6, <3>1 DEF InOrder
    <3>. QED  BY <3>1, <3>2
  <2>3. ASSUME NEW i \in 1 .. Len(r), NEW j \in 1 .. Len(r),
               r[i].type = "updated", r[j].type = "updated", r[i].key = r[j].key
        PROVE  i = j
    <3>0. r[i] = q[i + 1] /\ i + 1 \in 1 .. Len(q) /\ r[j] = q[j + 1] /\ j + 1 \in 1 .. Len(q)  BY <1>2
    <3>1. i + 1 = j + 1  BY <1>6, <2>3, <3>0 DEF InOrder
    <3>. QED  BY <2>1, <3>1
  <2>. QED  BY <2>2, <2>3 DEF InOrder
<1>8. cur[e.session].phase # "none"  BY <1>2, <1>6 DEF InOrder
<1>9. \A i \in 1 .. Len(q) : i = 1 \/ (i - 1 \in 1 .. Len(r) /\ q[i] = r[i - 1])
  <2>1. ASSUME NEW i \in 1 .. Len(q), i # 1 PROVE i - 1 \in 1 .. Len(r) /\ (i - 1) + 1 = i
    BY <1>1, <1>2, <2>1
  <2>. QED  BY <1>2, <2>1
<1>10. ASSUME NEW s \in Sessions PROVE Adds(Told(kn, e)[s], r, s, cur[s], K)
  <2> DEFINE v == Told(kn, e)[s]
             c == cur[s]
  <2>1. Adds(kn[s], q, s, c, K)  BY DEF Adding
  <2>2. CASE s # e.session
    <3>1. v = kn[s]  BY <1>1, <1>3, <2>2, ToldIs
    <3> HIDE DEF v, c
    <3>2. \A type : NoneOf(r, s, type) <=> NoneOf(q, s, type)
      BY <1>1, <1>2, <1>9, <2>2 DEF NoneOf
    <3>3. OpenedAdds(v, r, s, c) /\ ClosedAdds(v, r, s, c)
      BY <2>1, <3>1, <3>2 DEF Adds, OpenedAdds, ClosedAdds
    <3>4. LastBut(r, s, 0) <=> LastBut(q, s, 0)  BY <1>1, <1>2, <1>9, <2>2 DEF LastBut
    <3>5. ASSUME NEW i \in 1 .. Len(r), r[i].session = s, LastBut(r, s, i) PROVE r[i].references = c.references
      <4>0. \A j \in 1 .. Len(q) : j > i + 1 => j # 1 /\ j - 1 > i  BY <1>1, <1>2
      <4>1. ASSUME NEW j \in 1 .. Len(q), j > i + 1, q[j].session = s PROVE q[j].type = "updated"
        <5>1. j # 1 /\ j - 1 > i  BY <4>0, <4>1
        <5>2. j - 1 \in 1 .. Len(r) /\ q[j] = r[j - 1]  BY <1>9, <5>1
        <5>. QED  BY <3>5, <4>1, <5>1, <5>2 DEF LastBut
      <4>2. LastBut(q, s, i + 1)  BY <4>1 DEF LastBut
      <4>. QED  BY <1>2, <2>1, <3>5, <4>2 DEF Adds, ReferencesAdd
    <3>6. ReferencesAdd(v, r, s, c)  BY <2>1, <3>1, <3>4, <3>5 DEF Adds, ReferencesAdd
    <3>7. ASSUME Named(K, s) PROVE PhaseAdds(v, r, s, c)
      <4>1. PhaseAdds(kn[s], q, s, c)  BY <2>1, <3>7 DEF Adds
      <4>2. ASSUME NEW i \in 1 .. Len(r), r[i].session = s, r[i].type = "updated" PROVE r[i].phase = c.phase
        BY <1>2, <4>1, <4>2 DEF PhaseAdds
      <4>3. ASSUME NEW i \in 1 .. Len(r), r[i].session = s, \A j \in 1 .. Len(r) : j < i => r[j].session # s,
                   NoneOf(q, s, "updated"), v.phase = "none"
            PROVE  r[i].phase = c.phase
        <5>1. \A j \in 1 .. Len(q) : j < i + 1 => q[j].session # s
          BY <1>1, <1>2, <1>9, <2>2, <4>3
        <5>. QED  BY <1>2, <3>1, <4>1, <4>3, <5>1 DEF PhaseAdds
      <4>4. (\A i \in 1 .. Len(r) : r[i].session # s) => \A i \in 1 .. Len(q) : q[i].session # s
        BY <1>2, <1>9, <2>2
      <4>. QED  BY <3>1, <3>2, <4>1, <4>2, <4>3, <4>4 DEF PhaseAdds
    <3>. QED  BY <2>1, <3>1, <3>3, <3>6, <3>7 DEF Adds, v, c
  <2>3. CASE s = e.session
    <3>1. /\ v.opened = (kn[s].opened \/ e.type = "opened") /\ v.closed = (kn[s].closed \/ e.type = "closed")
          /\ v.references = e.references
          /\ v.phase = IF e.type = "updated" \/ kn[s].phase = "none" THEN e.phase ELSE kn[s].phase
          /\ v.phase # "none"
      BY <1>1, <1>3, <2>3, ToldIs
    <3> HIDE DEF v, c
    <3>2. \A type : NoneOf(q, s, type) <=> NoneOf(r, s, type) /\ e.type # type
      BY <1>1, <1>2, <1>9, <2>3 DEF NoneOf
    <3>3. OpenedAdds(v, r, s, c) /\ ClosedAdds(v, r, s, c)
      BY <2>1, <3>1, <3>2 DEF Adds, OpenedAdds, ClosedAdds
    <3>4. LastBut(r, s, 0) => LastBut(q, s, 1)  BY <1>1, <1>2, <1>9 DEF LastBut
    <3>5. LastBut(r, s, 0) => v.references = c.references
      BY <1>2, <2>1, <2>3, <3>1, <3>4 DEF Adds, ReferencesAdd
    <3>6. ASSUME NEW i \in 1 .. Len(r), r[i].session = s, LastBut(r, s, i) PROVE r[i].references = c.references
      <4>0. \A j \in 1 .. Len(q) : j > i + 1 => j # 1 /\ j - 1 > i  BY <1>1, <1>2
      <4>1. ASSUME NEW j \in 1 .. Len(q), j > i + 1, q[j].session = s PROVE q[j].type = "updated"
        <5>1. j # 1 /\ j - 1 > i  BY <4>0, <4>1
        <5>2. j - 1 \in 1 .. Len(r) /\ q[j] = r[j - 1]  BY <1>9, <5>1
        <5>. QED  BY <3>6, <4>1, <5>1, <5>2 DEF LastBut
      <4>2. LastBut(q, s, i + 1)  BY <4>1 DEF LastBut
      <4>. QED  BY <1>2, <2>1, <3>6, <4>2 DEF Adds, ReferencesAdd
    <3>7. ASSUME Named(K, s) PROVE PhaseAdds(v, r, s, c)
      <4>1. PhaseAdds(kn[s], q, s, c)  BY <2>1, <3>7 DEF Adds
      <4>2. ASSUME NEW i \in 1 .. Len(r), r[i].session = s, r[i].type = "updated" PROVE r[i].phase = c.phase
        BY <1>2, <4>1, <4>2 DEF PhaseAdds
      <4>3. ASSUME NoneOf(r, s, "updated") PROVE v.phase = c.phase
        <5>1. CASE e.type = "updated"  BY <1>2, <2>3, <3>1, <4>1, <5>1 DEF PhaseAdds
        <5>2. CASE e.type # "updated"
          <6>1. NoneOf(q, s, "updated")  BY <3>2, <4>3, <5>2
          <6>2. \A j \in 1 .. Len(q) : j < 1 => q[j].session # s  BY <1>1
          <6>. QED  BY <1>2, <2>3, <3>1, <4>1, <5>2, <6>1, <6>2 DEF PhaseAdds
        <5>. QED  BY <5>1, <5>2
      <4>. QED  BY <3>1, <4>2, <4>3 DEF PhaseAdds
    <3>8. c.phase # "none"  BY <1>8, <2>3 DEF c
    <3>. QED  BY <3>3, <3>5, <3>6, <3>7, <3>8 DEF Adds, ReferencesAdd, v, c
  <2>. QED  BY <2>2, <2>3
<1>. QED  BY <1>1, <1>2, <1>5, <1>7, <1>10 DEF Adding, e, r

(***************************************************************************)
(* An event joins the queue.                                               *)
(***************************************************************************)
LEMMA QueuedAdds ==
    ASSUME NEW kn, NEW q, NEW cur, NEW K, NEW e, Adding(kn, q, cur, K), Reportable(e, cur, K)
    PROVE  Adding(kn, Queued(q, e), Told(cur, e), K)
<1> DEFINE r == Queued(q, e)
           d == Told(cur, e)
           n == Len(q)
<1>1. /\ kn \in Pictures /\ cur \in Pictures /\ q \in Seq(Events) /\ n \in Nat /\ e \in Events
      /\ InOrder(q, cur, K)
  BY DEF Adding, Reportable
<1>2. e.session \in Sessions /\ e.phase # "none" /\ e.key = K[e.session]  BY <1>1, MemberIs DEF Reportable
<1>3. /\ d \in Pictures
      /\ \A s \in Sessions : s # e.session => d[s] = cur[s]
      /\ d[e.session].opened = (cur[e.session].opened \/ e.type = "opened")
      /\ d[e.session].closed = (cur[e.session].closed \/ e.type = "closed")
      /\ d[e.session].references = e.references
      /\ d[e.session].phase = IF e.type = "updated" \/ cur[e.session].phase = "none"
                              THEN e.phase ELSE cur[e.session].phase
      /\ d[e.session].phase # "none"
  BY <1>1, ToldIs
<1>4. /\ r \in Seq(Events)
      /\ \/ \E k \in 1 .. n :
               /\ e.type = "updated" /\ q[k].type = "updated" /\ q[k].key = e.key
               /\ Len(r) = n /\ r[k] = e
               /\ \A i \in 1 .. n : i # k => r[i] = q[i]
         \/ /\ \A i \in 1 .. n : ~(e.type = "updated" /\ q[i].type = "updated" /\ q[i].key = e.key)
            /\ Len(r) = n + 1 /\ r[n + 1] = e
            /\ \A i \in 1 .. n : r[i] = q[i]
  BY <1>1, QueuedIs DEF InOrder
<1>5. \A s \in Sessions : cur[s].phase # "none" => d[s].phase # "none"  BY <1>3
<1>6. e.type = "updated" => e.references = cur[e.session].references  BY DEF Reportable
<1>7. \A i \in 1 .. n : q[i] \in Events /\ q[i].session \in Sessions  BY <1>1, Member, MemberIs
<1>8. \A s \in Sessions : Adds(kn[s], q, s, cur[s], K)  BY DEF Adding
<1> HIDE DEF r, d, n
<1>9. CASE \E k \in 1 .. n :
               /\ e.type = "updated" /\ q[k].type = "updated" /\ q[k].key = e.key
               /\ Len(r) = n /\ r[k] = e
               /\ \A i \in 1 .. n : i # k => r[i] = q[i]
  <2>1. PICK k \in 1 .. n :
               /\ e.type = "updated" /\ q[k].type = "updated" /\ q[k].key = e.key
               /\ Len(r) = n /\ r[k] = e
               /\ \A i \in 1 .. n : i # k => r[i] = q[i]
    BY <1>9
  <2>2. \A i \in 1 .. n : r[i].type = q[i].type /\ r[i].key = q[i].key  BY <2>1
  <2>3. InOrder(r, d, K)
    <3>1. \A i \in 1 .. n : r[i].key = K[r[i].session] /\ d[r[i].session].phase # "none"
      <4>1. ASSUME NEW i \in 1 .. n PROVE r[i].key = K[r[i].session] /\ d[r[i].session].phase # "none"
        <5>1. CASE i = k  BY <1>2, <1>3, <2>1, <5>1
        <5>2. CASE i # k
          <6>1. r[i] = q[i] /\ q[i].session \in Sessions  BY <1>7, <2>1, <5>2
          <6>. QED  BY <1>1, <1>5, <6>1 DEF InOrder, n
        <5>. QED  BY <5>1, <5>2
      <4>. QED  BY <4>1
    <3>. QED  BY <1>1, <2>1, <2>2, <3>1 DEF InOrder, n
  <2>4. \A s \in Sessions : /\ NoneOf(r, s, "opened") <=> NoneOf(q, s, "opened")
                            /\ NoneOf(r, s, "closed") <=> NoneOf(q, s, "closed")
    BY <2>1 DEF NoneOf, n
  <2>5. \A s \in Sessions, i \in 0 .. n : LastBut(r, s, i) <=> LastBut(q, s, i)
    BY <2>1 DEF LastBut, n
  <2>6. ASSUME NEW s \in Sessions PROVE Adds(kn[s], r, s, d[s], K)
    <3>1. Adds(kn[s], q, s, cur[s], K)  BY <1>8
    <3>2. /\ d[s].opened = cur[s].opened /\ d[s].closed = cur[s].closed
          /\ d[s].references = cur[s].references
      <4>1. CASE s = e.session
        <5>1. cur[s] \in Views  BY <1>1 DEF Pictures
        <5>2. cur[s].opened \in BOOLEAN /\ cur[s].closed \in BOOLEAN  BY <5>1 DEF Views
        <5>3. e.type # "opened" /\ e.type # "closed"  BY <2>1
        <5>4. d[s].opened = cur[s].opened  BY <1>3, <4>1, <5>2, <5>3
        <5>5. d[s].closed = cur[s].closed  BY <1>3, <4>1, <5>2, <5>3
        <5>. QED  BY <1>3, <1>6, <2>1, <4>1, <5>4, <5>5
      <4>2. CASE s # e.session  BY <1>3, <4>2
      <4>. QED  BY <4>1, <4>2
    <3>3. OpenedAdds(kn[s], r, s, d[s]) /\ ClosedAdds(kn[s], r, s, d[s])
      BY <2>4, <3>1, <3>2 DEF Adds, OpenedAdds, ClosedAdds
    <3>4. ReferencesAdd(kn[s], r, s, d[s])
      <4>1. ASSUME NEW i \in 1 .. n, r[i].session = s, LastBut(r, s, i)
            PROVE  r[i].references = d[s].references
        <5>1. CASE i = k  BY <1>3, <2>1, <4>1, <5>1
        <5>2. CASE i # k
          <6>1. r[i] = q[i] /\ LastBut(q, s, i)  BY <2>1, <2>5, <4>1, <5>2
          <6>. QED  BY <3>1, <3>2, <4>1, <6>1 DEF Adds, ReferencesAdd, n
        <5>. QED  BY <5>1, <5>2
      <4>2. LastBut(r, s, 0) => LastBut(q, s, 0)  BY <1>1, <2>5
      <4>. QED  BY <2>1, <3>1, <3>2, <4>1, <4>2 DEF Adds, ReferencesAdd
    <3>5. ASSUME Named(K, s) PROVE PhaseAdds(kn[s], r, s, d[s])
      <4>1. PhaseAdds(kn[s], q, s, cur[s])  BY <3>1, <3>5 DEF Adds
      <4>2. CASE s = e.session
        <5>1. ASSUME NEW i \in 1 .. n, r[i].session = s, r[i].type = "updated" PROVE i = k
          <6>1. r[i].key = K[s] /\ q[k].key = K[s]  BY <1>2, <2>1, <2>3, <4>2, <5>1 DEF InOrder
          <6>. QED  BY <1>1, <2>1, <2>2, <5>1, <6>1 DEF InOrder, n
        <5>2. d[s].phase = e.phase  BY <1>3, <2>1, <4>2
        <5>3. ~NoneOf(r, s, "updated")  BY <2>1, <4>2 DEF NoneOf
        <5>. QED  BY <2>1, <5>1, <5>2, <5>3 DEF PhaseAdds
      <4>3. CASE s # e.session
        <5>1. \A i \in 1 .. n : r[i].session = s <=> q[i].session = s
          <6>1. K[e.session] # K[s]  BY <1>2, <3>5, <4>3 DEF Named
          <6>2. q[k].session # s  BY <1>1, <1>2, <2>1, <6>1 DEF InOrder, n
          <6>. QED  BY <2>1, <4>3, <6>2
        <5>2. \A i \in 1 .. n : r[i].session = s => r[i] = q[i]  BY <2>1, <4>3
        <5>3. NoneOf(r, s, "updated") => NoneOf(q, s, "updated")  BY <2>1, <5>1, <5>2 DEF NoneOf, n
        <5>4. d[s] = cur[s]  BY <1>3, <4>3
        <5>5. ASSUME NEW i \in 1 .. Len(r), r[i].session = s, r[i].type = "updated" PROVE r[i].phase = cur[s].phase
          BY <2>1, <4>1, <5>1, <5>2, <5>5 DEF PhaseAdds, n
        <5>6. ASSUME NEW i \in 1 .. Len(r), r[i].session = s, \A j \in 1 .. Len(r) : j < i => r[j].session # s,
                     NoneOf(q, s, "updated"), kn[s].phase = "none"
              PROVE  r[i].phase = cur[s].phase
          <6>1. i \in 1 .. Len(q) /\ r[i] = q[i] /\ q[i].session = s
                /\ \A j \in 1 .. Len(q) : j < i => q[j].session # s
            BY <2>1, <5>1, <5>2, <5>6 DEF n
          <6>. QED  BY <4>1, <5>6, <6>1 DEF PhaseAdds
        <5>7. (\A i \in 1 .. Len(r) : r[i].session # s) => \A i \in 1 .. Len(q) : q[i].session # s
          BY <2>1, <5>1 DEF n
        <5>. QED  BY <4>1, <5>3, <5>4, <5>5, <5>6, <5>7 DEF PhaseAdds
      <4>. QED  BY <4>2, <4>3
    <3>6. d[s].phase = "none" => kn[s] = Unheard  BY <1>3, <3>1 DEF Adds
    <3>. QED  BY <3>3, <3>4, <3>5, <3>6 DEF Adds
  <2>. QED  BY <1>1, <1>3, <1>4, <2>3, <2>6 DEF Adding, r, d
<1>10. CASE /\ \A i \in 1 .. n : ~(e.type = "updated" /\ q[i].type = "updated" /\ q[i].key = e.key)
            /\ Len(r) = n + 1 /\ r[n + 1] = e
            /\ \A i \in 1 .. n : r[i] = q[i]
  <2>1. \A i \in 1 .. n + 1 : i \in 1 .. n \/ i = n + 1  BY <1>1
  <2>2. \A i \in 1 .. n : i \in 1 .. n + 1 /\ ~(n + 1 <= i)  BY <1>1
  <2>3. InOrder(r, d, K)
    <3>1. ASSUME NEW i \in 1 .. Len(r) PROVE r[i].key = K[r[i].session] /\ d[r[i].session].phase # "none"
      <4>1. CASE i = n + 1  BY <1>2, <1>3, <1>10, <4>1
      <4>2. CASE i \in 1 .. n
        <5>1. r[i] = q[i] /\ q[i].session \in Sessions  BY <1>7, <1>10, <4>2
        <5>. QED  BY <1>1, <1>5, <4>2, <5>1 DEF InOrder, n
      <4>. QED  BY <1>10, <2>1, <4>1, <4>2
    <3>2. ASSUME NEW i \in 1 .. Len(r), NEW j \in 1 .. Len(r),
                 r[i].type = "updated", r[j].type = "updated", r[i].key = r[j].key
          PROVE  i = j
      BY <1>1, <1>10, <2>1, <3>2 DEF InOrder, n
    <3>. QED  BY <3>1, <3>2 DEF InOrder
  <2>4. ASSUME NEW s \in Sessions PROVE Adds(kn[s], r, s, d[s], K)
    <3>1. Adds(kn[s], q, s, cur[s], K)  BY <1>8
    <3>2. CASE s # e.session
      <4>1. d[s] = cur[s]  BY <1>3, <3>2
      <4>2. \A type : NoneOf(r, s, type) <=> NoneOf(q, s, type)
        BY <1>10, <2>1, <2>2, <3>2 DEF NoneOf, n
      <4>3. \A i \in 0 .. n : LastBut(r, s, i) <=> LastBut(q, s, i)
        BY <1>10, <2>1, <2>2, <3>2 DEF LastBut, n
      <4>4. ReferencesAdd(kn[s], r, s, d[s])
        <5>1. ASSUME NEW i \in 1 .. Len(r), r[i].session = s, LastBut(r, s, i)
              PROVE  r[i].references = d[s].references
          <6>1. i \in 1 .. n /\ r[i] = q[i] /\ LastBut(q, s, i)  BY <1>1, <1>10, <2>1, <3>2, <4>3, <5>1
          <6>. QED  BY <3>1, <4>1, <5>1, <6>1 DEF Adds, ReferencesAdd, n
        <5>2. LastBut(r, s, 0) => LastBut(q, s, 0)  BY <1>1, <4>3
        <5>. QED  BY <3>1, <4>1, <5>1, <5>2 DEF Adds, ReferencesAdd
      <4>5. ASSUME Named(K, s) PROVE PhaseAdds(kn[s], r, s, d[s])
        <5>1. PhaseAdds(kn[s], q, s, cur[s])  BY <3>1, <4>5 DEF Adds
        <5>2. ASSUME NEW i \in 1 .. Len(r), r[i].session = s, r[i].type = "updated"
              PROVE  r[i].phase = d[s].phase
          BY <1>10, <2>1, <3>2, <4>1, <5>1, <5>2 DEF PhaseAdds, n
        <5>3. ASSUME NoneOf(r, s, "updated"), kn[s].phase = "none",
                     NEW i \in 1 .. Len(r), r[i].session = s,
                     \A j \in 1 .. Len(r) : j < i => r[j].session # s
              PROVE  r[i].phase = d[s].phase
          <6>1. i \in 1 .. n /\ r[i] = q[i]  BY <1>10, <2>1, <3>2, <5>3
          <6>2. \A j \in 1 .. n : j < i => q[j].session # s  BY <1>10, <2>2, <5>3
          <6>. QED  BY <4>1, <4>2, <5>1, <5>3, <6>1, <6>2 DEF PhaseAdds, n
        <5>4. (\A i \in 1 .. Len(r) : r[i].session # s) => \A i \in 1 .. n : q[i].session # s
          BY <1>10, <2>2
        <5>. QED  BY <4>1, <4>2, <5>1, <5>2, <5>3, <5>4 DEF PhaseAdds, n
      <4>6. OpenedAdds(kn[s], r, s, d[s]) /\ ClosedAdds(kn[s], r, s, d[s])
        BY <3>1, <4>1, <4>2 DEF Adds, OpenedAdds, ClosedAdds
      <4>. QED  BY <3>1, <4>1, <4>4, <4>5, <4>6 DEF Adds
    <3>3. CASE s = e.session
      <4>1. \A type : NoneOf(r, s, type) <=> NoneOf(q, s, type) /\ e.type # type
        BY <1>1, <1>10, <2>1, <2>2, <3>3 DEF NoneOf, n
      <4>2. OpenedAdds(kn[s], r, s, d[s]) /\ ClosedAdds(kn[s], r, s, d[s])
        BY <1>3, <3>1, <3>3, <4>1 DEF Adds, OpenedAdds, ClosedAdds
      <4>3. \A i \in 0 .. n : LastBut(r, s, i) => e.type = "updated" /\ LastBut(q, s, i)
        <5>1. ASSUME NEW i \in 0 .. n, LastBut(r, s, i) PROVE e.type = "updated" /\ LastBut(q, s, i)
          <6>1. n + 1 \in 1 .. Len(r) /\ n + 1 > i  BY <1>1, <1>10
          <6>2. e.type = "updated"  BY <1>10, <3>3, <5>1, <6>1 DEF LastBut
          <6>. QED  BY <1>10, <2>2, <5>1, <6>2 DEF LastBut, n
        <5>. QED  BY <5>1
      <4>4. ReferencesAdd(kn[s], r, s, d[s])
        <5>1. ASSUME NEW i \in 1 .. Len(r), r[i].session = s, LastBut(r, s, i)
              PROVE  r[i].references = d[s].references
          <6>1. CASE i = n + 1  BY <1>3, <1>10, <3>3, <6>1
          <6>2. CASE i \in 1 .. n
            <7>1. e.type = "updated" /\ LastBut(q, s, i) /\ r[i] = q[i]
              BY <1>1, <1>10, <4>3, <5>1, <6>2
            <7>2. q[i].references = cur[s].references
              BY <3>1, <5>1, <6>2, <7>1 DEF Adds, ReferencesAdd, n
            <7>. QED  BY <1>3, <1>6, <3>3, <7>1, <7>2
          <6>. QED  BY <1>10, <2>1, <6>1, <6>2
        <5>2. ASSUME LastBut(r, s, 0) PROVE kn[s].references = d[s].references
          <6>1. e.type = "updated" /\ LastBut(q, s, 0)  BY <1>1, <4>3, <5>2
          <6>. QED  BY <1>3, <1>6, <3>1, <3>3, <6>1 DEF Adds, ReferencesAdd
        <5>. QED  BY <5>1, <5>2 DEF ReferencesAdd
      <4>5. ASSUME Named(K, s) PROVE PhaseAdds(kn[s], r, s, d[s])
        <5>1. PhaseAdds(kn[s], q, s, cur[s])  BY <3>1, <4>5 DEF Adds
        <5>2. CASE e.type = "updated"
          <6>1. \A i \in 1 .. n : q[i].session = s => q[i].type # "updated"
            BY <1>1, <1>2, <1>10, <3>3, <5>2 DEF InOrder, n
          <6>2. d[s].phase = e.phase  BY <1>3, <3>3, <5>2
          <6>3. ~NoneOf(r, s, "updated")  BY <4>1, <5>2
          <6>. QED  BY <1>10, <2>1, <6>1, <6>2, <6>3 DEF PhaseAdds
        <5>3. CASE e.type # "updated"
          <6>1. CASE cur[s].phase # "none"
            <7>1. d[s].phase = cur[s].phase  BY <1>3, <3>3, <5>3, <6>1
            <7>2. \A i \in 1 .. Len(r) : r[i].type = "updated" => i \in 1 .. n /\ r[i] = q[i]
              BY <1>10, <2>1, <5>3
            <7>3. ASSUME NoneOf(r, s, "updated"), kn[s].phase = "none"
                  PROVE  \E i \in 1 .. n : q[i].session = s
              BY <4>1, <5>1, <6>1, <7>3 DEF PhaseAdds, n
            <7>4. ASSUME NoneOf(r, s, "updated"), kn[s].phase = "none",
                         NEW i \in 1 .. Len(r), r[i].session = s,
                         \A j \in 1 .. Len(r) : j < i => r[j].session # s
                  PROVE  r[i].phase = d[s].phase
              <8>1. PICK j \in 1 .. n : q[j].session = s  BY <7>3, <7>4
              <8>2. j < n + 1 /\ j \in 1 .. Len(r) /\ r[j].session = s  BY <1>1, <1>10, <2>2, <8>1
              <8>3. i # n + 1  BY <7>4, <8>2
              <8>4. i \in 1 .. n /\ r[i] = q[i]  BY <1>10, <2>1, <8>3
              <8>5. \A l \in 1 .. n : l < i => q[l].session # s  BY <1>10, <2>2, <7>4
              <8>. QED  BY <4>1, <5>1, <7>1, <7>4, <8>4, <8>5 DEF PhaseAdds, n
            <7>5. ~ \A i \in 1 .. Len(r) : r[i].session # s  BY <1>1, <1>10, <3>3
            <7>. QED  BY <4>1, <5>1, <7>1, <7>2, <7>4, <7>5 DEF PhaseAdds, n
          <6>2. CASE cur[s].phase = "none"
            <7>1. kn[s] = Unheard  BY <3>1, <6>2 DEF Adds
            <7>2. \A i \in 1 .. n : q[i].session # s  BY <1>1, <6>2 DEF InOrder, n
            <7>3. d[s].phase = e.phase  BY <1>3, <3>3, <6>2
            <7>4. \A i \in 1 .. Len(r) : r[i].session = s => r[i] = e  BY <1>10, <2>1, <7>2
            <7>5. kn[s].phase = "none"  BY <7>1 DEF Unheard
            <7>6. ~ \A i \in 1 .. Len(r) : r[i].session # s  BY <1>1, <1>10, <3>3
            <7>. QED  BY <5>3, <7>3, <7>4, <7>5, <7>6 DEF PhaseAdds
          <6>. QED  BY <6>1, <6>2
        <5>. QED  BY <5>2, <5>3
      <4>6. d[s].phase # "none"  BY <1>3, <3>3
      <4>. QED  BY <4>2, <4>4, <4>5, <4>6 DEF Adds
    <3>. QED  BY <3>2, <3>3
  <2>. QED  BY <1>1, <1>3, <1>4, <2>3, <2>4 DEF Adding, r, d
<1>. QED  BY <1>4, <1>9, <1>10

(***************************************************************************)
(* A session that nothing has been told of gets its key.                   *)
(***************************************************************************)
LEMMA KeyAdds ==
    ASSUME NEW kn, NEW q, NEW cur, NEW K, NEW L, Adding(kn, q, cur, K),
           NEW s \in Sessions, cur[s].phase = "none",
           \A t \in Sessions : t # s => L[t] = K[t],
           \A t \in Sessions : cur[t].phase # "none" => K[t] # K[s]
    PROVE  Adding(kn, q, cur, L)
<1>1. kn \in Pictures /\ cur \in Pictures /\ q \in Seq(Events) /\ InOrder(q, cur, K)  BY DEF Adding
<1>2. \A i \in 1 .. Len(q) : q[i].session \in Sessions  BY <1>1, Member, MemberIs
<1>3. InOrder(q, cur, L)  BY <1>1, <1>2 DEF InOrder
<1>4. ASSUME NEW t \in Sessions PROVE Adds(kn[t], q, t, cur[t], L)
  <2>1. Adds(kn[t], q, t, cur[t], K)  BY DEF Adding
  <2>2. ASSUME Named(L, t) PROVE PhaseAdds(kn[t], q, t, cur[t])
    <3>1. CASE cur[t].phase = "none"
      <4>1. kn[t].phase = "none"  BY <2>1, <3>1 DEF Adds, Unheard
      <4>2. \A i \in 1 .. Len(q) : q[i].session # t  BY <1>1, <3>1 DEF InOrder
      <4>. QED  BY <3>1, <4>1, <4>2 DEF PhaseAdds
    <3>2. CASE cur[t].phase # "none"
      <4>1. Named(K, t)  BY <2>2, <3>2 DEF Named
      <4>. QED  BY <2>1, <4>1 DEF Adds
    <3>. QED  BY <3>1, <3>2
  <2>. QED  BY <2>1, <2>2 DEF Adds
<1>. QED  BY <1>1, <1>3, <1>4 DEF Adding

-----------------------------------------------------------------------------
(***************************************************************************)
(* Folds. What FoldLeft computes is unfolded once, for the two operators   *)
(* that the stream folds with: a function with the equations of the fold   *)
(* exists, so the chosen one has them, and it goes through the positions   *)
(* in order.                                                               *)
(***************************************************************************)
\* A queue that an event joins is a queue.
LEMMA QueuedTyped ==
    ASSUME NEW q \in Seq(Events), NEW e \in Events PROVE Queued(q, e) \in Seq(Events)
<1>1. DOMAIN q = 1 .. Len(q) /\ Len(q) \in Nat  OBVIOUS
<1>2. CASE \E i \in 1 .. Len(q) : Supersedes(e, q[i])
  <2>1. Queued(q, e) = [i \in 1 .. Len(q) |-> IF Supersedes(e, q[i]) THEN e ELSE q[i]]
    BY <1>1, <1>2 DEF Queued
  <2>2. \A i \in 1 .. Len(q) : q[i] \in Events  OBVIOUS
  <2>. QED  BY <1>1, <2>1, <2>2
<1>3. CASE ~ \E i \in 1 .. Len(q) : Supersedes(e, q[i])
  BY <1>1, <1>3 DEF Queued
<1>. QED  BY <1>2, <1>3

\* Induction over the natural numbers, for a set of them.
LEMMA Inductively ==
    ASSUME NEW S, 0 \in S, \A n \in Nat : n \in S => n + 1 \in S
    PROVE  \A n \in Nat : n \in S
<1> DEFINE R == OpToRel(<, Nat)
           T == {n \in Nat : n \notin S}
<1>1. IsWellFoundedOn(R, Nat)  BY NatLessThanWellFounded
<1>2. \A m, n \in Nat : m < n => <<m, n>> \in R  BY DEF OpToRel
<1> HIDE DEF R
<1>3. SUFFICES ASSUME T # {} PROVE FALSE  OBVIOUS
<1>4. \E x \in T : \A y \in T : ~(<<y, x>> \in R)  BY <1>1, <1>3, WFMin
<1>5. PICK x \in T : \A y \in T : ~(<<y, x>> \in R)  BY <1>4
<1>6. x \in Nat /\ x # 0 /\ x - 1 \in Nat /\ x - 1 < x  BY <1>5
<1>7. x - 1 \notin T  BY <1>2, <1>5, <1>6
<1>8. x - 1 \in S  BY <1>6, <1>7
<1>. QED  BY <1>5, <1>6, <1>8

\* A set of positions has a last one.
LEMMA TopOf ==
    ASSUME NEW n \in Nat, NEW s \in SUBSET (1 .. n), s # {}
    PROVE  Max(s) \in s /\ \A y \in s : y <= Max(s)
<1> DEFINE R == OpToRel(<, Nat)
           T == {k \in Nat : \A y \in s : y <= k}
<1>1. IsWellFoundedOn(R, Nat)  BY NatLessThanWellFounded
<1>2. \A i, j \in Nat : i < j => <<i, j>> \in R  BY DEF OpToRel
<1> HIDE DEF R
<1>3. T # {}  <2>1. n \in T OBVIOUS <2> QED BY <2>1
<1>4. \E x \in T : \A y \in T : ~(<<y, x>> \in R)  BY <1>1, <1>3, WFMin
<1>5. PICK x \in T : \A y \in T : ~(<<y, x>> \in R)  BY <1>4
<1>6. x \in s
  <2>1. SUFFICES ASSUME x \notin s PROVE FALSE  OBVIOUS
  <2>2. ASSUME NEW y \in s PROVE y \in Nat /\ x \in Nat /\ y < x /\ y >= 1
    <3>1. y \in 1 .. n /\ x \in Nat /\ y <= x /\ y # x  BY <1>5, <2>1
    <3>. QED  BY <3>1
  <2>3. PICK y \in s : TRUE  OBVIOUS
  <2>4. x - 1 \in Nat /\ x - 1 < x  BY <2>2, <2>3
  <2>5. \A z \in s : z <= x - 1  BY <2>2
  <2>6. x - 1 \in T  BY <2>4, <2>5
  <2>. QED  BY <1>2, <1>5, <2>4, <2>6
<1>7. \E m \in s : \A y \in s : m >= y  BY <1>5, <1>6
<1>8. Max(s) \in s /\ \A y \in s : Max(s) >= y  BY <1>7 DEF Max
<1>. QED  BY <1>8

\* What a fold over the first n elements computes for every set of positions.
Folding(g, f, base, q, n) ==
    \A s \in SUBSET (1 .. n) :
        g[s] = IF s = {} THEN base ELSE f[<<g[s \ {Max(s)}], q[Max(s)]>>]

HasFold(X, f, base, q, n) == \E g \in [SUBSET (1 .. n) -> X] : Folding(g, f, base, q, n)

\* A function that folds over every set of the first n positions exists, step by
\* step, although the fold of the library only chooses one.
LEMMA FoldsExist ==
    ASSUME NEW X, NEW E, NEW f, NEW base \in X, NEW q \in Seq(E),
           \A v \in X, e \in E : f[<<v, e>>] \in X
    PROVE  \A n \in Nat : n <= Len(q) => HasFold(X, f, base, q, n)
<1> DEFINE S == {n \in Nat : n <= Len(q) => HasFold(X, f, base, q, n)}
<1>1. 0 \in S
  <2> DEFINE g == [s \in SUBSET (1 .. 0) |-> base]
  <2>1. \A s \in SUBSET (1 .. 0) : s = {}  OBVIOUS
  <2>2. g \in [SUBSET (1 .. 0) -> X] /\ Folding(g, f, base, q, 0)  BY <2>1 DEF Folding
  <2>. QED  BY <2>2 DEF HasFold
<1>2. ASSUME NEW n \in Nat, n \in S PROVE n + 1 \in S
  <2>1. SUFFICES ASSUME n + 1 <= Len(q) PROVE HasFold(X, f, base, q, n + 1)
    OBVIOUS
  <2>0. n <= Len(q)  BY <2>1
  <2>2. PICK g \in [SUBSET (1 .. n) -> X] : Folding(g, f, base, q, n)
    <3>1. HasFold(X, f, base, q, n)  BY <1>2, <2>0
    <3>. QED  BY <3>1 DEF HasFold
  <2>3. q[n + 1] \in E  BY <2>1
  <2> DEFINE h == [s \in SUBSET (1 .. n + 1) |-> IF n + 1 \in s THEN f[<<g[s \ {n + 1}], q[n + 1]>>] ELSE g[s]]
  <2>4. ASSUME NEW s \in SUBSET (1 .. n + 1)
        PROVE  /\ n + 1 \notin s => s \in SUBSET (1 .. n)
               /\ n + 1 \in s => s \ {n + 1} \in SUBSET (1 .. n) /\ Max(s) = n + 1
    <3>1. n + 1 \in s => Max(s) = n + 1
      <4>1. ASSUME n + 1 \in s PROVE Max(s) \in 1 .. n + 1 /\ n + 1 <= Max(s)
        <5>1. n + 1 \in Nat /\ s # {}  BY <4>1
        <5>. QED  BY <4>1, <5>1, TopOf
      <4>. QED  BY <4>1
    <3>2. \A i \in 1 .. n + 1 : i # n + 1 => i \in 1 .. n  OBVIOUS
    <3>. QED  BY <3>1, <3>2
  <2>5. h \in [SUBSET (1 .. n + 1) -> X]
    <3>1. ASSUME NEW s \in SUBSET (1 .. n + 1)
          PROVE  (IF n + 1 \in s THEN f[<<g[s \ {n + 1}], q[n + 1]>>] ELSE g[s]) \in X
      <4>1. CASE n + 1 \in s
        <5>1. g[s \ {n + 1}] \in X  BY <2>2, <2>4, <4>1
        <5>2. <<g[s \ {n + 1}], q[n + 1]>> \in X \X E  BY <5>1, <2>3
        <5>. QED  BY <5>2, <4>1
      <4>2. CASE n + 1 \notin s  BY <2>2, <2>4, <4>2
      <4>. QED  BY <4>1, <4>2
    <3>. QED  BY <3>1
  <2>6. ASSUME NEW s \in SUBSET (1 .. n + 1)
        PROVE  h[s] = IF s = {} THEN base ELSE f[<<h[s \ {Max(s)}], q[Max(s)]>>]
    <3>1. CASE n + 1 \in s
      <4>1. s \ {n + 1} \in SUBSET (1 .. n + 1) /\ n + 1 \notin s \ {n + 1}  OBVIOUS
      <4>2. h[s \ {n + 1}] = g[s \ {n + 1}]  BY <4>1
      <4>3. h[s] = f[<<g[s \ {n + 1}], q[n + 1]>>]  BY <3>1
      <4>. QED  BY <2>4, <3>1, <4>2, <4>3
    <3>2. CASE n + 1 \notin s
      <4>1. s \in SUBSET (1 .. n) /\ h[s] = g[s]  BY <2>4, <3>2
      <4>2. CASE s = {}  BY <2>2, <4>1, <4>2 DEF Folding
      <4>3. CASE s # {}
        <5>1. s \ {Max(s)} \in SUBSET (1 .. n + 1) /\ n + 1 \notin s \ {Max(s)}  BY <3>2
        <5>2. h[s \ {Max(s)}] = g[s \ {Max(s)}]  BY <5>1
        <5>. QED  BY <2>2, <4>1, <4>3, <5>2 DEF Folding
      <4>. QED  BY <4>2, <4>3
    <3>. QED  BY <3>1, <3>2
  <2> HIDE DEF h
  <2>7. Folding(h, f, base, q, n + 1)  BY <2>6 DEF Folding
  <2>. QED  BY <2>5, <2>7 DEF HasFold
<1> HIDE DEF S
<1>3. \A n \in Nat : n \in S  BY <1>1, <1>2, Inductively
<1>. QED  BY <1>3 DEF S


\* v comes out of applying f to one element of q after the other.
InTurn(X, f, base, q, v) ==
    \E h \in [0 .. Len(q) -> X] :
        h[0] = base /\ h[Len(q)] = v /\ \A i \in 1 .. Len(q) : h[i] = f[<<h[i - 1], q[i]>>]

Within(X, E, f) == \A v \in X, e \in E : f[<<v, e>>] \in X

\* What iterates so over all positions goes through them in order.
LEMMA FoldsInTurn ==
    ASSUME NEW X, NEW E, NEW f, NEW base \in X, NEW q \in Seq(E), NEW it,
           Within(X, E, f), Folding(it, f, base, q, Len(q))
    PROVE  InTurn(X, f, base, q, it[1 .. Len(q)])
<1>1. Len(q) \in Nat  OBVIOUS
<1>2. ASSUME NEW i \in 1 .. Len(q) PROVE it[1 .. i] = f[<<it[1 .. i - 1], q[i]>>]
  <2>1. i \in Nat /\ i \in 1 .. i /\ i <= Len(q)  BY <1>1
  <2>2. 1 .. i \in SUBSET (1 .. Len(q)) /\ 1 .. i # {}
    <3>1. \A j \in 1 .. i : j \in 1 .. Len(q)  BY <1>1, <2>1
    <3>. QED  BY <2>1, <3>1
  <2>3. 1 .. i \in SUBSET (1 .. i)  OBVIOUS
  <2>4. Max(1 .. i) \in 1 .. i /\ i <= Max(1 .. i)  BY ONLY <2>1, <2>2, <2>3, TopOf
  <2>5. Max(1 .. i) = i  BY <2>1, <2>4
  <2>6. (1 .. i) \ {i} = 1 .. i - 1  OBVIOUS
  <2>. QED  BY <2>2, <2>5, <2>6 DEF Folding
<1>3. it[1 .. 0] = base
  <2>1. 1 .. 0 = {} /\ 1 .. 0 \in SUBSET (1 .. Len(q))  OBVIOUS
  <2>. QED  BY <2>1 DEF Folding
<1>4. ASSUME NEW n \in 0 .. Len(q) PROVE it[1 .. n] \in X
  <2> DEFINE S == {m \in Nat : m <= Len(q) => it[1 .. m] \in X}
  <2>1. 0 \in S  BY <1>3
  <2>2. ASSUME NEW m \in Nat, m \in S PROVE m + 1 \in S
    <3>1. ASSUME m + 1 <= Len(q) PROVE it[1 .. m + 1] \in X
      <4>1. m + 1 \in 1 .. Len(q) /\ m <= Len(q) /\ (m + 1) - 1 = m  BY <1>1, <3>1
      <4>2. it[1 .. m] \in X /\ q[m + 1] \in E  BY <2>2, <4>1
      <4>3. it[1 .. m + 1] = f[<<it[1 .. m], q[m + 1]>>]  BY <1>2, <4>1
      <4>. QED  BY <4>2, <4>3 DEF Within
    <3>. QED  BY <3>1
  <2> HIDE DEF S
  <2>3. n \in Nat /\ n <= Len(q)  BY <1>1
  <2>4. n \in S  BY <2>1, <2>2, <2>3, Inductively
  <2>. QED  BY <2>3, <2>4 DEF S
<1> DEFINE h == [i \in 0 .. Len(q) |-> it[1 .. i]]
<1>5. h \in [0 .. Len(q) -> X]  BY <1>4
<1>6. 0 \in 0 .. Len(q) /\ Len(q) \in 0 .. Len(q)
      /\ \A i \in 1 .. Len(q) : i \in 0 .. Len(q) /\ i - 1 \in 0 .. Len(q)
  BY <1>1
<1>7. h[0] = base /\ h[Len(q)] = it[1 .. Len(q)]  BY <1>3, <1>6
<1>8. \A i \in 1 .. Len(q) : h[i] = f[<<h[i - 1], q[i]>>]  BY <1>2, <1>6
<1>. QED  BY <1>5, <1>7, <1>8 DEF InTurn

\* FoldLeft(Told, ...) tells the reader one event after the other.
LEMMA ToldInTurn ==
    ASSUME NEW base \in Pictures, NEW q \in Seq(Events)
    PROVE  \E h \in [0 .. Len(q) -> Pictures] :
              /\ h[0] = base
              /\ \A i \in 1 .. Len(q) : h[i] = Told(h[i - 1], q[i])
              /\ FoldLeft(Told, base, q) = h[Len(q)]
<1> DEFINE X == Pictures
           E == Events
           D == DOMAIN q
           it == CHOOSE it : it = [s \in SUBSET D |-> IF s = {} THEN base
                                                      ELSE Told(it[s \ {Max(s)}], q[Max(s)])]
           Y == X \cup {it[s] : s \in SUBSET D}
           f == [p \in Y \X E |-> Told(p[1], p[2])]
<1>0. \A v \in X, e \in E : Told(v, e) \in X  BY ToldIs
<1>01. base \in X /\ q \in Seq(E)  OBVIOUS
<1> HIDE DEF X, E
<1>1. D = 1 .. Len(q) /\ Len(q) \in Nat  OBVIOUS
<1>2. FoldLeft(Told, base, q) = it[D]
  BY DEF FoldLeft, MapThenFoldSet
<1>3. \A v \in Y, e \in E : f[<<v, e>>] = Told(v, e)  OBVIOUS
<1>4. \A v \in X : v \in Y  OBVIOUS
<1>5. \A s \in SUBSET D : it[s] \in Y  OBVIOUS
<1> HIDE DEF f, Y
<1>6. \A v \in X, e \in E : f[<<v, e>>] \in X /\ f[<<v, e>>] = Told(v, e)  BY <1>0, <1>3, <1>4
<1>7. PICK g \in [SUBSET (1 .. Len(q)) -> X] : Folding(g, f, base, q, Len(q))
  <2>1. Len(q) <= Len(q)  BY <1>1
  <2>2. HasFold(X, f, base, q, Len(q))  BY <1>01, <1>1, <1>6, <2>1, FoldsExist
  <2>. QED  BY <2>2 DEF HasFold
<1>8. \A s \in SUBSET D : s # {} => q[Max(s)] \in E /\ s \ {Max(s)} \in SUBSET D
  <2>1. ASSUME NEW s \in SUBSET D, s # {} PROVE q[Max(s)] \in E
    <3>1. Max(s) \in 1 .. Len(q)  BY <1>1, <2>1, TopOf
    <3>. QED  BY <1>01, <3>1
  <2>. QED  BY <2>1
<1>9. g = [s \in SUBSET D |-> IF s = {} THEN base ELSE Told(g[s \ {Max(s)}], q[Max(s)])]
  <2>1. ASSUME NEW s \in SUBSET D
        PROVE  g[s] = IF s = {} THEN base ELSE Told(g[s \ {Max(s)}], q[Max(s)])
    <3>1. CASE s = {}  BY <1>1, <1>7, <3>1 DEF Folding
    <3>2. CASE s # {}
      <4>1. q[Max(s)] \in E /\ g[s \ {Max(s)}] \in X  BY <1>1, <1>7, <1>8, <3>2
      <4>2. g[s] = f[<<g[s \ {Max(s)}], q[Max(s)]>>]  BY <1>1, <1>7, <3>2 DEF Folding
      <4>. QED  BY <1>6, <3>2, <4>1, <4>2
    <3>. QED  BY <3>1, <3>2
  <2>. QED  BY <1>1, <1>7, <2>1
<1>10. it = [s \in SUBSET D |-> IF s = {} THEN base ELSE Told(it[s \ {Max(s)}], q[Max(s)])]
  BY <1>9
<1> HIDE DEF it
<1>11. Folding(it, f, base, q, Len(q))
  <2>1. ASSUME NEW s \in SUBSET D
        PROVE  it[s] = IF s = {} THEN base ELSE f[<<it[s \ {Max(s)}], q[Max(s)]>>]
    <3>1. CASE s = {}  BY <1>10, <3>1
    <3>2. CASE s # {}
      <4>1. q[Max(s)] \in E /\ it[s \ {Max(s)}] \in Y  BY <1>5, <1>8, <3>2
      <4>2. it[s] = Told(it[s \ {Max(s)}], q[Max(s)])  BY <1>10, <3>2
      <4>. QED  BY <1>3, <3>2, <4>1, <4>2
    <3>. QED  BY <3>1, <3>2
  <2>. QED  BY <1>1, <2>1 DEF Folding
<1>12. PICK h \in [0 .. Len(q) -> X] :
          /\ h[0] = base
          /\ \A i \in 1 .. Len(q) : h[i] = f[<<h[i - 1], q[i]>>]
          /\ it[1 .. Len(q)] = h[Len(q)]
  <2>1. Within(X, E, f)  BY <1>6 DEF Within
  <2>2. InTurn(X, f, base, q, it[1 .. Len(q)])  BY <1>01, <1>11, <2>1, FoldsInTurn
  <2>. QED  BY <2>2 DEF InTurn
<1>13. ASSUME NEW i \in 1 .. Len(q) PROVE h[i] = Told(h[i - 1], q[i])
  <2>1. i - 1 \in 0 .. Len(q) /\ q[i] \in E  BY <1>01, <1>1
  <2>2. h[i - 1] \in X  BY <1>12, <2>1
  <2>. QED  BY <1>6, <1>12, <2>1, <2>2
<1>. QED  BY <1>1, <1>2, <1>12, <1>13 DEF X

\* FoldLeft(Queued, ...) queues one event after the other.
LEMMA QueuedInTurn ==
    ASSUME NEW base \in Seq(Events), NEW q \in Seq(Events)
    PROVE  \E h \in [0 .. Len(q) -> Seq(Events)] :
              /\ h[0] = base
              /\ \A i \in 1 .. Len(q) : h[i] = Queued(h[i - 1], q[i])
              /\ FoldLeft(Queued, base, q) = h[Len(q)]
<1> DEFINE X == Seq(Events)
           E == Events
           D == DOMAIN q
           it == CHOOSE it : it = [s \in SUBSET D |-> IF s = {} THEN base
                                                      ELSE Queued(it[s \ {Max(s)}], q[Max(s)])]
           Y == X \cup {it[s] : s \in SUBSET D}
           f == [p \in Y \X E |-> Queued(p[1], p[2])]
<1>0. \A v \in X, e \in E : Queued(v, e) \in X  BY QueuedTyped
<1>01. base \in X /\ q \in Seq(E)  OBVIOUS
<1> HIDE DEF X, E
<1>1. D = 1 .. Len(q) /\ Len(q) \in Nat  OBVIOUS
<1>2. FoldLeft(Queued, base, q) = it[D]
  BY DEF FoldLeft, MapThenFoldSet
<1>3. \A v \in Y, e \in E : f[<<v, e>>] = Queued(v, e)  OBVIOUS
<1>4. \A v \in X : v \in Y  OBVIOUS
<1>5. \A s \in SUBSET D : it[s] \in Y  OBVIOUS
<1> HIDE DEF f, Y
<1>6. \A v \in X, e \in E : f[<<v, e>>] \in X /\ f[<<v, e>>] = Queued(v, e)  BY <1>0, <1>3, <1>4
<1>7. PICK g \in [SUBSET (1 .. Len(q)) -> X] : Folding(g, f, base, q, Len(q))
  <2>1. Len(q) <= Len(q)  BY <1>1
  <2>2. HasFold(X, f, base, q, Len(q))  BY <1>01, <1>1, <1>6, <2>1, FoldsExist
  <2>. QED  BY <2>2 DEF HasFold
<1>8. \A s \in SUBSET D : s # {} => q[Max(s)] \in E /\ s \ {Max(s)} \in SUBSET D
  <2>1. ASSUME NEW s \in SUBSET D, s # {} PROVE q[Max(s)] \in E
    <3>1. Max(s) \in 1 .. Len(q)  BY <1>1, <2>1, TopOf
    <3>. QED  BY <1>01, <3>1
  <2>. QED  BY <2>1
<1>9. g = [s \in SUBSET D |-> IF s = {} THEN base ELSE Queued(g[s \ {Max(s)}], q[Max(s)])]
  <2>1. ASSUME NEW s \in SUBSET D
        PROVE  g[s] = IF s = {} THEN base ELSE Queued(g[s \ {Max(s)}], q[Max(s)])
    <3>1. CASE s = {}  BY <1>1, <1>7, <3>1 DEF Folding
    <3>2. CASE s # {}
      <4>1. q[Max(s)] \in E /\ g[s \ {Max(s)}] \in X  BY <1>1, <1>7, <1>8, <3>2
      <4>2. g[s] = f[<<g[s \ {Max(s)}], q[Max(s)]>>]  BY <1>1, <1>7, <3>2 DEF Folding
      <4>. QED  BY <1>6, <3>2, <4>1, <4>2
    <3>. QED  BY <3>1, <3>2
  <2>. QED  BY <1>1, <1>7, <2>1
<1>10. it = [s \in SUBSET D |-> IF s = {} THEN base ELSE Queued(it[s \ {Max(s)}], q[Max(s)])]
  BY <1>9
<1> HIDE DEF it
<1>11. Folding(it, f, base, q, Len(q))
  <2>1. ASSUME NEW s \in SUBSET D
        PROVE  it[s] = IF s = {} THEN base ELSE f[<<it[s \ {Max(s)}], q[Max(s)]>>]
    <3>1. CASE s = {}  BY <1>10, <3>1
    <3>2. CASE s # {}
      <4>1. q[Max(s)] \in E /\ it[s \ {Max(s)}] \in Y  BY <1>5, <1>8, <3>2
      <4>2. it[s] = Queued(it[s \ {Max(s)}], q[Max(s)])  BY <1>10, <3>2
      <4>. QED  BY <1>3, <3>2, <4>1, <4>2
    <3>. QED  BY <3>1, <3>2
  <2>. QED  BY <1>1, <2>1 DEF Folding
<1>12. PICK h \in [0 .. Len(q) -> X] :
          /\ h[0] = base
          /\ \A i \in 1 .. Len(q) : h[i] = f[<<h[i - 1], q[i]>>]
          /\ it[1 .. Len(q)] = h[Len(q)]
  <2>1. Within(X, E, f)  BY <1>6 DEF Within
  <2>2. InTurn(X, f, base, q, it[1 .. Len(q)])  BY <1>01, <1>11, <2>1, FoldsInTurn
  <2>. QED  BY <2>2 DEF InTurn
<1>13. ASSUME NEW i \in 1 .. Len(q) PROVE h[i] = Queued(h[i - 1], q[i])
  <2>1. i - 1 \in 0 .. Len(q) /\ q[i] \in E  BY <1>01, <1>1
  <2>2. h[i - 1] \in X  BY <1>12, <2>1
  <2>. QED  BY <1>6, <1>12, <2>1, <2>2
<1>. QED  BY <1>1, <1>2, <1>12, <1>13 DEF X

-----------------------------------------------------------------------------
(***************************************************************************)
(* Short sequences.                                                        *)
(***************************************************************************)
\* Two sequences of one event in a row.
LEMMA JoinTwo == ASSUME NEW E, NEW a \in E, NEW b \in E PROVE <<a>> \o <<b>> = <<a, b>>
<1> DEFINE x == <<a>>  y == <<b>>  z == <<a, b>>
<1>1. x \in Seq(E) /\ y \in Seq(E) /\ z \in Seq(E) /\ Len(x) = 1 /\ Len(y) = 1 /\ Len(z) = 2
      /\ x[1] = a /\ y[1] = b /\ z[1] = a /\ z[2] = b  OBVIOUS
<1> HIDE DEF x, y, z
<1>2. x \o y \in Seq(E) /\ Len(x \o y) = 2 /\ (x \o y)[1] = a /\ (x \o y)[2] = b
  <2>1. /\ x \o y \in Seq(E) /\ Len(x \o y) = Len(x) + Len(y)
        /\ \A i \in 1 .. Len(x) + Len(y) : (x \o y)[i] = IF i <= Len(x) THEN x[i] ELSE y[i - Len(x)]
    BY <1>1, ConcatProperties
  <2>. QED  BY <1>1, <2>1
<1>3. \A i \in 1 .. 2 : (x \o y)[i] = z[i]
  <2>1. ASSUME NEW i \in 1 .. 2 PROVE i = 1 \/ i = 2  BY <2>1
  <2>. QED  BY <1>1, <1>2, <2>1
<1>4. x \o y = z  BY <1>1, <1>2, <1>3, SeqEqual
<1>. QED  BY <1>4 DEF x, y, z

\* Three of them.
LEMMA JoinThree == ASSUME NEW E, NEW a \in E, NEW b \in E, NEW e \in E
  PROVE <<a>> \o <<b>> \o <<e>> = <<a, b, e>> /\ Append(<<a, b>>, e) = <<a, b, e>>
<1> DEFINE x == <<a, b>>  y == <<e>>  z == <<a, b, e>>
<1>1. x \in Seq(E) /\ y \in Seq(E) /\ z \in Seq(E) /\ Len(x) = 2 /\ Len(y) = 1 /\ Len(z) = 3
      /\ x[1] = a /\ x[2] = b /\ y[1] = e /\ z[1] = a /\ z[2] = b /\ z[3] = e  OBVIOUS
<1>a. <<a>> \o <<b>> = x  BY JoinTwo
<1> HIDE DEF x, y, z
<1>2. x \o y \in Seq(E) /\ Len(x \o y) = 3 /\ (x \o y)[1] = a /\ (x \o y)[2] = b /\ (x \o y)[3] = e
  <2>1. /\ x \o y \in Seq(E) /\ Len(x \o y) = Len(x) + Len(y)
        /\ \A i \in 1 .. Len(x) + Len(y) : (x \o y)[i] = IF i <= Len(x) THEN x[i] ELSE y[i - Len(x)]
    BY <1>1, ConcatProperties
  <2>. QED  BY <1>1, <2>1
<1>5. Append(x, e) = x \o <<e>>
  <2>1. \A t \in Seq(E) : Append(t, e) = t \o <<e>>  BY AppendIsConcat
  <2>. QED  BY <1>1, <2>1
<1>6. ASSUME NEW i \in 1 .. 3 PROVE i = 1 \/ i = 2 \/ i = 3  BY <1>6
<1>3. \A i \in 1 .. 3 : (x \o y)[i] = z[i]
  BY <1>1, <1>2, <1>6
<1>4. x \o y = z  BY <1>1, <1>2, <1>3, SeqEqual
<1>. QED  BY <1>4, <1>5, <1>a DEF x, y, z

\* The empty sequence adds nothing.
LEMMA JoinNothing == ASSUME NEW E, NEW q \in Seq(E)
  PROVE q \o <<>> = q /\ <<>> \o q = q
BY ConcatEmptySeq

(***************************************************************************)
(* Whoever reads all that is queued has the picture.                       *)
(***************************************************************************)
Rest(q, n) == [i \in 1 .. Len(q) - n |-> q[i + n]]

\* What is left of a queue after n reads.
LEMMA RestIs ==
    ASSUME NEW E, NEW q \in Seq(E)
    PROVE  /\ Rest(q, 0) = q /\ Rest(q, Len(q)) = <<>>
           /\ \A n \in Nat : n + 1 <= Len(q) =>
                 /\ Rest(q, n) \in Seq(E) /\ Rest(q, n) # <<>>
                 /\ Head(Rest(q, n)) = q[n + 1] /\ Tail(Rest(q, n)) = Rest(q, n + 1)
<1>1. Len(q) \in Nat /\ DOMAIN q = 1 .. Len(q) /\ \A i \in 1 .. Len(q) : q[i] \in E  OBVIOUS
<1>2. Rest(q, 0) = q
  <2>1. Rest(q, 0) = [i \in 1 .. Len(q) |-> q[i]]  BY <1>1 DEF Rest
  <2>. QED  BY <1>1, <2>1
<1>3. Rest(q, Len(q)) = <<>>
  <2>1. 1 .. Len(q) - Len(q) = {}  BY <1>1
  <2>2. Rest(q, Len(q)) = [i \in {} |-> q[i + Len(q)]]  BY <2>1 DEF Rest
  <2>3. Rest(q, Len(q)) \in Seq(E) /\ Len(Rest(q, Len(q))) = 0  BY <1>1 DEF Rest
  <2>. QED  BY <2>3
<1>4. ASSUME NEW n \in Nat, n + 1 <= Len(q)
      PROVE  /\ Rest(q, n) \in Seq(E) /\ Rest(q, n) # <<>>
             /\ Head(Rest(q, n)) = q[n + 1] /\ Tail(Rest(q, n)) = Rest(q, n + 1)
  <2> DEFINE m == Len(q) - n
  <2>1. m \in Nat /\ m >= 1 /\ m - 1 = Len(q) - (n + 1)  BY <1>1, <1>4
  <2>2. \A i \in 1 .. m : i + n \in 1 .. Len(q)  BY <1>1, <1>4
  <2>3. Rest(q, n) = [i \in 1 .. m |-> q[i + n]]  BY DEF Rest
  <2> HIDE DEF m
  <2>4. Rest(q, n) \in Seq(E) /\ Len(Rest(q, n)) = m  BY <1>1, <2>1, <2>2, <2>3
  <2>5. Head(Rest(q, n)) = q[n + 1]
    <3>1. 1 \in 1 .. m /\ 1 + n = n + 1  BY <2>1
    <3>2. Head(Rest(q, n)) = Rest(q, n)[1]  BY <2>1, <2>4
    <3>. QED  BY <2>3, <3>1, <3>2
  <2>6. /\ Tail(Rest(q, n)) \in Seq(E) /\ Len(Tail(Rest(q, n))) = m - 1
        /\ \A i \in 1 .. m - 1 : Tail(Rest(q, n))[i] = Rest(q, n)[i + 1]
    BY <2>1, <2>4
  <2>7. \A i \in 1 .. m - 1 : i + 1 \in 1 .. m /\ (i + 1) + n = i + (n + 1) /\ i + (n + 1) \in 1 .. Len(q)
    BY <2>1, <2>2
  <2>8. Rest(q, n + 1) = [i \in 1 .. m - 1 |-> q[i + (n + 1)]]  BY <2>1 DEF Rest
  <2>9. Tail(Rest(q, n)) = Rest(q, n + 1)
    <3>1. m - 1 \in Nat  BY <2>1
    <3>2. \A i \in 1 .. m - 1 : q[i + (n + 1)] \in E  BY <1>1, <2>7
    <3>3. Rest(q, n + 1) \in Seq(E) /\ Len(Rest(q, n + 1)) = m - 1  BY <2>8, <3>1, <3>2
    <3>4. ASSUME NEW i \in 1 .. m - 1 PROVE Tail(Rest(q, n))[i] = Rest(q, n + 1)[i]
      <4>1. i + 1 \in 1 .. m /\ (i + 1) + n = i + (n + 1)  BY <2>7
      <4>2. Rest(q, n)[i + 1] = q[(i + 1) + n]  BY <2>3, <4>1
      <4>. QED  BY <2>6, <2>8, <4>1, <4>2
    <3>. QED  BY <2>6, <3>3, <3>4, SeqEqual
  <2>. QED  BY <2>1, <2>4, <2>5, <2>9
<1>. QED  BY <1>2, <1>3, <1>4

\* The queue adds up until it is read to the end.
LEMMA FoldAdds ==
    ASSUME NEW kn, NEW q, NEW cur, NEW K, Adding(kn, q, cur, K)
    PROVE  Adding(FoldLeft(Told, kn, q), <<>>, cur, K)
<1>1. kn \in Pictures /\ q \in Seq(Events)  BY DEF Adding
<1>3. PICK h \in [0 .. Len(q) -> Pictures] :
         /\ h[0] = kn
         /\ \A i \in 1 .. Len(q) : h[i] = Told(h[i - 1], q[i])
         /\ FoldLeft(Told, kn, q) = h[Len(q)]
  BY <1>1, ToldInTurn
<1> DEFINE S == {n \in Nat : n <= Len(q) => Adding(h[n], Rest(q, n), cur, K)}
<1>4. 0 \in S
  <2>1. Adding(h[0], Rest(q, 0), cur, K)  BY <1>1, <1>3, RestIs
  <2>. QED  BY <2>1
<1>5. ASSUME NEW n \in Nat, n \in S PROVE n + 1 \in S
  <2>1. ASSUME n + 1 <= Len(q) PROVE Adding(h[n + 1], Rest(q, n + 1), cur, K)
    <3>1. n <= Len(q) /\ n + 1 \in 1 .. Len(q) /\ (n + 1) - 1 = n  BY <1>1, <2>1
    <3>2. Adding(h[n], Rest(q, n), cur, K)  BY <1>5, <3>1
    <3>3. /\ Rest(q, n) # <<>>
          /\ Head(Rest(q, n)) = q[n + 1] /\ Tail(Rest(q, n)) = Rest(q, n + 1)
      BY <1>1, <2>1, RestIs
    <3>4. Adding(Told(h[n], q[n + 1]), Rest(q, n + 1), cur, K)  BY <3>2, <3>3, ReadAdds
    <3>. QED  BY <1>3, <3>1, <3>4
  <2>. QED  BY <2>1
<1> HIDE DEF S
<1>6. Len(q) \in Nat /\ Len(q) <= Len(q)  BY <1>1
<1>7. Len(q) \in S  BY <1>4, <1>5, <1>6, Inductively
<1>8. Adding(h[Len(q)], Rest(q, Len(q)), cur, K)  BY <1>6, <1>7 DEF S
<1>. QED  BY <1>1, <1>3, <1>8, RestIs

\* With nothing queued the picture is right, but for the phase of a session that
\* shares its key.
LEMMA AllRead ==
    ASSUME NEW told, NEW cur, NEW K, Adding(told, <<>>, cur, K), NEW s \in Sessions
    PROVE  told[s] = IF Named(K, s) THEN cur[s] ELSE [cur[s] EXCEPT !.phase = told[s].phase]
<1>1. told[s] \in Views /\ cur[s] \in Views  BY DEF Adding, Pictures
<1>2. Len(<<>>) = 0  OBVIOUS
<1>3. /\ ~told[s].opened <=> ~cur[s].opened
      /\ ~told[s].closed <=> ~cur[s].closed
      /\ told[s].references = cur[s].references
  <2>1. Adds(told[s], <<>>, s, cur[s], K)  BY DEF Adding
  <2>. QED  BY <1>2, <2>1 DEF Adds, OpenedAdds, ClosedAdds, ReferencesAdd, NoneOf, LastBut
<1>4. Named(K, s) => told[s].phase = cur[s].phase
  <2>1. Adds(told[s], <<>>, s, cur[s], K)  BY DEF Adding
  <2>. QED  BY <1>2, <2>1 DEF Adds, PhaseAdds, NoneOf
<1>5. told[s].opened = cur[s].opened /\ told[s].closed = cur[s].closed  BY <1>1, <1>3 DEF Views
<1>6. told[s] = [opened |-> told[s].opened, phase |-> told[s].phase,
                 references |-> told[s].references, closed |-> told[s].closed]
  BY <1>1 DEF Views
<1>7. cur[s] = [opened |-> cur[s].opened, phase |-> cur[s].phase,
                references |-> cur[s].references, closed |-> cur[s].closed]
  BY <1>1 DEF Views
<1>8. [cur[s] EXCEPT !.phase = told[s].phase] =
         [opened |-> cur[s].opened, phase |-> told[s].phase,
          references |-> cur[s].references, closed |-> cur[s].closed]
  BY <1>1 DEF Views
<1>. QED  BY <1>3, <1>4, <1>5, <1>6, <1>7, <1>8

(***************************************************************************)
(* What a step reports, one event after the other.                         *)
(***************************************************************************)
Current == [s \in Sessions |-> Inspected(s)]
KeyOf   == [s \in Sessions |-> identity[s].key]

\* The reader is on its way to the picture cur.
Heading(cur, K) ==
    Adding(known, queue, cur, K) /\ (reader = "waiting" => queue = <<>>)

\* The pictures that the events es lead through, each of them in its place.
Leads(es, c, K) ==
    \A i \in 1 .. Len(es) : Reportable(es[i], c[i], K) /\ c[i + 1] = Told(c[i], es[i])

\* Events that are queued one after the other.
LEMMA QueueLeads ==
    ASSUME NEW kn, NEW q, NEW es \in Seq(Events), NEW c, NEW K,
           Adding(kn, q, c[1], K), Leads(es, c, K)
    PROVE  Adding(kn, FoldLeft(Queued, q, es), c[Len(es) + 1], K)
<1>1. q \in Seq(Events) /\ Len(es) \in Nat  BY DEF Adding
<1>3. PICK h \in [0 .. Len(es) -> Seq(Events)] :
         /\ h[0] = q
         /\ \A i \in 1 .. Len(es) : h[i] = Queued(h[i - 1], es[i])
         /\ FoldLeft(Queued, q, es) = h[Len(es)]
  BY <1>1, QueuedInTurn
<1> DEFINE S == {n \in Nat : n <= Len(es) => Adding(kn, h[n], c[n + 1], K)}
<1>4. 0 \in S
  <2>1. Adding(kn, h[0], c[0 + 1], K)  BY <1>3
  <2>. QED  BY <2>1
<1>5. ASSUME NEW n \in Nat, n \in S PROVE n + 1 \in S
  <2>1. ASSUME n + 1 <= Len(es) PROVE Adding(kn, h[n + 1], c[(n + 1) + 1], K)
    <3>1. n <= Len(es) /\ n + 1 \in 1 .. Len(es) /\ (n + 1) - 1 = n  BY <1>1, <2>1
    <3>2. Adding(kn, h[n], c[n + 1], K)  BY <1>5, <3>1
    <3>3. Reportable(es[n + 1], c[n + 1], K) /\ c[(n + 1) + 1] = Told(c[n + 1], es[n + 1])
      BY <3>1 DEF Leads
    <3>4. Adding(kn, Queued(h[n], es[n + 1]), Told(c[n + 1], es[n + 1]), K)  BY <3>2, <3>3, QueuedAdds
    <3>. QED  BY <1>3, <3>1, <3>3, <3>4
  <2>. QED  BY <2>1
<1> HIDE DEF S
<1>6. Len(es) <= Len(es)  BY <1>1
<1>7. Len(es) \in S  BY <1>1, <1>4, <1>5, Inductively
<1>. QED  BY <1>3, <1>6, <1>7 DEF S

\* emit() of the stream, for every event of a step: a waiting reader gets the first.
LEMMA EmitLeads ==
    ASSUME NEW es \in Seq(Events), NEW c, NEW K, Subscribed, registryPhase # "closed",
           Heading(c[1], K), Leads(es, c, K), Emit(es)
    PROVE  Adding(known', queue', c[Len(es) + 1], K) /\ (reader' = "waiting" => queue' = <<>>)
<1>1. Len(es) \in Nat  OBVIOUS
<1>2. CASE reader = "waiting" /\ es # <<>>
  <2>1. /\ reader' = "reading" /\ known' = Told(known, Head(es))
        /\ queue' = FoldLeft(Queued, queue, Tail(es))
    BY <1>2 DEF Emit
  <2>2. queue = <<>> /\ Adding(known, <<>>, c[1], K)  BY <1>2 DEF Heading
  <2>3. /\ 1 \in 1 .. Len(es) /\ Head(es) = es[1] /\ Tail(es) \in Seq(Events)
        /\ Len(Tail(es)) = Len(es) - 1 /\ \A i \in 1 .. Len(es) - 1 : Tail(es)[i] = es[i + 1]
    BY <1>2
  <2>4. Reportable(es[1], c[1], K) /\ c[1 + 1] = Told(c[1], es[1])  BY <2>3 DEF Leads
  <2>5. Adding(known', <<>>, c[2], K)  BY <2>1, <2>2, <2>3, <2>4, DirectAdds
  <2> DEFINE d == [i \in 1 .. Len(es) |-> c[i + 1]]
  <2>6. d[1] = c[2]  BY <2>3
  <2>7. Leads(Tail(es), d, K)
    <3>1. ASSUME NEW i \in 1 .. Len(es) - 1
          PROVE  Reportable(Tail(es)[i], d[i], K) /\ d[i + 1] = Told(d[i], Tail(es)[i])
      <4>1. i + 1 \in 1 .. Len(es) /\ i \in 1 .. Len(es)  BY <1>1
      <4>2. Reportable(es[i + 1], c[i + 1], K) /\ c[(i + 1) + 1] = Told(c[i + 1], es[i + 1])
        BY <4>1 DEF Leads
      <4>3. d[i] = c[i + 1] /\ d[i + 1] = c[(i + 1) + 1]  BY <4>1
      <4>. QED  BY <2>3, <4>2, <4>3
    <3>. QED  BY <2>3, <3>1 DEF Leads
  <2>8. d[Len(Tail(es)) + 1] = c[Len(es) + 1]
    <3>1. Len(es) \in 1 .. Len(es) /\ Len(Tail(es)) + 1 = Len(es)  BY <1>1, <2>3
    <3>. QED  BY <3>1
  <2> HIDE DEF d
  <2>9. Adding(known', FoldLeft(Queued, <<>>, Tail(es)), d[Len(Tail(es)) + 1], K)
    BY <2>3, <2>5, <2>6, <2>7, QueueLeads
  <2>. QED  BY <2>1, <2>2, <2>8, <2>9
<1>3. CASE reader = "reading"
  <2>1. reader' = "reading" /\ known' = known /\ queue' = FoldLeft(Queued, queue, es)
    BY <1>3 DEF Emit, Subscribed
  <2>. QED  BY <2>1, QueueLeads DEF Heading
<1>4. CASE reader = "waiting" /\ es = <<>>
  <2>1. reader' = reader /\ known' = known /\ queue' = FoldLeft(Queued, queue, es)
    BY <1>4 DEF Emit, Subscribed
  <2>2. queue = <<>> /\ Adding(known, queue', c[Len(es) + 1], K)
    BY <1>4, <2>1, QueueLeads DEF Heading
  <2>3. queue' = <<>>
    <3>2. <<>> \in Seq(Events) /\ Len(<<>>) = 0  OBVIOUS
    <3>3. PICK h \in [0 .. Len(es) -> Seq(Events)] :
             /\ h[0] = queue
             /\ \A i \in 1 .. Len(es) : h[i] = Queued(h[i - 1], es[i])
             /\ FoldLeft(Queued, queue, es) = h[Len(es)]
      <4>1. queue \in Seq(Events)  BY <2>2, <3>2
      <4>. QED  BY <4>1, QueuedInTurn
    <3>. QED  BY <1>4, <2>1, <2>2, <3>2, <3>3
  <2>. QED  BY <2>1, <2>2, <2>3
<1>. QED  BY <1>2, <1>3, <1>4 DEF Subscribed

-----------------------------------------------------------------------------
(***************************************************************************)
(* The inductive invariant of the registry with its stream.                *)
(***************************************************************************)
\* A session that has not been constructed has no key.
Nameless == \A s \in Sessions : phase[s] = "none" => identity[s].key = None

Informed == Subscribed /\ registryPhase # "closed" => Heading(Current, KeyOf)

NotYet == reader = "absent" => queue = <<>>

EventsIInv == RegistryIInv /\ Nameless /\ Informed /\ NotYet

CurrentOK ==
    /\ Current \in Pictures
    /\ \A s \in Sessions :
          /\ ~Current[s].opened <=> phase[s] = "none"
          /\ Current[s].closed <=> closing[s] = "done"
          /\ Current[s].phase = phase[s] /\ Current[s].references = references[s]
          /\ phase[s] = "none" => Current[s] = Unheard
          /\ phase[s] \in Phases /\ references[s] \in Nat
          /\ phase[s] = "none" => references[s] = 0 /\ closing[s] = "no"
          /\ phase[s] # "none" => KeyOf[s] \in Keys
          /\ KeyOf[s] \in Keys \cup {None} /\ KeyOf[s] = identity[s].key

\* The sessions as they are make a picture, in every state of the invariant.
LEMMA CurrentIs == RegistryIInv => CurrentOK
<1> SUFFICES ASSUME RegistryIInv PROVE CurrentOK  OBVIOUS
<1>1. /\ SessionTypeOK /\ RegistryTypeOK
      /\ \A s \in Sessions : Unopened(s) /\ Unknown(s) /\ Filed(s) /\ Counted(s)
  BY DEF RegistryIInv, SessionIInv, Consistent, RegistryConsistent, Tracked
<1>2. \A s \in Sessions : phase[s] \in Phases /\ references[s] \in Nat
  BY <1>1 DEF SessionTypeOK, RegistryTypeOK, Phases, Terminal
<1>3. ASSUME NEW s \in Sessions, phase[s] = "none" PROVE references[s] = 0 /\ closing[s] = "no"
  <2>1. Holders(s) = {}  BY <1>1, <1>3 DEF Unknown, Holders
  <2>2. references[s] = 0  BY <1>1, <2>1, FS_EmptySet DEF Counted
  <2>. QED  BY <1>1, <1>3, <2>2 DEF Unopened
<1>4. ASSUME NEW s \in Sessions
      PROVE  Inspected(s) \in Views /\ Current[s] = Inspected(s)
  BY <1>2 DEF Inspected, Views, Current
<1>5. Current \in Pictures  BY <1>4 DEF Current, Pictures
<1>6. ASSUME NEW s \in Sessions
      PROVE  /\ ~Current[s].opened <=> phase[s] = "none"
             /\ Current[s].closed <=> closing[s] = "done"
             /\ Current[s].phase = phase[s] /\ Current[s].references = references[s]
  <2>1. Current[s] = [opened |-> phase[s] # "none", phase |-> phase[s],
                      references |-> references[s], closed |-> closing[s] = "done"]
    BY <1>4 DEF Inspected
  <2>2. Current[s].opened = (phase[s] # "none")  BY <2>1
  <2>3. Current[s].closed = (closing[s] = "done")  BY <2>1
  <2>4. Current[s].phase = phase[s] /\ Current[s].references = references[s]  BY <2>1
  <2>. QED  BY <2>2, <2>3, <2>4
<1>7. ASSUME NEW s \in Sessions, phase[s] = "none" PROVE Current[s] = Unheard
  BY <1>3, <1>4, <1>7 DEF Inspected, Unheard
<1>8. ASSUME NEW s \in Sessions
      PROVE  /\ phase[s] # "none" => KeyOf[s] \in Keys
             /\ KeyOf[s] \in Keys \cup {None} /\ KeyOf[s] = identity[s].key
  BY <1>1 DEF Filed, KeyOf, RegistryTypeOK
<1>. QED  BY <1>2, <1>3, <1>5, <1>6, <1>7, <1>8 DEF CurrentOK

\* And so after a step.
LEMMA CurrentIsNext == RegistryIInv' => CurrentOK'
BY CurrentIs, PTL

\* The picture that an event makes of another.
LEMMA ToldMakes ==
    ASSUME NEW kn \in Pictures, NEW w \in Pictures, NEW e \in Events,
           \A s \in Sessions : s # e.session => w[s] = kn[s],
           w[e.session].opened <=> kn[e.session].opened \/ e.type = "opened",
           w[e.session].closed <=> kn[e.session].closed \/ e.type = "closed",
           w[e.session].references = e.references,
           w[e.session].phase = IF e.type = "updated" \/ kn[e.session].phase = "none"
                                THEN e.phase ELSE kn[e.session].phase
    PROVE  Told(kn, e) = w
<1> DEFINE v == Told(kn, e)
           s == e.session
<1>1. /\ v \in Pictures /\ s \in Sessions
      /\ \A t \in Sessions : t # s => v[t] = kn[t]
      /\ v[s].opened = (kn[s].opened \/ e.type = "opened")
      /\ v[s].closed = (kn[s].closed \/ e.type = "closed")
      /\ v[s].references = e.references
      /\ v[s].phase = IF e.type = "updated" \/ kn[s].phase = "none" THEN e.phase ELSE kn[s].phase
  BY ToldIs, MemberIs
<1> HIDE DEF v, s
<1>2. v[s] \in Views /\ w[s] \in Views /\ kn[s] \in Views  BY <1>1 DEF Pictures
<1>3. v[s].opened \in BOOLEAN /\ w[s].opened \in BOOLEAN /\ v[s].closed \in BOOLEAN /\ w[s].closed \in BOOLEAN
  BY <1>2 DEF Views
<1>4. v[s].opened = w[s].opened  BY <1>1, <1>3 DEF s
<1>5. v[s].closed = w[s].closed  BY <1>1, <1>3 DEF s
<1>6. v[s].phase = w[s].phase /\ v[s].references = w[s].references  BY <1>1 DEF s
<1>7. v[s] = w[s]  BY <1>2, <1>4, <1>5, <1>6 DEF Views
<1>8. \A t \in Sessions : v[t] = w[t]  BY <1>1, <1>7 DEF s
<1>9. v = [t \in Sessions |-> v[t]] /\ w = [t \in Sessions |-> w[t]]  BY <1>1 DEF Pictures
<1>. QED  BY <1>8, <1>9 DEF v

\* The fields of what report() hands over.
LEMMA ReportIs ==
    ASSUME CurrentOK', NEW s \in Sessions, NEW type \in Kinds, NEW state \in Phases,
           state # "none", NEW count \in Nat
    PROVE  LET e == Report(s, type, state, count) IN
           /\ e \in Events /\ e.session = s /\ e.type = type /\ e.phase = state
           /\ e.references = count /\ e.key = KeyOf'[s]
<1>1. KeyOf'[s] \in Keys \cup {None} /\ KeyOf'[s] = identity'[s].key  BY DEF CurrentOK
<1>. QED  BY <1>1 DEF Report, Events

\* A step that reports what leads from an earlier picture to the present one.
LEMMA Announced ==
    ASSUME NEW es \in Seq(Events), NEW c, Subscribed, registryPhase # "closed", Emit(es),
           Heading(c[1], KeyOf'), Leads(es, c, KeyOf'), c[Len(es) + 1] = Current'
    PROVE  Heading(Current, KeyOf)'
BY EmitLeads DEF Heading

\* A step that reports one event ...
LEMMA OneEvent ==
    ASSUME NEW a \in Events, NEW cur, Subscribed, registryPhase # "closed", Emit(<<a>>),
           Heading(cur, KeyOf'), Reportable(a, cur, KeyOf'), Told(cur, a) = Current'
    PROVE  Heading(Current, KeyOf)'
<1> DEFINE es == <<a>>
           c  == <<cur, Told(cur, a)>>
<1>1. es \in Seq(Events) /\ Len(es) = 1 /\ es[1] = a /\ c[1] = cur /\ c[2] = Told(cur, a)  OBVIOUS
<1>2. Leads(es, c, KeyOf')
  <2>1. ASSUME NEW i \in 1 .. Len(es) PROVE i = 1  BY <1>1, <2>1
  <2>. QED  BY <1>1, <2>1 DEF Leads
<1>3. c[Len(es) + 1] = Current'  BY <1>1
<1> HIDE DEF c
<1>. QED  BY <1>1, <1>2, <1>3, Announced

\* ... or two ...
LEMMA TwoEvents ==
    ASSUME NEW a \in Events, NEW b \in Events, NEW cur, Subscribed, registryPhase # "closed",
           Emit(<<a, b>>),
           Heading(cur, KeyOf'), Reportable(a, cur, KeyOf'), Reportable(b, Told(cur, a), KeyOf'),
           Told(Told(cur, a), b) = Current'
    PROVE  Heading(Current, KeyOf)'
<1> DEFINE es == <<a, b>>
           d  == Told(cur, a)
           c  == <<cur, d, Told(d, b)>>
<1>1. /\ es \in Seq(Events) /\ Len(es) = 2 /\ es[1] = a /\ es[2] = b
      /\ c[1] = cur /\ c[2] = d /\ c[3] = Told(d, b)
  OBVIOUS
<1>2. Leads(es, c, KeyOf')
  <2>1. ASSUME NEW i \in 1 .. Len(es) PROVE i = 1 \/ i = 2  BY <1>1, <2>1
  <2>. QED  BY <1>1, <2>1 DEF Leads
<1>3. c[Len(es) + 1] = Current'  BY <1>1
<1> HIDE DEF c
<1>. QED  BY <1>1, <1>2, <1>3, Announced

\* ... or three ...
LEMMA ThreeEvents ==
    ASSUME NEW a \in Events, NEW b \in Events, NEW e \in Events, NEW cur, Subscribed, registryPhase # "closed",
           Emit(<<a, b, e>>),
           Heading(cur, KeyOf'), Reportable(a, cur, KeyOf'), Reportable(b, Told(cur, a), KeyOf'),
           Reportable(e, Told(Told(cur, a), b), KeyOf'),
           Told(Told(Told(cur, a), b), e) = Current'
    PROVE  Heading(Current, KeyOf)'
<1> DEFINE es == <<a, b, e>>
           d  == Told(cur, a)
           f  == Told(d, b)
           c  == <<cur, d, f, Told(f, e)>>
<1>1. /\ es \in Seq(Events) /\ Len(es) = 3 /\ es[1] = a /\ es[2] = b /\ es[3] = e
      /\ c[1] = cur /\ c[2] = d /\ c[3] = f /\ c[4] = Told(f, e)
  OBVIOUS
<1>2. Leads(es, c, KeyOf')
  <2>1. ASSUME NEW i \in 1 .. Len(es) PROVE i = 1 \/ i = 2 \/ i = 3  BY <1>1, <2>1
  <2>. QED  BY <1>1, <2>1 DEF Leads
<1>3. c[Len(es) + 1] = Current'  BY <1>1
<1> HIDE DEF c
<1>. QED  BY <1>1, <1>2, <1>3, Announced

\* ... or nothing, when nothing has changed.
LEMMA NoEvent ==
    ASSUME Subscribed, registryPhase # "closed",
           Emit(<<>>), Heading(Current, KeyOf), Current' = Current, KeyOf' = KeyOf
    PROVE  Heading(Current, KeyOf)'
<1> DEFINE c == <<Current>>
           es == <<>>
<1>1. es \in Seq(Events) /\ Len(es) = 0 /\ c[1] = Current  OBVIOUS
<1>2. Leads(es, c, KeyOf')  BY <1>1 DEF Leads
<1>3. c[Len(es) + 1] = Current'  BY <1>1
<1> HIDE DEF c
<1>. QED  BY <1>1, <1>2, <1>3, Announced

-----------------------------------------------------------------------------
(***************************************************************************)
(* Each step reports what it changed.                                      *)
(***************************************************************************)
\* acquire() of a session that is there.
LEMMA SharedAdds ==
    ASSUME CurrentOK, CurrentOK', Subscribed, registryPhase # "closed",
           Heading(Current, KeyOf), RegistryConsistent,
           NEW h \in Handles, NEW k \in Keys, NEW c \in Contracts,
           AcquireReports(h, k, c), sessions[k] # None
    PROVE  Heading(Current, KeyOf)'
<1> DEFINE s == sessions[k]
           e == Report(s, "retained", phase'[s], references'[s])
<1>1. s \in Sessions /\ phase[s] # "none"  BY KnownIsConstructed
<1>2. AcquireShared(h, k, c)  BY DEF AcquireReports, Acquire, AcquireNew
<1>3. /\ handle'[h] = s /\ references' = [references EXCEPT ![s] = @ + 1]
      /\ UNCHANGED <<identity, phase, closing>>
  BY <1>2 DEF AcquireShared, sessionVars, RegistryConsistent, RegistryTypeOK
<1>4. Emit(<<e>>)  BY <1>3 DEF AcquireReports
<1>5. phase'[s] \in Phases /\ references'[s] \in Nat /\ phase'[s] # "none"
  BY <1>1, <1>3 DEF CurrentOK
<1>6. /\ e \in Events /\ e.session = s /\ e.type = "retained" /\ e.phase = phase'[s]
      /\ e.references = references'[s] /\ e.key = KeyOf'[s]
  BY <1>1, <1>5, ReportIs DEF Kinds
<1> HIDE DEF s, e
<1>7. KeyOf' = KeyOf  BY <1>3 DEF KeyOf
<1>8. \A t \in Sessions : t # s => Current'[t] = Current[t]
  BY <1>3 DEF Current, Inspected, CurrentOK, RegistryConsistent, RegistryTypeOK
<1>9. Told(Current, e) = Current'
  <2>1. Current \in Pictures /\ Current' \in Pictures  BY DEF CurrentOK
  <2>2. Current'[s].opened <=> Current[s].opened \/ e.type = "opened"
    BY <1>1, <1>3, <1>6 DEF CurrentOK
  <2>3. Current'[s].closed <=> Current[s].closed \/ e.type = "closed"
    BY <1>1, <1>3, <1>6 DEF CurrentOK
  <2>4. Current'[s].references = e.references  BY <1>1, <1>6 DEF CurrentOK
  <2>5. Current'[s].phase = IF e.type = "updated" \/ Current[s].phase = "none" THEN e.phase ELSE Current[s].phase
    BY <1>1, <1>3, <1>6 DEF CurrentOK
  <2>. QED  BY <1>6, <1>8, <2>1, <2>2, <2>3, <2>4, <2>5, ToldMakes
<1>10. Reportable(e, Current, KeyOf')  BY <1>6 DEF Reportable
<1>. QED  BY <1>4, <1>6, <1>7, <1>9, <1>10, OneEvent

\* acquire() of a key without a session.
LEMMA NewAdds ==
    ASSUME CurrentOK, CurrentOK', Subscribed, registryPhase # "closed",
           Heading(Current, KeyOf), RegistryConsistent, Nameless,
           RegistryConsistent', SessionTypeOK,
           NEW h \in Handles, NEW k \in Keys, NEW c \in Contracts,
           AcquireReports(h, k, c), sessions[k] = None
    PROVE  Heading(Current, KeyOf)'
<1>1. PICK s \in Sessions : AcquireNew(h, k, c, s)
  BY DEF AcquireReports, Acquire, AcquireShared
<1>2. /\ phase[s] = "none" /\ handle'[h] = s
      /\ references' = [references EXCEPT ![s] = @ + 1]
      /\ identity' = [identity EXCEPT ![s] = [key |-> k, contract |-> c]]
      /\ phase' \in {[phase EXCEPT ![s] = "connecting"], [phase EXCEPT ![s] = "error"]}
      /\ closing' = closing
  BY <1>1 DEF AcquireNew, Open, RegistryConsistent, RegistryTypeOK
<1> DEFINE f == Report(s, "updated", "error", 0)
           o == Report(s, "opened", phase'[s], 0)
           r == Report(s, "retained", phase'[s], references'[s])
<1>3. /\ phase'[s] \in {"connecting", "error"} /\ references[s] = 0 /\ references'[s] = 1
      /\ closing[s] = "no" /\ Current[s] = Unheard
      /\ \A t \in Sessions : t # s => phase'[t] = phase[t] /\ references'[t] = references[t]
  BY <1>2 DEF CurrentOK, RegistryConsistent, RegistryTypeOK, SessionTypeOK
<1>4. "error" \in Phases /\ "connecting" \in Phases /\ 0 \in Nat /\ 1 \in Nat
      /\ "updated" \in Kinds /\ "opened" \in Kinds /\ "retained" \in Kinds
  BY DEF Phases, Kinds
<1>5. /\ f \in Events /\ f.session = s /\ f.type = "updated" /\ f.phase = "error"
      /\ f.references = 0 /\ f.key = KeyOf'[s]
  BY <1>4, ReportIs
<1>6. /\ o \in Events /\ o.session = s /\ o.type = "opened" /\ o.phase = phase'[s]
      /\ o.references = 0 /\ o.key = KeyOf'[s]
  BY <1>3, <1>4, ReportIs
<1>7. /\ r \in Events /\ r.session = s /\ r.type = "retained" /\ r.phase = phase'[s]
      /\ r.references = 1 /\ r.key = KeyOf'[s]
  BY <1>3, <1>4, ReportIs
<1>8. Emit((IF phase'[s] = "error" THEN <<f>> ELSE <<>>) \o <<o>> \o <<r>>)
  BY <1>2 DEF AcquireReports
<1> HIDE DEF f, o, r
<1>9. \A t \in Sessions : t # s => Current'[t] = Current[t]
  BY <1>2, <1>3 DEF Current, Inspected
<1>10. Current \in Pictures /\ Current' \in Pictures /\ Current[s].phase = "none"
       /\ Current'[s].phase = phase'[s] /\ Current'[s].references = 1
       /\ Current'[s].opened /\ ~Current'[s].closed
       /\ ~Current[s].opened /\ ~Current[s].closed /\ Current[s].references = 0
  BY <1>2, <1>3 DEF CurrentOK
<1>11. Heading(Current, KeyOf')
  <2>1. \A t \in Sessions : t # s => KeyOf'[t] = KeyOf[t]  BY <1>2 DEF KeyOf
  <2>2. \A t \in Sessions : Current[t].phase # "none" => KeyOf[t] # KeyOf[s]
    <3>1. KeyOf[s] = None  BY <1>2 DEF Nameless, KeyOf
    <3>2. \A t \in Sessions : Current[t].phase # "none" => KeyOf[t] \in Keys  BY DEF CurrentOK
    <3>. QED  BY <3>1, <3>2, NoneIsNoSession
  <2>3. Adding(known, queue, Current, KeyOf)  BY DEF Heading
  <2>4. Adding(known, queue, Current, KeyOf')  BY <1>10, <2>1, <2>2, <2>3, KeyAdds
  <2>. QED  BY <2>4 DEF Heading
<1>12. ASSUME NEW cur \in Pictures, ~cur[s].closed, ~cur[s].opened, cur[s].references = 0,
              cur[s].phase = "none" \/ cur[s].phase = phase'[s],
              \A t \in Sessions : t # s => cur[t] = Current[t]
       PROVE  /\ Reportable(o, cur, KeyOf') /\ Reportable(r, Told(cur, o), KeyOf')
              /\ Told(Told(cur, o), r) = Current'
  <2> DEFINE d == Told(cur, o)
  <2>1. Reportable(o, cur, KeyOf') /\ Reportable(r, d, KeyOf')  BY <1>6, <1>7 DEF Reportable
  <2>2. /\ d \in Pictures /\ \A t \in Sessions : t # s => d[t] = cur[t]
        /\ d[s].opened = (cur[s].opened \/ o.type = "opened")
        /\ d[s].closed = (cur[s].closed \/ o.type = "closed")
        /\ d[s].references = 0
        /\ d[s].phase = IF o.type = "updated" \/ cur[s].phase = "none" THEN o.phase ELSE cur[s].phase
    BY <1>6, <1>12, ToldIs
  <2> HIDE DEF d
  <2>3. d[s].phase = phase'[s]  BY <1>6, <1>12, <2>2
  <2>4. d[s].opened  BY <1>6, <2>2
  <2>5. ~d[s].closed  BY <1>6, <1>12, <2>2
  <2>6. Current'[s].opened <=> d[s].opened \/ r.type = "opened"  BY <1>10, <2>4
  <2>7. Current'[s].closed <=> d[s].closed \/ r.type = "closed"  BY <1>7, <1>10, <2>5
  <2>8. Current'[s].phase = IF r.type = "updated" \/ d[s].phase = "none" THEN r.phase ELSE d[s].phase
    BY <1>7, <1>10, <2>3
  <2>9. \A t \in Sessions : t # s => Current'[t] = d[t]  BY <1>9, <1>12, <2>2
  <2>10. Told(d, r) = Current'  BY <1>7, <1>10, <2>2, <2>6, <2>7, <2>8, <2>9, ToldMakes
  <2>. QED  BY <2>1, <2>10 DEF d
<1>13. CASE phase'[s] = "error"
  <2>1. Emit(<<f, o, r>>)
    <3>1. <<f>> \o <<o>> \o <<r>> = <<f, o, r>>  BY <1>5, <1>6, <1>7, JoinThree
    <3>. QED  BY <1>8, <1>13, <3>1
  <2> DEFINE d == Told(Current, f)
  <2>2. /\ d \in Pictures /\ \A t \in Sessions : t # s => d[t] = Current[t]
        /\ d[s].opened = (Current[s].opened \/ f.type = "opened")
        /\ d[s].closed = (Current[s].closed \/ f.type = "closed")
        /\ d[s].references = 0
        /\ d[s].phase = IF f.type = "updated" \/ Current[s].phase = "none" THEN f.phase ELSE Current[s].phase
    BY <1>5, <1>10, ToldIs
  <2> HIDE DEF d
  <2>3. d[s].phase = phase'[s]  BY <1>5, <1>13, <2>2
  <2>4. ~d[s].opened  BY <1>5, <1>10, <2>2
  <2>5. ~d[s].closed  BY <1>5, <1>10, <2>2
  <2>6. /\ Reportable(o, d, KeyOf') /\ Reportable(r, Told(d, o), KeyOf')
        /\ Told(Told(d, o), r) = Current'
    BY <1>12, <2>2, <2>3, <2>4, <2>5
  <2>7. Reportable(f, Current, KeyOf')  BY <1>5, <1>10 DEF Reportable
  <2>. QED  BY <1>5, <1>6, <1>7, <1>11, <2>1, <2>6, <2>7, ThreeEvents DEF d
<1>14. CASE phase'[s] # "error"
  <2>1. Emit(<<o, r>>)
    <3>1. <<o>> \in Seq(Events)  BY <1>6
    <3>2. <<>> \o <<o>> = <<o>>  BY <3>1, JoinNothing
    <3>3. <<>> \o <<o>> \o <<r>> = <<o, r>>  BY <1>6, <1>7, <3>2, JoinTwo
    <3>. QED  BY <1>8, <1>14, <3>3
  <2>2. /\ Reportable(o, Current, KeyOf') /\ Reportable(r, Told(Current, o), KeyOf')
        /\ Told(Told(Current, o), r) = Current'
    BY <1>10, <1>12
  <2>. QED  BY <1>6, <1>7, <1>11, <2>1, <2>2, TwoEvents
<1>. QED  BY <1>13, <1>14

\* release() of a handle.
LEMMA ReleaseAdds ==
    ASSUME CurrentOK, CurrentOK', Subscribed, registryPhase # "closed",
           Heading(Current, KeyOf), RegistryConsistent,
           SessionTypeOK, NEW h \in Handles, ReleaseReports(h)
    PROVE  Heading(Current, KeyOf)'
<1> DEFINE s == handle[h]
           e == Report(s, "released", phase[s], references'[s])
<1>1. s \in Sessions /\ phase[s] # "none"
  BY KnownIsConstructed DEF ReleaseReports, Release
<1>2. Release(h) /\ Emit(<<e>>)  BY DEF ReleaseReports
<1>3. /\ references' = [references EXCEPT ![s] = @ - 1] /\ UNCHANGED <<identity, phase>>
      /\ \A t \in Sessions : closing'[t] = "done" <=> closing[t] = "done"
  BY <1>2 DEF Release, ReleaseIdle, CloseAll, sessionVars
<1>4. phase[s] \in Phases /\ references'[s] \in Nat
  BY <1>1 DEF CurrentOK
<1>5. /\ e \in Events /\ e.session = s /\ e.type = "released" /\ e.phase = phase[s]
      /\ e.references = references'[s] /\ e.key = KeyOf'[s]
  BY <1>1, <1>4, ReportIs DEF Kinds
<1> HIDE DEF s, e
<1>6. KeyOf' = KeyOf  BY <1>3 DEF KeyOf
<1>7. \A t \in Sessions : t # s => Current'[t] = Current[t]
  BY <1>3 DEF Current, Inspected, RegistryConsistent, RegistryTypeOK
<1>8. Told(Current, e) = Current'
  <2>1. Current \in Pictures /\ Current' \in Pictures  BY DEF CurrentOK
  <2>2. Current'[s].opened <=> Current[s].opened \/ e.type = "opened"
    BY <1>1, <1>3, <1>5 DEF CurrentOK
  <2>3. Current'[s].closed <=> Current[s].closed \/ e.type = "closed"
    BY <1>1, <1>3, <1>5 DEF CurrentOK
  <2>4. Current'[s].references = e.references  BY <1>1, <1>5 DEF CurrentOK
  <2>5. Current'[s].phase = IF e.type = "updated" \/ Current[s].phase = "none" THEN e.phase ELSE Current[s].phase
    BY <1>1, <1>3, <1>5 DEF CurrentOK
  <2>. QED  BY <1>5, <1>7, <2>1, <2>2, <2>3, <2>4, <2>5, ToldMakes
<1>9. Reportable(e, Current, KeyOf')  BY <1>5 DEF Reportable
<1>. QED  BY <1>2, <1>5, <1>6, <1>8, <1>9, OneEvent

\* An update of a session that was told of, when only its phase has changed.
LEMMA UpdateMakes ==
    ASSUME CurrentOK', NEW cur \in Pictures, NEW s \in Sessions, cur[s].opened,
           cur[s].closed <=> closing'[s] = "done",
           cur[s].references = references'[s], phase'[s] # "none",
           \A t \in Sessions : t # s => Current'[t] = cur[t],
           NEW e \in Events, e.session = s, e.type = "updated", e.phase = phase'[s],
           e.references = references'[s]
    PROVE  Told(cur, e) = Current'
<1>1. Current' \in Pictures  BY DEF CurrentOK
<1>2. Current'[s].opened /\ (Current'[s].closed <=> cur[s].closed) /\ Current'[s].references = e.references
      /\ Current'[s].phase = e.phase
  BY DEF CurrentOK
<1>3. Current'[s].opened <=> cur[s].opened \/ e.type = "opened"  BY <1>2
<1>4. Current'[s].closed <=> cur[s].closed \/ e.type = "closed"  BY <1>2
<1>. QED  BY <1>1, <1>2, <1>3, <1>4, ToldMakes

\* restart() of a session.
LEMMA RestartAdds ==
    ASSUME CurrentOK, CurrentOK', Subscribed, registryPhase # "closed",
           Heading(Current, KeyOf), SessionIInv,
           NEW s \in Sessions, Restart(s), UNCHANGED registryVars, Emit(Restarted(s))
    PROVE  Heading(Current, KeyOf)'
<1>1. /\ phase[s] # "none" /\ ~closeRequested[s] /\ closing' = closing
      /\ phase' \in {[phase EXCEPT ![s] = "connecting"], [phase EXCEPT ![s] = "error"]}
      /\ references' = references /\ identity' = identity
  BY DEF Restart, registryVars
<1>2. closing[s] # "done"  BY <1>1 DEF SessionIInv, Consistent, CloseFlags
<1>3. /\ phase'[s] \in {"connecting", "error"}
      /\ \A t \in Sessions : t # s => phase'[t] = phase[t]
  BY <1>1 DEF SessionIInv, SessionTypeOK
<1>4. KeyOf' = KeyOf  BY <1>1 DEF KeyOf
<1>5. \A t \in Sessions : t # s => Current'[t] = Current[t]
  BY <1>1, <1>3 DEF Current, Inspected
<1> DEFINE a == Report(s, "restarting", phase[s], references[s])
           b == Report(s, "updated", "connecting", references[s])
           e == Report(s, "updated", "error", references[s])
<1>6. /\ phase[s] \in Phases /\ references[s] \in Nat /\ "connecting" \in Phases /\ "error" \in Phases
      /\ "restarting" \in Kinds /\ "updated" \in Kinds
  BY DEF CurrentOK, Phases, Kinds
<1>7. /\ a \in Events /\ a.session = s /\ a.type = "restarting" /\ a.phase = phase[s]
      /\ a.references = references[s] /\ a.key = KeyOf'[s]
  BY <1>1, <1>6, ReportIs
<1>8. /\ b \in Events /\ b.session = s /\ b.type = "updated" /\ b.phase = "connecting"
      /\ b.references = references[s] /\ b.key = KeyOf'[s]
  BY <1>1, <1>6, ReportIs
<1>9. /\ e \in Events /\ e.session = s /\ e.type = "updated" /\ e.phase = "error"
      /\ e.references = references[s] /\ e.key = KeyOf'[s]
  BY <1>1, <1>6, ReportIs
<1>10. Restarted(s) = IF phase'[s] = "error" THEN Append(<<a, b>>, e) ELSE <<a, b>>
  BY DEF Restarted
<1> HIDE DEF a, b, e
<1>11. /\ Current \in Pictures /\ Current[s].opened /\ ~Current[s].closed
       /\ Current[s].references = references[s] /\ Current[s].phase = phase[s]
  BY <1>1, <1>2 DEF CurrentOK
<1>12. Told(Current, a) = Current
  <2>1. Current[s].opened <=> Current[s].opened \/ a.type = "opened"  BY <1>7
  <2>2. Current[s].closed <=> Current[s].closed \/ a.type = "closed"  BY <1>7
  <2>3. Current[s].references = a.references  BY <1>7, <1>11
  <2>4. Current[s].phase = IF a.type = "updated" \/ Current[s].phase = "none" THEN a.phase ELSE Current[s].phase
    BY <1>1, <1>7, <1>11
  <2>. QED  BY <1>7, <1>11, <2>1, <2>2, <2>3, <2>4, ToldMakes
<1>13. Reportable(a, Current, KeyOf') /\ Reportable(b, Current, KeyOf')
  BY <1>7, <1>8, <1>11 DEF Reportable
<1>14. Heading(Current, KeyOf')  BY <1>4
<1>15. CASE phase'[s] # "error"
  <2>1. Emit(<<a, b>>)  BY <1>10, <1>15
  <2>2. Told(Current, b) = Current'
    BY <1>1, <1>2, <1>3, <1>5, <1>8, <1>11, <1>15, UpdateMakes
  <2>. QED  BY <1>7, <1>8, <1>12, <1>13, <1>14, <2>1, <2>2, TwoEvents
<1>16. CASE phase'[s] = "error"
  <2>1. Emit(<<a, b, e>>)
    <3>1. Append(<<a, b>>, e) = <<a, b, e>>  BY <1>7, <1>8, <1>9, JoinThree
    <3>. QED  BY <1>10, <1>16, <3>1
  <2> DEFINE d == Told(Current, b)
  <2>2. /\ d \in Pictures /\ \A t \in Sessions : t # s => d[t] = Current[t]
        /\ d[s].opened = (Current[s].opened \/ b.type = "opened")
        /\ d[s].closed = (Current[s].closed \/ b.type = "closed")
        /\ d[s].references = references[s]
    BY <1>8, <1>11, ToldIs
  <2> HIDE DEF d
  <2>3. d[s].opened  BY <1>11, <2>2
  <2>4. ~d[s].closed  BY <1>8, <1>11, <2>2
  <2>5. Told(d, e) = Current'
    BY <1>1, <1>2, <1>3, <1>5, <1>9, <1>16, <2>2, <2>3, <2>4, UpdateMakes
  <2>6. Reportable(e, d, KeyOf')  BY <1>9, <2>2 DEF Reportable
  <2>. QED  BY <1>7, <1>8, <1>9, <1>12, <1>13, <1>14, <2>1, <2>5, <2>6, ThreeEvents DEF d
<1>. QED  BY <1>15, <1>16

\* What a session does on its own.
ProgressMeans(s) ==
    /\ \A t \in Sessions : t # s => phase'[t] = phase[t] /\ closing'[t] = closing[t]
    /\ phase[s] = "none" => phase'[s] = "none"
    /\ phase[s] # "none" => phase'[s] # "none"
    /\ \/ closing' = closing
       \/ /\ closing[s] = "draining" /\ closing'[s] = "done" /\ phase'[s] = "closed"
    /\ phase[s] = "none" => value'[s] = value[s]

\* Every continuation of a session is one of these.
LEMMA ProgressIs ==
    ASSUME SessionIInv, NEW s \in Sessions, Progress(s)
    PROVE  ProgressMeans(s)
<1>1. /\ SessionTypeOK /\ Consistent(s)  BY DEF SessionIInv
<1>2. SameStatus  BY SessionStepKeepsStatus
<1>3. /\ phase[s] = "none" => phase'[s] = "none"
      /\ phase[s] # "none" => phase'[s] # "none"
  BY <1>2 DEF SameStatus
<1>5. CASE closing' = closing /\ phase' = phase /\ value' = value
  BY <1>3, <1>5 DEF ProgressMeans
<1>6. ASSUME NEW g, NEW outcome, Finish(s, g, outcome), closing' = closing, value' = value
      PROVE  ProgressMeans(s)
  <2>1. \A t \in Sessions : t # s => phase'[t] = phase[t]
    BY <1>1, <1>6 DEF Finish, SessionTypeOK
  <2>. QED  BY <1>3, <1>6, <2>1 DEF ProgressMeans
<1>7. CASE RestartDrained(s)
  <2>1. closing' = closing /\ value' = value /\ \A t \in Sessions : t # s => phase'[t] = phase[t]
    BY <1>1, <1>7 DEF RestartDrained, SourceThrows, SessionTypeOK
  <2>. QED  BY <1>3, <2>1 DEF ProgressMeans
<1>8. CASE CloseDrained(s)
  <2>1. phase[s] # "none"  BY <1>8, OnlyConstructedRun DEF CloseDrained
  <2>. QED  BY <1>1, <1>3, <1>8, <2>1 DEF CloseDrained, SessionTypeOK, ProgressMeans
<1>9. CASE RestartSettled(s)  BY <1>5, <1>9 DEF RestartSettled
<1>10. ASSUME NEW g \in Generations, ReadySettled(s, g) PROVE ProgressMeans(s)
  BY <1>6, <1>10 DEF ReadySettled
<1>11. ASSUME NEW g \in Generations, LeaseSettled(s, g) PROVE ProgressMeans(s)
  BY <1>6, <1>11 DEF LeaseSettled
<1>12. ASSUME NEW g \in Generations, LeaseReady(s, g) \/ LeaseEnds(s, g) PROVE ProgressMeans(s)
  BY <1>5, <1>12 DEF LeaseReady, LeaseEnds, MoveLease
<1>13. ASSUME NEW g \in Generations, Deliver(s, g) PROVE ProgressMeans(s)
  <2>1. phase' = phase /\ closing' = closing  BY <1>13 DEF Deliver
  <2>2. lease[s][g] # "none"  BY <1>13 DEF Deliver, LeaseOpen
  <2>3. g <= current[s] /\ current[s] <= generation[s] /\ g >= 1 /\ g \in Int
        /\ current[s] \in Int /\ generation[s] \in Int
    BY <1>1, <2>2 DEF Consistent, Numbered, SessionTypeOK, Generations
  <2>4. phase[s] # "none"  BY <1>1, <2>3 DEF Consistent, Unopened
  <2>. QED  BY <1>3, <2>1, <2>4 DEF ProgressMeans
<1>. QED  BY <1>7, <1>8, <1>9, <1>10, <1>11, <1>12, <1>13 DEF Progress

\* What a session does on its own, reported.
LEMMA ProgressAdds ==
    ASSUME CurrentOK, CurrentOK', Subscribed, registryPhase # "closed",
           Heading(Current, KeyOf), SessionIInv,
           NEW s \in Sessions, ProgressReports(s)
    PROVE  Heading(Current, KeyOf)'
<1> DEFINE moved == phase'[s] # phase[s] \/ value'[s] # value[s]
           done  == closing'[s] = "done" /\ closing[s] # "done"
           u == Report(s, "updated", phase'[s], references[s])
           l == Report(s, "closed", "closed", references[s])
<1>1. Progress(s) /\ UNCHANGED registryVars
  BY DEF ProgressReports, SessionProgress
<1>2. ProgressMeans(s) /\ references' = references /\ identity' = identity
  BY <1>1, ProgressIs DEF registryVars
<1>3. KeyOf' = KeyOf  BY <1>2 DEF KeyOf
<1>4. \A t \in Sessions : t # s => Current'[t] = Current[t]
  BY <1>2 DEF Current, Inspected, ProgressMeans
<1>5. Emit((IF moved THEN <<u>> ELSE <<>>) \o (IF done THEN <<l>> ELSE <<>>))
  BY DEF ProgressReports
<1>6. moved \/ done => phase[s] # "none" /\ phase'[s] # "none"
  <2>1. CASE phase[s] = "none"
    <3>1. closing[s] = "no" /\ phase'[s] = "none" /\ value'[s] = value[s]
      BY <1>2, <2>1 DEF CurrentOK, ProgressMeans
    <3>2. ~done  BY <1>2, <3>1 DEF ProgressMeans
    <3>. QED  BY <2>1, <3>1, <3>2
  <2>. QED  BY <1>2, <2>1 DEF ProgressMeans
<1>7. /\ phase'[s] \in Phases /\ references[s] \in Nat /\ "closed" \in Phases /\ "closed" # "none"
      /\ "closed" \in Kinds /\ "updated" \in Kinds
  BY DEF CurrentOK, Phases, Kinds
<1>8. ASSUME moved \/ done
      PROVE  /\ u \in Events /\ u.session = s /\ u.type = "updated" /\ u.phase = phase'[s]
             /\ u.references = references[s] /\ u.key = KeyOf'[s]
             /\ l \in Events /\ l.session = s /\ l.type = "closed" /\ l.phase = "closed"
             /\ l.references = references[s] /\ l.key = KeyOf'[s]
  BY <1>6, <1>7, <1>8, ReportIs
<1>9. /\ done => phase'[s] = "closed" /\ closing[s] = "draining"
      /\ ~done => closing'[s] = closing[s]
  BY <1>2 DEF ProgressMeans
<1>10. ~moved => phase'[s] = phase[s]  OBVIOUS
<1> HIDE DEF u, l, moved
<1>11. /\ Current \in Pictures /\ Current' \in Pictures
       /\ Current[s].references = references[s] /\ Current'[s].references = references[s]
       /\ Current[s].phase = phase[s] /\ Current'[s].phase = phase'[s]
       /\ Current[s].opened <=> phase[s] # "none"
       /\ Current'[s].opened <=> phase'[s] # "none"
       /\ Current[s].closed <=> closing[s] = "done"
       /\ Current'[s].closed <=> closing'[s] = "done"
  BY <1>2 DEF CurrentOK
<1>12. Heading(Current, KeyOf')  BY <1>3
<1>13. CASE ~moved /\ ~done
  <2>1. Emit(<<>>)
    <3>1. <<>> \in Seq(Events)  OBVIOUS
    <3>2. <<>> \o <<>> = <<>>  BY <3>1, JoinNothing
    <3>. QED  BY <1>5, <1>13, <3>2
  <2>2. Inspected(s)' = Inspected(s)  BY <1>2, <1>9, <1>10, <1>13 DEF Inspected
  <2>3. \A t \in Sessions : Inspected(t)' = Inspected(t)
    BY <1>2, <2>2 DEF Inspected, ProgressMeans
  <2>4. Current' = Current  BY <2>3 DEF Current
  <2>. QED  BY <1>3, <2>1, <2>4, NoEvent
<1>14. CASE moved /\ ~done
  <2>1. Emit(<<u>>)
    <3>1. <<u>> \in Seq(Events)  BY <1>8, <1>14
    <3>2. <<u>> \o <<>> = <<u>>  BY <3>1, JoinNothing
    <3>. QED  BY <1>5, <1>14, <3>2
  <2>2. Told(Current, u) = Current'
    BY <1>2, <1>4, <1>6, <1>8, <1>9, <1>11, <1>14, UpdateMakes
  <2>3. Reportable(u, Current, KeyOf')  BY <1>8, <1>11, <1>14 DEF Reportable
  <2>. QED  BY <1>8, <1>12, <1>14, <2>1, <2>2, <2>3, OneEvent
<1>15. ASSUME NEW cur \in Pictures, done, cur[s].opened, ~cur[s].closed,
              cur[s].references = references[s], cur[s].phase = "closed",
              \A t \in Sessions : t # s => Current'[t] = cur[t]
       PROVE  Told(cur, l) = Current' /\ Reportable(l, cur, KeyOf')
  <2>1. Current'[s].opened <=> cur[s].opened \/ l.type = "opened"  BY <1>6, <1>11, <1>15
  <2>2. Current'[s].closed <=> cur[s].closed \/ l.type = "closed"  BY <1>8, <1>11, <1>15
  <2>3. Current'[s].references = l.references  BY <1>8, <1>11, <1>15
  <2>4. Current'[s].phase = IF l.type = "updated" \/ cur[s].phase = "none" THEN l.phase ELSE cur[s].phase
    BY <1>8, <1>9, <1>11, <1>15
  <2>5. Told(cur, l) = Current'  BY <1>8, <1>11, <1>15, <2>1, <2>2, <2>3, <2>4, ToldMakes
  <2>. QED  BY <1>8, <1>15, <2>5 DEF Reportable
<1>16. CASE ~moved /\ done
  <2>1. Emit(<<l>>)
    <3>1. <<l>> \in Seq(Events)  BY <1>8, <1>16
    <3>2. <<>> \o <<l>> = <<l>>  BY <3>1, JoinNothing
    <3>. QED  BY <1>5, <1>16, <3>2
  <2>2. Current[s].opened /\ ~Current[s].closed /\ Current[s].phase = "closed"
    BY <1>6, <1>9, <1>10, <1>11, <1>16
  <2>3. Told(Current, l) = Current' /\ Reportable(l, Current, KeyOf')
    BY <1>4, <1>11, <1>15, <1>16, <2>2
  <2>. QED  BY <1>8, <1>12, <1>16, <2>1, <2>3, OneEvent
<1>17. CASE moved /\ done
  <2>1. Emit(<<u, l>>)
    <3>1. <<u>> \o <<l>> = <<u, l>>  BY <1>8, <1>17, JoinTwo
    <3>. QED  BY <1>5, <1>17, <3>1
  <2> DEFINE d == Told(Current, u)
  <2>2. /\ d \in Pictures /\ \A t \in Sessions : t # s => d[t] = Current[t]
        /\ d[s].opened = (Current[s].opened \/ u.type = "opened")
        /\ d[s].closed = (Current[s].closed \/ u.type = "closed")
        /\ d[s].references = u.references
        /\ d[s].phase = IF u.type = "updated" \/ Current[s].phase = "none" THEN u.phase ELSE Current[s].phase
    <3>1. u \in Events /\ u.session = s /\ Current \in Pictures  BY <1>8, <1>11, <1>17
    <3>. QED  BY <3>1, ToldIs
  <2> HIDE DEF d
  <2>3. d[s].opened  BY <1>6, <1>11, <1>17, <2>2
  <2>4. ~d[s].closed  BY <1>8, <1>9, <1>11, <1>17, <2>2
  <2>5. d[s].references = references[s] /\ d[s].phase = "closed"  BY <1>8, <1>9, <1>17, <2>2
  <2>6. Told(d, l) = Current' /\ Reportable(l, d, KeyOf')
    BY <1>4, <1>15, <1>17, <2>2, <2>3, <2>4, <2>5
  <2>7. Reportable(u, Current, KeyOf')  BY <1>8, <1>11, <1>17 DEF Reportable
  <2>. QED  BY <1>8, <1>12, <1>17, <2>1, <2>6, <2>7, TwoEvents DEF d
<1>. QED  BY <1>13, <1>14, <1>16, <1>17

-----------------------------------------------------------------------------
(***************************************************************************)
(* The invariant is preserved.                                             *)
(***************************************************************************)
\* With the events the registry takes the same steps.
LEMMA EventsStepsAre == EventsNext => [Next]_vars
BY DEF EventsNext, AcquireReports, ReleaseReports, RestartReports, ProgressReports, Silent,
       StreamCloses, Observe, Read, Leave, Next

\* Only the registry gives a session its key, when it constructs it.
LEMMA NamelessKept ==
    ASSUME RegistryIInv, Nameless, [Next]_vars PROVE Nameless'
<1>1. SessionIInv /\ SessionTypeOK /\ RegistryTypeOK /\ RegistryConsistent
  BY DEF RegistryIInv, SessionIInv, RegistryConsistent
<1>2. ASSUME identity' = identity, \A t \in Sessions : phase'[t] = "none" => phase[t] = "none"
      PROVE  Nameless'
  BY <1>2 DEF Nameless
<1>3. ASSUME SameStatus, UNCHANGED registryVars PROVE Nameless'
  BY <1>2, <1>3 DEF SameStatus, registryVars
<1>4. ASSUME NEW h \in Handles, NEW k \in Keys, NEW c \in Contracts, Acquire(h, k, c)
      PROVE  Nameless'
  <2>1. CASE AcquireShared(h, k, c)
    BY <1>2, <2>1 DEF AcquireShared, sessionVars
  <2>2. ASSUME NEW s \in Sessions, AcquireNew(h, k, c, s) PROVE Nameless'
    <3>1. /\ phase' \in {[phase EXCEPT ![s] = "connecting"], [phase EXCEPT ![s] = "error"]}
          /\ identity' = [identity EXCEPT ![s] = [key |-> k, contract |-> c]]
      BY <2>2 DEF AcquireNew, Open
    <3>2. phase'[s] # "none" /\ \A t \in Sessions : t # s =>
             phase'[t] = phase[t] /\ identity'[t] = identity[t]
      BY <1>1, <3>1 DEF SessionTypeOK, RegistryTypeOK
    <3>. QED  BY <3>2 DEF Nameless
  <2>. QED  BY <1>4, <2>1, <2>2 DEF Acquire
<1>5. ASSUME NEW h \in Handles, Release(h) PROVE Nameless'
  <2>1. phase' = phase /\ identity' = identity
    BY <1>5 DEF Release, ReleaseIdle, CloseAll, sessionVars
  <2>. QED  BY <1>2, <2>1
<1>6. ASSUME NEW h \in Handles, RestartHandle(h) PROVE Nameless'
  BY <1>1, <1>3, <1>6, KnownIsConstructed, SessionStepKeepsStatus DEF RestartHandle
<1>7. ASSUME NEW k \in Keys, RestartKey(k) PROVE Nameless'
  BY <1>1, <1>3, <1>7, KnownIsConstructed, SessionStepKeepsStatus DEF RestartKey
<1>8. ASSUME NEW s \in Sessions, SessionProgress(s) PROVE Nameless'
  BY <1>1, <1>3, <1>8, SessionStepKeepsStatus DEF SessionProgress
<1>9. ASSUME NEW s \in Sessions, IdleTimeout(s) PROVE Nameless'
  BY <1>2, <1>9 DEF IdleTimeout, CloseAll, sessionVars
<1>10. CASE CloseRegistry  BY <1>2, <1>10 DEF CloseRegistry, CloseAll
<1>11. CASE RegistryClosed  BY <1>2, <1>11 DEF RegistryClosed, sessionVars
<1>12. CASE UNCHANGED vars  BY <1>2, <1>12 DEF vars, sessionVars, registryVars
<1>. QED  BY <1>4, <1>5, <1>6, <1>7, <1>8, <1>9, <1>10, <1>11, <1>12 DEF Next

\* A session that the reader begins with is known as it is.
LEMMA ObserveAdds ==
    ASSUME CurrentOK, CurrentOK', Observe, NotYet PROVE Informed'
<1>1. /\ known' = Current /\ queue' = <<>> /\ Current' = Current /\ KeyOf' = KeyOf
      /\ reader' = "reading"
  BY DEF Observe, NotYet, Current, KeyOf, Inspected, vars, sessionVars, registryVars
<1> DEFINE e == <<>>
<1>2. e \in Seq(Events) /\ Len(e) = 0  OBVIOUS
<1> HIDE DEF e
<1>3. InOrder(e, Current, KeyOf)  BY <1>2 DEF InOrder
<1>4. ASSUME NEW s \in Sessions PROVE Adds(Current[s], e, s, Current[s], KeyOf)
  BY <1>2 DEF Adds, OpenedAdds, ClosedAdds, ReferencesAdd, PhaseAdds, NoneOf, CurrentOK
<1>5. Adding(Current, e, Current, KeyOf)  BY <1>2, <1>3, <1>4 DEF Adding, CurrentOK
<1>. QED  BY <1>1, <1>5 DEF Informed, Heading, e

\* The reader takes the oldest event, or waits.
LEMMA ReadInforms ==
    ASSUME Informed, Read PROVE Informed'
<1>1. Current' = Current /\ KeyOf' = KeyOf /\ registryPhase' = registryPhase
  BY DEF Read, Current, KeyOf, Inspected, vars, sessionVars, registryVars
<1>2. SUFFICES ASSUME registryPhase # "closed", Subscribed' PROVE Heading(Current, KeyOf)'
  BY <1>1 DEF Informed
<1>3. Heading(Current, KeyOf)  BY <1>2 DEF Informed, Read, Subscribed
<1>4. CASE queue # <<>>
  <2>1. known' = Told(known, Head(queue)) /\ queue' = Tail(queue) /\ reader' = "reading"
    BY <1>4 DEF Read, NextEvent
  <2>2. Adding(known', queue', Current, KeyOf)  BY <1>3, <1>4, <2>1, ReadAdds DEF Heading
  <2>. QED  BY <1>1, <2>1, <2>2 DEF Heading
<1>5. CASE queue = <<>>
  <2>1. known' = known /\ queue' = queue  BY <1>5 DEF Read, NextEvent
  <2>. QED  BY <1>1, <1>3, <1>5, <2>1 DEF Heading
<1>. QED  BY <1>4, <1>5

\* Without a reader nothing is told.
LEMMA UnheardUnread ==
    ASSUME NEW es, Emit(es), ~Subscribed PROVE ~Subscribed' /\ reader' = reader
BY DEF Emit, Subscribed

\* Every step of the registry with its stream preserves the invariant.
LEMMA EventsKept ==
    ASSUME EventsIInv, [EventsNext]_eventVars PROVE EventsIInv'
<1>1. [Next]_vars  BY EventsStepsAre DEF eventVars
<1>2. RegistryIInv /\ RegistryIInv'
  BY <1>1, NextTracked, NextRunsSessions, NextConsistent DEF EventsIInv, RegistryIInv
<1>3. CurrentOK /\ CurrentOK'  BY <1>2, CurrentIs, CurrentIsNext
<1>4. Nameless'  BY <1>1, <1>2, NamelessKept DEF EventsIInv
<1>5. /\ RegistryConsistent /\ RegistryConsistent' /\ SessionIInv /\ SessionTypeOK
      /\ Nameless /\ Informed /\ NotYet
  BY <1>2 DEF EventsIInv, RegistryIInv, SessionIInv
<1>. SUFFICES Informed' /\ NotYet'  BY <1>2, <1>4 DEF EventsIInv
<1>6. ASSUME NEW es, Emit(es), registryPhase' = registryPhase,
             Subscribed /\ registryPhase # "closed" /\ Heading(Current, KeyOf)
                => Heading(Current, KeyOf)'
      PROVE  Informed' /\ NotYet'
  <2>1. Informed'
    <3>1. CASE Subscribed  BY <1>5, <1>6, <3>1 DEF Informed
    <3>2. CASE ~Subscribed  BY <1>6, <3>2, UnheardUnread DEF Informed
    <3>. QED  BY <3>1, <3>2
  <2>2. NotYet'
    BY <1>5, <1>6 DEF NotYet, Emit, Subscribed
  <2>. QED  BY <2>1, <2>2
<1>7. ASSUME NEW h \in Handles, NEW k \in Keys, NEW c \in Contracts, AcquireReports(h, k, c)
      PROVE  Informed' /\ NotYet'
  <2>1. registryPhase' = registryPhase  BY <1>7 DEF AcquireReports, Acquire
  <2>2. PICK es : Emit(es)  BY <1>7 DEF AcquireReports
  <2>3. ASSUME Subscribed, registryPhase # "closed", Heading(Current, KeyOf)
        PROVE  Heading(Current, KeyOf)'
    <3>1. CASE sessions[k] # None  BY <1>3, <1>5, <1>7, <2>3, <3>1, SharedAdds
    <3>2. CASE sessions[k] = None  BY <1>3, <1>5, <1>7, <2>3, <3>2, NewAdds
    <3>. QED  BY <3>1, <3>2
  <2>. QED  BY <1>6, <2>1, <2>2, <2>3
<1>8. ASSUME NEW h \in Handles, ReleaseReports(h) PROVE Informed' /\ NotYet'
  <2>1. registryPhase' = registryPhase  BY <1>8 DEF ReleaseReports, Release
  <2>2. PICK es : Emit(es)  BY <1>8 DEF ReleaseReports
  <2>3. ASSUME Subscribed, registryPhase # "closed", Heading(Current, KeyOf)
        PROVE  Heading(Current, KeyOf)'
    BY <1>3, <1>5, <1>8, <2>3, ReleaseAdds
  <2>. QED  BY <1>6, <2>1, <2>2, <2>3
<1>9. ASSUME NEW s \in Sessions, Restart(s), UNCHANGED registryVars, Emit(Restarted(s))
      PROVE  Informed' /\ NotYet'
  <2>1. registryPhase' = registryPhase  BY <1>9 DEF registryVars
  <2>3. ASSUME Subscribed, registryPhase # "closed", Heading(Current, KeyOf)
        PROVE  Heading(Current, KeyOf)'
    BY <1>3, <1>5, <1>9, <2>3, RestartAdds
  <2>. QED  BY <1>6, <1>9, <2>1, <2>3
<1>10. CASE RestartReports
  <2>1. ASSUME NEW h \in Handles, RestartHandle(h), Emit(Restarted(handle[h]))
        PROVE  Informed' /\ NotYet'
    <3>1. handle[h] \in Sessions  BY <1>5, <2>1, KnownIsConstructed DEF RestartHandle
    <3>. QED  BY <1>9, <2>1, <3>1 DEF RestartHandle
  <2>2. ASSUME NEW k \in Keys, RestartKey(k), Emit(Restarted(sessions[k]))
        PROVE  Informed' /\ NotYet'
    <3>1. sessions[k] \in Sessions  BY <1>5, <2>2, KnownIsConstructed DEF RestartKey
    <3>. QED  BY <1>9, <2>2, <3>1 DEF RestartKey
  <2>. QED  BY <1>10, <2>1, <2>2 DEF RestartReports
<1>11. ASSUME NEW s \in Sessions, ProgressReports(s) PROVE Informed' /\ NotYet'
  <2>1. registryPhase' = registryPhase
    BY <1>11 DEF ProgressReports, SessionProgress, registryVars
  <2>2. PICK es : Emit(es)  BY <1>11 DEF ProgressReports
  <2>3. ASSUME Subscribed, registryPhase # "closed", Heading(Current, KeyOf)
        PROVE  Heading(Current, KeyOf)'
    BY <1>3, <1>5, <1>11, <2>3, ProgressAdds
  <2>. QED  BY <1>6, <2>1, <2>2, <2>3
<1>12. CASE Silent
  <2>1. /\ phase' = phase /\ references' = references /\ identity' = identity
        /\ \A s \in Sessions : closing'[s] = "done" <=> closing[s] = "done"
    BY <1>12 DEF Silent, IdleTimeout, CloseRegistry, CloseAll, sessionVars
  <2>2. \A s \in Sessions : Inspected(s)' = Inspected(s)  BY <2>1 DEF Inspected
  <2>3. Current' = Current /\ KeyOf' = KeyOf  BY <2>1, <2>2 DEF Current, KeyOf
  <2>4. reader' = reader /\ queue' = queue /\ known' = known
    BY <1>12 DEF Silent, readerVars
  <2>5. registryPhase = "closed" => registryPhase' = "closed"
    BY <1>12 DEF Silent, IdleTimeout, CloseRegistry
  <2>. QED  BY <1>5, <2>3, <2>4, <2>5 DEF Informed, NotYet, Heading, Subscribed
<1>13. CASE StreamCloses
  <2>1. registryPhase' = "closed" /\ queue' = queue /\ (reader' = "absent" => reader = "absent")
    BY <1>13 DEF StreamCloses, RegistryClosed
  <2>. QED  BY <1>5, <2>1 DEF Informed, NotYet
<1>14. CASE Observe
  <2>1. Informed'  BY <1>3, <1>5, <1>14, ObserveAdds
  <2>2. NotYet'  BY <1>14 DEF Observe, NotYet
  <2>. QED  BY <2>1, <2>2
<1>15. CASE Read
  <2>1. Informed'  BY <1>5, <1>15, ReadInforms
  <2>2. NotYet'  BY <1>15 DEF Read, NextEvent, NotYet
  <2>. QED  BY <2>1, <2>2
<1>16. CASE Leave
  BY <1>16 DEF Leave, Informed, NotYet, Subscribed
<1>17. CASE UNCHANGED eventVars
  <2>1. /\ reader' = reader /\ queue' = queue /\ known' = known /\ Current' = Current /\ KeyOf' = KeyOf
        /\ registryPhase' = registryPhase
    BY <1>17 DEF eventVars, readerVars, vars, sessionVars, registryVars, Current, KeyOf, Inspected
  <2>. QED  BY <1>5, <2>1 DEF Informed, NotYet, Heading, Subscribed
<1>. QED
  BY <1>7, <1>8, <1>10, <1>11, <1>12, <1>13, <1>14, <1>15, <1>16, <1>17 DEF EventsNext

\* In every state what the reader knows, taken with what is queued, adds up to
\* the sessions there are.
THEOREM EventsInvariant == EventsSpec => []EventsIInv
<1>1. EventsInit => EventsIInv
  <2> SUFFICES ASSUME EventsInit PROVE EventsIInv  OBVIOUS
  <2>1. RegistryIInv
    BY InitTracked, InitConsistent DEF EventsInit, Init, RegistryIInv
  <2>2. Nameless  BY DEF EventsInit, Init, Nameless, NoIdentity
  <2>3. Informed /\ NotYet  BY DEF EventsInit, Informed, NotYet, Subscribed
  <2>. QED  BY <2>1, <2>2, <2>3 DEF EventsIInv
<1>2. EventsIInv /\ [EventsNext]_eventVars => EventsIInv'  BY EventsKept
<1>. QED  BY <1>1, <1>2, PTL DEF EventsSpec

\* A reader of registry.events who knew the sessions when it began, and who reads
\* what is queued, knows which sessions were opened, who is held how often and which
\* are closed, and the phase of each session that is alone under its key.
THEOREM ReadersKnow == EventsSpec => []EventsAddUp
<1>1. EventsIInv => EventsAddUp
  <2> SUFFICES ASSUME EventsIInv, Subscribed, registryPhase # "closed", NEW s \in Sessions
               PROVE  FoldLeft(Told, known, queue)[s] =
                         IF Alone(s) THEN Inspected(s)
                         ELSE [Inspected(s) EXCEPT !.phase = FoldLeft(Told, known, queue)[s].phase]
    BY DEF EventsAddUp
  <2>1. Adding(known, queue, Current, KeyOf)  BY DEF EventsIInv, Informed, Heading
  <2>2. Adding(FoldLeft(Told, known, queue), <<>>, Current, KeyOf)  BY <2>1, FoldAdds
  <2>3. FoldLeft(Told, known, queue)[s] =
           IF Named(KeyOf, s) THEN Current[s]
           ELSE [Current[s] EXCEPT !.phase = FoldLeft(Told, known, queue)[s].phase]
    BY <2>2, AllRead
  <2>4. Current[s] = Inspected(s)  BY DEF Current
  <2>5. Named(KeyOf, s) <=> Alone(s)  BY DEF Named, Alone, KeyOf
  <2>. QED  BY <2>3, <2>4, <2>5
<1>. QED  BY <1>1, EventsInvariant, PTL
=============================================================================
