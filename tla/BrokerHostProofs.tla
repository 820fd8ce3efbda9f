--------------------------- MODULE BrokerHostProofs ---------------------------
(***************************************************************************)
(* What clients share in the worker host is there while one of them uses   *)
(* it, for any clients, sources and bounds, however their command chains   *)
(* interleave with each other, with the hook and with close().             *)
(***************************************************************************)
EXTENDS BrokerHost, SequenceTheorems, TLAPS

Jobs   == Commands \cup [type : {"invalidate"}, by : Clients]
Stages == {"ready", "hook", "opening", "detaching", "releasing", "closing", "waiting"}

HostTypeOK ==
    /\ status \in [Clients -> {"open", "closing", "closed"}]
    /\ identity \in [Clients -> BOOLEAN]
    /\ jobs \in [Clients -> Seq(Jobs)]
    /\ stage \in [Clients -> Stages]
    /\ held \in [Clients -> SUBSET Sources]
    /\ store \in 0 .. MaxRevision
    /\ sources \subseteq Sources
    /\ active \in BOOLEAN /\ hook \in BOOLEAN
    /\ operation \in [Clients -> {"none", "waiting", "running"}]
    /\ hostClosed \in BOOLEAN
    /\ sent \in Nat /\ rejections \in Nat

\* A chain at work has a command to work on.  A client that waits for the hook
\* is one with an identity at an attach: the source it opens when the hook ends
\* has a credential store.
AtWork(c) == /\ stage[c] # "ready" => jobs[c] # <<>>
             /\ stage[c] = "hook" => Running(c, "attach") /\ identity[c]

HostIInv == HostTypeOK /\ (\A c \in Clients : AtWork(c)) /\ ResourcesKept

-----------------------------------------------------------------------------
\* The queue of a chain: what Head, Tail and Append give (jobs of the worker).
LEMMA JobsAppend == ASSUME NEW q \in Seq(Jobs), NEW j \in Jobs
                    PROVE  /\ Append(q, j) \in Seq(Jobs)
                           /\ Append(q, j) # <<>>
                           /\ q # <<>> => Head(Append(q, j)) = Head(q)
<1> HIDE DEF Jobs
<1>1. Append(q, j) \in Seq(Jobs) /\ Append(q, j) # <<>>
      BY AppendProperties
<1>2. ASSUME q # <<>> PROVE Head(Append(q, j)) = Head(q)
      BY <1>2, AppendProperties, EmptySeq
<1> QED  BY <1>1, <1>2

LEMMA JobsHead == ASSUME NEW q \in Seq(Jobs), q # <<>>
                  PROVE  Head(q) \in Jobs /\ Tail(q) \in Seq(Jobs)
<1> HIDE DEF Jobs
<1> QED  BY HeadTailProperties

\* What the running command carries: a revision of the credentials of a tab, or
\* a source.
LEMMA RunningJob ==
    ASSUME HostTypeOK, NEW c \in Clients
    PROVE  /\ Running(c, "hello") \/ Running(c, "refresh") => Head(jobs[c]).revision \in 1 .. MaxRevision
           /\ Running(c, "attach") \/ Running(c, "detach") => Head(jobs[c]).source \in Sources
<1>1. ASSUME jobs[c] # <<>> PROVE Head(jobs[c]) \in Jobs
  <2>1. jobs[c] \in Seq(Jobs)  BY DEF HostTypeOK
  <2> QED  BY ONLY <2>1, <1>1, JobsHead
<1> QED  BY <1>1 DEF Running, Jobs, Commands, Credentials

-----------------------------------------------------------------------------
\* The constructor establishes the invariant.
LEMMA HostStarts == HostInit => HostIInv
<1> SUFFICES ASSUME HostInit PROVE HostIInv  OBVIOUS
<1>1. <<>> \in Seq(Jobs)  OBVIOUS
<1>2. HostTypeOK
  <2>1. 0 \in 0 .. MaxRevision  BY HostAssumption DEF HostAssumption
  <2> HIDE DEF Jobs
  <2> QED  BY <1>1, <2>1 DEF HostInit, HostTypeOK, Stages
<1>3. \A c \in Clients : AtWork(c)  BY DEF HostInit, AtWork
<1>4. ResourcesKept  BY DEF HostInit, ResourcesKept, CredentialsKept, HookRunsAlone
<1> QED  BY <1>2, <1>3, <1>4 DEF HostIInv

\* A step that touches no variable of the host keeps the invariant.
LEMMA HostStutters == HostIInv /\ UNCHANGED hostVars => HostIInv'
BY DEF HostIInv, HostTypeOK, AtWork, Running, ResourcesKept, CredentialsKept,
       HookRunsAlone, hostVars, clientVars, resourceVars, boundVars

\* A command that ends, or goes to another stage of its own.
LEMMA FinishedTyped ==
    ASSUME HostTypeOK, NEW c \in Clients, jobs[c] # <<>>, Finished(c)
    PROVE  jobs' \in [Clients -> Seq(Jobs)] /\ stage' \in [Clients -> Stages]
<1>1. jobs[c] \in Seq(Jobs)  BY DEF HostTypeOK
<1>2. Tail(jobs[c]) \in Seq(Jobs)  BY ONLY <1>1, jobs[c] # <<>>, JobsHead
<1> HIDE DEF Jobs
<1> QED  BY <1>2 DEF HostTypeOK, Finished, Stages

\* The chains of other clients stay where they are, and one that has come to
\* its end waits for no hook.
LEMMA FinishedAtWork ==
    ASSUME HostTypeOK, NEW c \in Clients, Finished(c), UNCHANGED identity,
           \A d \in Clients : AtWork(d)
    PROVE  \A d \in Clients : AtWork(d)'
BY DEF HostTypeOK, AtWork, Finished, Running

LEMMA GotoAtWork ==
    ASSUME HostTypeOK, NEW c \in Clients, jobs[c] # <<>>, NEW to \in Stages \ {"hook"}, Goto(c, to),
           UNCHANGED identity, \A d \in Clients : AtWork(d)
    PROVE  /\ \A d \in Clients : AtWork(d)'
           /\ jobs' \in [Clients -> Seq(Jobs)] /\ stage' \in [Clients -> Stages]
BY DEF HostTypeOK, AtWork, Goto, Running, Stages

-----------------------------------------------------------------------------
\* onmessage: a command joins the end of a chain.
LEMMA CommandKeeps ==
    ASSUME HostIInv, NEW c \in Clients, NEW job \in Commands, Command(c, job)
    PROVE  HostIInv'
<1> DEFINE longer == Append(jobs[c], job)
<1>1. jobs[c] \in Seq(Jobs) /\ job \in Jobs  BY DEF HostIInv, HostTypeOK, Jobs
<1>2. /\ longer \in Seq(Jobs) /\ longer # <<>>
      /\ jobs[c] # <<>> => Head(longer) = Head(jobs[c])
      BY ONLY <1>1, JobsAppend
<1>3. jobs' = [jobs EXCEPT ![c] = longer]  BY DEF Command
<1> HIDE DEF longer, Jobs
<1>4. HostTypeOK'  BY <1>2, <1>3 DEF HostIInv, HostTypeOK, Command, resourceVars
<1>5. ASSUME NEW d \in Clients PROVE AtWork(d)'
      BY <1>2, <1>3 DEF HostIInv, HostTypeOK, AtWork, Running, Command
<1>6. ResourcesKept'
      BY DEF HostIInv, ResourcesKept, CredentialsKept, HookRunsAlone, Command, resourceVars
<1> QED  BY <1>4, <1>5, <1>6 DEF HostIInv

\* enqueueClientClose() of a tab that has gone.
LEMMA SweepKeeps ==
    ASSUME HostIInv, NEW c \in Clients, Sweep(c)
    PROVE  HostIInv'
<1>1. <<[type |-> "close"]>> \in Seq(Jobs)  BY DEF Jobs, Commands
<1> HIDE DEF Jobs
<1>2. HostTypeOK'  BY <1>1 DEF HostIInv, HostTypeOK, Sweep, resourceVars, boundVars
<1>3. ASSUME NEW d \in Clients PROVE AtWork(d)'
      BY DEF HostIInv, HostTypeOK, AtWork, Running, Sweep
<1>4. ResourcesKept'
      BY DEF HostIInv, ResourcesKept, CredentialsKept, HookRunsAlone, Sweep, resourceVars
<1> QED  BY <1>2, <1>3, <1>4 DEF HostIInv

\* close() of the host.
LEMMA CloseHostKeeps ==
    ASSUME HostIInv, CloseHost
    PROVE  HostIInv'
<1> DEFINE close == [type |-> "close"]
           longer(c) == Append(jobs[c], close)
<1>1. close \in Jobs  BY DEF Jobs, Commands
<1> HIDE DEF close
<1>2. ASSUME NEW c \in Clients
      PROVE  /\ longer(c) \in Seq(Jobs) /\ longer(c) # <<>>
             /\ jobs[c] # <<>> => Head(longer(c)) = Head(jobs[c])
  <2>1. jobs[c] \in Seq(Jobs)  BY DEF HostIInv, HostTypeOK
  <2> QED  BY ONLY <1>1, <2>1, JobsAppend
<1>3. jobs' = [c \in Clients |-> IF status[c] = "closed" THEN jobs[c] ELSE longer(c)]
      BY DEF CloseHost, close
<1> HIDE DEF longer, Jobs
<1>4. HostTypeOK'  BY <1>2, <1>3 DEF HostIInv, HostTypeOK, CloseHost, resourceVars, boundVars
<1>5. ASSUME NEW d \in Clients PROVE AtWork(d)'
      BY <1>2, <1>3 DEF HostIInv, HostTypeOK, AtWork, Running, CloseHost
<1>6. ResourcesKept'
      BY DEF HostIInv, ResourcesKept, CredentialsKept, HookRunsAlone, CloseHost, resourceVars
<1> QED  BY <1>4, <1>5, <1>6 DEF HostIInv

-----------------------------------------------------------------------------
\* A command that only ends, or moves on to a stage that waits for no hook.
LEMMA EndsKeeps ==
    ASSUME HostIInv, NEW c \in Clients, jobs[c] # <<>>, Finished(c),
           UNCHANGED <<identity, held, resourceVars, hostClosed, sent>>,
           status' \in [Clients -> {"open", "closing", "closed"}],
           store' \in 0 .. MaxRevision, rejections' \in Nat, CredentialsKept'
    PROVE  HostIInv'
<1>1. jobs' \in [Clients -> Seq(Jobs)] /\ stage' \in [Clients -> Stages]
      BY FinishedTyped DEF HostIInv
<1>2. \A d \in Clients : AtWork(d)'  BY FinishedAtWork DEF HostIInv
<1> HIDE DEF Jobs
<1>3. HostTypeOK'  BY <1>1 DEF HostIInv, HostTypeOK, resourceVars
<1>4. HookRunsAlone'  BY DEF HostIInv, ResourcesKept, HookRunsAlone, resourceVars
<1> QED  BY <1>2, <1>3, <1>4 DEF HostIInv, ResourcesKept

LEMMA GoesKeeps ==
    ASSUME HostIInv, NEW c \in Clients, jobs[c] # <<>>, NEW to \in Stages \ {"hook"}, Goto(c, to),
           UNCHANGED <<identity, hostClosed, sent, rejections, store, active, operation>>,
           status' \in [Clients -> {"open", "closing", "closed"}],
           held' \in [Clients -> SUBSET Sources],
           sources' \subseteq sources, hook' = hook
    PROVE  HostIInv'
<1>1. jobs' \in [Clients -> Seq(Jobs)] /\ stage' \in [Clients -> Stages]
      BY GotoAtWork DEF HostIInv
<1>2. \A d \in Clients : AtWork(d)'  BY GotoAtWork DEF HostIInv
<1> HIDE DEF Jobs
<1>3. HostTypeOK'  BY <1>1 DEF HostIInv, HostTypeOK
<1>4. ResourcesKept'  BY DEF HostIInv, ResourcesKept, CredentialsKept, HookRunsAlone
<1> QED  BY <1>2, <1>3, <1>4 DEF HostIInv

\* The store that is left when something lets go of credentials is enough for
\* whoever still has an identity or a source.
LEMMA CleanedKeeps ==
    ASSUME HostTypeOK, CredentialsKept,
           NEW identities \in [Clients -> BOOLEAN], NEW remaining,
           (remaining # {} \/ \E c \in Clients : identities[c]) => store > 0
    PROVE  /\ Cleaned(identities, remaining) \in 0 .. MaxRevision
           /\ (remaining # {} \/ \E c \in Clients : identities[c])
                 => Cleaned(identities, remaining) > 0
<1>1. MaxRevision \in Nat  BY HostAssumption DEF HostAssumption
<1> QED  BY <1>1 DEF HostTypeOK, Cleaned, Unneeded

-----------------------------------------------------------------------------
\* invalidateIdentity(): the job that every other client of the identity gets.
LEMMA InvalidateKeeps ==
    ASSUME HostIInv, NEW c \in Clients, Invalidate(c), stage[c] = "ready", jobs[c] # <<>>
    PROVE  /\ jobs' \in [Clients -> Seq(Jobs)] /\ stage' \in [Clients -> Stages]
           /\ \A d \in Clients : AtWork(d)'
<1> DEFINE job == [type |-> "invalidate", by |-> c]
           longer(d) == Append(jobs[d], job)
<1>1. job \in Jobs  BY DEF Jobs
<1> HIDE DEF job
<1>2. ASSUME NEW d \in Clients
      PROVE  /\ longer(d) \in Seq(Jobs) /\ longer(d) # <<>>
             /\ jobs[d] # <<>> => Head(longer(d)) = Head(jobs[d])
  <2>1. jobs[d] \in Seq(Jobs)  BY DEF HostIInv, HostTypeOK
  <2> QED  BY ONLY <1>1, <2>1, JobsAppend
<1>3. jobs' = [d \in Clients |-> IF d \in Others(c) THEN longer(d) ELSE jobs[d]]
      BY DEF Invalidate, job
<1> HIDE DEF longer, Jobs
<1>4. jobs' \in [Clients -> Seq(Jobs)]  BY <1>2, <1>3 DEF HostIInv, HostTypeOK
<1>5. stage' \in [Clients -> Stages]  BY DEF HostIInv, HostTypeOK, Invalidate, Stages
<1>6. ASSUME NEW d \in Clients PROVE AtWork(d)'
  <2>1. jobs'[d] \in {jobs[d], longer(d)}  BY <1>3
  <2>2. jobs[d] # <<>> => jobs'[d] # <<>> /\ Head(jobs'[d]) = Head(jobs[d])
        BY <1>2, <2>1
  <2>3. stage'[d] = (IF d = c THEN "detaching" ELSE stage[d]) /\ identity' = identity
        BY DEF HostIInv, HostTypeOK, Invalidate
  <2> QED  BY <2>2, <2>3 DEF HostIInv, AtWork, Running
<1> QED  BY <1>4, <1>5, <1>6

\* refresh: a newer revision takes the place of an older one.
LEMMA RefreshKeeps ==
    ASSUME HostIInv, NEW c \in Clients, Refresh(c)
    PROVE  HostIInv'
<1> DEFINE revision == Head(jobs[c]).revision
<1>1. jobs[c] # <<>> /\ stage[c] = "ready"  BY DEF Refresh, Starts, Turn, Running
<1>2. revision \in 1 .. MaxRevision
      BY RunningJob DEF HostIInv, Refresh, Starts, Turn
<1>3. MaxRevision \in Nat  BY HostAssumption DEF HostAssumption
<1> HIDE DEF revision
<1>4. CASE /\ store' \in {store, revision} /\ Finished(c)
           /\ UNCHANGED <<rejections, identity>>
  <2>2. store' \in 0 .. MaxRevision /\ CredentialsKept'
        BY <1>2, <1>3, <1>4
        DEF Refresh, HostIInv, HostTypeOK, ResourcesKept, CredentialsKept, resourceVars
  <2> QED  BY <1>1, <1>4, <2>2, EndsKeeps DEF Refresh, HostIInv, HostTypeOK
<1>5. CASE store' = revision /\ rejections' = rejections + 1 /\ Invalidate(c)
  <2>1. store' = revision /\ rejections' = rejections + 1 /\ Invalidate(c) /\ identity' = identity
        BY <1>5 DEF Invalidate
  <2>2. /\ jobs' \in [Clients -> Seq(Jobs)] /\ stage' \in [Clients -> Stages]
        /\ \A d \in Clients : AtWork(d)'
        BY <1>1, <2>1, InvalidateKeeps
  <2> HIDE DEF Jobs
  <2>3. HostTypeOK'  BY <1>2, <1>3, <2>1, <2>2 DEF Refresh, HostIInv, HostTypeOK, resourceVars
  <2>4. ResourcesKept'
        BY <1>2, <1>3, <2>1
        DEF Refresh, HostIInv, ResourcesKept, CredentialsKept, HookRunsAlone, resourceVars
  <2> QED  BY <2>2, <2>3, <2>4 DEF HostIInv
<1> QED  BY <1>4, <1>5 DEF Refresh, revision

\* hello: a client joins the identity with credentials that are not older.
LEMMA HelloKeeps ==
    ASSUME HostIInv, NEW c \in Clients, Hello(c)
    PROVE  HostIInv'
<1> DEFINE revision == Head(jobs[c]).revision
<1>1. jobs[c] # <<>> /\ stage[c] = "ready"  BY DEF Hello, Starts, Turn, Running
<1>2. revision \in 1 .. MaxRevision
      BY RunningJob DEF HostIInv, Hello, Starts, Turn
<1>3. MaxRevision \in Nat  BY HostAssumption DEF HostAssumption
<1> HIDE DEF revision
<1>4. CASE Finished(c) /\ UNCHANGED <<store, rejections, identity>>
  <2>1. store' \in 0 .. MaxRevision /\ CredentialsKept'
        BY <1>4 DEF Hello, HostIInv, HostTypeOK, ResourcesKept, CredentialsKept, resourceVars
  <2> QED  BY <1>1, <1>4, <2>1, EndsKeeps DEF Hello, HostIInv, HostTypeOK
<1>5. CASE /\ store' = revision /\ Finished(c) /\ rejections' = rejections
           /\ identity' = [identity EXCEPT ![c] = TRUE]
  <2>1. jobs' \in [Clients -> Seq(Jobs)] /\ stage' \in [Clients -> Stages]
        BY <1>1, <1>5, FinishedTyped DEF HostIInv
  <2>2. \A d \in Clients : AtWork(d)'
        BY <1>5 DEF HostIInv, HostTypeOK, AtWork, Finished, Running
  <2> HIDE DEF Jobs
  <2>0. UNCHANGED <<status, held, resourceVars, hostClosed, sent>>  BY DEF Hello
  <2>3. identity' \in [Clients -> BOOLEAN]  BY <1>5 DEF HostIInv, HostTypeOK
  <2>4. store' \in 0 .. MaxRevision  BY <1>2, <1>3, <1>5
  <2>5. HostTypeOK'
        BY <1>5, <2>0, <2>1, <2>3, <2>4 DEF HostIInv, HostTypeOK, resourceVars
  <2>6. ResourcesKept'
        BY <1>2, <1>3, <1>5
        DEF Hello, HostIInv, ResourcesKept, CredentialsKept, HookRunsAlone, resourceVars
  <2> QED  BY <2>2, <2>5, <2>6 DEF HostIInv
<1>6. CASE store' = revision /\ rejections' = rejections + 1 /\ Invalidate(c)
  <2>1. /\ jobs' \in [Clients -> Seq(Jobs)] /\ stage' \in [Clients -> Stages]
        /\ \A d \in Clients : AtWork(d)'
        BY <1>1, <1>6, InvalidateKeeps
  <2>2. identity' = identity  BY <1>6 DEF Invalidate
  <2> HIDE DEF Jobs
  <2>3. HostTypeOK'  BY <1>2, <1>3, <1>6, <2>1, <2>2 DEF Hello, HostIInv, HostTypeOK, resourceVars
  <2>4. ResourcesKept'
        BY <1>2, <1>3, <1>6
        DEF Hello, HostIInv, ResourcesKept, CredentialsKept, HookRunsAlone, resourceVars
  <2> QED  BY <2>1, <2>3, <2>4 DEF HostIInv
<1> QED  BY <1>4, <1>5, <1>6 DEF Hello, revision

-----------------------------------------------------------------------------
\* attach: with a hook at work it waits, else the source opens at once.  The
\* client has an identity, and so the source its store.
LEMMA AttachKeeps ==
    ASSUME HostIInv, NEW c \in Clients, Attach(c)
    PROVE  HostIInv'
<1> DEFINE key == Head(jobs[c]).source
<1>1. jobs[c] # <<>> /\ Running(c, "attach")  BY DEF Attach, Starts, Turn, Running
<1>2. key \in Sources  BY <1>1, RunningJob DEF HostIInv
<1>3. UNCHANGED <<status, identity, hook, operation, store, hostClosed, sent, rejections>>
      BY DEF Attach, boundVars
<1> HIDE DEF key
<1>4. CASE Finished(c) /\ UNCHANGED <<sources, held, active>>
  <2>1. CredentialsKept'  BY <1>3, <1>4 DEF HostIInv, ResourcesKept, CredentialsKept
  <2> QED  BY <1>1, <1>3, <1>4, <2>1, EndsKeeps DEF HostIInv, HostTypeOK, resourceVars
<1>5. CASE hook /\ identity[c] /\ Goto(c, "hook") /\ UNCHANGED <<sources, held, active>>
  <2>1. \A d \in Clients : AtWork(d)'
        BY <1>1, <1>3, <1>5 DEF HostIInv, HostTypeOK, AtWork, Goto, Running
  <2>2. stage' \in [Clients -> Stages] /\ jobs' = jobs
        BY <1>5 DEF HostIInv, HostTypeOK, Goto, Stages
  <2>3. HostTypeOK'  BY <1>3, <1>5, <2>2 DEF HostIInv, HostTypeOK
  <2>4. ResourcesKept'
        BY <1>3, <1>5 DEF HostIInv, ResourcesKept, CredentialsKept, HookRunsAlone
  <2> QED  BY <2>1, <2>3, <2>4 DEF HostIInv
<1>6. CASE ~hook /\ identity[c] /\ Goto(c, "opening") /\ Opened({c})
  <2>1. /\ \A d \in Clients : AtWork(d)'
        /\ jobs' \in [Clients -> Seq(Jobs)] /\ stage' \in [Clients -> Stages]
        BY <1>1, <1>3, <1>6, GotoAtWork DEF HostIInv, Stages
  <2>2. sources' \subseteq Sources /\ held' \in [Clients -> SUBSET Sources] /\ active' \in BOOLEAN
        BY <1>2, <1>6 DEF HostIInv, HostTypeOK, Opened, key
  <2> HIDE DEF Jobs
  <2>3. HostTypeOK'  BY <1>3, <2>1, <2>2 DEF HostIInv, HostTypeOK
  <2>4. ResourcesKept'
        BY <1>3, <1>6 DEF HostIInv, ResourcesKept, CredentialsKept, HookRunsAlone
  <2> QED  BY <2>1, <2>3, <2>4 DEF HostIInv
<1> QED  BY <1>4, <1>5, <1>6 DEF Attach

\* handle.ready resolves or rejects.
LEMMA ReadyKeeps ==
    ASSUME HostIInv, NEW c \in Clients, AttachReady(c) \/ AttachFails(c)
    PROVE  HostIInv'
<1>0. jobs[c] # <<>>  BY DEF HostIInv, AtWork, AttachReady, AttachFails
<1>1. CASE AttachReady(c)
  <2>1. CredentialsKept'
        BY <1>1 DEF AttachReady, HostIInv, ResourcesKept, CredentialsKept, resourceVars
  <2> QED  BY <1>0, <1>1, <2>1, EndsKeeps DEF AttachReady, HostIInv, HostTypeOK, boundVars
<1>2. CASE AttachFails(c)
  BY <1>0, <1>2, GoesKeeps DEF AttachFails, HostIInv, HostTypeOK, boundVars, resourceVars, Stages
<1> QED  BY <1>1, <1>2

-----------------------------------------------------------------------------
\* detach, invalidate and close begin, or a command returns at once.
LEMMA DetachKeeps ==
    ASSUME HostIInv, NEW c \in Clients, Detach(c)
    PROVE  HostIInv'
<1>1. jobs[c] # <<>>  BY DEF Detach, Starts, Turn, Running
<1>2. status' \in [Clients -> {"open", "closing", "closed"}]
      BY DEF Detach, HostIInv, HostTypeOK
<1>3. UNCHANGED <<identity, held, resourceVars, store, hostClosed, sent, rejections>>
      BY DEF Detach, boundVars
<1>4. Goto(c, "detaching")  BY DEF Detach
<1> QED  BY <1>1, <1>2, <1>3, <1>4, GoesKeeps DEF HostIInv, HostTypeOK, resourceVars, Stages

LEMMA ReturnsKeeps ==
    ASSUME HostIInv, NEW c \in Clients, ReturnsAtOnce(c)
    PROVE  HostIInv'
<1>1. jobs[c] # <<>>  BY DEF ReturnsAtOnce, Turn, Running
<1>2. CredentialsKept'
      BY DEF ReturnsAtOnce, HostIInv, ResourcesKept, CredentialsKept, resourceVars
<1> QED  BY <1>1, <1>2, EndsKeeps DEF ReturnsAtOnce, HostIInv, HostTypeOK, boundVars

\* One subscription goes, and with the last one its source.
LEMMA DetachOneKeeps ==
    ASSUME HostIInv, NEW c \in Clients, DetachOne(c)
    PROVE  HostIInv'
<1>1. jobs[c] # <<>>  BY DEF DetachOne, HostIInv, AtWork
<1>2. UNCHANGED <<status, identity, active, hook, operation, store, hostClosed, sent, rejections>>
      BY DEF DetachOne, boundVars
<1>3. held' \in [Clients -> SUBSET Sources]  BY DEF DetachOne, HostIInv, HostTypeOK
<1>4. CASE UNCHANGED <<sources, stage, jobs>>
  <2>1. HostTypeOK'  BY <1>2, <1>3, <1>4 DEF HostIInv, HostTypeOK
  <2>2. \A d \in Clients : AtWork(d)'  BY <1>2, <1>4 DEF HostIInv, AtWork, Running
  <2>3. ResourcesKept'
        BY <1>2, <1>4 DEF HostIInv, ResourcesKept, CredentialsKept, HookRunsAlone
  <2> QED  BY <2>1, <2>2, <2>3 DEF HostIInv
<1>5. CASE sources' \subseteq sources /\ Goto(c, "releasing")
  BY <1>1, <1>2, <1>3, <1>5, GoesKeeps DEF HostIInv, HostTypeOK, Stages
<1> QED  BY <1>4, <1>5 DEF DetachOne

\* A source is released: its store may go, and the hook may start.
LEMMA ReleasedKeeps ==
    ASSUME HostIInv, NEW c \in Clients, Released(c)
    PROVE  HostIInv'
<1>1. jobs[c] # <<>>  BY DEF Released, HostIInv, AtWork
<1>2. UNCHANGED <<status, identity, held, sources, active, operation, hostClosed, sent, rejections>>
      BY DEF Released, boundVars
<1>3. /\ store' \in 0 .. MaxRevision
      /\ (sources # {} \/ \E d \in Clients : identity[d]) => store' > 0
  <2>1. identity \in [Clients -> BOOLEAN] /\ HostTypeOK /\ CredentialsKept
        BY DEF HostIInv, HostTypeOK, ResourcesKept
  <2>2. store' = Cleaned(identity, sources)  BY DEF Released
  <2> QED  BY <2>1, <2>2, CleanedKeeps DEF CredentialsKept
<1>4. /\ \A d \in Clients : AtWork(d)'
      /\ jobs' \in [Clients -> Seq(Jobs)] /\ stage' \in [Clients -> Stages]
  <2>1. PICK to \in {"closing", "detaching"} : Goto(c, to)  BY DEF Released
  <2>2. to \in Stages \ {"hook"}  BY DEF Stages
  <2> QED  BY <1>1, <1>2, <2>1, <2>2, GotoAtWork DEF HostIInv
<1>5. hook' = (hook \/ Idle(sources, operation))  BY DEF Released
<1> HIDE DEF Jobs
<1>6. HostTypeOK'  BY <1>2, <1>3, <1>4, <1>5 DEF HostIInv, HostTypeOK
<1>7. CredentialsKept'  BY <1>2, <1>3 DEF CredentialsKept
<1>8. HookRunsAlone'
      BY <1>2, <1>5 DEF HostIInv, ResourcesKept, HookRunsAlone, Idle
<1> QED  BY <1>4, <1>6, <1>7, <1>8 DEF HostIInv, ResourcesKept

\* A client has let go of everything, and of its identity when it is to.
LEMMA LeftKeeps ==
    ASSUME HostIInv, NEW c \in Clients, Left(c)
    PROVE  HostIInv'
<1>1. jobs[c] # <<>>  BY DEF Left, HostIInv, AtWork
<1>2. UNCHANGED <<status, held, resourceVars, hostClosed, sent, rejections>>
      BY DEF Left, boundVars
<1>3. /\ identity' \in [Clients -> BOOLEAN]
      /\ \A d \in Clients : /\ identity'[d] => identity[d]
                            /\ d # c => identity'[d] = identity[d]
      BY DEF Left, HostIInv, HostTypeOK
<1>4. store' \in {store, Cleaned(identity', sources)}  BY DEF Left
<1>5. store' \in 0 .. MaxRevision /\ CredentialsKept'
  <2>1. HostTypeOK /\ CredentialsKept /\ sources' = sources
        BY <1>2 DEF HostIInv, ResourcesKept, resourceVars
  <2>2. (sources # {} \/ \E d \in Clients : identity'[d]) => store > 0
        BY <1>3, <2>1 DEF CredentialsKept
  <2>3. /\ Cleaned(identity', sources) \in 0 .. MaxRevision
        /\ (sources # {} \/ \E d \in Clients : identity'[d]) => Cleaned(identity', sources) > 0
        BY <1>3, <2>1, <2>2, CleanedKeeps
  <2>4. store \in 0 .. MaxRevision  BY <2>1 DEF HostTypeOK
  <2> QED  BY <1>4, <2>1, <2>2, <2>3, <2>4 DEF CredentialsKept
<1>6. PICK to \in {"waiting", "ready"} :
        /\ stage' = [stage EXCEPT ![c] = to]
        /\ to = "ready" => Finished(c)
        /\ to = "waiting" => Goto(c, "waiting")
  <2>1. Finished(c) \/ Goto(c, "waiting")  BY DEF Left
  <2>2. CASE Finished(c)  BY <2>2 DEF Finished
  <2>3. CASE Goto(c, "waiting")  BY <2>3 DEF Goto
  <2> QED  BY <2>1, <2>2, <2>3
<1>7. jobs' \in [Clients -> Seq(Jobs)] /\ stage' \in [Clients -> Stages]
  <2>1. CASE to = "ready"  BY <1>1, <1>6, <2>1, FinishedTyped DEF HostIInv
  <2>2. CASE to # "ready"
        BY <1>6, <2>2 DEF HostIInv, HostTypeOK, Goto, Stages
  <2> QED  BY <2>1, <2>2
<1>8. ASSUME NEW d \in Clients PROVE AtWork(d)'
      BY <1>1, <1>3, <1>6 DEF HostIInv, HostTypeOK, AtWork, Running, Finished, Goto
<1> HIDE DEF Jobs
<1>9. HostTypeOK'  BY <1>2, <1>3, <1>5, <1>7 DEF HostIInv, HostTypeOK, resourceVars
<1>10. HookRunsAlone'  BY <1>2 DEF HostIInv, ResourcesKept, HookRunsAlone, resourceVars
<1> QED  BY <1>5, <1>8, <1>9, <1>10 DEF HostIInv, ResourcesKept

\* invalidateIdentity() has seen every client go.
LEMMA InvalidatedKeeps ==
    ASSUME HostIInv, NEW c \in Clients, Invalidated(c)
    PROVE  HostIInv'
<1>1. jobs[c] # <<>>  BY DEF Invalidated, HostIInv, AtWork
<1>2. /\ identity \in [Clients -> BOOLEAN] /\ HostTypeOK /\ CredentialsKept
      /\ sources' = sources /\ identity' = identity
      BY DEF HostIInv, HostTypeOK, ResourcesKept, Invalidated, resourceVars
<1>3. store' = Cleaned(identity, sources)  BY DEF Invalidated
<1>4. store' \in 0 .. MaxRevision /\ CredentialsKept'
      BY <1>2, <1>3, CleanedKeeps DEF CredentialsKept
<1> QED  BY <1>1, <1>4, EndsKeeps DEF Invalidated, HostIInv, HostTypeOK, boundVars

-----------------------------------------------------------------------------
\* publish and request beside the chain: they start while no hook runs.
LEMMA OperateKeeps ==
    ASSUME HostIInv, NEW c \in Clients, Operate(c)
    PROVE  HostIInv'
<1>1. UNCHANGED <<clientVars, sources, hook, store, hostClosed, rejections>>
      BY DEF Operate
<1>2. /\ operation' \in [Clients -> {"none", "waiting", "running"}]
      /\ active' \in BOOLEAN /\ sent' \in Nat
      BY DEF Operate, Sends, HostIInv, HostTypeOK
<1>3. HostTypeOK'  BY <1>1, <1>2 DEF HostIInv, HostTypeOK, clientVars
<1>4. \A d \in Clients : AtWork(d)'  BY <1>1 DEF HostIInv, AtWork, Running, clientVars
<1>5. ResourcesKept'
      BY <1>1 DEF Operate, Waits, HostIInv, HostTypeOK, ResourcesKept, CredentialsKept,
                  HookRunsAlone, clientVars
<1> QED  BY <1>3, <1>4, <1>5 DEF HostIInv

LEMMA OperatedKeeps ==
    ASSUME HostIInv, NEW c \in Clients, Operated(c)
    PROVE  HostIInv'
<1>1. UNCHANGED <<clientVars, sources, active, store, hostClosed, sent, rejections>>
      BY DEF Operated, boundVars
<1>2. /\ operation' = [operation EXCEPT ![c] = "none"]
      /\ hook' = (hook \/ Idle(sources, operation'))
      BY DEF Operated
<1>3. HostTypeOK'  BY <1>1, <1>2 DEF HostIInv, HostTypeOK, clientVars
<1>4. \A d \in Clients : AtWork(d)'  BY <1>1 DEF HostIInv, AtWork, Running, clientVars
<1>5. ResourcesKept'
      BY <1>1, <1>2 DEF HostIInv, HostTypeOK, ResourcesKept, CredentialsKept,
                        HookRunsAlone, clientVars, Idle
<1> QED  BY <1>3, <1>4, <1>5 DEF HostIInv

\* The hook ends: the sources that waited for it open, of clients that have
\* their identity still.
LEMMA HookEndsKeeps ==
    ASSUME HostIInv, HookEnds
    PROVE  HostIInv'
<1> DEFINE attaching == {c \in Clients : stage[c] = "hook"}
<1>1. UNCHANGED <<status, identity, jobs, store, hostClosed, sent, rejections>> /\ hook' = FALSE
      BY DEF HookEnds, boundVars
<1>2. \A c \in attaching : Head(jobs[c]).source \in Sources /\ identity[c]
      BY RunningJob DEF HostIInv, AtWork
<1>3. stage' \in [Clients -> Stages] /\ \A c \in Clients : stage'[c] # "hook" /\ (stage'[c] # "ready" => stage[c] # "ready")
      BY DEF HookEnds, HostIInv, HostTypeOK, Stages
<1>4. operation' \in [Clients -> {"none", "waiting", "running"}]
      BY DEF HookEnds, HostIInv, HostTypeOK
<1>5. held' \in [Clients -> SUBSET Sources]
      BY <1>2 DEF HookEnds, HostIInv, HostTypeOK
<1>6. sources' = sources \cup {Head(jobs[c]).source : c \in attaching} /\ active' \in BOOLEAN
      BY DEF HookEnds
<1>7. HostTypeOK'
      BY <1>1, <1>2, <1>3, <1>4, <1>5, <1>6 DEF HostIInv, HostTypeOK
<1>8. \A d \in Clients : AtWork(d)'  BY <1>1, <1>3 DEF HostIInv, AtWork
<1>9. ResourcesKept'
      BY <1>1, <1>2, <1>6 DEF HostIInv, ResourcesKept, CredentialsKept, HookRunsAlone
<1> QED  BY <1>7, <1>8, <1>9 DEF HostIInv

-----------------------------------------------------------------------------
LEMMA HostSteps == HostIInv /\ [HostNext]_hostVars => HostIInv'
<1> SUFFICES ASSUME HostIInv, [HostNext]_hostVars PROVE HostIInv'  OBVIOUS
<1>1. CASE UNCHANGED hostVars  BY <1>1, HostStutters
<1>2. CASE HookEnds  BY <1>2, HookEndsKeeps
<1>3. CASE CloseHost  BY <1>3, CloseHostKeeps
<1>4. ASSUME NEW c \in Clients, NEW job \in Commands, Command(c, job) PROVE HostIInv'
      BY <1>4, CommandKeeps
<1>5. ASSUME NEW c \in Clients, Sweep(c) \/ Operate(c) \/ Operated(c) PROVE HostIInv'
      BY <1>5, SweepKeeps, OperateKeeps, OperatedKeeps
<1>6. ASSUME NEW c \in Clients, Chain(c) PROVE HostIInv'
      BY <1>6, HelloKeeps, RefreshKeeps, AttachKeeps, ReadyKeeps, DetachKeeps,
         DetachOneKeeps, ReleasedKeeps, LeftKeeps, InvalidatedKeeps, ReturnsKeeps
      DEF Chain
<1> QED  BY <1>1, <1>2, <1>3, <1>4, <1>5, <1>6 DEF HostNext

(***************************************************************************)
(* The inductive invariant of the worker host: its types, what the command *)
(* at the head of a chain may wait for, and the resources that are shared. *)
(***************************************************************************)
THEOREM HostInvariant == HostSpec => []HostIInv
<1> QED  BY HostStarts, HostSteps, PTL DEF HostSpec

(***************************************************************************)
(* A client with an identity and an open source always have their          *)
(* credential store, and the hook that closes the shared resources runs    *)
(* alone (cleanupCredentials(), closeIdleResources(), withResources()).    *)
(***************************************************************************)
THEOREM ResourcesLast == HostSpec => []ResourcesKept
<1>1. HostIInv => ResourcesKept  BY DEF HostIInv
<1> QED  BY <1>1, HostInvariant, PTL

(***************************************************************************)
(* Type correctness of the worker host.                                    *)
(***************************************************************************)
THEOREM HostTyped == HostSpec => []HostTypeOK
<1>1. HostIInv => HostTypeOK  BY DEF HostIInv
<1> QED  BY <1>1, HostInvariant, PTL
=============================================================================
