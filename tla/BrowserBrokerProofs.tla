------------------------ MODULE BrowserBrokerProofs ------------------------
(***************************************************************************)
(* The broker, for any number of tabs, ports, workers lost and sizes of    *)
(* the log, the queues and the batches: no delivery is lost silently, no   *)
(* acknowledgement is refused to a lease that lives, no tab waits for a    *)
(* batch that is nowhere, and the source is open exactly while it is held. *)
(***************************************************************************)
EXTENDS BrowserBroker, SequenceTheorems, WellFoundedInduction, TLAPS

(***************************************************************************)
(* What the variables hold.                                                *)
(***************************************************************************)
Phases == {"none", "connecting", "live", "closed", "error"}

Answer ==
    [type : {"result"}, of : {"attach", "reattach", "ack", "detach"}, ok : BOOLEAN]
        \cup [type : {"state"}, state : {"resume-required", "error", "closed"}]
        \cup [type : {"batch"}, id : Nat, items : Seq(Nat) \ {<<>>}]

Command ==
    [type : {"attach", "reattach"}, after : Nat]
        \cup [type : {"ack"}, batch : Nat, after : Nat]
        \cup [type : {"detach", "restart", "close"}]

Source == [phase : Phases, position : Nat, log : Seq(Nat), truncated : BOOLEAN, timer : BOOLEAN]

Client ==
    [status : {"none", "open", "closed"}, attached : BOOLEAN, pending : Seq(Nat),
     inflight : Seq(Nat), batch : Nat, cursor : Nat, lagged : BOOLEAN,
     waiting : {"no", "attach", "reattach", "restart"}, down : Seq(Answer)]

Received == [generation : Nat, id : Nat, items : Seq(Nat), last : Nat]

Links == {"none", "connecting", "hello", "reattach", "up", "closed"}
Leases == {"idle", "waiting", "attaching", "attached", "closing"} \cup Over

BrokerTypeOK ==
    /\ source \in Source
    /\ host \in [Ports -> Client]
    /\ up \in [Ports -> Seq(Command)]
    /\ generation \in [Tabs -> Nat]
    /\ \A t \in Tabs : generation[t] \in 1 .. MaxGenerations[t]
    /\ link \in [Tabs -> Links]
    /\ reconnecting \in [Tabs -> BOOLEAN]
    /\ lease \in [Tabs -> Leases]
    /\ cursor \in [Tabs -> Nat]
    /\ chain \in [Tabs -> Seq(Received)]
    /\ acking \in [Tabs -> BOOLEAN]
    /\ seen \in [Tabs -> Nat]
    /\ gap \in [Tabs -> BOOLEAN]
    /\ blind \in [Tabs -> BOOLEAN]

-----------------------------------------------------------------------------
(***************************************************************************)
(* The worker's side.  Sequences are handed on one after the other: the    *)
(* log and what is queued run up to the position of the source, and what   *)
(* is queued follows on the batch in flight.                               *)
(***************************************************************************)
RunTo(s, last) == \A i \in 1 .. Len(s) : s[i] = last - Len(s) + i

SourceSound ==
    /\ OpenWhileHeld
    /\ RunTo(source.log, source.position)

Queued(h, position) ==
    /\ RunTo(h.pending, position)
    /\ h.inflight # <<>> => h.inflight[Len(h.inflight)] = position - Len(h.pending)

ClientSound(h, position) ==
    /\ h.attached => h.status = "open"
    /\ ~h.attached => h.pending = <<>> /\ h.inflight = <<>> /\ ~h.lagged
    /\ h.lagged => h.pending = <<>> /\ h.inflight = <<>>
    /\ h.pending # <<>> => h.inflight # <<>>
    /\ Queued(h, position)
    /\ h.waiting \in {"attach", "reattach"} => h.attached

-----------------------------------------------------------------------------
(***************************************************************************)
(* The conversation of a lease that is in the map with the worker behind   *)
(* its port: h is the worker's side, u the commands and c the batches      *)
(* under way, of which the first awaits its acknowledgement when a holds,  *)
(* g the generation, n what the handler has seen and b whether it has      *)
(* reattached without a cursor.                                            *)
(***************************************************************************)
\* A message that ends the lease, and what is not behind one.
Ender(m) == m.type = "state" \/ (m.type = "result" /\ m.of \notin {"ack", "detach"} /\ ~m.ok)
Effective(d, i) == \A j \in 1 .. i : ~Ender(d[j])
Calm(d) == \A j \in 1 .. Len(d) : ~Ender(d[j])

\* Where the batch may be that has not been acknowledged yet, and the answer.
OnDown(d) == {i \in 1 .. Len(d) : d[i].type = "batch" /\ Effective(d, i)}
OnChain(c, a, g) == {i \in 1 .. Len(c) : c[i].generation = g /\ ~(a /\ i = 1)}
OnUp(u) == {i \in 1 .. Len(u) : u[i].type = "ack"}
Answers(d) == {i \in 1 .. Len(d) : d[i].type = "result" /\ d[i].of = "ack"}

AtMostOne(S) == \A i, j \in S : i = j

\* There is one such batch at most, and it waits for one answer.
OneBatch(h, u, c, a, g) ==
    /\ AtMostOne(OnDown(h.down)) /\ AtMostOne(OnChain(c, a, g)) /\ AtMostOne(OnUp(u))
    /\ OnDown(h.down) # {} => OnChain(c, a, g) = {} /\ OnUp(u) = {}
    /\ OnChain(c, a, g) # {} => OnUp(u) = {}
    /\ OnUp(u) # {} => a /\ Answers(h.down) = {}
    /\ Answers(h.down) # {} => a
    /\ AtMostOne(Answers(h.down))

\* It is the batch the worker holds in flight.
Matches(h, id, last) ==
    /\ h.attached /\ h.inflight # <<>>
    /\ id = h.batch /\ last = h.inflight[Len(h.inflight)]

LastOf(m) == m.items[Len(m.items)]

Agreed(h, u, c, a, g) ==
    h.status = "open" /\ Calm(h.down) =>
        /\ \A i \in OnDown(h.down) : Matches(h, h.down[i].id, LastOf(h.down[i]))
        /\ \A i \in OnChain(c, a, g) : Matches(h, c[i].id, c[i].last)
        /\ \A i \in OnUp(u) : Matches(h, u[i].batch, u[i].after)

\* And the worker does not wait for one that is nowhere.
Awaited(h, u, c, a, g) ==
    h.attached /\ h.inflight # <<>> =>
        \/ \E i \in 1 .. Len(h.down) :
              h.down[i].type = "batch" /\ Matches(h, h.down[i].id, LastOf(h.down[i]))
        \/ \E i \in OnChain(c, a, g) : Matches(h, c[i].id, c[i].last)
        \/ \E i \in OnUp(u) : Matches(h, u[i].batch, u[i].after)

\* An acknowledgement is refused only behind a message that ends the lease.
Refused(h) ==
    /\ \A i \in Answers(h.down) : ~h.down[i].ok => ~Effective(h.down, i)
    /\ h.lagged => ~Calm(h.down)

\* What comes next follows on what the handler has seen.
Follows(items, last, n, b) ==
    /\ RunTo(items, last)
    /\ last - Len(items) <= n \/ (items # <<>> /\ (n = 0 \/ b))

NoneSkipped(h, u, c, a, g, n, b, position) ==
    /\ \A i \in OnDown(h.down) : Follows(h.down[i].items, LastOf(h.down[i]), n, b)
    /\ \A i \in OnChain(c, a, g) : Follows(c[i].items, c[i].last, n, b)
    /\ \A i \in OnUp(u) : u[i].after <= n
    /\ Calm(h.down) /\ h.attached /\ h.inflight = <<>> =>
          position - Len(h.pending) <= n \/ n = 0 \/ b

\* The same of the batches a lease has received, as long as its handler goes on.
Resumes(c, a, g, n, b) ==
    /\ AtMostOne(OnChain(c, a, g))
    /\ \A i \in OnChain(c, a, g) : Follows(c[i].items, c[i].last, n, b)

\* A lease attaches once on a port, before anything else.
Asked(h, u, c, n, b) ==
    \A i \in 1 .. Len(u) :
        /\ u[i].type \notin {"detach", "close"}
        /\ u[i].type = "attach" => i = 1 /\ ~h.attached /\ h.down = <<>> /\ c = <<>> /\ n = 0
        /\ u[i].type = "reattach" => u[i].after <= n /\ (u[i].after = 0 => b)

Talk(h, u, c, a, g, n, b, position) ==
    /\ OneBatch(h, u, c, a, g) /\ Agreed(h, u, c, a, g) /\ Awaited(h, u, c, a, g)
    /\ Refused(h) /\ NoneSkipped(h, u, c, a, g, n, b, position) /\ Asked(h, u, c, n, b)

Talks(t) ==
    InMap(t) /\ HasPort(t) =>
        Talk(host[Port(t)], up[Port(t)], chain[t], acking[t], generation[t], seen[t], blind[t],
             source.position)

-----------------------------------------------------------------------------
(***************************************************************************)
(* The rest of the tab: nothing has been said on a port that is not there  *)
(* yet, nor by a lease that has not attached.                              *)
(***************************************************************************)
\* A lease that is over is not subscribed, or its detach is under way.
Attaches(m) == m.type \in {"attach", "reattach"}

Parted(h, u) ==
    h.status = "open" =>
        \/ ~h.attached /\ \A i \in 1 .. Len(u) : ~Attaches(u[i])
        \/ \E i \in 1 .. Len(u) : u[i].type = "detach" /\ \A j \in i .. Len(u) : ~Attaches(u[j])

Left == {"closing"} \cup (Over \ {"attach"})

Unspoken(p) == ~host[p].attached /\ host[p].down = <<>> /\ up[p] = <<>>

Later(t) == {p \in Ports : p[1] = t /\ (p[2] > generation[t] \/ (p[2] = generation[t] /\ link[t] = "connecting"))}

TabSound(t) ==
    /\ Accepting(t) => link[t] # "closed"
    /\ acking[t] => Accepting(t) /\ chain[t] # <<>>
    /\ Accepting(t) => Resumes(chain[t], acking[t], generation[t], seen[t], blind[t])
    /\ lease[t] \in Left /\ HasPort(t) => Parted(host[Port(t)], up[Port(t)])
    /\ cursor[t] <= seen[t]
    /\ \A i \in 1 .. Len(chain[t]) :
          /\ chain[t][i].generation <= generation[t]
          /\ link[t] = "connecting" => chain[t][i].generation < generation[t]
    /\ \A p \in Later(t) : Unspoken(p) /\ host[p].status = "none"
    /\ lease[t] \in {"idle", "waiting"} =>
          /\ \A p \in Ports : p[1] = t => Unspoken(p)
          /\ chain[t] = <<>> /\ ~acking[t] /\ seen[t] = 0
    /\ lease[t] # "ack"
    /\ gap[t] => blind[t]

BrokerIInv ==
    /\ BrokerTypeOK
    /\ SourceSound
    /\ \A p \in Ports : ClientSound(host[p], source.position)
    /\ \A t \in Tabs : TabSound(t) /\ Talks(t)
-----------------------------------------------------------------------------
\* A sequence with one element more, and one without its first.
LEMMA Longer ==
    ASSUME NEW S, NEW s \in Seq(S), NEW e \in S
    PROVE  /\ Append(s, e) \in Seq(S) /\ Append(s, e) # <<>>
           /\ Len(s) \in Nat /\ Len(Append(s, e)) = Len(s) + 1
           /\ \A i \in 1 .. Len(s) : Append(s, e)[i] = s[i]
           /\ Append(s, e)[Len(s) + 1] = e
BY AppendProperties, LenProperties

\* And what a sequence is without its first element.
LEMMA Shorter ==
    ASSUME NEW S, NEW s \in Seq(S), s # <<>>
    PROVE  /\ Head(s) \in S /\ Head(s) = s[1]
           /\ Tail(s) \in Seq(S) /\ Len(s) \in Nat \ {0} /\ Len(Tail(s)) = Len(s) - 1
           /\ \A i \in 1 .. Len(s) - 1 : Tail(s)[i] = s[i + 1]
<1>1. Len(s) \in Nat \ {0}
  BY EmptySeq
<1>2. Head(s) = s[1]
  BY <1>1
<1> QED
  BY <1>1, <1>2, HeadTailProperties

\* What a message more tells.
LEMMA MessageMore ==
    ASSUME NEW d \in Seq(Answer), NEW m \in Answer
    PROVE  LET k == Len(d) + 1
               e == Append(d, m)
           IN  /\ e \in Seq(Answer)
               /\ Len(d) \in Nat /\ Len(e) = k /\ e[k] = m /\ \A i \in 1 .. Len(d) : e[i] = d[i]
               /\ Calm(e) <=> Calm(d) /\ ~Ender(m)
               /\ \A i \in 1 .. Len(d) : Effective(e, i) <=> Effective(d, i)
               /\ Effective(e, k) <=> Calm(d) /\ ~Ender(m)
               /\ OnDown(d) \subseteq OnDown(e) /\ OnDown(e) \subseteq OnDown(d) \cup {k}
               /\ k \in OnDown(e) <=> m.type = "batch" /\ Calm(d) /\ ~Ender(m)
               /\ Answers(d) \subseteq Answers(e) /\ Answers(e) \subseteq Answers(d) \cup {k}
               /\ k \in Answers(e) <=> m.type = "result" /\ m.of = "ack"
<1> DEFINE k == Len(d) + 1
           e == Append(d, m)
<1>1. /\ e \in Seq(Answer) /\ Len(d) \in Nat /\ Len(e) = k /\ e[k] = m
      /\ \A i \in 1 .. Len(d) : e[i] = d[i]
  BY Longer
<1> HIDE DEF e
<1>2. Calm(e) <=> Calm(d) /\ ~Ender(m)
  BY <1>1 DEF Calm
<1>3. \A i \in 1 .. Len(d) : Effective(e, i) <=> Effective(d, i)
  BY <1>1 DEF Effective
<1>4. Effective(e, k) <=> Calm(d) /\ ~Ender(m)
  BY <1>1 DEF Effective, Calm
<1>5. /\ OnDown(d) \subseteq OnDown(e) /\ OnDown(e) \subseteq OnDown(d) \cup {k}
      /\ k \in OnDown(e) <=> m.type = "batch" /\ Calm(d) /\ ~Ender(m)
  BY <1>1, <1>3, <1>4 DEF OnDown
<1>6. /\ Answers(d) \subseteq Answers(e) /\ Answers(e) \subseteq Answers(d) \cup {k}
      /\ k \in Answers(e) <=> m.type = "result" /\ m.of = "ack"
  BY <1>1 DEF Answers
<1> QED
  BY <1>1, <1>2, <1>3, <1>4, <1>5, <1>6 DEF e

\* What is left when a message that ends nothing has been taken.
LEMMA MessageLess ==
    ASSUME NEW d \in Seq(Answer), d # <<>>, ~Ender(Head(d))
    PROVE  LET e == Tail(d)
           IN  /\ e \in Seq(Answer) /\ Len(d) \in Nat \ {0} /\ Len(e) = Len(d) - 1
               /\ Head(d) = d[1] /\ \A i \in 1 .. Len(e) : e[i] = d[i + 1]
               /\ Calm(e) <=> Calm(d)
               /\ \A i \in 1 .. Len(e) : Effective(e, i) <=> Effective(d, i + 1)
               /\ \A i \in 1 .. Len(e) : i \in OnDown(e) <=> i + 1 \in OnDown(d)
               /\ \A i \in 1 .. Len(e) : i \in Answers(e) <=> i + 1 \in Answers(d)
               /\ 1 \in OnDown(d) <=> Head(d).type = "batch"
               /\ 1 \in Answers(d) <=> Head(d).type = "result" /\ Head(d).of = "ack"
<1> DEFINE e == Tail(d)
<1>1. /\ e \in Seq(Answer) /\ Len(d) \in Nat \ {0} /\ Len(e) = Len(d) - 1
      /\ Head(d) = d[1] /\ \A i \in 1 .. Len(e) : e[i] = d[i + 1]
  BY Shorter
<1> DEFINE m == Head(d)
<1>2. ~Ender(m) /\ m = d[1]
  BY <1>1
<1> HIDE DEF e, m
<1>3. \A i \in 1 .. Len(e) : Effective(e, i) <=> Effective(d, i + 1)
  <2> SUFFICES ASSUME NEW i \in 1 .. Len(e)
               PROVE  Effective(e, i) <=> Effective(d, i + 1)
    OBVIOUS
  <2>1. ASSUME Effective(e, i), NEW j \in 1 .. i + 1 PROVE ~Ender(d[j])
    <3>1. CASE j = 1
      BY <1>2, <3>1
    <3>2. CASE j # 1
      <4>1. j - 1 \in 1 .. i /\ d[j] = e[j - 1]
        BY <1>1, <3>2
      <4> QED
        BY <2>1, <4>1 DEF Effective
    <3> QED
      BY <3>1, <3>2
  <2>2. ASSUME Effective(d, i + 1), NEW j \in 1 .. i PROVE ~Ender(e[j])
    BY <1>1, <2>2 DEF Effective
  <2> QED
    BY <2>1, <2>2 DEF Effective
<1>4. Calm(e) <=> Calm(d)
  <2>1. ASSUME Calm(e), NEW j \in 1 .. Len(d) PROVE ~Ender(d[j])
    <3>1. CASE j = 1
      BY <1>2, <3>1
    <3>2. CASE j # 1
      <4>1. j - 1 \in 1 .. Len(e) /\ d[j] = e[j - 1]
        BY <1>1, <3>2
      <4> QED
        BY <2>1, <4>1 DEF Calm
    <3> QED
      BY <3>1, <3>2
  <2>2. ASSUME Calm(d), NEW j \in 1 .. Len(e) PROVE ~Ender(e[j])
    BY <1>1, <2>2 DEF Calm
  <2> QED
    BY <2>1, <2>2 DEF Calm
<1>5. /\ \A i \in 1 .. Len(e) : i \in OnDown(e) <=> i + 1 \in OnDown(d)
      /\ \A i \in 1 .. Len(e) : i \in Answers(e) <=> i + 1 \in Answers(d)
  BY <1>1, <1>3 DEF OnDown, Answers
<1>6. Effective(d, 1)
  BY <1>2 DEF Effective
<1>7. /\ 1 \in OnDown(d) <=> m.type = "batch"
      /\ 1 \in Answers(d) <=> m.type = "result" /\ m.of = "ack"
  BY <1>1, <1>2, <1>6 DEF OnDown, Answers
<1> QED
  BY <1>1, <1>3, <1>4, <1>5, <1>7 DEF e, m
-----------------------------------------------------------------------------
\* What a command more, or one less, says of the acknowledgements.
LEMMA CommandMore ==
    ASSUME NEW u \in Seq(Command), NEW x \in Command
    PROVE  LET k == Len(u) + 1
               e == Append(u, x)
           IN  /\ e \in Seq(Command)
               /\ Len(u) \in Nat /\ Len(e) = k /\ e[k] = x /\ \A i \in 1 .. Len(u) : e[i] = u[i]
               /\ OnUp(u) \subseteq OnUp(e) /\ OnUp(e) \subseteq OnUp(u) \cup {k}
               /\ k \in OnUp(e) <=> x.type = "ack"
<1> DEFINE k == Len(u) + 1
           e == Append(u, x)
<1>1. /\ e \in Seq(Command) /\ Len(u) \in Nat /\ Len(e) = k /\ e[k] = x
      /\ \A i \in 1 .. Len(u) : e[i] = u[i]
  BY Longer
<1> HIDE DEF e
<1>2. /\ OnUp(u) \subseteq OnUp(e) /\ OnUp(e) \subseteq OnUp(u) \cup {k}
      /\ k \in OnUp(e) <=> x.type = "ack"
  BY <1>1 DEF OnUp
<1> QED
  BY <1>1, <1>2 DEF e

\* What is left of the commands when the first has been taken.
LEMMA CommandLess ==
    ASSUME NEW u \in Seq(Command), u # <<>>
    PROVE  LET e == Tail(u)
           IN  /\ e \in Seq(Command) /\ Len(u) \in Nat \ {0} /\ Len(e) = Len(u) - 1
               /\ Head(u) = u[1] /\ \A i \in 1 .. Len(e) : e[i] = u[i + 1]
               /\ \A i \in 1 .. Len(e) : i \in OnUp(e) <=> i + 1 \in OnUp(u)
               /\ 1 \in OnUp(u) <=> Head(u).type = "ack"
<1> DEFINE e == Tail(u)
           x == Head(u)
<1>1. /\ e \in Seq(Command) /\ Len(u) \in Nat \ {0} /\ Len(e) = Len(u) - 1
      /\ x = u[1] /\ \A i \in 1 .. Len(e) : e[i] = u[i + 1]
  BY Shorter
<1> HIDE DEF e, x
<1>2. \A i \in 1 .. Len(e) : i \in OnUp(e) <=> i + 1 \in OnUp(u)
  BY <1>1 DEF OnUp
<1>3. 1 \in OnUp(u) <=> x.type = "ack"
  BY <1>1 DEF OnUp
<1> QED
  BY <1>1, <1>2, <1>3 DEF e, x

\* What a message more tells that is neither a batch nor an answer to an
\* acknowledgement.
LEMMA MessageElse ==
    ASSUME NEW d \in Seq(Answer), NEW m \in Answer,
           m.type # "batch", m.type = "result" => m.of # "ack"
    PROVE  LET e == Append(d, m)
           IN  /\ Len(d) \in Nat /\ Len(e) = Len(d) + 1
               /\ \A i \in 1 .. Len(d) : i \in 1 .. Len(e) /\ e[i] = d[i]
               /\ Calm(e) <=> Calm(d) /\ ~Ender(m)
               /\ \A i \in 1 .. Len(d) : Effective(e, i) <=> Effective(d, i)
               /\ OnDown(e) = OnDown(d) /\ Answers(e) = Answers(d)
<1> DEFINE k == Len(d) + 1
           e == Append(d, m)
<1>1. /\ Len(d) \in Nat /\ Len(e) = k /\ \A i \in 1 .. Len(d) : e[i] = d[i]
      /\ Calm(e) <=> Calm(d) /\ ~Ender(m)
      /\ \A i \in 1 .. Len(d) : Effective(e, i) <=> Effective(d, i)
      /\ OnDown(d) \subseteq OnDown(e) /\ OnDown(e) \subseteq OnDown(d) \cup {k}
      /\ k \notin OnDown(e)
      /\ Answers(d) \subseteq Answers(e) /\ Answers(e) \subseteq Answers(d) \cup {k}
      /\ k \notin Answers(e)
  BY MessageMore
<1> HIDE DEF e
<1>2. OnDown(e) = OnDown(d) /\ Answers(e) = Answers(d)
  BY <1>1
<1> QED
  BY <1>1, <1>2 DEF e

-----------------------------------------------------------------------------
(***************************************************************************)
(* What the worker does to a conversation.  It takes a command that is no  *)
(* acknowledgement from the port.                                          *)
(***************************************************************************)
LEMMA TalkCommand ==
    ASSUME NEW h \in Client, NEW u \in Seq(Command), NEW c \in Seq(Received), NEW a \in BOOLEAN,
           NEW g \in Nat, NEW n \in Nat, NEW b \in BOOLEAN, NEW q \in Int,
           Talk(h, u, c, a, g, n, b, q), u # <<>>, Head(u).type # "ack"
    PROVE  Talk(h, Tail(u), c, a, g, n, b, q)
<1> DEFINE e == Tail(u)
           x == Head(u)
<1>1. /\ e \in Seq(Command) /\ Len(u) \in Nat \ {0} /\ Len(e) = Len(u) - 1
      /\ x = u[1] /\ \A i \in 1 .. Len(e) : e[i] = u[i + 1]
      /\ \A i \in 1 .. Len(e) : i \in OnUp(e) <=> i + 1 \in OnUp(u)
      /\ 1 \notin OnUp(u)
  BY CommandLess
<1> HIDE DEF e, x
<1>2. OnUp(u) \subseteq 1 .. Len(u) /\ OnUp(e) \subseteq 1 .. Len(e)
  BY DEF OnUp
<1>3. \A i \in OnUp(e) : i \in 1 .. Len(e) /\ i + 1 \in OnUp(u) /\ e[i] = u[i + 1]
  BY <1>1, <1>2
<1>4. \A i \in OnUp(u) : i - 1 \in OnUp(e) /\ e[i - 1] = u[i]
  <2> SUFFICES ASSUME NEW i \in OnUp(u)
               PROVE  i - 1 \in OnUp(e) /\ e[i - 1] = u[i]
    OBVIOUS
  <2>1. i \in 1 .. Len(u) /\ i # 1
    BY <1>1, <1>2
  <2>2. i - 1 \in 1 .. Len(e) /\ (i - 1) + 1 = i
    BY <1>1, <2>1
  <2> QED
    BY <1>1, <2>2
<1>5. OneBatch(h, e, c, a, g)
  BY <1>3, <1>4 DEF Talk, OneBatch, AtMostOne
<1>6. Agreed(h, e, c, a, g)
  BY <1>3 DEF Talk, Agreed
<1>7. Awaited(h, e, c, a, g)
  BY <1>4 DEF Talk, Awaited
<1>8. NoneSkipped(h, e, c, a, g, n, b, q)
  BY <1>3 DEF Talk, NoneSkipped
<1>9. Asked(h, e, c, n, b)
  <2> SUFFICES ASSUME NEW i \in 1 .. Len(e)
               PROVE  /\ e[i].type \notin {"detach", "close"}
                      /\ e[i].type # "attach"
                      /\ e[i].type = "reattach" => e[i].after <= n /\ (e[i].after = 0 => b)
    BY DEF Asked
  <2>1. i + 1 \in 1 .. Len(u) /\ i + 1 # 1 /\ e[i] = u[i + 1]
    BY <1>1
  <2>2. Asked(h, u, c, n, b)
    BY DEF Talk
  <2> QED
    BY <2>1, <2>2 DEF Asked
<1> QED
  BY <1>5, <1>6, <1>7, <1>8, <1>9 DEF Talk, e

\* It says that the lease is over, whatever it does to the subscription.
LEMMA TalkEnds ==
    ASSUME NEW h \in Client, NEW u \in Seq(Command), NEW c \in Seq(Received), NEW a \in BOOLEAN,
           NEW g \in Nat, NEW n \in Nat, NEW b \in BOOLEAN, NEW q \in Int, NEW r \in Int,
           NEW m \in Answer, NEW e,
           Talk(h, u, c, a, g, n, b, q), h.attached,
           Ender(m), m.type # "batch", m.type = "result" => m.of # "ack",
           e.down = Append(h.down, m),
           e.attached /\ e.inflight # <<>> => e.inflight = h.inflight /\ e.batch = h.batch
    PROVE  Talk(e, u, c, a, g, n, b, r)
<1>1. h.down \in Seq(Answer)
  BY DEF Client
<1> DEFINE d == h.down
           f == e.down
           k == Len(d) + 1
<1>2. /\ Len(d) \in Nat /\ Len(f) = k
      /\ \A i \in 1 .. Len(d) : i \in 1 .. Len(f) /\ f[i] = d[i]
      /\ ~Calm(f)
      /\ \A i \in 1 .. Len(d) : Effective(f, i) <=> Effective(d, i)
      /\ OnDown(f) = OnDown(d) /\ Answers(f) = Answers(d)
  BY <1>1, MessageElse
<1>3. OnDown(d) \subseteq 1 .. Len(d) /\ Answers(d) \subseteq 1 .. Len(d)
  BY DEF OnDown, Answers
<1>4. OneBatch(e, u, c, a, g)
  BY <1>2 DEF Talk, OneBatch
<1>5. Agreed(e, u, c, a, g)
  BY <1>2 DEF Agreed
<1>6. Awaited(e, u, c, a, g)
  <2> SUFFICES ASSUME e.attached, e.inflight # <<>>
               PROVE  Awaited(e, u, c, a, g)
    BY DEF Awaited
  <2>1. h.attached /\ e.inflight = h.inflight /\ e.batch = h.batch
    OBVIOUS
  <2>2. \A id, last : Matches(h, id, last) => Matches(e, id, last)
    BY <2>1 DEF Matches
  <2>3. \A i \in 1 .. Len(d) : i \in 1 .. Len(f) /\ f[i] = d[i]
    BY <1>2
  <2>4. CASE \E i \in 1 .. Len(d) : d[i].type = "batch" /\ Matches(h, d[i].id, LastOf(d[i]))
    BY <2>2, <2>3, <2>4 DEF Awaited
  <2> QED
    BY <2>1, <2>2, <2>4 DEF Talk, Awaited
<1>7. Refused(e)
  BY <1>2, <1>3 DEF Talk, Refused
<1>8. NoneSkipped(e, u, c, a, g, n, b, r)
  BY <1>2, <1>3 DEF Talk, NoneSkipped
<1>9. Asked(e, u, c, n, b)
  BY DEF Talk, Asked
<1> QED
  BY <1>4, <1>5, <1>6, <1>7, <1>8, <1>9 DEF Talk

\* It says something else that is no batch: an attach that has succeeded.
LEMMA TalkTold ==
    ASSUME NEW h \in Client, NEW u \in Seq(Command), NEW c \in Seq(Received), NEW a \in BOOLEAN,
           NEW g \in Nat, NEW n \in Nat, NEW b \in BOOLEAN, NEW q \in Int,
           NEW m \in Answer, NEW e \in Client,
           Talk(h, u, c, a, g, n, b, q), h.attached,
           ~Ender(m), m.type # "batch", m.type = "result" => m.of # "ack",
           e.down = Append(h.down, m), e.status = h.status, e.attached,
           e.inflight = h.inflight, e.batch = h.batch, e.pending = h.pending,
           e.lagged = h.lagged
    PROVE  Talk(e, u, c, a, g, n, b, q)
<1>1. h.down \in Seq(Answer)
  BY DEF Client
<1> DEFINE d == h.down
           f == e.down
           k == Len(d) + 1
<1>2. /\ Len(d) \in Nat /\ Len(f) = k
      /\ \A i \in 1 .. Len(d) : i \in 1 .. Len(f) /\ f[i] = d[i]
      /\ Calm(f) <=> Calm(d)
      /\ \A i \in 1 .. Len(d) : Effective(f, i) <=> Effective(d, i)
      /\ OnDown(f) = OnDown(d) /\ Answers(f) = Answers(d)
  BY <1>1, MessageElse
<1>3. OnDown(d) \subseteq 1 .. Len(d) /\ Answers(d) \subseteq 1 .. Len(d)
  BY DEF OnDown, Answers
<1>a. \A id, last : Matches(h, id, last) <=> Matches(e, id, last)
  BY DEF Matches
<1>b. \A i \in 1 .. Len(d) : i \in 1 .. Len(f) /\ f[i] = d[i]
  BY <1>2
<1> HIDE DEF k
<1>4. OneBatch(e, u, c, a, g)
  BY <1>2 DEF Talk, OneBatch
<1>5. Agreed(e, u, c, a, g)
  BY <1>2, <1>3, <1>a, <1>b DEF Talk, Agreed
<1>6. Awaited(e, u, c, a, g)
  BY <1>a, <1>b DEF Talk, Awaited
<1>7. Refused(e)
  BY <1>2, <1>3, <1>b DEF Talk, Refused
<1>8. NoneSkipped(e, u, c, a, g, n, b, q)
  BY <1>2, <1>3, <1>b DEF Talk, NoneSkipped
<1>9. Asked(e, u, c, n, b)
  BY DEF Talk, Asked
<1> QED
  BY <1>4, <1>5, <1>6, <1>7, <1>8, <1>9 DEF Talk
\* It changes nothing the conversation depends on: the position of the source
\* and what is queued count only as long as no batch is in flight.
LEMMA TalkSame ==
    ASSUME NEW h \in Client, NEW u \in Seq(Command), NEW c \in Seq(Received), NEW a \in BOOLEAN,
           NEW g \in Nat, NEW n \in Nat, NEW b \in BOOLEAN, NEW q \in Int, NEW r \in Int,
           NEW e \in Client,
           Talk(h, u, c, a, g, n, b, q),
           e.down = h.down, e.status = h.status, e.attached = h.attached,
           e.inflight = h.inflight, e.batch = h.batch, e.lagged = h.lagged,
           e.attached /\ e.inflight = <<>> => r - Len(e.pending) = q - Len(h.pending)
    PROVE  Talk(e, u, c, a, g, n, b, r)
<1>1. \A id, last : Matches(h, id, last) <=> Matches(e, id, last)
  BY DEF Matches
<1>2. OneBatch(e, u, c, a, g)
  BY DEF Talk, OneBatch
<1>3. Agreed(e, u, c, a, g)
  BY <1>1 DEF Talk, Agreed
<1>4. Awaited(e, u, c, a, g)
  BY <1>1 DEF Talk, Awaited
<1>5. Refused(e)
  BY DEF Talk, Refused
<1>6. NoneSkipped(e, u, c, a, g, n, b, r)
  <2>1. NoneSkipped(h, u, c, a, g, n, b, q)
    BY DEF Talk
  <2>2. CASE e.attached /\ e.inflight = <<>>
    <3>1. r - Len(e.pending) = q - Len(h.pending)
      BY <2>2
    <3> QED
      BY <2>1, <2>2, <3>1 DEF NoneSkipped
  <2>3. CASE ~(e.attached /\ e.inflight = <<>>)
    BY <2>1, <2>3 DEF NoneSkipped
  <2> QED
    BY <2>2, <2>3
<1>7. Asked(e, u, c, n, b)
  BY DEF Talk, Asked
<1> QED
  BY <1>2, <1>3, <1>4, <1>5, <1>6, <1>7 DEF Talk

\* It is gone: the worker is lost or has swept the client.
LEMMA TalkGone ==
    ASSUME NEW h \in Client, NEW u \in Seq(Command), NEW c \in Seq(Received), NEW a \in BOOLEAN,
           NEW g \in Nat, NEW n \in Nat, NEW b \in BOOLEAN, NEW q \in Int, NEW r \in Int,
           NEW e \in Client,
           Talk(h, u, c, a, g, n, b, q),
           e.down = h.down, e.status # "open", ~e.attached, ~e.lagged
    PROVE  Talk(e, <<>>, c, a, g, n, b, r)
<1>1. OnUp(<<>>) = {}
  BY DEF OnUp
<1>2. OneBatch(e, <<>>, c, a, g)
  BY <1>1 DEF Talk, OneBatch, AtMostOne
<1>3. Agreed(e, <<>>, c, a, g) /\ Awaited(e, <<>>, c, a, g)
  BY DEF Agreed, Awaited
<1>5. Refused(e)
  BY DEF Talk, Refused
<1>6. NoneSkipped(e, <<>>, c, a, g, n, b, r)
  BY <1>1 DEF Talk, NoneSkipped
<1>7. Asked(e, <<>>, c, n, b)
  BY DEF Asked
<1> QED
  BY <1>2, <1>3, <1>5, <1>6, <1>7 DEF Talk

\* It sends a batch, when none is in flight.
LEMMA TalkSends ==
    ASSUME NEW h \in Client, NEW u \in Seq(Command), NEW c \in Seq(Received), NEW a \in BOOLEAN,
           NEW g \in Nat, NEW n \in Nat, NEW b \in BOOLEAN, NEW q \in Int, NEW e \in Client,
           Talk(h, u, c, a, g, n, b, q),
           h.attached, h.status = "open", h.inflight = <<>>, ~h.lagged,
           e.status = h.status, e.attached, ~e.lagged, e.inflight # <<>>,
           e.down = Append(h.down, Batch(e.batch, e.inflight)),
           q - Len(h.pending) = e.inflight[Len(e.inflight)] - Len(e.inflight),
           RunTo(e.inflight, e.inflight[Len(e.inflight)])
    PROVE  Talk(e, u, c, a, g, n, b, q)
<1> DEFINE d == h.down
           f == e.down
           items == e.inflight
           m == Batch(e.batch, items)
           k == Len(d) + 1
<1>1. /\ d \in Seq(Answer) /\ items \in Seq(Nat) /\ m \in Answer
      /\ m.type = "batch" /\ m.id = e.batch /\ m.items = items
      /\ ~Ender(m) /\ LastOf(m) = items[Len(items)]
  BY DEF Client, Answer, Batch, Ender, LastOf
<1> HIDE DEF m
<1>2. /\ Len(d) \in Nat /\ Len(f) = k /\ f[k] = m
      /\ \A i \in 1 .. Len(d) : f[i] = d[i]
      /\ Calm(f) <=> Calm(d)
      /\ \A i \in 1 .. Len(d) : Effective(f, i) <=> Effective(d, i)
      /\ Effective(f, k) <=> Calm(d)
      /\ OnDown(d) \subseteq OnDown(f) /\ OnDown(f) \subseteq OnDown(d) \cup {k}
      /\ k \in OnDown(f) <=> Calm(d)
      /\ Answers(d) \subseteq Answers(f) /\ Answers(f) \subseteq Answers(d) \cup {k}
      /\ k \notin Answers(f)
  <2>1. f = Append(d, m)
    BY DEF m
  <2>2. d \in Seq(Answer) /\ m \in Answer
    BY <1>1
  <2> HIDE DEF d, f
  <2>3. /\ Len(d) \in Nat /\ Len(f) = k /\ f[k] = m
        /\ \A i \in 1 .. Len(d) : f[i] = d[i]
        /\ Calm(f) <=> Calm(d) /\ ~Ender(m)
        /\ \A i \in 1 .. Len(d) : Effective(f, i) <=> Effective(d, i)
        /\ Effective(f, k) <=> Calm(d) /\ ~Ender(m)
        /\ OnDown(d) \subseteq OnDown(f) /\ OnDown(f) \subseteq OnDown(d) \cup {k}
        /\ k \in OnDown(f) <=> m.type = "batch" /\ Calm(d) /\ ~Ender(m)
        /\ Answers(d) \subseteq Answers(f) /\ Answers(f) \subseteq Answers(d) \cup {k}
        /\ k \in Answers(f) <=> m.type = "result" /\ m.of = "ack"
    BY ONLY <2>1, <2>2, MessageMore
  <2> QED
    BY <1>1, <2>3
<1>3. OnDown(d) \subseteq 1 .. Len(d) /\ Answers(d) \subseteq 1 .. Len(d)
  BY DEF OnDown, Answers
<1>4. Answers(f) = Answers(d)
  BY <1>2
<1>5. Matches(e, f[k].id, LastOf(f[k])) /\ f[k].type = "batch" /\ k \in 1 .. Len(f)
  BY <1>1, <1>2 DEF Matches
<1>6. ASSUME Calm(d)
      PROVE  OneBatch(e, u, c, a, g) /\ Agreed(e, u, c, a, g) /\ NoneSkipped(e, u, c, a, g, n, b, q)
  <2>1. OnDown(d) = {} /\ OnChain(c, a, g) = {} /\ OnUp(u) = {}
    <3>1. \A id, last : ~Matches(h, id, last)
      BY DEF Matches
    <3> QED
      BY <1>6, <3>1 DEF Talk, Agreed
  <2>2. OnDown(f) = {k}
    BY <1>2, <1>6, <2>1
  <2>3. OneBatch(e, u, c, a, g)
    BY <1>4, <2>1, <2>2 DEF Talk, OneBatch, AtMostOne
  <2>4. Agreed(e, u, c, a, g)
    BY <1>5, <2>1, <2>2 DEF Agreed
  <2>5. Follows(f[k].items, LastOf(f[k]), n, b)
    <3>1. q - Len(h.pending) <= n \/ n = 0 \/ b
      BY <1>6 DEF Talk, NoneSkipped
    <3>2. f[k].items = items /\ LastOf(f[k]) = items[Len(items)]
      BY <1>1, <1>2
    <3> QED
      BY <3>1, <3>2 DEF Follows
  <2>6. NoneSkipped(e, u, c, a, g, n, b, q)
    BY <2>1, <2>2, <2>5 DEF NoneSkipped
  <2> QED
    BY <2>3, <2>4, <2>6
<1>7. ASSUME ~Calm(d)
      PROVE  OneBatch(e, u, c, a, g) /\ Agreed(e, u, c, a, g) /\ NoneSkipped(e, u, c, a, g, n, b, q)
  <2>1. OnDown(f) = OnDown(d)
    BY <1>2, <1>7
  <2>3. OneBatch(e, u, c, a, g)
    BY <1>4, <2>1 DEF Talk, OneBatch
  <2>4. Agreed(e, u, c, a, g)
    BY <1>2, <1>7 DEF Agreed
  <2>6. NoneSkipped(e, u, c, a, g, n, b, q)
    BY <1>2, <1>3, <1>7, <2>1 DEF Talk, NoneSkipped
  <2> QED
    BY <2>3, <2>4, <2>6
<1>8. Awaited(e, u, c, a, g)
  BY <1>5 DEF Awaited
<1>9. Refused(e)
  BY <1>2, <1>3, <1>4 DEF Talk, Refused
<1>10. Asked(e, u, c, n, b)
  BY DEF Talk, Asked
<1> QED
  BY <1>6, <1>7, <1>8, <1>9, <1>10 DEF Talk
\* It takes an acknowledgement.  As long as nothing has ended the lease it is
\* the one for the batch in flight, and nothing else is under way.
AckAlone(h, u, c, a, g, n, b) ==
    /\ a = TRUE /\ OnDown(h.down) = {} /\ OnChain(c, a, g) = {} /\ OnUp(Tail(u)) = {}
    /\ Answers(h.down) = {} /\ OnUp(u) = {1}
    /\ h.status = "open" /\ Calm(h.down) => Matches(h, Head(u).batch, Head(u).after)
    /\ Head(u).after <= n
    /\ Asked(h, Tail(u), c, n, b)
    /\ \A i \in 1 .. Len(Tail(u)) : Tail(u)[i].type # "attach"

\* It takes an acknowledgement, the only one that is under way.
LEMMA TalkAck ==
    ASSUME NEW h \in Client, NEW u \in Seq(Command), NEW c \in Seq(Received), NEW a \in BOOLEAN,
           NEW g \in Nat, NEW n \in Nat, NEW b \in BOOLEAN, NEW q \in Int,
           Talk(h, u, c, a, g, n, b, q), u # <<>>, Head(u).type = "ack", c # <<>>
    PROVE  AckAlone(h, u, c, a, g, n, b)
<1> DEFINE e == Tail(u)
           x == Head(u)
<1>1. /\ e \in Seq(Command) /\ Len(u) \in Nat \ {0} /\ Len(e) = Len(u) - 1
      /\ x = u[1] /\ \A i \in 1 .. Len(e) : e[i] = u[i + 1]
      /\ \A i \in 1 .. Len(e) : i \in OnUp(e) <=> i + 1 \in OnUp(u)
      /\ 1 \in OnUp(u)
  BY CommandLess
<1>2. OnUp(e) \subseteq 1 .. Len(e) /\ OnUp(u) \subseteq 1 .. Len(u)
  BY DEF OnUp
<1> HIDE DEF e, x
<1>3. OneBatch(h, u, c, a, g) /\ Agreed(h, u, c, a, g) /\ NoneSkipped(h, u, c, a, g, n, b, q)
      /\ Asked(h, u, c, n, b)
  BY DEF Talk
<1>4. a = TRUE /\ OnDown(h.down) = {} /\ OnChain(c, a, g) = {} /\ Answers(h.down) = {}
  BY <1>1, <1>3 DEF OneBatch
<1>5. OnUp(u) = {1}
  BY <1>1, <1>3 DEF OneBatch, AtMostOne
<1>6. OnUp(e) = {}
  <2> SUFFICES ASSUME NEW i \in OnUp(e)
               PROVE  FALSE
    OBVIOUS
  <2>1. i \in 1 .. Len(e) /\ i + 1 \in OnUp(u)
    BY <1>1, <1>2
  <2> QED
    BY <1>5, <2>1
<1>7. h.status = "open" /\ Calm(h.down) => Matches(h, x.batch, x.after)
  BY <1>1, <1>3 DEF Agreed
<1>8. x.after <= n
  BY <1>1, <1>3 DEF NoneSkipped
<1>9. \A i \in 1 .. Len(e) : i + 1 \in 1 .. Len(u) /\ e[i] = u[i + 1] /\ e[i].type # "attach"
  <2> SUFFICES ASSUME NEW i \in 1 .. Len(e)
               PROVE  i + 1 \in 1 .. Len(u) /\ e[i] = u[i + 1] /\ e[i].type # "attach"
    OBVIOUS
  <2>1. i + 1 \in 1 .. Len(u) /\ e[i] = u[i + 1] /\ i + 1 # 1
    BY <1>1
  <2> QED
    BY <1>3, <2>1 DEF Asked
<1>10. Asked(h, e, c, n, b)
  BY <1>3, <1>9 DEF Asked
<1> QED
  BY <1>4, <1>5, <1>6, <1>7, <1>8, <1>9, <1>10 DEF e, x, AckAlone

\* The acknowledgement is the one awaited: the worker has nothing in flight.
LEMMA TalkFreed ==
    ASSUME NEW h \in Client, NEW u \in Seq(Command), NEW c \in Seq(Received), NEW a \in BOOLEAN,
           NEW g \in Nat, NEW n \in Nat, NEW b \in BOOLEAN, NEW q \in Int, NEW e \in Client,
           Talk(h, u, c, a, g, n, b, q), u # <<>>, Head(u).type = "ack", c # <<>>,
           h.inflight # <<>>, Head(u).after = h.inflight[Len(h.inflight)], Queued(h, q),
           e.down = h.down, e.status = h.status, e.attached = h.attached,
           e.inflight = <<>>, e.lagged = h.lagged, e.pending = h.pending
    PROVE  Talk(e, Tail(u), c, a, g, n, b, q)
<1>0. AckAlone(h, u, c, a, g, n, b)
  BY TalkAck
<1>1. /\ a = TRUE /\ OnDown(h.down) = {} /\ OnChain(c, a, g) = {} /\ OnUp(Tail(u)) = {}
      /\ Answers(h.down) = {}
      /\ Head(u).after <= n
      /\ \A i \in 1 .. Len(Tail(u)) : Tail(u)[i].type # "attach"
      /\ Asked(h, Tail(u), c, n, b)
  BY <1>0 DEF AckAlone
<1>2. OneBatch(e, Tail(u), c, a, g)
  BY <1>1 DEF OneBatch, AtMostOne
<1>3. Agreed(e, Tail(u), c, a, g) /\ Awaited(e, Tail(u), c, a, g)
  BY <1>1 DEF Agreed, Awaited
<1>4. Refused(e)
  BY DEF Talk, Refused
<1>5. q - Len(e.pending) <= n
  BY <1>1 DEF Queued
<1>6. NoneSkipped(e, Tail(u), c, a, g, n, b, q)
  BY <1>1, <1>5 DEF NoneSkipped
<1>7. Asked(e, Tail(u), c, n, b)
  BY <1>1 DEF Asked
<1> QED
  BY <1>2, <1>3, <1>4, <1>6, <1>7 DEF Talk

\* Another one is refused, and only behind a message that ends the lease.
LEMMA TalkOverdue ==
    ASSUME NEW h \in Client, NEW u \in Seq(Command), NEW c \in Seq(Received), NEW a \in BOOLEAN,
           NEW g \in Nat, NEW n \in Nat, NEW b \in BOOLEAN, NEW q \in Int,
           Talk(h, u, c, a, g, n, b, q), u # <<>>, Head(u).type = "ack", c # <<>>,
           h.status = "open", ~Matches(h, Head(u).batch, Head(u).after)
    PROVE  ~Calm(h.down) /\ Talk(h, Tail(u), c, a, g, n, b, q)
<1>0. AckAlone(h, u, c, a, g, n, b)
  BY TalkAck
<1>1. /\ a = TRUE /\ OnDown(h.down) = {} /\ OnChain(c, a, g) = {} /\ OnUp(Tail(u)) = {}
      /\ Answers(h.down) = {}
      /\ Asked(h, Tail(u), c, n, b)
      /\ OnUp(u) = {1}
      /\ h.status = "open" /\ Calm(h.down) => Matches(h, Head(u).batch, Head(u).after)
  BY <1>0 DEF AckAlone
<1>b. ~Calm(h.down)
  BY <1>1
<1>a. Head(u) = u[1]
  BY CommandLess
<1>2. OneBatch(h, Tail(u), c, a, g)
  BY <1>1 DEF OneBatch, AtMostOne
<1>3. Agreed(h, Tail(u), c, a, g)
  BY <1>b DEF Agreed
<1>4. Awaited(h, Tail(u), c, a, g)
  <2>1. \A i \in OnUp(u) : ~Matches(h, u[i].batch, u[i].after)
    BY ONLY <1>1, <1>a, ~Matches(h, Head(u).batch, Head(u).after)
  <2>2. Awaited(h, u, c, a, g)
    BY DEF Talk
  <2> QED
    BY <2>1, <2>2 DEF Awaited
<1>6. NoneSkipped(h, Tail(u), c, a, g, n, b, q)
  BY <1>1, <1>b DEF NoneSkipped
<1> QED
  BY <1>1, <1>b, <1>2, <1>3, <1>4, <1>6 DEF Talk

\* It answers an acknowledgement.
Answering(e, h, ok) ==
    /\ e.down = Append(h.down, Result("ack", ok)) /\ e.status = h.status
    /\ e.attached = h.attached /\ e.inflight = h.inflight /\ e.batch = h.batch
    /\ e.pending = h.pending /\ e.lagged = h.lagged

Unanswered(h, u, c, a, ok) ==
    /\ a = TRUE /\ OnUp(u) = {} /\ Answers(h.down) = {} /\ c # <<>>
    /\ ok = TRUE \/ ~Calm(h.down)

TakesAnswer(h, u, c, a, g, n, b, q) ==
    \A e \in Client, ok \in BOOLEAN :
        Unanswered(h, u, c, a, ok) /\ Answering(e, h, ok) => Talk(e, u, c, a, g, n, b, q)

\* It answers the acknowledgement it has taken.
LEMMA TalkAnswers ==
    ASSUME NEW h \in Client, NEW u \in Seq(Command), NEW c \in Seq(Received), NEW a \in BOOLEAN,
           NEW g \in Nat, NEW n \in Nat, NEW b \in BOOLEAN, NEW q \in Int,
           Talk(h, u, c, a, g, n, b, q)
    PROVE  TakesAnswer(h, u, c, a, g, n, b, q)
<1> SUFFICES ASSUME NEW e \in Client, NEW ok \in BOOLEAN,
                    Unanswered(h, u, c, a, ok), Answering(e, h, ok)
             PROVE  Talk(e, u, c, a, g, n, b, q)
  BY DEF TakesAnswer
<1>u. a = TRUE /\ OnUp(u) = {} /\ Answers(h.down) = {} /\ c # <<>> /\ (ok \/ ~Calm(h.down))
  BY DEF Unanswered
<1>e. /\ e.down = Append(h.down, Result("ack", ok)) /\ e.status = h.status
      /\ e.attached = h.attached /\ e.inflight = h.inflight /\ e.batch = h.batch
      /\ e.pending = h.pending /\ e.lagged = h.lagged
  BY DEF Answering
<1> DEFINE d == h.down
           f == e.down
           m == Result("ack", ok)
           k == Len(d) + 1
<1>1. d \in Seq(Answer) /\ m \in Answer
  BY DEF Client, Answer, Result
<1>a. m.type = "result" /\ m.of = "ack" /\ m.ok = ok /\ ~Ender(m)
  BY DEF Result, Ender
<1> HIDE DEF m
<1>2. /\ Len(d) \in Nat /\ Len(f) = k /\ f[k] = m
      /\ \A i \in 1 .. Len(d) : i \in 1 .. Len(f) /\ f[i] = d[i]
      /\ Calm(f) <=> Calm(d)
      /\ \A i \in 1 .. Len(d) : Effective(f, i) <=> Effective(d, i)
      /\ Effective(f, k) <=> Calm(d)
      /\ OnDown(d) \subseteq OnDown(f) /\ OnDown(f) \subseteq OnDown(d) \cup {k}
      /\ k \notin OnDown(f)
      /\ Answers(f) \subseteq Answers(d) \cup {k}
  <2>1. f = Append(d, m)
    BY <1>e DEF m
  <2> QED
    BY <1>1, <1>a, <2>1, MessageMore
<1>3. OnDown(d) \subseteq 1 .. Len(d)
  BY DEF OnDown
<1>4. OnDown(f) = OnDown(d) /\ Answers(f) \subseteq {k}
  BY <1>2, <1>u
<1>5. \A id, last : Matches(h, id, last) <=> Matches(e, id, last)
  BY <1>e DEF Matches
<1>6. OneBatch(e, u, c, a, g)
  BY <1>4, <1>u DEF Talk, OneBatch, AtMostOne
<1>7. Agreed(e, u, c, a, g)
  BY <1>2, <1>3, <1>4, <1>5, <1>u, <1>e DEF Talk, Agreed
<1>8. Awaited(e, u, c, a, g)
  <2>1. \A i \in 1 .. Len(d) : i \in 1 .. Len(f) /\ f[i] = d[i]
    BY <1>2
  <2> QED
    BY <1>5, <1>e, <2>1 DEF Talk, Awaited
<1>9. Refused(e)
  BY <1>2, <1>4, <1>a, <1>u, <1>e DEF Talk, Refused
<1>10. NoneSkipped(e, u, c, a, g, n, b, q)
  BY <1>2, <1>3, <1>4, <1>u, <1>e DEF Talk, NoneSkipped
<1>11. Asked(e, u, c, n, b)
  BY <1>u, <1>e DEF Talk, Asked
<1> QED
  BY <1>6, <1>7, <1>8, <1>9, <1>10, <1>11 DEF Talk

\* It subscribes the tab, from a position the tab has seen up to.
LEMMA TalkSubscribed ==
    ASSUME NEW h \in Client, NEW u \in Seq(Command), NEW c \in Seq(Received), NEW a \in BOOLEAN,
           NEW g \in Nat, NEW n \in Nat, NEW b \in BOOLEAN, NEW q \in Int, NEW r \in Int,
           NEW e \in Client,
           Talk(h, u, c, a, g, n, b, q), h.status = "open", ~h.attached,
           u # <<>>, Head(u).type \in {"attach", "reattach"},
           e.down = h.down, e.status = h.status, e.inflight = <<>>, ~e.lagged, e.pending = <<>>,
           r <= n \/ n = 0 \/ b
    PROVE  Talk(e, Tail(u), c, a, g, n, b, r)
<1>1. Talk(h, Tail(u), c, a, g, n, b, q)
  BY TalkCommand
<1>2. \A id, last : ~Matches(h, id, last)
  BY DEF Matches
<1>3. OneBatch(e, Tail(u), c, a, g)
  BY <1>1 DEF Talk, OneBatch
<1>4. Agreed(e, Tail(u), c, a, g)
  BY <1>1, <1>2 DEF Talk, Agreed
<1>5. Awaited(e, Tail(u), c, a, g)
  BY DEF Awaited
<1>6. Refused(e)
  BY DEF Talk, Refused
<1>7. NoneSkipped(e, Tail(u), c, a, g, n, b, r)
  <2>1. r - Len(e.pending) = r
    OBVIOUS
  <2> QED
    BY <1>1, <2>1 DEF Talk, NoneSkipped
<1>8. Asked(e, Tail(u), c, n, b)
  <2> DEFINE f == Tail(u)
  <2>1. /\ Len(u) \in Nat \ {0} /\ Len(f) = Len(u) - 1
        /\ \A i \in 1 .. Len(f) : f[i] = u[i + 1]
    BY CommandLess
  <2> HIDE DEF f
  <2>2. Asked(h, u, c, n, b)
    BY DEF Talk
  <2> SUFFICES ASSUME NEW i \in 1 .. Len(f)
               PROVE  /\ f[i].type \notin {"detach", "close"}
                      /\ f[i].type # "attach"
                      /\ f[i].type = "reattach" => f[i].after <= n /\ (f[i].after = 0 => b)
    BY DEF Asked, f
  <2>3. i + 1 \in 1 .. Len(u) /\ i + 1 # 1 /\ f[i] = u[i + 1]
    BY <2>1
  <2> QED
    BY <2>2, <2>3 DEF Asked
<1> QED
  BY <1>3, <1>4, <1>5, <1>6, <1>7, <1>8 DEF Talk
-----------------------------------------------------------------------------
(***************************************************************************)
(* What the tab does to a conversation.  Nothing has been said yet.        *)
(***************************************************************************)
LEMMA TalkSilent ==
    ASSUME NEW h \in Client, NEW u \in Seq(Command), NEW c \in Seq(Received), NEW a \in BOOLEAN,
           NEW g \in Nat, NEW n \in Nat, NEW b \in BOOLEAN, NEW q \in Int,
           ~h.attached, ~h.lagged, h.down = <<>>, OnUp(u) = {}, OnChain(c, a, g) = {},
           Asked(h, u, c, n, b)
    PROVE  Talk(h, u, c, a, g, n, b, q)
<1>1. OnDown(h.down) = {} /\ Answers(h.down) = {}
  BY DEF OnDown, Answers
<1>2. OneBatch(h, u, c, a, g)
  BY <1>1 DEF OneBatch, AtMostOne
<1>3. Agreed(h, u, c, a, g) /\ Awaited(h, u, c, a, g)
  BY <1>1 DEF Agreed, Awaited
<1>4. Refused(h)
  BY <1>1 DEF Refused
<1>5. NoneSkipped(h, u, c, a, g, n, b, q)
  BY <1>1 DEF NoneSkipped
<1> QED
  BY <1>2, <1>3, <1>4, <1>5 DEF Talk

\* The first message of the worker has been taken, which ends nothing: what
\* is behind it has moved up.
Behind1(d, f) ==
    /\ Calm(f) <=> Calm(d)
    /\ \A i \in OnDown(f) : i + 1 \in OnDown(d) /\ f[i] = d[i + 1]
    /\ \A i \in OnDown(d) \ {1} : i - 1 \in OnDown(f) /\ f[i - 1] = d[i]
    /\ \A i \in Answers(f) : /\ i + 1 \in Answers(d) /\ f[i] = d[i + 1]
                             /\ Effective(f, i) => Effective(d, i + 1)
    /\ \A i \in 1 .. Len(d) \ {1} : i - 1 \in 1 .. Len(f) /\ f[i - 1] = d[i]
    /\ Head(d) = d[1] /\ 1 \in 1 .. Len(d)
    /\ AtMostOne(OnDown(d)) => AtMostOne(OnDown(f))
    /\ AtMostOne(Answers(d)) => AtMostOne(Answers(f))
    /\ OnDown(f) # {} => OnDown(d) # {}
    /\ Answers(f) # {} => Answers(d) # {}

\* Taking a first message that ends nothing moves the others up.
LEMMA MovedUp ==
    ASSUME NEW d \in Seq(Answer), d # <<>>, ~Ender(Head(d))
    PROVE  /\ Behind1(d, Tail(d))
           /\ 1 \in OnDown(d) <=> Head(d).type = "batch"
           /\ 1 \in Answers(d) <=> Head(d).type = "result" /\ Head(d).of = "ack"
<1> DEFINE f == Tail(d)
           m == Head(d)
<1>1. /\ f \in Seq(Answer) /\ Len(d) \in Nat \ {0} /\ Len(f) = Len(d) - 1
      /\ m = d[1] /\ \A i \in 1 .. Len(f) : f[i] = d[i + 1]
      /\ Calm(f) <=> Calm(d)
      /\ \A i \in 1 .. Len(f) : Effective(f, i) <=> Effective(d, i + 1)
      /\ \A i \in 1 .. Len(f) : i \in OnDown(f) <=> i + 1 \in OnDown(d)
      /\ \A i \in 1 .. Len(f) : i \in Answers(f) <=> i + 1 \in Answers(d)
      /\ 1 \in OnDown(d) <=> m.type = "batch"
      /\ 1 \in Answers(d) <=> m.type = "result" /\ m.of = "ack"
  BY MessageLess
<1> HIDE DEF f, m
<1>2. /\ OnDown(d) \subseteq 1 .. Len(d) /\ OnDown(f) \subseteq 1 .. Len(f)
      /\ Answers(d) \subseteq 1 .. Len(d) /\ Answers(f) \subseteq 1 .. Len(f)
  BY DEF OnDown, Answers
<1>3. \A i \in 1 .. Len(d) \ {1} : i - 1 \in 1 .. Len(f) /\ f[i - 1] = d[i] /\ (i - 1) + 1 = i
  <2> SUFFICES ASSUME NEW i \in 1 .. Len(d), i # 1
               PROVE  i - 1 \in 1 .. Len(f) /\ f[i - 1] = d[i] /\ (i - 1) + 1 = i
    OBVIOUS
  <2>1. i - 1 \in 1 .. Len(f) /\ (i - 1) + 1 = i
    BY <1>1
  <2> QED
    BY <1>1, <2>1
<1>4. \A i \in OnDown(f) : i + 1 \in OnDown(d) /\ f[i] = d[i + 1]
  BY <1>1, <1>2
<1>5. \A i \in OnDown(d) \ {1} : i - 1 \in OnDown(f) /\ f[i - 1] = d[i]
  <2> SUFFICES ASSUME NEW i \in OnDown(d), i # 1
               PROVE  i - 1 \in OnDown(f) /\ f[i - 1] = d[i]
    OBVIOUS
  <2>1. i \in 1 .. Len(d) \ {1}
    BY <1>2
  <2>2. i - 1 \in 1 .. Len(f) /\ f[i - 1] = d[i] /\ (i - 1) + 1 = i
    BY <1>3, <2>1
  <2> QED
    BY <1>1, <2>2
<1>6. \A i \in Answers(f) : /\ i + 1 \in Answers(d) /\ f[i] = d[i + 1]
                            /\ Effective(f, i) => Effective(d, i + 1)
  BY <1>1, <1>2
<1>7. /\ OnDown(f) \subseteq Nat /\ Answers(f) \subseteq Nat
      /\ OnDown(d) \subseteq Nat /\ Answers(d) \subseteq Nat
  BY <1>1, <1>2
<1>9. AtMostOne(OnDown(d)) => AtMostOne(OnDown(f))
  <2> SUFFICES ASSUME AtMostOne(OnDown(d)), NEW i \in OnDown(f), NEW j \in OnDown(f)
               PROVE  i = j
    BY DEF AtMostOne
  <2>1. i + 1 = j + 1
    BY <1>4 DEF AtMostOne
  <2> QED
    BY <1>7, <2>1
<1>10. AtMostOne(Answers(d)) => AtMostOne(Answers(f))
  <2> SUFFICES ASSUME AtMostOne(Answers(d)), NEW i \in Answers(f), NEW j \in Answers(f)
               PROVE  i = j
    BY DEF AtMostOne
  <2>1. i + 1 = j + 1
    BY <1>6 DEF AtMostOne
  <2> QED
    BY <1>7, <2>1
<1>11. /\ OnDown(f) # {} => OnDown(d) # {}
       /\ Answers(f) # {} => Answers(d) # {}
  BY <1>4, <1>6
<1>8. Behind1(d, f)
  <2>1. 1 \in 1 .. Len(d)
    BY <1>1
  <2> QED
    BY <1>1, <1>3, <1>4, <1>5, <1>6, <1>9, <1>10, <1>11, <2>1 DEF Behind1, m
<1> QED
  BY <1>1, <1>8 DEF f, m

\* It hears that it has been attached.
LEMMA TalkHeard ==
    ASSUME NEW h \in Client, NEW u \in Seq(Command), NEW c \in Seq(Received), NEW a \in BOOLEAN,
           NEW g \in Nat, NEW n \in Nat, NEW b \in BOOLEAN, NEW q \in Int, NEW e \in Client,
           Talk(h, u, c, a, g, n, b, q),
           h.down # <<>>, ~Ender(Head(h.down)), Head(h.down).type = "result",
           Head(h.down).of # "ack",
           e.down = Tail(h.down), e.status = h.status, e.attached = h.attached,
           e.inflight = h.inflight, e.batch = h.batch, e.pending = h.pending,
           e.lagged = h.lagged
    PROVE  Talk(e, u, c, a, g, n, b, q)
<1> DEFINE d == h.down
           f == e.down
<1>1. Behind1(d, f) /\ 1 \notin OnDown(d) /\ 1 \notin Answers(d)
  <2>1. d \in Seq(Answer)
    BY DEF Client
  <2> QED
    BY <2>1, MovedUp
<1>2. \A id, last : Matches(h, id, last) <=> Matches(e, id, last)
  BY DEF Matches
<1> HIDE DEF d, f
<1>a. h.down = d /\ e.down = f
  BY DEF d, f
<1>b. OneBatch(h, u, c, a, g) /\ Agreed(h, u, c, a, g) /\ Awaited(h, u, c, a, g)
      /\ Refused(h) /\ NoneSkipped(h, u, c, a, g, n, b, q) /\ Asked(h, u, c, n, b)
  BY DEF Talk
<1>3. OneBatch(e, u, c, a, g)
  BY <1>1, <1>a, <1>b DEF OneBatch, Behind1
<1>4. Agreed(e, u, c, a, g)
  BY <1>1, <1>2, <1>a, <1>b DEF Agreed, Behind1
<1>5. Awaited(e, u, c, a, g)
  <2>1. \A i \in 1 .. Len(d) :
           d[i].type = "batch" => \E j \in 1 .. Len(f) : f[j] = d[i]
    <3>1. d[1].type # "batch"
      BY <1>1, <1>a DEF Behind1
    <3> QED
      BY <1>1, <3>1 DEF Behind1
  <2>2. ASSUME NEW i \in 1 .. Len(d), d[i].type = "batch", Matches(h, d[i].id, LastOf(d[i]))
        PROVE  \E j \in 1 .. Len(f) : f[j].type = "batch" /\ Matches(e, f[j].id, LastOf(f[j]))
    BY <1>2, <2>1, <2>2
  <2> QED
    BY <1>2, <1>a, <1>b, <2>2 DEF Awaited
<1>6. Refused(e)
  BY <1>1, <1>a, <1>b DEF Refused, Behind1
<1>7. NoneSkipped(e, u, c, a, g, n, b, q)
  BY <1>1, <1>a, <1>b DEF NoneSkipped, Behind1
<1>8. Asked(e, u, c, n, b)
  BY <1>b DEF Asked
<1> QED
  BY <1>3, <1>4, <1>5, <1>6, <1>7, <1>8 DEF Talk
\* The batches that wait behind the first.
LEMMA ChainLess ==
    ASSUME NEW c \in Seq(Received), c # <<>>, NEW a \in BOOLEAN, NEW g \in Nat,
           a = TRUE \/ Head(c).generation # g
    PROVE  LET e == Tail(c)
           IN  /\ e \in Seq(Received)
               /\ \A i \in OnChain(e, FALSE, g) : i + 1 \in OnChain(c, a, g) /\ e[i] = c[i + 1]
               /\ \A i \in OnChain(c, a, g) : i - 1 \in OnChain(e, FALSE, g) /\ e[i - 1] = c[i]
               /\ AtMostOne(OnChain(c, a, g)) => AtMostOne(OnChain(e, FALSE, g))
               /\ OnChain(e, FALSE, g) # {} => OnChain(c, a, g) # {}
<1> DEFINE e == Tail(c)
           x == Head(c)
<1>1. /\ e \in Seq(Received) /\ Len(c) \in Nat \ {0} /\ Len(e) = Len(c) - 1
      /\ x = c[1] /\ \A i \in 1 .. Len(e) : e[i] = c[i + 1]
  BY Shorter
<1> HIDE DEF e, x
<1>a. a = TRUE \/ c[1].generation # g
  BY <1>1 DEF x
<1>2. \A i \in OnChain(e, FALSE, g) : i \in Nat /\ i + 1 \in OnChain(c, a, g) /\ e[i] = c[i + 1]
  <2> SUFFICES ASSUME NEW i \in OnChain(e, FALSE, g)
               PROVE  i \in Nat /\ i + 1 \in OnChain(c, a, g) /\ e[i] = c[i + 1]
    OBVIOUS
  <2>1. i \in 1 .. Len(e) /\ e[i].generation = g
    BY DEF OnChain
  <2>2. i + 1 \in 1 .. Len(c) /\ i + 1 # 1 /\ i \in Nat /\ e[i] = c[i + 1]
    BY <1>1, <2>1
  <2> QED
    BY <2>1, <2>2 DEF OnChain
<1>3. \A i \in OnChain(c, a, g) : i - 1 \in OnChain(e, FALSE, g) /\ e[i - 1] = c[i]
  <2> SUFFICES ASSUME NEW i \in OnChain(c, a, g)
               PROVE  i - 1 \in OnChain(e, FALSE, g) /\ e[i - 1] = c[i]
    OBVIOUS
  <2>1. i \in 1 .. Len(c) /\ c[i].generation = g /\ i # 1
    BY <1>a DEF OnChain
  <2>2. i - 1 \in 1 .. Len(e) /\ (i - 1) + 1 = i
    BY <1>1, <2>1
  <2>3. e[i - 1] = c[i]
    BY <1>1, <2>2
  <2> QED
    BY <2>1, <2>2, <2>3 DEF OnChain
<1>4. AtMostOne(OnChain(c, a, g)) => AtMostOne(OnChain(e, FALSE, g))
  <2> SUFFICES ASSUME AtMostOne(OnChain(c, a, g)), NEW i \in OnChain(e, FALSE, g),
                      NEW j \in OnChain(e, FALSE, g)
               PROVE  i = j
    BY DEF AtMostOne
  <2>1. i + 1 = j + 1
    BY <1>2 DEF AtMostOne
  <2>2. i \in Nat /\ j \in Nat
    BY <1>2
  <2> QED
    BY ONLY <2>1, <2>2
<1>5. OnChain(e, FALSE, g) # {} => OnChain(c, a, g) # {}
  BY <1>2
<1> QED
  BY <1>1, <1>2, <1>3, <1>4, <1>5 DEF e

\* It hears the answer to its acknowledgement.
Answered(h, u, c, a, g, n, b, q, e, o) ==
    /\ h \in Client /\ u \in Seq(Command) /\ c \in Seq(Received) /\ a \in BOOLEAN /\ g \in Nat
    /\ n \in Nat /\ b \in BOOLEAN /\ q \in Int /\ e \in Client /\ Talk(h, u, c, a, g, n, b, q)
    /\ h.down # <<>> /\ Head(h.down).type = "result" /\ Head(h.down).of = "ack" /\ c # <<>>
    /\ e.down = Tail(h.down) /\ e.status = h.status /\ e.attached = h.attached
    /\ e.inflight = h.inflight /\ e.batch = h.batch /\ e.pending = h.pending
    /\ e.lagged = h.lagged /\ o \in BOOLEAN /\ ~o

\* The answer is the one that was awaited, it is a yes, and the conversation goes on.
LEMMA TalkAnswered ==
    ASSUME NEW h, NEW u, NEW c, NEW a, NEW g, NEW n, NEW b, NEW q, NEW e, NEW o,
           Answered(h, u, c, a, g, n, b, q, e, o)
    PROVE  a /\ Head(h.down).ok /\ Talk(e, u, Tail(c), o, g, n, b, q)
<1> /\ h \in Client /\ u \in Seq(Command) /\ c \in Seq(Received) /\ a \in BOOLEAN /\ g \in Nat
    /\ n \in Nat /\ b \in BOOLEAN /\ q \in Int /\ e \in Client /\ Talk(h, u, c, a, g, n, b, q)
    /\ h.down # <<>> /\ Head(h.down).type = "result" /\ Head(h.down).of = "ack" /\ c # <<>>
    /\ e.down = Tail(h.down) /\ e.status = h.status /\ e.attached = h.attached
    /\ e.inflight = h.inflight /\ e.batch = h.batch /\ e.pending = h.pending
    /\ e.lagged = h.lagged /\ o \in BOOLEAN /\ ~o
  BY DEF Answered
<1> DEFINE d == h.down
           f == e.down
           v == Tail(c)
<1>o. o = FALSE
  OBVIOUS
<1>1. d \in Seq(Answer) /\ ~Ender(Head(d))
  BY DEF Client, Ender
<1>2. Behind1(d, f) /\ 1 \notin OnDown(d) /\ 1 \in Answers(d)
  BY <1>1, MovedUp
<1>3. \A id, last : Matches(h, id, last) <=> Matches(e, id, last)
  BY DEF Matches
<1>4. Effective(d, 1)
  <2>1. ~Ender(d[1])
    BY <1>1, <1>2 DEF Behind1
  <2> QED
    BY <2>1 DEF Effective
<1>5. d[1] = Head(d)
  BY <1>2 DEF Behind1
<1> HIDE DEF d, f
<1>a. h.down = d /\ e.down = f
  BY DEF d, f
<1>b. OneBatch(h, u, c, a, g) /\ Agreed(h, u, c, a, g) /\ Awaited(h, u, c, a, g)
      /\ Refused(h) /\ NoneSkipped(h, u, c, a, g, n, b, q) /\ Asked(h, u, c, n, b)
  BY DEF Talk
<1>6. a = TRUE /\ OnUp(u) = {}
  <2>1. a /\ OnUp(u) = {}
    BY <1>2, <1>a, <1>b DEF OneBatch
  <2> QED
    BY <2>1
<1>7. Head(d).ok
  BY <1>2, <1>4, <1>5, <1>a, <1>b DEF Refused
<1>8. Answers(f) = {}
  <2> SUFFICES ASSUME NEW i \in Answers(f)
               PROVE  FALSE
    OBVIOUS
  <2>1. i + 1 \in Answers(d)
    BY <1>2 DEF Behind1
  <2>2. i + 1 = 1
    BY <1>2, <1>a, <1>b, <2>1 DEF OneBatch, AtMostOne
  <2>3. i \in 1 .. Len(f)
    BY DEF Answers
  <2> QED
    BY <2>2, <2>3
<1>9. /\ \A i \in OnChain(v, FALSE, g) : i + 1 \in OnChain(c, a, g) /\ v[i] = c[i + 1]
      /\ \A i \in OnChain(c, a, g) : i - 1 \in OnChain(v, FALSE, g) /\ v[i - 1] = c[i]
      /\ AtMostOne(OnChain(c, a, g)) => AtMostOne(OnChain(v, FALSE, g))
      /\ OnChain(v, FALSE, g) # {} => OnChain(c, a, g) # {}
  BY <1>6, ChainLess
<1> HIDE DEF v
<1>10. OneBatch(e, u, v, FALSE, g)
  BY <1>2, <1>6, <1>8, <1>9, <1>a, <1>b DEF OneBatch, Behind1
<1>11. Agreed(e, u, v, FALSE, g)
  BY <1>2, <1>3, <1>9, <1>a, <1>b DEF Agreed, Behind1
<1>12. Awaited(e, u, v, FALSE, g)
  <2>1. \A i \in 1 .. Len(d) :
           d[i].type = "batch" => \E j \in 1 .. Len(f) : f[j] = d[i]
    <3>1. d[1].type # "batch"
      BY <1>5, <1>a
    <3> QED
      BY <1>2, <3>1 DEF Behind1
  <2>2. ASSUME NEW i \in 1 .. Len(d), d[i].type = "batch", Matches(h, d[i].id, LastOf(d[i]))
        PROVE  \E j \in 1 .. Len(f) : f[j].type = "batch" /\ Matches(e, f[j].id, LastOf(f[j]))
    BY <1>3, <2>1, <2>2
  <2>3. ASSUME NEW i \in OnChain(c, a, g), Matches(h, c[i].id, c[i].last)
        PROVE  \E j \in OnChain(v, FALSE, g) : Matches(e, v[j].id, v[j].last)
    BY <1>3, <1>9, <2>3
  <2> QED
    BY <1>3, <1>a, <1>b, <2>2, <2>3 DEF Awaited
<1>13. Refused(e)
  BY <1>2, <1>8, <1>a, <1>b DEF Refused, Behind1
<1>14. NoneSkipped(e, u, v, FALSE, g, n, b, q)
  <2>1. \A i \in OnDown(f) : Follows(f[i].items, LastOf(f[i]), n, b)
    BY <1>2, <1>a, <1>b DEF NoneSkipped, Behind1
  <2>2. \A i \in OnChain(v, FALSE, g) : Follows(v[i].items, v[i].last, n, b)
    BY <1>9, <1>b DEF NoneSkipped
  <2>3. \A i \in OnUp(u) : u[i].after <= n
    BY <1>b DEF NoneSkipped
  <2>4. Calm(f) /\ e.attached /\ e.inflight = <<>> => q - Len(e.pending) <= n \/ n = 0 \/ b
    BY <1>2, <1>a, <1>b DEF NoneSkipped, Behind1
  <2> QED
    BY <1>a, <2>1, <2>2, <2>3, <2>4 DEF NoneSkipped
<1>15. Asked(e, u, v, n, b)
  BY <1>b DEF Asked
<1> QED
  BY <1>6, <1>7, <1>10, <1>11, <1>12, <1>13, <1>14, <1>15, <1>o DEF Talk, d, v

\* It drops a batch of another port.
LEMMA TalkDropped ==
    ASSUME NEW h \in Client, NEW u \in Seq(Command), NEW c \in Seq(Received), NEW a \in BOOLEAN,
           NEW g \in Nat, NEW n \in Nat, NEW b \in BOOLEAN, NEW q \in Int,
           ~a, Talk(h, u, c, a, g, n, b, q), c # <<>>, Head(c).generation # g
    PROVE  Talk(h, u, Tail(c), a, g, n, b, q)
<1> DEFINE v == Tail(c)
<1>a. a = FALSE
  OBVIOUS
<1>1. /\ \A i \in OnChain(v, FALSE, g) : i + 1 \in OnChain(c, FALSE, g) /\ v[i] = c[i + 1]
      /\ \A i \in OnChain(c, FALSE, g) : i - 1 \in OnChain(v, FALSE, g) /\ v[i - 1] = c[i]
      /\ AtMostOne(OnChain(c, FALSE, g)) => AtMostOne(OnChain(v, FALSE, g))
      /\ OnChain(v, FALSE, g) # {} => OnChain(c, FALSE, g) # {}
  BY ChainLess
<1> HIDE DEF v
<1>b. OneBatch(h, u, c, FALSE, g) /\ Agreed(h, u, c, FALSE, g) /\ Awaited(h, u, c, FALSE, g)
      /\ Refused(h) /\ NoneSkipped(h, u, c, FALSE, g, n, b, q) /\ Asked(h, u, c, n, b)
  BY <1>a DEF Talk
<1>2. OneBatch(h, u, v, FALSE, g)
  BY <1>1, <1>b DEF OneBatch
<1>3. Agreed(h, u, v, FALSE, g)
  BY <1>1, <1>b DEF Agreed
<1>4. Awaited(h, u, v, FALSE, g)
  <2>1. ASSUME NEW i \in OnChain(c, FALSE, g), Matches(h, c[i].id, c[i].last)
        PROVE  \E j \in OnChain(v, FALSE, g) : Matches(h, v[j].id, v[j].last)
    BY <1>1, <2>1
  <2> QED
    BY <1>b, <2>1 DEF Awaited
<1>5. NoneSkipped(h, u, v, FALSE, g, n, b, q)
  BY <1>1, <1>b DEF NoneSkipped
<1>6. Asked(h, u, v, n, b)
  BY <1>b DEF Asked
<1> QED
  BY <1>b, <1>2, <1>3, <1>4, <1>5, <1>6, <1>a DEF Talk, v
\* It receives a batch.
Arrives(h, u, c, a, g, n, b, q, e, x) ==
    /\ h \in Client /\ u \in Seq(Command) /\ c \in Seq(Received) /\ a \in BOOLEAN /\ g \in Nat
    /\ n \in Nat /\ b \in BOOLEAN /\ q \in Int /\ e \in Client /\ x \in Received
    /\ Talk(h, u, c, a, g, n, b, q) /\ h.down # <<>> /\ Head(h.down).type = "batch"
    /\ (a => c # <<>>) /\ e.down = Tail(h.down) /\ e.status = h.status
    /\ e.attached = h.attached /\ e.inflight = h.inflight /\ e.batch = h.batch
    /\ e.pending = h.pending /\ e.lagged = h.lagged /\ x.generation = g
    /\ x.id = Head(h.down).id /\ x.items = Head(h.down).items /\ x.last = LastOf(Head(h.down))

\* The batch that was on its way waits in the chain now.
LEMMA TalkReceived ==
    ASSUME NEW h, NEW u, NEW c, NEW a, NEW g, NEW n, NEW b, NEW q, NEW e, NEW x,
           Arrives(h, u, c, a, g, n, b, q, e, x)
    PROVE  Talk(e, u, Append(c, x), a, g, n, b, q)
<1> /\ h \in Client /\ u \in Seq(Command) /\ c \in Seq(Received) /\ a \in BOOLEAN /\ g \in Nat
    /\ n \in Nat /\ b \in BOOLEAN /\ q \in Int /\ e \in Client /\ x \in Received
    /\ Talk(h, u, c, a, g, n, b, q) /\ h.down # <<>> /\ Head(h.down).type = "batch"
    /\ (a => c # <<>>) /\ e.down = Tail(h.down) /\ e.status = h.status
    /\ e.attached = h.attached /\ e.inflight = h.inflight /\ e.batch = h.batch
    /\ e.pending = h.pending /\ e.lagged = h.lagged /\ x.generation = g
    /\ x.id = Head(h.down).id /\ x.items = Head(h.down).items /\ x.last = LastOf(Head(h.down))
  BY DEF Arrives
<1> DEFINE d == h.down
           f == e.down
           v == Append(c, x)
           k == Len(c) + 1
<1>1. d \in Seq(Answer) /\ ~Ender(Head(d))
  BY DEF Client, Ender
<1>2. Behind1(d, f) /\ 1 \in OnDown(d) /\ 1 \notin Answers(d)
  BY <1>1, MovedUp
<1>3. \A id, last : Matches(h, id, last) <=> Matches(e, id, last)
  BY DEF Matches
<1>4. d[1] = Head(d)
  BY <1>2 DEF Behind1
<1>5. /\ Len(c) \in Nat /\ Len(v) = k /\ v[k] = x
      /\ \A i \in 1 .. Len(c) : v[i] = c[i]
  BY Longer
<1>6. a => k # 1
  BY EmptySeq
<1> HIDE DEF d, f, v
<1>a. h.down = d /\ e.down = f
  BY DEF d, f
<1>b. OneBatch(h, u, c, a, g) /\ Agreed(h, u, c, a, g) /\ Awaited(h, u, c, a, g)
      /\ Refused(h) /\ NoneSkipped(h, u, c, a, g, n, b, q) /\ Asked(h, u, c, n, b)
  BY DEF Talk
<1>7. OnUp(u) = {} /\ OnChain(c, a, g) = {}
  BY <1>2, <1>a, <1>b DEF OneBatch
<1>8. OnDown(f) = {}
  <2> SUFFICES ASSUME NEW i \in OnDown(f)
               PROVE  FALSE
    OBVIOUS
  <2>1. i + 1 \in OnDown(d)
    BY <1>2 DEF Behind1
  <2>2. i + 1 = 1
    BY <1>2, <1>a, <1>b, <2>1 DEF OneBatch, AtMostOne
  <2>3. i \in 1 .. Len(f)
    BY DEF OnDown
  <2> QED
    BY <2>2, <2>3
<1>9. OnChain(v, a, g) = {k}
  <2>1. k \in OnChain(v, a, g)
    BY <1>5, <1>6 DEF OnChain
  <2>2. ASSUME NEW i \in OnChain(v, a, g), i # k PROVE FALSE
    <3>1. i \in 1 .. Len(c) /\ v[i] = c[i]
      BY <1>5, <2>2 DEF OnChain
    <3>2. i \in OnChain(c, a, g)
      BY <3>1, <2>2 DEF OnChain
    <3> QED
      BY <1>7, <3>2
  <2> QED
    BY <2>1, <2>2
<1>10. OneBatch(e, u, v, a, g)
  <2>1. Answers(f) # {} => Answers(d) # {}
    BY <1>2 DEF Behind1
  <2>2. AtMostOne(Answers(f)) /\ AtMostOne(OnDown(f)) /\ AtMostOne(OnChain(v, a, g))
    BY <1>2, <1>8, <1>9, <1>a, <1>b DEF OneBatch, Behind1, AtMostOne
  <2> QED
    BY <1>7, <1>8, <1>a, <1>b, <2>1, <2>2 DEF OneBatch
<1>11. Agreed(e, u, v, a, g)
  <2> SUFFICES ASSUME h.status = "open", Calm(d)
               PROVE  Matches(h, x.id, x.last)
    BY <1>2, <1>3, <1>5, <1>7, <1>8, <1>9, <1>a DEF Agreed, Behind1
  <2> QED
    BY <1>2, <1>4, <1>a, <1>b DEF Agreed
<1>12. Awaited(e, u, v, a, g)
  <2>1. ASSUME NEW i \in 1 .. Len(d), d[i].type = "batch", Matches(h, d[i].id, LastOf(d[i]))
        PROVE  \/ \E j \in 1 .. Len(f) : f[j].type = "batch" /\ Matches(e, f[j].id, LastOf(f[j]))
               \/ \E j \in OnChain(v, a, g) : Matches(e, v[j].id, v[j].last)
    <3>1. CASE i = 1
      <4>1. Matches(e, x.id, x.last)
        BY <1>3, <1>4, <1>a, <2>1, <3>1
      <4> QED
        BY <1>5, <1>9, <4>1
    <3>2. CASE i # 1
      <4>1. i - 1 \in 1 .. Len(f) /\ f[i - 1] = d[i]
        BY <1>2, <3>2 DEF Behind1
      <4> QED
        BY <1>3, <2>1, <4>1
    <3> QED
      BY <3>1, <3>2
  <2> QED
    BY <1>3, <1>7, <1>a, <1>b, <2>1 DEF Awaited
<1>13. Refused(e)
  BY <1>2, <1>a, <1>b DEF Refused, Behind1
<1>14. NoneSkipped(e, u, v, a, g, n, b, q)
  <2>1. Follows(x.items, x.last, n, b)
    BY <1>2, <1>4, <1>a, <1>b DEF NoneSkipped
  <2> QED
    BY <1>2, <1>5, <1>7, <1>8, <1>9, <1>a, <1>b, <2>1 DEF NoneSkipped, Behind1
<1>15. Asked(e, u, v, n, b)
  BY <1>b DEF Asked
<1> QED
  BY <1>10, <1>11, <1>12, <1>13, <1>14, <1>15 DEF Talk, d, v

\* Its handler accepts the first item of the batch.
Accepted(h, u, c, a, g, n, b, q, v, m) ==
    /\ h \in Client /\ u \in Seq(Command) /\ c \in Seq(Received) /\ a \in BOOLEAN /\ g \in Nat
    /\ n \in Nat /\ b \in BOOLEAN /\ q \in Int /\ v \in Seq(Received) /\ m \in Nat /\ ~a
    /\ Talk(h, u, c, a, g, n, b, q) /\ (h.attached => h.status = "open") /\ c # <<>>
    /\ c[1].generation = g /\ c[1].items # <<>> /\ Len(v) = Len(c)
    /\ (\A i \in 1 .. Len(c) : i # 1 => v[i] = c[i]) /\ v[1].generation = g /\ v[1].id = c[1].id
    /\ v[1].last = c[1].last /\ v[1].items = Tail(c[1].items)
    /\ (m = IF Head(c[1].items) > n THEN Head(c[1].items) ELSE n)

\* What is accepted follows on what was, unless the lease was blind.
LEMMA TalkAccepted ==
    ASSUME NEW h, NEW u, NEW c, NEW a, NEW g, NEW n, NEW b, NEW q, NEW v, NEW m,
           Accepted(h, u, c, a, g, n, b, q, v, m)
    PROVE  /\ Talk(h, u, v, a, g, m, b, q)
           /\ n > 0 /\ Head(c[1].items) > n + 1 => b
<1> /\ h \in Client /\ u \in Seq(Command) /\ c \in Seq(Received) /\ a \in BOOLEAN /\ g \in Nat
    /\ n \in Nat /\ b \in BOOLEAN /\ q \in Int /\ v \in Seq(Received) /\ m \in Nat /\ ~a
    /\ Talk(h, u, c, a, g, n, b, q) /\ (h.attached => h.status = "open") /\ c # <<>>
    /\ c[1].generation = g /\ c[1].items # <<>> /\ Len(v) = Len(c)
    /\ (\A i \in 1 .. Len(c) : i # 1 => v[i] = c[i]) /\ v[1].generation = g /\ v[1].id = c[1].id
    /\ v[1].last = c[1].last /\ v[1].items = Tail(c[1].items)
    /\ (m = IF Head(c[1].items) > n THEN Head(c[1].items) ELSE n)
  BY DEF Accepted
<1>a. a = FALSE
  OBVIOUS
<1>1. Len(c) \in Nat \ {0} /\ c[1] \in Received
  BY EmptySeq, Shorter
<1> DEFINE items == c[1].items
           last == c[1].last
<1>2. items \in Seq(Nat) /\ last \in Nat
  BY <1>1 DEF Received
<1>3. OnChain(v, FALSE, g) = OnChain(c, FALSE, g) /\ 1 \in OnChain(c, FALSE, g)
  BY <1>1 DEF OnChain
<1>b. OneBatch(h, u, c, FALSE, g) /\ Agreed(h, u, c, FALSE, g) /\ Awaited(h, u, c, FALSE, g)
      /\ Refused(h) /\ NoneSkipped(h, u, c, FALSE, g, n, b, q) /\ Asked(h, u, c, n, b)
  BY <1>a DEF Talk
<1>4. OnChain(c, FALSE, g) = {1} /\ OnUp(u) = {} /\ OnDown(h.down) = {}
  BY <1>3, <1>b DEF OneBatch, AtMostOne
<1>5. Follows(items, last, n, b)
  BY <1>3, <1>b DEF NoneSkipped
<1>6. /\ Len(items) \in Nat \ {0} /\ Len(Tail(items)) = Len(items) - 1
      /\ Head(items) = items[1] /\ Head(items) \in Nat
      /\ \A i \in 1 .. Len(items) - 1 : Tail(items)[i] = items[i + 1]
  BY <1>2, Shorter
<1> DEFINE rest == Tail(items)
           s == Head(items)
<1> HIDE DEF items, last, rest, s
<1>7. s = last - Len(items) + 1
  BY <1>2, <1>5, <1>6 DEF Follows, RunTo, s, rest
<1>8. n > 0 /\ s > n + 1 => b
  BY <1>2, <1>5, <1>6, <1>7 DEF Follows
<1>9. Follows(rest, last, m, b)
  <2>1. RunTo(rest, last)
    <3> SUFFICES ASSUME NEW i \in 1 .. Len(rest)
                 PROVE  rest[i] = last - Len(rest) + i
      BY DEF RunTo
    <3>1. i + 1 \in 1 .. Len(items) /\ rest[i] = items[i + 1] /\ Len(rest) = Len(items) - 1
      BY <1>6 DEF rest
    <3>2. items[i + 1] = last - Len(items) + (i + 1)
      BY <1>5, <3>1 DEF Follows, RunTo
    <3> QED
      BY <1>2, <1>6, <3>1, <3>2
  <2>2. last - Len(rest) <= m
    <3>1. Len(rest) = Len(items) - 1 /\ m = IF s > n THEN s ELSE n
      BY <1>6 DEF rest, s, items
    <3>2. s \in Nat /\ Len(items) \in Nat
      BY <1>6 DEF s
    <3> QED
      BY <1>2, <1>7, <3>1, <3>2
  <2> QED
    BY <2>1, <2>2 DEF Follows
<1>10. n <= m
  BY <1>6 DEF items, s
<1>11. OneBatch(h, u, v, FALSE, g)
  BY <1>3, <1>b DEF OneBatch
<1>12. Agreed(h, u, v, FALSE, g)
  BY <1>3, <1>4, <1>b DEF Agreed
<1>13. Awaited(h, u, v, FALSE, g)
  BY <1>3, <1>4, <1>b DEF Awaited
<1>14. NoneSkipped(h, u, v, FALSE, g, m, b, q)
  <2>1. Calm(h.down) /\ h.attached /\ h.inflight = <<>> => h.status # "open"
    BY <1>4, <1>b DEF Agreed, Matches
  <2> QED
    BY <1>3, <1>4, <1>9, <2>1 DEF NoneSkipped, items, last, rest
<1>15. Asked(h, u, v, m, b)
  <2>1. ASSUME NEW i \in 1 .. Len(u), u[i].type = "attach" PROVE FALSE
    BY <1>b, <2>1 DEF Asked
  <2>2. ASSUME NEW i \in 1 .. Len(u), u[i].type = "reattach"
        PROVE  u[i].after <= m /\ (u[i].after = 0 => b)
    <3>1. u[i] \in Command
      BY <2>2, ElementOfSeq
    <3>2. u[i].after \in Nat
      BY <2>2, <3>1 DEF Command
    <3> QED
      BY <1>10, <1>b, <2>2, <3>2 DEF Asked
  <2> QED
    BY <1>b, <2>1, <2>2 DEF Asked
<1> QED
  BY <1>8, <1>b, <1>11, <1>12, <1>13, <1>14, <1>15, <1>a DEF Talk, items, s
\* It acknowledges the batch: unless the port is dead, the worker will hear.
Acknowledged(h, u, c, a, g, n, b, q, v, x, o) ==
    /\ h \in Client /\ u \in Seq(Command) /\ c \in Seq(Received) /\ a \in BOOLEAN /\ g \in Nat
    /\ n \in Nat /\ b \in BOOLEAN /\ q \in Int /\ v \in Seq(Command) /\ x \in Command /\ ~a
    /\ Talk(h, u, c, a, g, n, b, q) /\ (h.attached => h.status = "open") /\ c # <<>>
    /\ c[1].generation = g /\ c[1].items = <<>> /\ x.type = "ack" /\ x.batch = c[1].id
    /\ x.after = c[1].last /\ (v = IF h.status = "open" THEN Append(u, x) ELSE u)
    /\ o \in BOOLEAN /\ o

\* The acknowledgement names the batch in flight and what has been accepted.
LEMMA TalkAcknowledged ==
    ASSUME NEW h, NEW u, NEW c, NEW a, NEW g, NEW n, NEW b, NEW q, NEW v, NEW x, NEW o,
           Acknowledged(h, u, c, a, g, n, b, q, v, x, o)
    PROVE  /\ Talk(h, v, c, o, g, n, b, q)
           /\ c[1].last <= n
<1> /\ h \in Client /\ u \in Seq(Command) /\ c \in Seq(Received) /\ a \in BOOLEAN /\ g \in Nat
    /\ n \in Nat /\ b \in BOOLEAN /\ q \in Int /\ v \in Seq(Command) /\ x \in Command /\ ~a
    /\ Talk(h, u, c, a, g, n, b, q) /\ (h.attached => h.status = "open") /\ c # <<>>
    /\ c[1].generation = g /\ c[1].items = <<>> /\ x.type = "ack" /\ x.batch = c[1].id
    /\ x.after = c[1].last /\ (v = IF h.status = "open" THEN Append(u, x) ELSE u)
    /\ o \in BOOLEAN /\ o
  BY DEF Acknowledged
<1>a. a = FALSE /\ o = TRUE
  OBVIOUS
<1>1. Len(c) \in Nat \ {0} /\ c[1] \in Received
  BY EmptySeq, Shorter
<1>3. 1 \in OnChain(c, FALSE, g)
  BY <1>1 DEF OnChain
<1>b. OneBatch(h, u, c, FALSE, g) /\ Agreed(h, u, c, FALSE, g) /\ Awaited(h, u, c, FALSE, g)
      /\ Refused(h) /\ NoneSkipped(h, u, c, FALSE, g, n, b, q) /\ Asked(h, u, c, n, b)
  BY <1>a DEF Talk
<1>4. OnChain(c, FALSE, g) = {1} /\ OnUp(u) = {} /\ OnDown(h.down) = {}
  BY <1>3, <1>b DEF OneBatch, AtMostOne
<1>5. Answers(h.down) = {}
  BY <1>b DEF OneBatch
<1>6. OnChain(c, TRUE, g) = {}
  <2> SUFFICES ASSUME NEW i \in OnChain(c, TRUE, g)
               PROVE  FALSE
    OBVIOUS
  <2>1. i \in OnChain(c, FALSE, g) /\ i # 1
    BY DEF OnChain
  <2> QED
    BY <1>4, <2>1
<1>7. c[1].last <= n
  <2>1. Follows(c[1].items, c[1].last, n, b)
    BY <1>3, <1>b DEF NoneSkipped
  <2>2. Len(c[1].items) = 0 /\ c[1].last \in Nat
    BY <1>1 DEF Received
  <2> QED
    BY <2>1, <2>2 DEF Follows
<1>8. CASE h.status # "open"
  <2>1. v = u /\ ~h.attached
    BY <1>8
  <2>2. OneBatch(h, u, c, TRUE, g)
    BY <1>4, <1>5, <1>6, <1>b DEF OneBatch, AtMostOne
  <2>3. Agreed(h, u, c, TRUE, g) /\ Awaited(h, u, c, TRUE, g)
    BY <1>8, <2>1 DEF Agreed, Awaited
  <2>4. NoneSkipped(h, u, c, TRUE, g, n, b, q)
    BY <1>4, <1>6, <2>1 DEF NoneSkipped
  <2> QED
    BY <1>b, <1>7, <2>1, <2>2, <2>3, <2>4, <1>a DEF Talk
<1>9. CASE h.status = "open"
  <2> DEFINE k == Len(u) + 1
  <2>1. /\ Len(u) \in Nat /\ Len(v) = k /\ v[k] = x
        /\ \A i \in 1 .. Len(u) : v[i] = u[i]
        /\ OnUp(v) \subseteq OnUp(u) \cup {k} /\ k \in OnUp(v)
    BY <1>9, CommandMore
  <2>2. OnUp(v) = {k}
    BY <1>4, <2>1
  <2> HIDE DEF k
  <2>3. OneBatch(h, v, c, TRUE, g)
    BY <1>4, <1>5, <1>6, <2>2 DEF OneBatch, AtMostOne
  <2>4. Agreed(h, v, c, TRUE, g)
    BY <1>3, <1>4, <1>6, <1>b, <2>1, <2>2 DEF Agreed
  <2>5. Awaited(h, v, c, TRUE, g)
    <3>1. ASSUME NEW i \in OnChain(c, FALSE, g), Matches(h, c[i].id, c[i].last)
          PROVE  \E j \in OnUp(v) : Matches(h, v[j].batch, v[j].after)
      BY <1>4, <2>1, <2>2, <3>1
    <3> QED
      BY <1>4, <1>b, <3>1 DEF Awaited
  <2>6. NoneSkipped(h, v, c, TRUE, g, n, b, q)
    BY <1>4, <1>6, <1>7, <1>b, <2>1, <2>2 DEF NoneSkipped
  <2>7. Asked(h, v, c, n, b)
    <3>1. \A i \in 1 .. Len(v) : i \in 1 .. Len(u) \/ i = k
      BY <2>1 DEF k
    <3>2. ASSUME NEW i \in 1 .. Len(v)
          PROVE  /\ v[i].type \notin {"detach", "close"}
                 /\ v[i].type = "attach" =>
                        i = 1 /\ ~h.attached /\ h.down = <<>> /\ c = <<>> /\ n = 0
                 /\ v[i].type = "reattach" => v[i].after <= n /\ (v[i].after = 0 => b)
      <4>1. CASE i = k
        BY <2>1, <4>1
      <4>2. CASE i \in 1 .. Len(u)
        <5>1. v[i] = u[i]
          BY <2>1, <4>2
        <5> QED
          BY <1>b, <4>2, <5>1 DEF Asked
      <4> QED
        BY <3>1, <4>1, <4>2
    <3> QED
      BY <3>2 DEF Asked
  <2> QED
    BY <1>b, <1>7, <2>3, <2>4, <2>5, <2>6, <2>7, <1>a DEF Talk
<1> QED
  BY <1>8, <1>9

\* The batches a lease has received still follow on one another when the first
\* is done or dropped.
LEMMA ResumesLess ==
    ASSUME NEW c \in Seq(Received), c # <<>>, NEW a \in BOOLEAN, NEW g \in Nat, NEW n, NEW b,
           a = TRUE \/ Head(c).generation # g, Resumes(c, a, g, n, b)
    PROVE  Resumes(Tail(c), FALSE, g, n, b)
<1>1. /\ \A i \in OnChain(Tail(c), FALSE, g) : i + 1 \in OnChain(c, a, g) /\ Tail(c)[i] = c[i + 1]
      /\ AtMostOne(OnChain(Tail(c), FALSE, g))
  BY ChainLess DEF Resumes
<1> QED
  BY <1>1 DEF Resumes

\* Its handler accepts an item.
LEMMA ResumesAccepted ==
    ASSUME NEW c \in Seq(Received), c # <<>>, NEW g \in Nat, NEW n \in Nat, NEW b \in BOOLEAN,
           Resumes(c, FALSE, g, n, b), NEW v \in Seq(Received), NEW m \in Nat,
           c[1].generation = g, c[1].items # <<>>, Len(v) = Len(c),
           \A i \in 1 .. Len(c) : i # 1 => v[i] = c[i], v[1].generation = g,
           v[1].last = c[1].last, v[1].items = Tail(c[1].items),
           m = IF Head(c[1].items) > n THEN Head(c[1].items) ELSE n
    PROVE  /\ Resumes(v, FALSE, g, m, b)
           /\ n > 0 /\ Head(c[1].items) > n + 1 => b
<1>1. Len(c) \in Nat \ {0} /\ c[1] \in Received
  BY EmptySeq, Shorter
<1> DEFINE items == c[1].items
           last == c[1].last
<1>2. items \in Seq(Nat) /\ last \in Nat
  BY <1>1 DEF Received
<1>3. OnChain(v, FALSE, g) = OnChain(c, FALSE, g) /\ 1 \in OnChain(c, FALSE, g)
  BY <1>1 DEF OnChain
<1>4. OnChain(v, FALSE, g) = {1}
  BY <1>3 DEF Resumes, AtMostOne
<1>5. Follows(items, last, n, b)
  BY <1>3 DEF Resumes
<1>6. /\ Len(items) \in Nat \ {0} /\ Len(Tail(items)) = Len(items) - 1
      /\ Head(items) = items[1] /\ Head(items) \in Nat
      /\ \A i \in 1 .. Len(items) - 1 : Tail(items)[i] = items[i + 1]
  BY <1>2, Shorter
<1> DEFINE rest == Tail(items)
           s == Head(items)
<1>m. m = IF s > n THEN s ELSE n
  OBVIOUS
<1>r. v[1].items = rest /\ v[1].last = last
  OBVIOUS
<1> HIDE DEF items, last, rest, s
<1>7. s = last - Len(items) + 1
  BY <1>2, <1>5, <1>6 DEF Follows, RunTo, s, rest
<1>8. n > 0 /\ s > n + 1 => b
  BY <1>2, <1>5, <1>6, <1>7 DEF Follows
<1>9. Follows(rest, last, m, b)
  <2>1. RunTo(rest, last)
    <3> SUFFICES ASSUME NEW i \in 1 .. Len(rest)
                 PROVE  rest[i] = last - Len(rest) + i
      BY DEF RunTo
    <3>1. i + 1 \in 1 .. Len(items) /\ rest[i] = items[i + 1] /\ Len(rest) = Len(items) - 1
      BY <1>6 DEF rest
    <3>2. items[i + 1] = last - Len(items) + (i + 1)
      BY <1>5, <3>1 DEF Follows, RunTo
    <3> QED
      BY <1>2, <1>6, <3>1, <3>2
  <2>2. last - Len(rest) <= m
    <3>1. Len(rest) = Len(items) - 1 /\ s \in Nat /\ Len(items) \in Nat
      BY <1>6 DEF rest, s
    <3> QED
      BY <1>2, <1>7, <1>m, <3>1
  <2> QED
    BY <2>1, <2>2 DEF Follows
<1>10. Resumes(v, FALSE, g, m, b)
  BY <1>4, <1>9, <1>r DEF Resumes, AtMostOne
<1> QED
  BY <1>8, <1>10 DEF s, items

\* The first batch is done: it is behind what the handler has seen.
LEMMA ResumesAcknowledged ==
    ASSUME NEW c \in Seq(Received), c # <<>>, NEW g \in Nat, NEW n \in Nat, NEW b,
           Resumes(c, FALSE, g, n, b), c[1].generation = g, c[1].items = <<>>
    PROVE  c[1].last <= n /\ Resumes(c, TRUE, g, n, b)
<1>1. Len(c) \in Nat \ {0} /\ c[1] \in Received
  BY EmptySeq, Shorter
<1>2. 1 \in OnChain(c, FALSE, g) /\ OnChain(c, TRUE, g) \subseteq OnChain(c, FALSE, g)
  BY <1>1 DEF OnChain
<1>3. c[1].last <= n
  <2>1. Follows(c[1].items, c[1].last, n, b)
    BY <1>2 DEF Resumes
  <2>2. Len(c[1].items) = 0 /\ c[1].last \in Nat
    BY <1>1 DEF Received
  <2> QED
    BY <2>1, <2>2 DEF Follows
<1>4. Resumes(c, TRUE, g, n, b)
  BY <1>2 DEF Resumes, AtMostOne
<1> QED
  BY <1>3, <1>4

\* It asks for a restart, or to be attached again after what it has accepted.
LEMMA TalkAsks ==
    ASSUME NEW h \in Client, NEW u \in Seq(Command), NEW c \in Seq(Received), NEW a \in BOOLEAN,
           NEW g \in Nat, NEW n \in Nat, NEW b \in BOOLEAN, NEW q \in Int,
           NEW x \in Command, NEW w \in BOOLEAN,
           Talk(h, u, c, a, g, n, b, q), b => w,
           x.type \in {"restart", "reattach"},
           x.type = "reattach" => x.after <= n /\ (x.after = 0 => w)
    PROVE  Talk(h, u, c, a, g, n, w, q) /\ Talk(h, Append(u, x), c, a, g, n, w, q)
<1> DEFINE k == Len(u) + 1
           v == Append(u, x)
<1>1. /\ Len(u) \in Nat /\ Len(v) = k /\ v[k] = x
      /\ \A i \in 1 .. Len(u) : i \in 1 .. Len(v) /\ v[i] = u[i]
      /\ OnUp(u) \subseteq OnUp(v) /\ OnUp(v) \subseteq OnUp(u) \cup {k} /\ k \notin OnUp(v)
  BY CommandMore
<1>2. OnUp(v) = OnUp(u)
  BY <1>1
<1> HIDE DEF k, v
<1>a. OnUp(u) \subseteq 1 .. Len(u)
  BY DEF OnUp
<1>b. OneBatch(h, u, c, a, g) /\ Agreed(h, u, c, a, g) /\ Awaited(h, u, c, a, g)
      /\ Refused(h) /\ NoneSkipped(h, u, c, a, g, n, b, q) /\ Asked(h, u, c, n, b)
  BY DEF Talk
<1>3. \A items, last : Follows(items, last, n, b) => Follows(items, last, n, w)
  BY DEF Follows
<1>4. NoneSkipped(h, u, c, a, g, n, w, q)
  BY <1>3, <1>b DEF NoneSkipped
<1>5. Asked(h, u, c, n, w)
  BY <1>b DEF Asked
<1>6. OneBatch(h, v, c, a, g)
  BY <1>2, <1>b DEF OneBatch
<1>7. Agreed(h, v, c, a, g)
  BY <1>1, <1>2, <1>a, <1>b DEF Agreed
<1>8. Awaited(h, v, c, a, g)
  <2>1. \A i \in OnUp(u) : i \in OnUp(v) /\ v[i] = u[i]
    BY <1>1, <1>2, <1>a
  <2> QED
    BY <1>b, <2>1 DEF Awaited
<1>9. NoneSkipped(h, v, c, a, g, n, w, q)
  BY <1>1, <1>2, <1>4, <1>a DEF NoneSkipped
<1>10. Asked(h, v, c, n, w)
  <2>1. \A i \in 1 .. Len(v) : i \in 1 .. Len(u) \/ i = k
    BY <1>1 DEF k
  <2>2. ASSUME NEW i \in 1 .. Len(v)
        PROVE  /\ v[i].type \notin {"detach", "close"}
               /\ v[i].type = "attach" =>
                      i = 1 /\ ~h.attached /\ h.down = <<>> /\ c = <<>> /\ n = 0
               /\ v[i].type = "reattach" => v[i].after <= n /\ (v[i].after = 0 => w)
    <3>1. CASE i = k
      BY <1>1, <3>1
    <3>2. CASE i \in 1 .. Len(u)
      <4>1. v[i] = u[i]
        BY <1>1, <3>2
      <4> QED
        BY <1>5, <3>2, <4>1 DEF Asked
    <3> QED
      BY <2>1, <3>1, <3>2
  <2> QED
    BY <2>2 DEF Asked
<1> QED
  BY <1>b, <1>4, <1>5, <1>6, <1>7, <1>8, <1>9, <1>10 DEF Talk, v
\* Behind a message that ends the lease the position does not count any more.
LEMMA TalkOver ==
    ASSUME NEW h \in Client, NEW u \in Seq(Command), NEW c \in Seq(Received), NEW a \in BOOLEAN,
           NEW g \in Nat, NEW n \in Nat, NEW b \in BOOLEAN, NEW q \in Int, NEW r \in Int,
           Talk(h, u, c, a, g, n, b, q), h.lagged
    PROVE  Talk(h, u, c, a, g, n, b, r)
<1>1. ~Calm(h.down)
  BY DEF Talk, Refused
<1> QED
  BY <1>1 DEF Talk, NoneSkipped

-----------------------------------------------------------------------------
(***************************************************************************)
(* The operations of the worker on a subscription.                         *)
(***************************************************************************)
SameButDown(e, h) ==
    /\ e.status = h.status /\ e.attached = h.attached /\ e.pending = h.pending
    /\ e.inflight = h.inflight /\ e.batch = h.batch /\ e.cursor = h.cursor
    /\ e.lagged = h.lagged /\ e.waiting = h.waiting

\* post() adds its message for a tab that listens, and does nothing else.
LEMMA PostTells ==
    ASSUME NEW h \in Client, NEW m \in Answer, NEW p
    PROVE  /\ Post(h, p, m) \in Client /\ SameButDown(Post(h, p, m), h)
           /\ Listening(p) => Post(h, p, m).down = Append(h.down, m)
           /\ ~Listening(p) => Post(h, p, m) = h
<1>1. h.down \in Seq(Answer)
  BY DEF Client
<1>2. Append(h.down, m) \in Seq(Answer)
  BY <1>1, Longer
<1> DEFINE d == Append(h.down, m)
<1> HIDE DEF d
<1>3. /\ [h EXCEPT !.down = d] \in Client /\ SameButDown([h EXCEPT !.down = d], h)
      /\ [h EXCEPT !.down = d].down = d
  BY <1>2 DEF Client, SameButDown, d
<1>4. SameButDown(h, h)
  BY DEF SameButDown
<1>5. CASE Listening(p)
  <2>1. Post(h, p, m) = [h EXCEPT !.down = d]
    BY <1>5 DEF Post, d
  <2> QED
    BY <1>3, <1>5, <2>1 DEF d
<1>6. CASE ~Listening(p)
  <2>1. Post(h, p, m) = h
    BY <1>6 DEF Post
  <2> QED
    BY <1>4, <1>6, <2>1
<1> QED
  BY <1>5, <1>6

\* What a call that hands something on leaves of the client.
Kept(e, h, position) ==
    /\ e \in Client /\ ClientSound(e, position)
    /\ e.attached /\ e.status = "open" /\ e.waiting = h.waiting

\* What cannot be replayed ends the lease.
LEMMA RequireResumeKeeps ==
    ASSUME NEW h \in Client, NEW u \in Seq(Command), NEW c \in Seq(Received), NEW a \in BOOLEAN,
           NEW g \in Nat, NEW n \in Nat, NEW b \in BOOLEAN, NEW q \in Int, NEW r \in Int,
           NEW p, h.attached, h.status = "open",
           NEW e, e = RequireResume(h, p)
    PROVE  /\ Kept(e, h, r)
           /\ Listening(p) /\ Talk(h, u, c, a, g, n, b, q) => Talk(e, u, c, a, g, n, b, r)
<1> DEFINE k == [h EXCEPT !.lagged = TRUE, !.pending = <<>>, !.inflight = <<>>]
           m == State("resume-required")
<1>1. <<>> \in Seq(Nat) /\ Len(<<>>) = 0
  OBVIOUS
<1>2. /\ k \in Client /\ k.lagged /\ k.pending = <<>> /\ k.inflight = <<>> /\ k.attached
      /\ k.status = "open" /\ k.waiting = h.waiting /\ k.down = h.down
  BY <1>1 DEF Client
<1>3. m \in Answer /\ Ender(m) /\ m.type = "state"
  BY DEF Answer, State, Ender
<1>4. e = Post(k, p, m)
  BY DEF RequireResume
<1> HIDE DEF k, m
<1>5. /\ e \in Client /\ SameButDown(e, k)
      /\ Listening(p) => e.down = Append(h.down, m)
  BY <1>2, <1>3, <1>4, PostTells
<1>6. ClientSound(e, r)
  BY <1>1, <1>2, <1>5 DEF ClientSound, Queued, RunTo, SameButDown
<1>7. ASSUME Listening(p), Talk(h, u, c, a, g, n, b, q)
      PROVE  Talk(e, u, c, a, g, n, b, r)
  <2>1. e.down = Append(h.down, m) /\ e.inflight = <<>>
    BY <1>2, <1>5, <1>7 DEF SameButDown
  <2> QED
    BY <1>3, <1>7, <2>1, TalkEnds
<1> QED
  BY <1>2, <1>5, <1>6, <1>7 DEF SameButDown, Kept

\* The first k of a sequence, and the others.
Sliced(s, k, items, rest) ==
    /\ items \in Seq(Nat) /\ Len(items) = k /\ items # <<>>
    /\ \A i \in 1 .. k : items[i] = s[i]
    /\ rest \in Seq(Nat) /\ Len(rest) = Len(s) - k
    /\ \A i \in 1 .. Len(s) - k : rest[i] = s[k + i]
    /\ k = Len(s) => items = s /\ rest = <<>>

\* The first items of a queue are cut from it, and the rest follows on them.
LEMMA Slices ==
    ASSUME NEW s \in Seq(Nat), NEW k \in 1 .. Len(s)
    PROVE  Sliced(s, k, SubSeq(s, 1, k), SubSeq(s, k + 1, Len(s)))
<1> DEFINE items == SubSeq(s, 1, k)
           rest == SubSeq(s, k + 1, Len(s))
<1>1. \A i \in 1 .. Len(s) : s[i] \in Nat
  BY ElementOfSeq
<1>2. Len(s) \in Nat /\ k \in Nat \ {0} /\ k <= Len(s)
  BY LenProperties
<1>3. /\ items \in Seq(Nat) /\ Len(items) = k
      /\ \A i \in 1 .. k : items[i] = s[i]
  BY <1>1, <1>2, SubSeqProperties
<1>4. \A i \in k + 1 .. Len(s) : s[i] \in Nat
  BY <1>1, <1>2
<1>5. /\ rest \in Seq(Nat)
      /\ Len(rest) = IF k + 1 <= Len(s) THEN Len(s) - (k + 1) + 1 ELSE 0
      /\ \A i \in 1 .. Len(s) - (k + 1) + 1 : rest[i] = s[(k + 1) + i - 1]
  BY <1>2, <1>4, SubSeqProperties
<1> HIDE DEF items, rest
<1>6. \A i \in 1 .. Len(s) - k : rest[i] = s[k + i]
  <2> SUFFICES ASSUME NEW i \in 1 .. Len(s) - k
               PROVE  rest[i] = s[k + i]
    OBVIOUS
  <2>1. i \in 1 .. Len(s) - (k + 1) + 1 /\ (k + 1) + i - 1 = k + i
    BY <1>2
  <2> QED
    BY <1>5, <2>1
<1>7. Len(rest) = Len(s) - k
  BY <1>2, <1>5
<1>8. items # <<>>
  BY <1>2, <1>3
<1>9. ASSUME k = Len(s) PROVE items = s /\ rest = <<>>
  <2>1. items = s
    BY <1>3, <1>9, SeqEqual
  <2>2. Len(rest) = 0
    BY <1>2, <1>7, <1>9
  <2> QED
    BY <1>5, <2>1, <2>2, EmptySeq
<1> QED
  BY <1>3, <1>5, <1>6, <1>7, <1>8, <1>9 DEF items, rest, Sliced

Sending(f, h, rest, items, id) ==
    /\ f \in Client /\ f.pending = rest /\ f.inflight = items /\ f.batch = id
    /\ f.down = h.down /\ f.status = h.status /\ f.attached = h.attached
    /\ f.lagged = h.lagged /\ f.waiting = h.waiting /\ f.cursor = h.cursor

\* What flush() takes out of the queue.
LEMMA ClientSends ==
    ASSUME NEW h \in Client, NEW rest \in Seq(Nat), NEW items \in Seq(Nat), NEW id \in Nat,
           NEW f, f = [h EXCEPT !.pending = rest, !.inflight = items, !.batch = id]
    PROVE  Sending(f, h, rest, items, id)
BY DEF Client, Sending

\* A batch of what is queued.
LEMMA FlushSends ==
    ASSUME NEW h \in Client, NEW q \in Int,
           NEW e \in Client, NEW k \in Nat, k \in 1 .. Len(h.pending),
           h.attached, h.status = "open", Queued(h, q), ~h.lagged, h.inflight = <<>>,
           Sliced(h.pending, k, e.inflight, e.pending),
           e.attached, e.status = "open", ~e.lagged
    PROVE  /\ e.waiting = h.waiting => ClientSound(e, q)
           /\ q - Len(h.pending) = e.inflight[Len(e.inflight)] - Len(e.inflight)
           /\ RunTo(e.inflight, e.inflight[Len(e.inflight)])
           /\ e.inflight # <<>>
<1> DEFINE s == h.pending
           items == e.inflight
           rest == e.pending
<1>1. s \in Seq(Nat)
  BY DEF Client
<1>2. /\ items \in Seq(Nat) /\ Len(items) = k /\ items # <<>>
      /\ \A i \in 1 .. k : items[i] = s[i]
      /\ rest \in Seq(Nat) /\ Len(rest) = Len(s) - k
      /\ \A i \in 1 .. Len(s) - k : rest[i] = s[k + i]
  BY DEF Sliced
<1>3. Len(s) \in Nat /\ k \in Nat \ {0} /\ k <= Len(s)
  BY <1>1, LenProperties
<1>4. \A i \in 1 .. Len(s) : s[i] = q - Len(s) + i
  BY DEF Queued, RunTo
<1> HIDE DEF s, items, rest
<1>a. \A i \in 1 .. k : items[i] = q - Len(s) + i
  <2> SUFFICES ASSUME NEW i \in 1 .. k
               PROVE  items[i] = q - Len(s) + i
    OBVIOUS
  <2>1. i \in 1 .. Len(s) /\ items[i] = s[i]
    BY <1>2, <1>3
  <2> QED
    BY <1>4, <2>1
<1>b. Len(rest) = Len(s) - k
  BY <1>2
<1>5. items[k] = q - Len(rest)
  <2>1. items[k] = q - Len(s) + k
    BY <1>3, <1>a
  <2> QED
    BY <1>3, <1>b, <2>1
<1>6. RunTo(rest, q)
  <2> SUFFICES ASSUME NEW i \in 1 .. Len(rest)
               PROVE  rest[i] = q - Len(rest) + i
    BY DEF RunTo
  <2>1. k + i \in 1 .. Len(s) /\ rest[i] = s[k + i]
    BY <1>2, <1>3
  <2>2. rest[i] = q - Len(s) + (k + i)
    BY <1>4, <2>1
  <2> QED
    BY <1>3, <1>b, <2>2
<1>7. Queued(e, q)
  <2>1. e.inflight[Len(e.inflight)] = q - Len(e.pending)
    BY <1>2, <1>5 DEF items, rest
  <2> QED
    BY <1>6, <2>1 DEF Queued, rest
<1>8. ClientSound(e, q)
  BY <1>2, <1>7 DEF ClientSound, items
<1>9. RunTo(items, items[k])
  <2> SUFFICES ASSUME NEW i \in 1 .. k
               PROVE  items[i] = items[k] - k + i
    BY <1>2 DEF RunTo
  <2>1. items[i] = q - Len(s) + i /\ items[k] = q - Len(s) + k
    BY <1>3, <1>a
  <2> QED
    BY <1>3, <2>1
<1>10. q - Len(s) = items[k] - k
  BY <1>3, <1>b, <1>5
<1>11. /\ q - Len(h.pending) = e.inflight[Len(e.inflight)] - Len(e.inflight)
       /\ RunTo(e.inflight, e.inflight[Len(e.inflight)])
       /\ e.inflight # <<>>
  BY <1>2, <1>9, <1>10 DEF items, s
<1> QED
  BY <1>8, <1>11

\* flush() keeps a subscription sound and its conversation going.
LEMMA FlushKeeps ==
    ASSUME NEW h \in Client, NEW u \in Seq(Command), NEW c \in Seq(Received), NEW a \in BOOLEAN,
           NEW g \in Nat, NEW n \in Nat, NEW b \in BOOLEAN, NEW q \in Int,
           NEW p, h.attached, h.status = "open", Queued(h, q),
           h.lagged => h.pending = <<>> /\ h.inflight = <<>>,
           NEW e, e = Flush(h, p)
    PROVE  /\ Kept(e, h, q)
           /\ e.lagged = h.lagged
           /\ Listening(p) /\ Talk(h, u, c, a, g, n, b, q) => Talk(e, u, c, a, g, n, b, q)
           /\ ~h.lagged /\ h.inflight = <<>> /\ Len(h.pending) = 1 =>
                  e.inflight = h.pending /\ e.pending = <<>>
<1> DEFINE s == h.pending
<1>1. s \in Seq(Nat) /\ h.batch \in Nat /\ MaxBatch \in Nat \ {0} /\ h.down \in Seq(Answer)
  BY BrokerAssumption DEF Client
<1>2. CASE h.lagged \/ h.inflight # <<>> \/ s = <<>>
  <2>1. e = h
    BY <1>2 DEF Flush
  <2>2. ClientSound(h, q)
    BY <1>2 DEF ClientSound
  <2>3. s = <<>> => Len(s) = 0
    OBVIOUS
  <2> QED
    BY <1>2, <2>1, <2>2, <2>3 DEF Kept
<1>3. CASE ~h.lagged /\ h.inflight = <<>> /\ s # <<>>
  <2>1. Len(s) \in Nat \ {0}
    BY <1>1, <1>3, EmptySeq
  <2>2. PICK k \in 1 .. Len(s) : k = IF Len(s) < MaxBatch THEN Len(s) ELSE MaxBatch
    BY <1>1, <2>1
  <2> DEFINE items == SubSeq(s, 1, k)
             rest == SubSeq(s, k + 1, Len(s))
  <2>a. Sliced(s, k, items, rest)
    BY <1>1, Slices
  <2>b. PICK id \in Nat : id = h.batch + 1
    BY <1>1
  <2>c. PICK f : f = [h EXCEPT !.pending = rest, !.inflight = items, !.batch = id]
    OBVIOUS
  <2> DEFINE m == Batch(id, items)
  <2>4. e = Post(f, p, m)
    BY <1>3, <2>2, <2>b, <2>c DEF Flush
  <2>5. Len(s) = 1 => k = Len(s)
    BY <1>1, <2>2
  <2> HIDE DEF items, rest
  <2>3. /\ items \in Seq(Nat) /\ items # <<>> /\ rest \in Seq(Nat)
        /\ k = Len(s) => items = s /\ rest = <<>>
    BY <2>a DEF Sliced
  <2>6. Sending(f, h, rest, items, id)
    BY <2>3, <2>c, ClientSends
  <2>7. m \in Answer
    BY <2>3 DEF Answer, Batch
  <2> HIDE DEF m
  <2>8. /\ e \in Client /\ SameButDown(e, f)
        /\ Listening(p) => e.down = Append(f.down, m)
    BY <2>4, <2>6, <2>7, PostTells DEF Sending
  <2>9. /\ e.pending = rest /\ e.inflight = items /\ e.batch = id
        /\ e.status = "open" /\ e.attached /\ ~e.lagged /\ e.waiting = h.waiting
    BY <1>3, <2>6, <2>8 DEF SameButDown, Sending
  <2>10. ClientSound(e, q)
    BY <1>3, <2>8, <2>9, <2>a, FlushSends
  <2>11. ASSUME Listening(p), Talk(h, u, c, a, g, n, b, q)
         PROVE  Talk(e, u, c, a, g, n, b, q)
    <3>1. e.down = Append(h.down, Batch(e.batch, e.inflight))
      BY <2>6, <2>8, <2>9, <2>11 DEF m, Sending
    <3>2. Sliced(h.pending, k, e.inflight, e.pending)
      BY <2>9, <2>a
    <3>3. k \in Nat /\ k \in 1 .. Len(h.pending)
      BY <2>1
    <3>4. h.inflight = <<>> /\ ~h.lagged /\ e \in Client
      BY <1>3, <2>8
    <3> HIDE DEF s
    <3>5. /\ q - Len(h.pending) = e.inflight[Len(e.inflight)] - Len(e.inflight)
          /\ RunTo(e.inflight, e.inflight[Len(e.inflight)])
          /\ e.inflight # <<>>
      BY <2>9, <3>2, <3>3, <3>4, FlushSends
    <3>6. e.status = h.status /\ e.attached /\ ~e.lagged
      BY <2>9
    <3> QED
      BY <2>9, <2>11, <3>1, <3>4, <3>5, <3>6, TalkSends, ZenonT(30)
  <2>12. Len(s) = 1 => e.inflight = s /\ e.pending = <<>>
    BY <2>3, <2>5, <2>9
  <2>13. e.lagged = h.lagged
    BY <1>3, <2>6, <2>8 DEF SameButDown, Sending
  <2> QED
    BY <2>8, <2>9, <2>10, <2>11, <2>12, <2>13 DEF Kept
<1> QED
  BY <1>2, <1>3

\* One more in a queue.
LEMMA Queues ==
    ASSUME NEW t \in Seq(Nat), NEW r \in Nat, NEW s, s = Append(t, r)
    PROVE  /\ s \in Seq(Nat) /\ s # <<>> /\ Len(s) = Len(t) + 1 /\ s[Len(s)] = r
           /\ \A i \in 1 .. Len(t) : s[i] = t[i]
BY Longer

\* The queue and the position of the source move together.
SameButQueue(e, h) ==
    /\ e.inflight = h.inflight /\ e.batch = h.batch /\ e.down = h.down
    /\ e.status = h.status /\ e.attached = h.attached /\ e.lagged = h.lagged

\* What is queued counts only while no batch is in flight.
LEMMA TalkMoves ==
    ASSUME NEW h \in Client, NEW u \in Seq(Command), NEW c \in Seq(Received), NEW a \in BOOLEAN,
           NEW g \in Nat, NEW n \in Nat, NEW b \in BOOLEAN, NEW q \in Int, NEW r \in Int,
           NEW e \in Client, Talk(h, u, c, a, g, n, b, q), SameButQueue(e, h),
           e.attached /\ e.inflight = <<>> => r - Len(e.pending) = q - Len(h.pending)
    PROVE  Talk(e, u, c, a, g, n, b, r)
<1>1. /\ e.inflight = h.inflight /\ e.batch = h.batch /\ e.down = h.down
      /\ e.status = h.status /\ e.attached = h.attached /\ e.lagged = h.lagged
  BY DEF SameButQueue
<1> QED
  BY <1>1, TalkSame

\* A client that has attached and been sent nothing.
Fresh(h) ==
    /\ h.attached /\ h.status = "open" /\ ~h.lagged
    /\ h.pending = <<>> /\ h.inflight = <<>>

IsNext(r, q) == r = q + 1

\* The next sequence for a client that has attached: queued, sent, or the end
\* of what the client can be sent.
LEMMA EnqueueKeeps ==
    ASSUME NEW h \in Client, NEW u \in Seq(Command), NEW c \in Seq(Received), NEW a \in BOOLEAN,
           NEW g \in Nat, NEW n \in Nat, NEW b \in BOOLEAN, NEW q \in Int, NEW p,
           NEW r \in Nat, IsNext(r, q), h.attached, h.status = "open", ClientSound(h, q),
           NEW e, e = Enqueue(h, p, r)
    PROVE  /\ Kept(e, h, r)
           /\ Listening(p) /\ Talk(h, u, c, a, g, n, b, q) => Talk(e, u, c, a, g, n, b, r)
           /\ Fresh(h) => e.inflight = <<r>> /\ e.pending = <<>> /\ ~e.lagged
<1>1. r = q + 1
  BY DEF IsNext
<1>a. /\ h \in Client /\ u \in Seq(Command) /\ c \in Seq(Received) /\ a \in BOOLEAN
      /\ g \in Nat /\ n \in Nat /\ b \in BOOLEAN /\ q \in Int /\ r \in Int
  OBVIOUS
<1>2. h.pending \in Seq(Nat) /\ Len(h.pending) \in Nat /\ q \in Int /\ r \in Int
  BY LenProperties DEF Client
<1>3. CASE h.lagged
  <2>1. e = h
    BY <1>3 DEF Enqueue
  <2>2. h.pending = <<>> /\ h.inflight = <<>>
    BY <1>3 DEF ClientSound
  <2>3. Queued(h, r) /\ Len(<<>>) = 0
    BY <2>2 DEF Queued, RunTo
  <2>4. ClientSound(h, r)
    BY <1>3, <2>2, <2>3 DEF ClientSound
  <2>5. Talk(h, u, c, a, g, n, b, q) => Talk(h, u, c, a, g, n, b, r)
    BY <1>2, <1>3, TalkOver
  <2> QED
    BY <1>1, <1>3, <2>1, <2>4, <2>5 DEF Kept, Fresh
<1>4. CASE ~h.lagged /\ Full(h)
  <2>1. e = RequireResume(h, p)
    BY <1>4 DEF Enqueue
  <2>2. /\ Kept(e, h, r)
        /\ Listening(p) /\ Talk(h, u, c, a, g, n, b, q) => Talk(e, u, c, a, g, n, b, r)
    BY <1>2, <2>1, RequireResumeKeeps
  <2>3. ~(h.pending = <<>> /\ h.inflight = <<>>)
    <3> SUFFICES ASSUME h.pending = <<>>, h.inflight = <<>>
                 PROVE  FALSE
      OBVIOUS
    <3>1. MaxTabQueue \in Nat \ {0}
      BY BrokerAssumption
    <3>2. Len(h.pending) = 0 /\ Len(h.inflight) = 0
      OBVIOUS
    <3> QED
      BY <1>4, <3>1, <3>2 DEF Full
  <2> QED
    BY <1>1, <2>2, <2>3 DEF Kept, Fresh
<1>5. CASE ~h.lagged /\ ~Full(h)
  <2>t. PICK t : t = h.pending
    OBVIOUS
  <2>1. PICK s : s = Append(t, r)
    OBVIOUS
  <2>b. r \in Nat
    OBVIOUS
  <2>a. t \in Seq(Nat) /\ Len(t) \in Nat
    BY <1>2, <2>t
  <2>4. /\ s \in Seq(Nat) /\ s # <<>> /\ Len(s) = Len(t) + 1 /\ s[Len(s)] = r
        /\ \A i \in 1 .. Len(t) : s[i] = t[i]
    BY ONLY <2>1, <2>a, <2>b, Queues
  <2>2. PICK f \in Client : f = [h EXCEPT !.pending = s]
    BY <2>4 DEF Client
  <2>3. e = Flush(f, p)
    BY <1>1, <1>5, <2>t, <2>1, <2>2 DEF Enqueue
  <2>5. /\ f.pending = s /\ f.inflight = h.inflight /\ f.batch = h.batch
        /\ f.down = h.down /\ f.status = h.status /\ f.attached = h.attached
        /\ f.lagged = h.lagged /\ f.waiting = h.waiting
    BY <2>2 DEF Client
  <2>c. f \in Client
    OBVIOUS
  <2>e. SameButQueue(f, h)
    BY <2>5 DEF SameButQueue
  <2>6. Queued(h, q)
    BY DEF ClientSound
  <2>7. RunTo(s, r)
    <3> SUFFICES ASSUME NEW i \in 1 .. Len(s)
                 PROVE  s[i] = r - Len(s) + i
      BY DEF RunTo
    <3>1. i \in Nat /\ (i \in 1 .. Len(t) \/ i = Len(s))
      BY <2>4, <2>a
    <3>2. CASE i \in 1 .. Len(t)
      <4>1. t[i] = q - Len(t) + i
        BY <2>6, <2>t, <3>2 DEF Queued, RunTo
      <4>2. s[i] = q - Len(t) + i
        BY <2>4, <3>2, <4>1
      <4> QED
        BY ONLY <1>1, <2>4, <2>a, <3>1, <4>2, q \in Int
    <3>3. CASE i = Len(s)
      BY <1>1, <2>a, <2>4, <3>3
    <3> QED
      BY <3>1, <3>2, <3>3
  <2>8. r - Len(s) = q - Len(t)
    BY <1>1, <2>a, <2>4
  <2>9. Queued(f, r)
    BY <2>5, <2>6, <2>7, <2>8, <2>t DEF Queued
  <2>10. ASSUME Talk(h, u, c, a, g, n, b, q) PROVE Talk(f, u, c, a, g, n, b, r)
    <3>1. f.attached /\ f.inflight = <<>> => r - Len(f.pending) = q - Len(h.pending)
      BY <2>5, <2>8, <2>t
    <3> QED
      BY <2>e, <2>10, <3>1, TalkMoves
  <2>d. f.lagged => f.pending = <<>> /\ f.inflight = <<>>
    BY <1>5, <2>5
  <2>11. f.attached /\ f.status = "open" /\ ~f.lagged
    BY <1>5, <2>5
  <2>12. /\ Kept(e, f, r)
         /\ e.lagged = f.lagged
         /\ Listening(p) /\ Talk(f, u, c, a, g, n, b, r) => Talk(e, u, c, a, g, n, b, r)
         /\ ~f.lagged /\ f.inflight = <<>> /\ Len(f.pending) = 1 =>
                e.inflight = f.pending /\ e.pending = <<>>
    <3>1. f.attached /\ f.status = "open"
      BY <2>11
    <3> QED
      BY ONLY <1>a, <2>c, <2>3, <2>9, <3>1, <2>d, FlushKeeps
  <2>13. ASSUME h.pending = <<>>, h.inflight = <<>>
         PROVE  e.inflight = <<r>> /\ e.pending = <<>> /\ ~e.lagged
    <3>1. Len(f.pending) = 1 /\ f.inflight = <<>> /\ f.pending = <<r>>
      BY <2>t, <2>1, <2>4, <2>5, <2>13
    <3> QED
      BY <2>11, <2>12, <3>1
  <2> QED
    BY <1>1, <2>5, <2>10, <2>12, <2>13 DEF Kept, Fresh
<1> QED
  BY <1>3, <1>4, <1>5

\* Nothing is queued.
LEMMA FreshIsSound ==
    ASSUME NEW h, Fresh(h), NEW q \in Int
    PROVE  ClientSound(h, q)
BY DEF Fresh, ClientSound, Queued, RunTo

\* What follows on q and ends at r.
RunFrom(entries, q, r) == RunTo(entries, r) /\ q = r - Len(entries)

\* What is left of the retained log, for such a client.
HandsOn(e, h, u, c, a, g, n, b, p, q, r) ==
    /\ Kept(e, h, r)
    /\ Listening(p) /\ Talk(h, u, c, a, g, n, b, q) => Talk(e, u, c, a, g, n, b, r)

\* A log that is replayed to a client that has just attached keeps it sound.
LEMMA EnqueueAllKeeps ==
    ASSUME NEW h \in Client, NEW u \in Seq(Command), NEW c \in Seq(Received), NEW a \in BOOLEAN,
           NEW g \in Nat, NEW n \in Nat, NEW b \in BOOLEAN, NEW q \in Int, NEW r \in Nat, NEW p,
           Fresh(h), NEW entries \in Seq(Nat), RunFrom(entries, q, r),
           NEW e, e = EnqueueAll(h, p, entries)
    PROVE  HandsOn(e, h, u, c, a, g, n, b, p, q, r)
<1>a. /\ h \in Client /\ u \in Seq(Command) /\ c \in Seq(Received) /\ a \in BOOLEAN
      /\ g \in Nat /\ n \in Nat /\ b \in BOOLEAN /\ q \in Int
  OBVIOUS
<1>b. RunTo(entries, r) /\ q = r - Len(entries)
  BY DEF RunFrom
<1>1. r \in Int /\ ClientSound(h, q) /\ h.attached /\ h.status = "open"
  BY FreshIsSound DEF Fresh
<1>2. CASE entries = <<>>
  <2>1. e = h
    BY <1>2 DEF EnqueueAll
  <2>2. Len(entries) = 0
    BY <1>2
  <2>3. q = r
    BY <1>b, <2>2
  <2> QED
    BY <1>1, <2>1, <2>3 DEF Kept, HandsOn
<1>3. CASE entries # <<>>
  <2>1. /\ Head(entries) = entries[1] /\ Len(entries) \in Nat \ {0}
        /\ Tail(entries) \in Seq(Nat) /\ Len(Tail(entries)) = Len(entries) - 1
        /\ \A i \in 1 .. Len(entries) - 1 : Tail(entries)[i] = entries[i + 1]
        /\ Head(entries) \in Nat
    BY <1>3, Shorter
  <2>2. Head(entries) = q + 1
    BY <1>b, <2>1 DEF RunTo
  <2>3. q + 1 \in Nat
    BY <2>1, <2>2
  <2>a. PICK o \in Nat : o = q + 1
    BY <2>3
  <2>4. PICK f : f = Enqueue(h, p, o)
    OBVIOUS
  <2>5. /\ Kept(f, h, o)
        /\ Listening(p) /\ Talk(h, u, c, a, g, n, b, q) => Talk(f, u, c, a, g, n, b, o)
        /\ Fresh(h) => f.inflight = <<o>> /\ f.pending = <<>> /\ ~f.lagged
    <3>1. ClientSound(h, q) /\ h.attached /\ h.status = "open"
      BY <1>1
    <3>2. o \in Nat /\ IsNext(o, q)
      BY <2>a DEF IsNext
    <3> QED
      BY ONLY <1>a, <2>4, <3>1, <3>2, EnqueueKeeps
  <2>6. Listening(p) /\ Talk(h, u, c, a, g, n, b, q) => Talk(f, u, c, a, g, n, b, o)
    BY <2>5
  <2>7. f.inflight = <<o>> /\ f.pending = <<>> /\ ~f.lagged
    BY <2>5
  <2>8. f \in Client /\ f.attached /\ f.status = "open" /\ f.waiting = h.waiting
    BY <2>5 DEF Kept
  <2>9. CASE Len(entries) > MaxTabQueue
    <3>1. e = RequireResume(f, p)
      BY <1>3, <2>2, <2>a, <2>4, <2>9 DEF EnqueueAll
    <3>2. o \in Int
      BY <2>3
    <3>3. /\ Kept(e, f, r)
          /\ Listening(p) /\ Talk(f, u, c, a, g, n, b, o) => Talk(e, u, c, a, g, n, b, r)
      BY <1>1, <2>8, <3>1, <3>2, RequireResumeKeeps
    <3> QED
      BY <2>6, <2>8, <3>3 DEF Kept, HandsOn
  <2>10. CASE ~(Len(entries) > MaxTabQueue)
    <3>1. PICK s \in Seq(Nat) : s = Tail(entries)
      BY <2>1
    <3>2. e = [f EXCEPT !.pending = s]
      BY <1>3, <2>2, <2>a, <2>4, <2>10, <3>1 DEF EnqueueAll
    <3>3. e \in Client /\ e.pending = s /\ SameButQueue(e, f) /\ e.waiting = f.waiting
      BY <2>8, <3>2 DEF Client, SameButQueue
    <3>4. RunTo(s, r)
      <4> SUFFICES ASSUME NEW i \in 1 .. Len(s)
                   PROVE  s[i] = r - Len(s) + i
        BY DEF RunTo
      <4>1. i \in 1 .. Len(entries) - 1 /\ Len(s) = Len(entries) - 1
        BY <2>1, <3>1
      <4>2. s[i] = entries[i + 1] /\ i + 1 \in 1 .. Len(entries)
        BY <2>1, <3>1, <4>1
      <4>3. entries[i + 1] = r - Len(entries) + (i + 1)
        BY <1>b, <4>2 DEF RunTo
      <4> QED
        BY <2>1, <4>1, <4>2, <4>3
    <3>5. /\ e.inflight = <<o>> /\ e.attached /\ e.status = "open" /\ ~e.lagged
          /\ Len(e.inflight) = 1 /\ e.inflight[1] = o
      BY <2>7, <2>8, <3>3 DEF SameButQueue
    <3>6. o = r - Len(s)
      BY <1>b, <2>1, <2>a, <3>1
    <3>7. Queued(e, r)
      BY <3>3, <3>4, <3>5, <3>6 DEF Queued
    <3>8. e.inflight # <<>>
      BY <3>5
    <3>9. Kept(e, h, r)
      BY <2>8, <3>3, <3>5, <3>7, <3>8 DEF ClientSound, Kept
    <3>10. ASSUME Talk(f, u, c, a, g, n, b, o) PROVE Talk(e, u, c, a, g, n, b, r)
      <4>1. o \in Int
        BY <2>a
      <4>2. f \in Client /\ e \in Client /\ SameButQueue(e, f)
        BY <2>8, <3>3
      <4> QED
        BY <1>1, <3>8, <3>10, <4>1, <4>2, TalkMoves
    <3> QED
      BY <2>6, <3>9, <3>10 DEF HandsOn
  <2> QED
    BY <2>9, <2>10
<1> QED
  BY <1>2, <1>3

\* Where the log has a cursor: the first such place.
LEMMA IndexFinds ==
    ASSUME NEW log \in Seq(Nat), NEW after \in Nat, Covers(log, after)
    PROVE  Index(log, after) \in 1 .. Len(log) /\ log[Index(log, after)] = after
<1> DEFINE I == {i \in 1 .. Len(log) : log[i] = after}
<1>1. Index(log, after) = IF I # {} THEN Min(I) ELSE 0
  BY DEF Index, SelectInSeq
<1>2. I # {}
  BY <1>1 DEF Covers
<1>3. I \subseteq Nat
  BY LenProperties
<1>4. \E x \in I : \A y \in I : x =< y
  <2> DEFINE R == OpToRel(<, Nat)
  <2>1. IsWellFoundedOn(R, Nat)
    BY NatLessThanWellFounded
  <2> HIDE DEF R, I
  <2>2. PICK x \in I : \A y \in I : ~(<<y, x>> \in R)
    BY <1>2, <1>3, <2>1, WFMin
  <2>3. \A y \in I : ~(y < x)
    BY <1>3, <2>2 DEF R, OpToRel
  <2> QED
    BY <1>3, <2>2, <2>3
<1>5. Min(I) \in I
  BY <1>4 DEF Min
<1> QED
  BY <1>1, <1>2, <1>5

\* A conversation that may begin anywhere behind what the handler has seen.
Begins(h, u, c, a, g, n, b) ==
    \A r \in Int : r <= n \/ n = 0 \/ b => Talk(h, u, c, a, g, n, b, r)

\* The log behind a cursor it has runs from there to its end.
LEMMA BehindCursor ==
    ASSUME NEW log \in Seq(Nat), NEW after \in Nat, NEW r \in Nat, RunTo(log, r),
           Covers(log, after),
           NEW s, s = SubSeq(log, Index(log, after) + 1, Len(log))
    PROVE  s \in Seq(Nat) /\ RunFrom(s, after, r)
<1>1. PICK i \in 1 .. Len(log) : i = Index(log, after) /\ log[i] = after
  BY IndexFinds
<1>2. PICK t : Sliced(log, i, t, s)
  BY <1>1, Slices
<1>3. /\ s \in Seq(Nat) /\ Len(s) = Len(log) - i
      /\ \A j \in 1 .. Len(log) - i : s[j] = log[i + j]
  BY <1>2 DEF Sliced
<1>b. r \in Nat /\ after \in Nat
  OBVIOUS
<1>4. Len(log) \in Nat /\ i \in Nat /\ i <= Len(log) /\ i \in 1 .. Len(log)
  BY LenProperties
<1>5. after = r - Len(s)
  <2>1. after = r - Len(log) + i
    BY <1>1, <1>4 DEF RunTo
  <2> QED
    BY ONLY <1>3, <1>4, <1>b, <2>1
<1>6. RunTo(s, r)
  <2> SUFFICES ASSUME NEW j \in 1 .. Len(s)
               PROVE  s[j] = r - Len(s) + j
    BY DEF RunTo
  <2>a. j \in 1 .. Len(s)
    OBVIOUS
  <2>1. i + j \in 1 .. Len(log) /\ s[j] = log[i + j]
    BY ONLY <1>3, <1>4, <2>a
  <2>2. log[i + j] = r - Len(log) + (i + j)
    BY <2>1 DEF RunTo
  <2> QED
    BY ONLY <1>3, <1>4, <1>b, <2>a, <2>1, <2>2
<1> QED
  BY <1>3, <1>5, <1>6 DEF RunFrom

HandsBack(e, h, u, c, a, g, n, b, p, r) ==
    /\ Kept(e, h, r)
    /\ Listening(p) /\ Begins(h, u, c, a, g, n, b) => Talk(e, u, c, a, g, n, b, r)

\* What the source has retained, for a client that goes on after a cursor.
LEMMA RetainedKeeps ==
    ASSUME NEW h \in Client, NEW u \in Seq(Command), NEW c \in Seq(Received), NEW a \in BOOLEAN,
           NEW g \in Nat, NEW n \in Nat, NEW b \in BOOLEAN, NEW p, NEW r \in Nat, NEW after \in Nat,
           source.log \in Seq(Nat), RunTo(source.log, r), Fresh(h),
           after <= n, after = 0 => b,
           NEW e, e = EnqueueRetained(h, p, after)
    PROVE  HandsBack(e, h, u, c, a, g, n, b, p, r)
<1>a. /\ h \in Client /\ u \in Seq(Command) /\ c \in Seq(Received) /\ a \in BOOLEAN
      /\ g \in Nat /\ n \in Nat /\ b \in BOOLEAN /\ r \in Nat /\ Fresh(h)
  OBVIOUS
<1>1. ASSUME NEW s \in Seq(Nat), NEW q \in Int, RunFrom(s, q, r), q <= n \/ b,
             e = EnqueueAll(h, p, s)
      PROVE  HandsBack(e, h, u, c, a, g, n, b, p, r)
  <2>1. s \in Seq(Nat) /\ q \in Int
    OBVIOUS
  <2>3. RunFrom(s, q, r) /\ e = EnqueueAll(h, p, s)
    BY <1>1
  <2>2. HandsOn(e, h, u, c, a, g, n, b, p, q, r)
    BY ONLY <1>a, <2>1, <2>3, EnqueueAllKeeps
  <2> QED
    BY <1>1, <2>2 DEF Begins, HandsOn, HandsBack
<1>2. CASE after = 0 /\ ~source.truncated
  <2>1. e = EnqueueAll(h, p, source.log)
    BY <1>2 DEF EnqueueRetained
  <2>a. Len(source.log) \in Nat
    BY LenProperties
  <2>b. r - Len(source.log) \in Int
    BY ONLY <1>a, <2>a
  <2>2. PICK q \in Int : q = r - Len(source.log)
    BY ONLY <2>b
  <2>3. RunFrom(source.log, q, r) /\ b
    BY <1>2, <2>2 DEF RunFrom
  <2> QED
    BY <1>1, <2>1, <2>3
<1>3. CASE after > 0 /\ Covers(source.log, after)
  <2>1. PICK s : s = SubSeq(source.log, Index(source.log, after) + 1, Len(source.log))
    OBVIOUS
  <2>2. e = EnqueueAll(h, p, s)
    BY <1>3, <2>1 DEF EnqueueRetained
  <2>3. s \in Seq(Nat) /\ RunFrom(s, after, r)
    BY <1>3, <2>1, BehindCursor
  <2>4. after \in Int
    OBVIOUS
  <2> QED
    BY <1>1, <2>2, <2>3, <2>4
<1>4. CASE ~(after = 0 /\ ~source.truncated) /\ ~(after > 0 /\ Covers(source.log, after))
  <2>1. e = RequireResume(h, p)
    BY <1>4 DEF EnqueueRetained
  <2>2. 0 \in Int /\ r \in Int /\ h.attached /\ h.status = "open"
    BY DEF Fresh
  <2>3. /\ Kept(e, h, r)
        /\ Listening(p) /\ Talk(h, u, c, a, g, n, b, 0) => Talk(e, u, c, a, g, n, b, r)
    BY ONLY <1>a, <2>1, <2>2, RequireResumeKeeps
  <2> QED
    BY <2>3 DEF Begins, HandsBack
<1> QED
  BY <1>2, <1>3, <1>4

-----------------------------------------------------------------------------
(***************************************************************************)
(* A step of the worker keeps the invariant when it keeps the client of    *)
(* every port, or of the one port it is about.                             *)
(***************************************************************************)
Speaks(t) == InMap(t) /\ HasPort(t)
Says(t, h, v, q) == Talk(h, v, chain[t], acking[t], generation[t], seen[t], blind[t], q)

\* The current port of a tab is one of its ports.
LEMMA PortIsOne ==
    ASSUME NEW t \in Tabs, generation[t] \in 1 .. MaxGenerations[t]
    PROVE  Port(t) \in Ports /\ Port(t)[1] = t /\ Port(t)[2] = generation[t]
<1>1. <<t, generation[t]>> \in {t} \X (1 .. MaxGenerations[t])
  OBVIOUS
<1> QED
  BY <1>1 DEF Port, Ports

\* A port belongs to a tab, and is one of those the tab may open.
LEMMA PortsAre ==
    ASSUME NEW p \in Ports
    PROVE  p[1] \in Tabs /\ p[2] \in 1 .. MaxGenerations[p[1]] /\ p = <<p[1], p[2]>>
BY DEF Ports

\* What a lease that is over awaits goes on when the worker gives up a
\* subscription or a port, and when it takes a command.
LEMMA PartedStays ==
    ASSUME NEW h, NEW u, NEW e, Parted(h, u), e.status = "open" => h.status = "open",
           e.attached => h.attached
    PROVE  Parted(e, u)
BY DEF Parted

LEMMA PartedLess ==
    ASSUME NEW h, NEW u \in Seq(Command), u # <<>>, NEW e, Parted(h, u),
           e.status = "open" => h.status = "open",
           Attaches(Head(u)) \/ (e.attached => h.attached),
           Head(u).type = "detach" => ~e.attached
    PROVE  Parted(e, Tail(u))
<1>1. /\ Len(u) \in Nat /\ Len(u) > 0 /\ Len(Tail(u)) = Len(u) - 1 /\ Head(u) = u[1]
      /\ \A i \in 1 .. Len(u) - 1 : Tail(u)[i] = u[i + 1]
  BY EmptySeq, LenProperties, HeadTailProperties
<1>2. CASE ~h.attached /\ \A i \in 1 .. Len(u) : ~Attaches(u[i])
  <2>1. ~Attaches(Head(u))
    BY <1>1, <1>2
  <2>2. \A i \in 1 .. Len(Tail(u)) : ~Attaches(Tail(u)[i])
    BY <1>1, <1>2
  <2> QED
    BY <1>2, <2>1, <2>2 DEF Parted
<1>3. ASSUME NEW i \in 1 .. Len(u), u[i].type = "detach", \A j \in i .. Len(u) : ~Attaches(u[j])
      PROVE  Parted(e, Tail(u))
  <2>1. \A j \in i .. Len(Tail(u)) : ~Attaches(Tail(u)[j])
    BY <1>1, <1>3
  <2>2. CASE i = 1
    BY <1>1, <1>3, <2>1, <2>2 DEF Parted
  <2>3. CASE i > 1
    <3>1. PICK k \in 1 .. Len(Tail(u)) : k = i - 1
      BY <1>1, <2>3
    <3>2. Tail(u)[k] = u[i]
      BY <1>1, <3>1
    <3>3. \A j \in k .. Len(Tail(u)) : ~Attaches(Tail(u)[j])
      BY <1>1, <1>3, <3>1
    <3> QED
      BY <1>3, <3>2, <3>3 DEF Parted
  <2> QED
    BY <2>2, <2>3
<1>4. CASE h.status # "open"
  BY <1>4 DEF Parted
<1> QED
  BY <1>2, <1>3, <1>4 DEF Parted

\* What a step of the worker leaves of port p.
WorkerKeeps(p) ==
    /\ ClientSound(host'[p], source'.position)
    /\ host[p].status = "none" => host'[p].status = "none"
    /\ Unspoken(p) => ~host'[p].attached /\ host'[p].down = <<>> /\ up'[p] = <<>>
    /\ Parted(host[p], up[p]) => Parted(host'[p], up'[p])
    /\ p = Port(p[1]) /\ Speaks(p[1]) => Says(p[1], host'[p], up'[p], source'.position)

SourceSteps ==
    /\ source' \in Source
    /\ (source'.phase # "none") <=> ({p \in Ports : host'[p].attached} # {} \/ source'.timer)
    /\ RunTo(source'.log, source'.position)

TabsStand == UNCHANGED <<tabVars, history>>

\* A step of the worker that keeps every port and leaves the tabs alone.
LEMMA WorkerStep ==
    ASSUME BrokerIInv, TabsStand, SourceSteps,
           host' \in [Ports -> Client], up' \in [Ports -> Seq(Command)],
           \A p \in Ports : WorkerKeeps(p)
    PROVE  BrokerIInv'
<1>1. /\ generation' = generation /\ link' = link /\ reconnecting' = reconnecting
      /\ lease' = lease /\ cursor' = cursor /\ chain' = chain /\ acking' = acking
      /\ seen' = seen /\ gap' = gap /\ blind' = blind
  BY DEF TabsStand, tabVars, history
<1>2. BrokerTypeOK'
  BY <1>1 DEF BrokerIInv, BrokerTypeOK, SourceSteps
<1>3. SourceSound'
  BY DEF SourceSteps, SourceSound, OpenWhileHeld, Subscribed
<1>4. (\A p \in Ports : ClientSound(host[p], source.position))'
  BY DEF WorkerKeeps
<1>5. ASSUME NEW t \in Tabs
      PROVE  TabSound(t)'
  <2>1. TabSound(t)
    BY DEF BrokerIInv
  <2>2. InMap(t)' = InMap(t) /\ Later(t)' = Later(t)
    BY <1>1 DEF InMap, Later
  <2>3. \A p \in Later(t) : (Unspoken(p) /\ host[p].status = "none")'
    BY <2>1 DEF TabSound, WorkerKeeps, Unspoken, Later
  <2>4. \A p \in Ports : Unspoken(p) => Unspoken(p)'
    BY DEF WorkerKeeps, Unspoken
  <2>5. Port(t) \in Ports
    BY PortIsOne DEF BrokerIInv, BrokerTypeOK
  <2>6. Port(t)' = Port(t) /\ HasPort(t)' = HasPort(t) /\ Accepting(t)' = Accepting(t)
    BY <1>1 DEF Port, HasPort, Accepting, InMap
  <2>7. Parted(host[Port(t)], up[Port(t)]) => Parted(host'[Port(t)], up'[Port(t)])
    BY <2>5 DEF WorkerKeeps
  <2>8. lease[t] \in Left /\ HasPort(t) => Parted(host[Port(t)], up[Port(t)])'
    BY <2>1, <2>6, <2>7 DEF TabSound
  <2> QED
    BY <1>1, <2>1, <2>2, <2>3, <2>4, <2>6, <2>8 DEF TabSound
<1>6. ASSUME NEW t \in Tabs
      PROVE  Talks(t)'
  <2>1. Port(t) \in Ports /\ Port(t)[1] = t
    BY PortIsOne DEF BrokerIInv, BrokerTypeOK
  <2>2. Port(t)' = Port(t) /\ InMap(t)' = InMap(t) /\ HasPort(t)' = HasPort(t)
    BY <1>1 DEF Port, InMap, HasPort
  <2>3. Speaks(t) => Says(t, host'[Port(t)], up'[Port(t)], source'.position)
    BY <2>1 DEF WorkerKeeps
  <2> QED
    BY <1>1, <2>2, <2>3 DEF Talks, Speaks, Says
<1> QED
  BY <1>2, <1>3, <1>4, <1>5, <1>6 DEF BrokerIInv

\* A client that has no subscription does not care where the source is.
LEMMA UnsubscribedIsSound ==
    ASSUME NEW h, NEW q \in Int, NEW r \in Int, ClientSound(h, q), ~h.attached
    PROVE  ClientSound(h, r)
<1>1. h.pending = <<>> /\ h.inflight = <<>>
  BY DEF ClientSound
<1>2. Queued(h, r)
  BY <1>1 DEF Queued, RunTo
<1> QED
  BY <1>2 DEF ClientSound

\* A port that is left alone, when the source stays or nothing is attached.
LEMMA PortStays ==
    ASSUME BrokerIInv, NEW r \in Ports, host'[r] = host[r], up'[r] = up[r],
           source'.position \in Int, source'.position = source.position \/ ~host[r].attached
    PROVE  WorkerKeeps(r)
<1>1. ClientSound(host[r], source.position) /\ r[1] \in Tabs /\ Talks(r[1])
  BY PortsAre DEF BrokerIInv
<1>2. source.position \in Int
  BY DEF BrokerIInv, BrokerTypeOK, Source
<1>3. CASE source'.position = source.position
  <2>1. r = Port(r[1]) /\ Speaks(r[1]) => Says(r[1], host[r], up[r], source.position)
    BY <1>1 DEF Talks, Speaks, Says
  <2>2. ClientSound(host[r], source'.position)
    BY <1>1, <1>3
  <2> QED
    BY <1>3, <2>1, <2>2 DEF WorkerKeeps, Unspoken
<1>4. CASE ~host[r].attached
  <2>1. ClientSound(host[r], source'.position)
    BY <1>1, <1>2, <1>4, UnsubscribedIsSound
  <2>2. ASSUME r = Port(r[1]), Speaks(r[1])
        PROVE  Says(r[1], host[r], up[r], source'.position)
    <3>1. Says(r[1], host[r], up[r], source.position)
      BY <1>1, <2>2 DEF Talks, Speaks, Says
    <3> QED
      BY <1>4, <3>1 DEF Says, Talk, NoneSkipped
  <2> QED
    BY <2>1, <2>2 DEF WorkerKeeps, Unspoken
<1> QED
  BY <1>3, <1>4

\* What a step about port p makes of its client and its commands.
PortKeeps(p, h, v) ==
    /\ h \in Client /\ v \in Seq(Command)
    /\ host' = [host EXCEPT ![p] = h] /\ up' = [up EXCEPT ![p] = v]
    /\ source'.position = source.position \/ \A r \in Ports : r # p => ~host[r].attached
    /\ host[p].status # "none"
    /\ Unspoken(p) => ~h.attached /\ h.down = <<>> /\ v = <<>>
    /\ Parted(host[p], up[p]) => Parted(h, v)
    /\ ClientSound(h, source'.position)
    /\ p = Port(p[1]) /\ Speaks(p[1]) => Says(p[1], h, v, source'.position)

\* A step of the worker that is about one port only.
LEMMA PortStep ==
    ASSUME BrokerIInv, TabsStand, SourceSteps, NEW p \in Ports, NEW h, NEW v, PortKeeps(p, h, v)
    PROVE  BrokerIInv'
<1>1. host \in [Ports -> Client] /\ up \in [Ports -> Seq(Command)]
  BY DEF BrokerIInv, BrokerTypeOK
<1>2. source.position \in Int /\ source'.position \in Int
  BY DEF BrokerIInv, BrokerTypeOK, SourceSteps, Source
<1>3. host' \in [Ports -> Client] /\ up' \in [Ports -> Seq(Command)]
  BY <1>1 DEF PortKeeps
<1>4. host'[p] = h /\ up'[p] = v
  BY <1>1 DEF PortKeeps
<1>5. \A r \in Ports : r # p => host'[r] = host[r] /\ up'[r] = up[r]
  BY <1>1 DEF PortKeeps
<1>6. WorkerKeeps(p)
  BY <1>4 DEF WorkerKeeps, PortKeeps
<1>7. ASSUME NEW r \in Ports, r # p
      PROVE  WorkerKeeps(r)
  <2>1. host'[r] = host[r] /\ up'[r] = up[r]
    BY <1>5, <1>7
  <2>2. source'.position = source.position \/ ~host[r].attached
    BY <1>7 DEF PortKeeps
  <2> QED
    BY <1>2, <2>1, <2>2, PortStays
<1>8. \A r \in Ports : WorkerKeeps(r)
  BY <1>6, <1>7
<1> QED
  BY <1>3, <1>8, WorkerStep

\* A source that has been given up is a source.
LEMMA NoSourceIsOne ==
    /\ NoSource \in Source /\ NoSource.phase = "none" /\ ~NoSource.timer
    /\ NoSource.log = <<>> /\ NoSource.position = 0
<1>1. <<>> \in Seq(Nat) /\ 0 \in Nat /\ "none" \in Phases
  BY DEF Phases
<1> QED
  BY <1>1 DEF Source, NoSource

\* The source after a subscription has gone.
LEMMA EmptiedHolds ==
    ASSUME BrokerIInv, NEW p \in Ports, NEW h, host' = [host EXCEPT ![p] = h], ~h.attached,
           source' = Emptied(Subscribed \ {p})
    PROVE  /\ SourceSteps
           /\ source'.position = source.position \/ \A r \in Ports : r # p => ~host[r].attached
<1> DEFINE S == {r \in Ports : host'[r].attached}
           T == Subscribed \ {p}
<1>1. host \in [Ports -> Client] /\ source \in Source
  BY DEF BrokerIInv, BrokerTypeOK
<1>2. S = T
  BY <1>1 DEF Subscribed
<1>3. (source.phase # "none") <=> (Subscribed # {} \/ source.timer)
  BY DEF BrokerIInv, SourceSound, OpenWhileHeld
<1>4. RunTo(source.log, source.position)
  BY DEF BrokerIInv, SourceSound
<1>5. \A r \in Ports : r # p /\ r \notin T => ~host[r].attached
  BY DEF Subscribed
<1>6. T \subseteq Subscribed
  OBVIOUS
<1> HIDE DEF S, T
<1>7. CASE T # {} \/ source.phase = "none" \/ source.timer
  <2>1. source' = source
    BY <1>7 DEF Emptied, T
  <2>2. (source.phase # "none") <=> (T # {} \/ source.timer)
    BY <1>3, <1>6, <1>7
  <2> QED
    BY <1>1, <1>2, <1>4, <2>1, <2>2 DEF SourceSteps, S
<1>8. CASE T = {} /\ source.phase # "none" /\ ~source.timer
  <2>1. source' = IF Grace THEN [source EXCEPT !.timer = TRUE] ELSE NoSource
    BY <1>8 DEF Emptied, T
  <2>2. CASE Grace
    <3>1. /\ source' \in Source /\ source'.phase = source.phase /\ source'.timer
          /\ source'.position = source.position /\ source'.log = source.log
      BY <1>1, <2>1, <2>2 DEF Source
    <3> QED
      BY <1>2, <1>4, <1>8, <3>1 DEF SourceSteps, S
  <2>3. CASE ~Grace
    <3>1. /\ source' \in Source /\ source'.phase = "none" /\ ~source'.timer
          /\ source'.log = <<>>
      BY <2>1, <2>3, NoSourceIsOne
    <3>2. RunTo(source'.log, source'.position)
      BY <3>1 DEF RunTo
    <3>3. \A r \in Ports : r # p => ~host[r].attached
      BY <1>5, <1>8
    <3> QED
      BY <1>2, <1>8, <3>1, <3>2, <3>3 DEF SourceSteps, S
  <2> QED
    BY <2>2, <2>3
<1> QED
  BY <1>7, <1>8

\* A source that is open goes on, or is opened, with a subscription that
\* holds it.
LEMMA AttachedHolds ==
    ASSUME BrokerIInv, NEW p \in Ports, NEW h, host' = [host EXCEPT ![p] = h], h.attached,
           source' \in Source, source'.phase # "none", RunTo(source'.log, source'.position)
    PROVE  SourceSteps
<1>1. host \in [Ports -> Client]
  BY DEF BrokerIInv, BrokerTypeOK
<1>2. host'[p].attached
  BY <1>1
<1> QED
  BY <1>2 DEF SourceSteps

\* A source is held as before.
LEMMA SourceHolds ==
    ASSUME BrokerIInv, source' \in Source, source'.phase # "none" <=> source.phase # "none",
           source'.timer = source.timer, RunTo(source'.log, source'.position),
           \A p \in Ports : host'[p].attached = host[p].attached
    PROVE  SourceSteps
<1>1. {p \in Ports : host'[p].attached} = Subscribed
  BY DEF Subscribed
<1> QED
  BY <1>1 DEF SourceSteps, BrokerIInv, SourceSound, OpenWhileHeld

\* A step of the worker that leaves the source alone, or moves no more of it
\* than its phase.
LEMMA PhaseHolds ==
    ASSUME BrokerIInv, NEW p \in Ports, NEW h, host' = [host EXCEPT ![p] = h],
           h.attached = host[p].attached,
           source' = source \/ (/\ source.phase # "none"
                                /\ \E phase \in Phases \ {"none"} :
                                      source' = [source EXCEPT !.phase = phase])
    PROVE  SourceSteps /\ source'.position = source.position
<1>1. host \in [Ports -> Client] /\ source \in Source /\ RunTo(source.log, source.position)
  BY DEF BrokerIInv, BrokerTypeOK, SourceSound
<1>2. \A r \in Ports : host'[r].attached = host[r].attached
  BY <1>1
<1>3. /\ source' \in Source
      /\ source'.phase # "none" <=> source.phase # "none"
      /\ source'.timer = source.timer /\ source'.log = source.log
      /\ source'.position = source.position
  BY <1>1 DEF Source
<1> QED
  BY <1>1, <1>2, <1>3, SourceHolds

-----------------------------------------------------------------------------
(***************************************************************************)
(* The calls of the worker.                                                *)
(***************************************************************************)
\* The conversation of the lease behind a port.
LEMMA TabIs ==
    ASSUME BrokerIInv, NEW t \in Tabs
    PROVE  /\ chain[t] \in Seq(Received) /\ acking[t] \in BOOLEAN /\ generation[t] \in Nat
           /\ seen[t] \in Nat /\ blind[t] \in BOOLEAN
           /\ TabSound(t) /\ Talks(t)
BY DEF BrokerIInv, BrokerTypeOK

\* What the invariant says of one port.
LEMMA PortIs ==
    ASSUME BrokerIInv, NEW p \in Ports
    PROVE  /\ host[p] \in Client /\ up[p] \in Seq(Command) /\ ClientSound(host[p], source.position)
           /\ source \in Source /\ source.position \in Nat /\ source.position \in Int
           /\ source.log \in Seq(Nat) /\ RunTo(source.log, source.position)
           /\ p[1] \in Tabs
<1>1. source \in Source /\ RunTo(source.log, source.position)
  BY DEF BrokerIInv, BrokerTypeOK, SourceSound
<1>2. source.position \in Nat /\ source.log \in Seq(Nat)
  BY <1>1 DEF Source
<1>3. host[p] \in Client /\ up[p] \in Seq(Command) /\ ClientSound(host[p], source.position)
  BY DEF BrokerIInv, BrokerTypeOK
<1> QED
  BY <1>1, <1>2, <1>3, PortsAre

\* A tab that speaks does so on its own port, with its conversation.
LEMMA Speaking ==
    ASSUME BrokerIInv, NEW p \in Ports, p = Port(p[1]), Speaks(p[1])
    PROVE  Says(p[1], host[p], up[p], source.position) /\ Listening(p)
BY PortIs, TabIs DEF Speaks, Says, Talks, Listening

\* The same as values, for the lemmas about conversations.
Tells(t, c, a, g, n, b) ==
    chain[t] = c /\ acking[t] = a /\ generation[t] = g /\ seen[t] = n /\ blind[t] = b

\* The tab's part of a conversation has its types.
LEMMA TabTells ==
    ASSUME BrokerIInv, NEW t \in Tabs
    PROVE  \E c \in Seq(Received), a \in BOOLEAN, g \in Nat, n \in Nat, b \in BOOLEAN :
              Tells(t, c, a, g, n, b)
BY TabIs DEF Tells

\* A conversation of the tab is one about the tab's own values.
LEMMA SaysIs ==
    ASSUME NEW t, NEW c, NEW a, NEW g, NEW n, NEW b, Tells(t, c, a, g, n, b)
    PROVE  \A h, v, q : Says(t, h, v, q) <=> Talk(h, v, c, a, g, n, b, q)
BY DEF Tells, Says

\* A message that is posted leaves the subscription sound.
LEMMA PostedIsSound ==
    ASSUME NEW h, NEW e, NEW q, ClientSound(h, q), SameButDown(e, h)
    PROVE  ClientSound(e, q)
BY DEF ClientSound, Queued, SameButDown

\* What a tab that attaches may ask for.
Asks(x, n, b) ==
    /\ x.type = "attach" => n = 0
    /\ x.type = "reattach" => x.after <= n /\ (x.after = 0 => b)

\* A command to attach has been taken: the subscription begins with nothing queued.
LEMMA AttachBegins ==
    ASSUME NEW h \in Client, NEW u \in Seq(Command), NEW c \in Seq(Received), NEW a \in BOOLEAN,
           NEW g \in Nat, NEW n \in Nat, NEW b \in BOOLEAN, NEW q \in Int, NEW e \in Client,
           Talk(h, u, c, a, g, n, b, q), h.status = "open", ~h.attached,
           u # <<>>, Head(u).type \in {"attach", "reattach"},
           Fresh(e), e.down = h.down
    PROVE  Begins(e, Tail(u), c, a, g, n, b) /\ Asks(Head(u), n, b)
<1>1. ASSUME NEW r \in Int, r <= n \/ n = 0 \/ b
      PROVE  Talk(e, Tail(u), c, a, g, n, b, r)
  <2>1. e.status = h.status /\ e.inflight = <<>> /\ ~e.lagged /\ e.pending = <<>>
    BY DEF Fresh
  <2> QED
    BY <1>1, <2>1, TalkSubscribed
<1>2. Head(u) = u[1] /\ 1 \in 1 .. Len(u)
  BY EmptySeq, LenProperties
<1>3. Asks(Head(u), n, b)
  BY <1>2 DEF Talk, Asked, Asks
<1> QED
  BY <1>1, <1>3 DEF Begins

\* What a command handled leaves of the queue of commands.
LEMMA Handled ==
    ASSUME BrokerIInv, NEW p \in Ports, NEW type, Handles(p, type)
    PROVE  /\ TabsStand /\ host[p].status = "open" /\ host[p].waiting = "no"
           /\ up[p] # <<>> /\ Head(up[p]).type = type /\ Head(up[p]) \in Command
           /\ Tail(up[p]) \in Seq(Command) /\ up' = [up EXCEPT ![p] = Tail(up[p])]
           /\ ~Unspoken(p)
<1>1. up[p] \in Seq(Command)
  BY PortIs
<1>2. up[p] # <<>>
  BY DEF Handles
<1>3. Head(up[p]) \in Command /\ Tail(up[p]) \in Seq(Command)
  BY <1>1, <1>2, Shorter
<1> QED
  BY <1>3 DEF Handles, TabsStand, Unspoken

\* A command that is answered with the end of the lease.
LEMMA TalkRefuses ==
    ASSUME NEW h \in Client, NEW u \in Seq(Command), NEW c \in Seq(Received), NEW a \in BOOLEAN,
           NEW g \in Nat, NEW n \in Nat, NEW b \in BOOLEAN, NEW q \in Int,
           NEW m \in Answer, NEW e,
           Talk(h, u, c, a, g, n, b, q), h.attached, u # <<>>, Head(u).type # "ack",
           Ender(m), m.type # "batch", m.type = "result" => m.of # "ack",
           SameButDown(e, h), e.down = Append(h.down, m)
    PROVE  Talk(e, Tail(u), c, a, g, n, b, q)
<1>1. Tail(u) \in Seq(Command) /\ Talk(h, Tail(u), c, a, g, n, b, q)
  BY CommandLess, TalkCommand
<1>2. e.inflight = h.inflight /\ e.batch = h.batch
  BY DEF SameButDown
<1> QED
  BY <1>1, <1>2, TalkEnds

\* attach() of a tab that is attached is refused.
LEMMA RefusesAttach ==
    ASSUME BrokerIInv, NEW p \in Ports, NEW type \in {"attach", "reattach"}, Handles(p, type),
           host[p].attached, host' = [host EXCEPT ![p] = Post(host[p], p, Result(type, FALSE))],
           UNCHANGED source
    PROVE  BrokerIInv'
<1> DEFINE m == Result(type, FALSE)
<1>1. host[p] \in Client /\ ClientSound(host[p], source.position) /\ up[p] \in Seq(Command)
  BY PortIs
<1>2. /\ TabsStand /\ host[p].status = "open" /\ up[p] # <<>> /\ Head(up[p]).type = type
      /\ Tail(up[p]) \in Seq(Command) /\ up' = [up EXCEPT ![p] = Tail(up[p])] /\ ~Unspoken(p)
  BY Handled
<1>3. /\ m \in Answer /\ Ender(m) /\ m.type = "result" /\ m.of # "ack"
  BY DEF Answer, Result, Ender
<1> HIDE DEF m
<1>4. PICK h : h = Post(host[p], p, m)
  OBVIOUS
<1>5. h \in Client /\ SameButDown(h, host[p]) /\ (Listening(p) => h.down = Append(host[p].down, m))
  BY <1>1, <1>3, <1>4, PostTells
<1>6. ClientSound(h, source.position)
  BY <1>1, <1>5, PostedIsSound
<1>7. host' = [host EXCEPT ![p] = h]
  BY <1>4 DEF m
<1>8. ASSUME p = Port(p[1]), Speaks(p[1])
      PROVE  Says(p[1], h, Tail(up[p]), source.position)
  <2>1. Says(p[1], host[p], up[p], source.position) /\ Listening(p)
    BY <1>8, Speaking
  <2>2. /\ chain[p[1]] \in Seq(Received) /\ acking[p[1]] \in BOOLEAN /\ generation[p[1]] \in Nat
        /\ seen[p[1]] \in Nat /\ blind[p[1]] \in BOOLEAN /\ source.position \in Int
    BY PortIs, TabIs
  <2>3. SameButDown(h, host[p]) /\ h.down = Append(host[p].down, m)
    BY <1>5, <2>1
  <2>4. host[p] \in Client /\ up[p] \in Seq(Command) /\ up[p] # <<>> /\ Head(up[p]).type # "ack"
    BY <1>1, <1>2
  <2>5. m \in Answer /\ Ender(m) /\ m.type # "batch" /\ (m.type = "result" => m.of # "ack")
    BY <1>3
  <2> QED
    BY ONLY <2>1, <2>2, <2>3, <2>4, <2>5, host[p].attached, TalkRefuses, ZenonT(60) DEF Says
<1>p. Parted(host[p], up[p]) => Parted(h, Tail(up[p]))
  BY <1>1, <1>2, <1>5, PartedLess DEF SameButDown, Attaches
<1>9. PortKeeps(p, h, Tail(up[p]))
  BY <1>2, <1>5, <1>6, <1>7, <1>8, <1>p DEF PortKeeps
<1>10. SourceSteps
  BY <1>5, <1>7, PhaseHolds DEF SameButDown
<1> QED
  BY <1>2, <1>9, <1>10, PortStep

\* The client of attach(), and the conversation it begins.
Attaching(h, x) ==
    [h EXCEPT !.attached = TRUE, !.cursor = x.after, !.waiting = x.type, !.batch = 0]

\* The same of the port that the command has come on.
LEMMA AttachBeginsAt ==
    ASSUME BrokerIInv, NEW p \in Ports, NEW type \in {"attach", "reattach"}, Handles(p, type),
           ~host[p].attached, NEW h, h = Attaching(host[p], Head(up[p]))
    PROVE  /\ h \in Client /\ Fresh(h) /\ h.waiting = type /\ Head(up[p]).after \in Nat
           /\ \A e : Parted(host[p], up[p]) => Parted(e, Tail(up[p]))
           /\ p = Port(p[1]) /\ Speaks(p[1]) =>
                 LET t == p[1]
                 IN  /\ Begins(h, Tail(up[p]), chain[t], acking[t], generation[t], seen[t], blind[t])
                     /\ Asks(Head(up[p]), seen[t], blind[t])
<1>1. host[p] \in Client /\ ClientSound(host[p], source.position) /\ up[p] \in Seq(Command)
  BY PortIs
<1>2. /\ host[p].status = "open" /\ up[p] # <<>> /\ Head(up[p]).type = type
      /\ Head(up[p]) \in Command /\ host[p].waiting = "no"
  BY Handled
<1>3. PICK after \in Nat : after = Head(up[p]).after
  BY <1>2 DEF Command
<1>4. h = [host[p] EXCEPT !.attached = TRUE, !.cursor = after, !.waiting = type, !.batch = 0]
  BY <1>2, <1>3 DEF Attaching
<1>5. host[p].pending = <<>> /\ host[p].inflight = <<>> /\ ~host[p].lagged
  BY <1>1 DEF ClientSound
<1>6. /\ h \in Client /\ h.attached /\ h.waiting = type /\ h.status = host[p].status
      /\ h.pending = host[p].pending /\ h.inflight = host[p].inflight
      /\ h.lagged = host[p].lagged /\ h.down = host[p].down
  <2>1. host[p] \in Client /\ after \in Nat /\ type \in {"attach", "reattach"} /\ 0 \in Nat
    BY <1>1
  <2> QED
    BY ONLY <1>4, <2>1 DEF Client
<1>7. Fresh(h)
  BY <1>2, <1>5, <1>6 DEF Fresh
<1>8. ASSUME p = Port(p[1]), Speaks(p[1])
      PROVE  LET t == p[1]
             IN  /\ Begins(h, Tail(up[p]), chain[t], acking[t], generation[t], seen[t], blind[t])
                 /\ Asks(Head(up[p]), seen[t], blind[t])
  <2>1. Says(p[1], host[p], up[p], source.position)
    BY <1>8, Speaking
  <2>2. /\ chain[p[1]] \in Seq(Received) /\ acking[p[1]] \in BOOLEAN /\ generation[p[1]] \in Nat
        /\ seen[p[1]] \in Nat /\ blind[p[1]] \in BOOLEAN /\ source.position \in Int
    BY PortIs, TabIs
  <2> QED
    <3>1. /\ host[p] \in Client /\ up[p] \in Seq(Command) /\ h \in Client
          /\ host[p].status = "open" /\ ~host[p].attached /\ up[p] # <<>>
          /\ Head(up[p]).type \in {"attach", "reattach"} /\ Fresh(h) /\ h.down = host[p].down
      BY <1>1, <1>2, <1>6, <1>7
    <3> QED
      BY ONLY <2>1, <2>2, <3>1, AttachBegins, ZenonT(100) DEF Says
<1>9. ASSUME NEW e, Parted(host[p], up[p])
      PROVE  Parted(e, Tail(up[p]))
  BY <1>1, <1>2, <1>9, PartedLess DEF Attaches
<1> QED
  BY <1>3, <1>6, <1>7, <1>8, <1>9

\* attach() opens the source, which nobody else holds.
LEMMA OpensSource ==
    ASSUME BrokerIInv, NEW p \in Ports, NEW type \in {"attach", "reattach"}, Handles(p, type),
           ~host[p].attached, source.phase = "none",
           NEW from \in IF Head(up[p]).after > 0 THEN {Head(up[p]).after} ELSE Starts,
           source' = [NoSource EXCEPT !.phase = "connecting", !.position = from],
           host' = [host EXCEPT ![p] = Attaching(host[p], Head(up[p]))]
    PROVE  BrokerIInv'
<1>1. PICK h : h = Attaching(host[p], Head(up[p]))
  OBVIOUS
<1>2. /\ TabsStand /\ host[p].status = "open" /\ Head(up[p]).type = type
      /\ Tail(up[p]) \in Seq(Command) /\ up' = [up EXCEPT ![p] = Tail(up[p])] /\ ~Unspoken(p)
  BY Handled
<1>3. /\ h \in Client /\ Fresh(h) /\ h.waiting = type /\ Head(up[p]).after \in Nat
      /\ Parted(host[p], up[p]) => Parted(h, Tail(up[p]))
      /\ p = Port(p[1]) /\ Speaks(p[1]) =>
            LET t == p[1]
            IN  /\ Begins(h, Tail(up[p]), chain[t], acking[t], generation[t], seen[t], blind[t])
                /\ Asks(Head(up[p]), seen[t], blind[t])
  BY <1>1, AttachBeginsAt
<1>4. from \in Nat
  BY <1>3, BrokerAssumption
<1>5. /\ source' \in Source /\ source'.phase = "connecting" /\ source'.position = from
      /\ source'.log = <<>>
  BY <1>4, NoSourceIsOne DEF Source, Phases
<1>6. SourceSteps
  <2>1. RunTo(source'.log, source'.position)
    BY <1>5 DEF RunTo
  <2>2. h.attached /\ source'.phase # "none"
    BY <1>3, <1>5 DEF Fresh
  <2> QED
    BY <1>1, <1>5, <2>1, <2>2, AttachedHolds
<1>7. \A r \in Ports : r # p => ~host[r].attached
  BY DEF BrokerIInv, SourceSound, OpenWhileHeld, Subscribed
<1>8. ClientSound(h, from) /\ host[p].status # "none" /\ from \in Int
  BY <1>2, <1>3, <1>4, FreshIsSound
<1>9. ASSUME p = Port(p[1]), Speaks(p[1])
      PROVE  Says(p[1], h, Tail(up[p]), from)
  <2>1. /\ Begins(h, Tail(up[p]), chain[p[1]], acking[p[1]], generation[p[1]], seen[p[1]], blind[p[1]])
        /\ Asks(Head(up[p]), seen[p[1]], blind[p[1]])
    BY <1>3, <1>9
  <2>2. from <= seen[p[1]] \/ seen[p[1]] = 0 \/ blind[p[1]]
    <3>1. CASE Head(up[p]).after > 0
      BY <1>2, <2>1, <3>1 DEF Asks
    <3>2. CASE ~(Head(up[p]).after > 0)
      <4>1. Head(up[p]).after = 0
        BY <1>3, <3>2
      <4> QED
        BY <1>2, <2>1, <4>1 DEF Asks
    <3> QED
      BY <3>1, <3>2
  <2> QED
    BY <1>8, <2>1, <2>2 DEF Begins, Says
<1>10. PortKeeps(p, h, Tail(up[p]))
  BY <1>1, <1>2, <1>3, <1>5, <1>7, <1>8, <1>9 DEF PortKeeps
<1> QED
  BY <1>2, <1>6, <1>10, PortStep

\* attach() joins the source, which goes on where it is; a tab that comes back
\* is sent what has been retained.
LEMMA JoinsSource ==
    ASSUME BrokerIInv, NEW p \in Ports, NEW type \in {"attach", "reattach"}, Handles(p, type),
           ~host[p].attached, source.phase # "none",
           source' = [source EXCEPT !.timer = FALSE, !.phase = IF @ = "error" THEN "connecting" ELSE @],
           NEW h, h = Attaching(host[p], Head(up[p])),
           host' = [host EXCEPT ![p] = IF type = "reattach"
                       THEN EnqueueRetained(h, p, Head(up[p]).after) ELSE h]
    PROVE  BrokerIInv'
<1>1. /\ TabsStand /\ host[p].status = "open" /\ Head(up[p]).type = type
      /\ Tail(up[p]) \in Seq(Command) /\ up' = [up EXCEPT ![p] = Tail(up[p])] /\ ~Unspoken(p)
  BY Handled
<1>2. /\ h \in Client /\ Fresh(h) /\ h.waiting = type /\ Head(up[p]).after \in Nat
      /\ \A e : Parted(host[p], up[p]) => Parted(e, Tail(up[p]))
      /\ p = Port(p[1]) /\ Speaks(p[1]) =>
            LET t == p[1]
            IN  /\ Begins(h, Tail(up[p]), chain[t], acking[t], generation[t], seen[t], blind[t])
                /\ Asks(Head(up[p]), seen[t], blind[t])
  BY AttachBeginsAt
<1>3. /\ source.position \in Nat /\ source.position \in Int /\ source.log \in Seq(Nat)
      /\ RunTo(source.log, source.position) /\ source \in Source /\ p[1] \in Tabs
  BY PortIs
<1>4. /\ source' \in Source /\ source'.phase # "none" /\ source'.position = source.position
      /\ source'.log = source.log
  BY <1>3 DEF Source, Phases
<1>5. PICK e : e = IF type = "reattach" THEN EnqueueRetained(h, p, Head(up[p]).after) ELSE h
  OBVIOUS
<1>6. /\ Kept(e, h, source.position)
      /\ p = Port(p[1]) /\ Speaks(p[1]) => Says(p[1], e, Tail(up[p]), source.position)
  <2>1. CASE type = "attach"
    <3>1. e = h
      BY <1>5, <2>1
    <3>2. ClientSound(h, source.position)
      BY <1>2, <1>3, FreshIsSound
    <3>3. Kept(h, h, source.position)
      BY <1>2, <3>2 DEF Kept, Fresh
    <3>4. ASSUME p = Port(p[1]), Speaks(p[1])
          PROVE  Says(p[1], h, Tail(up[p]), source.position)
      <4>1. /\ Begins(h, Tail(up[p]), chain[p[1]], acking[p[1]], generation[p[1]], seen[p[1]], blind[p[1]])
            /\ seen[p[1]] = 0
        BY <1>1, <1>2, <2>1, <3>4 DEF Asks
      <4> QED
        BY <1>3, <4>1 DEF Begins, Says
    <3> QED
      BY <3>1, <3>3, <3>4
  <2>2. CASE type = "reattach"
    <3>1. PICK after \in Nat : after = Head(up[p]).after
      BY <1>2
    <3>2. e = EnqueueRetained(h, p, after)
      BY <1>5, <2>2, <3>1
    <3>3. ASSUME NEW u \in Seq(Command), NEW c \in Seq(Received), NEW a \in BOOLEAN,
                 NEW g \in Nat, NEW n \in Nat, NEW b \in BOOLEAN,
                 after <= n, after = 0 => b
          PROVE  /\ Kept(e, h, source.position)
                 /\ Listening(p) /\ Begins(h, u, c, a, g, n, b) =>
                        Talk(e, u, c, a, g, n, b, source.position)
      <4>1. h \in Client /\ Fresh(h) /\ source.position \in Nat /\ source.log \in Seq(Nat)
            /\ RunTo(source.log, source.position) /\ after \in Nat
        BY <1>2, <1>3
      <4>2. HandsBack(e, h, u, c, a, g, n, b, p, source.position)
        BY <3>2, <3>3, <4>1, RetainedKeeps
      <4> QED
        BY <4>2 DEF HandsBack
    <3>4. Kept(e, h, source.position)
      <4>1. <<>> \in Seq(Command) /\ <<>> \in Seq(Received) /\ FALSE \in BOOLEAN /\ TRUE \in BOOLEAN
        OBVIOUS
      <4>2. after \in Nat /\ 0 \in Nat /\ after <= after
        OBVIOUS
      <4>3. /\ Kept(e, h, source.position)
            /\ Listening(p) /\ Begins(h, <<>>, <<>>, FALSE, 0, after, TRUE) =>
                   Talk(e, <<>>, <<>>, FALSE, 0, after, TRUE, source.position)
        BY <3>3, <4>1, <4>2
      <4> QED
        BY <4>3
    <3>5. ASSUME p = Port(p[1]), Speaks(p[1])
          PROVE  Says(p[1], e, Tail(up[p]), source.position)
      <4>1. /\ Begins(h, Tail(up[p]), chain[p[1]], acking[p[1]], generation[p[1]], seen[p[1]], blind[p[1]])
            /\ after <= seen[p[1]] /\ (after = 0 => blind[p[1]])
        BY <1>1, <1>2, <2>2, <3>1, <3>5 DEF Asks
      <4>2. /\ chain[p[1]] \in Seq(Received) /\ acking[p[1]] \in BOOLEAN /\ generation[p[1]] \in Nat
            /\ seen[p[1]] \in Nat /\ blind[p[1]] \in BOOLEAN
        BY <1>3, TabIs
      <4>3. Listening(p)
        BY <3>5, Speaking
      <4> QED
        BY <1>1, <3>3, <4>1, <4>2, <4>3 DEF Says
    <3> QED
      BY <3>4, <3>5
  <2> QED
    BY <2>1, <2>2
<1>7. host' = [host EXCEPT ![p] = e]
  BY <1>5
<1>8. SourceSteps
  BY <1>3, <1>4, <1>6, <1>7, AttachedHolds DEF Kept
<1>p. Parted(host[p], up[p]) => Parted(e, Tail(up[p]))
  BY <1>2
<1>9. PortKeeps(p, e, Tail(up[p]))
  BY <1>1, <1>4, <1>6, <1>7, <1>p DEF PortKeeps, Kept
<1> QED
  BY <1>1, <1>8, <1>9, PortStep

\* attach() as a whole.
LEMMA HostAttachStep ==
    ASSUME BrokerIInv, NEW p \in Ports, HostAttach(p)
    PROVE  BrokerIInv'
<1>1. PICK type \in {"attach", "reattach"} : Handles(p, type)
  BY DEF HostAttach
<1>2. Head(up[p]).type = type
  BY <1>1, Handled
<1>3. PICK x : x = Head(up[p])
  OBVIOUS
<1>4. Attaching(host[p], x) =
         [host[p] EXCEPT !.attached = TRUE, !.cursor = x.after, !.waiting = x.type, !.batch = 0]
  BY DEF Attaching
<1>5. CASE /\ host[p].attached
           /\ host' = [host EXCEPT ![p] = Post(host[p], p, Result(type, FALSE))]
           /\ UNCHANGED source
  BY <1>1, <1>5, RefusesAttach
<1>6. CASE /\ ~host[p].attached /\ source.phase = "none"
           /\ \E from \in IF x.after > 0 THEN {x.after} ELSE Starts :
                 source' = [NoSource EXCEPT !.phase = "connecting", !.position = from]
           /\ host' = [host EXCEPT ![p] = Attaching(host[p], x)]
  BY <1>1, <1>3, <1>6, OpensSource
<1>7. CASE /\ ~host[p].attached /\ source.phase # "none"
           /\ source' = [source EXCEPT !.timer = FALSE,
                 !.phase = IF @ = "error" THEN "connecting" ELSE @]
           /\ host' = [host EXCEPT ![p] = IF x.type = "reattach"
                 THEN EnqueueRetained(Attaching(host[p], x), p, x.after) ELSE Attaching(host[p], x)]
  BY <1>1, <1>2, <1>3, <1>7, JoinsSource
<1> QED
  BY <1>2, <1>3, <1>4, <1>5, <1>6, <1>7 DEF HostAttach

\* Nothing is taken from the commands of a port.
LEMMA UpStays ==
    ASSUME BrokerIInv, NEW p \in Ports, UNCHANGED <<troubles, up, tabVars, history>>
    PROVE  up[p] \in Seq(Command) /\ up' = [up EXCEPT ![p] = up[p]] /\ TabsStand
<1>1. up \in [Ports -> Seq(Command)] /\ up' = up
  BY DEF BrokerIInv, BrokerTypeOK
<1> QED
  BY <1>1 DEF TabsStand

\* Commands and tabs stay as they were.
LEMMA TabsStayed ==
    ASSUME BrokerIInv, NEW p \in Ports, UNCHANGED <<up, tabVars, history>>
    PROVE  up[p] \in Seq(Command) /\ up' = [up EXCEPT ![p] = up[p]] /\ TabsStand
<1>1. up \in [Ports -> Seq(Command)] /\ up' = up
  BY DEF BrokerIInv, BrokerTypeOK
<1> QED
  BY <1>1 DEF TabsStand

\* A client that waits for nothing has all else as it was.
SameButWaiting(e, h) ==
    /\ e.status = h.status /\ e.attached = h.attached /\ e.pending = h.pending
    /\ e.inflight = h.inflight /\ e.batch = h.batch /\ e.lagged = h.lagged

\* A client that waits, or no longer does, is one with its subscription unchanged.
LEMMA WaitingIs ==
    ASSUME NEW h \in Client, NEW w \in {"no", "restart"}, NEW e, e = [h EXCEPT !.waiting = w]
    PROVE  e \in Client /\ SameButWaiting(e, h) /\ e.waiting = w /\ e.down = h.down
BY DEF Client, SameButWaiting

\* Waiting leaves the subscription sound.
LEMMA WaitingIsSound ==
    ASSUME NEW h, NEW e, NEW q, ClientSound(h, q), SameButWaiting(e, h),
           e.waiting \notin {"attach", "reattach"}
    PROVE  ClientSound(e, q)
BY DEF ClientSound, Queued, SameButWaiting

\* Waiting leaves the conversation as it was.
LEMMA TalkWaits ==
    ASSUME NEW h \in Client, NEW u \in Seq(Command), NEW c \in Seq(Received), NEW a \in BOOLEAN,
           NEW g \in Nat, NEW n \in Nat, NEW b \in BOOLEAN, NEW q \in Int,
           NEW e \in Client, Talk(h, u, c, a, g, n, b, q), SameButWaiting(e, h), e.down = h.down
    PROVE  Talk(e, u, c, a, g, n, b, q)
<1>1. SameButQueue(e, h) /\ (e.attached /\ e.inflight = <<>> => q - Len(e.pending) = q - Len(h.pending))
  BY DEF SameButWaiting, SameButQueue
<1> QED
  BY <1>1, TalkMoves

\* It posts an answer that neither ends the lease nor acknowledges.
LEMMA TalkWelcomes ==
    ASSUME NEW h \in Client, NEW u \in Seq(Command), NEW c \in Seq(Received), NEW a \in BOOLEAN,
           NEW g \in Nat, NEW n \in Nat, NEW b \in BOOLEAN, NEW q \in Int,
           NEW m \in Answer, NEW e \in Client,
           Talk(h, u, c, a, g, n, b, q), h.attached, SameButWaiting(e, h),
           ~Ender(m), m.type # "batch", m.type = "result" => m.of # "ack",
           e.down = Append(h.down, m)
    PROVE  Talk(e, u, c, a, g, n, b, q)
<1>1. /\ e.status = h.status /\ e.attached /\ e.inflight = h.inflight /\ e.batch = h.batch
      /\ e.pending = h.pending /\ e.lagged = h.lagged
  BY DEF SameButWaiting
<1> QED
  BY <1>1, TalkTold

\* attach() has succeeded.
LEMMA HostAttachedStep ==
    ASSUME BrokerIInv, NEW p \in Ports, HostAttached(p)
    PROVE  BrokerIInv'
<1>1. PICK w \in {"attach", "reattach"} : w = host[p].waiting
  BY DEF HostAttached
<1>m. PICK m : m = Result(w, TRUE)
  OBVIOUS
<1>2. PICK f : f = [host[p] EXCEPT !.waiting = "no"]
  OBVIOUS
<1>3. PICK h : h = Post(f, p, m)
  OBVIOUS
<1>4. /\ host' = [host EXCEPT ![p] = h] /\ source' = source
      /\ UNCHANGED <<troubles, up, tabVars, history>> /\ host[p].status = "open"
  BY <1>1, <1>2, <1>3, <1>m DEF HostAttached
<1>5. host[p] \in Client /\ ClientSound(host[p], source.position) /\ source.position \in Int
  BY PortIs
<1>6. host[p].attached
  BY <1>1, <1>5 DEF ClientSound
<1>7. /\ m \in Answer /\ ~Ender(m) /\ m.type # "batch"
      /\ m.type = "result" => m.of # "ack"
  BY <1>m DEF Answer, Result, Ender
<1>8. f \in Client /\ SameButWaiting(f, host[p]) /\ f.waiting = "no" /\ f.down = host[p].down
  BY <1>2, <1>5, WaitingIs
<1>9. h \in Client /\ SameButDown(h, f) /\ (Listening(p) => h.down = Append(f.down, m))
  BY <1>3, <1>7, <1>8, PostTells
<1>10. SameButWaiting(h, host[p]) /\ h.waiting = "no"
  BY <1>8, <1>9 DEF SameButWaiting, SameButDown
<1>11. ClientSound(h, source.position)
  BY <1>5, <1>10, WaitingIsSound
<1>12. up[p] \in Seq(Command) /\ up' = [up EXCEPT ![p] = up[p]] /\ TabsStand
  BY <1>4, UpStays
<1>13. ASSUME p = Port(p[1]), Speaks(p[1])
       PROVE  Says(p[1], h, up[p], source.position)
  <2>1. Says(p[1], host[p], up[p], source.position) /\ Listening(p)
    BY <1>13, Speaking
  <2>2. PICK c \in Seq(Received), a \in BOOLEAN, g \in Nat, n \in Nat, b \in BOOLEAN :
           Tells(p[1], c, a, g, n, b)
    BY PortIs, TabTells
  <2>3. \A k, v, q : Says(p[1], k, v, q) <=> Talk(k, v, c, a, g, n, b, q)
    BY ONLY <2>2, SaysIs
  <2>4. h.down = Append(host[p].down, m) /\ h \in Client
    BY <1>8, <1>9, <2>1
  <2>5. Talk(host[p], up[p], c, a, g, n, b, source.position)
    BY <2>1, <2>3
  <2>6. host[p] \in Client /\ up[p] \in Seq(Command) /\ source.position \in Int
    BY <1>5, <1>12
  <2>7. Talk(h, up[p], c, a, g, n, b, source.position)
    <3>1. SameButWaiting(h, host[p])
      BY <1>10
    <3> QED
      BY ZenonT(60), <1>6, <1>7, <2>4, <2>5, <2>6, <3>1, TalkWelcomes
  <2> QED
    BY <2>3, <2>7
<1>p. Parted(host[p], up[p]) => Parted(h, up[p])
  BY <1>10, PartedStays DEF SameButWaiting
<1>14. PortKeeps(p, h, up[p])
  BY <1>4, <1>6, <1>9, <1>11, <1>12, <1>13, <1>p DEF PortKeeps, Unspoken
<1>15. SourceSteps
  BY <1>4, <1>10, PhaseHolds DEF SameButWaiting
<1> QED
  BY <1>12, <1>14, <1>15, PortStep

\* A client without a subscription.
Idle(e) == ~e.attached /\ e.pending = <<>> /\ e.inflight = <<>> /\ ~e.lagged /\ e.waiting = "no"

\* A client without a subscription is sound at any position.
LEMMA IdleIsSound ==
    ASSUME NEW e, Idle(e), NEW q \in Int
    PROVE  ClientSound(e, q)
BY DEF Idle, ClientSound, Queued, RunTo

\* Detached() gives a client without a subscription.
LEMMA DetachedIs ==
    ASSUME NEW h \in Client, NEW e, e = Detached(h)
    PROVE  /\ e \in Client /\ ~e.attached /\ e.pending = <<>> /\ e.inflight = <<>> /\ ~e.lagged
           /\ e.waiting = h.waiting /\ e.down = h.down /\ e.status = h.status
<1>1. <<>> \in Seq(Nat) /\ 0 \in Nat
  OBVIOUS
<1> QED
  BY <1>1 DEF Detached, Client

\* attach() has failed with its source.
LEMMA HostAttachFailsStep ==
    ASSUME BrokerIInv, NEW p \in Ports, HostAttachFails(p)
    PROVE  BrokerIInv'
<1>1. PICK w \in {"attach", "reattach"} : w = host[p].waiting
  BY DEF HostAttachFails
<1>m. PICK m : m = Result(w, FALSE)
  OBVIOUS
<1>2. PICK f : f = [host[p] EXCEPT !.waiting = "no"]
  OBVIOUS
<1>3. PICK d : d = Detached(f)
  OBVIOUS
<1>4. PICK h : h = Post(d, p, m)
  OBVIOUS
<1>5. /\ host' = [host EXCEPT ![p] = h] /\ source' = Emptied(Subscribed \ {p})
      /\ UNCHANGED <<troubles, up, tabVars, history>> /\ host[p].status = "open"
  BY <1>1, <1>2, <1>3, <1>4, <1>m DEF HostAttachFails
<1>6. host[p] \in Client /\ ClientSound(host[p], source.position) /\ source.position \in Int
  BY PortIs
<1>7. host[p].attached
  BY <1>1, <1>6 DEF ClientSound
<1>8. /\ m \in Answer /\ Ender(m) /\ m.type # "batch"
      /\ m.type = "result" => m.of # "ack"
  BY <1>m DEF Answer, Result, Ender
<1>9. f \in Client /\ f.waiting = "no" /\ f.down = host[p].down
  BY <1>2, <1>6, WaitingIs
<1>10. d \in Client /\ Idle(d) /\ d.down = host[p].down
  BY <1>3, <1>9, DetachedIs DEF Idle
<1>11. h \in Client /\ SameButDown(h, d) /\ (Listening(p) => h.down = Append(d.down, m))
  BY <1>4, <1>8, <1>10, PostTells
<1>12. Idle(h) /\ ~h.attached
  BY <1>10, <1>11 DEF Idle, SameButDown
<1>13. /\ SourceSteps
       /\ source'.position = source.position \/ \A r \in Ports : r # p => ~host[r].attached
  BY <1>5, <1>12, EmptiedHolds
<1>14. source'.position \in Int
  BY <1>13 DEF SourceSteps, Source
<1>15. ClientSound(h, source'.position)
  BY <1>12, <1>14, IdleIsSound
<1>16. up[p] \in Seq(Command) /\ up' = [up EXCEPT ![p] = up[p]] /\ TabsStand
  BY <1>5, UpStays
<1>17. ASSUME p = Port(p[1]), Speaks(p[1])
       PROVE  Says(p[1], h, up[p], source'.position)
  <2>1. Says(p[1], host[p], up[p], source.position) /\ Listening(p)
    BY <1>17, Speaking
  <2>2. PICK c \in Seq(Received), a \in BOOLEAN, g \in Nat, n \in Nat, b \in BOOLEAN :
           Tells(p[1], c, a, g, n, b)
    BY PortIs, TabTells
  <2>3. \A k, v, q : Says(p[1], k, v, q) <=> Talk(k, v, c, a, g, n, b, q)
    BY ONLY <2>2, SaysIs
  <2>4. /\ h.down = Append(host[p].down, m)
        /\ h.attached /\ h.inflight # <<>> => h.inflight = host[p].inflight /\ h.batch = host[p].batch
    BY <1>10, <1>11, <1>12, <2>1
  <2>5. Talk(host[p], up[p], c, a, g, n, b, source.position)
    BY <2>1, <2>3
  <2>6. host[p] \in Client /\ up[p] \in Seq(Command) /\ source.position \in Int
    BY <1>6, <1>16
  <2>7. Talk(h, up[p], c, a, g, n, b, source'.position)
    BY <1>7, <1>8, <1>14, <2>4, <2>5, <2>6, TalkEnds, ZenonT(60)
  <2> QED
    BY <2>3, <2>7
<1>p. Parted(host[p], up[p]) => Parted(h, up[p])
  BY <1>5, <1>12, PartedStays
<1>18. PortKeeps(p, h, up[p])
  BY <1>5, <1>7, <1>11, <1>13, <1>15, <1>16, <1>17, <1>p DEF PortKeeps, Unspoken
<1> QED
  BY <1>13, <1>16, <1>18, PortStep

\* A lease in the map has sent no detach and no close.
LEMMA NotUnsaid ==
    ASSUME BrokerIInv, NEW p \in Ports, p = Port(p[1]), Speaks(p[1]), up[p] # <<>>
    PROVE  Head(up[p]).type \notin {"detach", "close"}
<1>1. Says(p[1], host[p], up[p], source.position)
  BY Speaking
<1>2. up[p] \in Seq(Command)
  BY PortIs
<1>3. Head(up[p]) = up[p][1] /\ 1 \in 1 .. Len(up[p])
  BY <1>2, EmptySeq, LenProperties
<1> QED
  BY <1>1, <1>3 DEF Says, Talk, Asked

\* A client that is no longer open says no more, and is told no more.
Gone(e, h) == e.down = h.down /\ e.status # "open" /\ ~e.attached /\ ~e.lagged
Silent(v) == v = <<>>

Hushed(h, c, a, g, n, b) ==
    \A e \in Client, r \in Int : \A v :
        Gone(e, h) /\ Silent(v) => Talk(e, v, c, a, g, n, b, r)

\* Nothing is promised to a lease whose subscription and commands are gone.
LEMMA TalkSilenced ==
    ASSUME NEW h \in Client, NEW u \in Seq(Command), NEW c \in Seq(Received), NEW a \in BOOLEAN,
           NEW g \in Nat, NEW n \in Nat, NEW b \in BOOLEAN, NEW q \in Int,
           Talk(h, u, c, a, g, n, b, q)
    PROVE  Hushed(h, c, a, g, n, b)
<1>1. ASSUME NEW e \in Client, NEW r \in Int, NEW v, Gone(e, h), Silent(v)
      PROVE  Talk(e, v, c, a, g, n, b, r)
  <2>1. Talk(e, <<>>, c, a, g, n, b, r)
    BY <1>1, TalkGone DEF Gone
  <2> QED
    BY <1>1, <2>1 DEF Silent
<1> QED
  BY <1>1 DEF Hushed

\* The same of the conversation of a tab.
LEMMA SaysSilenced ==
    ASSUME BrokerIInv, NEW t \in Tabs, NEW h \in Client, NEW u \in Seq(Command), NEW q \in Int,
           NEW e \in Client, NEW v \in Seq(Command), NEW r \in Int,
           Says(t, h, u, q), Gone(e, h), Silent(v)
    PROVE  Says(t, e, v, r)
<1>1. PICK c \in Seq(Received), a \in BOOLEAN, g \in Nat, n \in Nat, b \in BOOLEAN :
         Tells(t, c, a, g, n, b)
  BY TabTells
<1>2. \A k, x, s : Says(t, k, x, s) <=> Talk(k, x, c, a, g, n, b, s)
  BY ONLY <1>1, SaysIs
<1>3. Talk(h, u, c, a, g, n, b, q)
  BY <1>2
<1>4. c \in Seq(Received) /\ a \in BOOLEAN /\ g \in Nat /\ n \in Nat /\ b \in BOOLEAN
  OBVIOUS
<1>5. h \in Client /\ u \in Seq(Command) /\ q \in Int
  OBVIOUS
<1>6. Hushed(h, c, a, g, n, b)
  BY ONLY <1>3, <1>4, <1>5, TalkSilenced, ZenonT(60)
<1>7. Talk(e, v, c, a, g, n, b, r)
  BY <1>6 DEF Hushed
<1> QED
  BY <1>2, <1>7

\* A subscription goes, and perhaps its client with it.
LEMMA SubscriptionGoes ==
    ASSUME BrokerIInv, TabsStand, NEW p \in Ports, NEW h \in Client, NEW v \in Seq(Command),
           host' = [host EXCEPT ![p] = h], up' = [up EXCEPT ![p] = v],
           source' = Emptied(Subscribed \ {p}), Idle(h),
           host[p].status # "none", up[p] = <<>> => v = <<>> /\ h.down = host[p].down,
           Parted(host[p], up[p]) => Parted(h, v),
           p = Port(p[1]) /\ Speaks(p[1]) => h.status # "open" /\ up[p] = <<>>
    PROVE  BrokerIInv'
<1>1. host[p] \in Client /\ source.position \in Int /\ up[p] \in Seq(Command)
  BY PortIs
<1>2. ~h.attached /\ ~h.lagged
  BY DEF Idle
<1>3. /\ SourceSteps
      /\ source'.position = source.position \/ \A r \in Ports : r # p => ~host[r].attached
  BY <1>2, EmptiedHolds
<1>4. source'.position \in Int
  BY <1>3 DEF SourceSteps, Source
<1>5. ClientSound(h, source'.position)
  BY <1>4, IdleIsSound
<1>6. ASSUME p = Port(p[1]), Speaks(p[1])
      PROVE  Says(p[1], h, v, source'.position)
  <2>1. Says(p[1], host[p], up[p], source.position)
    BY <1>6, Speaking
  <2>2. Gone(h, host[p]) /\ Silent(v)
    BY <1>2, <1>6 DEF Gone, Silent
  <2>3. p[1] \in Tabs
    BY PortIs
  <2> QED
    BY <1>1, <1>4, <2>1, <2>2, <2>3, SaysSilenced
<1>7. PortKeeps(p, h, v)
  BY <1>2, <1>3, <1>5, <1>6 DEF PortKeeps, Unspoken
<1> QED
  BY <1>3, <1>7, PortStep

\* A detach keeps the invariant.
LEMMA HostDetachStep ==
    ASSUME BrokerIInv, NEW p \in Ports, HostDetach(p)
    PROVE  BrokerIInv'
<1>1. /\ TabsStand /\ host[p].status = "open" /\ host[p].waiting = "no"
      /\ up[p] # <<>> /\ Head(up[p]).type = "detach"
      /\ Tail(up[p]) \in Seq(Command) /\ up' = [up EXCEPT ![p] = Tail(up[p])]
  BY Handled DEF HostDetach
<1>2. host[p] \in Client /\ host[p].attached \in BOOLEAN /\ up[p] \in Seq(Command)
      /\ host \in [Ports -> Client]
  BY PortIs DEF Client, BrokerIInv, BrokerTypeOK
<1>3. PICK m : m = Result("detach", host[p].attached)
  OBVIOUS
<1>4. PICK d : d = Detached(host[p])
  OBVIOUS
<1>5. PICK h : h = Post(d, p, m)
  OBVIOUS
<1>6. host' = [host EXCEPT ![p] = h] /\ source' = Emptied(Subscribed \ {p})
  BY <1>2, <1>3, <1>4, <1>5 DEF HostDetach
<1>7. d \in Client /\ Idle(d)
  BY <1>1, <1>2, <1>4, DetachedIs DEF Idle
<1>8. m \in Answer
  BY <1>2, <1>3 DEF Answer, Result
<1>9. h \in Client /\ SameButDown(h, d)
  BY <1>5, <1>7, <1>8, PostTells
<1>10. Idle(h)
  BY <1>7, <1>9 DEF Idle, SameButDown
<1>11. Parted(host[p], up[p]) => Parted(h, Tail(up[p]))
  BY <1>1, <1>2, <1>10, PartedLess DEF Idle
<1>12. ~(p = Port(p[1]) /\ Speaks(p[1]))
  BY <1>1, NotUnsaid
<1>13. host[p].status # "none"
  BY <1>1
<1> QED
  BY <1>1, <1>6, <1>9, <1>10, <1>11, <1>12, <1>13, SubscriptionGoes

\* A client that is closed has no subscription.
LEMMA ClosedIs ==
    ASSUME NEW h \in Client, h.waiting = "no", NEW e, e = [Detached(h) EXCEPT !.status = "closed"]
    PROVE  e \in Client /\ Idle(e) /\ e.down = h.down /\ e.status = "closed"
<1>1. PICK d \in Client : d = Detached(h)
  BY DetachedIs
<1>2. Idle(d) /\ d.down = h.down
  BY <1>1, DetachedIs DEF Idle
<1>3. e = [d EXCEPT !.status = "closed"]
  BY <1>1
<1> QED
  BY <1>2, <1>3 DEF Client, Idle

\* A close that a tab has sent keeps the invariant.
LEMMA HostCloseStep ==
    ASSUME BrokerIInv, NEW p \in Ports, HostClose(p)
    PROVE  BrokerIInv'
<1>1. /\ TabsStand /\ host[p].status = "open" /\ host[p].waiting = "no"
      /\ up[p] # <<>> /\ Head(up[p]).type = "close"
      /\ Tail(up[p]) \in Seq(Command) /\ up' = [up EXCEPT ![p] = Tail(up[p])]
  BY Handled DEF HostClose
<1>2. PICK h : h = [Detached(host[p]) EXCEPT !.status = "closed"]
  OBVIOUS
<1>3. host' = [host EXCEPT ![p] = h] /\ source' = Emptied(Subscribed \ {p})
  BY <1>2 DEF HostClose, ClientClosed
<1>4. h \in Client /\ Idle(h) /\ h.down = host[p].down /\ h.status # "open"
  BY <1>1, <1>2, PortIs, ClosedIs
<1>5. ~(p = Port(p[1]) /\ Speaks(p[1]))
  BY <1>1, NotUnsaid
<1>6. Parted(h, Tail(up[p]))
  BY <1>4 DEF Parted
<1> QED
  BY <1>1, <1>3, <1>4, <1>5, <1>6, SubscriptionGoes

\* sweepIdleClients() keeps the invariant, whether or not the tab still listens.
LEMMA SweepStep ==
    ASSUME BrokerIInv, NEW p \in Ports, Sweep(p)
    PROVE  BrokerIInv'
<1>1. host[p].status = "open" /\ host[p].waiting = "no" /\ up[p] = <<>>
  BY DEF Sweep
<1>2. PICK h : h = [Detached(host[p]) EXCEPT !.status = "closed"]
  OBVIOUS
<1>3. host' = [host EXCEPT ![p] = h] /\ source' = Emptied(Subscribed \ {p})
  BY <1>2 DEF Sweep, ClientClosed
<1>4. h \in Client /\ Idle(h) /\ h.down = host[p].down /\ h.status # "open"
  BY <1>1, <1>2, PortIs, ClosedIs
<1>5. up[p] \in Seq(Command) /\ up' = [up EXCEPT ![p] = up[p]] /\ TabsStand
  BY TabsStayed DEF Sweep
<1>6. Parted(h, up[p])
  BY <1>4 DEF Parted
<1> QED
  BY <1>1, <1>3, <1>4, <1>5, <1>6, SubscriptionGoes

\* A client that begins or ends to wait for a restart.
LEMMA WaitsKeep ==
    ASSUME BrokerIInv, TabsStand, NEW p \in Ports, NEW h \in Client, NEW v \in Seq(Command),
           host' = [host EXCEPT ![p] = h], up' = [up EXCEPT ![p] = v],
           SourceSteps, source'.position = source.position,
           SameButWaiting(h, host[p]), h.down = host[p].down,
           h.waiting \notin {"attach", "reattach"}, host[p].status # "none",
           v = up[p] \/ (up[p] # <<>> /\ Head(up[p]).type = "restart" /\ v = Tail(up[p]))
    PROVE  BrokerIInv'
<1>1. /\ host[p] \in Client /\ source.position \in Int /\ up[p] \in Seq(Command)
      /\ ClientSound(host[p], source.position)
  BY PortIs
<1>2. ClientSound(h, source.position)
  BY <1>1, WaitingIsSound
<1>3. ASSUME p = Port(p[1]), Speaks(p[1])
      PROVE  Says(p[1], h, v, source.position)
  <2>1. Says(p[1], host[p], up[p], source.position)
    BY <1>3, Speaking
  <2>2. PICK c \in Seq(Received), a \in BOOLEAN, g \in Nat, n \in Nat, b \in BOOLEAN :
           Tells(p[1], c, a, g, n, b)
    BY PortIs, TabTells
  <2>3. \A k, x, q : Says(p[1], k, x, q) <=> Talk(k, x, c, a, g, n, b, q)
    BY ONLY <2>2, SaysIs
  <2>4. Talk(host[p], up[p], c, a, g, n, b, source.position)
    BY <2>1, <2>3
  <2>a. c \in Seq(Received) /\ a \in BOOLEAN /\ g \in Nat /\ n \in Nat /\ b \in BOOLEAN
    OBVIOUS
  <2>5. Talk(host[p], v, c, a, g, n, b, source.position)
    <3>1. CASE v = up[p]
      BY <2>4, <3>1
    <3>2. CASE up[p] # <<>> /\ Head(up[p]).type = "restart" /\ v = Tail(up[p])
      <4>1. Talk(host[p], Tail(up[p]), c, a, g, n, b, source.position)
        <5>1. Head(up[p]).type # "ack"
          BY <3>2
        <5> QED
          BY ONLY <1>1, <2>4, <2>a, <3>2, <5>1, TalkCommand
      <4> QED
        BY <3>2, <4>1
    <3> QED
      BY <3>1, <3>2
  <2>6. Talk(h, v, c, a, g, n, b, source.position)
    BY <1>1, <2>5, TalkWaits
  <2> QED
    BY <2>3, <2>6
<1>4. v # <<>> => up[p] # <<>>
  BY <1>1
<1>5. up[p] = <<>> => v = <<>>
  BY <1>4
<1>p. Parted(host[p], up[p]) => Parted(h, v)
  <2> SUFFICES ASSUME Parted(host[p], up[p])
               PROVE  Parted(h, v)
    OBVIOUS
  <2>1. h.status = host[p].status /\ h.attached = host[p].attached
    BY DEF SameButWaiting
  <2>2. CASE v = up[p]
    <3>1. Parted(h, up[p])
      BY ONLY <2>1, PartedStays, Parted(host[p], up[p])
    <3> QED
      BY <2>2, <3>1
  <2>3. CASE up[p] # <<>> /\ Head(up[p]).type = "restart" /\ v = Tail(up[p])
    <3>1. Head(up[p]).type # "detach"
      BY <2>3
    <3>2. Parted(h, Tail(up[p]))
      BY <1>1, <2>1, <2>3, <3>1, PartedLess
    <3> QED
      BY <2>3, <3>2
  <2> QED
    BY <2>2, <2>3
<1>6. PortKeeps(p, h, v)
  BY <1>2, <1>3, <1>5, <1>p DEF PortKeeps, Unspoken, SameButWaiting
<1> QED
  BY <1>6, PortStep

\* restart() keeps the invariant while the client waits for the session.
LEMMA HostRestartStep ==
    ASSUME BrokerIInv, NEW p \in Ports, HostRestart(p)
    PROVE  BrokerIInv'
<1>1. /\ TabsStand /\ host[p].status = "open" /\ host[p].waiting = "no"
      /\ up[p] # <<>> /\ Head(up[p]).type = "restart"
      /\ Tail(up[p]) \in Seq(Command) /\ up' = [up EXCEPT ![p] = Tail(up[p])]
  BY Handled DEF HostRestart
<1>2. PICK h : h = [host[p] EXCEPT !.waiting = "restart"]
  OBVIOUS
<1>3. host[p] \in Client /\ host \in [Ports -> Client]
  BY DEF BrokerIInv, BrokerTypeOK
<1>4. CASE host[p].attached
  <2>1. host' = [host EXCEPT ![p] = h] /\ source' = [source EXCEPT !.phase = "connecting"]
    BY <1>2, <1>3, <1>4 DEF HostRestart
  <2>2. h \in Client /\ SameButWaiting(h, host[p]) /\ h.waiting = "restart" /\ h.down = host[p].down
    BY <1>2, <1>3, WaitingIs
  <2>3. source.phase # "none"
    BY <1>4 DEF BrokerIInv, SourceSound, OpenWhileHeld, Subscribed
  <2>4. SourceSteps /\ source'.position = source.position
    BY <2>1, <2>2, <2>3, PhaseHolds DEF SameButWaiting, Phases
  <2> QED
    BY <1>1, <2>1, <2>2, <2>4, WaitsKeep
<1>5. CASE ~host[p].attached
  <2>1. host' = [host EXCEPT ![p] = host[p]] /\ source' = source
    BY <1>3, <1>5 DEF HostRestart
  <2>2. SourceSteps /\ source'.position = source.position
    BY <2>1, PhaseHolds
  <2>3. SameButWaiting(host[p], host[p])
    BY DEF SameButWaiting
  <2> QED
    BY <1>1, <1>3, <2>1, <2>2, <2>3, WaitsKeep
<1> QED
  BY <1>4, <1>5

\* The session has restarted, and the client goes on with its commands.
LEMMA HostRestartedStep ==
    ASSUME BrokerIInv, NEW p \in Ports, HostRestarted(p)
    PROVE  BrokerIInv'
<1>1. PICK h : h = [host[p] EXCEPT !.waiting = "no"]
  OBVIOUS
<1>2. host[p] \in Client /\ host \in [Ports -> Client]
  BY DEF BrokerIInv, BrokerTypeOK
<1>3. host' = [host EXCEPT ![p] = h] /\ source' = source /\ host[p].status # "none"
  BY <1>1, <1>2 DEF HostRestarted
<1>4. h \in Client /\ SameButWaiting(h, host[p]) /\ h.waiting = "no" /\ h.down = host[p].down
  BY <1>1, <1>2, WaitingIs
<1>5. SourceSteps /\ source'.position = source.position
  BY <1>3, <1>4, PhaseHolds DEF SameButWaiting
<1>6. up[p] \in Seq(Command) /\ up' = [up EXCEPT ![p] = up[p]] /\ TabsStand
  BY UpStays DEF HostRestarted
<1> QED
  BY <1>3, <1>4, <1>5, <1>6, WaitsKeep

\* What the worker frees, and what flush() adds to what it has posted.
FreedFrom(f, h, after) ==
    /\ f.down = h.down /\ f.status = h.status /\ f.attached = h.attached
    /\ f.inflight = <<>> /\ f.lagged = h.lagged /\ f.pending = h.pending
    /\ f.batch = h.batch /\ f.waiting = h.waiting

\* Freed() sends the next batch that was queued, when there is one.
LEMMA FreedIs ==
    ASSUME NEW h \in Client, NEW after \in Nat,
           NEW f, f = [h EXCEPT !.cursor = after, !.inflight = <<>>]
    PROVE  f \in Client /\ FreedFrom(f, h, after)
<1>1. <<>> \in Seq(Nat)
  OBVIOUS
<1> QED
  BY <1>1 DEF Client, FreedFrom

\* flush() posts no answer.
LEMMA FlushAnswersNone ==
    ASSUME NEW h \in Client, NEW p, NEW e, e = Flush(h, p)
    PROVE  Answers(e.down) = Answers(h.down)
<1> DEFINE s == h.pending
<1>1. s \in Seq(Nat) /\ h.batch \in Nat /\ MaxBatch \in Nat \ {0} /\ h.down \in Seq(Answer)
  BY BrokerAssumption DEF Client
<1>2. CASE h.lagged \/ h.inflight # <<>> \/ s = <<>>
  BY <1>2 DEF Flush
<1>3. CASE ~(h.lagged \/ h.inflight # <<>> \/ s = <<>>)
  <2>1. Len(s) \in Nat \ {0}
    BY <1>1, <1>3, EmptySeq
  <2>2. PICK k \in 1 .. Len(s) : k = IF Len(s) < MaxBatch THEN Len(s) ELSE MaxBatch
    BY <1>1, <2>1
  <2> DEFINE items == SubSeq(s, 1, k)
             rest == SubSeq(s, k + 1, Len(s))
  <2>3. Sliced(s, k, items, rest)
    BY <1>1, Slices
  <2>4. PICK id \in Nat : id = h.batch + 1
    BY <1>1
  <2>5. PICK f : f = [h EXCEPT !.pending = rest, !.inflight = items, !.batch = id]
    OBVIOUS
  <2>6. PICK m : m = Batch(id, items)
    OBVIOUS
  <2>7. e = Post(f, p, m)
    BY <1>3, <2>2, <2>4, <2>5, <2>6 DEF Flush
  <2> HIDE DEF items, rest
  <2>8. items \in Seq(Nat) /\ items # <<>> /\ rest \in Seq(Nat)
    BY <2>3 DEF Sliced
  <2>s. Sending(f, h, rest, items, id)
    BY <2>5, <2>8, ClientSends
  <2>9. f \in Client /\ f.down = h.down
    BY <2>s DEF Sending
  <2>10. m \in Answer /\ m.type = "batch"
    BY <2>6, <2>8 DEF Answer, Batch
  <2>11. e.down = Append(h.down, m) \/ e = f
    BY <2>7, <2>9, <2>10, PostTells
  <2>12. Answers(Append(h.down, m)) = Answers(h.down)
    <3>1. /\ Answers(h.down) \subseteq Answers(Append(h.down, m))
          /\ Answers(Append(h.down, m)) \subseteq Answers(h.down) \cup {Len(h.down) + 1}
          /\ Len(h.down) + 1 \in Answers(Append(h.down, m)) <=> m.type = "result" /\ m.of = "ack"
      BY <1>1, <2>10, MessageMore
    <3> QED
      BY <2>10, <3>1
  <2> QED
    BY <2>9, <2>11, <2>12
<1> QED
  BY <1>2, <1>3

\* An acknowledgement is taken: the batch it is for is done, and the next one
\* goes out before the answer.
LEMMA AckFrees ==
    ASSUME NEW h \in Client, NEW u \in Seq(Command), NEW c \in Seq(Received), NEW a \in BOOLEAN,
           NEW g \in Nat, NEW n \in Nat, NEW b \in BOOLEAN, NEW q \in Int, NEW p,
           u # <<>>, Head(u).type = "ack", Head(u) \in Command, h.status = "open", ClientSound(h, q),
           InFlight(h, Head(u)),
           NEW e, e = Post(Freed(h, p, Head(u).after), p, Result("ack", TRUE))
    PROVE  /\ Kept(e, h, q)
           /\ Listening(p) /\ c # <<>> /\ Talk(h, u, c, a, g, n, b, q) =>
                  Talk(e, Tail(u), c, a, g, n, b, q)
<1>1. h.attached /\ h.inflight # <<>> /\ Head(u).after = h.inflight[Len(h.inflight)]
  BY DEF InFlight, Last
<1>2. PICK after \in Nat : after = Head(u).after
  BY DEF Command
<1>3. PICK f : f = [h EXCEPT !.cursor = after, !.inflight = <<>>]
  OBVIOUS
<1>4. PICK k : k = Flush(f, p)
  OBVIOUS
<1>5. PICK m : m = Result("ack", TRUE)
  OBVIOUS
<1>6. e = Post(k, p, m)
  BY <1>2, <1>3, <1>4, <1>5 DEF Freed
<1>7. f \in Client /\ FreedFrom(f, h, after)
  BY <1>3, FreedIs
<1>8. Queued(h, q) /\ (h.lagged => h.pending = <<>>)
  BY DEF ClientSound
<1>9. /\ Queued(f, q) /\ f.attached /\ f.status = "open"
      /\ f.lagged => f.pending = <<>> /\ f.inflight = <<>>
  BY <1>1, <1>7, <1>8 DEF Queued, FreedFrom
<1>t. PICK v \in Seq(Command) : v = Tail(u)
  BY Shorter
<1>10. /\ Kept(k, f, q)
       /\ Listening(p) /\ Talk(f, v, c, a, g, n, b, q) => Talk(k, v, c, a, g, n, b, q)
  <2>1. /\ f \in Client /\ v \in Seq(Command) /\ c \in Seq(Received) /\ a \in BOOLEAN /\ g \in Nat
        /\ n \in Nat /\ b \in BOOLEAN /\ q \in Int
    BY <1>7
  <2>2. f.attached /\ f.status = "open"
    BY <1>9
  <2>3. Queued(f, q)
    BY <1>9
  <2>4. f.lagged => f.pending = <<>> /\ f.inflight = <<>>
    BY <1>9
  <2> QED
    BY ONLY <1>4, <2>1, <2>2, <2>3, <2>4, FlushKeeps
<1>11. Answers(k.down) = Answers(f.down)
  BY <1>4, <1>7, FlushAnswersNone
<1>12. m \in Answer /\ k \in Client
  BY <1>5, <1>10 DEF Answer, Result, Kept
<1>13. e \in Client /\ SameButDown(e, k) /\ (Listening(p) => e.down = Append(k.down, m))
  BY ONLY <1>6, <1>12, PostTells
<1>14. Kept(e, h, q)
  <2>1. ClientSound(e, q)
    BY <1>10, <1>13, PostedIsSound DEF Kept
  <2> QED
    BY <1>7, <1>10, <1>13, <2>1 DEF Kept, SameButDown, FreedFrom
<1>15. ASSUME Listening(p), c # <<>>, Talk(h, u, c, a, g, n, b, q)
       PROVE  Talk(e, Tail(u), c, a, g, n, b, q)
  <2>1. AckAlone(h, u, c, a, g, n, b)
    BY <1>15, TalkAck
  <2>2. a = TRUE /\ OnUp(Tail(u)) = {} /\ Answers(h.down) = {}
    BY <2>1 DEF AckAlone
  <2>3. Talk(f, Tail(u), c, a, g, n, b, q)
    <3>1. /\ f.down = h.down /\ f.status = h.status /\ f.attached = h.attached
          /\ f.inflight = <<>> /\ f.lagged = h.lagged /\ f.pending = h.pending
      BY <1>7 DEF FreedFrom
    <3>2. /\ h \in Client /\ u \in Seq(Command) /\ c \in Seq(Received) /\ a \in BOOLEAN /\ g \in Nat
          /\ n \in Nat /\ b \in BOOLEAN /\ q \in Int /\ f \in Client
      BY <1>7
    <3>3. Head(u).type = "ack" /\ u # <<>>
      OBVIOUS
    <3> QED
      BY ONLY <1>1, <1>8, <1>15, <3>1, <3>2, <3>3, TalkFreed, ZenonT(60)
  <2>4. Talk(k, v, c, a, g, n, b, q)
    BY <1>10, <1>15, <1>t, <2>3
  <2>5. Unanswered(k, v, c, a, TRUE)
    BY <1>7, <1>11, <1>15, <1>t, <2>2 DEF FreedFrom, Unanswered
  <2>6. Answering(e, k, TRUE)
    BY <1>5, <1>13, <1>15 DEF SameButDown, Answering
  <2>7. PICK ok \in BOOLEAN : ok = TRUE
    OBVIOUS
  <2>8. Unanswered(k, v, c, a, ok) /\ Answering(e, k, ok)
    BY <2>5, <2>6, <2>7
  <2>9. /\ k \in Client /\ e \in Client /\ v \in Seq(Command) /\ c \in Seq(Received) /\ g \in Nat
        /\ n \in Nat /\ b \in BOOLEAN /\ q \in Int /\ ok \in BOOLEAN /\ a \in BOOLEAN
    BY <1>12, <1>13
  <2>10. TakesAnswer(k, v, c, a, g, n, b, q)
    BY ONLY <2>4, <2>9, TalkAnswers, ZenonT(60)
  <2>11. Talk(e, v, c, a, g, n, b, q)
    BY <2>8, <2>9, <2>10 DEF TakesAnswer
  <2> QED
    BY <1>t, <2>11
<1> QED
  BY <1>14, <1>15

\* Or it is refused, because the worker has taken the batch back.
LEMMA AckIsRefused ==
    ASSUME NEW h \in Client, NEW u \in Seq(Command), NEW c \in Seq(Received), NEW a \in BOOLEAN,
           NEW g \in Nat, NEW n \in Nat, NEW b \in BOOLEAN, NEW q \in Int, NEW p,
           u # <<>>, Head(u).type = "ack", h.status = "open", ClientSound(h, q),
           ~InFlight(h, Head(u)),
           NEW e, e = Post(h, p, Result("ack", FALSE))
    PROVE  /\ e \in Client /\ ClientSound(e, q) /\ SameButDown(e, h)
           /\ Listening(p) /\ c # <<>> /\ Talk(h, u, c, a, g, n, b, q) =>
                  Talk(e, Tail(u), c, a, g, n, b, q)
<1>1. PICK m \in Answer : m = Result("ack", FALSE)
  BY DEF Answer, Result
<1>2. e \in Client /\ SameButDown(e, h) /\ (Listening(p) => e.down = Append(h.down, m))
  BY <1>1, PostTells
<1>3. ClientSound(e, q)
  BY <1>2, PostedIsSound
<1>4. ~Matches(h, Head(u).batch, Head(u).after)
  BY DEF InFlight, Matches, Last
<1>5. ASSUME Listening(p), c # <<>>, Talk(h, u, c, a, g, n, b, q)
      PROVE  Talk(e, Tail(u), c, a, g, n, b, q)
  <2>1. AckAlone(h, u, c, a, g, n, b)
    BY <1>5, TalkAck
  <2>2. a = TRUE /\ OnUp(Tail(u)) = {} /\ Answers(h.down) = {}
    BY <2>1 DEF AckAlone
  <2>3. ~Calm(h.down) /\ Talk(h, Tail(u), c, a, g, n, b, q)
    BY <1>4, <1>5, TalkOverdue
  <2>v. PICK v \in Seq(Command) : v = Tail(u)
    BY Shorter
  <2>4. Talk(h, v, c, a, g, n, b, q)
    BY <2>3, <2>v
  <2>5. Unanswered(h, v, c, a, FALSE)
    BY <1>5, <2>2, <2>3, <2>v DEF Unanswered
  <2>6. Answering(e, h, FALSE)
    BY <1>1, <1>2, <1>5 DEF SameButDown, Answering
  <2>7. PICK ok \in BOOLEAN : ok = FALSE
    OBVIOUS
  <2>8. Unanswered(h, v, c, a, ok) /\ Answering(e, h, ok)
    BY <2>5, <2>6, <2>7
  <2>9. /\ h \in Client /\ e \in Client /\ v \in Seq(Command) /\ c \in Seq(Received) /\ g \in Nat
        /\ n \in Nat /\ b \in BOOLEAN /\ q \in Int /\ ok \in BOOLEAN /\ a \in BOOLEAN
    BY <1>2
  <2>10. TakesAnswer(h, v, c, a, g, n, b, q)
    BY ONLY <2>4, <2>9, TalkAnswers, ZenonT(60)
  <2>11. Talk(e, v, c, a, g, n, b, q)
    BY <2>8, <2>9, <2>10 DEF TakesAnswer
  <2> QED
    BY <2>v, <2>11
<1> QED
  BY <1>2, <1>3, <1>5

\* What ack() answers, whichever way.
AckDone(h, p, x) ==
    IF InFlight(h, x) THEN Post(Freed(h, p, x.after), p, Result("ack", TRUE))
                      ELSE Post(h, p, Result("ack", FALSE))

AckTaken(e, h, u, c, a, g, n, b, p, q) ==
    /\ e \in Client /\ ClientSound(e, q) /\ e.attached = h.attached /\ e.status = h.status
    /\ Listening(p) /\ c # <<>> /\ Talk(h, u, c, a, g, n, b, q) =>
           Talk(e, Tail(u), c, a, g, n, b, q)

\* An acknowledgement, taken or refused, keeps the subscription and the conversation.
LEMMA AckKeeps ==
    ASSUME NEW h \in Client, NEW u \in Seq(Command), NEW c \in Seq(Received), NEW a \in BOOLEAN,
           NEW g \in Nat, NEW n \in Nat, NEW b \in BOOLEAN, NEW q \in Int, NEW p,
           u # <<>>, Head(u).type = "ack", h.status = "open", ClientSound(h, q),
           NEW e, e = AckDone(h, p, Head(u))
    PROVE  AckTaken(e, h, u, c, a, g, n, b, p, q)
<1>1. CASE InFlight(h, Head(u))
  <2>1. e = Post(Freed(h, p, Head(u).after), p, Result("ack", TRUE))
    BY <1>1 DEF AckDone
  <2>2. Head(u) \in Command
    BY Shorter
  <2>3. h.attached = TRUE
    BY <1>1 DEF InFlight, Client
  <2>4. /\ Kept(e, h, q)
        /\ Listening(p) /\ c # <<>> /\ Talk(h, u, c, a, g, n, b, q) =>
               Talk(e, Tail(u), c, a, g, n, b, q)
    BY <1>1, <2>1, <2>2, AckFrees
  <2>5. e.attached = TRUE
    BY <2>4 DEF Kept, Client
  <2> QED
    BY <2>3, <2>4, <2>5 DEF Kept, AckTaken
<1>2. CASE ~InFlight(h, Head(u))
  <2>1. e = Post(h, p, Result("ack", FALSE))
    BY <1>2 DEF AckDone
  <2>2. /\ e \in Client /\ ClientSound(e, q) /\ SameButDown(e, h)
        /\ Listening(p) /\ c # <<>> /\ Talk(h, u, c, a, g, n, b, q) =>
               Talk(e, Tail(u), c, a, g, n, b, q)
    BY <1>2, <2>1, AckIsRefused
  <2> QED
    BY <2>2 DEF SameButDown, AckTaken
<1> QED
  BY <1>1, <1>2

\* A tab whose acknowledgement is under way has its batch in the chain.
LEMMA AckedIsThere ==
    ASSUME BrokerIInv, NEW p \in Ports, p = Port(p[1]), Speaks(p[1]),
           up[p] # <<>>, Head(up[p]).type = "ack"
    PROVE  chain[p[1]] # <<>>
<1>1. Says(p[1], host[p], up[p], source.position) /\ up[p] \in Seq(Command) /\ p[1] \in Tabs
  BY Speaking, PortIs
<1>2. 1 \in OnUp(up[p])
  <2>1. 1 \in 1 .. Len(up[p]) /\ Head(up[p]) = up[p][1]
    BY <1>1, EmptySeq, LenProperties
  <2> QED
    BY <2>1 DEF OnUp
<1>3. acking[p[1]]
  BY <1>1, <1>2 DEF Says, Talk, OneBatch
<1> QED
  BY <1>1, <1>3, TabIs DEF TabSound

\* ack() keeps the invariant, whether it takes the batch or refuses it.
LEMMA HostAckStep ==
    ASSUME BrokerIInv, NEW p \in Ports, HostAck(p)
    PROVE  BrokerIInv'
<1>1. /\ TabsStand /\ host[p].status = "open" /\ host[p].waiting = "no"
      /\ up[p] # <<>> /\ Head(up[p]).type = "ack"
      /\ Tail(up[p]) \in Seq(Command) /\ up' = [up EXCEPT ![p] = Tail(up[p])] /\ ~Unspoken(p)
  BY Handled DEF HostAck
<1>2. PICK h : h = AckDone(host[p], p, Head(up[p]))
  OBVIOUS
<1>3. host' = [host EXCEPT ![p] = h] /\ source' = source
  <2>1. host \in [Ports -> Client]
    BY DEF BrokerIInv, BrokerTypeOK
  <2> QED
    BY <1>2, <2>1 DEF HostAck, AckDone
<1>4. /\ host[p] \in Client /\ ClientSound(host[p], source.position) /\ source.position \in Int
      /\ up[p] \in Seq(Command) /\ p[1] \in Tabs
  BY PortIs
<1>5. PICK c \in Seq(Received), a \in BOOLEAN, g \in Nat, n \in Nat, b \in BOOLEAN :
         Tells(p[1], c, a, g, n, b)
  BY <1>4, TabTells
<1>6. \A k, v, q : Says(p[1], k, v, q) <=> Talk(k, v, c, a, g, n, b, q)
  BY ONLY <1>5, SaysIs
<1>t. AckTaken(h, host[p], up[p], c, a, g, n, b, p, source.position)
  <2>1. /\ c \in Seq(Received) /\ a \in BOOLEAN /\ g \in Nat /\ n \in Nat /\ b \in BOOLEAN
    OBVIOUS
  <2>2. /\ host[p] \in Client /\ ClientSound(host[p], source.position) /\ source.position \in Int
        /\ up[p] \in Seq(Command)
    BY <1>4
  <2>3. host[p].status = "open" /\ up[p] # <<>> /\ Head(up[p]).type = "ack"
    BY <1>1
  <2> QED
    BY ONLY <1>2, <2>1, <2>2, <2>3, AckKeeps, ZenonT(60)
<1>7. /\ h \in Client /\ ClientSound(h, source.position) /\ h.attached = host[p].attached
      /\ h.status = host[p].status
      /\ Listening(p) /\ c # <<>> /\ Talk(host[p], up[p], c, a, g, n, b, source.position) =>
             Talk(h, Tail(up[p]), c, a, g, n, b, source.position)
  BY <1>t DEF AckTaken
<1>8. ASSUME p = Port(p[1]), Speaks(p[1])
      PROVE  Says(p[1], h, Tail(up[p]), source.position)
  <2>1. Says(p[1], host[p], up[p], source.position) /\ Listening(p)
    BY <1>8, Speaking
  <2>2. c # <<>>
    BY <1>1, <1>5, <1>8, AckedIsThere DEF Tells
  <2>3. Talk(host[p], up[p], c, a, g, n, b, source.position)
    BY <1>6, <2>1
  <2>4. Talk(h, Tail(up[p]), c, a, g, n, b, source.position)
    BY <1>7, <2>1, <2>2, <2>3
  <2> QED
    BY <1>6, <2>4
<1>p. Parted(host[p], up[p]) => Parted(h, Tail(up[p]))
  BY <1>1, <1>4, <1>7, PartedLess
<1>9. PortKeeps(p, h, Tail(up[p]))
  BY <1>1, <1>3, <1>7, <1>8, <1>p DEF PortKeeps
<1>10. SourceSteps
  BY <1>3, <1>7, PhaseHolds
<1> QED
  BY <1>1, <1>9, <1>10, PortStep

-----------------------------------------------------------------------------
(***************************************************************************)
(* The timer, the loss of the worker and the source itself.                *)
(***************************************************************************)
LEMMA IdleTeardownStep ==
    ASSUME BrokerIInv, IdleTeardown
    PROVE  BrokerIInv'
<1>1. /\ source.timer /\ host' = host /\ up' = up /\ TabsStand
      /\ source' = IF Unused THEN NoSource ELSE [source EXCEPT !.timer = FALSE]
  BY DEF IdleTeardown, TabsStand
<1>2. /\ host \in [Ports -> Client] /\ up \in [Ports -> Seq(Command)] /\ source \in Source
      /\ OpenWhileHeld /\ RunTo(source.log, source.position)
  BY DEF BrokerIInv, BrokerTypeOK, SourceSound
<1>3. SourceSteps /\ source'.position \in Int
      /\ \A p \in Ports : source'.position = source.position \/ ~host[p].attached
  <2>1. CASE Unused
    <3>1. source' = NoSource
      BY <1>1, <2>1
    <3>2. {p \in Ports : host'[p].attached} = {} /\ \A p \in Ports : ~host[p].attached
      BY <1>1, <2>1 DEF Unused, Subscribed
    <3> QED
      BY <3>1, <3>2, NoSourceIsOne DEF SourceSteps, RunTo
  <2>2. CASE ~Unused
    <3>1. source' = [source EXCEPT !.timer = FALSE]
      BY <1>1, <2>2
    <3>a. source.position \in Nat
      BY <1>2 DEF Source
    <3>b. source' \in Source
      BY <1>2, <3>1 DEF Source
    <3>2. /\ source' \in Source /\ source'.phase = source.phase /\ ~source'.timer
          /\ source'.position = source.position /\ source'.log = source.log
          /\ source'.position \in Int
      <4>1. source'.phase = source.phase /\ source'.position = source.position /\ source'.log = source.log
        BY <1>2, <3>1 DEF Source
      <4>2. source'.timer = FALSE
        BY <1>2, <3>1 DEF Source
      <4> QED
        BY <3>a, <3>b, <4>1, <4>2
    <3>3. {p \in Ports : host'[p].attached} # {} /\ source.phase # "none"
      BY <1>1, <1>2, <2>2 DEF Unused, Subscribed, OpenWhileHeld
    <3> QED
      BY <1>2, <3>2, <3>3 DEF SourceSteps
  <2> QED
    BY <2>1, <2>2
<1>4. \A p \in Ports : WorkerKeeps(p)
  BY <1>1, <1>3, PortStays
<1> QED
  BY <1>1, <1>2, <1>3, <1>4, WorkerStep

\* The clients of a worker that is lost.
LEMMA LostIs ==
    ASSUME NEW h \in Client, NEW e, e = [NoClient EXCEPT !.status = "closed", !.down = h.down]
    PROVE  e \in Client /\ Idle(e) /\ Gone(e, h)
<1>1. PICK d \in Seq(Answer) : d = h.down
  BY DEF Client
<1>2. PICK f : f = NoClient
  OBVIOUS
<1>3. f \in Client /\ Idle(f)
  <2>1. <<>> \in Seq(Nat) /\ <<>> \in Seq(Answer) /\ 0 \in Nat /\ FALSE \in BOOLEAN
    OBVIOUS
  <2> QED
    BY <1>2, <2>1 DEF NoClient, Client, Idle
<1>4. e = [f EXCEPT !.status = "closed", !.down = d]
  BY <1>1, <1>2
<1>5. e \in Client
  BY <1>3, <1>4 DEF Client
<1>6. /\ e.status = "closed" /\ e.down = d /\ e.attached = f.attached /\ e.pending = f.pending
      /\ e.inflight = f.inflight /\ e.lagged = f.lagged /\ e.waiting = f.waiting
  BY <1>3, <1>4 DEF Client
<1> QED
  BY <1>1, <1>3, <1>5, <1>6 DEF Idle, Gone

\* A worker that is lost leaves nothing that a lease could still wait for.
LEMMA WorkerLostStep ==
    ASSUME BrokerIInv, WorkerLost
    PROVE  BrokerIInv'
<1>1. /\ source' = NoSource /\ up' = [p \in Ports |-> <<>>] /\ TabsStand
      /\ host' = [p \in Ports |-> IF host[p].status = "none" THEN host[p]
                    ELSE [NoClient EXCEPT !.status = "closed", !.down = host[p].down]]
  BY DEF WorkerLost, TabsStand
<1>2. \A p \in Ports : /\ host[p].status = "none" => host'[p] = host[p]
                       /\ host[p].status # "none" =>
                             /\ Idle(host'[p]) /\ Gone(host'[p], host[p]) /\ host'[p] \in Client
  <2> SUFFICES ASSUME NEW p \in Ports, host[p].status # "none"
               PROVE  Idle(host'[p]) /\ Gone(host'[p], host[p]) /\ host'[p] \in Client
    BY <1>1
  <2>1. host'[p] = [NoClient EXCEPT !.status = "closed", !.down = host[p].down]
    BY <1>1
  <2> QED
    BY <2>1, PortIs, LostIs
<1>3. \A p \in Ports : host'[p] \in Client /\ ~host'[p].attached /\ Gone(host'[p], host[p])
                       /\ host'[p].waiting \notin {"attach", "reattach"}
                       /\ host'[p].pending = <<>> /\ host'[p].inflight = <<>>
  <2> SUFFICES ASSUME NEW p \in Ports
               PROVE  host'[p] \in Client /\ ~host'[p].attached /\ Gone(host'[p], host[p])
                      /\ host'[p].waiting \notin {"attach", "reattach"}
                      /\ host'[p].pending = <<>> /\ host'[p].inflight = <<>>
    OBVIOUS
  <2>1. CASE host[p].status = "none"
    <3>1. host'[p] = host[p] /\ host[p] \in Client /\ ClientSound(host[p], source.position)
      BY <1>2, <2>1, PortIs
    <3> QED
      BY <2>1, <3>1 DEF ClientSound, Gone
  <2>2. CASE host[p].status # "none"
    BY <1>2, <2>2 DEF Idle
  <2> QED
    BY <2>1, <2>2
<1>4. host' \in [Ports -> Client] /\ up' \in [Ports -> Seq(Command)]
  <2>1. host' \in [Ports -> Client]
    <3>1. \A p \in Ports : (IF host[p].status = "none" THEN host[p]
                    ELSE [NoClient EXCEPT !.status = "closed", !.down = host[p].down]) \in Client
      BY <1>1, <1>3
    <3> QED
      BY <1>1, <3>1
  <2>2. <<>> \in Seq(Command)
    OBVIOUS
  <2> QED
    BY <1>1, <2>1, <2>2
<1>5. SourceSteps /\ source'.position \in Int
  <2>1. {p \in Ports : host'[p].attached} = {}
    BY <1>3
  <2>2. RunTo(<<>>, 0)
    BY DEF RunTo
  <2>3. /\ source' \in Source /\ source'.phase = "none" /\ ~source'.timer
        /\ source'.log = <<>> /\ source'.position = 0
    BY <1>1, NoSourceIsOne
  <2>4. RunTo(source'.log, source'.position)
    BY <2>2, <2>3
  <2> QED
    BY <2>1, <2>3, <2>4 DEF SourceSteps
<1>6. ASSUME NEW p \in Ports
      PROVE  WorkerKeeps(p)
  <2>1. ClientSound(host'[p], source'.position)
    BY <1>3, <1>5 DEF ClientSound, Queued, RunTo, Gone
  <2>2. host[p].status = "none" => host'[p].status = "none"
    BY <1>2
  <2>3. Silent(up'[p]) /\ up'[p] \in Seq(Command)
    BY <1>1, <1>4 DEF Silent
  <2>4. ASSUME p = Port(p[1]), Speaks(p[1])
        PROVE  Says(p[1], host'[p], up'[p], source'.position)
    <3>1. Says(p[1], host[p], up[p], source.position)
      BY <2>4, Speaking
    <3>2. host'[p] \in Client /\ Gone(host'[p], host[p])
      BY <1>3
    <3>3. host[p] \in Client /\ up[p] \in Seq(Command) /\ source.position \in Int /\ p[1] \in Tabs
      BY PortIs
    <3> QED
      BY <1>5, <2>3, <3>1, <3>2, <3>3, SaysSilenced
  <2>5. Parted(host'[p], up'[p])
    BY <1>3 DEF Parted, Gone
  <2> QED
    BY <1>3, <2>1, <2>2, <2>3, <2>4, <2>5 DEF WorkerKeeps, Unspoken, Gone, Silent
<1> QED
  BY <1>1, <1>4, <1>5, <1>6, WorkerStep

\* A source that becomes live keeps the invariant.
LEMMA SourceLiveStep ==
    ASSUME BrokerIInv, SourceLive
    PROVE  BrokerIInv'
<1>1. /\ source.phase = "connecting" /\ host' = host /\ up' = up /\ TabsStand
      /\ source' = [source EXCEPT !.phase = "live"]
  BY DEF SourceLive, TabsStand
<1>2. /\ host \in [Ports -> Client] /\ up \in [Ports -> Seq(Command)] /\ source \in Source
      /\ RunTo(source.log, source.position)
  BY DEF BrokerIInv, BrokerTypeOK, SourceSound
<1>3. /\ source' \in Source /\ source'.phase = "live" /\ source'.timer = source.timer
      /\ source'.position = source.position /\ source'.log = source.log /\ source.position \in Int
  <2>1. "live" \in Phases
    BY DEF Phases
  <2>2. source \in Source /\ source' = [source EXCEPT !.phase = "live"]
    BY <1>1, <1>2
  <2>3. /\ source.position \in Nat /\ source.log \in Seq(Nat)
        /\ source.truncated \in BOOLEAN /\ source.timer \in BOOLEAN
    BY ONLY <2>2 DEF Source
  <2>4. source' = [phase |-> "live", position |-> source.position, log |-> source.log,
                   truncated |-> source.truncated, timer |-> source.timer]
    BY ONLY <2>2 DEF Source
  <2>5. source' \in Source
    BY ONLY <2>1, <2>3, <2>4 DEF Source
  <2> QED
    BY ONLY <2>3, <2>4, <2>5
<1>4. SourceSteps
  BY <1>1, <1>2, <1>3, SourceHolds
<1>5. \A p \in Ports : WorkerKeeps(p)
  BY <1>1, <1>3, PortStays
<1> QED
  BY <1>1, <1>2, <1>4, <1>5, WorkerStep

\* The source ends by itself, and every subscription is told.
LEMMA SourceEnds ==
    ASSUME BrokerIInv, NEW phase \in Phases \ {"none"}, source.phase # "none",
           source' = [source EXCEPT !.phase = phase],
           NEW m \in Answer, Ender(m), m.type = "state", host' = Told(m),
           UNCHANGED <<up, tabVars, history>>
    PROVE  BrokerIInv'
<1>1. /\ host \in [Ports -> Client] /\ up \in [Ports -> Seq(Command)] /\ source \in Source
      /\ RunTo(source.log, source.position) /\ up' = up /\ TabsStand
  BY DEF BrokerIInv, BrokerTypeOK, SourceSound, TabsStand
<1>2. /\ source' \in Source /\ source'.phase = phase /\ source'.timer = source.timer
      /\ source'.position = source.position /\ source'.log = source.log
  BY <1>1 DEF Source
<1>i. source.position \in Int /\ source'.position \in Int
  BY <1>1, <1>2 DEF Source
<1>3. \A p \in Ports : host'[p] = IF host[p].attached THEN Post(host[p], p, m) ELSE host[p]
  BY DEF Told
<1>4. ASSUME NEW p \in Ports, host[p].attached
      PROVE  host'[p] \in Client /\ host'[p].attached /\ WorkerKeeps(p)
  <2>1. PICK h : h = host'[p]
    OBVIOUS
  <2>2. /\ host[p] \in Client /\ ClientSound(host[p], source.position) /\ up[p] \in Seq(Command)
        /\ p[1] \in Tabs
    BY PortIs
  <2>3. h = Post(host[p], p, m)
    BY <1>3, <1>4, <2>1
  <2>4. h \in Client /\ SameButDown(h, host[p]) /\ (Listening(p) => h.down = Append(host[p].down, m))
    BY <2>2, <2>3, PostTells
  <2>5. ClientSound(h, source.position)
    BY <2>2, <2>4, PostedIsSound
  <2>6. ASSUME p = Port(p[1]), Speaks(p[1])
        PROVE  Says(p[1], h, up[p], source.position)
    <3>1. Says(p[1], host[p], up[p], source.position) /\ Listening(p)
      BY <2>6, Speaking
    <3>2. PICK c \in Seq(Received), a \in BOOLEAN, g \in Nat, n \in Nat, b \in BOOLEAN :
             Tells(p[1], c, a, g, n, b)
      BY <2>2, TabTells
    <3>3. \A k, v, q : Says(p[1], k, v, q) <=> Talk(k, v, c, a, g, n, b, q)
      BY ONLY <3>2, SaysIs
    <3>4. Talk(host[p], up[p], c, a, g, n, b, source.position)
      BY <3>1, <3>3
    <3>5. /\ h.down = Append(host[p].down, m)
          /\ h.attached /\ h.inflight # <<>> => h.inflight = host[p].inflight /\ h.batch = host[p].batch
      BY <2>4, <3>1 DEF SameButDown
    <3>6. Talk(h, up[p], c, a, g, n, b, source.position)
      <4>1. m.type # "batch" /\ (m.type = "result" => m.of # "ack")
        OBVIOUS
      <4>2. /\ c \in Seq(Received) /\ a \in BOOLEAN /\ g \in Nat /\ n \in Nat /\ b \in BOOLEAN
            /\ m \in Answer /\ Ender(m)
        OBVIOUS
      <4>3. host[p] \in Client /\ up[p] \in Seq(Command) /\ source.position \in Int /\ host[p].attached
        BY <1>i, <1>4, <2>2
      <4> QED
        BY ONLY <3>4, <3>5, <4>1, <4>2, <4>3, TalkEnds, ZenonT(60)
    <3> QED
      BY <3>3, <3>6
  <2>7. Parted(host[p], up[p]) => Parted(h, up[p])
    BY <2>4, PartedStays DEF SameButDown
  <2> QED
    BY <1>1, <1>2, <1>4, <2>1, <2>4, <2>5, <2>6, <2>7 DEF WorkerKeeps, Unspoken, SameButDown, ClientSound
<1>5. ASSUME NEW p \in Ports, ~host[p].attached
      PROVE  host'[p] = host[p] /\ WorkerKeeps(p)
  BY <1>1, <1>2, <1>i, <1>3, <1>5, PortStays
<1>6. \A p \in Ports : WorkerKeeps(p) /\ host'[p] \in Client /\ host'[p].attached = host[p].attached
  <2> SUFFICES ASSUME NEW p \in Ports
               PROVE  WorkerKeeps(p) /\ host'[p] \in Client /\ host'[p].attached = host[p].attached
    OBVIOUS
  <2>1. CASE host[p].attached
    BY <1>1, <1>4, <2>1 DEF Client
  <2>2. CASE ~host[p].attached
    BY <1>1, <1>5, <2>2
  <2> QED
    BY <2>1, <2>2
<1>7. host' \in [Ports -> Client]
  BY <1>6 DEF Told
<1>8. SourceSteps
  BY <1>1, <1>2, <1>6, SourceHolds
<1> QED
  BY <1>1, <1>6, <1>7, <1>8, WorkerStep

\* A source that fails tells every subscription.
LEMMA SourceFailsStep ==
    ASSUME BrokerIInv, SourceFails
    PROVE  BrokerIInv'
<1>1. PICK m : m = State("error")
  OBVIOUS
<1>2. m \in Answer /\ Ender(m) /\ m.type = "state"
  BY <1>1 DEF Answer, State, Ender
<1>3. /\ source.phase # "none" /\ source' = [source EXCEPT !.phase = "error"]
      /\ host' = Told(m) /\ UNCHANGED <<up, tabVars, history>>
  BY <1>1 DEF SourceFails
<1> QED
  BY <1>2, <1>3, SourceEnds DEF Phases

\* A source that closes tells every subscription.
LEMMA SourceClosesStep ==
    ASSUME BrokerIInv, SourceCloses
    PROVE  BrokerIInv'
<1>1. PICK m : m = State("closed")
  OBVIOUS
<1>2. m \in Answer /\ Ender(m) /\ m.type = "state"
  BY <1>1 DEF Answer, State, Ender
<1>3. /\ source.phase # "none" /\ source' = [source EXCEPT !.phase = "closed"]
      /\ host' = Told(m) /\ UNCHANGED <<up, tabVars, history>>
  BY <1>1 DEF SourceCloses
<1> QED
  BY <1>2, <1>3, SourceEnds DEF Phases

\* The retained log goes on with the next sequence and drops its oldest.
LEMMA RunsOn ==
    ASSUME NEW t \in Seq(Nat), NEW q \in Int, RunTo(t, q), NEW r \in Nat, IsNext(r, q),
           NEW s, s = Append(t, r)
    PROVE  s \in Seq(Nat) /\ RunTo(s, r) /\ s # <<>>
<1>1. /\ s \in Seq(Nat) /\ s # <<>> /\ Len(s) = Len(t) + 1 /\ s[Len(s)] = r
      /\ \A i \in 1 .. Len(t) : s[i] = t[i]
  BY Queues
<1>2. Len(t) \in Nat /\ r = q + 1
  BY LenProperties DEF IsNext
<1>3. ASSUME NEW i \in 1 .. Len(s)
      PROVE  s[i] = r - Len(s) + i
  <2>1. CASE i \in 1 .. Len(t)
    <3>1. s[i] = t[i] /\ t[i] = q - Len(t) + i
      BY <1>1, <2>1 DEF RunTo
    <3> QED
      BY <1>1, <1>2, <3>1
  <2>2. CASE i = Len(s)
    BY <1>1, <1>2, <2>2
  <2> QED
    BY <1>1, <1>2, <2>1, <2>2
<1> QED
  BY <1>1, <1>3 DEF RunTo

\* A log that loses its first entry still runs up to the position.
LEMMA RunsBehind ==
    ASSUME NEW s \in Seq(Nat), s # <<>>, NEW r \in Int, RunTo(s, r)
    PROVE  Tail(s) \in Seq(Nat) /\ RunTo(Tail(s), r)
<1>1. /\ Tail(s) \in Seq(Nat) /\ Len(s) \in Nat \ {0} /\ Len(Tail(s)) = Len(s) - 1
      /\ \A i \in 1 .. Len(s) - 1 : Tail(s)[i] = s[i + 1]
  BY Shorter
<1>2. ASSUME NEW i \in 1 .. Len(Tail(s))
      PROVE  Tail(s)[i] = r - Len(Tail(s)) + i
  <2>1. i \in 1 .. Len(s) - 1 /\ i + 1 \in 1 .. Len(s)
    BY <1>1
  <2>2. s[i + 1] = r - Len(s) + (i + 1)
    BY <2>1 DEF RunTo
  <2> QED
    BY <1>1, <2>1, <2>2
<1> QED
  BY <1>1, <1>2 DEF RunTo

\* appendDelivery() keeps the invariant for every subscription at once.
LEMMA SourceDeliversStep ==
    ASSUME BrokerIInv, SourceDelivers
    PROVE  BrokerIInv'
<1>1. /\ host \in [Ports -> Client] /\ up \in [Ports -> Seq(Command)] /\ source \in Source
      /\ RunTo(source.log, source.position)
      /\ source.position \in Nat /\ source.log \in Seq(Nat) /\ source.truncated \in BOOLEAN
  BY DEF BrokerIInv, BrokerTypeOK, SourceSound, Source
<1>2. PICK s \in Nat : s = source.position + 1
  BY <1>1
<1>3. PICK log : log = Append(source.log, s)
  OBVIOUS
<1>4. /\ source.phase = "live" /\ up' = up /\ TabsStand
      /\ source' = [source EXCEPT !.position = s,
              !.log = IF Len(log) > MaxRetained THEN Tail(log) ELSE log,
              !.truncated = @ \/ Len(log) > MaxRetained]
      /\ host' = [p \in Ports |-> IF host[p].attached THEN Enqueue(host[p], p, s) ELSE host[p]]
  BY <1>2, <1>3 DEF SourceDelivers, TabsStand
<1>10. IsNext(s, source.position)
  BY <1>2 DEF IsNext
<1>5. log \in Seq(Nat) /\ RunTo(log, s) /\ log # <<>>
  <2>1. source.log \in Seq(Nat) /\ source.position \in Int /\ RunTo(source.log, source.position) /\ s \in Nat
    BY <1>1
  <2> QED
    BY ONLY <1>3, <1>10, <2>1, RunsOn
<1>6. PICK kept \in Seq(Nat) : /\ kept = IF Len(log) > MaxRetained THEN Tail(log) ELSE log
                               /\ RunTo(kept, s)
  <2>1. Tail(log) \in Seq(Nat) /\ RunTo(Tail(log), s)
    <3>1. s \in Int
      OBVIOUS
    <3> QED
      BY ONLY <1>5, <3>1, RunsBehind
  <2> QED
    BY <1>5, <2>1
<1>7. PICK over \in BOOLEAN : over = (source.truncated \/ Len(log) > MaxRetained)
  OBVIOUS
<1>8. source' = [source EXCEPT !.position = s, !.log = kept, !.truncated = over]
  BY <1>4, <1>6, <1>7
<1>9. /\ source' \in Source /\ source'.phase = source.phase /\ source'.timer = source.timer
      /\ source'.position = s /\ source'.log = kept
  BY <1>1, <1>8 DEF Source
<1>11. ASSUME NEW p \in Ports, host[p].attached
       PROVE  host'[p] \in Client /\ host'[p].attached /\ WorkerKeeps(p)
  <2>1. PICK h : h = host'[p]
    OBVIOUS
  <2>2. /\ host[p] \in Client /\ ClientSound(host[p], source.position) /\ up[p] \in Seq(Command)
        /\ p[1] \in Tabs /\ source.position \in Int
    BY PortIs
  <2>3. h = Enqueue(host[p], p, s)
    BY <1>4, <1>11, <2>1
  <2>4. host[p].status = "open" /\ host[p].attached
    BY <1>11, <2>2 DEF ClientSound
  <2>5. PICK c \in Seq(Received), a \in BOOLEAN, g \in Nat, n \in Nat, b \in BOOLEAN :
           Tells(p[1], c, a, g, n, b)
    BY <2>2, TabTells
  <2>6. \A k, v, q : Says(p[1], k, v, q) <=> Talk(k, v, c, a, g, n, b, q)
    BY ONLY <2>5, SaysIs
  <2>7. /\ Kept(h, host[p], s)
        /\ Listening(p) /\ Talk(host[p], up[p], c, a, g, n, b, source.position) =>
               Talk(h, up[p], c, a, g, n, b, s)
    <3>1. /\ c \in Seq(Received) /\ a \in BOOLEAN /\ g \in Nat /\ n \in Nat /\ b \in BOOLEAN
          /\ s \in Nat
      OBVIOUS
    <3> QED
      BY ONLY <1>10, <2>2, <2>3, <2>4, <3>1, EnqueueKeeps
  <2>8. ASSUME p = Port(p[1]), Speaks(p[1])
        PROVE  Says(p[1], h, up[p], s)
    <3>1. Says(p[1], host[p], up[p], source.position) /\ Listening(p)
      BY <2>8, Speaking
    <3> QED
      BY <2>6, <2>7, <3>1
  <2>9. h \in Client /\ h.attached /\ ClientSound(h, s)
    BY <2>7 DEF Kept
  <2>10. Parted(host[p], up[p]) => Parted(h, up[p])
    BY <2>4, PartedStays
  <2> QED
    BY <1>4, <1>9, <2>1, <2>4, <2>8, <2>9, <2>10 DEF WorkerKeeps, Unspoken
<1>12. ASSUME NEW p \in Ports, ~host[p].attached
       PROVE  host'[p] = host[p] /\ WorkerKeeps(p)
  <2>1. host'[p] = host[p] /\ up'[p] = up[p]
    BY <1>4, <1>12
  <2> QED
    BY <1>9, <1>12, <2>1, PortStays
<1>13. \A p \in Ports : WorkerKeeps(p) /\ host'[p] \in Client /\ host'[p].attached = host[p].attached
  <2> SUFFICES ASSUME NEW p \in Ports
               PROVE  WorkerKeeps(p) /\ host'[p] \in Client /\ host'[p].attached = host[p].attached
    OBVIOUS
  <2>1. CASE host[p].attached
    BY <1>1, <1>11, <2>1 DEF Client
  <2>2. CASE ~host[p].attached
    BY <1>1, <1>12, <2>2
  <2> QED
    BY <2>1, <2>2
<1>14. host' \in [Ports -> Client]
  BY <1>4, <1>13
<1>15. SourceSteps
  BY <1>1, <1>6, <1>9, <1>13, SourceHolds
<1> QED
  BY <1>1, <1>4, <1>13, <1>14, <1>15, WorkerStep

-----------------------------------------------------------------------------
(***************************************************************************)
(* A step of a tab is about its own variables and about what the worker    *)
(* holds and is sent on the current port.                                  *)
(***************************************************************************)
TabState ==
    [host : Client, up : Seq(Command), generation : Nat, link : Links, again : BOOLEAN,
     lease : Leases, cursor : Nat, chain : Seq(Received), acking : BOOLEAN, seen : Nat,
     gap : BOOLEAN, blind : BOOLEAN]

StateOf(t) ==
    [host |-> host[Port(t)], up |-> up[Port(t)], generation |-> generation[t], link |-> link[t],
     again |-> reconnecting[t], lease |-> lease[t], cursor |-> cursor[t], chain |-> chain[t],
     acking |-> acking[t], seen |-> seen[t], gap |-> gap[t], blind |-> blind[t]]

Mapped == {"attaching", "attached"}
Live == Mapped \cup {"closing"}
Ported == {"hello", "reattach", "up"}

Quiet(r) == ~r.host.attached /\ r.host.down = <<>> /\ r.up = <<>>

Chained(c, g, L) ==
    \A i \in 1 .. Len(c) : c[i].generation <= g /\ (L = "connecting" => c[i].generation < g)

Conversation(r, q) ==
    Talk(r.host, r.up, r.chain, r.acking, r.generation, r.seen, r.blind, q)

\* What the invariant says of one tab.
TabHolds(r, q) ==
    /\ r.lease \in Live => r.link # "closed"
    /\ r.acking => r.lease \in Live /\ r.chain # <<>>
    /\ r.lease \in Live => Resumes(r.chain, r.acking, r.generation, r.seen, r.blind)
    /\ r.lease \in Left /\ r.link \in Ported => Parted(r.host, r.up)
    /\ r.cursor <= r.seen /\ (r.gap => r.blind) /\ r.lease # "ack"
    /\ Chained(r.chain, r.generation, r.link)
    /\ r.lease \in {"idle", "waiting"} => Quiet(r) /\ r.chain = <<>> /\ ~r.acking /\ r.seen = 0
    /\ r.link = "connecting" => Quiet(r) /\ r.host.status = "none"
    /\ r.lease \in Mapped /\ r.link \in Ported => Conversation(r, q)

\* The invariant, said of the record of one tab.
LEMMA TabViewed ==
    ASSUME BrokerIInv, NEW t \in Tabs
    PROVE  /\ StateOf(t) \in TabState /\ TabHolds(StateOf(t), source.position)
           /\ ClientSound(StateOf(t).host, source.position) /\ source.position \in Int
<1>1. generation[t] \in 1 .. MaxGenerations[t] /\ link[t] \in Links /\ reconnecting[t] \in BOOLEAN
      /\ lease[t] \in Leases /\ cursor[t] \in Nat /\ chain[t] \in Seq(Received)
      /\ acking[t] \in BOOLEAN /\ seen[t] \in Nat /\ gap[t] \in BOOLEAN /\ blind[t] \in BOOLEAN
      /\ generation[t] \in Nat
  BY DEF BrokerIInv, BrokerTypeOK
<1>2. Port(t) \in Ports /\ Port(t)[1] = t /\ Port(t)[2] = generation[t]
  BY <1>1, PortIsOne
<1>3. /\ host[Port(t)] \in Client /\ up[Port(t)] \in Seq(Command) /\ source.position \in Int
      /\ ClientSound(host[Port(t)], source.position)
  BY <1>2, PortIs
<1>4. TabSound(t) /\ Talks(t)
  BY TabIs
<1>5. PICK r : r = StateOf(t)
  OBVIOUS
<1>6. /\ r.host = host[Port(t)] /\ r.up = up[Port(t)] /\ r.generation = generation[t]
      /\ r.link = link[t] /\ r.again = reconnecting[t] /\ r.lease = lease[t]
      /\ r.cursor = cursor[t] /\ r.chain = chain[t] /\ r.acking = acking[t]
      /\ r.seen = seen[t] /\ r.gap = gap[t] /\ r.blind = blind[t]
  BY <1>5 DEF StateOf
<1>7. TabHolds(r, source.position)
  <2>1. r.link = "connecting" => Quiet(r) /\ r.host.status = "none"
    BY <1>2, <1>4, <1>6 DEF TabSound, Later, Unspoken, Quiet
  <2>2. r.lease \in {"idle", "waiting"} => Quiet(r)
    BY <1>2, <1>4, <1>6 DEF TabSound, Unspoken, Quiet
  <2>3. r.lease \in Mapped <=> InMap(t)
    BY <1>6 DEF InMap, Mapped
  <2>4. r.link \in Ported <=> HasPort(t)
    BY <1>6 DEF HasPort, Ported
  <2>5. r.lease \in Mapped /\ r.link \in Ported => Conversation(r, source.position)
    BY <1>4, <1>6, <2>3, <2>4 DEF Talks, Conversation
  <2>6. r.lease \in Live <=> Accepting(t)
    BY <1>6, <2>3 DEF Accepting, Live
  <2>7. /\ r.lease \in Live => r.link # "closed"
        /\ r.acking => r.lease \in Live /\ r.chain # <<>>
        /\ r.lease \in Live => Resumes(r.chain, r.acking, r.generation, r.seen, r.blind)
        /\ r.lease \in Left /\ r.link \in Ported => Parted(r.host, r.up)
    BY <1>4, <1>6, <2>4, <2>6 DEF TabSound
  <2>8. Chained(r.chain, r.generation, r.link)
    BY <1>4, <1>6 DEF TabSound, Chained
  <2> QED
    BY <1>4, <1>6, <2>1, <2>2, <2>3, <2>5, <2>7, <2>8 DEF TabSound, TabHolds
<1>8. r \in TabState
  BY <1>1, <1>3, <1>5 DEF StateOf, TabState
<1> QED
  BY <1>3, <1>5, <1>6, <1>7, <1>8

\* What a step of tab t makes of its variables.
TabMoved(t, s) ==
    /\ source' = source
    /\ host' = [host EXCEPT ![Port(t)] = s.host] /\ up' = [up EXCEPT ![Port(t)] = s.up]
    /\ generation' = [generation EXCEPT ![t] = s.generation]
    /\ link' = [link EXCEPT ![t] = s.link] /\ reconnecting' = [reconnecting EXCEPT ![t] = s.again]
    /\ lease' = [lease EXCEPT ![t] = s.lease] /\ cursor' = [cursor EXCEPT ![t] = s.cursor]
    /\ chain' = [chain EXCEPT ![t] = s.chain] /\ acking' = [acking EXCEPT ![t] = s.acking]
    /\ seen' = [seen EXCEPT ![t] = s.seen]
    /\ gap' = [gap EXCEPT ![t] = s.gap] /\ blind' = [blind EXCEPT ![t] = s.blind]

SubscriptionStays(e, h) ==
    /\ e.attached = h.attached /\ e.pending = h.pending /\ e.inflight = h.inflight
    /\ e.batch = h.batch /\ e.lagged = h.lagged /\ e.waiting = h.waiting
    /\ h.attached => e.status = h.status

\* It leaves the other tabs and their ports alone, and every subscription.
TabMoves(t) ==
    /\ source' = source
    /\ \A p \in Ports \ {Port(t)} : host'[p] = host[p] /\ up'[p] = up[p]
    /\ SubscriptionStays(host'[Port(t)], host[Port(t)])
    /\ \A s \in Tabs \ {t} :
          /\ generation'[s] = generation[s] /\ link'[s] = link[s] /\ lease'[s] = lease[s]
          /\ cursor'[s] = cursor[s] /\ chain'[s] = chain[s] /\ acking'[s] = acking[s]
          /\ seen'[s] = seen[s] /\ gap'[s] = gap[s] /\ blind'[s] = blind[s]

\* A step of one tab keeps the invariant when it keeps it for that tab.
LEMMA TabsStep ==
    ASSUME BrokerIInv, NEW t \in Tabs, BrokerTypeOK', TabMoves(t), TabSound(t)', Talks(t)'
    PROVE  BrokerIInv'
<1>2. \A s \in Tabs : Port(s) \in Ports /\ Port(s)[1] = s
  BY PortIsOne DEF BrokerIInv, BrokerTypeOK
<1>4. \A p \in Ports : SubscriptionStays(host'[p], host[p])
  BY DEF TabMoves, SubscriptionStays
<1>5. SourceSound'
  <2>1. Subscribed' = Subscribed
    BY <1>4 DEF Subscribed, SubscriptionStays
  <2>2. source' = source /\ SourceSound
    BY DEF TabMoves, BrokerIInv
  <2> QED
    BY <2>1, <2>2 DEF SourceSound, OpenWhileHeld
<1>6. \A p \in Ports : ClientSound(host[p], source.position)'
  <2>1. source' = source
    BY DEF TabMoves
  <2> QED
    BY <1>4, <2>1 DEF BrokerIInv, ClientSound, Queued, SubscriptionStays
<1>7. ASSUME NEW s \in Tabs, s # t
      PROVE  TabSound(s)' /\ Talks(s)'
  <2>1. TabSound(s) /\ Talks(s)
    BY TabIs
  <2>2. /\ generation'[s] = generation[s] /\ link'[s] = link[s] /\ lease'[s] = lease[s]
        /\ cursor'[s] = cursor[s] /\ chain'[s] = chain[s] /\ acking'[s] = acking[s]
        /\ seen'[s] = seen[s] /\ gap'[s] = gap[s] /\ blind'[s] = blind[s]
    BY <1>7 DEF TabMoves
  <2>3. \A p \in Ports : p[1] = s => host'[p] = host[p] /\ up'[p] = up[p]
    BY <1>2, <1>7 DEF TabMoves
  <2>4. InMap(s)' = InMap(s) /\ Later(s)' = Later(s) /\ Port(s)' = Port(s) /\ HasPort(s)' = HasPort(s)
    BY <2>2 DEF InMap, Later, Port, HasPort
  <2>5. \A p \in Ports : p[1] = s => Unspoken(p)' = Unspoken(p)
    BY <2>3 DEF Unspoken
  <2>6. \A p \in Later(s) : p \in Ports /\ p[1] = s
    BY DEF Later
  <2>9. Accepting(s)' = Accepting(s) /\ host'[Port(s)] = host[Port(s)] /\ up'[Port(s)] = up[Port(s)]
    BY <1>2, <2>2, <2>3, <2>4 DEF Accepting
  <2>10. lease[s] \in Left /\ HasPort(s) => Parted(host[Port(s)], up[Port(s)])'
    BY <2>1, <2>4, <2>9 DEF TabSound
  <2>7. TabSound(s)'
    BY <2>1, <2>2, <2>3, <2>4, <2>5, <2>6, <2>9, <2>10 DEF TabSound
  <2>8. Talks(s)'
    <3>1. host'[Port(s)] = host[Port(s)] /\ up'[Port(s)] = up[Port(s)] /\ source' = source
      BY <1>2, <2>3 DEF TabMoves
    <3> QED
      BY <2>1, <2>2, <2>4, <3>1 DEF Talks
  <2> QED
    BY <2>7, <2>8
<1> QED
  BY <1>5, <1>6, <1>7 DEF BrokerIInv

\* What the variables hold after a step of a tab.
LEMMA MovedIs ==
    ASSUME BrokerIInv, NEW t \in Tabs, NEW s \in TabState,
           s.generation \in 1 .. MaxGenerations[t],
           TabMoved(t, s), SubscriptionStays(s.host, StateOf(t).host)
    PROVE  /\ BrokerTypeOK' /\ TabMoves(t)
           /\ host'[Port(t)] = s.host /\ up'[Port(t)] = s.up
           /\ generation'[t] = s.generation /\ link'[t] = s.link /\ lease'[t] = s.lease
           /\ cursor'[t] = s.cursor /\ chain'[t] = s.chain /\ acking'[t] = s.acking
           /\ seen'[t] = s.seen /\ gap'[t] = s.gap /\ blind'[t] = s.blind
<1>1. /\ source \in Source /\ host \in [Ports -> Client] /\ up \in [Ports -> Seq(Command)]
      /\ generation \in [Tabs -> Nat] /\ link \in [Tabs -> Links]
      /\ reconnecting \in [Tabs -> BOOLEAN] /\ lease \in [Tabs -> Leases]
      /\ cursor \in [Tabs -> Nat] /\ chain \in [Tabs -> Seq(Received)]
      /\ acking \in [Tabs -> BOOLEAN] /\ seen \in [Tabs -> Nat]
      /\ gap \in [Tabs -> BOOLEAN] /\ blind \in [Tabs -> BOOLEAN]
      /\ \A o \in Tabs : generation[o] \in 1 .. MaxGenerations[o]
  BY DEF BrokerIInv, BrokerTypeOK
<1>2. Port(t) \in Ports
  BY <1>1, PortIsOne
<1>s. /\ s.host \in Client /\ s.up \in Seq(Command) /\ s.generation \in Nat /\ s.link \in Links
      /\ s.again \in BOOLEAN /\ s.lease \in Leases /\ s.cursor \in Nat /\ s.chain \in Seq(Received)
      /\ s.acking \in BOOLEAN /\ s.seen \in Nat /\ s.gap \in BOOLEAN /\ s.blind \in BOOLEAN
  BY DEF TabState
<1>3. BrokerTypeOK'
  <2>1. source' \in Source /\ host' \in [Ports -> Client] /\ up' \in [Ports -> Seq(Command)]
    BY <1>1, <1>s DEF TabMoved
  <2>2. generation' \in [Tabs -> Nat] /\ \A o \in Tabs : generation'[o] \in 1 .. MaxGenerations[o]
    BY <1>1, <1>s DEF TabMoved
  <2>3. /\ link' \in [Tabs -> Links] /\ reconnecting' \in [Tabs -> BOOLEAN]
        /\ lease' \in [Tabs -> Leases] /\ cursor' \in [Tabs -> Nat]
    BY <1>1, <1>s DEF TabMoved
  <2>4. /\ chain' \in [Tabs -> Seq(Received)] /\ acking' \in [Tabs -> BOOLEAN]
        /\ seen' \in [Tabs -> Nat] /\ gap' \in [Tabs -> BOOLEAN] /\ blind' \in [Tabs -> BOOLEAN]
    BY <1>1, <1>s DEF TabMoved
  <2> QED
    BY <2>1, <2>2, <2>3, <2>4 DEF BrokerTypeOK
<1>4. /\ host'[Port(t)] = s.host /\ up'[Port(t)] = s.up
      /\ generation'[t] = s.generation /\ link'[t] = s.link /\ lease'[t] = s.lease
      /\ cursor'[t] = s.cursor /\ chain'[t] = s.chain /\ acking'[t] = s.acking
      /\ seen'[t] = s.seen /\ gap'[t] = s.gap /\ blind'[t] = s.blind
  BY <1>1, <1>2 DEF TabMoved
<1>5. /\ source' = source
      /\ \A p \in Ports \ {Port(t)} : host'[p] = host[p] /\ up'[p] = up[p]
  BY <1>1 DEF TabMoved
<1>6. \A o \in Tabs \ {t} :
         /\ generation'[o] = generation[o] /\ link'[o] = link[o] /\ lease'[o] = lease[o]
         /\ cursor'[o] = cursor[o] /\ chain'[o] = chain[o] /\ acking'[o] = acking[o]
         /\ seen'[o] = seen[o] /\ gap'[o] = gap[o] /\ blind'[o] = blind[o]
  BY <1>1 DEF TabMoved
<1>7. StateOf(t).host = host[Port(t)]
  BY DEF StateOf
<1> QED
  BY <1>3, <1>4, <1>5, <1>6, <1>7 DEF TabMoves

\* A step that stays on the port of the tab.
LEMMA TabStep ==
    ASSUME BrokerIInv, NEW t \in Tabs, NEW s \in TabState,
           s.generation = StateOf(t).generation, TabMoved(t, s),
           SubscriptionStays(s.host, StateOf(t).host), TabHolds(s, source.position),
           s.link = "connecting" => StateOf(t).link = "connecting",
           s.lease \in {"idle", "waiting"} => StateOf(t).lease \in {"idle", "waiting"}
    PROVE  BrokerIInv'
<1>1. /\ StateOf(t).generation = generation[t] /\ StateOf(t).link = link[t]
      /\ StateOf(t).lease = lease[t]
  BY DEF StateOf
<1>2. Port(t) \in Ports /\ Port(t)[1] = t /\ Port(t)[2] = generation[t]
      /\ generation[t] \in 1 .. MaxGenerations[t]
  BY PortIsOne DEF BrokerIInv, BrokerTypeOK
<1>3. /\ BrokerTypeOK' /\ TabMoves(t)
      /\ host'[Port(t)] = s.host /\ up'[Port(t)] = s.up
      /\ generation'[t] = s.generation /\ link'[t] = s.link /\ lease'[t] = s.lease
      /\ cursor'[t] = s.cursor /\ chain'[t] = s.chain /\ acking'[t] = s.acking
      /\ seen'[t] = s.seen /\ gap'[t] = s.gap /\ blind'[t] = s.blind
  BY <1>1, <1>2, MovedIs
<1>5. /\ \A p \in Ports : p # Port(t) => host'[p] = host[p] /\ up'[p] = up[p]
      /\ source' = source
  BY <1>3 DEF TabMoves
<1>6. Port(t)' = Port(t)
  BY <1>1, <1>3 DEF Port
<1>7. TabSound(t)
  BY TabIs
<1>8. TabSound(t)'
  <2>1. InMap(t)' <=> s.lease \in Mapped
    BY <1>3 DEF InMap, Mapped
  <2>2. \A p \in Later(t)' : Unspoken(p)' /\ host'[p].status = "none"
    <3> SUFFICES ASSUME NEW p \in Later(t)'
                 PROVE  Unspoken(p)' /\ host'[p].status = "none"
      OBVIOUS
    <3>1. p \in Ports /\ p[1] = t
          /\ (p[2] > generation[t] \/ (p[2] = generation[t] /\ s.link = "connecting"))
      BY <1>1, <1>3 DEF Later
    <3>2. CASE p = Port(t)
      <4>1. s.link = "connecting"
        BY <1>2, <3>1, <3>2
      <4> QED
        BY <1>3, <3>2, <4>1 DEF TabHolds, Quiet, Unspoken
    <3>3. CASE p # Port(t)
      <4>1. p \in Later(t)
        BY <1>1, <3>1 DEF Later
      <4>2. host'[p] = host[p] /\ up'[p] = up[p]
        BY <1>5, <3>1, <3>3
      <4> QED
        BY <1>7, <4>1, <4>2 DEF TabSound, Unspoken
    <3> QED
      BY <3>2, <3>3
  <2>3. s.lease \in {"idle", "waiting"} => \A p \in Ports : p[1] = t => Unspoken(p)'
    <3> SUFFICES ASSUME s.lease \in {"idle", "waiting"}, NEW p \in Ports, p[1] = t
                 PROVE  Unspoken(p)'
      OBVIOUS
    <3>1. Unspoken(p)
      BY <1>1, <1>7 DEF TabSound
    <3>2. CASE p = Port(t)
      BY <1>3, <3>2 DEF TabHolds, Quiet, Unspoken
    <3>3. CASE p # Port(t)
      BY <1>5, <3>1, <3>3 DEF Unspoken
    <3> QED
      BY <3>2, <3>3
  <2>4. Accepting(t)' <=> s.lease \in Live
    BY <1>3, <2>1 DEF Accepting, Live
  <2>5. HasPort(t)' <=> s.link \in Ported
    BY <1>3 DEF HasPort, Ported
  <2>6. /\ Accepting(t)' => link'[t] # "closed"
        /\ acking'[t] => Accepting(t)' /\ chain'[t] # <<>>
        /\ Accepting(t)' => Resumes(chain'[t], acking'[t], generation'[t], seen'[t], blind'[t])
    BY <1>3, <2>4 DEF TabHolds
  <2>7. lease'[t] \in Left /\ HasPort(t)' => Parted(host'[Port(t)], up'[Port(t)])
    BY <1>3, <2>5 DEF TabHolds
  <2> QED
    BY <1>3, <1>6, <2>1, <2>2, <2>3, <2>6, <2>7 DEF TabSound, TabHolds, Chained
<1>9. Talks(t)'
  <2>1. InMap(t)' => s.lease \in Mapped
    BY <1>3 DEF InMap, Mapped
  <2>2. HasPort(t)' => s.link \in Ported
    BY <1>3 DEF HasPort, Ported
  <2> QED
    BY <1>3, <1>5, <1>6, <2>1, <2>2 DEF Talks, TabHolds, Conversation
<1> QED
  BY <1>3, <1>8, <1>9, TabsStep

\* What stays as it is, and what is sent.
LEMMA AsIs ==
    ASSUME BrokerIInv, NEW t \in Tabs, NEW r, r = StateOf(t)
    PROVE  /\ host = [host EXCEPT ![Port(t)] = r.host] /\ up = [up EXCEPT ![Port(t)] = r.up]
           /\ generation = [generation EXCEPT ![t] = r.generation]
           /\ link = [link EXCEPT ![t] = r.link] /\ reconnecting = [reconnecting EXCEPT ![t] = r.again]
           /\ lease = [lease EXCEPT ![t] = r.lease] /\ cursor = [cursor EXCEPT ![t] = r.cursor]
           /\ chain = [chain EXCEPT ![t] = r.chain] /\ acking = [acking EXCEPT ![t] = r.acking]
           /\ seen = [seen EXCEPT ![t] = r.seen]
           /\ gap = [gap EXCEPT ![t] = r.gap] /\ blind = [blind EXCEPT ![t] = r.blind]
<1>1. /\ host \in [Ports -> Client] /\ up \in [Ports -> Seq(Command)]
      /\ generation \in [Tabs -> Nat] /\ link \in [Tabs -> Links]
      /\ reconnecting \in [Tabs -> BOOLEAN] /\ lease \in [Tabs -> Leases]
      /\ cursor \in [Tabs -> Nat] /\ chain \in [Tabs -> Seq(Received)]
      /\ acking \in [Tabs -> BOOLEAN] /\ seen \in [Tabs -> Nat]
      /\ gap \in [Tabs -> BOOLEAN] /\ blind \in [Tabs -> BOOLEAN]
  BY DEF BrokerIInv, BrokerTypeOK
<1>2. /\ r.host = host[Port(t)] /\ r.up = up[Port(t)] /\ r.generation = generation[t]
      /\ r.link = link[t] /\ r.again = reconnecting[t] /\ r.lease = lease[t]
      /\ r.cursor = cursor[t] /\ r.chain = chain[t] /\ r.acking = acking[t]
      /\ r.seen = seen[t] /\ r.gap = gap[t] /\ r.blind = blind[t]
  BY DEF StateOf
<1> QED
  BY <1>1, <1>2

\* What the record of a tab holds, and what the invariant says of it.
LEMMA StateIs ==
    ASSUME BrokerIInv, NEW t \in Tabs, NEW r, r = StateOf(t)
    PROVE  /\ r \in TabState
           /\ r.host \in Client /\ r.up \in Seq(Command) /\ r.generation \in Nat /\ r.link \in Links
           /\ r.again \in BOOLEAN /\ r.lease \in Leases /\ r.cursor \in Nat /\ r.chain \in Seq(Received)
           /\ r.acking \in BOOLEAN /\ r.seen \in Nat /\ r.gap \in BOOLEAN /\ r.blind \in BOOLEAN
           /\ r.host = host[Port(t)] /\ r.up = up[Port(t)] /\ r.generation = generation[t]
           /\ r.link = link[t] /\ r.again = reconnecting[t] /\ r.lease = lease[t]
           /\ r.cursor = cursor[t] /\ r.chain = chain[t] /\ r.acking = acking[t]
           /\ r.seen = seen[t] /\ r.gap = gap[t] /\ r.blind = blind[t]
           /\ InMap(t) <=> r.lease \in Mapped
           /\ Accepting(t) <=> r.lease \in Live
           /\ HasPort(t) <=> r.link \in Ported
           /\ TabHolds(r, source.position) /\ ClientSound(r.host, source.position)
           /\ source.position \in Int
<1>1. r \in TabState /\ TabHolds(r, source.position) /\ ClientSound(r.host, source.position)
      /\ source.position \in Int
  BY TabViewed
<1>2. /\ r.host = host[Port(t)] /\ r.up = up[Port(t)] /\ r.generation = generation[t]
      /\ r.link = link[t] /\ r.again = reconnecting[t] /\ r.lease = lease[t]
      /\ r.cursor = cursor[t] /\ r.chain = chain[t] /\ r.acking = acking[t]
      /\ r.seen = seen[t] /\ r.gap = gap[t] /\ r.blind = blind[t]
  BY DEF StateOf
<1>3. /\ r.host \in Client /\ r.up \in Seq(Command) /\ r.generation \in Nat /\ r.link \in Links
      /\ r.again \in BOOLEAN /\ r.lease \in Leases /\ r.cursor \in Nat /\ r.chain \in Seq(Received)
      /\ r.acking \in BOOLEAN /\ r.seen \in Nat /\ r.gap \in BOOLEAN /\ r.blind \in BOOLEAN
  BY <1>1 DEF TabState
<1>4. (InMap(t) <=> r.lease \in Mapped) /\ (HasPort(t) <=> r.link \in Ported)
  BY <1>2 DEF InMap, HasPort, Mapped, Ported
<1>5. Accepting(t) <=> r.lease \in Live
  BY <1>2, <1>4 DEF Accepting, Live
<1> QED
  BY <1>1, <1>2, <1>3, <1>4, <1>5

\* Tab t goes from r to s, in the variables that change.
Becomes(new, old, i, after, before) == new = [old EXCEPT ![i] = after] \/ (new = old /\ after = before)

TabGoes(t, r, s) ==
    /\ source' = source
    /\ Becomes(host', host, Port(t), s.host, r.host) /\ Becomes(up', up, Port(t), s.up, r.up)
    /\ Becomes(generation', generation, t, s.generation, r.generation)
    /\ Becomes(link', link, t, s.link, r.link) /\ Becomes(reconnecting', reconnecting, t, s.again, r.again)
    /\ Becomes(lease', lease, t, s.lease, r.lease) /\ Becomes(cursor', cursor, t, s.cursor, r.cursor)
    /\ Becomes(chain', chain, t, s.chain, r.chain) /\ Becomes(acking', acking, t, s.acking, r.acking)
    /\ Becomes(seen', seen, t, s.seen, r.seen)
    /\ Becomes(gap', gap, t, s.gap, r.gap) /\ Becomes(blind', blind, t, s.blind, r.blind)

\* A variable that becomes a value, or keeps it.
LEMMA BecomesIt ==
    ASSUME NEW new, NEW old, NEW i, NEW after, NEW before, Becomes(new, old, i, after, before),
           old = [old EXCEPT ![i] = before]
    PROVE  new = [old EXCEPT ![i] = after]
BY DEF Becomes

\* A tab that goes from its record to another has moved there.
LEMMA GoesThere ==
    ASSUME BrokerIInv, NEW t \in Tabs, NEW r, r = StateOf(t), NEW s, TabGoes(t, r, s)
    PROVE  TabMoved(t, s)
<1>1. /\ host = [host EXCEPT ![Port(t)] = r.host] /\ up = [up EXCEPT ![Port(t)] = r.up]
      /\ generation = [generation EXCEPT ![t] = r.generation]
      /\ link = [link EXCEPT ![t] = r.link] /\ reconnecting = [reconnecting EXCEPT ![t] = r.again]
      /\ lease = [lease EXCEPT ![t] = r.lease] /\ cursor = [cursor EXCEPT ![t] = r.cursor]
      /\ chain = [chain EXCEPT ![t] = r.chain] /\ acking = [acking EXCEPT ![t] = r.acking]
      /\ seen = [seen EXCEPT ![t] = r.seen]
      /\ gap = [gap EXCEPT ![t] = r.gap] /\ blind = [blind EXCEPT ![t] = r.blind]
  BY AsIs
<1>2. /\ host' = [host EXCEPT ![Port(t)] = s.host] /\ up' = [up EXCEPT ![Port(t)] = s.up]
      /\ source' = source
  BY <1>1, BecomesIt DEF TabGoes
<1>3. /\ generation' = [generation EXCEPT ![t] = s.generation]
      /\ link' = [link EXCEPT ![t] = s.link] /\ reconnecting' = [reconnecting EXCEPT ![t] = s.again]
      /\ lease' = [lease EXCEPT ![t] = s.lease] /\ cursor' = [cursor EXCEPT ![t] = s.cursor]
  BY <1>1, BecomesIt DEF TabGoes
<1>4. /\ chain' = [chain EXCEPT ![t] = s.chain] /\ acking' = [acking EXCEPT ![t] = s.acking]
      /\ seen' = [seen EXCEPT ![t] = s.seen]
      /\ gap' = [gap EXCEPT ![t] = s.gap] /\ blind' = [blind EXCEPT ![t] = s.blind]
  BY <1>1, BecomesIt DEF TabGoes
<1> QED
  BY <1>2, <1>3, <1>4 DEF TabMoved

SentTo(r, m) == IF r.link \in Ported /\ r.host.status = "open" THEN Append(r.up, m) ELSE r.up

\* Sent() appends the command, or loses it with the port.
LEMMA SentIs ==
    ASSUME BrokerIInv, NEW t \in Tabs, NEW m \in Command, Sent(t, m), NEW r, r = StateOf(t),
           NEW u, u = SentTo(r, m)
    PROVE  up' = [up EXCEPT ![Port(t)] = u] /\ u \in Seq(Command) /\ (r.link \notin Ported => u = r.up)
<1>1. /\ r.up = up[Port(t)] /\ r.host = host[Port(t)] /\ r.up \in Seq(Command)
      /\ HasPort(t) <=> r.link \in Ported
  BY StateIs
<1>2. up \in [Ports -> Seq(Command)]
  BY DEF BrokerIInv, BrokerTypeOK
<1>3. up' = [up EXCEPT ![Port(t)] = u]
  BY <1>1, <1>2 DEF Sent, SentTo
<1>4. u \in Seq(Command)
  BY <1>1, Longer DEF SentTo
<1> QED
  BY <1>3, <1>4 DEF SentTo

\* Lease r ends and becomes s: nothing is promised to it any more.
LEMMA EndsLease ==
    ASSUME BrokerIInv, NEW t \in Tabs, NEW r, r = StateOf(t), NEW s \in TabState, TabMoved(t, s),
           SubscriptionStays(s.host, r.host), s.lease \in Over \ {"ack"}, s.chain = <<>>, ~s.acking,
           s.generation = r.generation, s.cursor <= s.seen, s.seen = r.seen, s.gap = r.gap,
           s.blind = r.blind,
           s.link = "connecting" => s.link = r.link /\ s.host = r.host /\ s.up = r.up,
           s.lease # "attach" /\ s.link \in Ported => Parted(s.host, s.up)
    PROVE  BrokerIInv'
<1>1. TabHolds(r, source.position)
  BY StateIs
<1>2. s.lease \notin Mapped /\ s.lease \notin Live /\ s.lease \notin {"idle", "waiting"}
      /\ (s.lease \in Left => s.lease # "attach")
  BY DEF Over, Mapped, Live, Left
<1>3. TabHolds(s, source.position)
  BY <1>1, <1>2 DEF TabHolds, Quiet, Chained
<1> QED
  BY <1>2, <1>3, TabStep

\* A detach is a command.
LEMMA DetachIs ==
    ASSUME NEW m, m = [type |-> "detach"]
    PROVE  m \in Command
BY DEF Command

\* What is sent last counts: a detach, or anything else that does not attach.
LEMMA PartedEnds ==
    ASSUME NEW h, NEW u \in Seq(Command), NEW m \in Command, m.type = "detach"
    PROVE  Parted(h, Append(u, m))
<1>1. Len(u) + 1 \in 1 .. Len(Append(u, m)) /\ Append(u, m)[Len(u) + 1] = m
  BY AppendProperties, LenProperties
<1>2. \A j \in Len(u) + 1 .. Len(Append(u, m)) : Append(u, m)[j] = m
  BY AppendProperties, LenProperties
<1> QED
  BY <1>1, <1>2 DEF Parted, Attaches

LEMMA PartedMore ==
    ASSUME NEW h, NEW u \in Seq(Command), NEW m \in Command, ~Attaches(m), Parted(h, u)
    PROVE  Parted(h, Append(u, m))
<1> DEFINE v == Append(u, m)
<1>1. /\ Len(u) \in Nat /\ Len(v) = Len(u) + 1 /\ v[Len(u) + 1] = m
      /\ \A i \in 1 .. Len(u) : v[i] = u[i]
  BY AppendProperties, LenProperties
<1> HIDE DEF v
<1>2. CASE \A i \in 1 .. Len(u) : ~Attaches(u[i])
  <2>1. \A i \in 1 .. Len(v) : ~Attaches(v[i])
    BY <1>1, <1>2
  <2>2. \A i \in 1 .. Len(u) : u[i].type = "detach" => i \in 1 .. Len(v) /\ v[i].type = "detach"
    BY <1>1
  <2> QED
    BY <1>1, <1>2, <2>1, <2>2 DEF Parted, v
<1>3. ASSUME NEW i \in 1 .. Len(u), u[i].type = "detach", \A j \in i .. Len(u) : ~Attaches(u[j])
      PROVE  Parted(h, v)
  <2>1. i \in 1 .. Len(v) /\ v[i].type = "detach" /\ \A j \in i .. Len(v) : ~Attaches(v[j])
    BY <1>1, <1>3
  <2> QED
    BY <2>1 DEF Parted
<1> QED
  BY <1>2, <1>3 DEF Parted, v

\* finish(), whatever else the step does to the link and the port.
LEMMA SettledStep ==
    ASSUME BrokerIInv, NEW t \in Tabs, NEW reason \in Over \ {"ack"}, Settled(t, reason),
           UNCHANGED <<source, generation, reconnecting, cursor, history>>,
           NEW r, r = StateOf(t), NEW h \in Client, NEW L \in Links, NEW u \in Seq(Command),
           SubscriptionStays(h, r.host), Becomes(host', host, Port(t), h, r.host),
           Becomes(link', link, t, L, r.link), Becomes(up', up, Port(t), u, r.up),
           L = "connecting" => L = r.link /\ h = r.host /\ u = r.up,
           reason # "attach" /\ L \in Ported => Parted(h, u)
    PROVE  BrokerIInv'
<1>6. r \in TabState
  BY StateIs
<1>7. PICK s : s = [r EXCEPT !.host = h, !.link = L, !.lease = reason, !.chain = <<>>,
                             !.acking = FALSE, !.up = u]
  OBVIOUS
<1>8. /\ s \in TabState /\ s.host = h /\ s.generation = r.generation /\ s.link = L
      /\ s.again = r.again /\ s.cursor = r.cursor /\ s.seen = r.seen /\ s.gap = r.gap
      /\ s.blind = r.blind /\ s.lease = reason /\ s.chain = <<>> /\ s.acking = FALSE /\ s.up = u
  <2>1. reason \in Leases /\ <<>> \in Seq(Received)
    BY DEF Leases, Over
  <2> QED
    BY <1>6, <1>7, <2>1 DEF TabState
<1>9. TabGoes(t, r, s)
  BY <1>8 DEF Settled, TabGoes, Becomes, history
<1>10. TabMoved(t, s)
  BY <1>9, GoesThere
<1>11. s.cursor <= s.seen
  BY <1>8, StateIs DEF TabHolds
<1> QED
  BY <1>8, <1>10, <1>11, EndsLease DEF Over

\* A lease that leaves the map has sent its detach, if there was a port.
LEMMA LeavesMap ==
    ASSUME BrokerIInv, NEW t \in Tabs, Sent(t, [type |-> "detach"]), NEW r, r = StateOf(t)
    PROVE  \E u \in Seq(Command) :
              /\ Becomes(up', up, Port(t), u, r.up)
              /\ r.link \notin Ported => u = r.up
              /\ \A h : r.link \in Ported /\ h.status = r.host.status => Parted(h, u)
<1>2. PICK m \in Command : m = [type |-> "detach"]
  BY DetachIs
<1>3. PICK u : u = SentTo(r, m)
  OBVIOUS
<1>5. up' = [up EXCEPT ![Port(t)] = u] /\ u \in Seq(Command) /\ (r.link \notin Ported => u = r.up)
  BY <1>2, <1>3, SentIs
<1>6. r.up \in Seq(Command) /\ m.type = "detach"
  BY <1>2, StateIs
<1>7. ASSUME NEW h, r.link \in Ported, h.status = r.host.status
      PROVE  Parted(h, u)
  <2>1. CASE h.status = "open"
    <3>1. u = Append(r.up, m)
      BY <1>3, <1>7, <2>1 DEF SentTo
    <3> QED
      BY <1>6, <3>1, PartedEnds
  <2>2. CASE h.status # "open"
    BY <2>2 DEF Parted
  <2> QED
    BY <2>1, <2>2
<1> QED
  BY <1>5, <1>7 DEF Becomes

\* failLease(), whatever has been heard.
LEMMA FailsStep ==
    ASSUME BrokerIInv, NEW t \in Tabs, NEW reason \in Over \ {"ack"}, Fails(t, reason), Accepting(t),
           UNCHANGED <<source, generation, reconnecting, cursor, history, link>>,
           NEW r, r = StateOf(t), NEW h \in Client, SubscriptionStays(h, r.host),
           h.status = r.host.status, Becomes(host', host, Port(t), h, r.host),
           r.link = "connecting" => h = r.host
    PROVE  BrokerIInv'
<1>1. /\ r.link \in Links /\ TabHolds(r, source.position) /\ (InMap(t) <=> r.lease \in Mapped)
      /\ r.lease = lease[t] /\ r.up \in Seq(Command)
  BY StateIs
<1>2. PICK u \in Seq(Command) :
         /\ Becomes(up', up, Port(t), u, r.up)
         /\ r.link \notin Ported => u = r.up
         /\ r.link \in Ported => Parted(h, u)
  <2>1. CASE InMap(t)
    <3>1. Sent(t, [type |-> "detach"])
      BY <2>1 DEF Fails
    <3> QED
      BY <3>1, LeavesMap
  <2>2. CASE ~InMap(t)
    <3>1. r.lease \in Left
      BY <1>1, <2>2 DEF Accepting, Left
    <3>2. r.link \in Ported => Parted(r.host, r.up)
      BY <1>1, <3>1 DEF TabHolds
    <3>3. r.link \in Ported => Parted(h, r.up)
      BY <3>2, PartedStays DEF SubscriptionStays
    <3>4. Becomes(up', up, Port(t), r.up, r.up)
      BY <2>2 DEF Fails, Becomes
    <3> QED
      BY <1>1, <3>3, <3>4
  <2> QED
    BY <2>1, <2>2
<1>3. Becomes(link', link, t, r.link, r.link)
  BY DEF Becomes
<1>4. Settled(t, reason) /\ UNCHANGED <<source, generation, reconnecting, cursor, history>>
  BY DEF Fails
<1>5. r.link = "connecting" => u = r.up
  BY <1>2 DEF Ported
<1> QED
  BY <1>1, <1>2, <1>3, <1>4, <1>5, SettledStep

\* detachLease() of a lease in the map, whatever has been heard.
LEMMA DetachesStep ==
    ASSUME BrokerIInv, NEW t \in Tabs, Detaches(t), InMap(t),
           UNCHANGED <<source, generation, reconnecting, cursor, history, link>>,
           NEW r, r = StateOf(t), NEW h \in Client, SubscriptionStays(h, r.host),
           h.status = r.host.status, Becomes(host', host, Port(t), h, r.host),
           r.link = "connecting" => h = r.host
    PROVE  BrokerIInv'
<1>1. /\ r \in TabState /\ r.link \in Links /\ TabHolds(r, source.position) /\ r.lease \in Mapped
      /\ (HasPort(t) <=> r.link \in Ported)
  BY StateIs
<1>2. PICK u \in Seq(Command) :
         /\ Becomes(up', up, Port(t), u, r.up)
         /\ r.link \notin Ported => u = r.up
         /\ r.link \in Ported => Parted(h, u)
  BY LeavesMap DEF Detaches
<1>3. CASE ~HasPort(t)
  <2>1. Becomes(link', link, t, r.link, r.link)
    BY DEF Becomes
  <2>2. Settled(t, "closed") /\ UNCHANGED <<source, generation, reconnecting, cursor, history>>
    BY <1>3 DEF Detaches
  <2>3. r.link = "connecting" => u = r.up
    BY <1>2 DEF Ported
  <2>4. "closed" \in Over \ {"ack"}
    BY DEF Over
  <2> QED
    BY <1>1, <1>2, <2>1, <2>2, <2>3, <2>4, SettledStep
<1>4. CASE HasPort(t)
  <2>1. PICK s : s = [r EXCEPT !.host = h, !.lease = "closing", !.up = u]
    OBVIOUS
  <2>2. /\ s \in TabState /\ s.host = h /\ s.generation = r.generation /\ s.link = r.link
        /\ s.again = r.again /\ s.cursor = r.cursor /\ s.seen = r.seen /\ s.gap = r.gap
        /\ s.blind = r.blind /\ s.lease = "closing" /\ s.chain = r.chain /\ s.acking = r.acking
        /\ s.up = u
    BY <1>1, <2>1 DEF TabState, Leases
  <2>3. TabGoes(t, r, s)
    BY <1>2, <1>4, <2>2 DEF Detaches, TabGoes, Becomes, history
  <2>4. TabMoved(t, s)
    BY <2>3, GoesThere
  <2>5. /\ "closing" \notin Mapped /\ "closing" \in Live /\ r.lease \in Live
        /\ "closing" \notin {"idle", "waiting", "ack"} /\ r.link # "connecting"
    BY <1>1, <1>4 DEF Mapped, Live, Ported
  <2>6. TabHolds(s, source.position)
    BY <1>1, <1>2, <2>2, <2>5 DEF TabHolds
  <2> QED
    BY <2>2, <2>4, <2>5, <2>6, TabStep
<1> QED
  BY <1>3, <1>4

\* An application that closes its lease keeps the invariant.
LEMMA CloseLeaseStep ==
    ASSUME BrokerIInv, NEW t \in Tabs, CloseLease(t)
    PROVE  BrokerIInv'
<1>1. PICK r : r = StateOf(t)
  OBVIOUS
<1>2. r.host \in Client
  BY <1>1, StateIs
<1>3. /\ Becomes(host', host, Port(t), r.host, r.host) /\ Detaches(t) /\ InMap(t)
      /\ UNCHANGED <<source, generation, reconnecting, cursor, history, link>>
  BY DEF CloseLease, Becomes
<1> QED
  BY <1>1, <1>2, <1>3, DetachesStep DEF SubscriptionStays

\* A handler that rejects an item ends its lease.
LEMMA HandlerRejectsStep ==
    ASSUME BrokerIInv, NEW t \in Tabs, HandlerRejects(t)
    PROVE  BrokerIInv'
<1>1. PICK r : r = StateOf(t)
  OBVIOUS
<1>2. r.host \in Client
  BY <1>1, StateIs
<1>3. /\ Becomes(host', host, Port(t), r.host, r.host) /\ Fails(t, "handler") /\ Accepting(t)
      /\ UNCHANGED <<source, generation, reconnecting, cursor, history, link>>
  BY DEF HandlerRejects, Becomes, Outdated
<1> QED
  BY <1>1, <1>2, <1>3, FailsStep DEF Over, SubscriptionStays

\* A port that is given up: nothing that was posted on it arrives.
LEMMA EmptyIs ==
    ASSUME NEW h \in Client, NEW e, e = [h EXCEPT !.down = <<>>]
    PROVE  e \in Client /\ SubscriptionStays(e, h) /\ e.down = <<>> /\ e.status = h.status
<1>1. <<>> \in Seq(Answer)
  OBVIOUS
<1> QED
  BY <1>1 DEF Client, SubscriptionStays

\* A tab that closes ends its lease and gives up what was posted to it.
LEMMA CloseTabStep ==
    ASSUME BrokerIInv, NEW t \in Tabs, CloseTab(t)
    PROVE  BrokerIInv'
<1>1. PICK r : r = StateOf(t)
  OBVIOUS
<1>2. PICK m \in Command : m = [type |-> "close"]
  BY DEF Command
<1>3. PICK u : u = SentTo(r, m)
  OBVIOUS
<1>4. Sent(t, m)
  BY <1>2 DEF CloseTab
<1>5. up' = [up EXCEPT ![Port(t)] = u] /\ u \in Seq(Command)
  BY <1>1, <1>3, <1>4, SentIs
<1>6. /\ r \in TabState /\ r.lease \in Leases /\ TabHolds(r, source.position) /\ r.host \in Client
      /\ r.lease = lease[t] /\ r.host = host[Port(t)] /\ lease \in [Tabs -> Leases]
      /\ host \in [Ports -> Client]
  BY <1>1, StateIs DEF BrokerIInv, BrokerTypeOK
<1>e. PICK e : e = [r.host EXCEPT !.down = <<>>]
  OBVIOUS
<1>f. e \in Client /\ SubscriptionStays(e, r.host)
  BY <1>6, <1>e, EmptyIs
<1>l. PICK l \in Over \ {"ack"} : l = IF r.lease \in Over THEN r.lease ELSE "closed"
  BY <1>6 DEF TabHolds, Over
<1>7. PICK s : s = [r EXCEPT !.host = e, !.link = "closed", !.lease = l, !.chain = <<>>,
                             !.acking = FALSE, !.up = u]
  OBVIOUS
<1>8. /\ s \in TabState /\ s.host = e /\ s.generation = r.generation /\ s.link = "closed"
      /\ s.again = r.again /\ s.cursor = r.cursor /\ s.seen = r.seen /\ s.gap = r.gap
      /\ s.blind = r.blind /\ s.lease = l /\ s.chain = <<>> /\ s.acking = FALSE /\ s.up = u
  <2>1. l \in Leases /\ <<>> \in Seq(Received) /\ "closed" \in Links
    BY DEF Leases, Over, Links
  <2> QED
    BY <1>5, <1>6, <1>7, <1>f, <2>1 DEF TabState
<1>9. TabGoes(t, r, s)
  <2>1. lease' = [lease EXCEPT ![t] = l] /\ host' = [host EXCEPT ![Port(t)] = e]
    BY <1>6, <1>e, <1>l DEF CloseTab
  <2> QED
    BY <1>5, <1>8, <2>1 DEF CloseTab, TabGoes, Becomes, history
<1>10. TabMoved(t, s)
  BY <1>1, <1>9, GoesThere
<1>11. s.cursor <= s.seen
  BY <1>6, <1>8 DEF TabHolds
<1> QED
  BY <1>1, <1>8, <1>10, <1>11, <1>f, EndsLease DEF Ported

\* Without a port the leases end.
LEMMA EstablishFailsStep ==
    ASSUME BrokerIInv, NEW t \in Tabs, EstablishFails(t)
    PROVE  BrokerIInv'
<1>1. PICK r : r = StateOf(t)
  OBVIOUS
<1>6. /\ r \in TabState /\ r.lease \in Leases /\ TabHolds(r, source.position) /\ r.host \in Client
      /\ r.lease = lease[t] /\ r.host = host[Port(t)] /\ lease \in [Tabs -> Leases]
      /\ host \in [Ports -> Client]
  BY <1>1, StateIs DEF BrokerIInv, BrokerTypeOK
<1>e. PICK e : e = [r.host EXCEPT !.down = <<>>]
  OBVIOUS
<1>f. e \in Client /\ SubscriptionStays(e, r.host) /\ e.down = <<>>
  BY <1>6, <1>e, EmptyIs
<1>n. "none" \in Links /\ "none" \notin Ported /\ host' = [host EXCEPT ![Port(t)] = e]
      /\ Becomes(link', link, t, "none", r.link)
  BY <1>1, <1>6, <1>e DEF Links, Ported, EstablishFails, Becomes
<1>2. CASE Stranded(t)
  <2>1. /\ Settled(t, "connection") /\ Becomes(up', up, Port(t), r.up, r.up)
        /\ UNCHANGED <<source, generation, reconnecting, cursor, history>>
        /\ Becomes(host', host, Port(t), e, r.host)
    BY <1>2, <1>n DEF EstablishFails, Becomes
  <2>2. r.up \in Seq(Command) /\ "connection" \in Over \ {"ack"}
    BY <1>1, StateIs DEF Over
  <2> QED
    BY <1>1, <1>f, <1>n, <2>1, <2>2, SettledStep
<1>3. CASE ~Stranded(t)
  <2>1. PICK s : s = [r EXCEPT !.host = e, !.link = "none"]
    OBVIOUS
  <2>2. /\ s \in TabState /\ s.host = e /\ s.generation = r.generation /\ s.link = "none"
        /\ s.again = r.again /\ s.cursor = r.cursor /\ s.seen = r.seen /\ s.gap = r.gap
        /\ s.blind = r.blind /\ s.lease = r.lease /\ s.chain = r.chain /\ s.acking = r.acking
        /\ s.up = r.up
    BY <1>6, <1>f, <1>n, <2>1 DEF TabState
  <2>3. TabGoes(t, r, s)
    BY <1>3, <1>n, <2>2 DEF EstablishFails, TabGoes, Becomes, history
  <2>4. TabMoved(t, s)
    BY <1>1, <2>3, GoesThere
  <2>5. r.lease # "waiting"
    BY <1>3, <1>6 DEF Stranded
  <2>6. TabHolds(s, source.position)
    BY <1>6, <1>f, <1>n, <2>2, <2>5 DEF TabHolds, Quiet, Chained, SubscriptionStays
  <2> QED
    BY <1>1, <1>f, <2>2, <2>4, <2>6, TabStep
<1> QED
  BY <1>2, <1>3

\* A lease attaches, on a port where nothing has been said.
LEMMA AttachIs ==
    ASSUME NEW m, m = Attach("attach", 0)
    PROVE  m \in Command /\ m.type = "attach"
BY DEF Attach, Command

\* The fields of the record of a tab that a conversation is about.
LEMMA FieldsAre ==
    ASSUME NEW s \in TabState
    PROVE  /\ s.host \in Client /\ s.up \in Seq(Command) /\ s.chain \in Seq(Received)
           /\ s.acking \in BOOLEAN /\ s.generation \in Nat /\ s.seen \in Nat /\ s.blind \in BOOLEAN
BY DEF TabState

\* The states of a lease.
LEMMA LeasesAre ==
    /\ \A l \in Mapped : l \in Live /\ l \notin Left /\ l \notin {"idle", "waiting", "ack"}
    /\ \A l \in Live : l \notin {"idle", "waiting", "ack"} /\ (l \notin Mapped => l \in Left)
    /\ \A l \in {"idle", "waiting"} : l \notin Live /\ l \notin Left /\ l \notin Mapped
    /\ "connecting" \notin Ported
BY DEF Mapped, Live, Left, Over, Ported

\* A conversation says how the batches received follow on one another.
LEMMA TabResumes ==
    ASSUME NEW s, NEW q, Conversation(s, q)
    PROVE  Resumes(s.chain, s.acking, s.generation, s.seen, s.blind)
BY DEF Conversation, Talk, OneBatch, NoneSkipped, Resumes

\* A tab that no subscription talks to yet has a conversation.
LEMMA SilentTab ==
    ASSUME NEW s \in TabState, NEW q \in Int,
           ~s.host.attached, ~s.host.lagged, s.host.down = <<>>, OnUp(s.up) = {},
           OnChain(s.chain, s.acking, s.generation) = {},
           Asked(s.host, s.up, s.chain, s.seen, s.blind)
    PROVE  Conversation(s, q)
<1>1. /\ s.host \in Client /\ s.up \in Seq(Command) /\ s.chain \in Seq(Received)
      /\ s.acking \in BOOLEAN /\ s.generation \in Nat /\ s.seen \in Nat /\ s.blind \in BOOLEAN
  BY FieldsAre
<1>2. q \in Int /\ ~s.host.attached /\ ~s.host.lagged /\ s.host.down = <<>> /\ OnUp(s.up) = {}
      /\ OnChain(s.chain, s.acking, s.generation) = {}
      /\ Asked(s.host, s.up, s.chain, s.seen, s.blind)
  OBVIOUS
<1>3. Talk(s.host, s.up, s.chain, s.acking, s.generation, s.seen, s.blind, q)
  BY ONLY <1>1, <1>2, TalkSilent, SMTT(60)
<1> QED
  BY <1>3 DEF Conversation

\* A lease that has never attached may ask for it.
LEMMA AskedFirst ==
    ASSUME NEW s \in TabState, NEW q \in Int, NEW m, m.type = "attach", ~s.host.lagged,
           ~s.host.attached, s.host.down = <<>>,
           s.up = <<>> \/ s.up = Append(<<>>, m), s.chain = <<>>, s.seen = 0
    PROVE  Conversation(s, q)
<1>1. OnChain(s.chain, s.acking, s.generation) = {}
  BY DEF OnChain
<1>2. OnUp(s.up) = {} /\ Asked(s.host, s.up, s.chain, s.seen, s.blind)
  <2>1. CASE s.up = <<>>
    BY <2>1 DEF OnUp, Asked
  <2>2. CASE s.up = Append(<<>>, m)
    <3>1. Len(s.up) = 1 /\ s.up[1] = m
      BY <2>2
    <3>2. \A i \in 1 .. Len(s.up) : i = 1
      BY <3>1
    <3>3. OnUp(s.up) = {}
      BY <3>1, <3>2 DEF OnUp
    <3>4. Asked(s.host, s.up, s.chain, s.seen, s.blind)
      BY <3>1, <3>2 DEF Asked
    <3> QED
      BY <3>3, <3>4
  <2> QED
    BY <2>1, <2>2
<1> QED
  BY <1>1, <1>2, SilentTab

\* A lease attaches when its tab has a port.
LEMMA AttachesStep ==
    ASSUME BrokerIInv, NEW t \in Tabs, lease[t] \in {"idle", "waiting"}, HasPort(t),
           lease' = [lease EXCEPT ![t] = "attaching"], Sent(t, Attach("attach", 0)),
           UNCHANGED <<hostVars, generation, link, reconnecting, cursor, chain, acking, history>>
    PROVE  BrokerIInv'
<1>1. PICK r : r = StateOf(t)
  OBVIOUS
<1>2. PICK m : m = Attach("attach", 0)
  OBVIOUS
<1>m. m \in Command /\ m.type = "attach"
  BY <1>2, AttachIs
<1>3. PICK u : u = SentTo(r, m)
  OBVIOUS
<1>4. up' = [up EXCEPT ![Port(t)] = u] /\ u \in Seq(Command)
  BY <1>1, <1>2, <1>3, <1>m, SentIs
<1>6. /\ r \in TabState /\ r.lease \in {"idle", "waiting"} /\ r.link \in Ported
      /\ TabHolds(r, source.position) /\ ClientSound(r.host, source.position)
      /\ source.position \in Int /\ r.generation \in Nat
  BY <1>1, StateIs
<1>7. PICK s : s = [r EXCEPT !.lease = "attaching", !.up = u]
  OBVIOUS
<1>8. /\ s.host = r.host /\ s.generation = r.generation /\ s.link = r.link
      /\ s.again = r.again /\ s.cursor = r.cursor /\ s.seen = r.seen /\ s.gap = r.gap
      /\ s.blind = r.blind /\ s.lease = "attaching" /\ s.chain = r.chain /\ s.acking = r.acking
      /\ s.up = u
  BY <1>6, <1>7 DEF TabState
<1>9. s \in TabState
  <2>1. "attaching" \in Leases
    BY DEF Leases
  <2> QED
    BY <1>4, <1>6, <1>7, <2>1 DEF TabState
<1>10. TabMoved(t, s)
  <2>1. TabGoes(t, r, s)
    BY <1>4, <1>8 DEF TabGoes, Becomes, history, hostVars
  <2> QED
    BY <1>1, <2>1, GoesThere
<1>12. /\ ~s.host.attached /\ s.host.down = <<>> /\ ~s.host.lagged
       /\ s.chain = <<>> /\ s.seen = 0
       /\ (s.up = <<>> \/ s.up = Append(<<>>, m))
  BY <1>3, <1>6, <1>8 DEF TabHolds, Quiet, ClientSound, SentTo
<1>14. Conversation(s, source.position)
  BY <1>6, <1>9, <1>m, <1>12, AskedFirst
<1>r. Resumes(s.chain, s.acking, s.generation, s.seen, s.blind)
  BY <1>14, TabResumes
<1>l. "attaching" \in Mapped /\ "attaching" \notin Left
  BY LeasesAre DEF Mapped
<1>15. TabHolds(s, source.position)
  BY <1>6, <1>8, <1>14, <1>r, <1>l, LeasesAre DEF TabHolds, Ported, Chained
<1> QED
  BY <1>1, <1>8, <1>9, <1>10, <1>15, TabStep DEF SubscriptionStays

\* createSource() keeps the invariant, with a port or while one is awaited.
LEMMA OpenLeaseStep ==
    ASSUME BrokerIInv, NEW t \in Tabs, OpenLease(t)
    PROVE  BrokerIInv'
<1>1. CASE HasPort(t)
  BY <1>1, AttachesStep DEF OpenLease, MayOpen
<1>2. CASE ~HasPort(t)
  <2>1. PICK r : r = StateOf(t)
    OBVIOUS
  <2>6. /\ r \in TabState /\ TabHolds(r, source.position) /\ r.lease = lease[t]
    BY <2>1, StateIs
  <2>7. PICK s : s = [r EXCEPT !.lease = "waiting"]
    OBVIOUS
  <2>8. /\ s.host = r.host /\ s.generation = r.generation /\ s.link = r.link
        /\ s.again = r.again /\ s.cursor = r.cursor /\ s.seen = r.seen /\ s.gap = r.gap
        /\ s.blind = r.blind /\ s.lease = "waiting" /\ s.chain = r.chain /\ s.acking = r.acking
        /\ s.up = r.up
    BY <2>6, <2>7 DEF TabState
  <2>9. s \in TabState
    <3>1. "waiting" \in Leases
      BY DEF Leases
    <3> QED
      BY <2>6, <2>7, <3>1 DEF TabState
  <2>10. TabMoved(t, s)
    <3>1. TabGoes(t, r, s)
      BY <1>2, <2>8 DEF OpenLease, TabGoes, Becomes, history, hostVars
    <3> QED
      BY <2>1, <3>1, GoesThere
  <2>11. r.lease = "idle"
    BY <2>6 DEF OpenLease, MayOpen
  <2>12. TabHolds(s, source.position)
    BY <2>6, <2>8, <2>11, LeasesAre DEF TabHolds, Quiet, Chained
  <2> QED
    BY <2>1, <2>8, <2>9, <2>10, <2>11, <2>12, TabStep DEF SubscriptionStays
<1> QED
  BY <1>1, <1>2

\* A lease that has waited for the port attaches.
LEMMA AttachWaitingStep ==
    ASSUME BrokerIInv, NEW t \in Tabs, AttachWaiting(t)
    PROVE  BrokerIInv'
BY AttachesStep DEF AttachWaiting, HasPort

-----------------------------------------------------------------------------
(***************************************************************************)
(* What the lemmas on a conversation say of a tab that goes from r to s.   *)
(***************************************************************************)
LEMMA TabAsks ==
    ASSUME NEW r \in TabState, NEW s \in TabState, NEW q \in Int, NEW x \in Command,
           Conversation(r, q), s.host = r.host, s.chain = r.chain, s.acking = r.acking,
           s.generation = r.generation, s.seen = r.seen, r.blind => s.blind,
           x.type \in {"restart", "reattach"},
           x.type = "reattach" => x.after <= r.seen /\ (x.after = 0 => s.blind),
           s.up = r.up \/ s.up = Append(r.up, x)
    PROVE  Conversation(s, q)
<1>1. /\ r.host \in Client /\ r.up \in Seq(Command) /\ r.chain \in Seq(Received)
      /\ r.acking \in BOOLEAN /\ r.generation \in Nat /\ r.seen \in Nat /\ r.blind \in BOOLEAN
      /\ s.blind \in BOOLEAN
  BY FieldsAre
<1>2. /\ q \in Int /\ x \in Command
      /\ Talk(r.host, r.up, r.chain, r.acking, r.generation, r.seen, r.blind, q)
      /\ r.blind => s.blind
      /\ x.type \in {"restart", "reattach"}
      /\ x.type = "reattach" => x.after <= r.seen /\ (x.after = 0 => s.blind)
  BY DEF Conversation
<1>3. /\ Talk(r.host, r.up, r.chain, r.acking, r.generation, r.seen, s.blind, q)
      /\ Talk(r.host, Append(r.up, x), r.chain, r.acking, r.generation, r.seen, s.blind, q)
  BY ONLY <1>1, <1>2, TalkAsks, SMTT(60)
<1> QED
  BY <1>3 DEF Conversation

Hears(e, h) ==
    /\ e.down = Tail(h.down) /\ e.status = h.status /\ e.attached = h.attached
    /\ e.inflight = h.inflight /\ e.batch = h.batch /\ e.pending = h.pending
    /\ e.lagged = h.lagged

\* An answer to attach or reattach.
LEMMA TabHeard ==
    ASSUME NEW r \in TabState, NEW s \in TabState, NEW q \in Int,
           Conversation(r, q), Hears(s.host, r.host), r.host.down # <<>>,
           ~Ender(Head(r.host.down)), Head(r.host.down).type = "result",
           Head(r.host.down).of # "ack", s.up = r.up, s.chain = r.chain, s.acking = r.acking,
           s.generation = r.generation, s.seen = r.seen, s.blind = r.blind
    PROVE  Conversation(s, q)
<1>1. /\ r.host \in Client /\ r.up \in Seq(Command) /\ r.chain \in Seq(Received)
      /\ r.acking \in BOOLEAN /\ r.generation \in Nat /\ r.seen \in Nat /\ r.blind \in BOOLEAN
      /\ s.host \in Client
  BY FieldsAre
<1>2. /\ q \in Int
      /\ Talk(r.host, r.up, r.chain, r.acking, r.generation, r.seen, r.blind, q)
      /\ r.host.down # <<>> /\ ~Ender(Head(r.host.down)) /\ Head(r.host.down).type = "result"
      /\ Head(r.host.down).of # "ack"
  BY DEF Conversation
<1>3. /\ s.host.down = Tail(r.host.down) /\ s.host.status = r.host.status
      /\ s.host.attached = r.host.attached /\ s.host.inflight = r.host.inflight
      /\ s.host.batch = r.host.batch /\ s.host.pending = r.host.pending
      /\ s.host.lagged = r.host.lagged
  BY DEF Hears
<1>4. Talk(s.host, r.up, r.chain, r.acking, r.generation, r.seen, r.blind, q)
  BY ONLY <1>1, <1>2, <1>3, TalkHeard, SMTT(60)
<1> QED
  BY <1>4 DEF Conversation

\* An answer to an acknowledgement finds the tab waiting for it.
LEMMA TabAwaits ==
    ASSUME NEW r \in TabState, NEW q \in Int, Conversation(r, q), r.host.down # <<>>,
           Head(r.host.down).type = "result", Head(r.host.down).of = "ack"
    PROVE  r.acking
<1>1. r.host.down \in Seq(Answer)
  BY FieldsAre DEF Client
<1>2. Head(r.host.down) = r.host.down[1] /\ 1 \in 1 .. Len(r.host.down)
  BY <1>1, Shorter
<1>3. Answers(r.host.down) # {}
  BY <1>2 DEF Answers
<1> QED
  BY <1>3 DEF Conversation, Talk, OneBatch

\* An answer to an acknowledgement is a yes, and the next batch may go.
LEMMA TabAnswered ==
    ASSUME NEW r \in TabState, NEW s \in TabState, NEW q \in Int,
           Conversation(r, q), Hears(s.host, r.host), r.host.down # <<>>,
           Head(r.host.down).type = "result", Head(r.host.down).of = "ack", r.chain # <<>>,
           s.up = r.up, s.generation = r.generation, s.seen = r.seen, s.blind = r.blind,
           s.chain = Tail(r.chain), ~s.acking
    PROVE  Head(r.host.down).ok /\ Conversation(s, q)
<1>1. /\ r.host \in Client /\ r.up \in Seq(Command) /\ r.chain \in Seq(Received)
      /\ r.acking \in BOOLEAN /\ r.generation \in Nat /\ r.seen \in Nat /\ r.blind \in BOOLEAN
      /\ s.host \in Client /\ s.acking \in BOOLEAN
  BY FieldsAre
<1>2. /\ q \in Int /\ ~s.acking
      /\ Talk(r.host, r.up, r.chain, r.acking, r.generation, r.seen, r.blind, q)
      /\ r.host.down # <<>> /\ Head(r.host.down).type = "result"
      /\ Head(r.host.down).of = "ack" /\ r.chain # <<>>
  BY DEF Conversation
<1>3. /\ s.host.down = Tail(r.host.down) /\ s.host.status = r.host.status
      /\ s.host.attached = r.host.attached /\ s.host.inflight = r.host.inflight
      /\ s.host.batch = r.host.batch /\ s.host.pending = r.host.pending
      /\ s.host.lagged = r.host.lagged
  BY DEF Hears
<1>4. /\ Head(r.host.down).ok
      /\ Talk(s.host, r.up, Tail(r.chain), s.acking, r.generation, r.seen, r.blind, q)
  <2>1. Answered(r.host, r.up, r.chain, r.acking, r.generation, r.seen, r.blind, q, s.host, s.acking)
    BY <1>1, <1>2, <1>3 DEF Answered
  <2> QED
    BY ONLY <2>1, TalkAnswered
<1> QED
  BY <1>4 DEF Conversation

\* A batch of an old port is dropped.
LEMMA TabDropped ==
    ASSUME NEW r \in TabState, NEW s \in TabState, NEW q \in Int,
           Conversation(r, q), ~r.acking, r.chain # <<>>,
           Head(r.chain).generation # r.generation,
           s.host = r.host, s.up = r.up, s.chain = Tail(r.chain), s.acking = r.acking,
           s.generation = r.generation, s.seen = r.seen, s.blind = r.blind
    PROVE  Conversation(s, q)
<1>1. /\ r.host \in Client /\ r.up \in Seq(Command) /\ r.chain \in Seq(Received)
      /\ r.generation \in Nat /\ r.acking \in BOOLEAN /\ r.seen \in Nat /\ r.blind \in BOOLEAN
  BY FieldsAre
<1>2. /\ q \in Int
      /\ ~r.acking /\ Talk(r.host, r.up, r.chain, r.acking, r.generation, r.seen, r.blind, q)
      /\ r.chain # <<>> /\ Head(r.chain).generation # r.generation
  BY DEF Conversation
<1>4. Talk(r.host, r.up, Tail(r.chain), r.acking, r.generation, r.seen, r.blind, q)
  BY ONLY <1>1, <1>2, TalkDropped, SMTT(60)
<1> QED
  BY <1>4 DEF Conversation

\* A batch arrives on the current port.
LEMMA TabReceived ==
    ASSUME NEW r \in TabState, NEW s \in TabState, NEW q \in Int, NEW x \in Received,
           Conversation(r, q), Hears(s.host, r.host), r.host.down # <<>>,
           Head(r.host.down).type = "batch", r.acking => r.chain # <<>>,
           x.generation = r.generation, x.id = Head(r.host.down).id,
           x.items = Head(r.host.down).items, x.last = LastOf(Head(r.host.down)),
           s.up = r.up, s.chain = Append(r.chain, x), s.acking = r.acking,
           s.generation = r.generation, s.seen = r.seen, s.blind = r.blind
    PROVE  Conversation(s, q)
<1>1. /\ r.host \in Client /\ r.up \in Seq(Command) /\ r.chain \in Seq(Received)
      /\ r.acking \in BOOLEAN /\ r.generation \in Nat /\ r.seen \in Nat /\ r.blind \in BOOLEAN
      /\ s.host \in Client
  BY FieldsAre
<1>2. /\ q \in Int /\ x \in Received
      /\ Talk(r.host, r.up, r.chain, r.acking, r.generation, r.seen, r.blind, q)
      /\ r.host.down # <<>> /\ Head(r.host.down).type = "batch"
      /\ r.acking => r.chain # <<>>
      /\ x.generation = r.generation /\ x.id = Head(r.host.down).id
      /\ x.items = Head(r.host.down).items /\ x.last = LastOf(Head(r.host.down))
  BY DEF Conversation
<1>3. /\ s.host.down = Tail(r.host.down) /\ s.host.status = r.host.status
      /\ s.host.attached = r.host.attached /\ s.host.inflight = r.host.inflight
      /\ s.host.batch = r.host.batch /\ s.host.pending = r.host.pending
      /\ s.host.lagged = r.host.lagged
  BY DEF Hears
<1>4. Talk(s.host, r.up, Append(r.chain, x), r.acking, r.generation, r.seen, r.blind, q)
  <2>1. Arrives(r.host, r.up, r.chain, r.acking, r.generation, r.seen, r.blind, q, s.host, x)
    BY <1>1, <1>2, <1>3 DEF Arrives
  <2> QED
    BY ONLY <2>1, TalkReceived
<1> QED
  BY <1>4 DEF Conversation

\* The handler accepts an item, which follows on the last one.
LEMMA TabAccepted ==
    ASSUME NEW r \in TabState, NEW s \in TabState, NEW q \in Int,
           Conversation(r, q), ~r.acking, r.host.attached => r.host.status = "open",
           r.chain # <<>>, r.chain[1].generation = r.generation, r.chain[1].items # <<>>,
           Len(s.chain) = Len(r.chain), \A i \in 1 .. Len(r.chain) : i # 1 => s.chain[i] = r.chain[i],
           s.chain[1].generation = r.generation, s.chain[1].id = r.chain[1].id,
           s.chain[1].last = r.chain[1].last, s.chain[1].items = Tail(r.chain[1].items),
           s.seen = IF Head(r.chain[1].items) > r.seen THEN Head(r.chain[1].items) ELSE r.seen,
           s.host = r.host, s.up = r.up, s.acking = r.acking, s.generation = r.generation,
           s.blind = r.blind
    PROVE  /\ Conversation(s, q)
           /\ r.seen > 0 /\ Head(r.chain[1].items) > r.seen + 1 => r.blind
<1>1. /\ r.host \in Client /\ r.up \in Seq(Command) /\ r.chain \in Seq(Received)
      /\ r.generation \in Nat /\ r.seen \in Nat /\ r.blind \in BOOLEAN
      /\ s.chain \in Seq(Received) /\ s.seen \in Nat /\ r.acking \in BOOLEAN
  BY FieldsAre
<1>2. /\ q \in Int
      /\ ~r.acking /\ Talk(r.host, r.up, r.chain, r.acking, r.generation, r.seen, r.blind, q)
      /\ r.host.attached => r.host.status = "open"
      /\ r.chain # <<>> /\ r.chain[1].generation = r.generation /\ r.chain[1].items # <<>>
  BY DEF Conversation
<1>3. /\ Len(s.chain) = Len(r.chain) /\ \A i \in 1 .. Len(r.chain) : i # 1 => s.chain[i] = r.chain[i]
      /\ s.chain[1].generation = r.generation /\ s.chain[1].id = r.chain[1].id
      /\ s.chain[1].last = r.chain[1].last /\ s.chain[1].items = Tail(r.chain[1].items)
      /\ s.seen = IF Head(r.chain[1].items) > r.seen THEN Head(r.chain[1].items) ELSE r.seen
  OBVIOUS
<1>4. /\ Talk(r.host, r.up, s.chain, r.acking, r.generation, s.seen, r.blind, q)
      /\ r.seen > 0 /\ Head(r.chain[1].items) > r.seen + 1 => r.blind
  <2>1. Accepted(r.host, r.up, r.chain, r.acking, r.generation, r.seen, r.blind, q, s.chain, s.seen)
    BY <1>1, <1>2, <1>3 DEF Accepted
  <2> QED
    BY ONLY <2>1, TalkAccepted
<1> QED
  BY <1>4 DEF Conversation

\* The batch is acknowledged, which moves the cursor no further than the handler.
LEMMA TabAcknowledged ==
    ASSUME NEW r \in TabState, NEW s \in TabState, NEW q \in Int, NEW x \in Command,
           Conversation(r, q), ~r.acking, r.host.attached => r.host.status = "open",
           r.chain # <<>>, r.chain[1].generation = r.generation, r.chain[1].items = <<>>,
           x.type = "ack", x.batch = r.chain[1].id, x.after = r.chain[1].last,
           s.up = IF r.host.status = "open" THEN Append(r.up, x) ELSE r.up,
           s.host = r.host, s.chain = r.chain, s.acking, s.generation = r.generation,
           s.seen = r.seen, s.blind = r.blind
    PROVE  Conversation(s, q) /\ r.chain[1].last <= r.seen
<1>1. /\ r.host \in Client /\ r.up \in Seq(Command) /\ r.chain \in Seq(Received)
      /\ r.generation \in Nat /\ r.seen \in Nat /\ r.blind \in BOOLEAN
      /\ s.up \in Seq(Command) /\ r.acking \in BOOLEAN /\ s.acking \in BOOLEAN /\ s.acking
  BY FieldsAre
<1>2. /\ q \in Int /\ x \in Command
      /\ ~r.acking /\ Talk(r.host, r.up, r.chain, r.acking, r.generation, r.seen, r.blind, q)
      /\ r.host.attached => r.host.status = "open"
      /\ r.chain # <<>> /\ r.chain[1].generation = r.generation /\ r.chain[1].items = <<>>
      /\ x.type = "ack" /\ x.batch = r.chain[1].id /\ x.after = r.chain[1].last
      /\ s.up = IF r.host.status = "open" THEN Append(r.up, x) ELSE r.up
  BY DEF Conversation
<1>4. /\ Talk(r.host, s.up, r.chain, s.acking, r.generation, r.seen, r.blind, q)
      /\ r.chain[1].last <= r.seen
  <2>1. Acknowledged(r.host, r.up, r.chain, r.acking, r.generation, r.seen, r.blind, q, s.up, x, s.acking)
    BY <1>1, <1>2 DEF Acknowledged
  <2> QED
    BY ONLY <2>1, TalkAcknowledged
<1> QED
  BY <1>4 DEF Conversation

-----------------------------------------------------------------------------
(***************************************************************************)
(* What a tab sends.                                                       *)
(***************************************************************************)
LEMMA RestartLeaseStep ==
    ASSUME BrokerIInv, NEW t \in Tabs, RestartLease(t)
    PROVE  BrokerIInv'
<1>1. PICK r : r = StateOf(t)
  OBVIOUS
<1>2. PICK m \in Command : m = [type |-> "restart"]
  BY DEF Command
<1>3. PICK u : u = SentTo(r, m)
  OBVIOUS
<1>4. up' = [up EXCEPT ![Port(t)] = u] /\ u \in Seq(Command)
  <2>1. Sent(t, m)
    BY <1>2 DEF RestartLease
  <2> QED
    BY <1>1, <1>3, <2>1, SentIs
<1>6. /\ r \in TabState /\ r.lease = "attached" /\ r.link = "up"
      /\ TabHolds(r, source.position) /\ source.position \in Int
  BY <1>1, StateIs DEF RestartLease
<1>7. PICK s : s = [r EXCEPT !.up = u]
  OBVIOUS
<1>8. /\ s.host = r.host /\ s.generation = r.generation /\ s.link = r.link
      /\ s.again = r.again /\ s.cursor = r.cursor /\ s.seen = r.seen /\ s.gap = r.gap
      /\ s.blind = r.blind /\ s.lease = r.lease /\ s.chain = r.chain /\ s.acking = r.acking
      /\ s.up = u /\ s \in TabState
  BY <1>4, <1>6, <1>7 DEF TabState
<1>10. TabMoved(t, s)
  <2>1. TabGoes(t, r, s)
    BY <1>4, <1>8 DEF RestartLease, TabGoes, Becomes, history, tabVars
  <2> QED
    BY <1>1, <2>1, GoesThere
<1>11. Conversation(s, source.position)
  <2>1. Conversation(r, source.position)
    BY <1>6 DEF TabHolds, Mapped, Ported
  <2>2. m.type = "restart"
    BY <1>2
  <2>3. s.up = r.up \/ s.up = Append(r.up, m)
    BY <1>3, <1>8 DEF SentTo
  <2> QED
    BY <1>6, <1>8, <2>1, <2>2, <2>3, TabAsks
<1>r. r.lease \in Mapped /\ Resumes(s.chain, s.acking, s.generation, s.seen, s.blind)
  BY <1>6, <1>11, TabResumes DEF Mapped
<1>12. TabHolds(s, source.position)
  BY <1>6, <1>8, <1>11, <1>r, LeasesAre DEF TabHolds, Chained
<1> QED
  BY <1>1, <1>6, <1>8, <1>10, <1>12, TabStep DEF SubscriptionStays

\* A reattach is a command that names a cursor.
LEMMA ReattachIs ==
    ASSUME NEW n \in Nat, NEW m, m = Attach("reattach", n)
    PROVE  m \in Command /\ m.type = "reattach" /\ m.after = n
BY DEF Attach, Command

\* reconnect() attaches the leases of the map again after hello.
LEMMA HelloAnsweredStep ==
    ASSUME BrokerIInv, NEW t \in Tabs, HelloAnswered(t)
    PROVE  BrokerIInv'
<1>1. PICK r : r = StateOf(t)
  OBVIOUS
<1>6. /\ r \in TabState /\ r.link = "hello" /\ r.cursor \in Nat /\ r.blind \in BOOLEAN
      /\ r.seen \in Nat /\ r.cursor = cursor[t] /\ r.blind = blind[t] /\ r.again = reconnecting[t]
      /\ InMap(t) <=> r.lease \in Mapped
      /\ TabHolds(r, source.position) /\ source.position \in Int
  BY <1>1, StateIs DEF HelloAnswered
<1>7. r.lease \in Mapped => Conversation(r, source.position)
  BY <1>6 DEF TabHolds, Ported
<1>8. CASE reconnecting[t] /\ InMap(t)
  <2>2. PICK m : m = Attach("reattach", r.cursor)
    OBVIOUS
  <2>m. m \in Command /\ m.type = "reattach" /\ m.after = r.cursor
    BY <1>6, <2>2, ReattachIs
  <2>3. PICK u : u = SentTo(r, m)
    OBVIOUS
  <2>4. up' = [up EXCEPT ![Port(t)] = u] /\ u \in Seq(Command)
    <3>1. Sent(t, m)
      BY <1>6, <1>8, <2>2 DEF HelloAnswered
    <3> QED
      BY <1>1, <2>3, <2>m, <3>1, SentIs
  <2>5. PICK b \in BOOLEAN : b <=> r.blind \/ r.cursor = 0
    OBVIOUS
  <2>7. PICK s : s = [r EXCEPT !.up = u, !.link = "reattach", !.blind = b]
    OBVIOUS
  <2>8. /\ s.host = r.host /\ s.generation = r.generation /\ s.link = "reattach"
        /\ s.again = r.again /\ s.cursor = r.cursor /\ s.seen = r.seen /\ s.gap = r.gap
        /\ s.blind = b /\ s.lease = r.lease /\ s.chain = r.chain /\ s.acking = r.acking
        /\ s.up = u
    BY <1>6, <2>7 DEF TabState
  <2>9. s \in TabState
    <3>1. "reattach" \in Links
      BY DEF Links
    <3> QED
      BY <1>6, <2>4, <2>7, <3>1 DEF TabState
  <2>10. TabMoved(t, s)
    <3>1. blind' = [blind EXCEPT ![t] = b]
      BY <1>6, <1>8, <2>5 DEF HelloAnswered
    <3>2. link' = [link EXCEPT ![t] = "reattach"]
      BY <1>8 DEF HelloAnswered
    <3>3. TabGoes(t, r, s)
      BY <2>4, <2>8, <3>1, <3>2 DEF HelloAnswered, TabGoes, Becomes, hostVars
    <3> QED
      BY <1>1, <3>3, GoesThere
  <2>11. Conversation(s, source.position)
    <3>1. Conversation(r, source.position)
      BY <1>6, <1>7, <1>8
    <3>2. m.after <= r.seen /\ (m.after = 0 => s.blind) /\ (r.blind => s.blind)
      BY <1>6, <2>m, <2>5, <2>8 DEF TabHolds
    <3>3. s.up = r.up \/ s.up = Append(r.up, m)
      BY <2>3, <2>8 DEF SentTo
    <3> QED
      BY <1>6, <2>8, <2>9, <2>m, <3>1, <3>2, <3>3, TabAsks
  <2>12. TabHolds(s, source.position)
    <3>1. r.blind => b
      BY <2>5
    <3>2. Resumes(s.chain, s.acking, s.generation, s.seen, s.blind)
      BY <2>11, TabResumes
    <3> QED
      BY <1>6, <1>8, <2>8, <2>11, <3>1, <3>2, LeasesAre DEF TabHolds, Chained
  <2> QED
    BY <1>1, <1>6, <1>8, <2>8, <2>9, <2>10, <2>12, TabStep DEF SubscriptionStays, Mapped
<1>9. CASE ~(reconnecting[t] /\ InMap(t))
  <2>7. PICK s : s = [r EXCEPT !.link = "up"]
    OBVIOUS
  <2>8. /\ s.host = r.host /\ s.generation = r.generation /\ s.link = "up"
        /\ s.again = r.again /\ s.cursor = r.cursor /\ s.seen = r.seen /\ s.gap = r.gap
        /\ s.blind = r.blind /\ s.lease = r.lease /\ s.chain = r.chain /\ s.acking = r.acking
        /\ s.up = r.up
    BY <1>6, <2>7 DEF TabState
  <2>9. s \in TabState
    <3>1. "up" \in Links
      BY DEF Links
    <3> QED
      BY <1>6, <2>7, <3>1 DEF TabState
  <2>10. TabMoved(t, s)
    <3>1. TabGoes(t, r, s)
      BY <1>9, <2>8 DEF HelloAnswered, TabGoes, Becomes, hostVars
    <3> QED
      BY <1>1, <3>1, GoesThere
  <2>11. TabHolds(s, source.position)
    BY <1>6, <1>7, <2>8 DEF TabHolds, Chained, Conversation, Quiet, Ported
  <2> QED
    BY <1>1, <2>8, <2>9, <2>10, <2>11, TabStep DEF SubscriptionStays
<1> QED
  BY <1>8, <1>9

\* A batch whose items have all been accepted is acknowledged.
LEMMA AcknowledgeStep ==
    ASSUME BrokerIInv, NEW t \in Tabs, Acknowledge(t)
    PROVE  BrokerIInv'
<1>1. PICK r : r = StateOf(t)
  OBVIOUS
<1>6. /\ r \in TabState /\ r.chain \in Seq(Received) /\ r.acking = acking[t] /\ r.chain = chain[t]
      /\ r.link = link[t] /\ r.generation = generation[t]
      /\ (Accepting(t) <=> r.lease \in Live) /\ (HasPort(t) <=> r.link \in Ported)
      /\ r.generation \in Nat /\ r.seen \in Nat /\ r.acking \in BOOLEAN
      /\ TabHolds(r, source.position) /\ ClientSound(r.host, source.position)
      /\ source.position \in Int
  BY <1>1, StateIs
<1>a. /\ r.chain # <<>> /\ ~r.acking /\ r.lease \in Live /\ r.link # "closed"
      /\ Head(r.chain).generation = r.generation /\ Head(r.chain).items = <<>>
  BY <1>6 DEF Acknowledge, Outdated, Done
<1>b. PICK x \in Received : x = r.chain[1] /\ x = Head(r.chain) /\ x = Head(chain[t])
  BY <1>6, <1>a, Shorter
<1>c. x.last \in Nat /\ x.id \in Nat /\ x.generation = r.generation /\ x.items = <<>>
  BY <1>a, <1>b DEF Received
<1>d. r.link # "connecting"
  <2>1. 1 \in 1 .. Len(r.chain)
    BY <1>6, <1>a, EmptySeq
  <2> QED
    BY <1>6, <1>b, <1>c, <2>1 DEF TabHolds, Chained
<1>f. r.chain[1].last <= r.seen /\ Resumes(r.chain, TRUE, r.generation, r.seen, r.blind)
  <2>1. Resumes(r.chain, FALSE, r.generation, r.seen, r.blind)
    BY <1>6, <1>a DEF TabHolds
  <2>2. r.chain[1].generation = r.generation /\ r.chain[1].items = <<>>
    BY <1>b, <1>c
  <2> QED
    BY <1>6, <1>a, <2>1, <2>2, ResumesAcknowledged
<1>2. PICK m : m = [type |-> "ack", batch |-> x.id, after |-> x.last]
  OBVIOUS
<1>m. m \in Command /\ m.type = "ack" /\ m.batch = x.id /\ m.after = x.last
  BY <1>2, <1>c DEF Command
<1>p. CASE HasPort(t)
  <2>3. PICK u : u = SentTo(r, m)
    OBVIOUS
  <2>4. up' = [up EXCEPT ![Port(t)] = u] /\ u \in Seq(Command)
    <3>1. Sent(t, m)
      BY <1>2, <1>b, <1>p DEF Acknowledge
    <3> QED
      BY <1>1, <1>m, <2>3, <3>1, SentIs
  <2>7. PICK s : s = [r EXCEPT !.up = u, !.acking = TRUE, !.cursor = x.last]
    OBVIOUS
  <2>8. /\ s.host = r.host /\ s.generation = r.generation /\ s.link = r.link
        /\ s.again = r.again /\ s.cursor = x.last /\ s.seen = r.seen /\ s.gap = r.gap
        /\ s.blind = r.blind /\ s.lease = r.lease /\ s.chain = r.chain /\ s.acking
        /\ s.acking = TRUE /\ s.up = u /\ s \in TabState
    BY <1>6, <1>c, <2>4, <2>7 DEF TabState
  <2>10. TabMoved(t, s)
    <3>1. cursor' = [cursor EXCEPT ![t] = x.last] /\ acking' = [acking EXCEPT ![t] = TRUE]
          /\ UNCHANGED <<lease, chain>>
      BY <1>b, <1>p DEF Acknowledge
    <3>2. TabGoes(t, r, s)
      BY <2>4, <2>8, <3>1 DEF Acknowledge, TabGoes, Becomes, history, hostVars
    <3> QED
      BY <1>1, <3>2, GoesThere
  <2>11. ASSUME r.lease \in Mapped
         PROVE  Conversation(s, source.position)
    <3>1. Conversation(r, source.position)
      BY <1>6, <1>p, <2>11 DEF TabHolds
    <3>2. r.host.attached => r.host.status = "open"
      BY <1>6 DEF ClientSound
    <3>3. s.up = IF r.host.status = "open" THEN Append(r.up, m) ELSE r.up
      BY <1>6, <1>p, <2>3, <2>8 DEF SentTo
    <3>4. /\ r.chain[1].generation = r.generation /\ r.chain[1].items = <<>>
          /\ m.batch = r.chain[1].id /\ m.after = r.chain[1].last
      BY <1>b, <1>c, <1>m
    <3> QED
      BY <1>6, <1>a, <1>m, <2>8, <3>1, <3>2, <3>3, <3>4, TabAcknowledged
  <2>12. ASSUME r.lease \in Left
         PROVE  Parted(r.host, u)
    <3>1. Parted(r.host, r.up) /\ r.up \in Seq(Command)
      BY <1>1, <1>6, <1>p, <2>12, StateIs DEF TabHolds
    <3>2. ~Attaches(m)
      BY <1>m DEF Attaches
    <3> QED
      BY <1>m, <2>3, <3>1, <3>2, PartedMore DEF SentTo
  <2>13. TabHolds(s, source.position)
    BY <1>6, <1>a, <1>b, <1>d, <1>f, <2>8, <2>11, <2>12, LeasesAre DEF TabHolds, Chained
  <2> QED
    BY <1>1, <1>6, <1>d, <2>8, <2>10, <2>13, TabStep DEF SubscriptionStays
<1>n. CASE ~HasPort(t)
  <2>7. PICK s : s = [r EXCEPT !.lease = "connection", !.chain = <<>>, !.acking = FALSE,
                               !.cursor = x.last]
    OBVIOUS
  <2>8. /\ s.host = r.host /\ s.generation = r.generation /\ s.link = r.link
        /\ s.again = r.again /\ s.cursor = x.last /\ s.seen = r.seen /\ s.gap = r.gap
        /\ s.blind = r.blind /\ s.lease = "connection" /\ s.chain = <<>> /\ s.acking = FALSE
        /\ s.up = r.up /\ s \in TabState
    <3>1. "connection" \in Leases /\ <<>> \in Seq(Received)
      BY DEF Leases, Over
    <3> QED
      BY <1>6, <1>c, <2>7, <3>1 DEF TabState
  <2>10. TabMoved(t, s)
    <3>1. /\ cursor' = [cursor EXCEPT ![t] = x.last]
          /\ Settled(t, "connection") /\ UNCHANGED up
      BY <1>b, <1>n DEF Acknowledge
    <3>2. TabGoes(t, r, s)
      BY <2>8, <3>1 DEF Acknowledge, Settled, TabGoes, Becomes, history, hostVars
    <3> QED
      BY <1>1, <3>2, GoesThere
  <2>11. s.cursor <= s.seen
    BY <1>b, <1>f, <2>8
  <2> QED
    BY <1>1, <1>6, <1>n, <2>8, <2>10, <2>11, EndsLease DEF SubscriptionStays, Over
<1> QED
  BY <1>p, <1>n

-----------------------------------------------------------------------------
(***************************************************************************)
(* The chain of a lease moves on, and a port is connected.                 *)
(***************************************************************************)
LEMMA ChainedLess ==
    ASSUME NEW c \in Seq(Received), c # <<>>, NEW g, NEW L, Chained(c, g, L)
    PROVE  Tail(c) \in Seq(Received) /\ Chained(Tail(c), g, L)
<1>1. /\ Tail(c) \in Seq(Received) /\ Len(c) \in Nat \ {0} /\ Len(Tail(c)) = Len(c) - 1
      /\ \A i \in 1 .. Len(c) - 1 : Tail(c)[i] = c[i + 1]
  BY Shorter
<1>2. \A i \in 1 .. Len(Tail(c)) : i + 1 \in 1 .. Len(c) /\ Tail(c)[i] = c[i + 1]
  BY <1>1
<1> QED
  BY <1>1, <1>2 DEF Chained

\* Outdated batches leave the chain.
LEMMA DropBatchStep ==
    ASSUME BrokerIInv, NEW t \in Tabs, DropBatch(t)
    PROVE  BrokerIInv'
<1>1. PICK r : r = StateOf(t)
  OBVIOUS
<1>6. /\ r \in TabState /\ r.chain \in Seq(Received) /\ r.acking = acking[t] /\ r.chain = chain[t]
      /\ r.link = link[t] /\ r.generation = generation[t] /\ r.acking \in BOOLEAN
      /\ (Accepting(t) <=> r.lease \in Live) /\ r.generation \in Nat /\ r.seen \in Nat
      /\ r.blind \in BOOLEAN
      /\ TabHolds(r, source.position) /\ source.position \in Int
  BY <1>1, StateIs
<1>a. /\ r.chain # <<>> /\ ~r.acking
      /\ r.lease \in Live /\ r.link # "closed" => Head(r.chain).generation # r.generation
  BY <1>6 DEF DropBatch, Outdated
<1>c. r.lease \in Live => r.link # "closed" /\ Head(r.chain).generation # r.generation
  BY <1>6, <1>a, LeasesAre DEF TabHolds
<1>b. PICK v \in Seq(Received) : v = Tail(r.chain) /\ Chained(v, r.generation, r.link)
  BY <1>6, <1>a, ChainedLess DEF TabHolds
<1>7. PICK s : s = [r EXCEPT !.chain = v]
  OBVIOUS
<1>8. /\ s.host = r.host /\ s.generation = r.generation /\ s.link = r.link
      /\ s.again = r.again /\ s.cursor = r.cursor /\ s.seen = r.seen /\ s.gap = r.gap
      /\ s.blind = r.blind /\ s.lease = r.lease /\ s.chain = v /\ s.acking = r.acking
      /\ s.up = r.up /\ s \in TabState
  BY <1>6, <1>7 DEF TabState
<1>10. TabMoved(t, s)
  <2>1. chain' = [chain EXCEPT ![t] = v]
    BY <1>6, <1>b DEF DropBatch
  <2>2. TabGoes(t, r, s)
    BY <1>8, <2>1 DEF DropBatch, TabGoes, Becomes, history, hostVars
  <2> QED
    BY <1>1, <2>2, GoesThere
<1>11. r.lease \in Mapped /\ r.link \in Ported => Conversation(s, source.position)
  <2> SUFFICES ASSUME r.lease \in Mapped, r.link \in Ported
               PROVE  Conversation(s, source.position)
    OBVIOUS
  <2>1. Conversation(r, source.position)
    BY <1>6 DEF TabHolds
  <2> QED
    BY <1>6, <1>8, <1>a, <1>b, <1>c, <2>1, LeasesAre, TabDropped
<1>r. r.lease \in Live => Resumes(v, FALSE, r.generation, r.seen, r.blind)
  BY <1>6, <1>a, <1>b, <1>c, ResumesLess DEF TabHolds
<1>12. TabHolds(s, source.position)
  BY <1>6, <1>8, <1>11, <1>a, <1>b, <1>r DEF TabHolds, Quiet
<1> QED
  BY <1>1, <1>6, <1>8, <1>10, <1>12, TabStep DEF SubscriptionStays

\* The first batch of the chain without its first item.
LEMMA AcceptedChain ==
    ASSUME NEW c \in Seq(Received), c # <<>>, c[1].items # <<>>,
           NEW v, v = [c EXCEPT ![1].items = Tail(@)]
    PROVE  /\ v \in Seq(Received) /\ Len(v) = Len(c) /\ Len(c) \in Nat \ {0}
           /\ \A i \in 1 .. Len(c) : i # 1 => v[i] = c[i]
           /\ v[1].generation = c[1].generation /\ v[1].id = c[1].id /\ v[1].last = c[1].last
           /\ v[1].items = Tail(c[1].items) /\ Head(c[1].items) \in Nat
<1>1. Len(c) \in Nat \ {0} /\ c[1] \in Received /\ 1 \in 1 .. Len(c)
  BY EmptySeq, Shorter
<1>2. c[1].items \in Seq(Nat)
  BY <1>1 DEF Received
<1>3. Tail(c[1].items) \in Seq(Nat) /\ Head(c[1].items) \in Nat
  BY <1>2, Shorter
<1>4. PICK x : x = [c[1] EXCEPT !.items = Tail(c[1].items)]
  OBVIOUS
<1>5. /\ x \in Received /\ x.generation = c[1].generation /\ x.id = c[1].id /\ x.last = c[1].last
      /\ x.items = Tail(c[1].items)
  BY <1>1, <1>3, <1>4 DEF Received
<1>6. v = [c EXCEPT ![1] = x]
  BY <1>4
<1>7. v \in Seq(Received) /\ Len(v) = Len(c) /\ v[1] = x
      /\ \A i \in 1 .. Len(c) : i # 1 => v[i] = c[i]
  <2>1. /\ v \in Seq(Received) /\ Len(v) = Len(c)
        /\ \A j \in 1 .. Len(c) : v[j] = IF j = 1 THEN x ELSE c[j]
    <3>1. c \in Seq(Received) /\ 1 \in 1 .. Len(c) /\ x \in Received
      BY <1>1, <1>5
    <3> QED
      BY ONLY <1>6, <3>1, ExceptSeq
  <2> QED
    BY <1>1, <2>1
<1> QED
  BY <1>1, <1>3, <1>5, <1>7

\* Accepting an item keeps the invariant: no sequence is passed over unseen.
LEMMA AcceptStep ==
    ASSUME BrokerIInv, NEW t \in Tabs, Accept(t)
    PROVE  BrokerIInv'
<1>1. PICK r : r = StateOf(t)
  OBVIOUS
<1>6. /\ r \in TabState /\ r.chain \in Seq(Received) /\ r.acking = acking[t] /\ r.chain = chain[t]
      /\ r.link = link[t] /\ r.generation = generation[t] /\ r.seen = seen[t] /\ r.gap = gap[t]
      /\ r.seen \in Nat /\ r.gap \in BOOLEAN /\ r.generation \in Nat /\ r.link \in Links
      /\ (Accepting(t) <=> r.lease \in Live) /\ r.blind \in BOOLEAN /\ r.acking \in BOOLEAN
      /\ TabHolds(r, source.position) /\ ClientSound(r.host, source.position)
      /\ source.position \in Int
  BY <1>1, StateIs
<1>h. chain[t] # <<>> => Head(chain[t]) = chain[t][1]
  BY <1>6, Shorter
<1>a. /\ r.chain # <<>> /\ ~r.acking /\ r.lease \in Live /\ r.link # "closed"
      /\ r.chain[1].generation = r.generation /\ r.chain[1].items # <<>>
  BY <1>6, <1>h DEF Accept, Outdated
<1>v. PICK v : v = [r.chain EXCEPT ![1].items = Tail(@)]
  OBVIOUS
<1>b. /\ v \in Seq(Received) /\ Len(v) = Len(r.chain) /\ Len(r.chain) \in Nat \ {0}
      /\ \A i \in 1 .. Len(r.chain) : i # 1 => v[i] = r.chain[i]
      /\ v[1].generation = r.generation /\ v[1].id = r.chain[1].id
      /\ v[1].last = r.chain[1].last
      /\ v[1].items = Tail(r.chain[1].items) /\ Head(r.chain[1].items) \in Nat
  BY ZenonT(60), <1>6, <1>a, <1>v, AcceptedChain
<1>c. PICK k \in Nat : k = Head(r.chain[1].items)
  BY <1>b
<1>m. PICK m \in Nat : m = IF k > r.seen THEN k ELSE r.seen
  BY <1>6
<1>g. PICK z \in BOOLEAN : z <=> r.gap \/ (r.seen > 0 /\ k > r.seen + 1)
  OBVIOUS
<1>r. Resumes(v, FALSE, r.generation, m, r.blind) /\ (r.seen > 0 /\ k > r.seen + 1 => r.blind)
  <2>1. Resumes(r.chain, FALSE, r.generation, r.seen, r.blind)
    BY <1>6, <1>a DEF TabHolds
  <2>2. m = IF Head(r.chain[1].items) > r.seen THEN Head(r.chain[1].items) ELSE r.seen
    BY <1>c, <1>m
  <2>3. /\ r.chain \in Seq(Received) /\ r.chain # <<>> /\ r.generation \in Nat /\ r.seen \in Nat
        /\ r.blind \in BOOLEAN /\ v \in Seq(Received) /\ m \in Nat
        /\ r.chain[1].generation = r.generation /\ r.chain[1].items # <<>>
        /\ Len(v) = Len(r.chain) /\ \A i \in 1 .. Len(r.chain) : i # 1 => v[i] = r.chain[i]
        /\ v[1].generation = r.generation /\ v[1].last = r.chain[1].last
        /\ v[1].items = Tail(r.chain[1].items)
    BY <1>6, <1>a, <1>b, <1>m
  <2>4. /\ Resumes(v, FALSE, r.generation, m, r.blind)
        /\ r.seen > 0 /\ Head(r.chain[1].items) > r.seen + 1 => r.blind
    <3>1. PICK c \in Seq(Received), b \in BOOLEAN, q \in Nat, n \in Nat :
             c = r.chain /\ b = r.blind /\ q = r.generation /\ n = r.seen
      BY <2>3
    <3>2. /\ c # <<>> /\ Resumes(c, FALSE, q, n, b) /\ c[1].generation = q /\ c[1].items # <<>>
          /\ Len(v) = Len(c) /\ \A i \in 1 .. Len(c) : i # 1 => v[i] = c[i]
          /\ v[1].generation = q /\ v[1].last = c[1].last /\ v[1].items = Tail(c[1].items)
          /\ m = IF Head(c[1].items) > n THEN Head(c[1].items) ELSE n
          /\ v \in Seq(Received) /\ m \in Nat
      BY <2>1, <2>2, <2>3, <3>1
    <3>3. Resumes(v, FALSE, q, m, b) /\ (n > 0 /\ Head(c[1].items) > n + 1 => b)
      <4>1. /\ c \in Seq(Received) /\ b \in BOOLEAN /\ q \in Nat /\ n \in Nat
        OBVIOUS
      <4> QED
        BY ONLY ZenonT(60), <3>2, <4>1, ResumesAccepted
    <3> QED
      BY <3>1, <3>3
  <2> QED
    BY <1>c, <2>4
<1>7. PICK s : s = [r EXCEPT !.chain = v, !.seen = m, !.gap = z]
  OBVIOUS
<1>8. /\ s.host = r.host /\ s.generation = r.generation /\ s.link = r.link
      /\ s.again = r.again /\ s.cursor = r.cursor /\ s.seen = m /\ s.gap = z
      /\ s.blind = r.blind /\ s.lease = r.lease /\ s.chain = v /\ s.acking = r.acking
      /\ s.up = r.up /\ s \in TabState
  BY <1>6, <1>7, <1>b DEF TabState
<1>10. TabMoved(t, s)
  <2>0. chain \in [Tabs -> Seq(Received)] /\ seen \in [Tabs -> Nat] /\ gap \in [Tabs -> BOOLEAN]
    BY DEF BrokerIInv, BrokerTypeOK
  <2>k. Head(Head(chain[t]).items) = k
    BY <1>6, <1>a, <1>c, <1>h
  <2>1. chain' = [chain EXCEPT ![t] = v]
    BY <1>6, <1>v, <2>0 DEF Accept
  <2>2. seen' = [seen EXCEPT ![t] = m]
    BY <1>6, <1>m, <2>k, <2>0 DEF Accept
  <2>3. gap' = [gap EXCEPT ![t] = z]
    <3>1. gap' = [gap EXCEPT ![t] = @ \/ (seen[t] > 0 /\ k > seen[t] + 1)]
      BY <2>k DEF Accept
    <3>2. z = (gap[t] \/ (seen[t] > 0 /\ k > seen[t] + 1))
      BY <1>6, <1>g
    <3> QED
      BY <3>1, <3>2
  <2>4. TabGoes(t, r, s)
    BY <1>8, <2>1, <2>2, <2>3 DEF Accept, TabGoes, Becomes, hostVars
  <2> QED
    BY <1>1, <2>4, GoesThere
<1>11. ASSUME r.lease \in Mapped, r.link \in Ported
       PROVE  Conversation(s, source.position)
  <2>1. Conversation(r, source.position)
    BY <1>6, <1>11 DEF TabHolds
  <2>2. r.host.attached => r.host.status = "open"
    BY <1>6 DEF ClientSound
  <2>3. s.seen = IF Head(r.chain[1].items) > r.seen THEN Head(r.chain[1].items) ELSE r.seen
    BY <1>8, <1>m, <1>c
  <2>4. /\ Len(s.chain) = Len(r.chain) /\ \A i \in 1 .. Len(r.chain) : i # 1 => s.chain[i] = r.chain[i]
        /\ s.chain[1].generation = r.generation /\ s.chain[1].id = r.chain[1].id
        /\ s.chain[1].last = r.chain[1].last /\ s.chain[1].items = Tail(r.chain[1].items)
    BY <1>8, <1>b
  <2> QED
    BY <1>6, <1>8, <1>a, <1>c, <2>1, <2>2, <2>3, <2>4, TabAccepted
<1>12. TabHolds(s, source.position)
  <2>1. Chained(s.chain, s.generation, s.link)
    <3>1. ASSUME NEW i \in 1 .. Len(s.chain)
          PROVE  s.chain[i].generation = r.chain[i].generation /\ i \in 1 .. Len(r.chain)
      BY <1>8, <1>a, <1>b
    <3> QED
      BY <1>6, <1>8, <3>1 DEF TabHolds, Chained
  <2>2. s.cursor <= s.seen
    <3>1. r.cursor \in Nat /\ r.cursor <= r.seen
      BY <1>6 DEF TabState, TabHolds
    <3> QED
      BY <1>6, <1>8, <1>m, <3>1
  <2>3. s.gap => s.blind
    BY <1>6, <1>8, <1>r, <1>g DEF TabHolds
  <2>4. s.chain # <<>>
    BY <1>8, <1>b
  <2>5. /\ s.lease \in Live /\ s.lease \notin {"idle", "waiting", "ack"}
        /\ s.link # "closed" /\ ~s.acking
    BY <1>8, <1>a, LeasesAre
  <2>6. s.lease \in Left /\ s.link \in Ported => Parted(s.host, s.up)
    BY <1>6, <1>8 DEF TabHolds
  <2>7. s.link = "connecting" => Quiet(s) /\ s.host.status = "none"
    BY <1>6, <1>8 DEF TabHolds, Quiet
  <2>8. Resumes(s.chain, s.acking, s.generation, s.seen, s.blind)
    <3>1. r.acking = FALSE
      BY <1>6, <1>a
    <3> QED
      BY <1>8, <1>r, <3>1
  <2>9. s.lease \in Mapped /\ s.link \in Ported => Conversation(s, source.position)
    BY <1>8, <1>11
  <2> QED
    BY ONLY <1>8, <2>1, <2>2, <2>3, <2>4, <2>5, <2>6, <2>7, <2>8, <2>9 DEF TabHolds
<1> QED
  BY <1>1, <1>6, <1>8, <1>a, <1>10, <1>12, LeasesAre, TabStep DEF SubscriptionStays

\* A port that is connected to a client without a subscription.
LEMMA OpenedIs ==
    ASSUME NEW h \in Client, ~h.attached, NEW e, e = [h EXCEPT !.status = "open"]
    PROVE  e \in Client /\ SubscriptionStays(e, h) /\ e.down = h.down
BY DEF Client, SubscriptionStays

\* A new port is connected, with nothing said on it.
LEMMA ConnectedStep ==
    ASSUME BrokerIInv, NEW t \in Tabs, Connected(t)
    PROVE  BrokerIInv'
<1>1. PICK r : r = StateOf(t)
  OBVIOUS
<1>6. /\ r \in TabState /\ r.host \in Client /\ r.host = host[Port(t)] /\ r.link = "connecting"
      /\ TabHolds(r, source.position) /\ ClientSound(r.host, source.position)
      /\ source.position \in Int /\ host \in [Ports -> Client] /\ r.generation \in Nat
      /\ r.chain \in Seq(Received)
  BY <1>1, StateIs DEF Connected, BrokerIInv, BrokerTypeOK
<1>a. ~r.host.attached /\ r.host.down = <<>> /\ r.up = <<>> /\ ~r.host.lagged
      /\ Chained(r.chain, r.generation, "connecting")
  BY <1>6 DEF TabHolds, Quiet, ClientSound
<1>e. PICK e : e = [r.host EXCEPT !.status = "open"]
  OBVIOUS
<1>f. e \in Client /\ SubscriptionStays(e, r.host) /\ e.down = r.host.down
  BY <1>6, <1>a, <1>e, OpenedIs
<1>7. PICK s : s = [r EXCEPT !.host = e, !.link = "hello"]
  OBVIOUS
<1>8. /\ s.host = e /\ s.generation = r.generation /\ s.link = "hello"
      /\ s.again = r.again /\ s.cursor = r.cursor /\ s.seen = r.seen /\ s.gap = r.gap
      /\ s.blind = r.blind /\ s.lease = r.lease /\ s.chain = r.chain /\ s.acking = r.acking
      /\ s.up = r.up
  BY <1>6, <1>7 DEF TabState
<1>9. s \in TabState
  <2>1. "hello" \in Links
    BY DEF Links
  <2> QED
    BY <1>6, <1>7, <1>f, <2>1 DEF TabState
<1>10. TabMoved(t, s)
  <2>1. host' = [host EXCEPT ![Port(t)] = e] /\ link' = [link EXCEPT ![t] = "hello"]
    BY <1>6, <1>e DEF Connected
  <2>2. TabGoes(t, r, s)
    BY <1>8, <2>1 DEF Connected, TabGoes, Becomes, history
  <2> QED
    BY <1>1, <2>2, GoesThere
<1>11. Conversation(s, source.position)
  <2>1. ~s.host.attached /\ ~s.host.lagged /\ s.host.down = <<>> /\ s.up = <<>>
    BY <1>8, <1>a, <1>f DEF SubscriptionStays
  <2>2. OnUp(s.up) = {} /\ Asked(s.host, s.up, s.chain, s.seen, s.blind)
    BY <2>1 DEF OnUp, Asked
  <2>3. OnChain(s.chain, s.acking, s.generation) = {}
    <3> SUFFICES ASSUME NEW i \in OnChain(s.chain, s.acking, s.generation)
                 PROVE  FALSE
      OBVIOUS
    <3>1. i \in 1 .. Len(r.chain) /\ r.chain[i].generation = r.generation
      BY <1>8 DEF OnChain
    <3> QED
      BY <1>6, <1>a, <3>1 DEF Chained
  <2> QED
    BY <1>6, <1>9, <2>1, <2>2, <2>3, SilentTab
<1>p. Parted(s.host, s.up)
  <2>1. ~s.host.attached /\ \A i \in 1 .. Len(s.up) : FALSE
    BY <1>8, <1>a, <1>f DEF SubscriptionStays
  <2> QED
    BY <2>1 DEF Parted
<1>12. TabHolds(s, source.position)
  BY <1>6, <1>8, <1>11, <1>f, <1>p DEF TabHolds, Chained, Quiet, SubscriptionStays
<1> QED
  BY <1>1, <1>6, <1>8, <1>9, <1>10, <1>12, <1>f, TabStep

-----------------------------------------------------------------------------
(***************************************************************************)
(* What a tab receives.                                                    *)
(***************************************************************************)
LEMMA HearsIs ==
    ASSUME NEW h \in Client, h.down # <<>>, NEW e, e = [h EXCEPT !.down = Tail(@)]
    PROVE  e \in Client /\ SubscriptionStays(e, h) /\ Hears(e, h) /\ Head(h.down) \in Answer
<1>1. h.down \in Seq(Answer)
  BY DEF Client
<1>2. Tail(h.down) \in Seq(Answer) /\ Head(h.down) \in Answer
  BY <1>1, Shorter
<1> QED
  BY <1>2 DEF Client, SubscriptionStays, Hears

\* What a tab holds that receives a message.
LEMMA ReceiverIs ==
    ASSUME BrokerIInv, NEW t \in Tabs, NEW type, Receives(t, type), NEW r, r = StateOf(t),
           NEW e, e = [r.host EXCEPT !.down = Tail(@)]
    PROVE  /\ r \in TabState /\ r.link \in Ported /\ r.host.down # <<>> /\ r.host \in Client
           /\ Message(t) = Head(r.host.down) /\ Head(r.host.down).type = type
           /\ Head(r.host.down) \in Answer
           /\ e \in Client /\ SubscriptionStays(e, r.host) /\ Hears(e, r.host)
           /\ host' = [host EXCEPT ![Port(t)] = e]
           /\ TabHolds(r, source.position) /\ source.position \in Int
           /\ r.lease \notin {"idle", "waiting"} /\ r.link # "connecting"
           /\ r.lease \in Mapped => Conversation(r, source.position)
<1>1. /\ r \in TabState /\ r.host \in Client /\ r.host = host[Port(t)]
      /\ HasPort(t) <=> r.link \in Ported
      /\ TabHolds(r, source.position) /\ source.position \in Int /\ host \in [Ports -> Client]
  BY StateIs DEF BrokerIInv, BrokerTypeOK
<1>2. r.link \in Ported /\ r.host.down # <<>> /\ Message(t) = Head(r.host.down)
      /\ Head(r.host.down).type = type
  BY <1>1 DEF Receives, Message
<1>3. e \in Client /\ SubscriptionStays(e, r.host) /\ Hears(e, r.host) /\ Head(r.host.down) \in Answer
  BY <1>1, <1>2, HearsIs
<1>4. host' = [host EXCEPT ![Port(t)] = e]
  BY <1>1 DEF Receives
<1>5. /\ r.lease \notin {"idle", "waiting"} /\ r.link # "connecting"
      /\ r.lease \in Mapped => Conversation(r, source.position)
  BY <1>1, <1>2 DEF TabHolds, Quiet, Ported
<1> QED
  BY <1>1, <1>2, <1>3, <1>4, <1>5

\* A message that ends the lease, or that comes when there is none.
LEMMA EndsHearing ==
    ASSUME BrokerIInv, NEW t \in Tabs, NEW type, Receives(t, type), NEW reason \in Over \ {"ack"},
           NEW L \in Links, L \in Ported, link' = [link EXCEPT ![t] = L] \/ (link' = link /\ L = link[t]),
           Settled(t, reason), UNCHANGED <<up, blind>>, reason # "attach" => lease[t] = "closing"
    PROVE  BrokerIInv'
<1>1. PICK r : r = StateOf(t)
  OBVIOUS
<1>2. PICK e : e = [r.host EXCEPT !.down = Tail(@)]
  OBVIOUS
<1>3. /\ e \in Client /\ SubscriptionStays(e, r.host) /\ host' = [host EXCEPT ![Port(t)] = e]
      /\ Hears(e, r.host) /\ r.link \in Ported /\ TabHolds(r, source.position)
  <2>1. BrokerIInv /\ t \in Tabs /\ Receives(t, type)
    OBVIOUS
  <2> QED
    BY ONLY SMTT(30), <1>1, <1>2, <2>1, ReceiverIs
<1>4. Becomes(host', host, Port(t), e, r.host)
  BY <1>3 DEF Becomes
<1>5. /\ Becomes(link', link, t, L, r.link) /\ Becomes(up', up, Port(t), r.up, r.up)
      /\ r.up \in Seq(Command) /\ r.lease = lease[t]
  BY <1>1, StateIs DEF Becomes
<1>6. UNCHANGED <<source, generation, reconnecting, cursor, history>>
  BY DEF Receives, history
<1>7. L # "connecting"
  BY LeasesAre
<1>8. reason # "attach" => Parted(e, r.up)
  <2>1. reason # "attach" => r.lease \in Left
    BY <1>5 DEF Left
  <2>2. reason # "attach" => Parted(r.host, r.up)
    BY <1>3, <2>1 DEF TabHolds
  <2> QED
    BY <1>3, <2>2, PartedStays DEF Hears
<1> QED
  BY <1>1, <1>3, <1>4, <1>5, <1>6, <1>7, <1>8, SettledStep

\* A message for a lease that is not in the map is ignored.
LEMMA HearsNothing ==
    ASSUME BrokerIInv, NEW t \in Tabs, NEW type, Receives(t, type), ~InMap(t),
           NEW L \in Links, L \in Ported, link' = [link EXCEPT ![t] = L] \/ (link' = link /\ L = link[t]),
           UNCHANGED <<lease, up, chain, acking, blind>>
    PROVE  BrokerIInv'
<1>1. PICK r : r = StateOf(t)
  OBVIOUS
<1>2. PICK e : e = [r.host EXCEPT !.down = Tail(@)]
  OBVIOUS
<1>3. /\ e \in Client /\ SubscriptionStays(e, r.host) /\ Hears(e, r.host) /\ host' = [host EXCEPT ![Port(t)] = e]
      /\ r \in TabState /\ TabHolds(r, source.position) /\ r.lease \notin {"idle", "waiting"}
      /\ r.link \in Ported
  BY <1>1, <1>2, ReceiverIs
<1>4. r.lease \notin Mapped /\ r.link = link[t]
  BY <1>1, StateIs
<1>7. PICK s : s = [r EXCEPT !.host = e, !.link = L]
  OBVIOUS
<1>8. /\ s.host = e /\ s.generation = r.generation /\ s.link = L
      /\ s.again = r.again /\ s.cursor = r.cursor /\ s.seen = r.seen /\ s.gap = r.gap
      /\ s.blind = r.blind /\ s.lease = r.lease /\ s.chain = r.chain /\ s.acking = r.acking
      /\ s.up = r.up /\ s \in TabState
  BY <1>3, <1>7 DEF TabState
<1>10. TabMoved(t, s)
  <2>1. Becomes(link', link, t, s.link, r.link)
    BY <1>4, <1>8 DEF Becomes
  <2>2. TabGoes(t, r, s)
    BY <1>3, <1>8, <2>1 DEF Receives, TabGoes, Becomes
  <2> QED
    BY <1>1, <2>2, GoesThere
<1>11. r.lease \in Left => Parted(e, r.up)
  BY <1>3, PartedStays DEF TabHolds, Hears
<1>12. TabHolds(s, source.position)
  <2>1. L # "closed" /\ L # "connecting"
    BY DEF Ported
  <2> QED
    BY <1>3, <1>4, <1>8, <1>11, <2>1, LeasesAre DEF TabHolds, Chained
<1> QED
  BY <1>1, <1>3, <1>8, <1>10, <1>12, TabStep DEF Ported

\* A state that ends the lease, or comes too late to.
LEMMA StateReceivedStep ==
    ASSUME BrokerIInv, NEW t \in Tabs, StateReceived(t)
    PROVE  BrokerIInv'
<1>1. PICK r : r = StateOf(t)
  OBVIOUS
<1>2. PICK e : e = [r.host EXCEPT !.down = Tail(@)]
  OBVIOUS
<1>3. Receives(t, "state") /\ UNCHANGED <<link, blind>>
  BY DEF StateReceived
<1>4. /\ e \in Client /\ SubscriptionStays(e, r.host) /\ e.status = r.host.status
      /\ Becomes(host', host, Port(t), e, r.host) /\ r.link # "connecting"
  BY <1>1, <1>2, <1>3, ReceiverIs DEF Hears, Becomes
<1>5. UNCHANGED <<source, generation, reconnecting, cursor, history, link>>
  BY <1>3 DEF Receives, history
<1>6. CASE InMap(t) /\ Message(t).state = "closed"
  <2>1. Detaches(t)
    BY <1>6 DEF StateReceived
  <2> QED
    BY <1>1, <1>4, <1>5, <1>6, <2>1, DetachesStep
<1>7. CASE InMap(t) /\ Message(t).state # "closed"
  <2>1. PICK reason \in Over \ {"ack"} : Fails(t, reason)
    BY <1>7 DEF StateReceived, Over
  <2>2. Accepting(t)
    BY <1>7 DEF Accepting
  <2> QED
    BY <1>1, <1>4, <1>5, <2>1, <2>2, FailsStep
<1>8. CASE ~InMap(t)
  <2>1. UNCHANGED <<lease, up, chain, acking>>
    BY <1>8 DEF StateReceived
  <2>2. PICK L : L = link[t]
    OBVIOUS
  <2>3. L \in Links /\ L \in Ported
    BY <1>3, <2>2 DEF Receives, HasPort, Ported, Links
  <2> QED
    BY <1>3, <1>8, <2>1, <2>2, <2>3, HearsNothing
<1> QED
  BY <1>6, <1>7, <1>8

\* An answer to attach: the lease is attached, ends, or is gone already.
LEMMA AttachAnsweredStep ==
    ASSUME BrokerIInv, NEW t \in Tabs, AttachAnswered(t)
    PROVE  BrokerIInv'
<1>1. PICK L : L = IF Message(t).of = "reattach" THEN "up" ELSE link[t]
  OBVIOUS
<1>2. L \in Links /\ L \in Ported /\ Receives(t, "result") /\ UNCHANGED blind
  BY <1>1 DEF AttachAnswered, Receives, HasPort, Ported, Links
<1>l. link' = [link EXCEPT ![t] = L] /\ link \in [Tabs -> Links]
  BY <1>1 DEF AttachAnswered, BrokerIInv, BrokerTypeOK
<1>3. CASE ~InMap(t) /\ (Message(t).ok \/ ~Accepting(t))
  <2>1. UNCHANGED <<lease, up, chain, acking>>
    BY <1>3 DEF AttachAnswered
  <2> QED
    BY <1>2, <1>l, <1>3, <2>1, HearsNothing
<1>4. CASE ~Message(t).ok /\ Accepting(t)
  <2>1. PICK reason \in {"attach", "refused"} :
           Settled(t, reason) /\ (reason # "attach" => ~InMap(t))
    BY <1>4 DEF AttachAnswered
  <2>2. reason \in Over \ {"ack"} /\ (reason # "attach" => lease[t] = "closing")
    BY <1>4, <2>1 DEF Over, Accepting
  <2>3. UNCHANGED up
    BY DEF AttachAnswered
  <2> QED
    BY <1>2, <1>l, <2>1, <2>2, <2>3, EndsHearing
<1>5. CASE InMap(t) /\ Message(t).ok
  <2>1. PICK r : r = StateOf(t)
    OBVIOUS
  <2>2. PICK e : e = [r.host EXCEPT !.down = Tail(@)]
    OBVIOUS
  <2>3. /\ e \in Client /\ SubscriptionStays(e, r.host) /\ Hears(e, r.host)
        /\ host' = [host EXCEPT ![Port(t)] = e]
        /\ r \in TabState /\ TabHolds(r, source.position)
        /\ r.link \in Ported /\ source.position \in Int
        /\ Message(t) = Head(r.host.down) /\ r.host.down # <<>>
        /\ Head(r.host.down).type = "result"
    BY <1>2, <2>1, <2>2, ReceiverIs
  <2>4. r.lease \in Mapped
    BY <1>5, <2>1, StateIs
  <2>5. Conversation(r, source.position)
    BY <2>3, <2>4 DEF TabHolds
  <2>7. PICK s : s = [r EXCEPT !.host = e, !.link = L, !.lease = "attached"]
    OBVIOUS
  <2>8. /\ s.host = e /\ s.generation = r.generation /\ s.link = L
        /\ s.again = r.again /\ s.cursor = r.cursor /\ s.seen = r.seen /\ s.gap = r.gap
        /\ s.blind = r.blind /\ s.lease = "attached" /\ s.chain = r.chain /\ s.acking = r.acking
        /\ s.up = r.up
    BY <2>3, <2>7 DEF TabState
  <2>9. s \in TabState
    <3>1. "attached" \in Leases
      BY DEF Leases
    <3> QED
      BY <1>2, <2>3, <2>7, <3>1 DEF TabState
  <2>10. TabMoved(t, s)
    <3>1. lease' = [lease EXCEPT ![t] = "attached"] /\ UNCHANGED <<up, chain, acking>>
      BY <1>5 DEF AttachAnswered
    <3>2. TabGoes(t, r, s)
      BY <1>2, <1>l, <2>3, <2>8, <3>1 DEF Receives, TabGoes, Becomes
    <3> QED
      BY <2>1, <3>2, GoesThere
  <2>11. Conversation(s, source.position)
    <3>1. Head(r.host.down).of # "ack" /\ Head(r.host.down).ok
      BY <1>5, <2>3 DEF AttachAnswered
    <3>2. ~Ender(Head(r.host.down))
      BY <2>3, <3>1 DEF Ender
    <3> QED
      BY <2>3, <2>5, <2>8, <2>9, <3>1, <3>2, TabHeard
  <2>r. "attached" \in Mapped /\ Resumes(s.chain, s.acking, s.generation, s.seen, s.blind)
    BY <2>11, TabResumes DEF Mapped
  <2>12. TabHolds(s, source.position)
    BY <1>2, <2>3, <2>4, <2>8, <2>11, <2>r, LeasesAre DEF TabHolds, Chained, Ported
  <2> QED
    BY <1>2, <2>1, <2>3, <2>8, <2>9, <2>10, <2>12, TabStep DEF Ported
<1> QED
  BY <1>3, <1>4, <1>5 DEF Accepting

\* The answer to a detach settles the lease that awaits it.
LEMMA DetachAnsweredStep ==
    ASSUME BrokerIInv, NEW t \in Tabs, DetachAnswered(t)
    PROVE  BrokerIInv'
<1>1. PICK L : L = link[t]
  OBVIOUS
<1>2. L \in Links /\ L \in Ported /\ Receives(t, "result") /\ UNCHANGED <<up, link, blind>>
  BY <1>1 DEF DetachAnswered, Receives, HasPort, Ported, Links
<1>3. CASE lease[t] = "closing"
  <2>1. Settled(t, "closed") /\ "closed" \in Over \ {"ack"}
    BY <1>3 DEF DetachAnswered, Over
  <2> QED
    BY <1>1, <1>2, <1>3, <2>1, EndsHearing
<1>4. CASE lease[t] # "closing" /\ ~InMap(t)
  <2>1. UNCHANGED <<lease, up, chain, acking>>
    BY <1>4 DEF DetachAnswered
  <2> QED
    BY <1>1, <1>2, <1>4, <2>1, HearsNothing
<1>5. CASE InMap(t)
  <2>1. PICK r : r = StateOf(t)
    OBVIOUS
  <2>2. PICK e : e = [r.host EXCEPT !.down = Tail(@)]
    OBVIOUS
  <2>3. /\ e \in Client /\ SubscriptionStays(e, r.host) /\ Hears(e, r.host)
        /\ host' = [host EXCEPT ![Port(t)] = e]
        /\ r \in TabState /\ TabHolds(r, source.position)
        /\ r.link \in Ported /\ source.position \in Int
        /\ Message(t) = Head(r.host.down) /\ r.host.down # <<>>
        /\ Head(r.host.down).type = "result"
    BY <1>2, <2>1, <2>2, ReceiverIs
  <2>4. r.lease \in Mapped /\ lease[t] # "closing"
    BY <1>5, <2>1, StateIs DEF InMap
  <2>5. Conversation(r, source.position)
    BY <2>3, <2>4 DEF TabHolds
  <2>7. PICK s : s = [r EXCEPT !.host = e]
    OBVIOUS
  <2>8. /\ s.host = e /\ s.generation = r.generation /\ s.link = r.link
        /\ s.again = r.again /\ s.cursor = r.cursor /\ s.seen = r.seen /\ s.gap = r.gap
        /\ s.blind = r.blind /\ s.lease = r.lease /\ s.chain = r.chain /\ s.acking = r.acking
        /\ s.up = r.up /\ s \in TabState
    BY <2>3, <2>7 DEF TabState
  <2>10. TabMoved(t, s)
    <3>1. UNCHANGED <<lease, up, link, chain, acking, blind>>
      BY <2>4 DEF DetachAnswered
    <3>2. TabGoes(t, r, s)
      BY <1>2, <2>3, <2>8, <3>1 DEF Receives, TabGoes, Becomes
    <3> QED
      BY <2>1, <3>2, GoesThere
  <2>11. Conversation(s, source.position)
    <3>1. Head(r.host.down).of = "detach"
      BY <2>3 DEF DetachAnswered
    <3>2. ~Ender(Head(r.host.down))
      BY <2>3, <3>1 DEF Ender
    <3> QED
      BY <2>3, <2>5, <2>8, <3>1, <3>2, TabHeard
  <2>12. TabHolds(s, source.position)
    BY <2>3, <2>4, <2>8, <2>11, LeasesAre DEF TabHolds
  <2> QED
    BY <2>1, <2>3, <2>4, <2>8, <2>10, <2>12, LeasesAre, TabStep
<1> QED
  BY <1>3, <1>4, <1>5

\* An answer to an acknowledgement never ends a lease of the map.
LEMMA AckAnsweredStep ==
    ASSUME BrokerIInv, NEW t \in Tabs, AckAnswered(t)
    PROVE  BrokerIInv'
<1>1. PICK r : r = StateOf(t)
  OBVIOUS
<1>2. PICK e : e = [r.host EXCEPT !.down = Tail(@)]
  OBVIOUS
<1>3. /\ e \in Client /\ SubscriptionStays(e, r.host) /\ Hears(e, r.host)
      /\ host' = [host EXCEPT ![Port(t)] = e]
      /\ r \in TabState /\ TabHolds(r, source.position)
      /\ r.link \in Ported /\ source.position \in Int
      /\ Message(t) = Head(r.host.down) /\ r.host.down # <<>>
      /\ Head(r.host.down).type = "result" /\ r.lease \notin {"idle", "waiting"}
  <2>1. BrokerIInv /\ t \in Tabs /\ Receives(t, "result")
    BY DEF AckAnswered
  <2> QED
    BY ONLY SMTT(30), <1>1, <1>2, <2>1, ReceiverIs
<1>4. /\ r.acking = acking[t] /\ r.chain = chain[t] /\ r.chain \in Seq(Received)
      /\ r.acking \in BOOLEAN /\ chain \in [Tabs -> Seq(Received)] /\ acking \in [Tabs -> BOOLEAN]
      /\ (InMap(t) <=> r.lease \in Mapped) /\ (Accepting(t) <=> r.lease \in Live)
      /\ r.generation \in Nat /\ r.seen \in Nat /\ r.blind \in BOOLEAN
  BY <1>1, StateIs DEF BrokerIInv, BrokerTypeOK
<1>m. Head(r.host.down).of = "ack"
  BY <1>3 DEF AckAnswered
<1>5. CASE r.acking /\ (Head(r.host.down).ok \/ r.lease \in Mapped)
  <2>1. r.chain # <<>> /\ r.lease \in Live /\ Resumes(r.chain, TRUE, r.generation, r.seen, r.blind)
    BY <1>3, <1>4, <1>5 DEF TabHolds
  <2>3. PICK v \in Seq(Received) : v = Tail(r.chain) /\ Chained(v, r.generation, r.link)
    BY <1>3, <1>4, <2>1, ChainedLess DEF TabHolds
  <2>7. PICK s : s = [r EXCEPT !.host = e, !.chain = v, !.acking = FALSE]
    OBVIOUS
  <2>8. /\ s.host = e /\ s.generation = r.generation /\ s.link = r.link
        /\ s.again = r.again /\ s.cursor = r.cursor /\ s.seen = r.seen /\ s.gap = r.gap
        /\ s.blind = r.blind /\ s.lease = r.lease /\ s.chain = v /\ s.acking = FALSE
        /\ s.up = r.up /\ s \in TabState
    BY <1>3, <2>7 DEF TabState
  <2>9. ASSUME r.lease \in Mapped
        PROVE  Head(r.host.down).ok /\ Conversation(s, source.position)
    <3>1. Conversation(r, source.position)
      BY <1>3, <2>9 DEF TabHolds
    <3> QED
      BY <1>3, <1>m, <2>1, <2>3, <2>8, <3>1, TabAnswered
  <2>10. TabMoved(t, s)
    <3>1. /\ acking' = [acking EXCEPT ![t] = FALSE] /\ UNCHANGED <<lease, up, link, blind>>
          /\ chain' = [chain EXCEPT ![t] = v]
      BY <1>3, <1>4, <1>5, <2>3, <2>9 DEF AckAnswered
    <3>2. TabGoes(t, r, s)
      BY <1>3, <2>8, <3>1 DEF AckAnswered, Receives, TabGoes, Becomes
    <3> QED
      BY <1>1, <3>2, GoesThere
  <2>11. Resumes(v, FALSE, r.generation, r.seen, r.blind)
    BY <1>4, <2>1, <2>3, ResumesLess
  <2>p. r.lease \in Left => Parted(e, r.up)
    BY <1>3, PartedStays DEF TabHolds, Hears
  <2>12. TabHolds(s, source.position)
    BY <1>3, <2>1, <2>3, <2>8, <2>9, <2>11, <2>p, LeasesAre DEF TabHolds
  <2> QED
    BY <1>1, <1>3, <2>1, <2>8, <2>10, <2>12, LeasesAre, TabStep
<1>7. CASE r.acking /\ ~Head(r.host.down).ok /\ r.lease \notin Mapped
  <2>1. Accepting(t) /\ ~InMap(t)
    BY <1>3, <1>4, <1>7 DEF TabHolds
  <2>2. Fails(t, "refused") /\ "refused" \in Over \ {"ack"}
    BY <1>3, <1>4, <1>7, <2>1 DEF AckAnswered, Over
  <2>3. UNCHANGED <<source, generation, reconnecting, cursor, history, link>>
    BY DEF AckAnswered, Receives, history
  <2>4. Becomes(host', host, Port(t), e, r.host) /\ e.status = r.host.status /\ r.link # "connecting"
    BY <1>3, LeasesAre DEF Becomes, Hears
  <2> QED
    BY <1>1, <1>3, <2>1, <2>2, <2>3, <2>4, FailsStep
<1>6. CASE ~r.acking
  <2>1. r.lease \notin Mapped
    <3> SUFFICES ASSUME r.lease \in Mapped
                 PROVE  FALSE
      OBVIOUS
    <3>1. Conversation(r, source.position)
      BY <1>3 DEF TabHolds
    <3> QED
      BY <1>3, <1>6, <1>m, <3>1, TabAwaits
  <2>2. UNCHANGED <<lease, up, link, blind, chain, acking>>
    BY <1>4, <1>6 DEF AckAnswered
  <2>3. PICK L : L = link[t]
    OBVIOUS
  <2>4. L \in Links /\ L \in Ported /\ Receives(t, "result")
    BY <2>3 DEF AckAnswered, Receives, HasPort, Ported, Links
  <2> QED
    BY <1>4, <2>1, <2>2, <2>3, <2>4, HearsNothing
<1> QED
  BY <1>4, <1>5, <1>6, <1>7

\* A batch is received with its last sequence.
LEMMA BatchIs ==
    ASSUME NEW m \in Answer, m.type = "batch", NEW g \in Nat,
           NEW x, x = [generation |-> g, id |-> m.id, items |-> m.items, last |-> Last(m.items)]
    PROVE  /\ x \in Received /\ x.generation = g /\ x.id = m.id /\ x.items = m.items
           /\ x.last = LastOf(m)
<1>1. m.id \in Nat /\ m.items \in Seq(Nat) /\ m.items # <<>>
  BY DEF Answer
<1>2. Len(m.items) \in 1 .. Len(m.items)
  BY <1>1, EmptySeq
<1>3. Last(m.items) = LastOf(m) /\ LastOf(m) \in Nat
  BY <1>1, <1>2 DEF Last, LastOf
<1> QED
  BY <1>1, <1>3 DEF Received

\* A batch of the current port joins the chain.
LEMMA ChainedMore ==
    ASSUME NEW c \in Seq(Received), NEW g \in Nat, NEW L, Chained(c, g, L), L # "connecting",
           NEW x \in Received, x.generation = g
    PROVE  Append(c, x) \in Seq(Received) /\ Chained(Append(c, x), g, L) /\ Append(c, x) # <<>>
<1>1. /\ Append(c, x) \in Seq(Received) /\ Append(c, x) # <<>>
      /\ Len(c) \in Nat /\ Len(Append(c, x)) = Len(c) + 1
      /\ \A i \in 1 .. Len(c) : Append(c, x)[i] = c[i]
      /\ Append(c, x)[Len(c) + 1] = x
  BY Longer
<1> QED
  BY <1>1 DEF Chained

\* A batch that arrives waits in the chain of its lease.
LEMMA BatchReceivedStep ==
    ASSUME BrokerIInv, NEW t \in Tabs, BatchReceived(t)
    PROVE  BrokerIInv'
<1>0. Receives(t, "batch") /\ UNCHANGED <<up, link, lease, acking, blind>>
  BY DEF BatchReceived
<1>1. PICK r : r = StateOf(t)
  OBVIOUS
<1>2. PICK e : e = [r.host EXCEPT !.down = Tail(@)]
  OBVIOUS
<1>3. /\ e \in Client /\ SubscriptionStays(e, r.host) /\ Hears(e, r.host)
      /\ host' = [host EXCEPT ![Port(t)] = e]
      /\ r \in TabState /\ TabHolds(r, source.position)
      /\ r.link \in Ported /\ source.position \in Int
      /\ Message(t) = Head(r.host.down) /\ r.host.down # <<>>
      /\ Head(r.host.down).type = "batch" /\ Head(r.host.down) \in Answer
      /\ r.lease \notin {"idle", "waiting"} /\ r.link # "connecting"
  BY <1>0, <1>1, <1>2, ReceiverIs
<1>4. /\ r.chain = chain[t] /\ r.chain \in Seq(Received) /\ r.generation = generation[t]
      /\ r.generation \in Nat /\ chain \in [Tabs -> Seq(Received)]
      /\ InMap(t) <=> r.lease \in Mapped
  BY <1>1, StateIs DEF BrokerIInv, BrokerTypeOK
<1>5. CASE InMap(t)
  <2>1. PICK m \in Answer : m = Head(r.host.down) /\ m.type = "batch"
    BY <1>3
  <2>2. PICK x : x = [generation |-> r.generation, id |-> m.id, items |-> m.items,
                      last |-> Last(m.items)]
    OBVIOUS
  <2>3. /\ x \in Received /\ x.generation = r.generation /\ x.id = m.id /\ x.items = m.items
        /\ x.last = LastOf(m)
    BY <1>4, <2>1, <2>2, BatchIs
  <2>4. PICK v : v = Append(r.chain, x)
    OBVIOUS
  <2>5. v \in Seq(Received) /\ Chained(v, r.generation, r.link) /\ v # <<>>
    BY <1>3, <1>4, <2>3, <2>4, ChainedMore DEF TabHolds
  <2>6. Conversation(r, source.position) /\ (r.acking => r.chain # <<>>)
    BY <1>3, <1>4, <1>5 DEF TabHolds
  <2>7. PICK s : s = [r EXCEPT !.host = e, !.chain = v]
    OBVIOUS
  <2>8. /\ s.host = e /\ s.generation = r.generation /\ s.link = r.link
        /\ s.again = r.again /\ s.cursor = r.cursor /\ s.seen = r.seen /\ s.gap = r.gap
        /\ s.blind = r.blind /\ s.lease = r.lease /\ s.chain = v /\ s.acking = r.acking
        /\ s.up = r.up /\ s \in TabState
    BY <1>3, <2>5, <2>7 DEF TabState
  <2>9. Conversation(s, source.position)
    <3>1. Hears(s.host, r.host) /\ s.chain = Append(r.chain, x)
      BY <1>3, <2>4, <2>8
    <3>2. /\ x.id = Head(r.host.down).id /\ x.items = Head(r.host.down).items
          /\ x.last = LastOf(Head(r.host.down))
      BY <2>1, <2>3
    <3> QED
      BY <1>3, <2>3, <2>6, <2>8, <3>1, <3>2, TabReceived
  <2>10. TabMoved(t, s)
    <3>1. chain' = [chain EXCEPT ![t] = v]
      BY <1>3, <1>4, <1>5, <2>1, <2>2, <2>4 DEF BatchReceived
    <3>2. TabGoes(t, r, s)
      BY <1>0, <1>3, <2>8, <3>1 DEF Receives, TabGoes, Becomes
    <3> QED
      BY <1>1, <3>2, GoesThere
  <2>r. Resumes(s.chain, s.acking, s.generation, s.seen, s.blind)
    BY <2>9, TabResumes
  <2>12. TabHolds(s, source.position)
    BY <1>3, <1>4, <1>5, <2>5, <2>8, <2>9, <2>r, LeasesAre DEF TabHolds
  <2> QED
    BY <1>1, <1>3, <2>8, <2>10, <2>12, TabStep
<1>6. CASE ~InMap(t)
  <2>1. UNCHANGED chain
    BY <1>4, <1>6 DEF BatchReceived
  <2>3. PICK L : L = link[t]
    OBVIOUS
  <2>4. L \in Links /\ L \in Ported
    BY <1>0, <2>3 DEF Receives, HasPort, Ported, Links
  <2> QED
    BY <1>0, <1>6, <2>1, <2>3, <2>4, HearsNothing
<1> QED
  BY <1>5, <1>6

-----------------------------------------------------------------------------
(***************************************************************************)
(* A tab turns to a new port, on which nothing has been said.              *)
(***************************************************************************)
LEMMA EstablishStep ==
    ASSUME BrokerIInv, NEW t \in Tabs, NEW again \in BOOLEAN, Establish(t, again)
    PROVE  BrokerIInv'
<1>1. PICK r : r = StateOf(t)
  OBVIOUS
<1>6. /\ r \in TabState /\ r.host \in Client /\ r.host = host[Port(t)] /\ r.link = link[t]
      /\ r.up = up[Port(t)]
      /\ r.lease = lease[t] /\ r.lease \in Leases /\ r.chain = chain[t] /\ r.chain \in Seq(Received)
      /\ r.acking = acking[t] /\ r.acking \in BOOLEAN /\ r.generation = generation[t]
      /\ r.generation \in Nat /\ TabHolds(r, source.position)
  BY <1>1, StateIs
<1>t. /\ host \in [Ports -> Client] /\ lease \in [Tabs -> Leases] /\ chain \in [Tabs -> Seq(Received)]
      /\ generation \in [Tabs -> Nat] /\ acking \in [Tabs -> BOOLEAN] /\ link \in [Tabs -> Links]
      /\ \A o \in Tabs : generation[o] \in 1 .. MaxGenerations[o]
      /\ MaxGenerations[t] \in Nat
  <2>1. MaxGenerations[t] \in Nat
    BY BrokerAssumption
  <2> QED
    BY <2>1 DEF BrokerIInv, BrokerTypeOK
<1>g. PICK g : g = r.generation + 1
  OBVIOUS
<1>n. g \in Nat /\ g \in 1 .. MaxGenerations[t] /\ g > generation[t]
  BY <1>6, <1>g, <1>t DEF Establish
<1>e. PICK e : e = [r.host EXCEPT !.down = <<>>]
  OBVIOUS
<1>f. e \in Client /\ SubscriptionStays(e, r.host) /\ e.down = <<>>
  BY <1>6, <1>e, EmptyIs
<1>l. PICK l \in Leases : l = CASE r.lease = "attaching" -> "connection"
                                [] r.lease = "closing" -> "closed"
                                [] OTHER -> r.lease
  BY <1>6 DEF Leases, Over
<1>v. PICK v \in Seq(Received) : /\ v = CASE r.lease = "closing" -> <<>>
                                        [] r.lease # "closing" /\ r.acking -> Tail(r.chain)
                                        [] OTHER -> r.chain
                                 /\ Chained(v, r.generation, r.link)
  <2>1. r.acking => r.chain # <<>>
    BY <1>6 DEF TabHolds
  <2>2. Chained(r.chain, r.generation, r.link)
    BY <1>6 DEF TabHolds
  <2>3. r.acking => Tail(r.chain) \in Seq(Received) /\ Chained(Tail(r.chain), r.generation, r.link)
    BY <1>6, <2>1, <2>2, ChainedLess
  <2>4. <<>> \in Seq(Received) /\ Chained(<<>>, r.generation, r.link)
    BY DEF Chained
  <2>5. CASE r.lease = "closing"
    BY <2>4, <2>5
  <2>6. CASE r.lease # "closing" /\ r.acking
    BY <2>3, <2>6
  <2>7. CASE r.lease # "closing" /\ ~r.acking
    BY <1>6, <2>2, <2>7
  <2> QED
    BY <1>6, <2>5, <2>6, <2>7
<1>7. PICK s : s = [r EXCEPT !.host = e, !.generation = g, !.link = "connecting", !.again = again,
                             !.lease = l, !.chain = v, !.acking = FALSE]
  OBVIOUS
<1>8. /\ s.host = e /\ s.generation = g /\ s.link = "connecting"
      /\ s.again = again /\ s.cursor = r.cursor /\ s.seen = r.seen /\ s.gap = r.gap
      /\ s.blind = r.blind /\ s.lease = l /\ s.chain = v /\ s.acking = FALSE /\ s.up = r.up
  BY <1>6, <1>7 DEF TabState
<1>9. s \in TabState
  <2>1. "connecting" \in Links
    BY DEF Links
  <2> QED
    BY <1>6, <1>7, <1>f, <1>n, <2>1 DEF TabState
<1>10. TabMoved(t, s)
  <2>1. host' = [host EXCEPT ![Port(t)] = e] /\ lease' = [lease EXCEPT ![t] = l]
    BY <1>6, <1>t, <1>e, <1>l DEF Establish
  <2>2. chain' = [chain EXCEPT ![t] = v] /\ generation' = [generation EXCEPT ![t] = g]
    BY <1>6, <1>t, <1>v, <1>g DEF Establish
  <2>3. TabGoes(t, r, s)
    BY <1>8, <2>1, <2>2 DEF Establish, TabGoes, Becomes, history
  <2> QED
    BY <1>1, <2>3, GoesThere
<1>11. /\ BrokerTypeOK' /\ TabMoves(t)
       /\ host'[Port(t)] = e /\ up'[Port(t)] = r.up
       /\ generation'[t] = g /\ link'[t] = "connecting" /\ lease'[t] = l
       /\ cursor'[t] = r.cursor /\ chain'[t] = v /\ acking'[t] = FALSE
       /\ seen'[t] = r.seen /\ gap'[t] = r.gap /\ blind'[t] = r.blind
  <2>1. s.generation \in 1 .. MaxGenerations[t] /\ SubscriptionStays(s.host, StateOf(t).host)
    BY <1>1, <1>8, <1>n, <1>f
  <2> QED
    BY <1>8, <1>9, <1>10, <2>1, MovedIs
<1>12. Port(t) \in Ports /\ Port(t)[1] = t /\ Port(t)[2] = generation[t]
  BY <1>t, PortIsOne
<1>13. \A p \in Ports : p # Port(t) => host'[p] = host[p] /\ up'[p] = up[p]
  BY <1>11 DEF TabMoves
<1>14. TabSound(t)
  BY TabIs
<1>15. TabSound(t)'
  <2>1. \A p \in Later(t)' : Unspoken(p)' /\ host'[p].status = "none"
    <3> SUFFICES ASSUME NEW p \in Later(t)'
                 PROVE  Unspoken(p)' /\ host'[p].status = "none"
      OBVIOUS
    <3>1. p \in Ports /\ p[1] = t /\ (p[2] > g \/ p[2] = g)
      BY <1>11 DEF Later
    <3>2. p[2] \in Nat
      BY <3>1, <1>t, BrokerAssumption DEF Ports
    <3>3. p[2] > generation[t]
      <4>1. generation[t] \in Nat
        BY <1>t
      <4> QED
        BY <1>n, <3>1, <3>2, <4>1
    <3>4. p # Port(t)
      <4>1. generation[t] \in Nat
        BY <1>t
      <4> QED
        BY <1>12, <3>3, <4>1
    <3>5. p \in Later(t)
      BY <3>1, <3>3 DEF Later
    <3>6. host'[p] = host[p] /\ up'[p] = up[p]
      BY <1>13, <3>1, <3>4
    <3> QED
      BY <1>14, <3>5, <3>6 DEF TabSound, Unspoken
  <2>2. l \in {"idle", "waiting"} => r.lease \in {"idle", "waiting"}
    BY <1>l
  <2>3. l \in {"idle", "waiting"} => \A p \in Ports : p[1] = t => Unspoken(p)'
    <3> SUFFICES ASSUME l \in {"idle", "waiting"}, NEW p \in Ports, p[1] = t
                 PROVE  Unspoken(p)'
      OBVIOUS
    <3>1. Unspoken(p)
      BY <1>6, <1>14, <2>2 DEF TabSound
    <3>2. CASE p = Port(t)
      BY <1>6, <1>11, <1>f, <3>1, <3>2 DEF Unspoken, SubscriptionStays, StateOf
    <3>3. CASE p # Port(t)
      BY <1>13, <3>1, <3>3 DEF Unspoken
    <3> QED
      BY <3>2, <3>3
  <2>4. l \in {"idle", "waiting"} => v = <<>> /\ r.seen = 0
    BY <1>6, <1>v, <2>2 DEF TabHolds
  <2>5. \A i \in 1 .. Len(v) : v[i].generation <= g /\ v[i].generation < g
    <3> SUFFICES ASSUME NEW i \in 1 .. Len(v)
                 PROVE  v[i].generation <= g /\ v[i].generation < g
      OBVIOUS
    <3>1. v[i] \in Received /\ v[i].generation <= r.generation
      BY <1>v, ElementOfSeq DEF Chained
    <3>2. v[i].generation \in Nat
      BY <3>1 DEF Received
    <3> QED
      BY <1>6, <1>g, <3>1, <3>2
  <2>6. link'[t] # "closed" /\ ~HasPort(t)'
    BY <1>11 DEF HasPort
  <2>7. l # "ack" /\ r.cursor <= r.seen /\ (r.gap => r.blind)
    BY <1>6, <1>l DEF TabHolds
  <2>8. Resumes(v, FALSE, g, r.seen, r.blind)
    <3>1. \A i \in 1 .. Len(v) : v[i].generation # g
      <4> SUFFICES ASSUME NEW i \in 1 .. Len(v)
                   PROVE  v[i].generation # g
        OBVIOUS
      <4>1. v[i] \in Received /\ v[i].generation < g
        BY <1>v, <2>5, ElementOfSeq
      <4>2. v[i].generation \in Nat
        BY <4>1 DEF Received
      <4> QED
        BY <1>n, <4>1, <4>2
    <3>2. OnChain(v, FALSE, g) = {}
      BY <3>1 DEF OnChain
    <3> QED
      BY <3>2 DEF Resumes, AtMostOne
  <2>9. /\ Accepting(t)' => link'[t] # "closed"
        /\ acking'[t] => Accepting(t)' /\ chain'[t] # <<>>
        /\ Accepting(t)' => Resumes(chain'[t], acking'[t], generation'[t], seen'[t], blind'[t])
        /\ lease'[t] \in Left /\ HasPort(t)' => Parted(host[Port(t)], up[Port(t)])'
    BY <1>11, <2>6, <2>8
  <2> QED
    BY <1>11, <2>1, <2>3, <2>4, <2>5, <2>7, <2>9 DEF TabSound
<1>16. Talks(t)'
  BY <1>11 DEF Talks, HasPort
<1> QED
  BY <1>11, <1>15, <1>16, TabsStep

\* connect() turns to a new port.
LEMMA ConnectStep ==
    ASSUME BrokerIInv, NEW t \in Tabs, Connect(t)
    PROVE  BrokerIInv'
BY EstablishStep DEF Connect

\* reconnect() turns to a new port.
LEMMA ReconnectStep ==
    ASSUME BrokerIInv, NEW t \in Tabs, Reconnect(t)
    PROVE  BrokerIInv'
BY EstablishStep DEF Reconnect

-----------------------------------------------------------------------------
(***************************************************************************)
(* The invariant holds at the start, and every step keeps it.              *)
(***************************************************************************)
\* Nothing is attached and nothing has been said at the start.
LEMMA NoClientIs ==
    ASSUME NEW st \in {"none", "open"}, NEW h, h = [NoClient EXCEPT !.status = st], NEW q
    PROVE  /\ h \in Client /\ ~h.attached /\ h.down = <<>> /\ h.status = st
           /\ ClientSound(h, 0)
<1>1. /\ h.status = st /\ ~h.attached /\ h.pending = <<>> /\ h.inflight = <<>> /\ h.batch = 0
      /\ h.cursor = 0 /\ ~h.lagged /\ h.waiting = "no" /\ h.down = <<>>
  BY DEF NoClient
<1>2. h \in Client
  <2>1. <<>> \in Seq(Nat) /\ <<>> \in Seq(Answer)
    OBVIOUS
  <2> QED
    BY <2>1 DEF NoClient, Client
<1>3. Len(h.pending) = 0
  BY <1>1
<1>4. Queued(h, 0)
  BY <1>1, <1>3 DEF Queued, RunTo
<1> QED
  BY <1>1, <1>2, <1>4 DEF ClientSound

\* The invariant holds when every tab has just been created.
LEMMA InitHolds ==
    ASSUME BrokerInit
    PROVE  BrokerIInv
<1>0. PICK i \in Instances :
         /\ link = [t \in Tabs |-> IF t \in i.tabs THEN "up" ELSE "closed"]
         /\ host = [p \in Ports |->
               [NoClient EXCEPT !.status = IF p[1] \in i.tabs /\ p[2] = 1 THEN "open" ELSE @]]
  BY DEF BrokerInit
<1>1. ASSUME NEW p \in Ports
      PROVE  /\ host[p] \in Client /\ ~host[p].attached /\ host[p].down = <<>> /\ up[p] = <<>>
             /\ p[2] # 1 => host[p].status = "none"
             /\ ClientSound(host[p], 0)
  <2>1. PICK st \in {"none", "open"} : st = IF p[1] \in i.tabs /\ p[2] = 1 THEN "open" ELSE "none"
    OBVIOUS
  <2>2. host[p] = [NoClient EXCEPT !.status = st]
    BY <1>0, <2>1 DEF NoClient
  <2>3. up[p] = <<>>
    BY DEF BrokerInit
  <2> QED
    BY <2>1, <2>2, <2>3, NoClientIs
<1>2. source = NoSource /\ source.phase = "none" /\ source.position = 0 /\ source.log = <<>>
      /\ source.timer = FALSE /\ source \in Source
  <2>1. <<>> \in Seq(Nat)
    OBVIOUS
  <2> QED
    BY <2>1 DEF BrokerInit, NoSource, Source, Phases
<1>3. \A t \in Tabs : 1 \in 1 .. MaxGenerations[t]
  BY BrokerAssumption
<1>4. BrokerTypeOK
  <2>1. host \in [Ports -> Client]
    BY <1>0, <1>1
  <2>2. up \in [Ports -> Seq(Command)] /\ chain \in [Tabs -> Seq(Received)]
    <3>1. <<>> \in Seq(Command) /\ <<>> \in Seq(Received)
      OBVIOUS
    <3> QED
      BY <3>1 DEF BrokerInit
  <2>3. link \in [Tabs -> Links]
    BY <1>0 DEF Links
  <2>4. lease \in [Tabs -> Leases]
    BY DEF BrokerInit, Leases
  <2>5. generation \in [Tabs -> Nat] /\ \A t \in Tabs : generation[t] \in 1 .. MaxGenerations[t]
    BY <1>3 DEF BrokerInit
  <2> QED
    BY <1>2, <2>1, <2>2, <2>3, <2>4, <2>5 DEF BrokerInit, BrokerTypeOK
<1>5. SourceSound
  <2>1. Subscribed = {}
    BY <1>1 DEF Subscribed
  <2>2. RunTo(source.log, source.position)
    BY <1>2 DEF RunTo
  <2> QED
    BY <1>2, <2>1, <2>2 DEF SourceSound, OpenWhileHeld
<1>6. ASSUME NEW t \in Tabs
      PROVE  TabSound(t) /\ Talks(t)
  <2>1. /\ lease[t] = "idle" /\ chain[t] = <<>> /\ acking[t] = FALSE /\ seen[t] = 0
        /\ cursor[t] = 0 /\ gap[t] = FALSE /\ generation[t] = 1
    BY DEF BrokerInit
  <2>2. link[t] # "connecting"
    BY <1>0
  <2>3. ~InMap(t)
    BY <2>1 DEF InMap
  <2>4. \A p \in Ports : Unspoken(p)
    BY <1>1 DEF Unspoken
  <2>5. \A p \in Later(t) : p \in Ports /\ p[2] # 1
    BY <2>1, <2>2 DEF Later
  <2>6. Len(chain[t]) = 0
    BY <2>1
  <2>7. ~Accepting(t) /\ lease[t] \notin Left
    BY <2>1, <2>3 DEF Accepting, Left, Over
  <2> QED
    BY <1>1, <2>1, <2>2, <2>3, <2>4, <2>5, <2>6, <2>7 DEF TabSound, Talks
<1> QED
  BY <1>1, <1>2, <1>4, <1>5, <1>6 DEF BrokerIInv

\* A step that changes nothing the invariant reads.
LEMMA BrokerStutters ==
    ASSUME BrokerIInv, UNCHANGED brokerVars
    PROVE  BrokerIInv'
<1>1. /\ UNCHANGED <<source, host, up>>
      /\ UNCHANGED <<generation, link, reconnecting, lease, cursor, chain, acking, seen, gap, blind>>
  BY DEF brokerVars, hostVars, tabVars, history
<1>2. BrokerTypeOK'
  BY <1>1 DEF BrokerIInv, BrokerTypeOK
<1>3. SourceSound' /\ \A p \in Ports : ClientSound(host[p], source.position)'
  BY <1>1 DEF BrokerIInv, SourceSound, OpenWhileHeld, Subscribed
<1>4. ASSUME NEW t \in Tabs PROVE TabSound(t)' /\ Talks(t)'
  <2>1. TabSound(t) /\ Talks(t)
    BY TabIs
  <2>2. TabSound(t)'
    BY <1>1, <2>1 DEF TabSound, InMap, Accepting, HasPort, Port, Later, Unspoken
  <2>3. Talks(t)'
    BY <1>1, <2>1 DEF Talks, InMap, HasPort, Port
  <2> QED
    BY <2>2, <2>3
<1> QED
  BY <1>2, <1>3, <1>4 DEF BrokerIInv

\* Every step of worker, source and tabs keeps the invariant.
LEMMA BrokerSteps ==
    ASSUME BrokerIInv, [BrokerNext]_brokerVars
    PROVE  BrokerIInv'
<1>1. ASSUME NEW p \in Ports, Host(p) \/ Sweep(p)
      PROVE  BrokerIInv'
  BY <1>1, HostAttachStep, HostAttachedStep, HostAttachFailsStep, HostDetachStep, HostAckStep,
     HostRestartStep, HostRestartedStep, HostCloseStep, SweepStep DEF Host
<1>2. CASE IdleTeardown \/ WorkerLost
  BY <1>2, IdleTeardownStep, WorkerLostStep
<1>3. CASE SourceLive \/ SourceFails \/ SourceCloses \/ SourceDelivers
  BY <1>3, SourceLiveStep, SourceFailsStep, SourceClosesStep, SourceDeliversStep
<1>4. ASSUME NEW t \in Tabs, Connect(t) \/ Reconnect(t) \/ Connected(t) \/ EstablishFails(t)
      PROVE  BrokerIInv'
  BY <1>4, ConnectStep, ReconnectStep, ConnectedStep, EstablishFailsStep
<1>5. ASSUME NEW t \in Tabs, \/ OpenLease(t) \/ AttachWaiting(t) \/ CloseLease(t)
                             \/ RestartLease(t) \/ CloseTab(t)
      PROVE  BrokerIInv'
  BY <1>5, OpenLeaseStep, AttachWaitingStep, CloseLeaseStep, RestartLeaseStep, CloseTabStep
<1>6. ASSUME NEW t \in Tabs, Receive(t)
      PROVE  BrokerIInv'
  BY <1>6, HelloAnsweredStep, AttachAnsweredStep, DetachAnsweredStep, AckAnsweredStep,
     StateReceivedStep, BatchReceivedStep DEF Receive
<1>7. ASSUME NEW t \in Tabs, Chain(t) \/ HandlerRejects(t)
      PROVE  BrokerIInv'
  BY <1>7, DropBatchStep, AcceptStep, AcknowledgeStep, HandlerRejectsStep DEF Chain
<1> QED
  BY <1>1, <1>2, <1>3, <1>4, <1>5, <1>6, <1>7, BrokerStutters DEF BrokerNext

(***************************************************************************)
(* The invariant of the broker holds in every state.                       *)
(***************************************************************************)
THEOREM BrokerInvariant == BrokerSpec => []BrokerIInv
<1>1. BrokerInit => BrokerIInv
  BY InitHolds
<1>2. BrokerIInv /\ [BrokerNext]_brokerVars => BrokerIInv'
  BY BrokerSteps
<1> QED
  BY <1>1, <1>2, PTL DEF BrokerSpec

(***************************************************************************)
(* The variables of worker, ports and tabs keep their types.               *)
(***************************************************************************)
THEOREM BrokerTyped == BrokerSpec => []BrokerTypeOK
<1>1. BrokerIInv => BrokerTypeOK
  BY DEF BrokerIInv
<1> QED
  BY <1>1, BrokerInvariant, PTL

\* What is in a sequence is in its set of elements.
LEMMA InToSet ==
    ASSUME NEW S, NEW s \in Seq(S), NEW i \in 1 .. Len(s)
    PROVE  s[i] \in ToSet(s)
BY DEF ToSet

\* The invariant says who holds the subscription of a tab.
LEMMA TabIsHeld ==
    ASSUME BrokerIInv, NEW t \in Tabs, HasPort(t), host[Port(t)].attached
    PROVE  HeldByLease(t)
<1>1. Port(t) \in Ports /\ Port(t)[1] = t
  BY PortIsOne DEF BrokerIInv, BrokerTypeOK
<1>2. host[Port(t)].status = "open" /\ up[Port(t)] \in Seq(Command) /\ TabSound(t)
  BY <1>1, PortIs, TabIs DEF ClientSound
<1>3. lease[t] \notin {"idle", "waiting"}
  BY <1>1, <1>2 DEF TabSound, Unspoken
<1>4. CASE lease[t] \in Left
  <2>1. Parted(host[Port(t)], up[Port(t)])
    BY <1>2, <1>4 DEF TabSound
  <2>2. PICK i \in 1 .. Len(up[Port(t)]) : up[Port(t)][i].type = "detach"
    BY <1>2, <2>1 DEF Parted
  <2>3. up[Port(t)][i] \in ToSet(up[Port(t)])
    BY <1>2, InToSet
  <2> QED
    BY <2>2, <2>3 DEF HeldByLease, DetachUnderWay
<1>5. lease[t] \in Leases
  BY DEF BrokerIInv, BrokerTypeOK
<1> QED
  BY <1>3, <1>4, <1>5 DEF Leases, Left, HeldByLease, InMap

(***************************************************************************)
(* A physical source is open exactly as long as a subscription or the idle *)
(* timer holds it, and a subscription on the present port of a tab belongs *)
(* to a lease in the map or to one whose detach is on its way, whatever    *)
(* has ended the lease (attach(), detach(), scheduleTeardown(),            *)
(* failLease(), detachLease()).  Nothing is claimed of a lease that the    *)
(* worker has refused to attach: the client does not detach it.            *)
(***************************************************************************)
THEOREM SourceStaysHeld == BrokerSpec => []SourceIsHeld
<1>1. BrokerIInv => SourceIsHeld
  <2> SUFFICES ASSUME BrokerIInv
               PROVE  SourceIsHeld
    OBVIOUS
  <2>1. OpenWhileHeld
    BY DEF BrokerIInv, SourceSound
  <2> QED
    BY <2>1, TabIsHeld DEF SourceIsHeld
<1> QED
  BY <1>1, BrokerInvariant, PTL

(***************************************************************************)
(* No lease that the application holds ends because the worker refuses its *)
(* acknowledgement: what is acknowledged is in flight, or the lease is     *)
(* told that it has lagged before it hears the refusal (ack(), receive()). *)
(***************************************************************************)
THEOREM AcksStayAccepted == BrokerSpec => []AcksAreAccepted
<1>1. BrokerIInv => AcksAreAccepted
  BY DEF BrokerIInv, TabSound, AcksAreAccepted
<1> QED
  BY <1>1, BrokerInvariant, PTL

(***************************************************************************)
(* A handler accepts its deliveries without a gap, unless its lease has    *)
(* reattached without a cursor (enqueueRetained(), attachLease()).         *)
(***************************************************************************)
THEOREM NothingIsLostSilently == BrokerSpec => []NoSilentLoss
<1>1. BrokerIInv => NoSilentLoss
  BY DEF BrokerIInv, TabSound, NoSilentLoss
<1> QED
  BY <1>1, BrokerInvariant, PTL

\* The invariant says where the batch is that a tab waits for.
LEMMA NoTabStalls ==
    ASSUME BrokerIInv
    PROVE  NoStall
<1> SUFFICES ASSUME NEW t \in Tabs, host[Port(t)].attached, HasPort(t), InMap(t)
             PROVE  /\ host[Port(t)].pending # <<>> => host[Port(t)].inflight # <<>>
                    /\ host[Port(t)].inflight # <<>> => BatchOnItsWay(t, host[Port(t)])
  BY DEF NoStall
<1>1. PICK h : h = host[Port(t)]
  OBVIOUS
<1>2. /\ h \in Client /\ ClientSound(h, source.position) /\ up[Port(t)] \in Seq(Command)
      /\ chain[t] \in Seq(Received)
  <2>1. Port(t) \in Ports
    BY PortIsOne DEF BrokerIInv, BrokerTypeOK
  <2> QED
    BY <1>1, <2>1, PortIs, TabIs
<1>3. h.pending # <<>> => h.inflight # <<>>
  BY <1>2 DEF ClientSound
<1>4. Awaited(h, up[Port(t)], chain[t], acking[t], generation[t])
  BY <1>1, TabIs DEF Talks, Talk
<1>5. ASSUME h.inflight # <<>>
      PROVE  BatchOnItsWay(t, h)
  <2>0. h.down \in Seq(Answer)
    BY <1>2 DEF Client
  <2>1. CASE \E i \in 1 .. Len(h.down) :
                h.down[i].type = "batch" /\ Matches(h, h.down[i].id, LastOf(h.down[i]))
    <3>1. PICK i \in 1 .. Len(h.down) : h.down[i].type = "batch" /\ h.down[i].id = h.batch
      BY <2>1 DEF Matches
    <3>2. h.down[i] \in ToSet(h.down)
      BY <2>0, InToSet
    <3> QED
      BY <3>1, <3>2 DEF BatchOnItsWay
  <2>2. CASE \E i \in OnChain(chain[t], acking[t], generation[t]) :
                Matches(h, chain[t][i].id, chain[t][i].last)
    <3>1. PICK i \in 1 .. Len(chain[t]) : chain[t][i].generation = generation[t] /\ chain[t][i].id = h.batch
      BY <2>2 DEF Matches, OnChain
    <3>2. chain[t][i] \in ToSet(chain[t])
      BY <1>2, InToSet
    <3> QED
      BY <3>1, <3>2 DEF BatchOnItsWay
  <2>3. CASE \E i \in OnUp(up[Port(t)]) : Matches(h, up[Port(t)][i].batch, up[Port(t)][i].after)
    <3>1. PICK i \in 1 .. Len(up[Port(t)]) : up[Port(t)][i].type = "ack" /\ up[Port(t)][i].batch = h.batch
      BY <2>3 DEF Matches, OnUp
    <3>2. up[Port(t)][i] \in ToSet(up[Port(t)])
      BY <1>2, InToSet
    <3> QED
      BY <3>1, <3>2 DEF BatchOnItsWay
  <2>4. h.attached
    BY <1>1
  <2> QED
    BY <1>4, <1>5, <2>1, <2>2, <2>3, <2>4 DEF Awaited
<1> QED
  BY <1>1, <1>3, <1>5

(***************************************************************************)
(* What is queued for a tab waits for a batch in flight, and that batch or *)
(* its acknowledgement is on its way (flush(), ack(), receive()).          *)
(***************************************************************************)
THEOREM NothingStalls == BrokerSpec => []NoStall
<1>1. BrokerIInv => NoStall
  BY NoTabStalls
<1> QED
  BY <1>1, BrokerInvariant, PTL
=============================================================================
