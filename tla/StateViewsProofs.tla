--------------------------- MODULE StateViewsProofs ---------------------------
(***************************************************************************)
(* Proofs about ReducingSource and StateViews, for any stream, any options *)
(* that the code accepts and any view: what a view shows never goes back,  *)
(* and, as long as no message is larger than the byte bound of a batch,    *)
(* the state is the fold of the stream and a new subscription starts       *)
(* exactly where the state ends.                                           *)
(***************************************************************************)
EXTENDS StateViews, SequenceTheorems, TLAPS

-----------------------------------------------------------------------------
(***************************************************************************)
(* Types.                                                                  *)
(***************************************************************************)
Data      == Seq(Nat)
Phases    == {"none", "connecting", "replaying", "live", "reconnecting", "closed", "error"}
Stages    == {"queued", "reducing", "publishing"}
Snapshots == [phase : Phases, data : Data, cursor : Nat]
Updates   == [phase : Phases, data : Data, cursor : Nat, then : {"nothing", "batch", "ready"}]
Links     == [kind : {"batch", "barrier"}, items : Data, commit : Nat, stage : Stages,
              base : Data]
Apps      == [at : Nat, handled : {"waiting", "done", "failed"}]
Batchers  == [pending : Data, timer : BOOLEAN, chain : Seq(Links),
              barrierFailure : BOOLEAN, cancelled : BOOLEAN]
Pcs       == {"opening", "next", "await", "final", "settling", "delay", "over"}
Subs      == [pc : Pcs, phase : Phases, messages : {"none", "open", "closed", "broken"},
              initial : Int, remaining : Int, assigned : Nat, position : Nat,
              wait : Nat, rejected : SUBSET Nat, thrown : {"none", "outage", "application", "closed"}]
LeaseType == [phase : Phases, restarts : Nat, closing : BOOLEAN,
              caughtUp : {"pending", "resolved", "rejected"}, cursor : Nat]
Sources   == [data : Data, cursor : Nat, hydrated : BOOLEAN, said : Phases,
              ready : BOOLEAN]
Sessions  == [phase : Phases, valueRevision : Nat, value : Snapshots]

PolicyType ==
    policy \in [maxItems : Nat \ {0}, maxBytes : Nat \ {0}, timed : BOOLEAN,
                maxAttempts : Nat \ {0}]

SourceType ==
    /\ PolicyType
    /\ published \in 0 .. MaxSequence
    /\ store \in Nat
    /\ lease \in LeaseType
    /\ sub \in Subs
    /\ apps \in Seq(Apps)
    /\ batcher \in Batchers
    /\ source \in Sources
    /\ publishing \in Seq(Updates)
    /\ session \in Sessions

-----------------------------------------------------------------------------
(***************************************************************************)
(* The order of states.  Only the head of the chain is ever reduced, on    *)
(* top of the state of that moment; every published state is a prefix of   *)
(* the next.                                                               *)
(***************************************************************************)
Linked(link) ==
    /\ link.stage \in Stages
    /\ link.stage # "queued" => link.kind = "batch"
    /\ link.kind = "batch" => link.items # <<>>

HeadFirst(chain, data) ==
    \A i \in 1 .. Len(chain) :
        /\ Linked(chain[i])
        /\ i > 1 => chain[i].stage = "queued"
        /\ chain[i].stage = "reducing" => chain[i].base = data

HeadOnly == HeadFirst(batcher.chain, source.data)

Rising(first, updates, last) ==
    /\ IsPrefix(first, last)
    /\ \A i \in 1 .. Len(updates) :
          IsPrefix(first, updates[i].data) /\ IsPrefix(updates[i].data, last)
    /\ \A i, j \in 1 .. Len(updates) :
          i < j => IsPrefix(updates[i].data, updates[j].data)

Growing == Rising(session.value.data, publishing, source.data)

-----------------------------------------------------------------------------
(***************************************************************************)
(* What the batcher holds: its batches and the partial one are runs of     *)
(* consecutive messages, one after another, and they are the deliveries    *)
(* that still wait.                                                        *)
(***************************************************************************)
Holds(b, m) ==
    \/ \E i \in 1 .. Len(b.chain) :
          \E k \in 1 .. Len(b.chain[i].items) : b.chain[i].items[k] = m
    \/ \E k \in 1 .. Len(b.pending) : b.pending[k] = m

Run(items) == \A k \in 1 .. Len(items) : items[k] = items[1] + k - 1

Ordered(b) ==
    /\ Run(b.pending)
    /\ \A i \in 1 .. Len(b.chain) :
          /\ Run(b.chain[i].items)
          /\ b.chain[i].kind = "barrier" <=> b.chain[i].items = <<>>
          /\ \A k \in 1 .. Len(b.chain[i].items), l \in 1 .. Len(b.pending) :
                b.chain[i].items[k] < b.pending[l]
    /\ \A i, j \in 1 .. Len(b.chain) :
          i < j => \A k \in 1 .. Len(b.chain[i].items), l \in 1 .. Len(b.chain[j].items) :
                       b.chain[i].items[k] < b.chain[j].items[l]

Lined(a, n, b) ==
    /\ Len(a) <= n
    /\ \A i \in 1 .. Len(a) : a[i].at = n - Len(a) + i
    /\ Ordered(b)
    /\ \A i \in 1 .. Len(a) : a[i].handled = "waiting" <=> Holds(b, a[i].at)
    /\ \A m \in Nat : Holds(b, m) => \E i \in 1 .. Len(a) : a[i].at = m
    /\ b.pending # <<>> => b.pending[Len(b.pending)] = n
    /\ b.cancelled => b.pending = <<>>

InLine == Lined(apps, sub.position, batcher)

(***************************************************************************)
(* Where the loop stands.                                                  *)
(***************************************************************************)
Barriers(c) == {i \in 1 .. Len(c) : c[i].kind = "barrier"}

Single(b) ==
    /\ Len(b.chain) <= 1 /\ Barriers(b.chain) = {}
    /\ b.chain # <<>> => b.pending = <<>>

Fresh == apps = <<>> /\ batcher.chain = <<>> /\ batcher.pending = <<>>

\* No delivery of the loop waits for `commit` any more.
Passed(a, commit) == \A i \in 1 .. Len(a) : a[i].at # commit

\* The loop waits for the message before the last: the batch of the last one is behind
\* a barrier, or that message has been settled.
Behind(a, c, wait, n) ==
    /\ Barriers(c) # {} \/ Passed(a, wait)
    /\ \A i \in 1 .. Len(c) :
          (\E k \in 1 .. Len(c[i].items) : c[i].items[k] = n)
             => (\E j \in Barriers(c) : j < i) \/ Passed(a, wait)

Counted == sub.position <= published /\ store <= published

AtNext == sub.pc = "next" => Single(batcher) /\ (sub.assigned = 0 => Fresh)

Waits ==
    /\ sub.pc \in {"await", "final"} =>
          \A i \in Barriers(batcher.chain) : batcher.chain[i].commit = sub.wait
    /\ sub.pc = "await" =>
          /\ sub.wait = sub.position \/ sub.wait + 1 = sub.position
          /\ sub.wait + 1 = sub.position => Behind(apps, batcher.chain, sub.wait, sub.position)
          /\ sub.assigned > 0
    /\ sub.pc = "final" => sub.wait = sub.position \/ apps = <<>>

Starts ==
    /\ sub.pc \in {"opening", "delay"} => Fresh
    /\ sub.pc = "opening" => sub.rejected = {}
    /\ sub.pc \in {"opening", "delay", "final"} => sub.messages # "open"

Flows == sub.messages = "open" => sub.rejected = {} /\ ~lease.closing /\ ~batcher.cancelled

Settles ==
    /\ sub.pc = "settling" =>
          /\ sub.thrown = "outage" => Single(batcher) /\ batcher.pending = <<>>
          /\ sub.thrown \in {"outage", "application"} \/ lease.closing
    /\ batcher.cancelled => sub.pc \in {"settling", "delay", "over"} \/ lease.closing

Placed == Counted /\ AtNext /\ Waits /\ Starts /\ Flows /\ Settles

(***************************************************************************)
(* The state and the checkpoint.  Base is how far the deliveries are done: *)
(* the state is ahead of it while a batch is being published.              *)
(***************************************************************************)
Ahead == Working("batch", "publishing")
Base  == IF Ahead THEN Head(batcher.chain).items[1] - 1 ELSE Len(source.data)

Folded ==
    /\ source.data = Upto(Len(source.data))
    /\ Ahead => Len(source.data) = Last(Head(batcher.chain).items)
    /\ store <= Base
    /\ \A i \in 1 .. Len(apps) : apps[i].handled = "done" <=> apps[i].at <= Base

Failed(i) == apps[i].handled = "failed"
Clean     == sub.rejected = {} /\ \A i \in 1 .. Len(apps) : ~Failed(i)

\* No delivery of the subscription has failed.
Whole ==
    /\ Folded
    /\ Base <= store + Len(apps)
    /\ \A i \in 1 .. Len(apps) : apps[i].at = store + i
    /\ sub.pc \in {"next", "await", "final"} => sub.position = store + Len(apps)

\* What has failed is the end of what the subscription has received.
CutShort ==
    /\ Folded
    /\ \A i, j \in 1 .. Len(apps) : i < j /\ Failed(i) => Failed(j)
    /\ sub.rejected = {} => /\ \A i \in 1 .. Len(apps) : apps[i].at = store + i
                           /\ Base <= store + Len(apps)
    /\ sub.rejected # {} => (\A i \in 1 .. Len(apps) : Failed(i)) /\ store = Base

LastFailed ==
    /\ sub.pc = "await" /\ sub.wait + 1 = sub.position /\ sub.rejected = {}
    /\ apps # <<>> /\ Failed(Len(apps))

Interrupted ==
    \/ sub.pc = "next" /\ sub.messages = "broken"
    \/ sub.pc = "settling" /\ sub.thrown = "outage"

InStep ==
    /\ Clean /\ sub.pc \notin {"opening", "delay"} => Whole
    /\ Interrupted /\ ~lease.closing => CutShort
    /\ LastFailed /\ ~lease.closing => CutShort /\ Len(apps) = 1
    /\ sub.messages = "open" =>
          \A i, j \in 1 .. Len(apps) : j < i /\ Failed(i) => apps[j].handled # "waiting"
    /\ sub.pc \in {"opening", "delay"} => source.data = Upto(store)

\* One update at most is that of a batch, the one being published.
OneBatch ==
    \A i \in 1 .. Len(publishing) :
        publishing[i].then = "batch" =>
            Ahead /\ \A j \in 1 .. Len(publishing) : publishing[j].then = "batch" => j = i

Fitting == \A m \in 1 .. MaxSequence : Sizes[m] <= policy.maxBytes

FoldInv == InLine /\ Placed /\ InStep /\ OneBatch


-----------------------------------------------------------------------------
(***************************************************************************)
(* The view.                                                               *)
(***************************************************************************)
Items == [valueRevision : Nat, value : Snapshots]
Shapes == [state : {"idle", "mounted", "over"}, seen : Nat, seenLive : BOOLEAN,
           lastPhase : Phases, held : Snapshots, count : Nat, timer : BOOLEAN,
           queue : Seq(Items), terminal : BOOLEAN, shown : Snapshots]

ViewType ==
    /\ adapter.kind \in {"rxjs", "react", "effect"}
    /\ adapter.maxItems \in Nat \ {0} /\ adapter.capacity \in Nat \ {0}
    /\ view \in Shapes

\* What waits in the queue of a stream lies, in order, between two states.
Pipe(first, queue, last) ==
    /\ IsPrefix(first, last)
    /\ \A i \in 1 .. Len(queue) :
          IsPrefix(first, queue[i].value.data) /\ IsPrefix(queue[i].value.data, last)
    /\ \A i, j \in 1 .. Len(queue) :
          i < j => IsPrefix(queue[i].value.data, queue[j].value.data)

\* The last state that a stream has taken: the one it holds back, or has shown.
Holding(v) == v.timer \/ v.held # NoSnapshot
Latest(v)  == IF Holding(v) THEN v.held ELSE v.shown

\* Against the state `data` of the session.
Forward(v, data) ==
    /\ IsPrefix(v.shown.data, data)
    /\ adapter.kind # "effect" => v.queue = <<>> /\ ~v.terminal
    /\ adapter.kind = "rxjs" /\ v.count > 0 =>
          IsPrefix(v.shown.data, v.held.data) /\ IsPrefix(v.held.data, data)
    /\ adapter.kind = "rxjs" /\ ~v.seenLive => v.count = 0
    /\ adapter.kind = "effect" =>
          /\ IsPrefix(v.shown.data, Latest(v).data)
          /\ Pipe(Latest(v).data, v.queue, data)
          /\ ~v.seenLive \/ Uncoalesced => ~Holding(v)

ViewIInv == ViewType /\ Forward(view, session.value.data)

-----------------------------------------------------------------------------
(***************************************************************************)
(* Prefixes.                                                               *)
(***************************************************************************)
\* IsPrefix, item by item.
LEMMA PrefixItems ==
    ASSUME NEW s \in Data, NEW t \in Data
    PROVE  IsPrefix(s, t) <=> Len(s) <= Len(t) /\ \A i \in 1 .. Len(s) : s[i] = t[i]
<1>1. Len(s) \in Nat /\ Len(t) \in Nat
  BY DEF Data
<1>2. SubSeq(s, 1, Len(s)) = s
  BY SubSeqFull DEF Data
<1>3. CASE Len(s) <= Len(t)
  <2> DEFINE u == SubSeq(t, 1, Len(s))
  <2>1. \A i \in 1 .. Len(s) : t[i] \in Nat
    BY <1>1, <1>3, ElementOfSeq DEF Data
  <2>2. u \in Data /\ Len(u) = Len(s) /\ \A i \in 1 .. Len(s) : u[i] = t[i]
    <3>1. /\ u \in Seq(Nat)
          /\ Len(u) = IF 1 <= Len(s) THEN Len(s) - 1 + 1 ELSE 0
          /\ \A i \in 1 .. Len(s) - 1 + 1 : u[i] = t[1 + i - 1]
      BY <1>1, <2>1, SubSeqProperties
    <3>. QED
      BY <3>1, <1>1 DEF Data
  <2>3. s = u <=> \A i \in 1 .. Len(s) : s[i] = u[i]
    BY <2>2, SeqEqual DEF Data
  <2>. QED
    BY <1>2, <1>3, <2>2, <2>3 DEF IsPrefix
<1>. QED
  BY <1>1, <1>3 DEF IsPrefix

\* It is an order, and what is appended comes after.
LEMMA PrefixOrder ==
    /\ \A s \in Data : IsPrefix(s, s) /\ IsPrefix(<<>>, s)
    /\ \A s, t, u \in Data : IsPrefix(s, t) /\ IsPrefix(t, u) => IsPrefix(s, u)
    /\ \A s, t \in Data : s \o t \in Data /\ IsPrefix(s, s \o t)
<1>1. <<>> \in Data /\ \A s \in Data : Len(s) \in Nat
  BY DEF Data
<1>2. \A s \in Data : IsPrefix(s, s) /\ IsPrefix(<<>>, s)
  BY <1>1, PrefixItems
<1>3. ASSUME NEW s \in Data, NEW t \in Data, NEW u \in Data, IsPrefix(s, t), IsPrefix(t, u)
      PROVE  IsPrefix(s, u)
  BY <1>1, <1>3, PrefixItems
<1>4. ASSUME NEW s \in Data, NEW t \in Data
      PROVE  s \o t \in Data /\ IsPrefix(s, s \o t)
  <2>1. /\ s \o t \in Data /\ Len(s \o t) = Len(s) + Len(t)
        /\ \A i \in 1 .. Len(s) + Len(t) : (s \o t)[i] = IF i <= Len(s) THEN s[i] ELSE t[i - Len(s)]
    BY ConcatProperties DEF Data
  <2>2. \A i \in 1 .. Len(s) : (s \o t)[i] = s[i]
    BY <1>1, <2>1
  <2>3. Len(s) <= Len(s \o t)
    BY <1>1, <2>1
  <2>. QED
    BY <2>1, <2>2, <2>3, PrefixItems
<1>. QED
  BY <1>2, <1>3, <1>4

\* The types of the parts of a state.
LEMMA Parts ==
    ASSUME SourceType
    PROVE  /\ batcher.pending \in Data /\ batcher.chain \in Seq(Links)
           /\ batcher.timer \in BOOLEAN /\ batcher.barrierFailure \in BOOLEAN
           /\ batcher.cancelled \in BOOLEAN
           /\ source.data \in Data /\ source.hydrated \in BOOLEAN
           /\ session.value.data \in Data
           /\ sub.position \in Nat /\ sub.assigned \in Nat /\ sub.wait \in Nat
           /\ sub.pc \in Pcs /\ sub.messages \in {"none", "open", "closed", "broken"}
           /\ sub.rejected \in SUBSET Nat
           /\ published \in Nat /\ store \in Nat /\ MaxSequence \in Nat
           /\ \A i \in 1 .. Len(apps) : apps[i].at \in Nat
           /\ \A i \in 1 .. Len(publishing) : publishing[i].data \in Data
           /\ Len(apps) \in Nat /\ Len(publishing) \in Nat /\ Len(batcher.chain) \in Nat
<1>1. MaxSequence \in Nat
  BY ReducingAssumption
<1>2. apps \in Seq(Apps) /\ publishing \in Seq(Updates) /\ batcher \in Batchers /\ source \in Sources
      /\ session \in Sessions /\ sub \in Subs /\ published \in 0 .. MaxSequence /\ store \in Nat
  BY DEF SourceType
<1>3. \A i \in 1 .. Len(apps) : apps[i] \in Apps
  BY <1>2, ElementOfSeq
<1>4. \A i \in 1 .. Len(publishing) : publishing[i] \in Updates
  BY <1>2, ElementOfSeq
<1>5. batcher.chain \in Seq(Links)
  BY <1>2 DEF Batchers
<1>6. Len(apps) \in Nat /\ Len(publishing) \in Nat /\ Len(batcher.chain) \in Nat
  BY <1>2, <1>5
<1>7. /\ batcher.pending \in Data /\ batcher.timer \in BOOLEAN
      /\ batcher.barrierFailure \in BOOLEAN /\ batcher.cancelled \in BOOLEAN
  BY <1>2 DEF Batchers
<1>8. source.data \in Data /\ source.hydrated \in BOOLEAN
  BY <1>2 DEF Sources
<1>9. session.value.data \in Data
  BY <1>2 DEF Sessions, Snapshots
<1>10. /\ sub.position \in Nat /\ sub.assigned \in Nat /\ sub.wait \in Nat
       /\ sub.pc \in Pcs /\ sub.messages \in {"none", "open", "closed", "broken"}
       /\ sub.rejected \in SUBSET Nat
  BY <1>2 DEF Subs
<1>11. /\ \A i \in 1 .. Len(apps) : apps[i].at \in Nat
       /\ \A i \in 1 .. Len(publishing) : publishing[i].data \in Data
  BY <1>3, <1>4 DEF Apps, Updates
<1>12. published \in Nat /\ store \in Nat
  BY <1>1, <1>2
<1>. QED
  BY <1>1, <1>5, <1>6, <1>7, <1>8, <1>9, <1>10, <1>11, <1>12

-----------------------------------------------------------------------------
(***************************************************************************)
(* The chain of the batcher.                                               *)
(***************************************************************************)
\* A link that is appended waits; one that is taken leaves only waiting ones.
LEMMA ChainGrows ==
    ASSUME NEW c \in Seq(Links), NEW d, HeadFirst(c, d), NEW l \in Links,
           Linked(l), l.stage = "queued"
    PROVE  Append(c, l) \in Seq(Links) /\ HeadFirst(Append(c, l), d)
<1>1. /\ Append(c, l) \in Seq(Links) /\ Len(Append(c, l)) = Len(c) + 1 /\ Len(c) \in Nat
      /\ \A i \in 1 .. Len(c) : Append(c, l)[i] = c[i]
      /\ Append(c, l)[Len(c) + 1] = l
  BY AppendProperties
<1>. QED
  BY <1>1 DEF HeadFirst

LEMMA ChainShrinks ==
    ASSUME NEW c \in Seq(Links), NEW d, HeadFirst(c, d), c # <<>>, NEW e
    PROVE  /\ Tail(c) \in Seq(Links) /\ HeadFirst(Tail(c), e)
           /\ Head(c) = c[1] /\ Head(c) \in Links /\ Linked(Head(c))
           /\ Len(c) \in Nat \ {0}
           /\ Len(Tail(c)) = Len(c) - 1
           /\ \A i \in 1 .. Len(Tail(c)) : Tail(c)[i] = c[i + 1]
<1>1. /\ Tail(c) \in Seq(Links) /\ Head(c) \in Links /\ Len(Tail(c)) = Len(c) - 1
      /\ \A i \in 1 .. Len(Tail(c)) : Tail(c)[i] = c[i + 1]
  BY HeadTailProperties
<1>2. Len(c) \in Nat \ {0}
  BY EmptySeq
<1>3. Head(c) = c[1]
  BY <1>2
<1>4. Linked(c[1])
  BY <1>2 DEF HeadFirst
<1>5. HeadFirst(Tail(c), e)
  BY <1>1, <1>2 DEF HeadFirst
<1>. QED
  BY <1>1, <1>2, <1>3, <1>4, <1>5

\* Only the first one moves to another stage.
LEMMA ChainMarked ==
    ASSUME NEW c \in Seq(Links), NEW x, HeadFirst(c, x), c # <<>>, NEW y, NEW l \in Links, Linked(l),
           l.stage = "publishing" \/ (l.stage = "reducing" /\ l.base = y)
    PROVE  /\ [c EXCEPT ![1] = l] \in Seq(Links) /\ HeadFirst([c EXCEPT ![1] = l], y)
           /\ Len([c EXCEPT ![1] = l]) = Len(c)
           /\ \A j \in 1 .. Len(c) : [c EXCEPT ![1] = l][j] = IF j = 1 THEN l ELSE c[j]
<1> DEFINE d == [c EXCEPT ![1] = l]
<1>1. Len(c) \in Nat \ {0} /\ 1 \in 1 .. Len(c)
  BY EmptySeq
<1>2. /\ d \in Seq(Links) /\ Len(d) = Len(c)
      /\ \A j \in 1 .. Len(c) : d[j] = IF j = 1 THEN l ELSE c[j]
  BY <1>1, ExceptSeq
<1>3. HeadFirst(d, y)
  <2> HIDE DEF d
  <2>1. ASSUME NEW i \in 1 .. Len(c), i > 1 PROVE d[i] = c[i] /\ Linked(c[i]) /\ c[i].stage = "queued"
    BY <1>2, <2>1 DEF HeadFirst
  <2>2. ASSUME NEW i \in 1 .. Len(c), ~(i > 1) PROVE d[i] = l /\ (l.stage = "reducing" => l.base = y)
    BY <1>1, <1>2, <2>2
  <2>. QED
    BY <1>1, <1>2, <2>1, <2>2 DEF HeadFirst
<1>. QED
  BY <1>2, <1>3

\* The links that the batcher makes.
LEMMA NewLinks ==
    /\ \A items \in Data : items # <<>> =>
          Batch(items) \in Links /\ Linked(Batch(items)) /\ Batch(items).stage = "queued"
    /\ \A m \in Nat : Barrier(m) \in Links /\ Linked(Barrier(m)) /\ Barrier(m).stage = "queued"
<1>1. <<>> \in Data /\ 0 \in Nat
  BY DEF Data
<1>2. ASSUME NEW items \in Data, items # <<>>
      PROVE  Batch(items) \in Links /\ Linked(Batch(items)) /\ Batch(items).stage = "queued"
  <2>1. PICK e \in Data : e = <<>>
    BY <1>1
  <2>2. Batch(items) = [kind |-> "batch", items |-> items, commit |-> 0, stage |-> "queued", base |-> e]
    BY <2>1 DEF Batch
  <2>3. Batch(items) \in Links
    BY <1>1, <2>2 DEF Links, Stages
  <2>. QED
    BY <1>2, <2>2, <2>3 DEF Linked, Stages
<1>3. ASSUME NEW m \in Nat
      PROVE  Barrier(m) \in Links /\ Linked(Barrier(m)) /\ Barrier(m).stage = "queued"
  <2>1. PICK e \in Data : e = <<>>
    BY <1>1
  <2>2. Barrier(m) = [kind |-> "barrier", items |-> e, commit |-> m, stage |-> "queued", base |-> e]
    BY <2>1 DEF Barrier
  <2>3. Barrier(m) \in Links
    BY <2>2 DEF Links, Stages
  <2>. QED
    BY <2>2, <2>3 DEF Linked, Stages
<1>. QED
  BY <1>2, <1>3

\* Draining, adding and registering a barrier keep the chain in form.
Formed(b, d) == b \in Batchers /\ HeadFirst(b.chain, d)

LEMMA DrainedFormed ==
    ASSUME NEW b, NEW d, Formed(b, d) PROVE Formed(Drained(b), d)
<1>1. b.chain \in Seq(Links) /\ b.pending \in Data
  BY DEF Formed, Batchers
<1>2. CASE b.pending = <<>> \/ b.cancelled
  BY <1>2 DEF Drained
<1>3. CASE ~(b.pending = <<>> \/ b.cancelled)
  <2>1. LET c == Append(b.chain, Batch(b.pending)) IN c \in Seq(Links) /\ HeadFirst(c, d)
    BY <1>1, <1>3, NewLinks, ChainGrows DEF Formed
  <2>2. /\ Drained(b) = [b EXCEPT !.chain = Append(b.chain, Batch(b.pending)), !.pending = <<>>,
                                  !.timer = FALSE]
        /\ <<>> \in Data
    BY <1>3 DEF Drained, Data
  <2>. QED
    BY <2>1, <2>2 DEF Formed, Batchers
<1>. QED
  BY <1>2, <1>3

LEMMA BarrierFormed ==
    ASSUME NEW b, NEW d, Formed(b, d), NEW m \in Nat PROVE Formed(BarrierAfter(b, m), d)
<1>1. b.chain \in Seq(Links)
  BY DEF Formed, Batchers
<1>2. LET c == Append(b.chain, Barrier(m)) IN c \in Seq(Links) /\ HeadFirst(c, d)
  BY <1>1, NewLinks, ChainGrows DEF Formed
<1>. QED
  BY <1>2 DEF Formed, Batchers, BarrierAfter

LEMMA ClosedFormed ==
    ASSUME NEW b, NEW d, Formed(b, d), NEW m \in Nat
    PROVE  Formed(BarrierAfter(b, m), d) /\ Formed(BarrierAfter(Drained(b), m), d)
<1>1. Formed(Drained(b), d)
  BY DrainedFormed
<1>2. \A c : Formed(c, d) => Formed(BarrierAfter(c, m), d)
  BY BarrierFormed
<1>. QED
  BY <1>1, <1>2

LEMMA AddedFormed ==
    ASSUME NEW b, NEW d, Formed(b, d), NEW m \in Nat, PolicyType PROVE Formed(Added(b, m), d)
<1> DEFINE room == IF b.pending # <<>> /\ Bytes(b.pending) + Sizes[m] > policy.maxBytes
                   THEN Drained(b) ELSE b
           held == [room EXCEPT !.pending = Append(@, m)]
           kept == [held EXCEPT !.timer = @ \/ policy.timed]
<1>1. Formed(room, d)
  BY DrainedFormed
<1>2. room.pending \in Data /\ policy.timed \in BOOLEAN
  BY <1>1 DEF Formed, Batchers, PolicyType
<1>3. Append(room.pending, m) \in Data
  BY <1>2, AppendProperties DEF Data
<1>4. Formed(held, d)
  BY <1>1, <1>3 DEF Formed, Batchers
<1>5. Formed(kept, d)
  BY <1>4, <1>2 DEF Formed, Batchers
<1>6. Formed(Drained(held), d)
  BY <1>4, DrainedFormed
<1>7. Added(b, m) = IF Full(held.pending) THEN Drained(held) ELSE kept
  BY DEF Added
<1>. QED
  BY <1>5, <1>6, <1>7

\* The outcome of deliveries changes neither which they are nor their order.
LEMMA HandledApps ==
    ASSUME SourceType, NEW items, NEW o \in {"done", "failed"}
    PROVE  LET h == Handled(items, o) IN
           /\ h \in Seq(Apps) /\ Len(h) = Len(apps)
           /\ \A i \in 1 .. Len(apps) :
                 /\ h[i].at = apps[i].at
                 /\ h[i].handled = IF \E j \in DOMAIN items : items[j] = apps[i].at
                                   THEN o ELSE apps[i].handled
<1> DEFINE h == Handled(items, o)
<1>1. apps \in Seq(Apps) /\ Len(apps) \in Nat /\ DOMAIN apps = 1 .. Len(apps)
  BY DEF SourceType
<1>2. \A i \in 1 .. Len(apps) : apps[i] \in Apps
  BY <1>1, ElementOfSeq
<1>3. h = [i \in 1 .. Len(apps) |-> IF \E j \in DOMAIN items : items[j] = apps[i].at
                                    THEN [apps[i] EXCEPT !.handled = o] ELSE apps[i]]
  BY <1>1 DEF Handled
<1>4. ASSUME NEW i \in 1 .. Len(apps)
      PROVE  /\ h[i] \in Apps /\ h[i].at = apps[i].at
             /\ h[i].handled = IF \E j \in DOMAIN items : items[j] = apps[i].at
                               THEN o ELSE apps[i].handled
  <2>1. h[i] = IF \E j \in DOMAIN items : items[j] = apps[i].at
               THEN [apps[i] EXCEPT !.handled = o] ELSE apps[i]
    BY <1>3
  <2>2. apps[i] \in Apps
    BY <1>2
  <2>. QED
    BY <2>1, <2>2 DEF Apps
<1>5. h \in Seq(Apps) /\ Len(h) = Len(apps)
  <2>1. \A i \in 1 .. Len(apps) : (IF \E j \in DOMAIN items : items[j] = apps[i].at
                                    THEN [apps[i] EXCEPT !.handled = o] ELSE apps[i]) \in Apps
    BY <1>3, <1>4
  <2>. QED
    BY <1>1, <1>3, <2>1
<1>. QED
  BY <1>4, <1>5

-----------------------------------------------------------------------------
(***************************************************************************)
(* Types and the order of states, step by step.                            *)
(***************************************************************************)
\* An update of a later state joins the end; a state that moves on stays the last.
LEMMA RisingGrows ==
    ASSUME NEW v \in Data, NEW p \in Seq(Updates), NEW s \in Data, Rising(v, p, s),
           NEW t \in Data, IsPrefix(s, t), NEW u \in Updates, u.data = t
    PROVE  Rising(v, p, t) /\ Append(p, u) \in Seq(Updates) /\ Rising(v, Append(p, u), t)
<1>1. /\ Append(p, u) \in Seq(Updates) /\ Len(Append(p, u)) = Len(p) + 1 /\ Len(p) \in Nat
      /\ \A i \in 1 .. Len(p) : Append(p, u)[i] = p[i]
      /\ Append(p, u)[Len(p) + 1] = u
  BY AppendProperties
<1>2. \A i \in 1 .. Len(p) : p[i].data \in Data
  <2>1. \A i \in 1 .. Len(p) : p[i] \in Updates
    BY ElementOfSeq
  <2>. QED
    BY <2>1 DEF Updates
<1>3. IsPrefix(v, t) /\ IsPrefix(t, t)
  BY PrefixOrder DEF Rising
<1>4. \A i \in 1 .. Len(p) : IsPrefix(v, p[i].data) /\ IsPrefix(p[i].data, t)
  BY <1>2, PrefixOrder DEF Rising
<1>5. Rising(v, p, t)
  BY <1>3, <1>4 DEF Rising
<1>6. Rising(v, Append(p, u), t)
  BY <1>1, <1>3, <1>4, <1>5 DEF Rising
<1>. QED
  BY <1>1, <1>5, <1>6

\* The first update may become the state that has been accepted.
LEMMA RisingTaken ==
    ASSUME NEW v \in Data, NEW p \in Seq(Updates), NEW s \in Data, Rising(v, p, s), p # <<>>
    PROVE  /\ Head(p) \in Updates /\ Tail(p) \in Seq(Updates)
           /\ Rising(v, Tail(p), s) /\ Rising(Head(p).data, Tail(p), s)
           /\ IsPrefix(v, Head(p).data)
<1>1. /\ Tail(p) \in Seq(Updates) /\ Head(p) \in Updates /\ Len(Tail(p)) = Len(p) - 1
      /\ \A i \in 1 .. Len(Tail(p)) : Tail(p)[i] = p[i + 1]
  BY HeadTailProperties
<1>2. Len(p) \in Nat \ {0}
  BY EmptySeq
<1>3. Head(p) = p[1]
  BY <1>2
<1>. QED
  BY <1>1, <1>2, <1>3 DEF Rising

Static == PolicyType /\ published \in 0 .. MaxSequence
Loop   == store \in Nat /\ lease \in LeaseType /\ sub \in Subs /\ apps \in Seq(Apps)
States == source \in Sources /\ publishing \in Seq(Updates) /\ session \in Sessions /\ Growing
Kept   == Static /\ Loop /\ States /\ Formed(batcher, source.data)

LEMMA KeptMeans == Kept <=> SourceType /\ HeadOnly /\ Growing
BY DEF Kept, Static, Loop, States, Formed, SourceType, HeadOnly

\* A state that is published is the state of that moment.
LEMMA UpdateTypes ==
    ASSUME NEW s \in Sources, NEW phase \in Phases, NEW then \in {"nothing", "batch", "ready"}
    PROVE  /\ Update(s, phase, then) \in Updates /\ Update(s, phase, then).data = s.data
           /\ Said(s, phase) \in Sources /\ Said(s, phase).data = s.data
BY DEF Update, Said, Sources, Updates

\* The listener of the lease.
LEMMA AnnouncesStep ==
    ASSUME States, NEW phase, Announces(phase), session' = session
    PROVE  States' /\ source'.data = source.data
<1> DEFINE say == Announcement(source, phase)
<1>1. CASE say = "nothing"
  BY <1>1 DEF Announces, States, Growing
<1>2. CASE say # "nothing"
  <2>1. say \in Phases /\ source \in Sources /\ publishing \in Seq(Updates) /\ session \in Sessions
    BY <1>2 DEF Announcement, Phases, States
  <2> DEFINE u == Update(source, say, "nothing")
  <2>2. source' = Said(source, say) /\ publishing' = Append(publishing, u)
    BY <1>2 DEF Announces
  <2>3. u \in Updates /\ u.data = source.data /\ source' \in Sources /\ source'.data = source.data
    BY <2>1, <2>2, UpdateTypes
  <2>4. source.data \in Data /\ session.value.data \in Data
    BY <2>1 DEF Sources, Sessions, Snapshots
  <2>5. IsPrefix(source.data, source.data)
    BY <2>4, PrefixOrder
  <2>6. /\ Append(publishing, u) \in Seq(Updates)
        /\ Rising(session.value.data, Append(publishing, u), source.data)
    BY <2>1, <2>3, <2>4, <2>5, RisingGrows DEF States, Growing
  <2>. QED
    BY <2>1, <2>2, <2>3, <2>6 DEF States, Growing
<1>. QED
  BY <1>1, <1>2

\* The subscription ends, and cancel() of its batcher.
LEMMA EndsStep ==
    ASSUME Kept, NEW phase \in {"closed", "error"}, Ends(phase), session' = session
    PROVE  States' /\ sub' \in Subs /\ lease' \in LeaseType /\ source' = source
<1>1. sub' \in Subs
  BY DEF Ends, Kept, Loop, Subs, Pcs
<1>2. lease' \in LeaseType
  BY DEF Ends, Kept, Loop, LeaseType, Phases
<1>. QED
  BY <1>1, <1>2 DEF Ends, Kept, States, Growing

LEMMA CancelStep ==
    ASSUME Kept, Cancel PROVE apps' \in Seq(Apps) /\ Formed(batcher', source.data)
<1>1. apps' \in Seq(Apps)
  BY HandledApps, KeptMeans DEF Cancel
<1>2. <<>> \in Data
  BY DEF Data
<1>3. Formed(batcher', source.data)
  BY <1>2 DEF Cancel, Kept, Formed, Batchers
<1>. QED
  BY <1>1, <1>3

LEMMA ThrowsStep ==
    ASSUME Kept, NEW e \in {"outage", "application"}, Throws(e)
    PROVE  apps' \in Seq(Apps) /\ Formed(batcher', source.data) /\ sub' \in Subs
<1>1. sub' \in Subs
  BY DEF Throws, Kept, Loop, Subs, Pcs
<1>. QED
  BY <1>1, CancelStep DEF Throws

\* The first link has been dealt with.
LEMMA PoppedStep ==
    ASSUME Kept, batcher.chain # <<>>, NEW d
    PROVE  Formed(Popped, d) /\ Popped.chain = Tail(batcher.chain) /\ Popped.pending = batcher.pending
           /\ Popped.cancelled = batcher.cancelled
<1>1. batcher.chain \in Seq(Links) /\ HeadFirst(batcher.chain, source.data) /\ batcher \in Batchers
  BY DEF Kept, Formed, Batchers
<1>2. Tail(batcher.chain) \in Seq(Links) /\ HeadFirst(Tail(batcher.chain), d)
  BY <1>1, ChainShrinks
<1>. QED
  BY <1>1, <1>2 DEF Popped, Formed, Batchers

\* The environment, and the parts of the session.
LEMMA OutsideKept ==
    ASSUME Kept, Publish \/ Outage \/ SessionLive \/ SessionEnds \/ Hydrate \/ Accept \/ Close
    PROVE  Kept'
<1>1. CASE Publish
  BY <1>1, ReducingAssumption DEF Publish, Kept, Static, PolicyType, Loop, States, Growing, Formed
<1>2. CASE Outage
  <2>1. sub' \in Subs
    BY <1>2 DEF Outage, Kept, Loop, Subs
  <2>. QED
    BY <1>2, <2>1 DEF Outage, Kept, Static, PolicyType, Loop, States, Growing, Formed
<1>3. CASE SessionLive
  <2>1. session' \in Sessions /\ session'.value = session.value
    BY <1>3 DEF SessionLive, Kept, States, Sessions, Phases
  <2>. QED
    BY <1>3, <2>1 DEF SessionLive, Kept, Static, PolicyType, Loop, States, Growing, Formed, world
<1>4. CASE SessionEnds
  <2>1. session' \in Sessions /\ session'.value = session.value
    BY <1>4 DEF SessionEnds, Kept, Loop, LeaseType, States, Sessions, LeaseOver
  <2>. QED
    BY <1>4, <2>1 DEF SessionEnds, Kept, Static, PolicyType, Loop, States, Growing, Formed, world
<1>5. CASE Hydrate
  <2>1. source \in Sources /\ session \in Sessions /\ lease \in LeaseType
    BY DEF Kept, States, Loop
  <2>2. source' \in Sources /\ source'.data = source.data
    BY <1>5, <2>1 DEF Hydrate, Sources, Phases, LeaseType
  <2>3. PICK u \in Updates : publishing' = <<u>> /\ u.data = source.data
    <3>1. publishing' = <<Update(source', "live", "ready")>>
      BY <1>5 DEF Hydrate
    <3>2. Update(source', "live", "ready") \in Updates /\ Update(source', "live", "ready").data = source.data
      BY <2>2, UpdateTypes DEF Phases
    <3>. QED
      BY <3>1, <3>2
  <2>4. source.data \in Data /\ session.value.data \in Data
    BY <2>1 DEF Sources, Sessions, Snapshots
  <2>5. IsPrefix(session.value.data, source.data) /\ IsPrefix(source.data, source.data)
    BY <2>4, PrefixOrder DEF Kept, States, Growing, Rising
  <2>6. Rising(session.value.data, publishing', source.data)
    BY <2>3, <2>5 DEF Rising
  <2>. QED
    BY <1>5, <2>2, <2>3, <2>6 DEF Hydrate, Kept, Static, PolicyType, Loop, States, Growing, Formed, world
<1>6. CASE Accept
  <2> DEFINE update == Head(publishing)
  <2>1. /\ source \in Sources /\ session \in Sessions /\ publishing \in Seq(Updates) /\ publishing # <<>>
        /\ source.data \in Data /\ session.value.data \in Data
    BY <1>6 DEF Kept, States, Accept, Sources, Sessions, Snapshots
  <2>2. /\ update \in Updates /\ Tail(publishing) \in Seq(Updates)
        /\ Rising(session.value.data, Tail(publishing), source.data)
        /\ Rising(update.data, Tail(publishing), source.data)
    BY <2>1, RisingTaken DEF Kept, States, Growing
  <2>3. source' \in Sources /\ source'.data = source.data
    BY <1>6, <2>1 DEF Accept, Sources
  <2>4. session' \in Sessions /\ (session'.value = session.value \/ session'.value.data = update.data)
    <3>1. session' = Accepted(update)
      BY <1>6 DEF Accept
    <3>2. CASE SessionOver
      BY <2>1, <3>1, <3>2 DEF Accepted
    <3>3. CASE ~SessionOver
      <4>1. update.phase \in Phases /\ update.data \in Data /\ update.cursor \in Nat
        BY <2>2 DEF Updates
      <4>2. PICK value : value = [phase |-> update.phase, data |-> update.data, cursor |-> update.cursor]
        OBVIOUS
      <4>3. value \in Snapshots /\ value.data = update.data
        BY <4>1, <4>2 DEF Snapshots
      <4>4. session' = [session EXCEPT !.valueRevision = session.valueRevision + 1, !.value = value]
        BY <3>1, <3>3, <4>2 DEF Accepted
      <4>5. session.valueRevision + 1 \in Nat
        BY <2>1 DEF Sessions
      <4>. QED
        BY <2>1, <4>3, <4>4, <4>5 DEF Sessions
    <3>. QED
      BY <3>2, <3>3
  <2>5. States'
    BY <1>6, <2>2, <2>3, <2>4 DEF Accept, States, Growing
  <2>6. apps' \in Seq(Apps) /\ Formed(batcher', source'.data)
    <3>1. CASE update.then = "batch" /\ batcher.chain # <<>>
      BY <1>6, <2>3, <3>1, HandledApps, KeptMeans, PoppedStep DEF Accept
    <3>2. CASE update.then = "batch" /\ batcher.chain = <<>>
      <4>1. batcher \in Batchers /\ Tail(<<>>) = <<>>
        BY DEF Kept, Formed
      <4>. QED
        BY <1>6, <2>3, <3>2, <4>1, HandledApps, KeptMeans DEF Accept, Popped, Formed, Batchers, Kept
    <3>3. CASE update.then # "batch"
      BY <1>6, <2>3, <3>3 DEF Accept, Kept, Loop
    <3>. QED
      BY <3>1, <3>2, <3>3
  <2>. QED
    BY <1>6, <2>5, <2>6 DEF Accept, Kept, Static, PolicyType, Loop, world
<1>7. CASE Close
  <2>1. apps' \in Seq(Apps) /\ Formed(batcher', source.data)
    BY <1>7, CancelStep DEF Close
  <2>2. sub' \in Subs /\ lease' \in LeaseType
    BY <1>7 DEF Close, CloseLease, Kept, Loop, Subs, LeaseType
  <2>. QED
    BY <1>7, <2>1, <2>2 DEF Close, Kept, Static, PolicyType, Loop, States, Growing, Formed, world
<1>. QED
  BY <1>1, <1>2, <1>3, <1>4, <1>5, <1>6, <1>7

\* The batcher applies its chain.
LEMMA BatcherKept ==
    ASSUME Kept, TimerFires \/ BatchStarts \/ BatchReduced \/ BatchFails \/ BarrierPasses
    PROVE  Kept'
<1>1. CASE TimerFires
  BY <1>1, DrainedFormed DEF TimerFires, Kept, Static, PolicyType, Loop, States, Growing, world
<1>2. CASE BatchFails
  <2>1. batcher.chain # <<>>
    BY <1>2 DEF BatchFails, Working
  <2>. QED
    BY <1>2, <2>1, PoppedStep, HandledApps, KeptMeans
       DEF BatchFails, Kept, Static, PolicyType, Loop, States, Growing
<1>3. CASE BarrierPasses
  <2>1. batcher.chain # <<>>
    BY <1>3 DEF BarrierPasses, Working
  <2>2. Formed(Popped, source.data)
    BY <2>1, PoppedStep
  <2>3. Formed(batcher', source.data)
    BY <1>3, <2>2 DEF BarrierPasses, Formed, Batchers
  <2>. QED
    BY <1>3, <2>3 DEF BarrierPasses, Kept, Static, PolicyType, Loop, States, Growing, world
<1>4. CASE BatchStarts
  <2> DEFINE c == batcher.chain
             d == [c EXCEPT ![1] = [c[1] EXCEPT !.stage = "reducing", !.base = source.data]]
  <2>1. c # <<>> /\ Head(c).kind = "batch"
    BY <1>4 DEF BatchStarts, Working
  <2>2. /\ c \in Seq(Links) /\ HeadFirst(c, source.data) /\ batcher \in Batchers
        /\ source.data \in Data
    BY DEF Kept, Formed, Batchers, States, Sources
  <2>3. Head(c) = c[1] /\ c[1] \in Links /\ Linked(c[1]) /\ Len(c) \in Nat \ {0}
    BY <2>1, <2>2, ChainShrinks
  <2>4. CASE batcher' = Popped /\ apps' = Handled(Head(c).items, "failed")
    BY <1>4, <2>1, <2>4, PoppedStep, HandledApps, KeptMeans
       DEF BatchStarts, Kept, Static, PolicyType, Loop, States, Growing, world
  <2>5. CASE batcher' = [batcher EXCEPT !.chain[1].stage = "reducing", !.chain[1].base = source.data]
             /\ UNCHANGED apps
    <3>1. [c[1] EXCEPT !.stage = "reducing", !.base = source.data] \in Links
      BY <2>2, <2>3 DEF Links, Stages
    <3>2. LET l == [c[1] EXCEPT !.stage = "reducing", !.base = source.data] IN
          Linked(l) /\ l.stage = "reducing" /\ l.base = source.data
      BY <2>1, <2>3 DEF Linked, Links, Stages
    <3>4. d \in Seq(Links) /\ HeadFirst(d, source.data)
      BY <2>1, <2>2, <3>1, <3>2, ChainMarked
    <3>5. batcher' = [batcher EXCEPT !.chain = d]
      BY <2>2, <2>3, <2>5 DEF Batchers
    <3>6. Formed(batcher', source.data)
      BY <2>2, <3>4, <3>5 DEF Formed, Batchers
    <3>. QED
      BY <1>4, <2>5, <3>6 DEF BatchStarts, Kept, Static, PolicyType, Loop, States, Growing, world
  <2>. QED
    BY <1>4, <2>4, <2>5 DEF BatchStarts
<1>5. CASE BatchReduced
  <2> DEFINE c == batcher.chain
             batch == Head(c)
             folded == [source EXCEPT !.data = batch.base \o batch.items, !.cursor = Last(batch.items)]
             phase == IF lease.phase \in Recovering THEN "reconnecting" ELSE "live"
             u == Update(folded, phase, "batch")
             d == [c EXCEPT ![1] = [c[1] EXCEPT !.stage = "publishing"]]
  <2>1. c # <<>> /\ batch.kind = "batch" /\ batch.stage = "reducing"
    BY <1>5 DEF BatchReduced, Working
  <2>2. /\ c \in Seq(Links) /\ HeadFirst(c, source.data) /\ batcher \in Batchers
        /\ source \in Sources /\ session \in Sessions /\ publishing \in Seq(Updates)
        /\ source.data \in Data /\ session.value.data \in Data
        /\ Rising(session.value.data, publishing, source.data)
    BY DEF Kept, Formed, Batchers, States, Sources, Sessions, Snapshots, Growing
  <2>3. batch = c[1] /\ c[1] \in Links /\ Linked(c[1]) /\ Len(c) \in Nat \ {0}
    BY <2>1, <2>2, ChainShrinks
  <2>4. batch.items \in Data /\ batch.items # <<>> /\ batch.base = source.data
    BY <2>1, <2>2, <2>3 DEF Links, Linked, HeadFirst
  <2>5. Last(batch.items) \in Nat
    BY <2>4 DEF Last, Data
  <2>6. folded \in Sources /\ folded.data = source.data \o batch.items
    BY <2>2, <2>4, <2>5, PrefixOrder DEF Sources
  <2>7. folded.data \in Data /\ IsPrefix(source.data, folded.data)
    BY <2>2, <2>4, <2>6, PrefixOrder
  <2>8. phase \in Phases
    BY DEF Phases
  <2>9. u \in Updates /\ u.data = folded.data /\ Said(folded, phase) \in Sources
        /\ Said(folded, phase).data = folded.data
    BY <2>6, <2>8, UpdateTypes
  <2>10. /\ Rising(session.value.data, publishing, folded.data)
         /\ Append(publishing, u) \in Seq(Updates)
         /\ Rising(session.value.data, Append(publishing, u), folded.data)
    BY <2>2, <2>7, <2>9, RisingGrows
  <2>11. CASE source.hydrated
    <3>1. source' = Said(folded, phase) /\ publishing' = Append(publishing, u) /\ UNCHANGED <<apps, session>>
          /\ batcher' = [batcher EXCEPT !.chain[1].stage = "publishing"]
      BY <1>5, <2>11 DEF BatchReduced
    <3>2. [c[1] EXCEPT !.stage = "publishing"] \in Links
      BY <2>3 DEF Links, Stages
    <3>3. LET l == [c[1] EXCEPT !.stage = "publishing"] IN Linked(l) /\ l.stage = "publishing"
      BY <2>1, <2>3 DEF Linked, Links, Stages
    <3>4. PICK l : l = [c[1] EXCEPT !.stage = "publishing"]
      OBVIOUS
    <3>5. d \in Seq(Links) /\ HeadFirst(d, folded.data)
      <4>1. l \in Links /\ Linked(l) /\ l.stage = "publishing"
        BY <3>2, <3>3, <3>4
      <4>2. [c EXCEPT ![1] = l] \in Seq(Links) /\ HeadFirst([c EXCEPT ![1] = l], folded.data)
        BY <2>1, <2>2, <4>1, ChainMarked
      <4>. QED
        BY <3>4, <4>2
    <3>6. batcher' = [batcher EXCEPT !.chain = d]
      BY <2>2, <2>3, <3>1 DEF Batchers
    <3>7. Formed(batcher', source'.data)
      BY <2>2, <2>9, <3>1, <3>5, <3>6 DEF Formed, Batchers
    <3>8. States'
      BY <2>2, <2>9, <2>10, <3>1 DEF States, Growing
    <3>. QED
      BY <1>5, <3>1, <3>7, <3>8 DEF BatchReduced, Kept, Static, PolicyType, Loop, world
  <2>12. CASE ~source.hydrated
    <3>1. source' = folded /\ UNCHANGED <<publishing, session>> /\ batcher' = Popped
          /\ apps' = Handled(batch.items, "done")
      BY <1>5, <2>12 DEF BatchReduced
    <3>2. apps' \in Seq(Apps) /\ Formed(batcher', source'.data)
      BY <2>1, <3>1, PoppedStep, HandledApps, KeptMeans
    <3>3. States'
      BY <2>2, <2>6, <2>10, <3>1 DEF States, Growing
    <3>. QED
      BY <1>5, <3>2, <3>3 DEF BatchReduced, Kept, Static, PolicyType, Loop, world
  <2>. QED
    BY <2>11, <2>12
<1>. QED
  BY <1>1, <1>2, <1>3, <1>4, <1>5

\* The loop of the subscription and the applications of its messages.
LEMMA LoopKept ==
    ASSUME Kept, Receive \/ Reject \/ Continue \/ LoopBreaks \/ LoopEnds \/ Finish \/ OpenFails
    PROVE  Kept'
<1>0. sub \in Subs /\ apps \in Seq(Apps) /\ published \in Nat /\ sub.position \in Nat
  BY ReducingAssumption DEF Kept, Loop, Subs, Static
<1> DEFINE Rest == /\ UNCHANGED <<policy, published, store, lease, source, publishing, session>>
                   /\ sub' \in Subs /\ apps' \in Seq(Apps) /\ Formed(batcher', source.data)
<1>a. ASSUME Rest PROVE Kept'
  BY <1>a DEF Kept, Static, PolicyType, Loop, States, Growing, Formed
<1>1. CASE Receive
  <2> DEFINE m == sub.position + 1
             added == IF Refused(batcher, m) THEN batcher ELSE Added(batcher, m)
             commit == CommitTarget(added, m, IF sub.assigned = 0 THEN 0 ELSE sub.position)
             app == [at |-> m, handled |-> IF Refused(batcher, m) THEN "failed" ELSE "waiting"]
             taken == [sub EXCEPT !.position = m, !.assigned = @ + 1]
  <2>1. m \in Nat /\ commit \in Nat
    BY <1>0 DEF CommitTarget
  <2>2. Formed(added, source.data)
    BY <2>1, AddedFormed DEF Kept, Static
  <2>3. app \in Apps
    BY <2>1 DEF Apps
  <2>4. apps' \in Seq(Apps)
    BY <1>0, <1>1, <2>3, AppendProperties DEF Receive
  <2>5. sub' \in Subs
    <3>0. sub.assigned + 1 \in Nat /\ taken = [sub EXCEPT !.position = m, !.assigned = sub.assigned + 1]
      BY <1>0 DEF Subs
    <3>1. taken \in Subs
      BY <1>0, <2>1, <3>0 DEF Subs
    <3>2. \/ sub' = [taken EXCEPT !.pc = "await", !.wait = m]
          \/ sub' = [taken EXCEPT !.pc = "await", !.wait = commit]
          \/ sub' = taken
      BY <1>1 DEF Receive
    <3>. QED
      BY <2>1, <3>1, <3>2 DEF Subs, Pcs
  <2>6. Formed(batcher', source.data)
    <3>1. \/ batcher' = BarrierAfter(Drained(added), m)
          \/ batcher' = BarrierAfter(added, commit)
          \/ batcher' = added
      BY <1>1 DEF Receive
    <3>. QED
      BY <2>1, <2>2, <3>1, ClosedFormed
  <2>. QED
    BY <1>1, <1>a, <2>4, <2>5, <2>6 DEF Receive, world
<1>2. CASE Reject
  <2>1. apps # <<>> /\ Head(apps) \in Apps /\ Tail(apps) \in Seq(Apps)
    BY <1>0, <1>2, HeadTailProperties DEF Reject
  <2>2. sub' \in Subs
    BY <1>0, <1>2, <2>1 DEF Reject, Subs, Apps
  <2>. QED
    BY <1>2, <1>a, <2>1, <2>2 DEF Reject, world, Kept
<1>3. CASE Continue
  <2>1. CASE Throws("application")
    BY <1>3, <1>a, <2>1, ThrowsStep DEF Continue, world
  <2>2. CASE sub' = [sub EXCEPT !.pc = "next"] /\ UNCHANGED <<batcher, apps>>
    BY <1>0, <1>3, <1>a, <2>2 DEF Continue, world, Subs, Pcs, Kept
  <2>. QED
    BY <1>3, <2>1, <2>2 DEF Continue
<1>4. CASE LoopBreaks
  BY <1>4, <1>a, ThrowsStep DEF LoopBreaks, world
<1>5. CASE LoopEnds
  <2> DEFINE last == IF sub.assigned = 0 THEN 0 ELSE sub.position
  <2>1. last \in Nat
    BY <1>0
  <2>2. sub' \in Subs
    BY <1>0, <1>5, <2>1 DEF LoopEnds, Subs, Pcs
  <2>3. Formed(batcher', source.data)
    <3>1. batcher' = batcher \/ batcher' = BarrierAfter(Drained(batcher), last)
      BY <1>5 DEF LoopEnds
    <3>2. Formed(batcher, source.data)
      BY DEF Kept
    <3>. QED
      BY <2>1, <3>1, <3>2, ClosedFormed
  <2>. QED
    BY <1>0, <1>5, <1>a, <2>2, <2>3 DEF LoopEnds, world
<1>6. CASE Finish
  BY <1>6, <1>a, ThrowsStep DEF Finish, world
<1>7. CASE OpenFails
  BY <1>7, <1>a, ThrowsStep DEF OpenFails
<1>. QED
  BY <1>1, <1>2, <1>3, <1>4, <1>5, <1>6, <1>7

\* The lease: a subscription opens, commits and ends, or is replaced.
LEMMA LeaseKept ==
    ASSUME Kept, Open \/ Commit \/ SubscriptionEnds \/ Retry
    PROVE  Kept' /\ source'.data = source.data
<1>0. sub \in Subs /\ lease \in LeaseType /\ apps \in Seq(Apps) /\ store \in Nat /\ published \in Nat
      /\ batcher \in Batchers
  BY ReducingAssumption DEF Kept, Loop, Static, Formed
<1> DEFINE Rest == /\ UNCHANGED <<policy, published, session>> /\ store' \in Nat
                   /\ sub' \in Subs /\ lease' \in LeaseType /\ apps' \in Seq(Apps)
                   /\ Formed(batcher', source.data) /\ States' /\ source'.data = source.data
<1>a. ASSUME Rest PROVE Kept' /\ source'.data = source.data
  BY <1>a DEF Kept, Static, PolicyType, Loop, Formed
<1>b. ASSUME NEW l \in LeaseType, NEW cursor \in Nat PROVE CaughtUp(l, cursor) \in LeaseType
  BY DEF CaughtUp, LeaseType
<1>1. CASE Open
  <2> DEFINE initial == published - store
             phase == IF initial = 0 THEN "live" ELSE "replaying"
             turned == [lease EXCEPT !.phase = phase]
  <2>1. CASE Ends("closed")
    BY <1>0, <1>1, <1>a, <2>1, EndsStep DEF Open, world, Kept
  <2>2. CASE /\ sub' = [sub EXCEPT !.pc = "next", !.phase = phase, !.messages = "open",
                                   !.initial = initial, !.remaining = initial, !.position = store]
             /\ lease' = (IF initial = 0 THEN CaughtUp(turned, store) ELSE turned)
             /\ Announces(phase)
    <3>1. initial \in Int /\ phase \in Phases
      BY <1>0 DEF Phases
    <3>2. sub' \in Subs
      BY <1>0, <2>2, <3>1 DEF Subs, Pcs
    <3>3. turned \in LeaseType
      BY <1>0, <3>1 DEF LeaseType
    <3>4. lease' \in LeaseType
      BY <1>0, <1>b, <2>2, <3>3
    <3>5. States' /\ source'.data = source.data
      BY <1>1, <2>2, AnnouncesStep DEF Open, Kept
    <3>. QED
      BY <1>0, <1>1, <1>a, <3>2, <3>4, <3>5 DEF Open, world, Kept
  <2>. QED
    BY <1>1, <2>1, <2>2 DEF Open
<1>2. CASE Commit
  <2> DEFINE at == Head(apps).at
             progressed == [sub EXCEPT !.remaining = IF @ = 0 THEN 0 ELSE @ - 1,
                                       !.phase = IF sub.remaining = 1 THEN "live" ELSE @]
             turned == [lease EXCEPT !.phase = progressed.phase]
  <2>0. apps # <<>> /\ Head(apps) \in Apps /\ Tail(apps) \in Seq(Apps)
    BY <1>0, <1>2, HeadTailProperties DEF Commit
  <2>1. apps # <<>> /\ Head(apps) \in Apps /\ Tail(apps) \in Seq(Apps) /\ at \in Nat
    BY <2>0 DEF Apps
  <2>2. progressed \in Subs /\ progressed.phase \in Phases
    <3>1. PICK n \in Int : n = IF sub.remaining = 0 THEN 0 ELSE sub.remaining - 1
      BY <1>0 DEF Subs
    <3>2. PICK p \in Phases : p = IF sub.remaining = 1 THEN "live" ELSE sub.phase
      BY <1>0 DEF Subs, Phases
    <3>3. progressed = [sub EXCEPT !.remaining = n, !.phase = p]
      BY <3>1, <3>2
    <3>. QED
      BY <1>0, <3>1, <3>2, <3>3 DEF Subs
  <2>3. turned \in LeaseType
    BY <1>0, <2>2 DEF LeaseType
  <2>4. CASE UNCHANGED <<lease, source, publishing>>
    <3>1. States'
      BY <1>2, <2>4 DEF Commit, Kept, States, Growing
    <3>. QED
      BY <1>0, <1>2, <1>a, <2>1, <2>2, <2>4, <3>1 DEF Commit, world, Kept
  <2>5. CASE /\ lease' = (IF sub.remaining = 1 /\ ~lease.closing THEN CaughtUp(turned, at) ELSE turned)
             /\ Announces(progressed.phase)
    <3>1. lease' \in LeaseType
      BY <1>b, <2>1, <2>3, <2>5
    <3>2. States' /\ source'.data = source.data
      BY <1>2, <2>5, AnnouncesStep DEF Commit, Kept
    <3>. QED
      BY <1>2, <1>a, <2>1, <2>2, <3>1, <3>2 DEF Commit, world, Kept
  <2>. QED
    BY <1>2, <2>4, <2>5 DEF Commit
<1>3. CASE SubscriptionEnds
  <2>1. CASE Ends("closed") \/ Ends("error")
    BY <1>0, <1>3, <1>a, <2>1, EndsStep DEF SubscriptionEnds, world, Kept
  <2>2. CASE /\ sub' = [sub EXCEPT !.pc = "delay", !.messages = "none"]
             /\ lease' = [lease EXCEPT !.phase = "reconnecting", !.restarts = @ + 1]
             /\ Announces("reconnecting")
    <3>0. sub' \in Subs
      BY <1>0, <2>2 DEF Subs, Pcs
    <3>1. sub' \in Subs /\ lease' \in LeaseType
      <4>1. lease.restarts + 1 \in Nat /\ lease' = [lease EXCEPT !.phase = "reconnecting", !.restarts = lease.restarts + 1]
        BY <1>0, <2>2 DEF LeaseType
      <4>. QED
        BY <1>0, <3>0, <4>1 DEF LeaseType, Phases
    <3>2. States' /\ source'.data = source.data
      BY <1>3, <2>2, AnnouncesStep DEF SubscriptionEnds, Kept
    <3>. QED
      BY <1>0, <1>3, <1>a, <3>1, <3>2 DEF SubscriptionEnds, world, Kept
  <2>. QED
    BY <1>3, <2>1, <2>2 DEF SubscriptionEnds
<1>4. CASE Retry
  <2>1. CASE Ends("closed") /\ UNCHANGED batcher
    BY <1>0, <1>4, <1>a, <2>1, EndsStep DEF Retry, world, Kept
  <2>2. CASE Attempt /\ UNCHANGED <<lease, source, publishing>>
    <3>1. sub' \in Subs
      BY <2>2 DEF Attempt, Connecting, Subs, Pcs, Phases
    <3>2. Formed(batcher', source.data)
      <4>1. PICK e : e = <<>> /\ e \in Data /\ e \in Seq(Links) /\ Len(e) = 0
        BY EmptySeq DEF Data
      <4>2. batcher' = [pending |-> e, timer |-> FALSE, chain |-> e, barrierFailure |-> FALSE,
                        cancelled |-> FALSE]
        BY <2>2, <4>1 DEF Attempt, EmptyBatcher
      <4>. QED
        BY <4>1, <4>2 DEF Formed, Batchers, HeadFirst
    <3>3. States'
      BY <1>4, <2>2 DEF Retry, Kept, States, Growing
    <3>. QED
      BY <1>0, <1>4, <1>a, <2>2, <3>1, <3>2, <3>3 DEF Retry, world, Kept
  <2>. QED
    BY <1>4, <2>1, <2>2 DEF Retry
<1>. QED
  BY <1>1, <1>2, <1>3, <1>4

\* Every step of the source.
LEMMA SourceKept ==
    ASSUME Kept, SourceNext PROVE Kept'
BY OutsideKept, BatcherKept, LoopKept, LeaseKept DEF SourceNext, Work

LEMMA SourceStarts ==
    ASSUME SourceInit PROVE Kept
<1>1. PICK e : e = <<>> /\ e \in Data /\ e \in Seq(Links) /\ e \in Seq(Apps) /\ Len(e) = 0
  BY EmptySeq DEF Data
<1>2. PolicyType
  <2>1. PICK o \in Policies : policy = BatchPolicy(o)
    BY DEF SourceInit
  <2>2. ValidBatchPolicy(BatchPolicy(o)) /\ ValidRecovery(o)
    BY ReducingAssumption
  <2>. QED
    BY <2>1, <2>2 DEF PolicyType, BatchPolicy, ValidBatchPolicy, ValidRecovery
<1>3. Static
  BY <1>2, ReducingAssumption DEF Static, SourceInit
<1>4. Loop
  <2>1. sub \in Subs
    BY DEF SourceInit, Connecting, Subs, Pcs, Phases
  <2>2. lease \in LeaseType
    BY DEF SourceInit, NewLease, LeaseType, Phases
  <2>. QED
    BY <1>1, <2>1, <2>2 DEF Loop, SourceInit
<1>5. Formed(batcher, source.data)
  <2>1. batcher = [pending |-> e, timer |-> FALSE, chain |-> e, barrierFailure |-> FALSE, cancelled |-> FALSE]
    BY <1>1 DEF SourceInit, EmptyBatcher
  <2>. QED
    BY <1>1, <2>1 DEF Formed, Batchers, HeadFirst
<1>6. States
  <2>1. source \in Sources /\ source.data = e
    <3>1. source = [data |-> e, cursor |-> 0, hydrated |-> FALSE, said |-> "replaying", ready |-> FALSE]
      BY <1>1 DEF SourceInit
    <3>. QED
      BY <1>1, <3>1 DEF Sources, Phases
  <2>2. PICK u \in Updates : publishing = <<u>> /\ u.data = e
    <3>1. PICK u : u = [phase |-> "replaying", data |-> e, cursor |-> 0, then |-> "nothing"]
      OBVIOUS
    <3>2. u \in Updates /\ u.data = e
      BY <1>1, <3>1 DEF Updates, Phases
    <3>3. publishing = <<u>>
      BY <1>1, <3>1 DEF SourceInit
    <3>. QED
      BY <3>2, <3>3
  <2>3. session \in Sessions /\ session.value.data = e
    <3>1. PICK v : v = [phase |-> "none", data |-> e, cursor |-> 0]
      OBVIOUS
    <3>2. v \in Snapshots /\ v.data = e
      BY <1>1, <3>1 DEF Snapshots, Phases
    <3>3. session = [phase |-> "connecting", valueRevision |-> 0, value |-> v]
      BY <1>1, <3>1 DEF SourceInit, NoSnapshot
    <3>. QED
      BY <3>2, <3>3 DEF Sessions, Phases
  <2>4. IsPrefix(e, e)
    BY <1>1, PrefixOrder
  <2>. QED
    BY <2>1, <2>2, <2>3, <2>4 DEF States, Growing, Rising
<1>. QED
  BY <1>3, <1>4, <1>5, <1>6 DEF Kept

-----------------------------------------------------------------------------
(***************************************************************************)
(* The view.                                                               *)
(***************************************************************************)
LEMMA ShapeParts ==
    ASSUME NEW v \in Shapes
    PROVE  /\ v.shown \in Snapshots /\ v.shown.data \in Data /\ v.held \in Snapshots /\ v.held.data \in Data
           /\ v.queue \in Seq(Items) /\ v.count \in Nat /\ v.timer \in BOOLEAN
           /\ Latest(v) \in Snapshots /\ Latest(v).data \in Data
BY DEF Shapes, Snapshots, Latest

LEMMA NoSnapshotIsOne ==
    NoSnapshot \in Snapshots /\ NoSnapshot.data = <<>> /\ <<>> \in Data /\ <<>> \in Seq(Items) /\ Len(<<>>) = 0
<1>1. PICK e : e = <<>> /\ e \in Data /\ e \in Seq(Items) /\ Len(e) = 0
  BY EmptySeq DEF Data
<1>2. NoSnapshot = [phase |-> "none", data |-> e, cursor |-> 0]
  BY <1>1 DEF NoSnapshot
<1>3. NoSnapshot \in Snapshots /\ NoSnapshot.data = e
  BY <1>1, <1>2 DEF Snapshots, Phases
<1>. QED
  BY <1>1, <1>3

\* The queue of a stream: taking its first item, adding one at the end.
LEMMA PipeTaken ==
    ASSUME NEW v \in Data, NEW q \in Seq(Items), NEW d \in Data, Pipe(v, q, d), q # <<>>
    PROVE  /\ Head(q) \in Items /\ Tail(q) \in Seq(Items)
           /\ Pipe(v, Tail(q), d) /\ Pipe(Head(q).value.data, Tail(q), d)
           /\ IsPrefix(v, Head(q).value.data)
<1>1. /\ Tail(q) \in Seq(Items) /\ Head(q) \in Items /\ Len(Tail(q)) = Len(q) - 1
      /\ \A i \in 1 .. Len(Tail(q)) : Tail(q)[i] = q[i + 1]
  BY HeadTailProperties
<1>2. Len(q) \in Nat \ {0}
  BY EmptySeq
<1>3. Head(q) = q[1]
  BY <1>2
<1>. QED
  BY <1>1, <1>2, <1>3 DEF Pipe

LEMMA PipeGrows ==
    ASSUME NEW v \in Data, NEW q \in Seq(Items), NEW d \in Data, Pipe(v, q, d),
           NEW e \in Data, IsPrefix(d, e), NEW x \in Items, x.value.data = e
    PROVE  Pipe(v, q, e) /\ Append(q, x) \in Seq(Items) /\ Pipe(v, Append(q, x), e)
<1>1. /\ Append(q, x) \in Seq(Items) /\ Len(Append(q, x)) = Len(q) + 1 /\ Len(q) \in Nat
      /\ \A i \in 1 .. Len(q) : Append(q, x)[i] = q[i]
      /\ Append(q, x)[Len(q) + 1] = x
  BY AppendProperties
<1>2. \A i \in 1 .. Len(q) : q[i].value.data \in Data
  <2>1. \A i \in 1 .. Len(q) : q[i] \in Items
    BY ElementOfSeq
  <2>. QED
    BY <2>1 DEF Items, Snapshots
<1>3. IsPrefix(v, e) /\ IsPrefix(e, e)
  BY PrefixOrder DEF Pipe
<1>4. \A i \in 1 .. Len(q) : IsPrefix(v, q[i].value.data) /\ IsPrefix(q[i].value.data, e)
  BY <1>2, PrefixOrder DEF Pipe
<1>5. Pipe(v, q, e)
  BY <1>3, <1>4 DEF Pipe
<1>6. Pipe(v, Append(q, x), e)
  BY <1>1, <1>3, <1>4, <1>5 DEF Pipe
<1>. QED
  BY <1>1, <1>5, <1>6

\* A later state of the session changes nothing.
LEMMA ForwardLater ==
    ASSUME NEW v \in Shapes, NEW d \in Data, Forward(v, d), NEW e \in Data, IsPrefix(d, e)
    PROVE  Forward(v, e)
<1>1. v.shown.data \in Data /\ v.held.data \in Data /\ Latest(v).data \in Data /\ v.queue \in Seq(Items)
  BY ShapeParts
<1>2. IsPrefix(v.shown.data, e)
  BY <1>1, PrefixOrder DEF Forward
<1>3. IsPrefix(v.held.data, d) => IsPrefix(v.held.data, e)
  BY <1>1, PrefixOrder
<1>4. Pipe(Latest(v).data, v.queue, d) => Pipe(Latest(v).data, v.queue, e)
  <2>1. \A i \in 1 .. Len(v.queue) : v.queue[i].value.data \in Data
    <3>1. \A i \in 1 .. Len(v.queue) : v.queue[i] \in Items
      BY <1>1, ElementOfSeq
    <3>. QED
      BY <3>1 DEF Items, Snapshots
  <2>. QED
    BY <1>1, <2>1, PrefixOrder DEF Pipe
<1>. QED
  BY <1>2, <1>3, <1>4 DEF Forward

\* From v to w what is shown does not go back.
Onward(v, w, d) == w \in Shapes /\ Forward(w, d) /\ IsPrefix(v.shown.data, w.shown.data)

LEMMA OnwardTwice ==
    ASSUME NEW u \in Shapes, NEW v \in Shapes, NEW d \in Data, NEW w,
           IsPrefix(u.shown.data, v.shown.data), Onward(v, w, d)
    PROVE  Onward(u, w, d)
<1>1. u.shown.data \in Data /\ v.shown.data \in Data /\ w.shown.data \in Data
  BY ShapeParts DEF Onward
<1>. QED
  BY <1>1, PrefixOrder DEF Onward

LEMMA OnwardSame ==
    ASSUME NEW v \in Shapes, NEW d, Forward(v, d) PROVE Onward(v, v, d)
BY ShapeParts, PrefixOrder DEF Onward

\* A view that is over.
LEMMA OverOnward ==
    ASSUME NEW v \in Shapes, NEW d \in Data, Forward(v, d) PROVE Onward(v, Over(v), d)
<1> DEFINE w == Over(v)
<1>1. w \in Shapes /\ w.shown = v.shown /\ w.queue = <<>> /\ w.count = 0 /\ w.terminal = v.terminal
      /\ ~w.timer /\ w.held = NoSnapshot
  BY NoSnapshotIsOne DEF Over, Shapes
<1>2. v.shown.data \in Data
  BY ShapeParts
<1>3. Latest(w) = v.shown /\ ~Holding(w)
  BY <1>1 DEF Latest, Holding
<1>4. Pipe(v.shown.data, <<>>, d)
  BY NoSnapshotIsOne DEF Pipe, Forward
<1>5. IsPrefix(v.shown.data, v.shown.data)
  BY <1>2, PrefixOrder
<1>. QED
  BY <1>1, <1>3, <1>4, <1>5 DEF Onward, Forward

\* RxJS.
LEMMA FlushedOnward ==
    ASSUME NEW v \in Shapes, NEW d \in Data, Forward(v, d), adapter.kind = "rxjs"
    PROVE  Onward(v, Flushed(v), d) /\ Flushed(v).count = 0
<1>1. CASE v.count = 0
  <2>1. Flushed(v) \in Shapes /\ Flushed(v).shown = v.shown /\ Flushed(v).count = 0
        /\ Flushed(v).queue = v.queue /\ Flushed(v).terminal = v.terminal
    BY <1>1 DEF Flushed, Shapes
  <2>. QED
    BY <2>1, ShapeParts, PrefixOrder DEF Onward, Forward
<1>2. CASE v.count # 0
  <2>1. Flushed(v) \in Shapes /\ Flushed(v).shown = v.held /\ Flushed(v).count = 0
        /\ Flushed(v).queue = v.queue /\ Flushed(v).terminal = v.terminal
    BY <1>2, NoSnapshotIsOne DEF Flushed, Shows, Shapes
  <2>2. v.count > 0
    BY <1>2, ShapeParts
  <2>. QED
    BY <2>1, <2>2 DEF Onward, Forward
<1>. QED
  BY <1>1, <1>2

LEMMA RxjsOnward ==
    ASSUME ViewType, NEW v \in Shapes, NEW s \in Sessions, Forward(v, s.value.data), adapter.kind = "rxjs"
    PROVE  Onward(v, RxjsNotified(v, s), s.value.data)
<1> DEFINE d == s.value.data
           value == s.value
           next == IF s.valueRevision = v.seen THEN v
                   ELSE [RxjsNext(v, value) EXCEPT !.seen = s.valueRevision]
<1>1. value \in Snapshots /\ d \in Data /\ s.valueRevision \in Nat
  BY DEF Sessions, Snapshots
<1>2. v.shown.data \in Data /\ v.held.data \in Data /\ v.count \in Nat
  BY ShapeParts
<1>3. IsPrefix(d, d)
  BY <1>1, PrefixOrder
<1>4. Onward(v, RxjsNext(v, value), d)
  <2>1. CASE value.phase # "live"
    <3> DEFINE f == Flushed(v)
    <3>1. f \in Shapes /\ Forward(f, d) /\ f.count = 0 /\ IsPrefix(v.shown.data, f.shown.data)
      BY <1>1, FlushedOnward DEF Onward
    <3>2. RxjsNext(v, value) = [f EXCEPT !.shown = value, !.seenLive = FALSE]
      BY <2>1, <3>1 DEF RxjsNext, FlushedFirst, Shows, Shapes
    <3> HIDE DEF f
    <3> DEFINE w == RxjsNext(v, value)
    <3>3. w \in Shapes /\ w.shown = value /\ w.count = 0 /\ w.queue = f.queue /\ w.terminal = f.terminal
      BY <1>1, <3>1, <3>2 DEF Shapes
    <3> HIDE DEF w
    <3>4. IsPrefix(v.shown.data, d)
      BY DEF Forward
    <3>5. Forward(w, d)
      BY <1>3, <3>1, <3>3 DEF Forward
    <3>. QED
      BY <3>3, <3>4, <3>5 DEF Onward, w
  <2>2. CASE value.phase = "live" /\ ~v.seenLive
    <3>1. RxjsNext(v, value) = [v EXCEPT !.shown = value, !.seenLive = TRUE]
      BY <2>2 DEF RxjsNext, Shows, Shapes
    <3> DEFINE w == RxjsNext(v, value)
    <3>3. w \in Shapes /\ w.shown = value /\ w.count = v.count /\ w.queue = v.queue
          /\ w.terminal = v.terminal /\ w.held = v.held
      BY <1>1, <3>1 DEF Shapes
    <3> HIDE DEF w
    <3>4. w.count = 0 /\ v.queue = <<>> /\ ~v.terminal /\ IsPrefix(v.shown.data, d)
      BY <1>2, <2>2, <3>3 DEF Forward
    <3>5. Forward(w, d)
      BY <1>3, <3>3, <3>4 DEF Forward
    <3>. QED
      BY <3>3, <3>4, <3>5 DEF Onward, w
  <2>3. CASE value.phase = "live" /\ v.seenLive
    <3> DEFINE h == [v EXCEPT !.held = value, !.count = v.count + 1]
               k == [h EXCEPT !.timer = h.timer \/ adapter.timer # "none"]
    <3>1. h \in Shapes /\ h.shown = v.shown /\ h.held = value /\ h.count = v.count + 1 /\ h.queue = v.queue
          /\ h.terminal = v.terminal /\ h.timer = v.timer /\ h.seenLive
      <4>1. PICK n \in Nat : n = v.count + 1
        BY <1>2
      <4>2. h = [v EXCEPT !.held = value, !.count = n]
        BY <4>1
      <4>. QED
        BY <1>1, <2>3, <4>1, <4>2 DEF Shapes
    <3>2. Forward(h, d)
      BY <1>3, <3>1 DEF Forward
    <3>3. RxjsNext(v, value) = IF h.count >= adapter.maxItems THEN Flushed(h) ELSE k
      BY <2>3 DEF RxjsNext, Buffered
    <3>4. k \in Shapes /\ k.shown = h.shown /\ k.held = h.held /\ k.count = h.count /\ k.queue = h.queue
          /\ k.terminal = h.terminal /\ k.seenLive = h.seenLive
      BY <3>1 DEF Shapes
    <3>5. IsPrefix(v.shown.data, v.shown.data)
      BY <1>2, PrefixOrder
    <3>6. Onward(v, k, d)
      BY <3>1, <3>2, <3>4, <3>5 DEF Onward, Forward
    <3> HIDE DEF h, k
    <3>7. Onward(v, Flushed(h), d)
      BY <1>1, <3>1, <3>2, FlushedOnward DEF Onward
    <3>. QED
      BY <3>3, <3>6, <3>7
  <2>. QED
    BY <2>1, <2>2, <2>3
<1>5. Onward(v, next, d)
  <2>1. CASE s.valueRevision = v.seen
    BY <2>1, OnwardSame
  <2>2. CASE s.valueRevision # v.seen
    <3> DEFINE r == RxjsNext(v, value)
               w == [r EXCEPT !.seen = s.valueRevision]
    <3>1. r \in Shapes
      BY <1>4 DEF Onward
    <3> HIDE DEF r
    <3>2. w \in Shapes /\ w.shown = r.shown /\ w.held = r.held /\ w.count = r.count /\ w.queue = r.queue
          /\ w.terminal = r.terminal /\ w.seenLive = r.seenLive
      BY <1>1, <3>1 DEF Shapes
    <3> HIDE DEF w
    <3>3. Onward(v, w, d)
      BY <1>4, <3>2 DEF Onward, Forward, r
    <3>. QED
      BY <2>2, <3>3 DEF w, r
  <2>. QED
    BY <2>1, <2>2
<1> HIDE DEF next
<1>6. next \in Shapes /\ Forward(next, d) /\ IsPrefix(v.shown.data, next.shown.data)
  BY <1>5 DEF Onward
<1>7. Onward(v, Over(next), d)
  BY <1>1, <1>6, OverOnward, OnwardTwice
<1>8. Onward(v, Over(Flushed(next)), d)
  <2>1. Onward(v, Flushed(next), d)
    BY <1>1, <1>6, FlushedOnward, OnwardTwice
  <2>2. Flushed(next) \in Shapes /\ Forward(Flushed(next), d) /\ IsPrefix(v.shown.data, Flushed(next).shown.data)
    BY <2>1 DEF Onward
  <2>3. Onward(Flushed(next), Over(Flushed(next)), d)
    BY <1>1, <2>2, OverOnward
  <2>. QED
    BY <1>1, <2>2, <2>3, OnwardTwice
<1>9. RxjsNotified(v, s) = IF s.phase = "error" THEN Over(next)
                           ELSE IF s.phase = "closed" THEN Over(Flushed(next)) ELSE next
  BY DEF RxjsNotified, next
<1>. QED
  BY <1>5, <1>7, <1>8, <1>9

LEMMA RenderedShape ==
    ASSUME NEW v \in Shapes, NEW s \in Sessions, NEW w, w = Rendered(v, s)
    PROVE  w \in Shapes /\ w.queue = v.queue /\ w.terminal = v.terminal /\ w.shown = s.value
<1>1. PICK n \in Nat : n = 0
  OBVIOUS
<1>2. s.value \in Snapshots
  BY DEF Sessions
<1>3. w = [v EXCEPT !.shown = s.value, !.count = n, !.timer = FALSE]
  BY <1>1 DEF Rendered, Shows, Shapes
<1>. QED
  BY <1>2, <1>3 DEF Shapes

\* React: whatever is shown is the state of the session.
LEMMA ReactOnward ==
    ASSUME ViewType, NEW v \in Shapes, NEW s \in Sessions, Forward(v, s.value.data), adapter.kind = "react"
    PROVE  Onward(v, ReactNotified(v, s), s.value.data) /\ Onward(v, ReactDue(v, s), s.value.data)
<1> DEFINE d == s.value.data
<1>1. s.value \in Snapshots /\ d \in Data /\ s.value.phase \in Phases
  BY DEF Sessions, Snapshots
<1>2. v.shown.data \in Data /\ v.count \in Nat
  BY ShapeParts
<1>3. IsPrefix(d, d) /\ IsPrefix(v.shown.data, v.shown.data)
  BY <1>1, <1>2, PrefixOrder
<1>a. ASSUME NEW w \in Shapes, w.queue = v.queue, w.terminal = v.terminal, w.shown = v.shown \/ w.shown = s.value
      PROVE  Onward(v, w, d)
  BY <1>3, <1>a DEF Onward, Forward
<1>4. PICK n \in Nat : n = v.count + 1
  BY <1>2
<1> DEFINE next == [v EXCEPT !.lastPhase = s.value.phase]
           more == [next EXCEPT !.count = n]
<1>5. /\ next \in Shapes /\ next.queue = v.queue /\ next.terminal = v.terminal /\ next.shown = v.shown
      /\ next.count = v.count
  BY <1>1 DEF Shapes
<1>6. more \in Shapes /\ more.queue = v.queue /\ more.terminal = v.terminal /\ more.shown = v.shown
  BY <1>4, <1>5 DEF Shapes
<1>7. ReactNotified(v, s) = IF PhaseTransition(v, s.value.phase) \/ more.count >= adapter.maxItems
                           THEN Rendered(next, s) ELSE [more EXCEPT !.timer = TRUE]
  BY <1>4, <1>5 DEF ReactNotified, StatePhase
<1>8. Onward(v, Rendered(next, s), d)
  <2>1. \A w : w = Rendered(next, s) =>
            w \in Shapes /\ w.queue = next.queue /\ w.terminal = next.terminal /\ w.shown = s.value
    BY <1>5, RenderedShape
  <2> DEFINE w == Rendered(next, s)
  <2>2. w \in Shapes /\ w.queue = v.queue /\ w.terminal = v.terminal /\ w.shown = s.value
    BY <1>5, <2>1
  <2>. QED
    BY <1>a, <2>2
<1>9. Onward(v, [more EXCEPT !.timer = TRUE], d)
  <2> DEFINE w == [more EXCEPT !.timer = TRUE]
  <2>2. w \in Shapes /\ w.queue = v.queue /\ w.terminal = v.terminal /\ w.shown = v.shown
    BY <1>6 DEF Shapes
  <2>. QED
    BY <1>a, <2>2
<1>10. Onward(v, ReactDue(v, s), d)
  <2>1. PICK k \in Nat : ReactDue(v, s) = [v EXCEPT !.shown = s.value, !.timer = FALSE, !.count = k]
    <3>1. ReactDue(v, s) = [v EXCEPT !.shown = s.value, !.timer = FALSE,
                                     !.count = IF adapter.timer = "wait" THEN 0 ELSE v.count]
      BY DEF ReactDue, Shows, Shapes
    <3>2. (IF adapter.timer = "wait" THEN 0 ELSE v.count) \in Nat
      BY <1>2
    <3>. QED
      BY <3>1, <3>2
  <2> DEFINE w == ReactDue(v, s)
  <2>2. w \in Shapes /\ w.queue = v.queue /\ w.terminal = v.terminal /\ w.shown = s.value
    BY <1>1, <2>1 DEF Shapes
  <2>. QED
    BY <1>a, <2>2
<1>. QED
  BY <1>7, <1>8, <1>9, <1>10

\* Effect: the queue receives the state of the session.
LEMMA EffectOnward ==
    ASSUME ViewType, NEW v \in Shapes, NEW s \in Sessions, NEW d \in Data, Forward(v, d),
           IsPrefix(d, s.value.data), adapter.kind = "effect"
    PROVE  Onward(v, EffectNotified(v, s), s.value.data)
<1> DEFINE e == s.value.data
           item == [valueRevision |-> s.valueRevision, value |-> s.value]
           first == Latest(v).data
<1>1. s.value \in Snapshots /\ e \in Data /\ s.valueRevision \in Nat
  BY DEF Sessions, Snapshots
<1>2. /\ v.shown.data \in Data /\ v.queue \in Seq(Items) /\ first \in Data
      /\ adapter.capacity \in Nat \ {0}
  BY ShapeParts DEF ViewType
<1>3. Forward(v, e)
  BY <1>1, ForwardLater
<1>4. IsPrefix(v.shown.data, first) /\ Pipe(first, v.queue, d) /\ IsPrefix(v.shown.data, v.shown.data)
  BY <1>2, PrefixOrder DEF Forward
<1>5. item \in Items /\ item.value = s.value
  BY <1>1 DEF Items
<1>6. Pipe(first, v.queue, e) /\ Append(v.queue, item) \in Seq(Items) /\ Pipe(first, Append(v.queue, item), e)
  BY <1>1, <1>2, <1>4, <1>5, PipeGrows
<1>7. v.queue # <<>> => /\ Append(Tail(v.queue), item) \in Seq(Items)
                       /\ Pipe(first, Append(Tail(v.queue), item), e)
  <2>1. SUFFICES ASSUME v.queue # <<>>
                 PROVE  /\ Append(Tail(v.queue), item) \in Seq(Items)
                        /\ Pipe(first, Append(Tail(v.queue), item), e)
    OBVIOUS
  <2>2. Tail(v.queue) \in Seq(Items) /\ Pipe(first, Tail(v.queue), d)
    BY <1>2, <1>4, <2>1, PipeTaken DEF Forward, ViewType
  <2>. QED
    BY <1>1, <1>2, <1>5, <2>2, PipeGrows
<1>8. ASSUME NEW q \in Seq(Items), Pipe(first, q, e), NEW t \in BOOLEAN, NEW w,
             w = [v EXCEPT !.queue = q, !.terminal = t]
      PROVE  Onward(v, w, e)
  <2>1. /\ w \in Shapes /\ w.shown = v.shown /\ w.held = v.held /\ w.timer = v.timer /\ w.queue = q
        /\ w.seenLive = v.seenLive
    BY <1>8 DEF Shapes
  <2>2. Latest(w) = Latest(v) /\ (Holding(w) <=> Holding(v))
    BY <2>1 DEF Latest, Holding
  <2>. QED
    BY <1>3, <1>4, <1>8, <2>1, <2>2 DEF Onward, Forward
<1> DEFINE o == Offered(v, s)
           t == s.phase \in {"closed", "error"}
<1>9. CASE v.terminal
  BY <1>3, <1>9, OnwardSame DEF EffectNotified
<1>10. CASE ~v.terminal
  <2>1. \E q \in Seq(Items), b \in BOOLEAN : Pipe(first, q, e) /\ o = [v EXCEPT !.queue = q, !.terminal = b]
    <3>1. CASE Len(v.queue) < adapter.capacity
      <4>1. o = [v EXCEPT !.queue = Append(v.queue, item), !.terminal = FALSE]
        BY <1>10, <3>1 DEF Offered, Shapes
      <4>. QED
        BY <1>6, <4>1
    <3>2. CASE ~(Len(v.queue) < adapter.capacity) /\ adapter.overflow = "sliding"
      <4>1. o = [v EXCEPT !.queue = Append(Tail(v.queue), item), !.terminal = FALSE]
        BY <1>10, <3>2 DEF Offered, Shapes
      <4>2. v.queue # <<>>
        BY <1>2, <3>2
      <4>. QED
        BY <1>7, <4>1, <4>2
    <3>3. CASE ~(Len(v.queue) < adapter.capacity) /\ adapter.overflow # "sliding"
      <4>1. \E b \in BOOLEAN : o = [v EXCEPT !.queue = v.queue, !.terminal = b]
        BY <1>10, <3>3 DEF Offered, Shapes
      <4>. QED
        BY <1>2, <1>6, <4>1
    <3>. QED
      BY <3>1, <3>2, <3>3
  <2>2. PICK q \in Seq(Items), b \in BOOLEAN : Pipe(first, q, e) /\ o = [v EXCEPT !.queue = q, !.terminal = b]
    BY <2>1
  <2>3. EffectNotified(v, s) = [o EXCEPT !.terminal = o.terminal \/ t]
    BY <1>10 DEF EffectNotified
  <2> HIDE DEF o, t
  <2>4. PICK c \in BOOLEAN : EffectNotified(v, s) = [v EXCEPT !.queue = q, !.terminal = c]
    <3>1. \/ EffectNotified(v, s) = [v EXCEPT !.queue = q, !.terminal = TRUE]
          \/ EffectNotified(v, s) = [v EXCEPT !.queue = q, !.terminal = FALSE]
      BY <2>2, <2>3 DEF Shapes
    <3>. QED
      BY <3>1
  <2>. QED
    BY <1>8, <2>2, <2>4
<1>. QED
  BY <1>9, <1>10

\* The stream takes an item from the queue, or shows the state it has held back.
LEMMA PulledOnward ==
    ASSUME NEW v \in Shapes, NEW d \in Data, Forward(v, d), adapter.kind = "effect"
    PROVE  /\ v.queue # <<>> => Onward(v, Pulled(v), d)
           /\ Holding(v) => Onward(v, EffectFlushed(v), d)
<1> DEFINE first == Latest(v).data
<1>1. v.shown.data \in Data /\ v.held \in Snapshots /\ v.held.data \in Data /\ v.queue \in Seq(Items) /\ first \in Data
  BY ShapeParts
<1>2. IsPrefix(v.shown.data, first) /\ Pipe(first, v.queue, d) /\ IsPrefix(v.shown.data, v.shown.data)
  BY <1>1, PrefixOrder DEF Forward
<1>3. ASSUME Holding(v) PROVE Onward(v, EffectFlushed(v), d)
  <2> DEFINE w == EffectFlushed(v)
  <2>1. /\ w \in Shapes /\ w.shown = v.held /\ w.held = NoSnapshot /\ ~w.timer /\ w.queue = v.queue
    BY <1>1, NoSnapshotIsOne DEF EffectFlushed, Shows, Shapes
  <2>2. ~Holding(w) /\ Latest(w) = v.held /\ first = v.held.data
    BY <1>3, <2>1 DEF Holding, Latest
  <2>3. IsPrefix(v.held.data, v.held.data) /\ IsPrefix(v.held.data, d)
    BY <1>1, <1>2, <2>2, PrefixOrder DEF Pipe
  <2> HIDE DEF w
  <2>. QED
    BY <1>2, <2>1, <2>2, <2>3 DEF Onward, Forward, w
<1>4. ASSUME v.queue # <<>> PROVE Onward(v, Pulled(v), d)
  <2> DEFINE item == Head(v.queue)
             value == item.value
             rest == [v EXCEPT !.queue = Tail(@)]
             taken == Coalesced(rest, value)
  <2>1. /\ item \in Items /\ Tail(v.queue) \in Seq(Items)
        /\ Pipe(first, Tail(v.queue), d) /\ Pipe(value.data, Tail(v.queue), d)
        /\ IsPrefix(first, value.data)
    BY <1>1, <1>2, <1>4, PipeTaken
  <2>2. value \in Snapshots /\ value.data \in Data /\ item.valueRevision \in Nat
    BY <2>1 DEF Items, Snapshots
  <2>3. /\ rest \in Shapes /\ rest.queue = Tail(v.queue) /\ rest.shown = v.shown /\ rest.held = v.held
        /\ rest.timer = v.timer /\ rest.seenLive = v.seenLive
    BY <2>1 DEF Shapes
  <2>4. IsPrefix(value.data, value.data) /\ IsPrefix(value.data, d) /\ IsPrefix(v.shown.data, value.data)
    BY <1>1, <1>2, <2>1, <2>2, PrefixOrder DEF Pipe
  <2> HIDE DEF rest, item
  <2>5. CASE item.valueRevision = v.seen
    <3>1. Latest(rest) = Latest(v) /\ (Holding(rest) <=> Holding(v))
      BY <2>3 DEF Latest, Holding
    <3>2. Onward(v, rest, d)
      BY <1>2, <2>1, <2>3, <3>1 DEF Onward, Forward
    <3>. QED
      BY <2>5, <3>2 DEF Pulled, rest, item
  <2>6. CASE item.valueRevision # v.seen
    <3>1. Pulled(v) = [taken EXCEPT !.seen = item.valueRevision]
      BY <2>6 DEF Pulled, rest, item
    <3>2. ~Holding(rest) \/ (v.seenLive /\ ~Uncoalesced)
      BY <2>3 DEF Forward, Holding
    <3>3. /\ taken \in Shapes /\ taken.queue = Tail(v.queue)
          /\ \/ taken.shown = value /\ ~taken.timer /\ taken.held = NoSnapshot
             \/ /\ taken.shown = v.shown /\ taken.timer /\ taken.held = value
                /\ taken.seenLive /\ ~Uncoalesced
      <4>1. CASE value.phase # "live"
        <5>1. taken = [rest EXCEPT !.shown = value, !.seenLive = FALSE, !.held = NoSnapshot, !.timer = FALSE]
          BY <2>3, <4>1 DEF Coalesced, Shows, Shapes
        <5>. QED
          BY <2>2, <2>3, <5>1, NoSnapshotIsOne DEF Shapes
      <4>2. CASE value.phase = "live" /\ (~rest.seenLive \/ Uncoalesced)
        <5>1. taken = [rest EXCEPT !.shown = value, !.seenLive = TRUE]
          BY <2>3, <4>2 DEF Coalesced, Shows, Shapes
        <5>2. ~rest.timer /\ rest.held = NoSnapshot
          BY <2>3, <3>2, <4>2 DEF Holding
        <5>. QED
          BY <2>2, <2>3, <5>1, <5>2 DEF Shapes
      <4>3. CASE value.phase = "live" /\ ~(~rest.seenLive \/ Uncoalesced)
        <5>1. taken = [rest EXCEPT !.held = value, !.timer = TRUE]
          BY <4>3 DEF Coalesced
        <5>. QED
          BY <2>2, <2>3, <4>3, <5>1 DEF Shapes
      <4>. QED
        BY <4>1, <4>2, <4>3
    <3> HIDE DEF taken
    <3> DEFINE w == Pulled(v)
    <3>4. /\ w \in Shapes /\ w.queue = taken.queue /\ w.shown = taken.shown /\ w.held = taken.held
          /\ w.timer = taken.timer /\ w.seenLive = taken.seenLive
      BY <2>2, <3>1, <3>3 DEF Shapes
    <3> HIDE DEF w
    <3>5. CASE taken.shown = value /\ ~taken.timer /\ taken.held = NoSnapshot
      <4>1. ~Holding(w) /\ Latest(w) = value
        BY <3>4, <3>5 DEF Holding, Latest
      <4>2. Onward(v, w, d)
        BY <2>1, <2>4, <3>3, <3>4, <3>5, <4>1 DEF Onward, Forward
      <4>. QED
        BY <4>2 DEF w
    <3>6. CASE /\ taken.shown = v.shown /\ taken.timer /\ taken.held = value
               /\ taken.seenLive /\ ~Uncoalesced
      <4>1. Holding(w) /\ Latest(w) = value
        BY <3>4, <3>6 DEF Holding, Latest
      <4>2. IsPrefix(v.shown.data, d)
        BY DEF Forward
      <4>3. Onward(v, w, d)
        BY <1>2, <2>1, <2>4, <3>3, <3>4, <3>6, <4>1, <4>2 DEF Onward, Forward
      <4>. QED
        BY <4>3 DEF w
    <3>. QED
      BY <3>3, <3>5, <3>6
  <2>. QED
    BY <2>5, <2>6
<1>. QED
  BY <1>3, <1>4

\* The listener, whatever the view.
LEMMA NotifiedOnward ==
    ASSUME ViewType, NEW v \in Shapes, NEW s \in Sessions, NEW d \in Data, Forward(v, d),
           IsPrefix(d, s.value.data)
    PROVE  Onward(v, Notified(v, s), s.value.data)
<1>1. s.value.data \in Data
  BY DEF Sessions, Snapshots
<1>2. Forward(v, s.value.data)
  BY <1>1, ForwardLater
<1>3. CASE v.state # "mounted"
  BY <1>2, <1>3, OnwardSame DEF Notified
<1>4. CASE v.state = "mounted" /\ adapter.kind = "rxjs"
  BY <1>2, <1>4, RxjsOnward DEF Notified
<1>5. CASE v.state = "mounted" /\ adapter.kind = "react"
  BY <1>2, <1>5, ReactOnward DEF Notified
<1>6. CASE v.state = "mounted" /\ adapter.kind = "effect"
  BY <1>6, EffectOnward DEF Notified
<1>. QED
  BY <1>3, <1>4, <1>5, <1>6 DEF ViewType

-----------------------------------------------------------------------------
(***************************************************************************)
(* The steps of the view and the source together.                          *)
(***************************************************************************)
\* The state of the session only grows.
LEMMA SessionRises ==
    ASSUME Kept, SourceNext
    PROVE  session' \in Sessions /\ IsPrefix(session.value.data, session'.value.data)
<1>1. session' \in Sessions
  BY SourceKept DEF Kept, States
<1>2. session.value.data \in Data /\ IsPrefix(session.value.data, session.value.data)
  BY PrefixOrder DEF Kept, States, Sessions, Snapshots
<1>3. CASE Accept
  <2>1. /\ publishing \in Seq(Updates) /\ publishing # <<>> /\ source.data \in Data /\ session \in Sessions
    BY <1>3 DEF Accept, Kept, States, Sources
  <2>2. IsPrefix(session.value.data, Head(publishing).data)
    BY <1>2, <2>1, RisingTaken DEF Kept, States, Growing
  <2>3. session'.value = session.value \/ session'.value.data = Head(publishing).data
    BY <1>3, <2>1 DEF Accept, Accepted, Sessions, Snapshots
  <2>. QED
    BY <1>1, <1>2, <2>2, <2>3
<1>4. CASE SessionLive \/ SessionEnds
  <2>1. session'.value = session.value
    BY <1>4 DEF SessionLive, SessionEnds, Kept, States, Sessions
  <2>. QED
    BY <1>1, <1>2, <2>1
<1>5. CASE UNCHANGED session
  BY <1>1, <1>2, <1>5
<1>6. SourceNext => Accept \/ SessionLive \/ SessionEnds \/ UNCHANGED session
  BY DEF SourceNext, Work, Publish, Outage, TimerFires, BatchStarts, BatchReduced, BatchFails, BarrierPasses,
         Hydrate, Open, OpenFails, Receive, Commit, Reject, Continue, LoopBreaks, LoopEnds, Finish,
         SubscriptionEnds, Retry, Close
<1>. QED
  BY <1>3, <1>4, <1>5, <1>6

Together == Kept /\ ViewIInv

LEMMA StatesStay ==
    ASSUME Kept, UNCHANGED sourceVars PROVE Kept'
BY DEF sourceVars, world, Kept, Static, PolicyType, Loop, States, Growing, Formed

LEMMA ViewSteps ==
    ASSUME Together, [Next]_vars
    PROVE  Together' /\ IsPrefix(view.shown.data, view'.shown.data)
<1> DEFINE d == session.value.data
           Good == Onward(view, view', session'.value.data)
<1>1. /\ Kept /\ ViewType /\ view \in Shapes /\ Forward(view, d) /\ session \in Sessions /\ d \in Data
      /\ IsPrefix(d, d)
  BY PrefixOrder DEF Together, ViewIInv, ViewType, Kept, States, Sessions, Snapshots
<1>a. ASSUME Kept', Good, UNCHANGED adapter
      PROVE  Together' /\ IsPrefix(view.shown.data, view'.shown.data)
  <2>1. view' \in Shapes /\ Forward(view', session'.value.data) /\ IsPrefix(view.shown.data, view'.shown.data)
    BY <1>a DEF Onward
  <2>2. Forward(view, session.value.data)'
    BY <1>a, <2>1 DEF Forward, Uncoalesced, Pipe, Latest, Holding
  <2>. QED
    BY <1>1, <1>a, <2>1, <2>2 DEF Together, ViewIInv, ViewType
<1>2. CASE UNCHANGED vars
  <2>1. Good
    BY <1>1, <1>2, OnwardSame DEF vars, sourceVars
  <2>. QED
    BY <1>1, <1>2, <1>a, <2>1, StatesStay DEF vars
<1>3. CASE Beside(SourceNext)
  <2>1. Kept' /\ session' \in Sessions /\ IsPrefix(d, session'.value.data)
    BY <1>1, <1>3, SourceKept, SessionRises DEF Beside
  <2>2. CASE session' = session /\ view' = view
    BY <1>1, <1>3, <1>a, <2>1, <2>2, OnwardSame DEF Beside
  <2>3. CASE view' = Notified(view, session')
    <3>1. Good
      BY <1>1, <2>1, <2>3, NotifiedOnward
    <3>. QED
      BY <1>3, <1>a, <2>1, <3>1 DEF Beside
  <2>. QED
    BY <1>3, <2>2, <2>3 DEF Beside
<1>b. ASSUME UNCHANGED <<sourceVars, adapter>>, Onward(view, view', d)
      PROVE  Together' /\ IsPrefix(view.shown.data, view'.shown.data)
  <2>1. Kept' /\ session' = session
    BY <1>1, <1>b, StatesStay DEF sourceVars
  <2>. QED
    BY <1>a, <1>b, <2>1
<1>4. CASE Subscribe
  <2> DEFINE m == Mounted
  <2>1. /\ m \in Shapes /\ m.shown = view.shown /\ m.held = view.held /\ m.timer = view.timer
        /\ m.queue = view.queue /\ m.count = view.count /\ m.terminal = view.terminal
        /\ m.seenLive = view.seenLive
    BY <1>1 DEF Mounted, Shapes
  <2>2. Latest(m) = Latest(view) /\ (Holding(m) <=> Holding(view))
    BY <2>1 DEF Latest, Holding
  <2>3. Forward(m, d)
    BY <1>1, <2>1, <2>2 DEF Forward
  <2>4. Onward(view, m, d)
    BY <1>1, <2>1, <2>3, ShapeParts, PrefixOrder DEF Onward
  <2> HIDE DEF m
  <2>8. m \in Shapes /\ IsPrefix(view.shown.data, m.shown.data)
    BY <2>4 DEF Onward
  <2>9. ASSUME Onward(m, view', d) PROVE Onward(view, view', d)
    BY <1>1, <2>8, <2>9, OnwardTwice
  <2>5. CASE Mount
    <3>1. view' = [m EXCEPT !.shown = session.value, !.lastPhase = session.value.phase]
      BY <2>1, <2>5 DEF Mount, Shows, StatePhase, Shapes, m
    <3>2. session.value \in Snapshots /\ session.value.phase \in Phases
      BY <1>1 DEF Sessions, Snapshots
    <3>3. view' \in Shapes /\ view'.shown = session.value /\ view'.queue = m.queue /\ view'.terminal = m.terminal
      BY <2>1, <3>1, <3>2 DEF Shapes
    <3>4. adapter.kind = "react"
      BY <2>5 DEF Mount
    <3>5. Onward(m, view', d)
      BY <1>1, <2>3, <3>3, <3>4 DEF Onward, Forward
    <3>. QED
      BY <1>4, <1>b, <2>9, <3>5 DEF Subscribe
  <2>6. CASE SubscribeValues
    <3>1. Onward(m, view', d)
      BY <1>1, <2>1, <2>3, <2>6, RxjsOnward DEF SubscribeValues, m
    <3>. QED
      BY <1>4, <1>b, <2>9, <3>1 DEF Subscribe
  <2>7. CASE StartStream
    <3>1. Onward(m, view', d)
      BY <1>1, <2>1, <2>3, <2>7, EffectOnward DEF StartStream, m
    <3>. QED
      BY <1>4, <1>b, <2>9, <3>1 DEF Subscribe
  <2>. QED
    BY <1>4, <2>5, <2>6, <2>7 DEF Subscribe
<1>5. CASE Unsubscribe
  BY <1>1, <1>5, <1>b, OverOnward DEF Unsubscribe
<1>6. CASE Due
  <2>1. Holding(view)
    BY <1>6 DEF Due, Holding
  <2>2. CASE adapter.kind = "rxjs"
    BY <1>1, <1>6, <1>b, <2>2, FlushedOnward DEF Due
  <2>3. CASE adapter.kind = "react"
    BY <1>1, <1>6, <1>b, <2>3, ReactOnward DEF Due
  <2>4. CASE adapter.kind = "effect"
    BY <1>1, <1>6, <1>b, <2>1, <2>4, PulledOnward DEF Due
  <2>. QED
    BY <1>1, <2>2, <2>3, <2>4 DEF ViewType
<1>7. CASE Pull
  <2>1. adapter.kind = "effect" /\ view.queue # <<>>
    BY <1>1, <1>7 DEF Pull, Forward
  <2>. QED
    BY <1>1, <1>7, <1>b, <2>1, PulledOnward DEF Pull
<1>8. CASE PullEnds
  <2>1. adapter.kind = "effect"
    BY <1>1, <1>8 DEF PullEnds, Forward
  <2>2. CASE view.held # NoSnapshot
    <3>1. Holding(view)
      BY <2>2 DEF Holding
    <3>. QED
      BY <1>1, <1>8, <1>b, <2>1, <2>2, <3>1, PulledOnward DEF PullEnds
  <2>3. CASE view.held = NoSnapshot
    BY <1>1, <1>8, <1>b, <2>3, OverOnward DEF PullEnds
  <2>. QED
    BY <2>2, <2>3
<1>. QED
  BY <1>2, <1>3, <1>4, <1>5, <1>6, <1>7, <1>8 DEF Next, ViewWork

LEMMA ViewStarts ==
    ASSUME Init PROVE Together
<1>1. Kept
  BY SourceStarts DEF Init
<1>2. PICK q : q = <<>> /\ q \in Seq(Items) /\ q \in Data /\ Len(q) = 0
  BY NoSnapshotIsOne
<1>3. view = [state |-> "idle", seen |-> 0, seenLive |-> FALSE, lastPhase |-> "none",
              held |-> NoSnapshot, count |-> 0, timer |-> FALSE, queue |-> q,
              terminal |-> FALSE, shown |-> NoSnapshot]
  BY <1>2 DEF Init, ViewInit
<1>4. view \in Shapes
  BY <1>2, <1>3, NoSnapshotIsOne DEF Shapes, Phases
<1>5. ViewType
  BY <1>4, ViewsAssumption DEF ViewType, Init, ViewInit, ValidQueue
<1>6. session.value.data \in Data
  BY <1>1 DEF Kept, States, Sessions, Snapshots
<1>7. NoSnapshot.data = q /\ IsPrefix(q, session.value.data) /\ IsPrefix(q, q)
  BY <1>2, <1>6, NoSnapshotIsOne, PrefixOrder
<1>8. ~Holding(view) /\ Latest(view) = NoSnapshot
  BY <1>3 DEF Holding, Latest
<1>9. Forward(view, session.value.data)
  BY <1>2, <1>3, <1>7, <1>8 DEF Forward, Pipe
<1>. QED
  BY <1>1, <1>5, <1>9 DEF Together, ViewIInv

\* Reading and showing a reducing source, for any view: what its variables hold, and
\* that updates, queues and held states are in order.
THEOREM ViewsAreTyped == Spec => []Together
<1>1. Init => Together
  BY ViewStarts
<1>2. Together /\ [Next]_vars => Together'
  BY ViewSteps
<1>. QED
  BY <1>1, <1>2, PTL DEF Spec

\* What observeNatsJetStreamState(), useNatsJetStreamReducer() and jetStreamState() show
\* never goes back.
THEOREM ShownNeverGoesBack == Spec => NeverBack
<1>1. Together /\ [Next]_vars => [IsPrefix(view.shown.data, view'.shown.data)]_view
  BY ViewSteps
<1>. QED
  BY <1>1, ViewsAreTyped, PTL DEF Spec, NeverBack

-----------------------------------------------------------------------------
(***************************************************************************)
(* What the batcher holds.                                                 *)
(***************************************************************************)
\* A run lies between its first and its last message.
LEMMA RunBounds ==
    ASSUME NEW items \in Data, Run(items), items # <<>>
    PROVE  /\ Len(items) \in Nat \ {0} /\ items[1] \in Nat /\ items[Len(items)] \in Nat
           /\ items[Len(items)] = items[1] + Len(items) - 1
           /\ \A x \in Nat : (\E k \in 1 .. Len(items) : items[k] = x)
                             <=> items[1] <= x /\ x <= items[Len(items)]
<1>1. Len(items) \in Nat \ {0} /\ \A k \in 1 .. Len(items) : items[k] \in Nat
  BY EmptySeq, ElementOfSeq DEF Data
<1>2. items[Len(items)] = items[1] + Len(items) - 1 /\ items[1] \in Nat /\ items[Len(items)] \in Nat
  BY <1>1 DEF Run
<1>3. ASSUME NEW x \in Nat, items[1] <= x, x <= items[Len(items)]
      PROVE  \E k \in 1 .. Len(items) : items[k] = x
  <2>1. x - items[1] + 1 \in 1 .. Len(items)
    BY <1>1, <1>2, <1>3
  <2>2. items[x - items[1] + 1] = x
    BY <1>2, <2>1 DEF Run
  <2>. QED
    BY <2>1, <2>2
<1>4. ASSUME NEW k \in 1 .. Len(items) PROVE items[1] <= items[k] /\ items[k] <= items[Len(items)]
  BY <1>1, <1>2 DEF Run
<1>. QED
  BY <1>1, <1>2, <1>3, <1>4

\* The messages of a batcher are natural numbers.
LEMMA ItemsTyped ==
    ASSUME NEW b \in Batchers
    PROVE  /\ b.pending \in Data /\ b.chain \in Seq(Links)
           /\ Len(b.pending) \in Nat /\ Len(b.chain) \in Nat
           /\ \A k \in 1 .. Len(b.pending) : b.pending[k] \in Nat
           /\ \A i \in 1 .. Len(b.chain) :
                 /\ b.chain[i] \in Links /\ b.chain[i].items \in Data /\ Len(b.chain[i].items) \in Nat
                 /\ \A k \in 1 .. Len(b.chain[i].items) : b.chain[i].items[k] \in Nat
<1>1. b.pending \in Data /\ b.chain \in Seq(Links)
  BY DEF Batchers
<1>2. \A d \in Data : Len(d) \in Nat /\ \A k \in 1 .. Len(d) : d[k] \in Nat
  BY ElementOfSeq DEF Data
<1>3. \A i \in 1 .. Len(b.chain) : b.chain[i] \in Links
  BY <1>1, ElementOfSeq
<1>4. \A l \in Links : l.items \in Data
  BY DEF Links
<1>. QED
  BY <1>1, <1>2, <1>3, <1>4

SameItems(b, c) ==
    /\ c.pending = b.pending /\ Len(c.chain) = Len(b.chain)
    /\ \A i \in 1 .. Len(b.chain) :
          c.chain[i].items = b.chain[i].items /\ c.chain[i].kind = b.chain[i].kind

LEMMA SameHolds ==
    ASSUME NEW b \in Batchers, NEW c \in Batchers, SameItems(b, c)
    PROVE  /\ Ordered(b) => Ordered(c)
           /\ \A m : Holds(c, m) <=> Holds(b, m)
           /\ Barriers(c.chain) = Barriers(b.chain)
           /\ Single(b) => Single(c)
<1>1. Ordered(b) => Ordered(c)
  BY DEF SameItems, Ordered
<1>2. \A m : Holds(c, m) <=> Holds(b, m)
  BY DEF SameItems, Holds
<1>3. Barriers(c.chain) = Barriers(b.chain)
  BY DEF SameItems, Barriers
<1>4. b.chain \in Seq(Links) /\ c.chain \in Seq(Links)
  BY DEF Batchers
<1>5. \A s \in Seq(Links) : s = <<>> <=> Len(s) = 0
  BY EmptySeq
<1>6. ASSUME Single(b) PROVE Single(c)
  BY <1>3, <1>4, <1>5, <1>6 DEF SameItems, Single
<1>. QED
  BY <1>1, <1>2, <1>3, <1>6

\* A batcher that has only got new links, none of them started.
Continues(b, c) ==
    /\ Len(b.chain) <= Len(c.chain)
    /\ \A i \in 1 .. Len(b.chain) : c.chain[i] = b.chain[i]
    /\ \A i \in 1 .. Len(c.chain) : i > Len(b.chain) => c.chain[i].stage = "queued"

\* A new link: a barrier, or the partial batch.
LEMMA AppendedHolds ==
    ASSUME NEW b \in Batchers, NEW c \in Batchers, Ordered(b), NEW l \in Links,
           c.chain = Append(b.chain, l), l.stage = "queued",
           \/ c.pending = b.pending /\ l.kind = "barrier" /\ l.items = <<>>
           \/ c.pending = <<>> /\ l.kind = "batch" /\ l.items = b.pending /\ b.pending # <<>>
    PROVE  /\ Ordered(c) /\ Continues(b, c)
           /\ \A x : Holds(c, x) <=> Holds(b, x)
           /\ Len(c.chain) = Len(b.chain) + 1 /\ c.chain[Len(b.chain) + 1] = l
           /\ Barriers(c.chain) = Barriers(b.chain) \cup
                                  (IF l.kind = "barrier" THEN {Len(b.chain) + 1} ELSE {})
<1> DEFINE n == Len(b.chain)
<1>1. /\ Len(c.chain) = n + 1 /\ n \in Nat /\ c.chain[n + 1] = l
      /\ \A i \in 1 .. n : c.chain[i] = b.chain[i]
  BY ItemsTyped, AppendProperties
<1>2. Continues(b, c)
  BY <1>1 DEF Continues
<1>3. Barriers(c.chain) = Barriers(b.chain) \cup (IF l.kind = "barrier" THEN {n + 1} ELSE {})
  BY <1>1 DEF Barriers
<1>4. \A x : Holds(c, x) <=> Holds(b, x)
  <2> SUFFICES ASSUME NEW x PROVE Holds(c, x) <=> Holds(b, x)
    OBVIOUS
  <2> DEFINE InChain(d) == \E i \in 1 .. Len(d.chain) :
                              \E k \in 1 .. Len(d.chain[i].items) : d.chain[i].items[k] = x
             InPart(s) == \E k \in 1 .. Len(s) : s[k] = x
  <2>1. InChain(c) <=> InChain(b) \/ InPart(l.items)
    <3>1. ASSUME NEW i \in 1 .. n, NEW k \in 1 .. Len(b.chain[i].items), b.chain[i].items[k] = x
          PROVE  InChain(c)
      <4>1. i \in 1 .. Len(c.chain) /\ c.chain[i] = b.chain[i]
        BY <1>1
      <4>. QED
        BY <3>1, <4>1
    <3>2. ASSUME InPart(l.items) PROVE InChain(c)
      <4>1. n + 1 \in 1 .. Len(c.chain)
        BY <1>1
      <4>. QED
        BY <1>1, <3>2, <4>1
    <3>3. ASSUME NEW i \in 1 .. Len(c.chain), NEW k \in 1 .. Len(c.chain[i].items), c.chain[i].items[k] = x
          PROVE  InChain(b) \/ InPart(l.items)
      <4>1. CASE i = n + 1
        BY <1>1, <3>3, <4>1
      <4>2. CASE i # n + 1
        <5>1. i \in 1 .. n /\ c.chain[i] = b.chain[i]
          BY <1>1, <4>2
        <5>. QED
          BY <3>3, <5>1
      <4>. QED
        BY <4>1, <4>2
    <3>. QED
      BY <3>1, <3>2, <3>3
  <2>2. ~InPart(<<>>)
    BY EmptySeq
  <2>. QED
    BY <2>1, <2>2 DEF Holds
<1>5. Ordered(c)
  <2>1. Run(<<>>) /\ Len(<<>>) = 0
    BY DEF Run
  <2>2. Run(c.pending) /\ Run(l.items) /\ (l.kind = "barrier" <=> l.items = <<>>)
    BY <2>1 DEF Ordered
  <2>3. \A i \in 1 .. n + 1 : Run(c.chain[i].items) /\ (c.chain[i].kind = "barrier" <=> c.chain[i].items = <<>>)
    BY <1>1, <2>2 DEF Ordered
  <2>4. ASSUME NEW i \in 1 .. n + 1, NEW k \in 1 .. Len(c.chain[i].items), NEW j \in 1 .. Len(c.pending)
        PROVE  c.chain[i].items[k] < c.pending[j]
    <3>1. c.pending = b.pending /\ l.items = <<>>
      BY <2>1, <2>4
    <3>2. i \in 1 .. n /\ c.chain[i] = b.chain[i]
      BY <1>1, <2>1, <2>4, <3>1
    <3>. QED
      BY <2>4, <3>1, <3>2 DEF Ordered
  <2>5. ASSUME NEW i \in 1 .. n + 1, NEW j \in 1 .. n + 1, i < j,
               NEW k \in 1 .. Len(c.chain[i].items), NEW h \in 1 .. Len(c.chain[j].items)
        PROVE  c.chain[i].items[k] < c.chain[j].items[h]
    <3>1. i \in 1 .. n /\ c.chain[i] = b.chain[i]
      BY <1>1, <2>5
    <3>2. CASE j \in 1 .. n
      BY <1>1, <2>5, <3>1, <3>2 DEF Ordered
    <3>3. CASE j = n + 1
      BY <1>1, <2>1, <2>5, <3>1, <3>3 DEF Ordered
    <3>. QED
      BY <3>2, <3>3, <1>1
  <2>. QED
    BY <1>1, <2>2, <2>3, <2>4, <2>5 DEF Ordered
<1>. QED
  BY <1>1, <1>2, <1>3, <1>4, <1>5

LEMMA ContinuesOn ==
    /\ \A b \in Batchers : Continues(b, b)
    /\ \A b, c, e \in Batchers : Continues(b, c) /\ Continues(c, e) => Continues(b, e)
<1>1. \A b \in Batchers : Len(b.chain) \in Nat
  BY ItemsTyped
<1>. QED
  BY <1>1 DEF Continues

\* drain().
LEMMA DrainedHolds ==
    ASSUME NEW b, NEW d, Formed(b, d), Ordered(b)
    PROVE  LET c == Drained(b) IN
           /\ c \in Batchers /\ Ordered(c) /\ Continues(b, c)
           /\ \A x : Holds(c, x) <=> Holds(b, x)
           /\ Barriers(c.chain) = Barriers(b.chain)
           /\ c.cancelled = b.cancelled
           /\ b.pending = <<>> \/ b.cancelled => c = b
           /\ b.pending # <<>> /\ ~b.cancelled =>
                 /\ c.pending = <<>> /\ Len(c.chain) = Len(b.chain) + 1
                 /\ c.chain[Len(b.chain) + 1] = Batch(b.pending)
<1> DEFINE c == Drained(b)
<1>1. b \in Batchers /\ c \in Batchers /\ b.pending \in Data
  BY DrainedFormed, ItemsTyped DEF Formed
<1>2. CASE b.pending = <<>> \/ b.cancelled
  <2>1. c = b
    BY <1>2 DEF Drained
  <2>. QED
    BY <1>1, <1>2, <2>1, ContinuesOn
<1>3. CASE ~(b.pending = <<>> \/ b.cancelled)
  <2> DEFINE l == Batch(b.pending)
  <2>1. /\ c.chain = Append(b.chain, l) /\ c.pending = <<>> /\ c.cancelled = b.cancelled
    BY <1>1, <1>3 DEF Drained, Batchers
  <2>2. l \in Links /\ l.stage = "queued" /\ l.kind = "batch" /\ l.items = b.pending
    BY <1>1, <1>3, NewLinks DEF Batch
  <2> HIDE DEF l, c
  <2>3. /\ Ordered(c) /\ Continues(b, c)
        /\ \A x : Holds(c, x) <=> Holds(b, x)
        /\ Len(c.chain) = Len(b.chain) + 1 /\ c.chain[Len(b.chain) + 1] = l
        /\ Barriers(c.chain) = Barriers(b.chain) \cup (IF l.kind = "barrier" THEN {Len(b.chain) + 1} ELSE {})
    <3>1. c.pending = <<>> /\ l.kind = "batch" /\ l.items = b.pending /\ b.pending # <<>>
      BY <1>3, <2>1, <2>2
    <3>. QED
      BY <1>1, <2>1, <2>2, <3>1, AppendedHolds
  <2>. QED
    BY <1>1, <1>3, <2>1, <2>2, <2>3 DEF c, l
<1>. QED
  BY <1>2, <1>3

LEMMA BarrierHolds ==
    ASSUME NEW b, NEW d, Formed(b, d), Ordered(b), NEW m \in Nat
    PROVE  LET c == BarrierAfter(b, m) IN
           /\ c \in Batchers /\ Ordered(c) /\ Continues(b, c)
           /\ \A x : Holds(c, x) <=> Holds(b, x)
           /\ Barriers(c.chain) = Barriers(b.chain) \cup {Len(b.chain) + 1}
           /\ Len(c.chain) = Len(b.chain) + 1 /\ c.chain[Len(b.chain) + 1] = Barrier(m)
           /\ c.cancelled = b.cancelled /\ c.pending = b.pending
<1> DEFINE c == BarrierAfter(b, m)
           l == Barrier(m)
<1>1. b \in Batchers /\ c \in Batchers
  BY BarrierFormed DEF Formed
<1>2. c.chain = Append(b.chain, l) /\ c.pending = b.pending /\ c.cancelled = b.cancelled
  BY <1>1 DEF BarrierAfter, Batchers
<1>3. l \in Links /\ l.stage = "queued" /\ l.kind = "barrier" /\ l.items = <<>>
  BY NewLinks DEF Barrier
<1> HIDE DEF l, c
<1>4. PICK e \in Batchers : e = c
  BY <1>1
<1>5. PICK k \in Links : k = l
  BY <1>3
<1>6. /\ Ordered(e) /\ Continues(b, e)
      /\ \A x : Holds(e, x) <=> Holds(b, x)
      /\ Len(e.chain) = Len(b.chain) + 1 /\ e.chain[Len(b.chain) + 1] = k
      /\ Barriers(e.chain) = Barriers(b.chain) \cup (IF k.kind = "barrier" THEN {Len(b.chain) + 1} ELSE {})
  BY <1>1, <1>2, <1>3, <1>4, <1>5, AppendedHolds
<1>. QED
  BY <1>1, <1>2, <1>3, <1>4, <1>5, <1>6 DEF c, l

\* add() of a message that comes after all that is held.
Next1(b, m) ==
    /\ ~b.cancelled
    /\ \A x \in Nat : Holds(b, x) => x < m
    /\ b.pending # <<>> => b.pending[Len(b.pending)] = m - 1

\* One more message at the end of a run.
LEMMA RunGrows ==
    ASSUME NEW s \in Data, NEW m \in Nat, Run(s), s # <<>> => s[Len(s)] = m - 1
    PROVE  LET t == Append(s, m) IN
           /\ Run(t) /\ t # <<>> /\ t[Len(t)] = m /\ Len(t) = Len(s) + 1 /\ Len(s) \in Nat
           /\ \A i \in 1 .. Len(s) : t[i] = s[i]
           /\ \A x : (\E k \in 1 .. Len(t) : t[k] = x) <=> (\E k \in 1 .. Len(s) : s[k] = x) \/ x = m
<1>1. PICK n \in Nat : n = Len(s)
  BY DEF Data
<1>2. \A k \in 1 .. n : s[k] \in Nat
  BY <1>1, ElementOfSeq DEF Data
<1>3. PICK t : t = Append(s, m)
  OBVIOUS
<1>4. Len(t) = n + 1 /\ t[n + 1] = m /\ \A i \in 1 .. n : t[i] = s[i]
  BY <1>1, <1>3, AppendProperties DEF Data
<1>5. t # <<>>
  BY <1>1, <1>4
<1>6. \A x : (\E k \in 1 .. Len(t) : t[k] = x) <=> (\E k \in 1 .. n : s[k] = x) \/ x = m
  BY <1>1, <1>4
<1>7. Run(t)
  <2>1. CASE n = 0
    BY <1>4, <2>1 DEF Run
  <2>2. CASE n # 0
    <3>1. s # <<>> /\ n \in 1 .. n /\ 1 \in 1 .. n
      BY <1>1, <2>2
    <3>2. s[n] = s[1] + n - 1 /\ s[n] = m - 1 /\ s[1] \in Nat
      BY <1>1, <1>2, <3>1 DEF Run
    <3>3. m = s[1] + n
      BY <3>2
    <3>4. t[1] = s[1]
      BY <1>4, <3>1
    <3>5. ASSUME NEW k \in 1 .. n + 1 PROVE t[k] = t[1] + k - 1
      <4>1. CASE k \in 1 .. n
        BY <1>1, <1>4, <3>4, <4>1 DEF Run
      <4>2. CASE k = n + 1
        BY <1>4, <3>2, <3>3, <3>4, <4>2
      <4>. QED
        BY <4>1, <4>2
    <3>. QED
      BY <1>4, <3>5 DEF Run
  <2>. QED
    BY <2>1, <2>2
<1>. QED
  BY <1>1, <1>3, <1>4, <1>5, <1>6, <1>7

LEMMA PendingGrows ==
    ASSUME NEW b \in Batchers, NEW m \in Nat, Ordered(b), Next1(b, m), NEW c \in Batchers,
           c.chain = b.chain, c.pending = Append(b.pending, m)
    PROVE  /\ Ordered(c) /\ Continues(b, c)
           /\ \A x : Holds(c, x) <=> Holds(b, x) \/ x = m
           /\ c.pending # <<>> /\ c.pending[Len(c.pending)] = m
<1> DEFINE n == Len(b.pending)
<1>1. /\ Run(c.pending) /\ c.pending # <<>> /\ c.pending[Len(c.pending)] = m
      /\ Len(c.pending) = n + 1 /\ n \in Nat
      /\ \A i \in 1 .. n : c.pending[i] = b.pending[i]
      /\ \A x : (\E k \in 1 .. Len(c.pending) : c.pending[k] = x)
                <=> (\E k \in 1 .. n : b.pending[k] = x) \/ x = m
  BY ItemsTyped, RunGrows DEF Ordered, Next1
<1>2. Continues(b, c)
  BY ItemsTyped DEF Continues
<1>3. \A x : Holds(c, x) <=> Holds(b, x) \/ x = m
  BY <1>1 DEF Holds
<1>5. \A i \in 1 .. Len(b.chain) : \A k \in 1 .. Len(b.chain[i].items) : b.chain[i].items[k] < m
  <2>1. ASSUME NEW i \in 1 .. Len(b.chain), NEW k \in 1 .. Len(b.chain[i].items)
        PROVE  b.chain[i].items[k] < m
    <3>1. b.chain[i].items[k] \in Nat
      BY <2>1, ItemsTyped
    <3>2. Holds(b, b.chain[i].items[k])
      BY <2>1 DEF Holds
    <3>. QED
      BY <3>1, <3>2 DEF Next1
  <2>. QED
    BY <2>1
<1>6. Ordered(c)
  <2>1. \A i \in 1 .. Len(c.chain), k \in Nat : k \in 1 .. Len(c.chain[i].items) =>
          \A l \in 1 .. Len(c.pending) : c.chain[i].items[k] < c.pending[l]
    <3>1. ASSUME NEW i \in 1 .. Len(b.chain), NEW k \in 1 .. Len(b.chain[i].items), NEW l \in 1 .. n + 1
          PROVE  b.chain[i].items[k] < c.pending[l]
      <4>1. CASE l \in 1 .. n
        BY <1>1, <3>1, <4>1 DEF Ordered
      <4>2. CASE l = n + 1
        BY <1>1, <1>5, <3>1, <4>2
      <4>. QED
        BY <1>1, <4>1, <4>2
    <3>. QED
      BY <1>1, <3>1
  <2>. QED
    BY <1>1, <2>1 DEF Ordered
<1>. QED
  BY <1>1, <1>2, <1>3, <1>6

LEMMA AddedHolds ==
    ASSUME NEW b, NEW d, Formed(b, d), Ordered(b), NEW m \in Nat, Next1(b, m), PolicyType
    PROVE  LET c == Added(b, m) IN
           /\ c \in Batchers /\ Ordered(c) /\ Continues(b, c) /\ ~c.cancelled
           /\ \A x : Holds(c, x) <=> Holds(b, x) \/ x = m
           /\ Barriers(c.chain) = Barriers(b.chain)
           /\ c.pending # <<>> => c.pending[Len(c.pending)] = m
           /\ b.pending = <<>> /\ c.pending # <<>> => c.chain = b.chain
<1> DEFINE room == IF b.pending # <<>> /\ Bytes(b.pending) + Sizes[m] > policy.maxBytes
                   THEN Drained(b) ELSE b
           held == [room EXCEPT !.pending = Append(@, m)]
           kept == [held EXCEPT !.timer = @ \/ policy.timed]
           c == Added(b, m)
<1>1. b \in Batchers
  BY DEF Formed
<1>2. /\ Formed(room, d) /\ room \in Batchers /\ Ordered(room) /\ Continues(b, room) /\ ~room.cancelled
      /\ \A x : Holds(room, x) <=> Holds(b, x)
      /\ Barriers(room.chain) = Barriers(b.chain)
      /\ room.pending # <<>> => room.pending = b.pending
      /\ b.pending = <<>> => room = b
  BY <1>1, DrainedFormed, DrainedHolds, ContinuesOn DEF Next1, Formed
<1>3. Next1(room, m)
  BY <1>2 DEF Next1
<1>4. c = IF Full(held.pending) THEN Drained(held) ELSE kept
  BY DEF Added
<1> HIDE DEF room, c
<1>5. Append(room.pending, m) \in Data /\ policy.timed \in BOOLEAN
  BY <1>2, ItemsTyped, AppendProperties DEF Data, PolicyType
<1>6. /\ held \in Batchers /\ held.chain = room.chain /\ held.pending = Append(room.pending, m)
      /\ held.cancelled = room.cancelled
  BY <1>2, <1>5 DEF Batchers
<1>7. Formed(held, d)
  BY <1>2, <1>6 DEF Formed
<1> HIDE DEF held
<1>8. /\ kept \in Batchers /\ kept.chain = held.chain /\ kept.pending = held.pending
      /\ kept.cancelled = held.cancelled
  BY <1>5, <1>6 DEF Batchers
<1> HIDE DEF kept
<1>9. /\ Ordered(held) /\ Continues(room, held)
      /\ \A x : Holds(held, x) <=> Holds(room, x) \/ x = m
      /\ held.pending # <<>> /\ held.pending[Len(held.pending)] = m
  BY <1>2, <1>3, <1>6, PendingGrows
<1>10. CASE Full(held.pending)
  <2>1. /\ c \in Batchers /\ Ordered(c) /\ Continues(held, c) /\ c.pending = <<>> /\ ~c.cancelled
        /\ \A x : Holds(c, x) <=> Holds(held, x)
        /\ Barriers(c.chain) = Barriers(held.chain)
    BY <1>2, <1>4, <1>6, <1>7, <1>9, <1>10, DrainedHolds
  <2>2. Continues(b, c)
    BY <1>1, <1>2, <1>6, <1>9, <2>1, ContinuesOn
  <2>. QED
    BY <1>2, <1>6, <1>9, <2>1, <2>2 DEF c
<1>11. CASE ~Full(held.pending)
  <2>0. c = kept
    BY <1>4, <1>11
  <2>1. SameItems(held, kept) /\ Continues(held, kept)
    BY <1>6, <1>8, ContinuesOn DEF SameItems, Continues
  <2>2. /\ c \in Batchers /\ Ordered(c) /\ ~c.cancelled
        /\ \A x : Holds(c, x) <=> Holds(held, x)
        /\ Barriers(c.chain) = Barriers(held.chain)
    BY <1>2, <1>6, <1>8, <1>9, <2>0, <2>1, SameHolds
  <2>3. Continues(b, c)
    BY <1>1, <1>2, <1>6, <1>8, <1>9, <2>0, <2>1, ContinuesOn
  <2>. QED
    BY <1>2, <1>6, <1>8, <1>9, <2>0, <2>2, <2>3 DEF c
<1>. QED
  BY <1>10, <1>11

-----------------------------------------------------------------------------
\* The first link leaves.
LEMMA PoppedHolds ==
    ASSUME NEW b \in Batchers, Ordered(b), b.chain # <<>>, NEW c \in Batchers,
           c.chain = Tail(b.chain), c.pending = b.pending
    PROVE  /\ Ordered(c)
           /\ \A x : Holds(c, x) <=> Holds(b, x) /\ ~(\E k \in 1 .. Len(b.chain[1].items) : b.chain[1].items[k] = x)
           /\ \A i \in Nat : i \in Barriers(c.chain) <=> i # 0 /\ i + 1 \in Barriers(b.chain)
<1> DEFINE n == Len(c.chain)
<1>1. /\ Len(b.chain) = n + 1 /\ n \in Nat /\ \A i \in 1 .. n : c.chain[i] = b.chain[i + 1]
      /\ 1 \in 1 .. Len(b.chain)
  BY ItemsTyped, HeadTailProperties, EmptySeq
<1>2. \A i \in Nat : i \in Barriers(c.chain) <=> i # 0 /\ i + 1 \in Barriers(b.chain)
  BY <1>1 DEF Barriers
<1>3. Ordered(c)
  <2>1. ASSUME NEW i \in 1 .. n
        PROVE  /\ c.chain[i] = b.chain[i + 1] /\ i + 1 \in 1 .. Len(b.chain)
    BY <1>1
  <2>2. \A i, j \in 1 .. n : i < j => i + 1 < j + 1
    BY <1>1
  <2>. QED
    BY <2>1, <2>2 DEF Ordered
<1>4. ASSUME NEW x
      PROVE  Holds(c, x) <=> Holds(b, x) /\ ~(\E k \in 1 .. Len(b.chain[1].items) : b.chain[1].items[k] = x)
  <2> DEFINE In(i) == \E k \in 1 .. Len(b.chain[i].items) : b.chain[i].items[k] = x
             InPart == \E k \in 1 .. Len(b.pending) : b.pending[k] = x
  <2>1. Holds(b, x) <=> (\E i \in 1 .. n + 1 : In(i)) \/ InPart
    BY <1>1 DEF Holds
  <2>2. Holds(c, x) <=> (\E i \in 1 .. n : In(i + 1)) \/ InPart
    BY <1>1 DEF Holds
  <2>3. In(1) => ~InPart
    <3>1. ASSUME NEW k \in 1 .. Len(b.chain[1].items), NEW l \in 1 .. Len(b.pending)
          PROVE  b.chain[1].items[k] < b.pending[l] /\ b.chain[1].items[k] \in Nat
      BY <1>1, <3>1, ItemsTyped DEF Ordered
    <3>. QED
      BY <3>1
  <2>4. \A i \in 1 .. n : ~(In(1) /\ In(i + 1))
    <3>1. ASSUME NEW i \in 1 .. n, NEW k \in 1 .. Len(b.chain[1].items),
                 NEW l \in 1 .. Len(b.chain[i + 1].items)
          PROVE  b.chain[1].items[k] < b.chain[i + 1].items[l] /\ b.chain[1].items[k] \in Nat
      <4>1. i + 1 \in 1 .. Len(b.chain) /\ 1 < i + 1
        BY <1>1
      <4>. QED
        BY <1>1, <3>1, <4>1, ItemsTyped DEF Ordered
    <3>. QED
      BY <3>1
  <2>5. (\E i \in 1 .. n + 1 : In(i)) <=> In(1) \/ \E i \in 1 .. n : In(i + 1)
    <3>1. ASSUME NEW i \in 1 .. n + 1, In(i) PROVE In(1) \/ \E j \in 1 .. n : In(j + 1)
      <4>1. i = 1 \/ (i - 1 \in 1 .. n /\ i - 1 + 1 = i)
        BY <1>1
      <4>. QED
        BY <3>1, <4>1
    <3>2. \A i \in 1 .. n : i + 1 \in 1 .. n + 1
      BY <1>1
    <3>3. 1 \in 1 .. n + 1
      BY <1>1
    <3> HIDE DEF In
    <3>. QED
      BY <3>1, <3>2, <3>3
  <2> HIDE DEF InPart
  <2>. QED
    BY <2>1, <2>2, <2>3, <2>4, <2>5
<1>. QED
  BY <1>2, <1>3, <1>4

\* cancel(): the partial batch is gone.
LEMMA CancelledHolds ==
    ASSUME NEW b \in Batchers, Ordered(b), NEW c \in Batchers, c.chain = b.chain, c.pending = <<>>
    PROVE  /\ Ordered(c)
           /\ \A x : Holds(c, x) <=> Holds(b, x) /\ ~(\E k \in 1 .. Len(b.pending) : b.pending[k] = x)
<1>1. Len(<<>>) = 0 /\ Run(<<>>)
  BY DEF Run
<1>2. Ordered(c)
  BY <1>1 DEF Ordered
<1>3. ASSUME NEW x
      PROVE  Holds(c, x) <=> Holds(b, x) /\ ~(\E k \in 1 .. Len(b.pending) : b.pending[k] = x)
  <2> DEFINE In(i) == \E k \in 1 .. Len(b.chain[i].items) : b.chain[i].items[k] = x
             InPart == \E k \in 1 .. Len(b.pending) : b.pending[k] = x
  <2>1. Holds(b, x) <=> (\E i \in 1 .. Len(b.chain) : In(i)) \/ InPart
    BY DEF Holds
  <2>2. Holds(c, x) <=> \E i \in 1 .. Len(b.chain) : In(i)
    BY <1>1 DEF Holds
  <2>3. \A i \in 1 .. Len(b.chain) : ~(In(i) /\ InPart)
    <3>1. ASSUME NEW i \in 1 .. Len(b.chain), NEW k \in 1 .. Len(b.chain[i].items), NEW l \in 1 .. Len(b.pending)
          PROVE  b.chain[i].items[k] < b.pending[l] /\ b.chain[i].items[k] \in Nat
      BY <3>1, ItemsTyped DEF Ordered
    <3>. QED
      BY <3>1
  <2> HIDE DEF In, InPart
  <2>4. Holds(c, x) <=> Holds(b, x) /\ ~InPart
    BY <2>1, <2>2, <2>3
  <2>. QED
    BY <2>4 DEF InPart
<1>. QED
  BY <1>2, <1>3

-----------------------------------------------------------------------------
(***************************************************************************)
(* The deliveries in line with the batcher.                                *)
(***************************************************************************)
LEMMA LinedFacts ==
    ASSUME NEW a \in Seq(Apps), NEW n \in Nat, NEW b, Lined(a, n, b)
    PROVE  /\ Len(a) \in Nat /\ \A i \in 1 .. Len(a) : a[i] \in Apps /\ a[i].at \in Nat /\ a[i].at >= 1 /\ a[i].at <= n
           /\ \A i \in 1 .. Len(a) : a[i].at = n - Len(a) + i
           /\ \A i, j \in 1 .. Len(a) : i < j <=> a[i].at < a[j].at
           /\ a # <<>> => Len(a) \in 1 .. Len(a) /\ 1 \in 1 .. Len(a) /\ a[Len(a)].at = n
           /\ Len(a) = 0 <=> a = <<>>
           /\ \A x \in Nat : Holds(b, x) => x >= 1 /\ x <= n
<1>1. Len(a) \in Nat /\ (Len(a) = 0 <=> a = <<>>) /\ \A i \in 1 .. Len(a) : a[i] \in Apps
  BY EmptySeq, ElementOfSeq
<1>2. \A i \in 1 .. Len(a) : a[i].at = n - Len(a) + i /\ a[i].at \in Nat
  BY <1>1 DEF Lined, Apps
<1>3. Len(a) <= n
  BY DEF Lined
<1>4. \A i \in 1 .. Len(a) : a[i].at >= 1 /\ a[i].at <= n
  BY <1>1, <1>2, <1>3
<1>5. \A i, j \in 1 .. Len(a) : i < j <=> a[i].at < a[j].at
  BY <1>1, <1>2
<1>6. a # <<>> => Len(a) \in 1 .. Len(a) /\ 1 \in 1 .. Len(a) /\ a[Len(a)].at = n
  BY <1>1, <1>2
<1>7. \A x \in Nat : Holds(b, x) => x >= 1 /\ x <= n
  BY <1>4 DEF Lined
<1>. QED
  BY <1>1, <1>2, <1>4, <1>5, <1>6, <1>7

LEMMA LinedSame ==
    ASSUME NEW a \in Seq(Apps), NEW n \in Nat, NEW b \in Batchers, NEW c \in Batchers, Lined(a, n, b), Ordered(c),
           \A x : Holds(c, x) <=> Holds(b, x),
           c.pending # <<>> => c.pending = b.pending, c.cancelled => c.pending = <<>>
    PROVE  Lined(a, n, c)
BY DEF Lined

LEMMA LinedShrinks ==
    ASSUME NEW a \in Seq(Apps), NEW n \in Nat, NEW b, Lined(a, n, b),
           a # <<>>, Head(a).handled # "waiting"
    PROVE  /\ Lined(Tail(a), n, b) /\ Tail(a) \in Seq(Apps) /\ Len(Tail(a)) = Len(a) - 1 /\ Head(a) = a[1]
           /\ \A i \in 1 .. Len(Tail(a)) : Tail(a)[i] = a[i + 1] /\ i + 1 \in 1 .. Len(a)
<1> DEFINE t == Tail(a)
<1>1. /\ t \in Seq(Apps) /\ Len(t) = Len(a) - 1 /\ \A i \in 1 .. Len(t) : t[i] = a[i + 1]
  BY HeadTailProperties
<1>2. Len(a) \in Nat \ {0} /\ Head(a) = a[1] /\ 1 \in 1 .. Len(a) /\ Len(t) \in Nat
  BY <1>1, EmptySeq
<1>3. \A i \in 1 .. Len(t) : i + 1 \in 1 .. Len(a)
  BY <1>1, <1>2
<1> HIDE DEF t
<1>4. \A i \in 1 .. Len(t) : t[i].at = n - Len(t) + i
  <2>1. ASSUME NEW i \in 1 .. Len(t) PROVE t[i].at = n - Len(t) + i
    <3>1. a[i + 1].at = n - Len(a) + (i + 1)
      BY <1>3 DEF Lined
    <3>. QED
      BY <1>1, <1>2, <3>1
  <2>. QED
    BY <2>1
<1>5. ASSUME NEW i \in 1 .. Len(t) PROVE t[i].handled = "waiting" <=> Holds(b, t[i].at)
  <2>1. t[i] = a[i + 1] /\ i + 1 \in 1 .. Len(a)
    BY <1>1, <1>3
  <2>2. a[i + 1].handled = "waiting" <=> Holds(b, a[i + 1].at)
    BY <2>1 DEF Lined
  <2>. QED
    BY <2>1, <2>2
<1>6. ASSUME NEW m \in Nat, Holds(b, m) PROVE \E i \in 1 .. Len(t) : t[i].at = m
  <2>1. PICK i \in 1 .. Len(a) : a[i].at = m
    BY <1>6 DEF Lined
  <2>2. i # 1
    BY <1>2, <1>6, <2>1 DEF Lined
  <2>3. i - 1 \in 1 .. Len(t) /\ (i - 1) + 1 = i
    BY <1>1, <1>2, <2>2
  <2>. QED
    BY <1>1, <2>1, <2>3
<1>7. Len(t) <= n
  BY <1>1, <1>2 DEF Lined
<1>8. Lined(t, n, b)
  BY <1>4, <1>5, <1>6, <1>7 DEF Lined
<1>. QED
  BY <1>1, <1>2, <1>3, <1>8 DEF t

LEMMA LinedGrows ==
    ASSUME NEW a \in Seq(Apps), NEW n \in Nat, NEW b \in Batchers, Lined(a, n, b),
           NEW app \in Apps, app.at = n + 1, NEW c \in Batchers, Ordered(c),
           \A x : Holds(c, x) <=> Holds(b, x) \/ (app.handled = "waiting" /\ x = n + 1),
           c.pending # <<>> => c.pending[Len(c.pending)] = n + 1, c.cancelled => c.pending = <<>>
    PROVE  /\ Lined(Append(a, app), n + 1, c) /\ Len(Append(a, app)) = Len(a) + 1
           /\ Append(a, app)[Len(a) + 1] = app
           /\ \A i \in 1 .. Len(a) : Append(a, app)[i] = a[i]
<1> DEFINE t == Append(a, app)
<1>1. /\ Len(t) = Len(a) + 1 /\ Len(a) \in Nat /\ t[Len(a) + 1] = app
      /\ \A i \in 1 .. Len(a) : t[i] = a[i]
  BY AppendProperties
<1> HIDE DEF t
<1>2. \A i \in 1 .. Len(a) : a[i].at = n - Len(a) + i /\ a[i].at <= n /\ a[i].at \in Nat
  BY LinedFacts
<1>3. \A x \in Nat : Holds(b, x) => x <= n
  BY LinedFacts
<1>4. ASSUME NEW i \in 1 .. Len(t)
      PROVE  t[i].at = n + 1 - Len(t) + i /\ (t[i].handled = "waiting" <=> Holds(c, t[i].at))
  <2>1. CASE i \in 1 .. Len(a)
    <3>1. t[i] = a[i] /\ a[i].at # n + 1
      BY <1>1, <1>2, <2>1
    <3>2. t[i].handled = "waiting" <=> Holds(c, t[i].at)
      BY <2>1, <3>1 DEF Lined
    <3>. QED
      BY <1>1, <1>2, <2>1, <3>1, <3>2
  <2>2. CASE i = Len(a) + 1
    <3>1. ~Holds(b, n + 1)
      BY <1>3
    <3>. QED
      BY <1>1, <2>2, <3>1
  <2>. QED
    BY <1>1, <2>1, <2>2
<1>5. ASSUME NEW m \in Nat, Holds(c, m) PROVE \E i \in 1 .. Len(t) : t[i].at = m
  <2>1. CASE Holds(b, m)
    <3>1. PICK i \in 1 .. Len(a) : a[i].at = m
      BY <2>1 DEF Lined
    <3>2. i \in 1 .. Len(t) /\ t[i] = a[i]
      BY <1>1
    <3>. QED
      BY <3>1, <3>2
  <2>2. CASE m = n + 1
    <3>1. Len(a) + 1 \in 1 .. Len(t)
      BY <1>1
    <3>. QED
      BY <1>1, <2>2, <3>1
  <2>. QED
    BY <1>5, <2>1, <2>2
<1>6. Len(t) <= n + 1
  BY <1>1 DEF Lined
<1>7. Lined(t, n + 1, c)
  BY <1>4, <1>5, <1>6 DEF Lined
<1>. QED
  BY <1>1, <1>7 DEF t

\* The deliveries of `items` leave the batcher and have an outcome.
HandledAs(a, h, items, o) ==
    /\ h \in Seq(Apps) /\ Len(h) = Len(a)
    /\ \A i \in 1 .. Len(a) :
          /\ h[i].at = a[i].at
          /\ h[i].handled = IF \E k \in 1 .. Len(items) : items[k] = a[i].at THEN o ELSE a[i].handled

LEMMA LinedHandled ==
    ASSUME NEW a \in Seq(Apps), NEW n \in Nat, NEW b \in Batchers, Lined(a, n, b), NEW items,
           NEW o \in {"done", "failed"}, NEW h, HandledAs(a, h, items, o),
           NEW c \in Batchers, Ordered(c),
           \A x : Holds(c, x) <=> Holds(b, x) /\ ~(\E k \in 1 .. Len(items) : items[k] = x),
           c.pending # <<>> => c.pending = b.pending, c.cancelled => c.pending = <<>>
    PROVE  Lined(h, n, c)
<1>1. \A i \in 1 .. Len(h) : h[i].at = a[i].at
  BY DEF HandledAs
<1>2. ASSUME NEW i \in 1 .. Len(h) PROVE h[i].handled = "waiting" <=> Holds(c, h[i].at)
  <2>1. i \in 1 .. Len(a) /\ h[i].at = a[i].at
    BY <1>1, <1>2 DEF HandledAs
  <2>2. h[i].handled = IF \E k \in 1 .. Len(items) : items[k] = a[i].at THEN o ELSE a[i].handled
    BY <2>1 DEF HandledAs
  <2>3. a[i].handled = "waiting" <=> Holds(b, a[i].at)
    BY <2>1 DEF Lined
  <2>4. Holds(c, a[i].at) <=> Holds(b, a[i].at) /\ ~(\E k \in 1 .. Len(items) : items[k] = a[i].at)
    OBVIOUS
  <2>. QED
    BY <2>1, <2>2, <2>3, <2>4
<1>3. Len(h) = Len(a)
  BY DEF HandledAs
<1>. QED
  BY <1>1, <1>2, <1>3 DEF Lined

-----------------------------------------------------------------------------
(***************************************************************************)
(* The state as a run of messages.                                         *)
(***************************************************************************)
LEMMA UptoIs ==
    ASSUME NEW n \in Nat
    PROVE  Upto(n) \in Data /\ Len(Upto(n)) = n /\ \A i \in 1 .. n : Upto(n)[i] = i
<1>1. Upto(n) \in [1 .. n -> Nat]
  BY DEF Upto
<1>2. Upto(n) \in Seq(Nat) /\ Len(Upto(n)) = n
  BY <1>1
<1>3. \A i \in 1 .. n : Upto(n)[i] = i
  BY DEF Upto
<1>. QED
  BY <1>2, <1>3 DEF Data

\* The next run of messages joins the state.
LEMMA UptoGrows ==
    ASSUME NEW d \in Data, d = Upto(Len(d)), NEW items \in Data, Run(items), items # <<>>,
           items[1] = Len(d) + 1
    PROVE  /\ d \o items \in Data /\ Len(d \o items) = items[Len(items)]
           /\ d \o items = Upto(Len(d \o items))
<1>1. PICK n \in Nat : n = Len(d)
  BY DEF Data
<1>2. PICK k \in Nat \ {0} : k = Len(items)
  BY RunBounds
<1>3. items[k] = n + k
  <2>1. items[k] = items[1] + k - 1
    BY <1>2, RunBounds
  <2>2. items[1] = n + 1
    BY <1>1
  <2>. QED
    BY <2>1, <2>2
<1>4. PICK e \in Data : e = d \o items
  BY PrefixOrder
<1>5. /\ Len(e) = n + k
      /\ \A i \in 1 .. n + k : e[i] = IF i <= n THEN d[i] ELSE items[i - n]
  BY <1>1, <1>2, <1>4, ConcatProperties DEF Data
<1>6. \A i \in 1 .. n : d[i] = i
  BY <1>1, UptoIs
<1>7. ASSUME NEW i \in 1 .. n + k PROVE e[i] = i
  <2>1. CASE i <= n
    BY <1>5, <1>6, <2>1
  <2>2. CASE ~(i <= n)
    <3>1. i - n \in 1 .. k
      BY <2>2
    <3>2. items[i - n] = items[1] + (i - n) - 1
      BY <1>2, <3>1 DEF Run
    <3>. QED
      BY <1>1, <1>5, <2>2, <3>2
  <2>. QED
    BY <2>1, <2>2
<1>8. e = Upto(n + k)
  <2>1. Upto(n + k) \in Data /\ Len(Upto(n + k)) = n + k /\ \A i \in 1 .. n + k : Upto(n + k)[i] = i
    BY UptoIs
  <2>. QED
    BY <1>4, <1>5, <1>7, <2>1, SeqEqual DEF Data
<1>. QED
  BY <1>2, <1>3, <1>4, <1>5, <1>8

-----------------------------------------------------------------------------
(***************************************************************************)
(* The first link.                                                         *)
(***************************************************************************)
LEMMA FirstHolds ==
    ASSUME NEW b \in Batchers, Ordered(b), b.chain # <<>>, NEW it, it = b.chain[1].items, it # <<>>
    PROVE  /\ it \in Data /\ Run(it) /\ Len(it) \in Nat \ {0} /\ it[1] \in Nat /\ it[Len(it)] \in Nat
           /\ it[Len(it)] = it[1] + Len(it) - 1
           /\ \A x \in Nat : (\E k \in 1 .. Len(it) : it[k] = x) <=> it[1] <= x /\ x <= it[Len(it)]
           /\ \A x \in Nat : it[1] <= x /\ x <= it[Len(it)] => Holds(b, x)
           /\ \A x \in Nat : Holds(b, x) => it[1] <= x
           /\ Single(b) => \A x \in Nat : Holds(b, x) => x <= it[Len(it)]
<1>1. Len(b.chain) \in Nat \ {0} /\ 1 \in 1 .. Len(b.chain)
  BY ItemsTyped, EmptySeq
<1>2. it \in Data /\ Run(it)
  BY <1>1, ItemsTyped DEF Ordered
<1>3. /\ Len(it) \in Nat \ {0} /\ it[1] \in Nat /\ it[Len(it)] \in Nat
      /\ it[Len(it)] = it[1] + Len(it) - 1
      /\ \A x \in Nat : (\E k \in 1 .. Len(it) : it[k] = x) <=> it[1] <= x /\ x <= it[Len(it)]
  BY <1>2, RunBounds
<1>4. \A x \in Nat : it[1] <= x /\ x <= it[Len(it)] => Holds(b, x)
  BY <1>1, <1>3 DEF Holds
<1>5. 1 \in 1 .. Len(it)
  BY <1>3
<1>6. ASSUME NEW x \in Nat, Holds(b, x) PROVE it[1] <= x
  <2>1. CASE \E k \in 1 .. Len(b.pending) : b.pending[k] = x
    BY <1>1, <1>3, <1>5, <2>1 DEF Ordered
  <2>2. CASE \E i \in 1 .. Len(b.chain) : \E k \in 1 .. Len(b.chain[i].items) : b.chain[i].items[k] = x
    <3>1. PICK i \in 1 .. Len(b.chain) : \E k \in 1 .. Len(b.chain[i].items) : b.chain[i].items[k] = x
      BY <2>2
    <3>2. PICK k \in 1 .. Len(b.chain[i].items) : b.chain[i].items[k] = x
      BY <3>1
    <3>3. CASE i = 1
      BY <1>3, <3>2, <3>3
    <3>4. CASE 1 < i
      <4>1. it[1] < b.chain[i].items[k]
        BY <1>1, <1>5, <3>4 DEF Ordered
      <4>. QED
        BY <1>3, <3>2, <4>1
    <3>. QED
      BY <3>3, <3>4
  <2>. QED
    BY <1>6, <2>1, <2>2 DEF Holds
<1>7. ASSUME Single(b), NEW x \in Nat, Holds(b, x) PROVE x <= it[Len(it)]
  <2>1. b.pending = <<>> /\ Len(b.chain) = 1
    <3>1. Len(b.chain) <= 1 /\ b.pending = <<>>
      BY <1>7 DEF Single
    <3>2. \A k \in Nat \ {0} : k <= 1 => k = 1
      OBVIOUS
    <3>3. Len(b.chain) = 1
      BY <1>1, <3>1, <3>2
    <3>. QED
      BY <3>1, <3>3
  <2>2. \E k \in 1 .. Len(it) : it[k] = x
    BY <1>7, <2>1 DEF Holds
  <2>. QED
    BY <1>3, <2>2
<1>. QED
  BY <1>2, <1>3, <1>4, <1>6, <1>7

\* The batch at the head of the chain, and the deliveries it holds.
HeadBatch(it) ==
    batcher.chain # <<>> /\ Head(batcher.chain).kind = "batch" /\ it = Head(batcher.chain).items

LEMMA HeadItems ==
    ASSUME Kept, InLine, NEW it, HeadBatch(it)
    PROVE  /\ it = batcher.chain[1].items
           /\ it \in Data /\ it # <<>> /\ Run(it) /\ Len(it) \in Nat \ {0}
           /\ it[1] \in Nat /\ it[1] >= 1 /\ it[Len(it)] \in Nat /\ it[1] <= it[Len(it)]
           /\ \A x \in Nat : (\E k \in 1 .. Len(it) : it[k] = x) <=> it[1] <= x /\ x <= it[Len(it)]
           /\ \E i \in 1 .. Len(apps) : apps[i].at = it[1]
           /\ \E i \in 1 .. Len(apps) : apps[i].at = it[Len(it)]
           /\ \A i \in 1 .. Len(apps) : it[1] <= apps[i].at /\ apps[i].at <= it[Len(it)] => apps[i].handled = "waiting"
           /\ \A i \in 1 .. Len(apps) : apps[i].handled = "waiting" => it[1] <= apps[i].at
           /\ Single(batcher) => \A i \in 1 .. Len(apps) : apps[i].handled = "waiting" => apps[i].at <= it[Len(it)]
<1>1. /\ batcher \in Batchers /\ apps \in Seq(Apps) /\ sub.position \in Nat /\ Ordered(batcher)
      /\ Lined(apps, sub.position, batcher)
  BY DEF Kept, Formed, Loop, InLine, Lined, Subs
<1>2. /\ Head(batcher.chain) = batcher.chain[1] /\ Linked(batcher.chain[1])
  BY ChainShrinks, ItemsTyped, <1>1 DEF Kept, Formed, HeadBatch
<1>3. it = batcher.chain[1].items /\ it # <<>>
  BY <1>2 DEF HeadBatch, Linked
<1>4. /\ it \in Data /\ Run(it) /\ Len(it) \in Nat \ {0} /\ it[1] \in Nat /\ it[Len(it)] \in Nat
      /\ it[Len(it)] = it[1] + Len(it) - 1
      /\ \A x \in Nat : (\E k \in 1 .. Len(it) : it[k] = x) <=> it[1] <= x /\ x <= it[Len(it)]
      /\ \A x \in Nat : it[1] <= x /\ x <= it[Len(it)] => Holds(batcher, x)
      /\ \A x \in Nat : Holds(batcher, x) => it[1] <= x
      /\ Single(batcher) => \A x \in Nat : Holds(batcher, x) => x <= it[Len(it)]
  BY <1>1, <1>3, FirstHolds DEF HeadBatch
<1>5. it[1] <= it[Len(it)]
  BY <1>4
<1>6. Holds(batcher, it[1]) /\ Holds(batcher, it[Len(it)])
  BY <1>4, <1>5
<1>7. /\ it[1] >= 1
      /\ \E i \in 1 .. Len(apps) : apps[i].at = it[1]
      /\ \E i \in 1 .. Len(apps) : apps[i].at = it[Len(it)]
  <2>1. \A x \in Nat : Holds(batcher, x) => x >= 1
    BY <1>1, LinedFacts
  <2>2. \A x \in Nat : Holds(batcher, x) => \E i \in 1 .. Len(apps) : apps[i].at = x
    BY <1>1 DEF Lined
  <2>. QED
    BY <1>4, <1>6, <2>1, <2>2
<1>8. \A i \in 1 .. Len(apps) : apps[i].at \in Nat /\ (apps[i].handled = "waiting" <=> Holds(batcher, apps[i].at))
  BY <1>1, LinedFacts DEF Lined
<1>. QED
  BY <1>3, <1>4, <1>5, <1>7, <1>8

\* How far the deliveries are done.
LEMMA BaseIs ==
    ASSUME Kept, InLine
    PROVE  /\ Base \in Int /\ Len(source.data) \in Nat
           /\ ~Ahead => Base = Len(source.data)
           /\ \A it : Ahead /\ HeadBatch(it) => Base = it[1] - 1
           /\ Ahead => HeadBatch(Head(batcher.chain).items)
           /\ \A it : HeadBatch(it) => Last(Head(batcher.chain).items) = it[Len(it)]
<1>1. Len(source.data) \in Nat
  BY DEF Kept, States, Sources, Data
<1>2. Ahead => HeadBatch(Head(batcher.chain).items)
  BY DEF Ahead, Working, HeadBatch
<1>3. \A it : Ahead /\ HeadBatch(it) => Base = it[1] - 1 /\ it[1] \in Nat
  BY HeadItems DEF Base, HeadBatch
<1>4. \A it : HeadBatch(it) => Last(Head(batcher.chain).items) = it[Len(it)]
  BY DEF Last, HeadBatch
<1>. QED
  BY <1>1, <1>2, <1>3, <1>4 DEF Base

\* Nothing is missing between the state and the batch at the head of the chain.
LEMMA HeadIsNext ==
    ASSUME Kept, InLine, NEW it, HeadBatch(it), (Clean /\ Whole) \/ CutShort
    PROVE  it[1] = Base + 1 /\ sub.rejected = {}
<1>1. /\ it[1] \in Nat /\ it[1] >= 1 /\ it[1] <= it[Len(it)] /\ it[Len(it)] \in Nat /\ Base \in Int
      /\ \A i \in 1 .. Len(apps) : it[1] <= apps[i].at /\ apps[i].at <= it[Len(it)] => apps[i].handled = "waiting"
      /\ \A i \in 1 .. Len(apps) : apps[i].handled = "waiting" => it[1] <= apps[i].at
  BY HeadItems, BaseIs
<1>2. PICK f \in 1 .. Len(apps) : apps[f].at = it[1]
  BY HeadItems
<1>3. apps[f].handled = "waiting"
  BY <1>1, <1>2
<1>4. sub.rejected = {}
  BY <1>3 DEF Clean, CutShort, Failed
<1>5. /\ Folded /\ Base <= store + Len(apps) /\ \A i \in 1 .. Len(apps) : apps[i].at = store + i
  BY <1>4 DEF Whole, CutShort
<1>6. Base < it[1]
  BY <1>1, <1>2, <1>3, <1>5 DEF Folded
<1>7. Len(apps) \in Nat /\ store \in Nat /\ store <= Base
  BY <1>5, Parts, KeptMeans DEF Folded
<1>8. ASSUME Base + 1 < it[1] PROVE FALSE
  <2>1. it[1] = store + f
    BY <1>2, <1>5
  <2>2. Base + 1 - store \in 1 .. Len(apps) /\ Base + 1 - store < f
    BY <1>1, <1>7, <1>8, <2>1
  <2>3. PICK g \in 1 .. Len(apps) : g = Base + 1 - store /\ g < f
    BY <2>2
  <2>4. apps[g].at = Base + 1
    BY <1>1, <1>5, <1>7, <2>3
  <2>5. apps[g].handled # "done"
    BY <1>1, <1>5, <2>4 DEF Folded
  <2>6. apps[g].handled # "waiting"
    BY <1>1, <1>8, <2>4
  <2>7. Failed(g)
    <3>1. apps[g].handled \in {"waiting", "done", "failed"}
      <4>1. apps \in Seq(Apps)
        BY DEF Kept, Loop
      <4>2. apps[g] \in Apps
        BY <4>1, ElementOfSeq
      <4>. QED
        BY <4>2 DEF Apps
    <3>. QED
      BY <2>5, <2>6, <3>1 DEF Failed
  <2>8. Failed(f)
    BY <2>3, <2>7 DEF Clean, CutShort
  <2>. QED
    BY <1>3, <2>8 DEF Failed
<1>. QED
  BY <1>1, <1>4, <1>6, <1>8

-----------------------------------------------------------------------------
(***************************************************************************)
(* The batch at the head of the chain is dealt with.                       *)
(***************************************************************************)
\* A batch or a barrier has left.
Shifted(b, c) == c.chain = Tail(b.chain) /\ c.pending = b.pending /\ c.cancelled = b.cancelled

LEMMA ShiftedLinks ==
    ASSUME NEW b \in Batchers, NEW d, HeadFirst(b.chain, d), b.chain # <<>>, NEW c \in Batchers, Shifted(b, c)
    PROVE  /\ Single(b) => Single(c) /\ c.chain = <<>>
           /\ Len(b.chain) = Len(c.chain) + 1 /\ Len(c.chain) \in Nat
           /\ \A i \in 1 .. Len(c.chain) : c.chain[i] = b.chain[i + 1]
           /\ c.chain # <<>> => Head(c.chain).stage = "queued"
<1>1. /\ Len(b.chain) = Len(c.chain) + 1 /\ Len(c.chain) \in Nat
      /\ \A i \in 1 .. Len(c.chain) : c.chain[i] = b.chain[i + 1]
  BY ItemsTyped, HeadTailProperties, EmptySeq DEF Shifted
<1>2. ASSUME c.chain # <<>> PROVE Head(c.chain).stage = "queued"
  <2>1. 1 \in 1 .. Len(c.chain) /\ Head(c.chain) = c.chain[1]
    BY <1>1, <1>2, ItemsTyped, EmptySeq
  <2>2. c.chain[1] = b.chain[2] /\ 2 \in 1 .. Len(b.chain)
    BY <1>1, <2>1
  <2>. QED
    BY <2>1, <2>2 DEF HeadFirst
<1>3. ASSUME Single(b) PROVE Single(c) /\ c.chain = <<>>
  <2>1. Len(b.chain) <= 1
    BY <1>3 DEF Single
  <2>2. Len(c.chain) = 0
    BY <1>1, <2>1
  <2>3. c.chain = <<>>
    BY <2>2, ItemsTyped, EmptySeq
  <2>. QED
    BY <2>2, <2>3 DEF Single, Barriers
<1>. QED
  BY <1>1, <1>2, <1>3

LEMMA HeadLeaves ==
    ASSUME Kept, Kept', FoldInv, NEW it, HeadBatch(it), NEW o \in {"done", "failed"},
           Shifted(batcher, batcher'), HandledAs(apps, apps', it, o),
           UNCHANGED <<sub, store, lease, published>>
    PROVE  InLine' /\ Placed' /\ ~Ahead' /\ Base' = Len(source'.data)
<1>1. /\ batcher \in Batchers /\ batcher' \in Batchers /\ apps \in Seq(Apps) /\ sub.position \in Nat
      /\ Lined(apps, sub.position, batcher) /\ HeadFirst(batcher.chain, source.data)
      /\ batcher.chain # <<>> /\ Ordered(batcher)
  BY DEF Kept, Formed, Loop, FoldInv, InLine, Lined, Subs, HeadBatch
<1>2. /\ it = batcher.chain[1].items /\ 1 \in 1 .. Len(batcher.chain) /\ Head(batcher.chain) = batcher.chain[1]
  BY <1>1, HeadItems, ItemsTyped, EmptySeq DEF FoldInv
<1>3. /\ Ordered(batcher')
      /\ \A x : Holds(batcher', x) <=> Holds(batcher, x) /\ ~(\E k \in 1 .. Len(it) : it[k] = x)
      /\ \A i \in Nat : i \in Barriers(batcher'.chain) <=> i # 0 /\ i + 1 \in Barriers(batcher.chain)
  BY <1>1, <1>2, PoppedHolds DEF Shifted
<1>4. /\ Single(batcher) => Single(batcher') /\ batcher'.chain = <<>>
      /\ Len(batcher.chain) = Len(batcher'.chain) + 1 /\ Len(batcher'.chain) \in Nat
      /\ \A i \in 1 .. Len(batcher'.chain) : batcher'.chain[i] = batcher.chain[i + 1]
      /\ batcher'.chain # <<>> => Head(batcher'.chain).stage = "queued"
  BY <1>1, ShiftedLinks
<1>5. InLine'
  <2>1. batcher'.pending # <<>> => batcher'.pending = batcher.pending
    BY DEF Shifted
  <2>2. batcher'.cancelled => batcher'.pending = <<>>
    BY <1>1 DEF Shifted, Lined
  <2>3. Lined(apps', sub.position, batcher')
    BY <1>1, <1>3, <2>1, <2>2, LinedHandled
  <2>. QED
    BY <2>3 DEF InLine
<1>6. ~Ahead'
  BY <1>4 DEF Ahead, Working
<1>7. Base' = Len(source'.data)
  BY <1>6 DEF Base
<1>8. sub' = sub /\ store' = store /\ lease' = lease /\ published' = published
  OBVIOUS
<1>9. Counted' /\ Flows'
  BY <1>8 DEF FoldInv, Placed, Counted, Flows, Shifted
<1>10. ~Fresh
  BY <1>1 DEF Fresh
<1>11. AtNext' /\ Starts'
  BY <1>4, <1>8, <1>10 DEF FoldInv, Placed, AtNext, Starts
<1>12. Settles'
  BY <1>4, <1>8 DEF FoldInv, Placed, Settles, Shifted
<1>13. Waits'
  <2>1. ASSUME sub.pc \in {"await", "final"}, NEW i \in Barriers(batcher'.chain)
        PROVE  batcher'.chain[i].commit = sub.wait
    <3>1. i \in 1 .. Len(batcher'.chain)
      BY <2>1 DEF Barriers
    <3>2. i + 1 \in Barriers(batcher.chain) /\ batcher'.chain[i] = batcher.chain[i + 1]
      BY <1>3, <1>4, <2>1, <3>1
    <3>. QED
      BY <2>1, <3>2 DEF FoldInv, Placed, Waits
  <2>2. 1 \notin Barriers(batcher.chain)
    BY <1>2 DEF Barriers, HeadBatch
  <2>3. \A j \in Barriers(batcher.chain) : j \in Nat /\ j - 1 \in Nat /\ j - 1 + 1 = j /\ j - 1 \in Barriers(batcher'.chain)
    <3>1. ASSUME NEW j \in Barriers(batcher.chain) PROVE j \in Nat /\ j - 1 \in Nat /\ j - 1 + 1 = j /\ j - 1 # 0
      BY <2>2, ItemsTyped, <1>1 DEF Barriers
    <3>. QED
      BY <1>3, <3>1
  <2>4. \A w : Passed(apps', w) <=> Passed(apps, w)
    BY DEF Passed, HandledAs
  <2>5. ASSUME NEW w, NEW n, Behind(apps, batcher.chain, w, n)
        PROVE  Behind(apps', batcher'.chain, w, n)
    <3>1. Barriers(batcher'.chain) # {} \/ Passed(apps', w)
      BY <2>3, <2>4, <2>5 DEF Behind
    <3>2. ASSUME NEW i \in 1 .. Len(batcher'.chain), \E k \in 1 .. Len(batcher'.chain[i].items) : batcher'.chain[i].items[k] = n
          PROVE  (\E j \in Barriers(batcher'.chain) : j < i) \/ Passed(apps', w)
      <4>1. i + 1 \in 1 .. Len(batcher.chain) /\ batcher'.chain[i] = batcher.chain[i + 1]
        BY <1>4
      <4>2. (\E j \in Barriers(batcher.chain) : j < i + 1) \/ Passed(apps, w)
        BY <2>5, <3>2, <4>1 DEF Behind
      <4>3. ASSUME NEW j \in Barriers(batcher.chain), j < i + 1 PROVE \E h \in Barriers(batcher'.chain) : h < i
        BY <2>3, <4>3
      <4>. QED
        BY <2>4, <4>2, <4>3
    <3>. QED
      BY <3>1, <3>2 DEF Behind
  <2>6. apps = <<>> => apps' = <<>>
    BY <1>1, EmptySeq DEF HandledAs
  <2>. QED
    BY <1>8, <2>1, <2>5, <2>6 DEF FoldInv, Placed, Waits
<1>. QED
  BY <1>5, <1>6, <1>7, <1>9, <1>11, <1>12, <1>13 DEF Placed

\* The deliveries of an application are waiting, done or failed.
LEMMA AppFacts ==
    ASSUME Kept, InLine
    PROVE  /\ Len(apps) \in Nat /\ apps \in Seq(Apps) /\ (apps = <<>> <=> Len(apps) = 0)
           /\ \A i \in 1 .. Len(apps) : apps[i].at \in Nat /\ apps[i].handled \in {"waiting", "done", "failed"}
           /\ \A i, j \in 1 .. Len(apps) : i < j <=> apps[i].at < apps[j].at
           /\ \A i \in 1 .. Len(apps) : apps[i].at = sub.position - Len(apps) + i /\ apps[i].at <= sub.position
           /\ sub.position \in Nat /\ store \in Nat /\ sub.rejected \in SUBSET Nat
<1>1. apps \in Seq(Apps) /\ sub.position \in Nat /\ store \in Nat /\ sub.rejected \in SUBSET Nat
  BY DEF Kept, Loop, Subs
<1>2. \A i \in 1 .. Len(apps) : apps[i] \in Apps
  BY <1>1, ElementOfSeq
<1>. QED
  BY <1>1, <1>2, LinedFacts DEF InLine, Apps

\* The deliveries that may be told apart: neither the state nor the checkpoint has lost one.
Sound == (Clean /\ Whole) \/ CutShort

LEMMA HeadDone ==
    ASSUME Kept, Kept', FoldInv, NEW it, HeadBatch(it), Shifted(batcher, batcher'),
           HandledAs(apps, apps', it, "done"), UNCHANGED <<sub, store, lease, published>>,
           Sound => Base = it[1] - 1 /\ source'.data = Upto(it[Len(it)])
    PROVE  InLine' /\ Placed' /\ InStep' /\ ~Ahead'
<1>1. InLine' /\ Placed' /\ ~Ahead' /\ Base' = Len(source'.data)
  BY HeadLeaves
<1>2. /\ it # <<>> /\ it[1] \in Nat /\ it[1] >= 1 /\ it[Len(it)] \in Nat /\ it[1] <= it[Len(it)]
      /\ \A x \in Nat : (\E k \in 1 .. Len(it) : it[k] = x) <=> it[1] <= x /\ x <= it[Len(it)]
      /\ \E i \in 1 .. Len(apps) : apps[i].at = it[1]
      /\ \E i \in 1 .. Len(apps) : apps[i].at = it[Len(it)]
      /\ \A i \in 1 .. Len(apps) : it[1] <= apps[i].at /\ apps[i].at <= it[Len(it)] => apps[i].handled = "waiting"
  BY HeadItems DEF FoldInv
<1>3. /\ Len(apps) \in Nat /\ (apps = <<>> <=> Len(apps) = 0)
      /\ \A i \in 1 .. Len(apps) : apps[i].at \in Nat /\ apps[i].handled \in {"waiting", "done", "failed"}
      /\ store \in Nat
  BY AppFacts DEF FoldInv
<1>4. sub' = sub /\ store' = store /\ lease' = lease /\ published' = published
  OBVIOUS
<1>5. Len(apps') = Len(apps) /\ \A i \in 1 .. Len(apps) : apps'[i].at = apps[i].at
  BY DEF HandledAs
<1>6. \A i \in 1 .. Len(apps) :
          apps'[i].handled = IF it[1] <= apps[i].at /\ apps[i].at <= it[Len(it)] THEN "done" ELSE apps[i].handled
  BY <1>2, <1>3 DEF HandledAs
<1>7. \A i \in 1 .. Len(apps) : apps'[i].handled = "failed" <=> apps[i].handled = "failed"
  BY <1>2, <1>6
<1>8. \A i \in 1 .. Len(apps) : apps'[i].handled = "waiting" => apps[i].handled = "waiting"
  BY <1>6
<1>9. Clean' <=> Clean
  BY <1>4, <1>5, <1>7 DEF Clean, Failed
<1>10. ASSUME Sound PROVE Folded' /\ Base' = it[Len(it)]
  <2>1. Base = it[1] - 1 /\ source'.data = Upto(it[Len(it)]) /\ Folded
    BY <1>10 DEF Sound, Whole, CutShort
  <2>2. Len(source'.data) = it[Len(it)]
    BY <1>2, <2>1, UptoIs
  <2>3. store' <= Base'
    BY <1>1, <1>2, <1>3, <1>4, <2>1, <2>2 DEF Folded
  <2>4. ASSUME NEW i \in 1 .. Len(apps) PROVE apps'[i].handled = "done" <=> apps'[i].at <= Base'
    <3>1. apps[i].handled = "done" <=> apps[i].at <= it[1] - 1
      BY <2>1 DEF Folded
    <3>2. Base' = it[Len(it)] /\ apps'[i].at = apps[i].at /\ apps[i].at \in Nat
      BY <1>1, <1>3, <1>5, <2>2
    <3>3. apps'[i].handled = IF it[1] <= apps[i].at /\ apps[i].at <= it[Len(it)] THEN "done" ELSE apps[i].handled
      BY <1>6
    <3>4. CASE it[1] <= apps[i].at /\ apps[i].at <= it[Len(it)]
      BY <3>2, <3>3, <3>4
    <3>5. CASE ~(it[1] <= apps[i].at) \/ ~(apps[i].at <= it[Len(it)])
      BY <1>2, <3>1, <3>2, <3>3, <3>5
    <3>. QED
      BY <3>4, <3>5
  <2>. QED
    BY <1>1, <1>5, <2>1, <2>2, <2>3, <2>4 DEF Folded
<1>11. ASSUME Sound, \A i \in 1 .. Len(apps) : apps[i].at = store + i
       PROVE  /\ Base' <= store' + Len(apps') /\ \A i \in 1 .. Len(apps') : apps'[i].at = store' + i
  <2>1. PICK i \in 1 .. Len(apps) : apps[i].at = it[Len(it)]
    BY <1>2
  <2>. QED
    BY <1>3, <1>4, <1>5, <1>10, <1>11, <2>1
<1>12. ASSUME Clean, Whole PROVE Whole'
  <2>1. Sound /\ \A i \in 1 .. Len(apps) : apps[i].at = store + i
    BY <1>12 DEF Sound, Whole
  <2>2. sub.pc \in {"next", "await", "final"} => sub'.position = store' + Len(apps')
    BY <1>4, <1>5, <1>12 DEF Whole
  <2>. QED
    BY <1>4, <1>10, <1>11, <2>1, <2>2 DEF Whole
<1>13. ASSUME CutShort PROVE CutShort'
  <2>1. Sound /\ sub.rejected = {}
    BY <1>13, HeadIsNext DEF Sound, FoldInv
  <2>2. \A i, j \in 1 .. Len(apps') : i < j /\ apps'[i].handled = "failed" => apps'[j].handled = "failed"
    BY <1>5, <1>7, <1>13 DEF CutShort, Failed
  <2>3. /\ Base' <= store' + Len(apps') /\ \A i \in 1 .. Len(apps') : apps'[i].at = store' + i
    BY <1>11, <1>13, <2>1 DEF CutShort
  <2>. QED
    BY <1>4, <1>10, <2>1, <2>2, <2>3 DEF CutShort, Failed
<1>14. InStep'
  <2>1. Clean' /\ sub'.pc \notin {"opening", "delay"} => Whole'
    BY <1>4, <1>9, <1>12 DEF FoldInv, InStep
  <2>2. (Interrupted /\ ~lease.closing)' => CutShort'
    BY <1>4, <1>13 DEF FoldInv, InStep, Interrupted
  <2>3. (LastFailed /\ ~lease.closing)' => CutShort' /\ Len(apps') = 1
    <3>1. LastFailed' => LastFailed
      BY <1>3, <1>4, <1>5, <1>7, Parts, KeptMeans, EmptySeq DEF LastFailed, Failed
    <3>. QED
      BY <1>4, <1>5, <1>13, <3>1 DEF FoldInv, InStep
  <2>4. (sub.messages = "open")' =>
          \A i, j \in 1 .. Len(apps') : j < i /\ apps'[i].handled = "failed" => apps'[j].handled # "waiting"
    BY <1>4, <1>5, <1>7, <1>8 DEF FoldInv, InStep, Failed
  <2>5. sub'.pc \notin {"opening", "delay"}
    BY <1>4 DEF FoldInv, Placed, Starts, Fresh, HeadBatch
  <2>. QED
    BY <2>1, <2>2, <2>3, <2>4, <2>5 DEF InStep, Failed
<1>. QED
  BY <1>1, <1>14

\* Without a failure there is nothing to be cut.
LEMMA CleanCut == ASSUME Clean, Whole PROVE CutShort
BY DEF Clean, Whole, CutShort

\* Every delivery that waits fails: the end of what has been received is cut off.
LEMMA AllFail ==
    ASSUME Kept, InLine, CutShort, Len(apps') = Len(apps),
           \A i \in 1 .. Len(apps) :
              /\ apps'[i].at = apps[i].at
              /\ apps'[i].handled = IF apps[i].handled = "waiting" THEN "failed" ELSE apps[i].handled,
           sub'.rejected = sub.rejected, store' = store, Base' = Base, source'.data = source.data,
           Ahead' => Len(source.data) = Last(Head(batcher'.chain).items)
    PROVE  CutShort'
<1>1. /\ Len(apps) \in Nat
      /\ \A i \in 1 .. Len(apps) : apps[i].at \in Nat /\ apps[i].handled \in {"waiting", "done", "failed"}
      /\ \A i, j \in 1 .. Len(apps) : i < j <=> apps[i].at < apps[j].at
  BY AppFacts
<1>2. Base \in Int
  BY BaseIs
<1>3. Folded'
  <2>1. \A i \in 1 .. Len(apps') : apps'[i].handled = "done" <=> apps'[i].at <= Base'
    BY <1>1 DEF CutShort, Folded
  <2>. QED
    BY <2>1 DEF CutShort, Folded
<1>4. ASSUME NEW i \in 1 .. Len(apps), NEW j \in 1 .. Len(apps), i < j, apps'[i].handled = "failed"
      PROVE  apps'[j].handled = "failed"
  <2>1. CASE apps[i].handled = "failed"
    <3>1. apps[j].handled = "failed"
      BY <1>4, <2>1 DEF CutShort, Failed
    <3>. QED
      BY <3>1
  <2>2. CASE apps[i].handled = "waiting"
    <3>1. ~(apps[i].at <= Base)
      BY <2>2 DEF CutShort, Folded
    <3>2. apps[i].at < apps[j].at
      BY <1>1, <1>4
    <3>3. ~(apps[j].at <= Base)
      BY <1>1, <1>2, <3>1, <3>2
    <3>4. apps[j].handled # "done"
      BY <3>3 DEF CutShort, Folded
    <3>. QED
      BY <1>1, <3>4
  <2>. QED
    BY <1>1, <1>4, <2>1, <2>2
<1>5. sub.rejected = {} => /\ \A i \in 1 .. Len(apps') : apps'[i].at = store' + i
                           /\ Base' <= store' + Len(apps')
  BY DEF CutShort
<1>6. sub.rejected # {} => (\A i \in 1 .. Len(apps') : apps'[i].handled = "failed") /\ store' = Base'
  BY DEF CutShort, Failed
<1>. QED
  BY <1>3, <1>4, <1>5, <1>6 DEF CutShort, Failed

LEMMA HeadFails ==
    ASSUME Kept, Kept', FoldInv, NEW it, HeadBatch(it), Shifted(batcher, batcher'), ~Ahead,
           HandledAs(apps, apps', it, "failed"), UNCHANGED <<sub, store, lease, published>>,
           source'.data = source.data
    PROVE  InLine' /\ Placed' /\ InStep' /\ ~Ahead'
<1>1. InLine' /\ Placed' /\ ~Ahead' /\ Base' = Len(source'.data)
  BY HeadLeaves
<1>2. /\ it # <<>> /\ it[1] \in Nat /\ it[1] >= 1 /\ it[Len(it)] \in Nat /\ it[1] <= it[Len(it)]
      /\ it = batcher.chain[1].items
      /\ \A x \in Nat : (\E k \in 1 .. Len(it) : it[k] = x) <=> it[1] <= x /\ x <= it[Len(it)]
      /\ \E i \in 1 .. Len(apps) : apps[i].at = it[1]
      /\ \A i \in 1 .. Len(apps) : it[1] <= apps[i].at /\ apps[i].at <= it[Len(it)] => apps[i].handled = "waiting"
      /\ \A i \in 1 .. Len(apps) : apps[i].handled = "waiting" => it[1] <= apps[i].at
      /\ Single(batcher) => \A i \in 1 .. Len(apps) : apps[i].handled = "waiting" => apps[i].at <= it[Len(it)]
  BY HeadItems DEF FoldInv
<1>3. /\ Len(apps) \in Nat /\ (apps = <<>> <=> Len(apps) = 0)
      /\ \A i \in 1 .. Len(apps) : apps[i].at \in Nat /\ apps[i].handled \in {"waiting", "done", "failed"}
      /\ \A i \in 1 .. Len(apps) : apps[i].at = sub.position - Len(apps) + i
      /\ store \in Nat /\ sub.position \in Nat
  BY AppFacts DEF FoldInv
<1>4. sub' = sub /\ store' = store /\ lease' = lease
  OBVIOUS
<1>5. Len(apps') = Len(apps) /\ \A i \in 1 .. Len(apps) : apps'[i].at = apps[i].at
  BY DEF HandledAs
<1>6. \A i \in 1 .. Len(apps) :
          apps'[i].handled = IF it[1] <= apps[i].at /\ apps[i].at <= it[Len(it)] THEN "failed" ELSE apps[i].handled
  BY <1>2, <1>3 DEF HandledAs
<1>7. ~Clean'
  <2>1. PICK i \in 1 .. Len(apps) : apps[i].at = it[1]
    BY <1>2
  <2>2. apps'[i].handled = "failed"
    BY <1>2, <1>6, <2>1
  <2>. QED
    BY <1>5, <2>2 DEF Clean, Failed
<1>8. Base' = Base
  BY <1>1, BaseIs DEF FoldInv
<1>9. ASSUME CutShort,
             \A i \in 1 .. Len(apps) : apps[i].handled = "waiting" => apps[i].at <= it[Len(it)]
      PROVE  CutShort'
  <2>1. \A i \in 1 .. Len(apps) :
            /\ apps'[i].at = apps[i].at
            /\ apps'[i].handled = IF apps[i].handled = "waiting" THEN "failed" ELSE apps[i].handled
    BY <1>2, <1>5, <1>6, <1>9
  <2>. QED
    BY <1>1, <1>4, <1>5, <1>8, <1>9, <2>1, AllFail DEF FoldInv
<1>10. InStep'
  <2>1. Interrupted' /\ ~lease'.closing => CutShort'
    <3>1. Interrupted' => Interrupted
      BY <1>4 DEF Interrupted
    <3>2. Interrupted => Single(batcher)
      BY DEF FoldInv, Placed, AtNext, Settles, Interrupted
    <3>. QED
      BY <1>2, <1>4, <1>9, <3>1, <3>2 DEF FoldInv, InStep
  <2>2. LastFailed' /\ ~lease'.closing => CutShort' /\ Len(apps') = 1
    <3> SUFFICES ASSUME LastFailed', ~lease'.closing PROVE CutShort' /\ Len(apps') = 1
      OBVIOUS
    <3> DEFINE n == Len(apps)
    <3>1. /\ sub.pc = "await" /\ sub.wait + 1 = sub.position /\ sub.rejected = {}
          /\ apps' # <<>> /\ apps'[n].handled = "failed"
      BY <1>4, <1>5 DEF LastFailed, Failed
    <3>2. n \in 1 .. n
      <4>1. apps' \in Seq(Apps)
        BY DEF Kept, Loop
      <4>2. n # 0
        BY <1>5, <3>1, <4>1, EmptySeq
      <4>. QED
        BY <1>3, <4>2
    <3>3. apps # <<>>
      BY <1>3, <3>2
    <3>4. CASE apps[n].handled = "failed"
      <4>1. LastFailed
        BY <3>1, <3>3, <3>4 DEF LastFailed, Failed
      <4>2. n = 1
        BY <1>4, <4>1 DEF FoldInv, InStep
      <4>3. PICK i \in 1 .. n : apps[i].at = it[1]
        BY <1>2
      <4>4. apps[i].handled = "waiting"
        BY <1>2, <4>3
      <4>. QED
        BY <3>4, <4>2, <4>4
    <3>5. CASE apps[n].handled # "failed"
      <4>1. it[1] <= apps[n].at /\ apps[n].at <= it[Len(it)] /\ apps[n].handled = "waiting"
        BY <1>2, <1>6, <3>1, <3>2, <3>5
      <4>2. apps[n].at = sub.position
        BY <1>3, <3>2
      <4>3. \E k \in 1 .. Len(batcher.chain[1].items) : batcher.chain[1].items[k] = sub.position
        BY <1>2, <1>3, <4>1, <4>2
      <4>4. Behind(apps, batcher.chain, sub.wait, sub.position)
        BY <3>1 DEF FoldInv, Placed, Waits
      <4>5. Passed(apps, sub.wait)
        <5>1. 1 \in 1 .. Len(batcher.chain)
          BY ItemsTyped, EmptySeq DEF Kept, Formed, HeadBatch
        <5>2. (\E j \in Barriers(batcher.chain) : j < 1) \/ Passed(apps, sub.wait)
          BY <4>3, <4>4, <5>1 DEF Behind
        <5>3. \A j \in Barriers(batcher.chain) : ~(j < 1)
          BY ItemsTyped DEF Barriers, Kept, Formed
        <5>. QED
          BY <5>2, <5>3
      <4>6. n = 1
        <5>1. ASSUME n # 1 PROVE FALSE
          <6>1. n - 1 \in 1 .. n
            <7>1. \A k \in Nat : k \in 1 .. k /\ k # 1 => k - 1 \in 1 .. k
              OBVIOUS
            <7>. QED
              BY <1>3, <3>2, <5>1, <7>1
          <6>2. apps[n - 1].at = sub.position - n + (n - 1)
            BY <1>3, <6>1
          <6>3. sub.wait \in Nat
            BY Parts, KeptMeans
          <6>4. apps[n - 1].at = sub.wait
            BY <1>3, <3>1, <6>2, <6>3
          <6>. QED
            BY <4>5, <6>1, <6>4 DEF Passed
        <5>. QED
          BY <5>1
      <4>7. Clean
        BY <3>1, <3>5, <4>6 DEF Clean, Failed
      <4>8. CutShort
        BY <3>1, <4>7, CleanCut DEF FoldInv, InStep
      <4>9. CutShort'
        BY <1>9, <4>1, <4>6, <4>8
      <4>. QED
        BY <1>5, <4>6, <4>9
    <3>. QED
      BY <3>4, <3>5
  <2>3. sub'.messages = "open" =>
          \A i, j \in 1 .. Len(apps') : j < i /\ apps'[i].handled = "failed" => apps'[j].handled # "waiting"
    <3>1. ASSUME sub.messages = "open", NEW i \in 1 .. Len(apps), NEW j \in 1 .. Len(apps), j < i,
                 apps'[i].handled = "failed"
          PROVE  apps'[j].handled # "waiting"
      <4>1. CASE apps[i].handled = "failed"
        <5>1. apps[j].handled # "waiting"
          BY <3>1, <4>1 DEF FoldInv, InStep, Failed
        <5>. QED
          BY <1>6, <5>1
      <4>2. CASE apps[i].handled # "failed"
        <5>1. apps[i].at <= it[Len(it)]
          BY <1>6, <3>1, <4>2
        <5>2. apps[j].at < apps[i].at /\ apps[j].at \in Nat /\ apps[i].at \in Nat
          BY <3>1, AppFacts DEF FoldInv
        <5>3. apps[j].at <= it[Len(it)]
          <6>1. it[Len(it)] \in Nat
            BY <1>2
          <6>. QED
            BY ONLY <5>1, <5>2, <6>1
        <5>4. CASE it[1] <= apps[j].at
          BY <1>6, <5>3, <5>4
        <5>5. CASE ~(it[1] <= apps[j].at)
          BY <1>2, <1>6, <5>5
        <5>. QED
          BY <5>4, <5>5
      <4>. QED
        BY <4>1, <4>2
    <3>. QED
      BY <1>4, <1>5, <3>1
  <2>4. sub'.pc \notin {"opening", "delay"}
    BY <1>4 DEF FoldInv, Placed, Starts, Fresh, HeadBatch
  <2>. QED
    BY <1>7, <2>1, <2>2, <2>3, <2>4 DEF InStep, Failed
<1>. QED
  BY <1>1, <1>10

-----------------------------------------------------------------------------
(***************************************************************************)
(* What a step leaves as it is.                                            *)
(***************************************************************************)
\* The batcher only gets new links.
LEMMA BaseContinues ==
    ASSUME Kept, Kept', Continues(batcher, batcher'), source'.data = source.data
    PROVE  /\ Ahead' <=> Ahead
           /\ Base' = Base
           /\ Ahead' => Head(batcher'.chain) = Head(batcher.chain)
<1>1. batcher \in Batchers /\ batcher' \in Batchers
  BY DEF Kept, Formed
<1>2. /\ Len(batcher.chain) \in Nat /\ (batcher.chain = <<>> <=> Len(batcher.chain) = 0)
      /\ Len(batcher'.chain) \in Nat /\ (batcher'.chain = <<>> <=> Len(batcher'.chain) = 0)
  BY <1>1, ItemsTyped, EmptySeq
<1>3. ASSUME batcher.chain # <<>>
      PROVE  batcher'.chain # <<>> /\ Head(batcher'.chain) = Head(batcher.chain)
  <2>1. 1 \in 1 .. Len(batcher.chain) /\ 1 \in 1 .. Len(batcher'.chain)
    BY <1>2, <1>3 DEF Continues
  <2>2. batcher'.chain[1] = batcher.chain[1]
    BY <2>1 DEF Continues
  <2>3. Head(batcher'.chain) = batcher'.chain[1] /\ Head(batcher.chain) = batcher.chain[1]
    OBVIOUS
  <2>. QED
    BY <1>2, <2>1, <2>2, <2>3
<1>4. ASSUME batcher.chain = <<>>, batcher'.chain # <<>>
      PROVE  Head(batcher'.chain).stage = "queued"
  <2>1. 1 \in 1 .. Len(batcher'.chain) /\ 1 > Len(batcher.chain)
    BY <1>2, <1>4
  <2>. QED
    BY <2>1 DEF Continues
<1>5. Ahead' <=> Ahead
  BY <1>3, <1>4 DEF Ahead, Working
<1>6. Ahead' => Head(batcher'.chain) = Head(batcher.chain)
  BY <1>3, <1>5 DEF Ahead, Working
<1>. QED
  BY <1>5, <1>6 DEF Base

\* The deliveries, the loop and the checkpoint stay.
LEMMA StillInStep ==
    ASSUME InStep, UNCHANGED <<sub, store, apps>>, lease'.closing = lease.closing,
           Sound => Folded' /\ Base' = Base, sub.pc \in {"opening", "delay"} => source'.data = source.data
    PROVE  InStep'
<1>1. sub' = sub /\ store' = store /\ apps' = apps
  OBVIOUS
<1>2. Clean' <=> Clean
  BY <1>1 DEF Clean, Failed
<1>3. Clean /\ Whole => Whole'
  BY <1>1 DEF Whole, Sound
<1>4. CutShort => CutShort'
  BY <1>1 DEF CutShort, Failed, Sound
<1>5. (Interrupted' <=> Interrupted) /\ (LastFailed' <=> LastFailed)
  BY <1>1 DEF Interrupted, LastFailed, Failed
<1>. QED
  BY <1>1, <1>2, <1>3, <1>4, <1>5 DEF InStep, Failed

\* Where the loop stands, when the links stay.
SameLinks(b, c) ==
    /\ SameItems(b, c) /\ c.cancelled = b.cancelled
    /\ \A i \in 1 .. Len(b.chain) : c.chain[i].commit = b.chain[i].commit

LEMMA LinksStay ==
    ASSUME Kept, Kept', InLine, Placed, SameLinks(batcher, batcher'),
           UNCHANGED <<sub, store, apps>>, lease'.closing = lease.closing, published' \in Nat, published <= published'
    PROVE  InLine' /\ Placed'
<1>1. /\ batcher \in Batchers /\ batcher' \in Batchers /\ apps \in Seq(Apps) /\ sub.position \in Nat
      /\ published \in Nat /\ store \in Nat
  BY Parts, KeptMeans DEF Kept, Formed, Loop
<1>2. sub' = sub /\ store' = store /\ apps' = apps
  OBVIOUS
<1>3. /\ Ordered(batcher) => Ordered(batcher')
      /\ \A m : Holds(batcher', m) <=> Holds(batcher, m)
      /\ Barriers(batcher'.chain) = Barriers(batcher.chain)
      /\ Single(batcher) => Single(batcher')
  BY <1>1, SameHolds DEF SameLinks
<1>4. batcher'.pending = batcher.pending /\ batcher'.cancelled = batcher.cancelled
      /\ Len(batcher'.chain) = Len(batcher.chain)
  BY DEF SameLinks, SameItems
<1>5. batcher'.chain = <<>> <=> batcher.chain = <<>>
  BY <1>1, <1>4, ItemsTyped, EmptySeq
<1>6. InLine'
  <2>1. Lined(apps, sub.position, batcher')
    BY <1>1, <1>3, <1>4, LinedSame DEF InLine, Lined
  <2>. QED
    BY <1>2, <2>1 DEF InLine
<1>7. Counted' /\ AtNext' /\ Starts' /\ Flows' /\ Settles'
  BY <1>1, <1>2, <1>3, <1>4, <1>5 DEF Placed, Counted, AtNext, Starts, Flows, Settles, Fresh
<1>8. Waits'
  <2>1. \A i \in Barriers(batcher'.chain) : batcher'.chain[i].commit = batcher.chain[i].commit
    BY <1>3 DEF SameLinks, Barriers
  <2>2. \A w, n : Behind(apps, batcher.chain, w, n) => Behind(apps, batcher'.chain, w, n)
    BY <1>3, <1>4 DEF Behind, SameLinks, SameItems
  <2>. QED
    BY <1>2, <1>3, <2>1, <2>2 DEF Placed, Waits
<1>. QED
  BY <1>6, <1>7, <1>8 DEF Placed

LEMMA LinksSame == SameLinks(batcher, batcher) /\ (batcher' = batcher => SameLinks(batcher, batcher'))
BY DEF SameLinks, SameItems

LEMMA AheadSame ==
    ASSUME batcher' = batcher, source'.data = source.data
    PROVE  (Ahead' <=> Ahead) /\ Base' = Base /\ (store' = store /\ apps' = apps /\ Folded => Folded')
<1>1. Ahead' <=> Ahead
  BY DEF Ahead, Working
<1>2. Base' = Base
  BY <1>1 DEF Base
<1>. QED
  BY <1>1, <1>2 DEF Folded

\* Nothing of the loop moves.
LEMMA OutsideFold ==
    ASSUME Kept, Kept', FoldInv, UNCHANGED <<sub, store, apps, batcher>>, lease'.closing = lease.closing,
           source'.data = source.data, published' \in Nat, published <= published'
    PROVE  InLine' /\ Placed' /\ InStep' /\ (Ahead' <=> Ahead)
<1>1. InLine' /\ Placed'
  BY LinksStay, LinksSame DEF FoldInv
<1>2. Folded => Folded'
  BY AheadSame
<1>3. Base' = Base /\ (Ahead' <=> Ahead)
  BY AheadSame
<1>4. InStep'
  BY <1>2, <1>3, StillInStep DEF FoldInv, Sound, Whole, CutShort
<1>. QED
  BY <1>1, <1>3, <1>4

\* Updates of the lease and of the hydration are not those of a batch.
LEMMA OneBatchGrows ==
    ASSUME NEW p \in Seq(Updates), publishing = p, OneBatch, NEW u, u.then # "batch",
           publishing' = Append(p, u) \/ publishing' = p, Ahead => Ahead'
    PROVE  OneBatch'
<1>1. CASE publishing' = p
  BY <1>1 DEF OneBatch
<1>2. CASE publishing' = Append(p, u)
  <2>1. /\ Len(publishing') = Len(p) + 1 /\ Len(p) \in Nat /\ publishing'[Len(p) + 1] = u
        /\ \A i \in 1 .. Len(p) : publishing'[i] = p[i]
    BY <1>2, AppendProperties
  <2>2. \A i \in 1 .. Len(publishing') : publishing'[i].then = "batch" => i \in 1 .. Len(p) /\ publishing'[i] = p[i]
    BY <2>1
  <2>. QED
    BY <2>2 DEF OneBatch
<1>. QED
  BY <1>1, <1>2

LEMMA OneBatchAnnounced ==
    ASSUME Kept, OneBatch, NEW phase, Announces(phase), Ahead => Ahead'
    PROVE  OneBatch'
<1>1. publishing \in Seq(Updates)
  BY DEF Kept, States
<1>2. \/ publishing' = publishing
      \/ \E say : publishing' = Append(publishing, Update(source, say, "nothing"))
  BY DEF Announces
<1>3. \A say : Update(source, say, "nothing").then # "batch"
  BY DEF Update
<1>. QED
  BY <1>1, <1>2, <1>3, OneBatchGrows

-----------------------------------------------------------------------------
(***************************************************************************)
(* The state is the fold of the stream, action by action.                  *)
(***************************************************************************)
\* The outcome of a batch in the terms of the proofs.
LEMMA HandledIs ==
    ASSUME Kept, NEW items \in Data, NEW o \in {"done", "failed"}, apps' = Handled(items, o)
    PROVE  HandledAs(apps, apps', items, o)
<1>1. DOMAIN items = 1 .. Len(items)
  BY DEF Data
<1>. QED
  BY <1>1, HandledApps, KeptMeans DEF HandledAs

LEMMA PoppedShifts ==
    ASSUME Kept, batcher.chain # <<>>, batcher' = Popped \/ (\E f : batcher' = [Popped EXCEPT !.barrierFailure = f])
    PROVE  Shifted(batcher, batcher')
<1>1. Popped.chain = Tail(batcher.chain) /\ Popped.pending = batcher.pending /\ Popped.cancelled = batcher.cancelled
      /\ Popped \in Batchers
  BY PoppedStep DEF Formed
<1>. QED
  BY <1>1 DEF Shifted, Batchers

LEMMA FoldAccept ==
    ASSUME Kept, Kept', FoldInv, Accept PROVE FoldInv'
<1> DEFINE update == Head(publishing)
<1>1. publishing \in Seq(Updates) /\ publishing # <<>> /\ publishing' = Tail(publishing)
  BY DEF Kept, States, Accept
<1>2. /\ Len(publishing') = Len(publishing) - 1 /\ Len(publishing) \in Nat /\ 1 \in 1 .. Len(publishing)
      /\ update = publishing[1]
      /\ \A i \in 1 .. Len(publishing') : publishing'[i] = publishing[i + 1] /\ i + 1 \in 1 .. Len(publishing)
  <2>1. Len(publishing') = Len(publishing) - 1 /\ \A i \in 1 .. Len(publishing') : publishing'[i] = publishing[i + 1]
    BY <1>1, HeadTailProperties
  <2>2. Len(publishing) \in Nat \ {0}
    BY <1>1, EmptySeq
  <2>. QED
    BY <2>1, <2>2
<1>3. source'.data = source.data
  BY DEF Accept, Kept, States, Sources
<1>4. sub' = sub /\ store' = store /\ lease' = lease /\ published' = published
  BY DEF Accept, world
<1>5. CASE update.then # "batch"
  <2>1. batcher' = batcher /\ apps' = apps
    BY <1>5 DEF Accept
  <2>2. published \in Nat
    BY Parts, KeptMeans
  <2>3. InLine' /\ Placed' /\ InStep' /\ (Ahead' <=> Ahead)
    BY <1>3, <1>4, <2>1, <2>2, OutsideFold
  <2>4. ASSUME NEW i \in 1 .. Len(publishing'), publishing'[i].then = "batch"
        PROVE  Ahead' /\ \A j \in 1 .. Len(publishing') : publishing'[j].then = "batch" => j = i
    <3>1. Ahead /\ \A j \in 1 .. Len(publishing) : publishing[j].then = "batch" => j = i + 1
      BY <1>2, <2>4 DEF FoldInv, OneBatch
    <3>2. ASSUME NEW j \in 1 .. Len(publishing'), publishing'[j].then = "batch" PROVE j = i
      <4>1. j + 1 = i + 1
        BY <1>2, <3>1, <3>2
      <4>. QED
        BY <4>1
    <3>. QED
      BY <2>3, <3>1, <3>2
  <2>. QED
    BY <2>3, <2>4 DEF FoldInv, OneBatch
<1>6. CASE update.then = "batch"
  <2> DEFINE it == Head(batcher.chain).items
  <2>1. Ahead /\ \A j \in 1 .. Len(publishing) : publishing[j].then = "batch" => j = 1
    BY <1>2, <1>6 DEF FoldInv, OneBatch
  <2>2. HeadBatch(it) /\ it \in Data
    BY <2>1, BaseIs, HeadItems DEF FoldInv
  <2>3. batcher' = Popped /\ apps' = Handled(it, "done")
    BY <1>6 DEF Accept
  <2>4. Shifted(batcher, batcher') /\ HandledAs(apps, apps', it, "done")
    BY <2>2, <2>3, PoppedShifts, HandledIs DEF HeadBatch
  <2> HIDE DEF it
  <2>5. Base = it[1] - 1
    BY <2>1, <2>2, BaseIs DEF FoldInv
  <2>6. Sound => source'.data = Upto(it[Len(it)])
    <3>1. Last(Head(batcher.chain).items) = it[Len(it)]
      BY <2>2, BaseIs DEF FoldInv
    <3>2. Sound => Folded
      BY DEF Sound, Whole, CutShort
    <3>. QED
      BY <1>3, <2>1, <3>1, <3>2 DEF Folded
  <2>7. InLine' /\ Placed' /\ InStep' /\ ~Ahead'
    BY <1>4, <2>2, <2>4, <2>5, <2>6, HeadDone
  <2>8. OneBatch'
    <3>1. \A i \in 1 .. Len(publishing') : publishing'[i].then # "batch"
      <4>1. ASSUME NEW i \in 1 .. Len(publishing'), publishing'[i].then = "batch" PROVE FALSE
        <5>1. i + 1 = 1
          BY <1>2, <2>1, <4>1
        <5>. QED
          BY <5>1
      <4>. QED
        BY <4>1
    <3>. QED
      BY <3>1 DEF OneBatch
  <2>. QED
    BY <2>7, <2>8 DEF FoldInv
<1>. QED
  BY <1>5, <1>6

LEMMA NoBatch ==
    ASSUME FoldInv, ~Ahead, publishing' = publishing PROVE OneBatch'
BY DEF FoldInv, OneBatch

LEMMA FoldFails ==
    ASSUME Kept, Kept', FoldInv, BatchFails \/ (BatchStarts /\ batcher.barrierFailure) PROVE FoldInv'
<1> DEFINE it == Head(batcher.chain).items
<1>1. /\ batcher' = Popped /\ apps' = Handled(it, "failed") /\ batcher.chain # <<>> /\ Head(batcher.chain).kind = "batch"
      /\ ~Ahead /\ UNCHANGED <<sub, store, lease, published, source, publishing>>
  BY DEF BatchFails, BatchStarts, Working, Ahead, world
<1>2. HeadBatch(it)
  BY <1>1 DEF HeadBatch
<1>3. it \in Data
  BY <1>2, HeadItems DEF FoldInv
<1>4. Shifted(batcher, batcher') /\ HandledAs(apps, apps', it, "failed")
  BY <1>1, <1>3, PoppedShifts, HandledIs
<1> HIDE DEF it
<1>5. InLine' /\ Placed' /\ InStep' /\ ~Ahead'
  BY <1>1, <1>2, <1>4, HeadFails
<1>6. OneBatch'
  BY <1>1, NoBatch
<1>. QED
  BY <1>5, <1>6 DEF FoldInv

\* The first link goes on to its next stage.
LEMMA MarkedLinks ==
    ASSUME Kept, batcher.chain # <<>>, NEW l \in Links, l.items = Head(batcher.chain).items,
           l.kind = Head(batcher.chain).kind, l.commit = Head(batcher.chain).commit,
           batcher' = [batcher EXCEPT !.chain = [batcher.chain EXCEPT ![1] = l]]
    PROVE  /\ SameLinks(batcher, batcher') /\ batcher'.chain # <<>> /\ Head(batcher'.chain) = l
<1>1. batcher \in Batchers /\ batcher.chain \in Seq(Links) /\ Len(batcher.chain) \in Nat \ {0} /\ 1 \in 1 .. Len(batcher.chain)
      /\ Head(batcher.chain) = batcher.chain[1]
  <2>1. batcher \in Batchers /\ batcher.chain \in Seq(Links)
    BY ItemsTyped DEF Kept, Formed
  <2>2. Len(batcher.chain) \in Nat \ {0}
    BY <2>1, EmptySeq
  <2>. QED
    BY <2>1, <2>2
<1> DEFINE c == [batcher.chain EXCEPT ![1] = l]
<1>2. /\ c \in Seq(Links) /\ Len(c) = Len(batcher.chain)
      /\ \A j \in 1 .. Len(c) : c[j] = IF j = 1 THEN l ELSE batcher.chain[j]
  BY <1>1, ExceptSeq
<1> HIDE DEF c
<1>3. batcher'.chain = c /\ batcher'.pending = batcher.pending /\ batcher'.cancelled = batcher.cancelled
  BY <1>1 DEF c, Batchers
<1>4. \A i \in 1 .. Len(batcher.chain) : /\ c[i].items = batcher.chain[i].items
                                          /\ c[i].kind = batcher.chain[i].kind
                                          /\ c[i].commit = batcher.chain[i].commit
  BY <1>1, <1>2
<1>5. c # <<>> /\ Head(c) = l
  <2>1. c # <<>>
    BY <1>1, <1>2, EmptySeq
  <2>2. Head(c) = c[1]
    OBVIOUS
  <2>3. c[1] = l
    BY <1>1, <1>2
  <2>. QED
    BY <2>1, <2>2, <2>3
<1>. QED
  BY <1>2, <1>3, <1>4, <1>5 DEF SameLinks, SameItems

LEMMA FoldStarts ==
    ASSUME Kept, Kept', FoldInv, BatchStarts, ~batcher.barrierFailure PROVE FoldInv'
<1>1. /\ batcher' = [batcher EXCEPT !.chain[1].stage = "reducing", !.chain[1].base = source.data]
      /\ batcher.chain # <<>> /\ Head(batcher.chain).stage = "queued"
      /\ UNCHANGED <<sub, store, lease, published, source, publishing, apps>>
  BY DEF BatchStarts, Working, world
<1> DEFINE l == [Head(batcher.chain) EXCEPT !.stage = "reducing", !.base = source.data]
<1>2. Head(batcher.chain) \in Links /\ Head(batcher.chain) = batcher.chain[1] /\ source.data \in Data /\ published \in Nat
      /\ batcher \in Batchers
  BY <1>1, ChainShrinks, ItemsTyped, Parts, KeptMeans DEF Kept, Formed
<1>3. /\ l \in Links /\ l.items = Head(batcher.chain).items /\ l.kind = Head(batcher.chain).kind
      /\ l.commit = Head(batcher.chain).commit /\ l.stage = "reducing"
  BY <1>2 DEF Links, Stages
<1>4. batcher' = [batcher EXCEPT !.chain = [batcher.chain EXCEPT ![1] = l]]
  BY <1>1, <1>2 DEF Batchers
<1> HIDE DEF l
<1>5. SameLinks(batcher, batcher') /\ batcher'.chain # <<>> /\ Head(batcher'.chain) = l
  BY <1>1, <1>3, <1>4, MarkedLinks
<1>6. InLine' /\ Placed'
  BY <1>1, <1>2, <1>5, LinksStay DEF FoldInv
<1>7. ~Ahead /\ ~Ahead'
  BY <1>1, <1>3, <1>5 DEF Ahead, Working
<1>8. Base = Len(source.data) /\ Base' = Len(source.data)
  BY <1>1, <1>7 DEF Base
<1>9. Folded => Folded'
  BY <1>1, <1>7, <1>8 DEF Folded
<1>10. InStep'
  BY <1>1, <1>8, <1>9, StillInStep DEF FoldInv, Sound, Whole, CutShort
<1>11. OneBatch'
  BY <1>1, <1>7, NoBatch
<1>. QED
  BY <1>6, <1>10, <1>11 DEF FoldInv

LEMMA FoldReduced ==
    ASSUME Kept, Kept', FoldInv, BatchReduced PROVE FoldInv'
<1> DEFINE batch == Head(batcher.chain)
           it == batch.items
           folded == [source EXCEPT !.data = batch.base \o batch.items, !.cursor = Last(batch.items)]
           phase == IF lease.phase \in Recovering THEN "reconnecting" ELSE "live"
<1>1. /\ batcher.chain # <<>> /\ batch.kind = "batch" /\ batch.stage = "reducing" /\ ~Ahead
      /\ UNCHANGED <<sub, store, lease, published>>
  BY DEF BatchReduced, Working, Ahead, world
<1>2. HeadBatch(it)
  BY <1>1 DEF HeadBatch
<1>3. batch \in Links /\ batch = batcher.chain[1] /\ source.data \in Data /\ published \in Nat /\ source \in Sources
      /\ batch.base = source.data /\ batcher \in Batchers
  <2>1. batch \in Links /\ batch = batcher.chain[1] /\ 1 \in 1 .. Len(batcher.chain)
    BY <1>1, ChainShrinks, ItemsTyped DEF Kept, Formed
  <2>2. batch.base = source.data
    BY <1>1, <2>1 DEF Kept, Formed, HeadFirst
  <2>. QED
    BY <2>1, <2>2, Parts, KeptMeans DEF Kept, States, Formed
<1>4. it \in Data /\ it # <<>> /\ Run(it) /\ it[Len(it)] \in Nat /\ it[1] \in Nat
  BY <1>2, HeadItems DEF FoldInv
<1>5. source'.data = source.data \o it
  <2>1. folded.data = source.data \o it /\ \A p : Said(folded, p).data = folded.data
    BY <1>3 DEF Said, Sources
  <2>2. source' = Said(folded, phase) \/ source' = folded
    BY DEF BatchReduced
  <2>. QED
    BY <2>1, <2>2
<1>6. Base = Len(source.data)
  BY <1>1 DEF Base
<1> HIDE DEF batch, it, folded, phase
<1>7. ASSUME Sound
      PROVE  /\ it[1] = Base + 1 /\ source'.data = Upto(Len(source'.data))
             /\ Len(source'.data) = it[Len(it)] /\ Folded
  <2>1. it[1] = Base + 1 /\ Folded
    BY <1>2, <1>7, HeadIsNext DEF FoldInv, Sound, Whole, CutShort
  <2>2. source.data = Upto(Len(source.data))
    BY <2>1 DEF Folded
  <2>. QED
    BY <1>3, <1>4, <1>5, <1>6, <2>1, <2>2, UptoGrows
<1>8. CASE source.hydrated
  <2> DEFINE l == [batch EXCEPT !.stage = "publishing"]
             u == Update(folded, phase, "batch")
  <2>1. batcher' = [batcher EXCEPT !.chain[1].stage = "publishing"] /\ apps' = apps
        /\ publishing' = Append(publishing, u)
    BY <1>8 DEF BatchReduced, batch, it, folded, phase
  <2>2. /\ l \in Links /\ l.items = batch.items /\ l.kind = batch.kind
        /\ l.commit = batch.commit /\ l.stage = "publishing"
    BY <1>3 DEF Links, Stages
  <2>3. batcher' = [batcher EXCEPT !.chain = [batcher.chain EXCEPT ![1] = l]]
    BY <1>3, <2>1 DEF Batchers
  <2>u. u.then = "batch"
    BY DEF Update
  <2> HIDE DEF l, u
  <2>4. SameLinks(batcher, batcher') /\ batcher'.chain # <<>> /\ Head(batcher'.chain) = l
    BY <1>1, <2>2, <2>3, MarkedLinks DEF batch
  <2>5. InLine' /\ Placed'
    BY <1>1, <1>3, <2>1, <2>4, LinksStay DEF FoldInv
  <2>6. Ahead' /\ Base' = it[1] - 1
    <3>1. Ahead'
      BY <1>1, <2>2, <2>4 DEF Ahead, Working, batch
    <3>. QED
      BY <2>2, <2>4, <3>1 DEF Base, batch, it
  <2>7. Last(Head(batcher'.chain).items) = it[Len(it)]
    BY <2>2, <2>4 DEF Last, it
  <2>8. Base \in Int /\ Len(source.data) \in Nat
    BY BaseIs DEF FoldInv
  <2>9. Sound => Folded' /\ Base' = Base
    <3> SUFFICES ASSUME Sound PROVE Folded' /\ Base' = Base
      OBVIOUS
    <3>1. Base' = Base
      BY <1>4, <1>7, <2>6, <2>8
    <3>. QED
      BY <1>1, <1>7, <2>1, <2>6, <2>7, <3>1 DEF Folded
  <2>10. sub.pc \notin {"opening", "delay"}
    BY <1>1 DEF FoldInv, Placed, Starts, Fresh
  <2>11. InStep'
    BY <1>1, <2>1, <2>9, <2>10, StillInStep DEF FoldInv
  <2>12. OneBatch'
    <3>1. publishing \in Seq(Updates)
      BY DEF Kept, States
    <3>2. \A i \in 1 .. Len(publishing) : publishing[i].then # "batch"
      BY <1>1 DEF FoldInv, OneBatch
    <3>3. /\ Len(publishing') = Len(publishing) + 1 /\ Len(publishing) \in Nat
          /\ \A i \in 1 .. Len(publishing) : publishing'[i] = publishing[i]
      BY <2>1, <3>1, AppendProperties
    <3>4. \A i \in 1 .. Len(publishing') : publishing'[i].then = "batch" => i = Len(publishing) + 1
      BY <3>2, <3>3
    <3>. QED
      BY <2>6, <3>4 DEF OneBatch
  <2>. QED
    BY <2>5, <2>11, <2>12 DEF FoldInv
<1>9. CASE ~source.hydrated
  <2>1. batcher' = Popped /\ apps' = Handled(it, "done") /\ publishing' = publishing
    BY <1>9 DEF BatchReduced, batch, it
  <2>2. Shifted(batcher, batcher') /\ HandledAs(apps, apps', it, "done")
    BY <1>1, <1>4, <2>1, PoppedShifts, HandledIs
  <2>3. Sound => Base = it[1] - 1 /\ source'.data = Upto(it[Len(it)])
    <3>1. Base \in Int
      BY BaseIs DEF FoldInv
    <3>. QED
      BY <1>4, <1>7, <3>1
  <2>4. InLine' /\ Placed' /\ InStep' /\ ~Ahead'
    BY <1>1, <1>2, <2>2, <2>3, HeadDone
  <2>5. OneBatch'
    BY <1>1, <2>1, NoBatch
  <2>. QED
    BY <2>4, <2>5 DEF FoldInv
<1>. QED
  BY <1>8, <1>9

\* A barrier that passes leaves no delivery to wait for.
LEMMA FoldBarrier ==
    ASSUME Kept, Kept', FoldInv, BarrierPasses PROVE FoldInv'
<1> DEFINE commit == Head(batcher.chain).commit
<1>1. /\ batcher.chain # <<>> /\ Head(batcher.chain).kind = "barrier" /\ ~Ahead /\ Settled(commit)
      /\ \E f : batcher' = [Popped EXCEPT !.barrierFailure = f]
      /\ UNCHANGED <<sub, store, lease, published, source, publishing, apps>>
  BY DEF BarrierPasses, Working, Ahead, world
<1>2. /\ batcher \in Batchers /\ batcher' \in Batchers /\ apps \in Seq(Apps) /\ sub.position \in Nat
      /\ Lined(apps, sub.position, batcher) /\ HeadFirst(batcher.chain, source.data) /\ Ordered(batcher)
  BY DEF Kept, Formed, Loop, FoldInv, InLine, Lined, Subs
<1>3. 1 \in 1 .. Len(batcher.chain) /\ Head(batcher.chain) = batcher.chain[1] /\ Len(batcher.chain) \in Nat
  <2>1. Len(batcher.chain) \in Nat \ {0}
    BY <1>1, <1>2, ItemsTyped, EmptySeq
  <2>. QED
    BY <2>1
<1>4. 1 \in Barriers(batcher.chain)
  BY <1>1, <1>3 DEF Barriers
<1>5. ~Single(batcher) /\ ~Fresh
  BY <1>1, <1>4 DEF Single, Fresh
<1>6. Shifted(batcher, batcher')
  BY <1>1, PoppedShifts
<1>7. batcher.chain[1].items = <<>>
  BY <1>1, <1>2, <1>3 DEF Ordered
<1>8. /\ Ordered(batcher') /\ \A x : Holds(batcher', x) <=> Holds(batcher, x)
      /\ \A i \in Nat : i \in Barriers(batcher'.chain) <=> i # 0 /\ i + 1 \in Barriers(batcher.chain)
  <2>1. /\ Ordered(batcher')
        /\ \A x : Holds(batcher', x) <=> Holds(batcher, x) /\ ~(\E k \in 1 .. Len(batcher.chain[1].items) : batcher.chain[1].items[k] = x)
        /\ \A i \in Nat : i \in Barriers(batcher'.chain) <=> i # 0 /\ i + 1 \in Barriers(batcher.chain)
    BY <1>1, <1>2, <1>6, PoppedHolds DEF Shifted
  <2>2. Len(batcher.chain[1].items) = 0
    BY <1>7
  <2>. QED
    BY <2>1, <2>2
<1>9. /\ Len(batcher.chain) = Len(batcher'.chain) + 1 /\ Len(batcher'.chain) \in Nat
      /\ \A i \in 1 .. Len(batcher'.chain) : batcher'.chain[i] = batcher.chain[i + 1]
      /\ batcher'.chain # <<>> => Head(batcher'.chain).stage = "queued"
  BY <1>1, <1>2, <1>6, ShiftedLinks
<1>10. InLine'
  <2>1. Lined(apps, sub.position, batcher')
    BY <1>2, <1>6, <1>8, LinedSame DEF Shifted, Lined
  <2>. QED
    BY <1>1, <2>1 DEF InLine
<1>11. sub' = sub /\ store' = store /\ lease' = lease /\ published' = published /\ apps' = apps /\ source' = source
  BY <1>1
<1>12. Counted' /\ Flows' /\ AtNext' /\ Starts' /\ Settles'
  BY <1>5, <1>6, <1>11 DEF FoldInv, Placed, Counted, Flows, AtNext, Starts, Settles, Shifted
<1>13. Waits'
  <2>1. ASSUME sub.pc \in {"await", "final"}, NEW i \in Barriers(batcher'.chain)
        PROVE  batcher'.chain[i].commit = sub.wait
    <3>1. i \in 1 .. Len(batcher'.chain)
      BY <2>1 DEF Barriers
    <3>2. i + 1 \in Barriers(batcher.chain) /\ batcher'.chain[i] = batcher.chain[i + 1]
      BY <1>8, <1>9, <2>1, <3>1
    <3>. QED
      BY <2>1, <3>2 DEF FoldInv, Placed, Waits
  <2>2. sub.pc = "await" => Passed(apps, sub.wait)
    <3>1. sub.pc = "await" => commit = sub.wait
      BY <1>3, <1>4 DEF FoldInv, Placed, Waits
    <3>2. DOMAIN apps = 1 .. Len(apps)
      BY <1>2
    <3>. QED
      BY <1>1, <3>1, <3>2 DEF Passed, Settled
  <2>3. sub.pc = "await" => Behind(apps, batcher'.chain, sub.wait, sub.position)
    BY <2>2 DEF Behind
  <2>. QED
    BY <1>11, <2>1, <2>3 DEF FoldInv, Placed, Waits
<1>14. ~Ahead'
  BY <1>9 DEF Ahead, Working
<1>15. Base' = Base
  BY <1>1, <1>11, <1>14 DEF Base
<1>16. Folded => Folded'
  BY <1>11, <1>14, <1>15 DEF Folded
<1>17. InStep'
  BY <1>11, <1>15, <1>16, StillInStep DEF FoldInv, Sound, Whole, CutShort
<1>18. OneBatch'
  BY <1>1, NoBatch
<1>. QED
  BY <1>10, <1>12, <1>13, <1>17, <1>18 DEF FoldInv, Placed

LEMMA FoldHydrate ==
    ASSUME Kept, Kept', FoldInv, Hydrate \/ SessionLive \/ SessionEnds \/ Publish PROVE FoldInv'
<1>1. /\ UNCHANGED <<sub, store, apps, batcher, lease>> /\ source'.data = source.data
      /\ published' = published \/ published' = published + 1
  <2>1. source \in Sources
    BY DEF Kept, States
  <2>. QED
    BY <2>1 DEF Hydrate, SessionLive, SessionEnds, Publish, world, Sources
<1>2. published \in Nat
  BY Parts, KeptMeans
<1>3. InLine' /\ Placed' /\ InStep' /\ (Ahead' <=> Ahead)
  BY <1>1, <1>2, OutsideFold
<1>4. OneBatch'
  <2>1. CASE Hydrate
    <3>1. \A s : Update(s, "live", "ready").then # "batch"
      BY DEF Update
    <3>2. publishing = <<>> /\ \E s : publishing' = <<Update(s, "live", "ready")>>
      BY <2>1 DEF Hydrate
    <3>3. PICK u : publishing' = <<u>> /\ u.then # "batch"
      BY <3>1, <3>2
    <3>4. Len(publishing') = 1 /\ publishing'[1] = u
      BY <3>3
    <3>. QED
      BY <3>3, <3>4 DEF OneBatch
  <2>2. CASE ~Hydrate
    <3>1. publishing' = publishing
      BY <2>2 DEF SessionLive, SessionEnds, Publish
    <3>. QED
      BY <1>3, <3>1 DEF FoldInv, OneBatch
  <2>. QED
    BY <2>1, <2>2
<1>. QED
  BY <1>3, <1>4 DEF FoldInv

LEMMA FoldOutage ==
    ASSUME Kept, Kept', FoldInv, Outage PROVE FoldInv'
<1>1. /\ UNCHANGED <<store, apps, batcher, lease, source, publishing, published>> /\ Idle /\ sub.messages = "open"
      /\ \E end \in {"closed", "broken"} : sub' = [sub EXCEPT !.messages = end]
  BY DEF Outage
<1>2. /\ sub'.messages \in {"closed", "broken"} /\ sub'.pc = sub.pc /\ sub'.position = sub.position
      /\ sub'.wait = sub.wait /\ sub'.assigned = sub.assigned /\ sub'.rejected = sub.rejected
      /\ sub'.thrown = sub.thrown
  BY <1>1 DEF Kept, Loop, Subs
<1>3. sub.rejected = {}
  BY <1>1 DEF FoldInv, Placed, Flows
<1>4. Clean
  <2>1. ASSUME NEW i \in 1 .. Len(apps), apps[i].handled = "failed" PROVE FALSE
    <3>1. /\ Len(apps) \in Nat /\ apps # <<>> /\ 1 \in 1 .. Len(apps) /\ Head(apps) = apps[1]
      BY <2>1, AppFacts DEF FoldInv
    <3>2. apps[1].handled = "waiting"
      BY <1>1, <3>1 DEF Idle
    <3>3. 1 < i
      BY <2>1, <3>1, <3>2
    <3>4. apps[1].handled # "waiting"
      BY <1>1, <2>1, <3>1, <3>3 DEF FoldInv, InStep, Failed
    <3>. QED
      BY <3>2, <3>4
  <2>. QED
    BY <1>3, <2>1 DEF Clean, Failed
<1>5. InLine'
  BY <1>1, <1>2 DEF FoldInv, InLine
<1>6. Placed'
  BY <1>1, <1>2 DEF FoldInv, Placed, Counted, AtNext, Waits, Starts, Flows, Settles, Fresh
<1>7. source' = source /\ batcher' = batcher /\ apps' = apps /\ store' = store /\ lease' = lease /\ publishing' = publishing
  BY <1>1
<1>8. (Folded => Folded') /\ Base' = Base /\ (Ahead' <=> Ahead)
  BY <1>7, AheadSame
<1>9. Whole => Whole'
  BY <1>2, <1>7, <1>8 DEF Whole
<1>10. CutShort => CutShort'
  BY <1>2, <1>7, <1>8 DEF CutShort, Failed
<1>11. InStep'
  <2>1. Clean' /\ sub'.pc \notin {"opening", "delay"} => Whole'
    BY <1>2, <1>4, <1>9 DEF FoldInv, InStep
  <2>2. Interrupted' /\ ~lease'.closing => CutShort'
    <3>1. CASE sub.pc \notin {"opening", "delay"}
      BY <1>4, <1>10, <3>1, CleanCut DEF FoldInv, InStep
    <3>2. CASE sub.pc \in {"opening", "delay"}
      BY <1>2, <3>2 DEF Interrupted
    <3>. QED
      BY <3>1, <3>2
  <2>3. ~LastFailed'
    <3>1. Len(apps) \in Nat /\ (apps = <<>> <=> Len(apps) = 0)
      BY AppFacts DEF FoldInv
    <3>2. apps # <<>> => Len(apps) \in 1 .. Len(apps)
      BY <3>1
    <3>. QED
      BY <1>4, <1>7, <3>2 DEF LastFailed, Clean, Failed
  <2>. QED
    BY <1>2, <1>7, <2>1, <2>2, <2>3 DEF FoldInv, InStep
<1>12. OneBatch'
  BY <1>7, <1>8 DEF FoldInv, OneBatch
<1>. QED
  BY <1>5, <1>6, <1>11, <1>12 DEF FoldInv

\* The timer applies the partial batch.
LEMMA FoldTimer ==
    ASSUME Kept, Kept', FoldInv, TimerFires PROVE FoldInv'
<1>1. batcher' = Drained(batcher) /\ UNCHANGED <<sub, store, apps, lease, source, publishing, published>>
  BY DEF TimerFires, world
<1>2. /\ batcher \in Batchers /\ Formed(batcher, source.data) /\ Ordered(batcher) /\ apps \in Seq(Apps)
      /\ sub.position \in Nat /\ Lined(apps, sub.position, batcher)
  BY DEF Kept, Formed, Loop, FoldInv, InLine, Lined, Subs
<1>3. /\ batcher' \in Batchers /\ Ordered(batcher') /\ Continues(batcher, batcher')
      /\ \A x : Holds(batcher', x) <=> Holds(batcher, x)
      /\ Barriers(batcher'.chain) = Barriers(batcher.chain)
      /\ batcher'.cancelled = batcher.cancelled
      /\ batcher.pending = <<>> \/ batcher.cancelled => batcher' = batcher
      /\ batcher.pending # <<>> /\ ~batcher.cancelled =>
            /\ batcher'.pending = <<>> /\ Len(batcher'.chain) = Len(batcher.chain) + 1
  BY <1>1, <1>2, DrainedHolds
<1>4. sub' = sub /\ source' = source /\ apps' = apps /\ store' = store /\ lease' = lease /\ publishing' = publishing
      /\ published' = published
  BY <1>1
<1>5. (Ahead' <=> Ahead) /\ Base' = Base /\ (Ahead' => Head(batcher'.chain) = Head(batcher.chain))
  BY <1>3, <1>4, BaseContinues
<1>6. InLine'
  <2>1. Lined(apps, sub.position, batcher')
    BY <1>2, <1>3, LinedSame DEF Lined
  <2>. QED
    BY <1>4, <2>1 DEF InLine
<1>7. Folded => Folded'
  BY <1>4, <1>5 DEF Folded
<1>8. InStep'
  BY <1>4, <1>5, <1>7, StillInStep DEF FoldInv, Sound, Whole, CutShort
<1>9. OneBatch'
  BY <1>4, <1>5 DEF FoldInv, OneBatch
<1>10. CASE batcher' = batcher
  <2>1. Placed'
    BY <1>2, <1>4, <1>10, LinksStay, LinksSame, Parts, KeptMeans DEF FoldInv
  <2>. QED
    BY <1>6, <1>8, <1>9, <2>1 DEF FoldInv
<1>11. CASE batcher' # batcher
  <2>1. /\ batcher.pending # <<>> /\ batcher'.pending = <<>> /\ Len(batcher'.chain) = Len(batcher.chain) + 1
        /\ Len(batcher.chain) \in Nat /\ (batcher.chain = <<>> <=> Len(batcher.chain) = 0)
    BY <1>2, <1>3, <1>11, ItemsTyped, EmptySeq
  <2>2. Single(batcher) => Single(batcher')
    BY <1>3, <2>1 DEF Single
  <2>3. ~Fresh
    BY <2>1 DEF Fresh
  <2>4. Counted' /\ AtNext' /\ Starts' /\ Flows' /\ Settles'
    BY <1>3, <1>4, <2>1, <2>2, <2>3 DEF FoldInv, Placed, Counted, AtNext, Starts, Flows, Settles
  <2>5. \A i \in Barriers(batcher'.chain) : i \in 1 .. Len(batcher.chain) /\ batcher'.chain[i] = batcher.chain[i]
    BY <1>3 DEF Barriers, Continues
  <2>6. ASSUME NEW w, NEW n, Behind(apps, batcher.chain, w, n) PROVE Behind(apps, batcher'.chain, w, n)
    <3>1. ASSUME NEW i \in 1 .. Len(batcher'.chain), \E k \in 1 .. Len(batcher'.chain[i].items) : batcher'.chain[i].items[k] = n
          PROVE  (\E j \in Barriers(batcher'.chain) : j < i) \/ Passed(apps, w)
      <4>1. CASE i \in 1 .. Len(batcher.chain)
        BY <1>3, <2>6, <3>1, <4>1 DEF Behind, Continues
      <4>2. CASE i = Len(batcher.chain) + 1
        <5>1. \A j \in Barriers(batcher.chain) : j < i
          BY <2>1, <4>2 DEF Barriers
        <5>. QED
          BY <1>3, <2>6, <5>1 DEF Behind
      <4>. QED
        BY <2>1, <3>1, <4>1, <4>2
    <3>. QED
      BY <1>3, <2>6, <3>1 DEF Behind
  <2>7. Waits'
    BY <1>3, <1>4, <2>5, <2>6 DEF FoldInv, Placed, Waits
  <2>. QED
    BY <1>6, <1>8, <1>9, <2>4, <2>7 DEF FoldInv, Placed
<1>. QED
  BY <1>10, <1>11

\* The next message joins the batcher, which has room for it.
LEMMA ReceiveAdds ==
    ASSUME Kept, FoldInv, Fitting, sub.pc = "next", sub.position < published, NEW m, m = sub.position + 1
    PROVE  LET added == IF Refused(batcher, m) THEN batcher ELSE Added(batcher, m) IN
           /\ m \in Nat /\ (Refused(batcher, m) <=> batcher.cancelled)
           /\ Formed(added, source.data) /\ added \in Batchers /\ Ordered(added) /\ Continues(batcher, added)
           /\ added.cancelled = batcher.cancelled /\ Barriers(added.chain) = {}
           /\ \A x : Holds(added, x) <=> Holds(batcher, x) \/ (~batcher.cancelled /\ x = m)
           /\ added.pending # <<>> => added.pending[Len(added.pending)] = m /\ ~added.cancelled
           /\ sub.assigned = 0 /\ added.pending # <<>> => added.chain = <<>>
<1> DEFINE added == IF Refused(batcher, m) THEN batcher ELSE Added(batcher, m)
<1>1. /\ batcher \in Batchers /\ Formed(batcher, source.data) /\ Ordered(batcher) /\ apps \in Seq(Apps)
      /\ sub.position \in Nat /\ Lined(apps, sub.position, batcher) /\ PolicyType
  BY DEF Kept, Static, Formed, Loop, FoldInv, InLine, Lined, Subs
<1>2. m \in Nat
  BY <1>1
<1>3. Refused(batcher, m) <=> batcher.cancelled
  <2>1. published \in 0 .. MaxSequence /\ MaxSequence \in Nat
    BY ReducingAssumption DEF Kept, Static
  <2>2. m \in 1 .. MaxSequence
    BY <1>1, <2>1
  <2>3. Sizes[m] \in Nat /\ policy.maxBytes \in Nat /\ Sizes[m] <= policy.maxBytes
    BY <1>1, <2>2, ReducingAssumption DEF Fitting, PolicyType
  <2>4. ~(Sizes[m] > policy.maxBytes)
    BY <2>3
  <2>. QED
    BY <2>4 DEF Refused
<1>4. Single(batcher) /\ Barriers(batcher.chain) = {} /\ (sub.assigned = 0 => Fresh)
  BY DEF FoldInv, Placed, AtNext, Single
<1>5. CASE batcher.cancelled
  <2>1. added = batcher
    BY <1>3, <1>5
  <2>2. batcher.pending = <<>>
    BY <1>1, <1>5 DEF Lined
  <2>. QED
    BY <1>1, <1>2, <1>3, <1>4, <1>5, <2>1, <2>2, ContinuesOn
<1>6. CASE ~batcher.cancelled
  <2>1. added = Added(batcher, m)
    BY <1>3, <1>6
  <2>2. Next1(batcher, m)
    <3>1. \A x \in Nat : Holds(batcher, x) => x <= sub.position
      BY <1>1, LinedFacts
    <3>2. batcher.pending # <<>> => batcher.pending[Len(batcher.pending)] = sub.position
      BY <1>1 DEF Lined
    <3>. QED
      BY <1>1, <1>6, <3>1, <3>2 DEF Next1
  <2>3. /\ added \in Batchers /\ Ordered(added) /\ Continues(batcher, added) /\ ~added.cancelled
        /\ \A x : Holds(added, x) <=> Holds(batcher, x) \/ x = m
        /\ Barriers(added.chain) = Barriers(batcher.chain)
        /\ added.pending # <<>> => added.pending[Len(added.pending)] = m
        /\ batcher.pending = <<>> /\ added.pending # <<>> => added.chain = batcher.chain
    BY <1>1, <1>2, <2>1, <2>2, AddedHolds
  <2>4. Formed(added, source.data)
    BY <1>1, <1>2, <2>1, AddedFormed
  <2> HIDE DEF added
  <2>5. added.cancelled = batcher.cancelled
    BY <1>1, <1>6, <2>3 DEF Batchers
  <2>. QED
    BY <1>2, <1>3, <1>4, <1>6, <2>3, <2>4, <2>5 DEF Fresh, added
<1>. QED
  BY <1>5, <1>6

LEMMA FoldReceive ==
    ASSUME Kept, Kept', FoldInv, Fitting, Receive PROVE FoldInv'
<1> DEFINE m == sub.position + 1
           last == sub.assigned < sub.initial /\ sub.assigned + 1 = sub.initial
           added == IF Refused(batcher, m) THEN batcher ELSE Added(batcher, m)
           prev == IF sub.assigned = 0 THEN 0 ELSE sub.position
           commit == CommitTarget(added, m, prev)
           app == [at |-> m, handled |-> IF Refused(batcher, m) THEN "failed" ELSE "waiting"]
           taken == [sub EXCEPT !.position = m, !.assigned = @ + 1]
<1>1. /\ sub.pc = "next" /\ sub.messages \in {"open", "closed"} /\ sub.position < published
      /\ apps' = Append(apps, app) /\ UNCHANGED <<store, lease, source, publishing, published>>
  BY DEF Receive, world
<1>2. /\ m \in Nat /\ (Refused(batcher, m) <=> batcher.cancelled)
      /\ Formed(added, source.data) /\ added \in Batchers /\ Ordered(added) /\ Continues(batcher, added)
      /\ added.cancelled = batcher.cancelled /\ Barriers(added.chain) = {}
      /\ \A x : Holds(added, x) <=> Holds(batcher, x) \/ (~batcher.cancelled /\ x = m)
      /\ added.pending # <<>> => added.pending[Len(added.pending)] = m /\ ~added.cancelled
      /\ sub.assigned = 0 /\ added.pending # <<>> => added.chain = <<>>
  BY <1>1, ReceiveAdds
<1>3. \/ batcher' = BarrierAfter(Drained(added), m) /\ sub' = [taken EXCEPT !.pc = "await", !.wait = m]
      \/ /\ Queued(added) /\ batcher' = BarrierAfter(added, commit)
         /\ sub' = [taken EXCEPT !.pc = "await", !.wait = commit]
      \/ ~Queued(added) /\ batcher' = added /\ sub' = taken
  BY DEF Receive
<1>4. app.at = m /\ app.handled = IF batcher.cancelled THEN "failed" ELSE "waiting"
  BY <1>2
<1>5. app \in Apps
  BY <1>2, <1>4 DEF Apps
<1> HIDE DEF added, app
<1>6. /\ batcher \in Batchers /\ batcher' \in Batchers /\ apps \in Seq(Apps) /\ sub.position \in Nat
      /\ Lined(apps, sub.position, batcher) /\ sub \in Subs /\ sub.assigned \in Nat /\ store \in Nat /\ published \in Nat
  BY Parts, KeptMeans DEF Kept, Formed, Loop, FoldInv, InLine, Lined, Subs
<1>7. /\ m = sub.position + 1 /\ commit \in Nat /\ (commit = m \/ commit = prev) /\ prev \in Nat
      /\ added.pending = <<>> => commit = m
      /\ sub.assigned = 0 => prev = 0
      /\ sub.assigned # 0 => prev = sub.position
  BY <1>2, <1>6 DEF CommitTarget
<1> HIDE DEF commit
<1>8. /\ sub'.position = m /\ sub'.assigned = sub.assigned + 1 /\ sub'.messages = sub.messages
      /\ sub'.rejected = sub.rejected /\ sub'.thrown = sub.thrown
      /\ \/ sub'.pc = "await" /\ sub'.wait = m /\ batcher' = BarrierAfter(Drained(added), m)
         \/ sub'.pc = "await" /\ sub'.wait = commit /\ batcher' = BarrierAfter(added, commit) /\ Queued(added)
         \/ sub'.pc = "next" /\ batcher' = added /\ ~Queued(added)
  <2>1. PICK k \in Nat : k = sub.assigned + 1
    BY <1>6
  <2>2. taken = [sub EXCEPT !.position = m, !.assigned = k]
    BY <1>6, <2>1 DEF Subs
  <2>3. /\ taken.position = m /\ taken.assigned = k /\ taken.messages = sub.messages /\ taken.pc = sub.pc
        /\ taken.rejected = sub.rejected /\ taken.thrown = sub.thrown /\ taken \in Subs
    BY <1>2, <1>6, <2>2 DEF Subs
  <2> HIDE DEF taken
  <2>4. \A w : LET s == [taken EXCEPT !.pc = "await", !.wait = w] IN
               /\ s.pc = "await" /\ s.wait = w /\ s.position = m /\ s.assigned = k
               /\ s.messages = sub.messages /\ s.rejected = sub.rejected /\ s.thrown = sub.thrown
    BY <2>3 DEF Subs
  <2>5. CASE batcher' = BarrierAfter(Drained(added), m) /\ sub' = [taken EXCEPT !.pc = "await", !.wait = m]
    <3>1. /\ sub'.pc = "await" /\ sub'.wait = m /\ sub'.position = m /\ sub'.assigned = k
          /\ sub'.messages = sub.messages /\ sub'.rejected = sub.rejected /\ sub'.thrown = sub.thrown
      BY <2>4, <2>5
    <3>. QED
      BY <2>1, <2>5, <3>1
  <2>6. CASE /\ Queued(added) /\ batcher' = BarrierAfter(added, commit)
             /\ sub' = [taken EXCEPT !.pc = "await", !.wait = commit]
    <3>1. /\ sub'.pc = "await" /\ sub'.wait = commit /\ sub'.position = m /\ sub'.assigned = k
          /\ sub'.messages = sub.messages /\ sub'.rejected = sub.rejected /\ sub'.thrown = sub.thrown
      BY <2>4, <2>6
    <3>. QED
      BY <2>1, <2>6, <3>1
  <2>7. CASE ~Queued(added) /\ batcher' = added /\ sub' = taken
    BY <1>1, <2>1, <2>3, <2>7
  <2>. QED
    BY <1>3, <2>5, <2>6, <2>7
<1> HIDE DEF taken, m, prev
<1>9. /\ Ordered(batcher') /\ Continues(batcher, batcher') /\ batcher'.cancelled = batcher.cancelled
      /\ \A x : Holds(batcher', x) <=> Holds(batcher, x) \/ (~batcher.cancelled /\ x = m)
      /\ batcher'.pending # <<>> => batcher'.pending[Len(batcher'.pending)] = m /\ ~batcher'.cancelled
      /\ sub'.pc = "await" => \A i \in Barriers(batcher'.chain) : batcher'.chain[i].commit = sub'.wait
      /\ sub'.pc = "await" => Barriers(batcher'.chain) # {}
  <2>1. CASE batcher' = BarrierAfter(Drained(added), m) /\ sub'.pc = "await" /\ sub'.wait = m
    <3> DEFINE d == Drained(added)
    <3>1. /\ d \in Batchers /\ Ordered(d) /\ Continues(added, d) /\ Formed(d, source.data)
          /\ \A x : Holds(d, x) <=> Holds(added, x)
          /\ Barriers(d.chain) = Barriers(added.chain) /\ d.cancelled = added.cancelled
          /\ d.pending = <<>> \/ d = added
      BY <1>2, DrainedHolds, DrainedFormed
    <3> HIDE DEF d
    <3>2. /\ Ordered(batcher') /\ Continues(d, batcher')
          /\ \A x : Holds(batcher', x) <=> Holds(d, x)
          /\ Barriers(batcher'.chain) = Barriers(d.chain) \cup {Len(d.chain) + 1}
          /\ Len(batcher'.chain) = Len(d.chain) + 1 /\ batcher'.chain[Len(d.chain) + 1] = Barrier(m)
          /\ batcher'.cancelled = d.cancelled /\ batcher'.pending = d.pending
      BY <1>2, <2>1, <3>1, BarrierHolds DEF d
    <3>3. Continues(batcher, batcher')
      BY <1>2, <1>6, <3>1, <3>2, ContinuesOn
    <3>4. Barrier(m).commit = m
      BY DEF Barrier
    <3>. QED
      BY <1>2, <2>1, <3>1, <3>2, <3>3, <3>4
  <2>2. CASE batcher' = BarrierAfter(added, commit) /\ sub'.pc = "await" /\ sub'.wait = commit
    <3>2. /\ Ordered(batcher') /\ Continues(added, batcher')
          /\ \A x : Holds(batcher', x) <=> Holds(added, x)
          /\ Barriers(batcher'.chain) = Barriers(added.chain) \cup {Len(added.chain) + 1}
          /\ Len(batcher'.chain) = Len(added.chain) + 1 /\ batcher'.chain[Len(added.chain) + 1] = Barrier(commit)
          /\ batcher'.cancelled = added.cancelled /\ batcher'.pending = added.pending
      BY <1>2, <1>7, <2>2, BarrierHolds
    <3>3. Continues(batcher, batcher')
      BY <1>2, <1>6, <3>2, ContinuesOn
    <3>4. Barrier(commit).commit = commit
      BY DEF Barrier
    <3>. QED
      BY <1>2, <2>2, <3>2, <3>3, <3>4
  <2>3. CASE batcher' = added /\ sub'.pc = "next"
    BY <1>2, <2>3
  <2>. QED
    BY <1>8, <2>1, <2>2, <2>3
<1>10. /\ Lined(apps', m, batcher') /\ Len(apps') = Len(apps) + 1 /\ apps'[Len(apps) + 1] = app
       /\ \A i \in 1 .. Len(apps) : apps'[i] = apps[i]
  <2>1. \A x : Holds(batcher', x) <=> Holds(batcher, x) \/ (app.handled = "waiting" /\ x = sub.position + 1)
    BY <1>4, <1>7, <1>9
  <2>2. app.at = sub.position + 1
    BY <1>4, <1>7
  <2>3. batcher'.pending # <<>> => batcher'.pending[Len(batcher'.pending)] = sub.position + 1
    BY <1>7, <1>9
  <2>4. batcher'.cancelled => batcher'.pending = <<>>
    BY <1>9
  <2>5. /\ Lined(Append(apps, app), sub.position + 1, batcher') /\ Len(Append(apps, app)) = Len(apps) + 1
        /\ Append(apps, app)[Len(apps) + 1] = app
        /\ \A i \in 1 .. Len(apps) : Append(apps, app)[i] = apps[i]
    BY <1>5, <1>6, <1>9, <2>1, <2>2, <2>3, <2>4, LinedGrows
  <2>. QED
    BY <1>1, <1>7, <2>5
<1>11. InLine'
  BY <1>8, <1>10 DEF InLine
<1>12. (Ahead' <=> Ahead) /\ Base' = Base /\ (Ahead' => Head(batcher'.chain) = Head(batcher.chain))
  BY <1>1, <1>9, BaseContinues
<1>13. OneBatch'
  BY <1>1, <1>12 DEF FoldInv, OneBatch
<1>14. Counted' /\ Starts' /\ Flows' /\ Settles'
  <2>1. sub'.pc \in {"await", "next"}
    BY <1>8
  <2>2. Counted'
    BY <1>1, <1>6, <1>7, <1>8 DEF FoldInv, Placed, Counted
  <2>3. Flows'
    BY <1>1, <1>8, <1>9 DEF FoldInv, Placed, Flows
  <2>. QED
    BY <1>1, <1>9, <2>1, <2>2, <2>3 DEF FoldInv, Placed, Starts, Settles
<1>15. AtNext'
  <2>1. ASSUME sub'.pc = "next" PROVE Single(batcher') /\ sub'.assigned # 0
    <3>1. batcher' = added /\ ~Queued(added)
      BY <1>8, <2>1
    <3>2. added.chain \in Seq(Links) /\ Len(added.chain) \in Nat /\ DOMAIN added.chain = 1 .. Len(added.chain)
          /\ (added.chain = <<>> <=> Len(added.chain) = 0)
      BY <1>2, ItemsTyped, EmptySeq
    <3>3. \A i \in 1 .. Len(added.chain) : FALSE
      <4>1. ASSUME NEW i \in 1 .. Len(added.chain) PROVE FALSE
        <5>1. added.chain[i].kind = "batch" \/ added.chain[i].kind = "barrier"
          BY <1>2, <4>1, ItemsTyped DEF Links
        <5>2. added.chain[i].kind # "batch"
          BY <3>1, <3>2, <4>1 DEF Queued
        <5>3. added.chain[i].kind # "barrier"
          BY <1>2, <4>1 DEF Barriers
        <5>. QED
          BY <5>1, <5>2, <5>3
      <4>. QED
        BY <4>1
    <3>4. added.chain = <<>> /\ Len(added.chain) = 0
      <4>1. Len(added.chain) = 0
        BY <3>2, <3>3
      <4>. QED
        BY <3>2, <4>1
    <3>5. Single(batcher')
      BY <1>2, <3>1, <3>4 DEF Single
    <3>. QED
      BY <1>6, <1>8, <3>5
  <2>. QED
    BY <2>1 DEF AtNext
<1>16. Waits'
  <2>1. ASSUME sub'.pc = "await", sub'.wait # m PROVE sub'.wait = sub.position /\ Behind(apps', batcher'.chain, sub'.wait, m)
    <3>1. sub'.wait = commit /\ batcher' = BarrierAfter(added, commit) /\ Queued(added) /\ commit = prev
          /\ added.pending # <<>>
      BY <1>7, <1>8, <2>1
    <3>2. added.chain # <<>>
      <4>1. DOMAIN <<>> = {}
        OBVIOUS
      <4>. QED
        BY <3>1, <4>1 DEF Queued
    <3>3. sub'.wait = sub.position
      BY <1>2, <1>7, <3>1, <3>2
    <3>4. /\ Barriers(batcher'.chain) # {} /\ batcher'.pending = added.pending
      BY <1>2, <1>7, <1>9, <2>1, <3>1, BarrierHolds
    <3>5. ASSUME NEW i \in 1 .. Len(batcher'.chain), NEW k \in 1 .. Len(batcher'.chain[i].items)
          PROVE  batcher'.chain[i].items[k] # m
      <4>1. Len(batcher'.pending) \in 1 .. Len(batcher'.pending)
        <5>1. batcher'.pending # <<>> /\ Len(batcher'.pending) \in Nat
          BY <1>6, <3>1, <3>4, ItemsTyped
        <5>2. Len(batcher'.pending) # 0
          BY <1>6, <5>1, ItemsTyped, EmptySeq DEF Data
        <5>. QED
          BY <5>1, <5>2
      <4>2. batcher'.chain[i].items[k] < batcher'.pending[Len(batcher'.pending)]
        BY <1>9, <3>5, <4>1 DEF Ordered
      <4>3. batcher'.pending[Len(batcher'.pending)] = m
        BY <1>9, <3>1, <3>4
      <4>4. batcher'.chain[i].items[k] \in Nat
        BY <1>6, <3>5, ItemsTyped
      <4>. QED
        BY <1>2, <4>2, <4>3, <4>4
    <3>6. Behind(apps', batcher'.chain, sub'.wait, m)
      BY <3>4, <3>5 DEF Behind
    <3>. QED
      BY <3>3, <3>6
  <2>2. sub'.wait = m => sub'.wait + 1 # sub'.position
    BY <1>2, <1>8
  <2>3. sub'.assigned > 0
    BY <1>6, <1>8
  <2>4. sub'.pc # "final"
    BY <1>8
  <2>. QED
    BY <1>2, <1>7, <1>8, <1>9, <2>1, <2>2, <2>3, <2>4 DEF Waits
<1>17. /\ Len(apps) \in Nat /\ (apps = <<>> <=> Len(apps) = 0)
       /\ \A i \in 1 .. Len(apps) : apps[i].handled \in {"waiting", "done", "failed"}
       /\ Base \in Int
  BY AppFacts, BaseIs DEF FoldInv
<1>18. InStep'
  <2>1. ASSUME Clean' PROVE Whole'
    <3>1. ~batcher.cancelled /\ Clean
      <4>1. Len(apps) + 1 \in 1 .. Len(apps')
        BY <1>10, <1>17
      <4>2. ~batcher.cancelled
        BY <1>4, <1>10, <2>1, <4>1 DEF Clean, Failed
      <4>3. \A i \in 1 .. Len(apps) : i \in 1 .. Len(apps') /\ apps'[i] = apps[i]
        BY <1>10, <1>17
      <4>. QED
        BY <1>8, <2>1, <4>2, <4>3 DEF Clean, Failed
    <3>2. Whole
      BY <1>1, <3>1 DEF FoldInv, InStep
    <3>3. sub.position = store + Len(apps)
      BY <1>1, <3>2 DEF Whole
    <3>4. ASSUME NEW i \in 1 .. Len(apps')
          PROVE  apps'[i].at = store + i /\ (apps'[i].handled = "done" <=> apps'[i].at <= Base)
      <4>1. CASE i \in 1 .. Len(apps)
        BY <1>10, <3>2, <4>1 DEF Whole, Folded
      <4>2. CASE i = Len(apps) + 1
        <5>1. apps'[i].at = m /\ apps'[i].handled # "done"
          BY <1>4, <1>10, <4>2
        <5>2. m = store + i
          BY <1>6, <1>7, <1>17, <3>3, <4>2
        <5>3. ~(m <= Base)
          BY <1>6, <1>7, <1>17, <3>2, <3>3 DEF Whole
        <5>. QED
          BY <5>1, <5>2, <5>3
      <4>. QED
        BY <1>10, <1>17, <3>4, <4>1, <4>2
    <3>5. Folded'
      BY <1>1, <1>12, <3>2, <3>4 DEF Whole, Folded
    <3>6. Base' <= store' + Len(apps')
      BY <1>1, <1>6, <1>10, <1>12, <1>17, <3>2 DEF Whole
    <3>7. sub'.position = store' + Len(apps')
      BY <1>1, <1>6, <1>7, <1>8, <1>10, <1>17, <3>3
    <3>. QED
      BY <1>1, <3>4, <3>5, <3>6, <3>7 DEF Whole
  <2>2. ~Interrupted'
    BY <1>1, <1>8 DEF Interrupted
  <2>3. LastFailed' => lease'.closing
    <3>1. ASSUME LastFailed' PROVE batcher.cancelled
      BY <1>4, <1>10, <3>1 DEF LastFailed, Failed
    <3>. QED
      BY <1>1, <3>1 DEF FoldInv, Placed, Settles
  <2>4. ASSUME sub'.messages = "open", NEW i \in 1 .. Len(apps'), NEW j \in 1 .. Len(apps'), j < i,
               apps'[i].handled = "failed"
        PROVE  apps'[j].handled # "waiting"
    <3>1. ~batcher.cancelled
      BY <1>8, <2>4 DEF FoldInv, Placed, Flows
    <3>2. i \in 1 .. Len(apps)
      BY <1>4, <1>10, <1>17, <2>4, <3>1
    <3>3. j \in 1 .. Len(apps)
      BY <1>17, <2>4, <3>2
    <3>. QED
      BY <1>8, <1>10, <2>4, <3>2, <3>3 DEF FoldInv, InStep, Failed
  <2>5. sub'.pc \notin {"opening", "delay"}
    BY <1>8
  <2>. QED
    BY <2>1, <2>2, <2>3, <2>4, <2>5 DEF InStep, Failed
<1>. QED
  BY <1>11, <1>13, <1>14, <1>15, <1>16, <1>18 DEF FoldInv, Placed

\* A delivery that is done or has failed leaves the chain of applications.
LEMMA DeliveryLeaves ==
    ASSUME Kept, Kept', FoldInv, apps # <<>>, Head(apps).handled # "waiting", apps' = Tail(apps),
           batcher' = batcher, sub'.pc = sub.pc, sub'.position = sub.position, sub'.wait = sub.wait,
           sub'.assigned = sub.assigned, sub'.thrown = sub.thrown,
           sub'.messages = "open" => sub.messages = "open" /\ sub'.rejected = sub.rejected,
           lease'.closing = lease.closing, published' = published, store' <= published
    PROVE  /\ InLine' /\ Placed' /\ sub.pc \notin {"opening", "delay"}
           /\ Len(apps') = Len(apps) - 1 /\ Head(apps) = apps[1] /\ 1 \in 1 .. Len(apps)
           /\ \A i \in 1 .. Len(apps') : apps'[i] = apps[i + 1] /\ i + 1 \in 1 .. Len(apps)
<1>1. /\ batcher \in Batchers /\ apps \in Seq(Apps) /\ sub.position \in Nat
      /\ Lined(apps, sub.position, batcher) /\ store \in Nat /\ published \in Nat
  BY Parts, KeptMeans DEF Kept, Formed, Loop, FoldInv, InLine, Lined, Subs
<1>2. /\ Lined(apps', sub.position, batcher) /\ Len(apps') = Len(apps) - 1 /\ Head(apps) = apps[1]
      /\ \A i \in 1 .. Len(apps') : apps'[i] = apps[i + 1] /\ i + 1 \in 1 .. Len(apps)
  BY <1>1, LinedShrinks
<1>3. InLine'
  BY <1>2 DEF InLine
<1>4. ~Fresh
  BY DEF Fresh
<1>5. sub.pc \notin {"opening", "delay"}
  BY <1>4 DEF FoldInv, Placed, Starts
<1>6. Counted' /\ AtNext' /\ Starts' /\ Flows' /\ Settles'
  BY <1>4, <1>5 DEF FoldInv, Placed, Counted, AtNext, Starts, Flows, Settles
<1>7. \A w : Passed(apps, w) => Passed(apps', w)
  BY <1>2 DEF Passed
<1>8. \A c, w, n : Behind(apps, c, w, n) => Behind(apps', c, w, n)
  BY <1>7 DEF Behind
<1>9. Waits'
  BY <1>8 DEF FoldInv, Placed, Waits
<1>10. 1 \in 1 .. Len(apps)
  BY <1>1, LinedFacts
<1>. QED
  BY <1>2, <1>3, <1>5, <1>6, <1>9, <1>10 DEF Placed

LEMMA FoldCommit ==
    ASSUME Kept, Kept', FoldInv, Commit PROVE FoldInv'
<1>1. /\ apps # <<>> /\ Head(apps).handled = "done" /\ apps' = Tail(apps) /\ store' = Head(apps).at
      /\ UNCHANGED <<batcher, session, published>>
  BY DEF Commit, CommitReady, world
<1>2. /\ sub'.pc = sub.pc /\ sub'.position = sub.position /\ sub'.wait = sub.wait
      /\ sub'.assigned = sub.assigned /\ sub'.thrown = sub.thrown /\ sub'.messages = sub.messages
      /\ sub'.rejected = sub.rejected
  BY DEF Commit, Kept, Loop, Subs
<1>3. lease'.closing = lease.closing
  <2>1. \A p, c : CaughtUp([lease EXCEPT !.phase = p], c).closing = lease.closing
    BY DEF CaughtUp, Kept, Loop, LeaseType
  <2>2. \A p : [lease EXCEPT !.phase = p].closing = lease.closing
    BY DEF Kept, Loop, LeaseType
  <2>3. \/ lease' = lease
        \/ \E p, c : lease' = CaughtUp([lease EXCEPT !.phase = p], c)
        \/ \E p : lease' = [lease EXCEPT !.phase = p]
    BY DEF Commit
  <2>4. ASSUME NEW p, NEW c, lease' = CaughtUp([lease EXCEPT !.phase = p], c)
        PROVE  lease'.closing = lease.closing
    BY <2>1, <2>4
  <2>5. ASSUME NEW p, lease' = [lease EXCEPT !.phase = p]
        PROVE  lease'.closing = lease.closing
    BY <2>2, <2>5
  <2>. QED
    BY <2>3, <2>4, <2>5
<1>4. source'.data = source.data
  BY LeaseKept
<1>5. (Ahead' <=> Ahead) /\ Base' = Base
  BY <1>1, <1>4, AheadSame
<1>6. /\ Len(apps) \in Nat /\ (apps = <<>> <=> Len(apps) = 0)
      /\ \A i \in 1 .. Len(apps) : apps[i].at \in Nat /\ apps[i].at <= sub.position
      /\ sub.position \in Nat /\ store \in Nat /\ Base \in Int /\ published \in Nat
  BY AppFacts, BaseIs, Parts, KeptMeans DEF FoldInv
<1>7. store' <= published
  <2>1. Head(apps) = apps[1] /\ 1 \in 1 .. Len(apps)
    BY <1>1, <1>6
  <2>2. apps[1].at \in Nat /\ apps[1].at <= sub.position /\ sub.position <= published
    BY <1>6, <2>1 DEF FoldInv, Placed, Counted
  <2>. QED
    BY <1>1, <1>6, <2>1, <2>2
<1>8. /\ InLine' /\ Placed' /\ sub.pc \notin {"opening", "delay"}
      /\ Len(apps') = Len(apps) - 1 /\ Head(apps) = apps[1] /\ 1 \in 1 .. Len(apps)
      /\ \A i \in 1 .. Len(apps') : apps'[i] = apps[i + 1] /\ i + 1 \in 1 .. Len(apps)
  BY <1>1, <1>2, <1>3, <1>7, DeliveryLeaves
<1>9. Clean' => Clean
  <2>1. ASSUME Clean', NEW i \in 1 .. Len(apps) PROVE apps[i].handled # "failed"
    <3>1. CASE i = 1
      BY <1>1, <1>8, <3>1
    <3>2. CASE i # 1
      <4>1. i - 1 \in 1 .. Len(apps') /\ (i - 1) + 1 = i
        BY <1>6, <1>8, <3>2
      <4>. QED
        BY <1>8, <2>1, <4>1 DEF Clean, Failed
    <3>. QED
      BY <3>1, <3>2
  <2>. QED
    BY <1>2, <2>1 DEF Clean, Failed
<1>10. ASSUME Folded PROVE Folded'
  <2>1. apps[1].at <= Base
    BY <1>1, <1>8, <1>10 DEF Folded
  <2>2. \A i \in 1 .. Len(apps') : apps'[i].handled = "done" <=> apps'[i].at <= Base
    BY <1>8, <1>10 DEF Folded
  <2>. QED
    BY <1>1, <1>4, <1>5, <1>8, <1>10, <2>1, <2>2 DEF Folded
<1>11. ASSUME \A i \in 1 .. Len(apps) : apps[i].at = store + i, Base <= store + Len(apps)
       PROVE  /\ store' = store + 1 /\ store' + Len(apps') = store + Len(apps) /\ Base' <= store' + Len(apps')
              /\ \A i \in 1 .. Len(apps') : apps'[i].at = store' + i
  <2>1. store' = store + 1
    BY <1>1, <1>8, <1>11
  <2>2. store' + Len(apps') = store + Len(apps)
    BY <1>6, <1>8, <2>1
  <2>3. ASSUME NEW i \in 1 .. Len(apps') PROVE apps'[i].at = store' + i
    <3>1. apps'[i].at = store + (i + 1)
      BY <1>8, <1>11
    <3>. QED
      BY <1>6, <2>1, <3>1
  <2>. QED
    BY <1>5, <1>11, <2>1, <2>2, <2>3
<1>12. Whole => Whole'
  BY <1>2, <1>10, <1>11 DEF Whole
<1>13. ASSUME CutShort PROVE CutShort'
  <2>1. sub.rejected = {}
    BY <1>1, <1>8, <1>13 DEF CutShort, Failed
  <2>2. /\ Base' <= store' + Len(apps') /\ \A i \in 1 .. Len(apps') : apps'[i].at = store' + i
    BY <1>11, <1>13, <2>1 DEF CutShort
  <2>3. \A i, j \in 1 .. Len(apps') : i < j /\ apps'[i].handled = "failed" => apps'[j].handled = "failed"
    <3>1. ASSUME NEW i \in 1 .. Len(apps'), NEW j \in 1 .. Len(apps'), i < j, apps'[i].handled = "failed"
          PROVE  apps'[j].handled = "failed"
      <4>1. i + 1 < j + 1 /\ apps[i + 1].handled = "failed"
        BY <1>8, <3>1
      <4>2. apps[j + 1].handled = "failed"
        BY <1>8, <1>13, <4>1 DEF CutShort, Failed
      <4>. QED
        BY <1>8, <4>2
    <3>. QED
      BY <3>1
  <2>. QED
    BY <1>2, <1>10, <1>13, <2>1, <2>2, <2>3 DEF CutShort, Failed
<1>14. InStep'
  <2>1. Clean' /\ sub'.pc \notin {"opening", "delay"} => Whole'
    BY <1>2, <1>9, <1>12 DEF FoldInv, InStep
  <2>2. Interrupted' /\ ~lease'.closing => CutShort'
    BY <1>2, <1>3, <1>13 DEF FoldInv, InStep, Interrupted
  <2>3. LastFailed' => lease'.closing
    <3>1. ASSUME LastFailed' PROVE lease.closing
      <4>1. sub.pc = "await" /\ sub.wait + 1 = sub.position /\ sub.rejected = {} /\ apps' # <<>>
            /\ apps'[Len(apps')].handled = "failed"
        BY <1>2, <3>1 DEF LastFailed, Failed
      <4>2. Len(apps') \in 1 .. Len(apps')
        <5>1. apps' \in Seq(Apps)
          BY DEF Kept, Loop
        <5>2. Len(apps') \in Nat /\ Len(apps') # 0
          BY <4>1, <5>1, EmptySeq
        <5>. QED
          BY <5>2
      <4>3. apps'[Len(apps')] = apps[Len(apps)] /\ Len(apps) > 1
        BY <1>6, <1>8, <4>2
      <4>4. LastFailed
        BY <1>1, <4>1, <4>3 DEF LastFailed, Failed
      <4>5. ~lease.closing => Len(apps) = 1
        BY <4>4 DEF FoldInv, InStep
      <4>. QED
        BY <4>3, <4>5
    <3>. QED
      BY <1>3, <3>1
  <2>4. ASSUME sub'.messages = "open", NEW i \in 1 .. Len(apps'), NEW j \in 1 .. Len(apps'), j < i,
               apps'[i].handled = "failed"
        PROVE  apps'[j].handled # "waiting"
    <3>1. j + 1 < i + 1
      BY <2>4
    <3>. QED
      BY <1>2, <1>8, <2>4, <3>1 DEF FoldInv, InStep, Failed
  <2>. QED
    BY <1>2, <1>8, <2>1, <2>2, <2>3, <2>4 DEF InStep, Failed
<1>15. OneBatch'
  <2>1. (\E phase : Announces(phase)) \/ publishing' = publishing
    BY DEF Commit
  <2>2. publishing' = publishing => OneBatch'
    BY <1>5 DEF FoldInv, OneBatch
  <2>. QED
    BY <1>5, <2>1, <2>2, OneBatchAnnounced DEF FoldInv
<1>. QED
  BY <1>8, <1>14, <1>15 DEF FoldInv

LEMMA FoldReject ==
    ASSUME Kept, Kept', FoldInv, Reject PROVE FoldInv'
<1>1. /\ apps # <<>> /\ Head(apps).handled = "failed" /\ apps' = Tail(apps)
      /\ UNCHANGED <<store, lease, batcher, source, publishing, published>>
  BY DEF Reject, world
<1>2. /\ sub'.pc = sub.pc /\ sub'.position = sub.position /\ sub'.wait = sub.wait
      /\ sub'.assigned = sub.assigned /\ sub'.thrown = sub.thrown
      /\ sub'.messages = IF sub.messages = "open" THEN "closed" ELSE sub.messages
      /\ sub'.rejected = sub.rejected \cup {Head(apps).at}
  BY DEF Reject, Kept, Loop, Subs
<1>3. sub'.messages # "open" /\ sub'.rejected # {} /\ (sub'.messages = "broken" => sub.messages = "broken")
  BY <1>2
<1>4. store <= published
  BY DEF FoldInv, Placed, Counted
<1>5. /\ InLine' /\ Placed' /\ sub.pc \notin {"opening", "delay"}
      /\ Len(apps') = Len(apps) - 1 /\ Head(apps) = apps[1] /\ 1 \in 1 .. Len(apps)
      /\ \A i \in 1 .. Len(apps') : apps'[i] = apps[i + 1] /\ i + 1 \in 1 .. Len(apps)
  BY <1>1, <1>2, <1>3, <1>4, DeliveryLeaves
<1>6. (Ahead' <=> Ahead) /\ Base' = Base /\ source'.data = source.data
  BY <1>1, AheadSame
<1>7. /\ Len(apps) \in Nat /\ \A i \in 1 .. Len(apps) : apps[i].at \in Nat
      /\ store \in Nat /\ Base \in Int
  BY AppFacts, BaseIs DEF FoldInv
<1>8. Failed(1)
  BY <1>1, <1>5 DEF Failed
<1>9. ASSUME CutShort PROVE CutShort'
  <2>1. \A i \in 1 .. Len(apps) : apps[i].handled = "failed"
    <3>1. ASSUME NEW i \in 1 .. Len(apps) PROVE Failed(i)
      <4>1. CASE i = 1
        BY <1>8, <4>1
      <4>2. CASE 1 < i
        BY <1>5, <1>8, <1>9, <4>2 DEF CutShort
      <4>. QED
        BY <4>1, <4>2
    <3>. QED
      BY <3>1 DEF Failed
  <2>2. store = Base
    <3>1. CASE sub.rejected = {}
      <4>1. apps[1].at = store + 1 /\ store <= Base
        BY <1>5, <1>9, <3>1 DEF CutShort, Folded
      <4>2. ~(apps[1].at <= Base)
        BY <1>1, <1>5, <1>9 DEF CutShort, Folded
      <4>. QED
        BY <1>7, <4>1, <4>2
    <3>2. CASE sub.rejected # {}
      BY <1>9, <3>2 DEF CutShort
    <3>. QED
      BY <3>1, <3>2
  <2>3. \A i \in 1 .. Len(apps') : apps'[i].handled = "failed"
    BY <1>5, <2>1
  <2>4. Folded'
    <3>1. \A i \in 1 .. Len(apps') : apps'[i].handled = "done" <=> apps'[i].at <= Base
      BY <1>5, <1>9 DEF CutShort, Folded
    <3>. QED
      BY <1>1, <1>6, <1>9, <3>1 DEF CutShort, Folded
  <2>. QED
    BY <1>1, <1>3, <1>6, <2>2, <2>3, <2>4 DEF CutShort, Failed
<1>10. InStep'
  <2>1. ~Clean'
    BY <1>3 DEF Clean
  <2>2. Interrupted' /\ ~lease'.closing => CutShort'
    BY <1>1, <1>2, <1>3, <1>9 DEF FoldInv, InStep, Interrupted
  <2>3. ~LastFailed'
    BY <1>3 DEF LastFailed
  <2>. QED
    BY <1>2, <1>3, <1>5, <2>1, <2>2, <2>3 DEF InStep
<1>11. OneBatch'
  BY <1>1, <1>6 DEF FoldInv, OneBatch
<1>. QED
  BY <1>5, <1>10, <1>11 DEF FoldInv

-----------------------------------------------------------------------------
(***************************************************************************)
(* The ends of a subscription.                                             *)
(***************************************************************************)
\* A subscription without deliveries holds nothing.
LEMMA FreshWhole ==
    ASSUME Kept, InLine, Fresh
    PROVE  /\ ~Ahead /\ Base = Len(source.data) /\ Len(apps) = 0
           /\ source.data = Upto(store) /\ sub.pc \notin {"next", "await", "final"} => Whole
           /\ source.data = Upto(store) => CutShort
           /\ Whole \/ CutShort => source.data = Upto(store)
<1>1. ~Ahead /\ apps = <<>> /\ Len(apps) = 0
  BY DEF Fresh, Ahead, Working
<1>2. Base = Len(source.data) /\ Base \in Int /\ store \in Nat /\ sub.rejected \in SUBSET Nat
  BY <1>1, BaseIs, AppFacts
<1>3. source.data = Upto(store) => Folded /\ Base = store
  BY <1>1, <1>2, UptoIs DEF Folded
<1>4. source.data = Upto(store) /\ sub.pc \notin {"next", "await", "final"} => Whole
  BY <1>1, <1>2, <1>3 DEF Whole
<1>5. source.data = Upto(store) => CutShort
  BY <1>1, <1>2, <1>3 DEF CutShort
<1>6. Whole => source.data = Upto(store)
  BY <1>1, <1>2 DEF Whole, Folded
<1>7. CutShort => source.data = Upto(store)
  <2>1. CASE sub.rejected = {}
    BY <1>1, <1>2, <2>1 DEF CutShort, Folded
  <2>2. CASE sub.rejected # {}
    BY <1>1, <1>2, <2>2 DEF CutShort, Folded
  <2>. QED
    BY <2>1, <2>2
<1>. QED
  BY <1>1, <1>2, <1>4, <1>5, <1>6, <1>7

\* cancel(): the partial batch fails, and nothing else moves.
LEMMA CancelFold ==
    ASSUME Kept, FoldInv, Cancel
    PROVE  /\ batcher'.chain = batcher.chain /\ batcher'.pending = <<>> /\ batcher'.cancelled
           /\ Lined(apps', sub.position, batcher')
           /\ Len(apps') = Len(apps) /\ \A i \in 1 .. Len(apps) : apps'[i].at = apps[i].at
           /\ batcher.pending = <<>> => \A i \in 1 .. Len(apps) : apps'[i].handled = apps[i].handled
           /\ batcher.pending # <<>> => \E i \in 1 .. Len(apps) : apps'[i].handled = "failed"
           /\ \A i \in 1 .. Len(apps) :
                 /\ apps[i].handled # "waiting" => apps'[i].handled = apps[i].handled
                 /\ apps'[i].handled \in {apps[i].handled, "failed"}
                 /\ batcher.chain = <<>> /\ apps[i].handled = "waiting" => apps'[i].handled = "failed"
<1>1. /\ batcher \in Batchers /\ batcher.pending \in Data /\ apps \in Seq(Apps) /\ sub.position \in Nat
      /\ Lined(apps, sub.position, batcher) /\ Ordered(batcher)
      /\ Len(apps) \in Nat /\ \A i \in 1 .. Len(apps) : apps[i].at \in Nat
  BY Parts, KeptMeans, AppFacts DEF Kept, Formed, FoldInv, InLine, Lined
<1>2. batcher'.chain = batcher.chain /\ batcher'.pending = <<>> /\ batcher'.cancelled
  BY <1>1 DEF Cancel, Batchers
<1>3. batcher' \in Batchers
  BY CancelStep DEF Formed
<1>4. HandledAs(apps, apps', batcher.pending, "failed")
  BY <1>1, HandledIs DEF Cancel
<1>5. /\ Ordered(batcher')
      /\ \A x : Holds(batcher', x) <=> Holds(batcher, x) /\ ~(\E k \in 1 .. Len(batcher.pending) : batcher.pending[k] = x)
  BY <1>1, <1>2, <1>3, CancelledHolds
<1>6. Lined(apps', sub.position, batcher')
  BY <1>1, <1>2, <1>3, <1>4, <1>5, LinedHandled
<1>7. \A i \in 1 .. Len(apps) : Holds(batcher, apps[i].at) <=> apps[i].handled = "waiting"
  BY <1>1 DEF Lined
<1>8. \A i \in 1 .. Len(apps) :
         (\E k \in 1 .. Len(batcher.pending) : batcher.pending[k] = apps[i].at) => apps[i].handled = "waiting"
  BY <1>7 DEF Holds
<1>9. batcher.chain = <<>> =>
         \A i \in 1 .. Len(apps) : apps[i].handled = "waiting"
            => \E k \in 1 .. Len(batcher.pending) : batcher.pending[k] = apps[i].at
  <2>1. batcher.chain = <<>> => Len(batcher.chain) = 0
    BY <1>1
  <2>. QED
    BY <1>7, <2>1 DEF Holds
<1>10. batcher.pending = <<>> => \A i \in 1 .. Len(apps) : apps'[i].handled = apps[i].handled
  BY <1>4 DEF HandledAs
<1>11. ASSUME batcher.pending # <<>> PROVE \E i \in 1 .. Len(apps) : apps'[i].handled = "failed"
  <2>1. Len(batcher.pending) \in 1 .. Len(batcher.pending)
    BY <1>1, <1>11, EmptySeq DEF Data
  <2>2. batcher.pending[Len(batcher.pending)] \in Nat /\ Holds(batcher, batcher.pending[Len(batcher.pending)])
    BY <1>1, <2>1, ElementOfSeq DEF Holds, Data
  <2>3. PICK i \in 1 .. Len(apps) : apps[i].at = batcher.pending[Len(batcher.pending)]
    BY <1>1, <2>2 DEF Lined
  <2>. QED
    BY <1>4, <2>1, <2>3 DEF HandledAs
<1>. QED
  BY <1>2, <1>4, <1>6, <1>8, <1>9, <1>10, <1>11 DEF HandledAs

\* What cancel() leaves of the fold.
LEMMA CancelSound ==
    ASSUME Kept, FoldInv, Cancel, source'.data = source.data, store' = store, sub'.rejected = sub.rejected
    PROVE  /\ (Ahead' <=> Ahead) /\ Base' = Base
           /\ Folded => Folded'
           /\ Clean' => Clean /\ batcher.pending = <<>>
           /\ CutShort /\ Single(batcher) => CutShort'
           /\ (\E i \in 1 .. Len(apps) : Failed(i)) => ~Clean'
<1>1. /\ batcher'.chain = batcher.chain /\ batcher'.pending = <<>> /\ Len(apps') = Len(apps)
      /\ \A i \in 1 .. Len(apps) : apps'[i].at = apps[i].at
      /\ batcher.pending = <<>> => \A i \in 1 .. Len(apps) : apps'[i].handled = apps[i].handled
      /\ batcher.pending # <<>> => \E i \in 1 .. Len(apps) : apps'[i].handled = "failed"
      /\ \A i \in 1 .. Len(apps) :
            /\ apps[i].handled # "waiting" => apps'[i].handled = apps[i].handled
            /\ apps'[i].handled \in {apps[i].handled, "failed"}
            /\ batcher.chain = <<>> /\ apps[i].handled = "waiting" => apps'[i].handled = "failed"
  BY CancelFold
<1>2. Ahead' <=> Ahead
  BY <1>1 DEF Ahead, Working
<1>3. Base' = Base
  BY <1>1, <1>2 DEF Base
<1>4. \A i \in 1 .. Len(apps) : apps'[i].handled = "done" <=> apps[i].handled = "done"
  BY <1>1
<1>5. Folded => Folded'
  BY <1>1, <1>2, <1>3, <1>4 DEF Folded
<1>6. Clean' => Clean /\ batcher.pending = <<>>
  <2>1. ASSUME Clean' PROVE \A i \in 1 .. Len(apps) : apps'[i].handled # "failed"
    BY <1>1, <2>1 DEF Clean, Failed
  <2>2. ASSUME Clean' PROVE \A i \in 1 .. Len(apps) : apps[i].handled # "failed"
    BY <1>1, <2>1, <2>2
  <2>. QED
    BY <1>1, <2>1, <2>2 DEF Clean, Failed
<1>7. ASSUME CutShort, Single(batcher) PROVE CutShort'
  <2>1. CASE batcher.pending = <<>>
    BY <1>1, <1>3, <1>5, <1>7, <2>1 DEF CutShort, Failed
  <2>2. CASE batcher.pending # <<>>
    <3>1. batcher.chain = <<>>
      BY <1>7, <2>2 DEF Single
    <3>2. \A i \in 1 .. Len(apps) :
             /\ apps'[i].at = apps[i].at
             /\ apps'[i].handled = IF apps[i].handled = "waiting" THEN "failed" ELSE apps[i].handled
      BY <1>1, <3>1
    <3>3. ~Ahead'
      BY <1>2, <3>1 DEF Ahead, Working
    <3>. QED
      BY <1>1, <1>3, <1>7, <3>2, <3>3, AllFail DEF FoldInv
  <2>. QED
    BY <2>1, <2>2
<1>8. ASSUME NEW i \in 1 .. Len(apps), Failed(i) PROVE ~Clean'
  BY <1>1, <1>8 DEF Clean, Failed
<1>. QED
  BY <1>2, <1>3, <1>5, <1>6, <1>7, <1>8

\* The loop throws.
LEMMA ThrowsFold ==
    ASSUME Kept, Kept', FoldInv, NEW e \in {"outage", "application"}, Throws(e),
           UNCHANGED <<store, lease, source, published, publishing>>,
           sub.messages # "open", Clean => Whole,
           e = "outage" => Single(batcher) /\ (~lease.closing => CutShort)
    PROVE  FoldInv'
<1>1. Cancel /\ source' = source /\ store' = store /\ lease' = lease /\ published' = published
      /\ publishing' = publishing
  BY DEF Throws
<1>2. /\ sub'.pc = "settling" /\ sub'.thrown = e /\ sub'.position = sub.position
      /\ sub'.rejected = sub.rejected /\ sub'.messages = sub.messages
  BY DEF Throws, Kept, Loop, Subs
<1>3. /\ batcher'.chain = batcher.chain /\ batcher'.pending = <<>>
      /\ Lined(apps', sub.position, batcher') /\ Len(apps') = Len(apps)
      /\ \A i \in 1 .. Len(apps) : apps'[i].at = apps[i].at
  BY <1>1, CancelFold
<1>4. /\ (Ahead' <=> Ahead) /\ Base' = Base
      /\ Folded => Folded'
      /\ Clean' => Clean
      /\ CutShort /\ Single(batcher) => CutShort'
  BY <1>1, <1>2, CancelSound
<1>5. InLine'
  BY <1>2, <1>3 DEF InLine
<1>6. Single(batcher) => Single(batcher')
  BY <1>3 DEF Single, Barriers
<1>7. Placed'
  BY <1>1, <1>2, <1>3, <1>6 DEF FoldInv, Placed, Counted, AtNext, Waits, Starts, Flows, Settles
<1>8. Whole /\ Clean' => Whole'
  BY <1>1, <1>2, <1>3, <1>4 DEF Whole
<1>9. InStep'
  <2>1. Clean' => Whole'
    BY <1>4, <1>8
  <2>2. Interrupted' /\ ~lease'.closing => CutShort'
    BY <1>1, <1>2, <1>4 DEF Interrupted
  <2>3. ~LastFailed' /\ sub'.pc \notin {"opening", "delay"} /\ sub'.messages # "open"
    BY <1>2 DEF LastFailed
  <2>. QED
    BY <2>1, <2>2, <2>3 DEF InStep
<1>10. OneBatch'
  BY <1>1, <1>4 DEF FoldInv, OneBatch
<1>. QED
  BY <1>5, <1>7, <1>9, <1>10 DEF FoldInv

LEMMA FirstItem ==
    \A d \in Data : d # <<>> => 1 \in 1 .. Len(d) /\ d[1] \in Nat
<1>1. ASSUME NEW d \in Data, d # <<>> PROVE 1 \in 1 .. Len(d) /\ d[1] \in Nat
  <2>1. Len(d) \in Nat \ {0}
    BY <1>1, EmptySeq DEF Data
  <2>2. 1 \in 1 .. Len(d)
    BY <2>1
  <2>. QED
    BY <2>2, ElementOfSeq DEF Data
<1>. QED
  BY <1>1

\* The loop does not wait any more.
LEMMA AwaitedHolds ==
    ASSUME Kept, FoldInv, Awaited, sub.pc \in {"await", "final"}
    PROVE  /\ Barriers(batcher.chain) = {}
           /\ Passed(apps, sub.wait)
           /\ apps # <<>> => sub.wait # sub.position
           /\ apps = <<>> => batcher.chain = <<>> /\ batcher.pending = <<>>
<1>1. /\ batcher \in Batchers /\ batcher.chain \in Seq(Links) /\ batcher.pending \in Data /\ apps \in Seq(Apps)
      /\ sub.position \in Nat /\ Lined(apps, sub.position, batcher)
      /\ Len(apps) \in Nat /\ Len(batcher.chain) \in Nat
  BY Parts, KeptMeans, AppFacts DEF Kept, Formed, FoldInv, InLine, Loop
<1>2. DOMAIN apps = 1 .. Len(apps) /\ DOMAIN batcher.chain = 1 .. Len(batcher.chain)
  BY <1>1
<1>3. Barriers(batcher.chain) = {}
  BY <1>2 DEF Awaited, Barriers, FoldInv, Placed, Waits
<1>4. Passed(apps, sub.wait)
  BY <1>2 DEF Awaited, Settled, Passed
<1>5. apps # <<>> => sub.wait # sub.position
  BY <1>1, <1>4, LinedFacts DEF Passed
<1>6. ASSUME apps = <<>> PROVE batcher.chain = <<>> /\ batcher.pending = <<>>
  <2>1. \A m \in Nat : ~Holds(batcher, m)
    BY <1>1, <1>6 DEF Lined
  <2>2. batcher.pending = <<>>
    <3>1. batcher.pending # <<>> => 1 \in 1 .. Len(batcher.pending) /\ batcher.pending[1] \in Nat
      BY <1>1, EmptySeq, ElementOfSeq DEF Data
    <3>. QED
      BY <2>1, <3>1 DEF Holds
  <2>3. ASSUME batcher.chain # <<>> PROVE FALSE
    <3>1. 1 \in 1 .. Len(batcher.chain)
      BY <1>1, <2>3, EmptySeq
    <3>2. batcher.chain[1].items \in Data
      BY <1>1, <3>1, ItemsTyped
    <3>3. batcher.chain[1].items # <<>>
      BY <1>1, <1>3, <3>1 DEF Lined, Ordered, Barriers
    <3>4. 1 \in 1 .. Len(batcher.chain[1].items) /\ batcher.chain[1].items[1] \in Nat
      BY <3>2, <3>3, FirstItem
    <3>. QED
      BY <2>1, <3>1, <3>4 DEF Holds
  <2>. QED
    BY <2>2, <2>3
<1>. QED
  BY <1>3, <1>4, <1>5, <1>6

LEMMA FoldBreaks ==
    ASSUME Kept, Kept', FoldInv, LoopBreaks PROVE FoldInv'
<1>1. sub.pc = "next" /\ sub.messages = "broken" /\ Throws("outage")
      /\ UNCHANGED <<store, lease, source, published, publishing>>
  BY DEF LoopBreaks, world
<1>2. Single(batcher) /\ (~lease.closing => CutShort) /\ (Clean => Whole)
  BY <1>1 DEF FoldInv, Placed, AtNext, InStep, Interrupted
<1>. QED
  BY <1>1, <1>2, ThrowsFold

LEMMA FoldFinish ==
    ASSUME Kept, Kept', FoldInv, Finish PROVE FoldInv'
<1>1. sub.pc = "final" /\ Awaited /\ UNCHANGED <<store, lease, source, published, publishing>>
  BY DEF Finish, world
<1>2. sub.messages # "open" /\ (Clean => Whole)
  BY <1>1 DEF FoldInv, Placed, Starts, InStep
<1>3. CASE sub.rejected # {} /\ Throws("application")
  BY <1>1, <1>2, <1>3, ThrowsFold
<1>4. CASE sub.rejected = {} /\ Throws("outage")
  <2>1. apps = <<>> /\ batcher.chain = <<>>
    BY <1>1, AwaitedHolds DEF FoldInv, Placed, Waits
  <2>2. Len(batcher.chain) = 0 /\ Len(apps) = 0
    BY <2>1
  <2>3. Single(batcher)
    BY <2>1, <2>2 DEF Single, Barriers
  <2>4. Clean
    BY <1>4, <2>2 DEF Clean
  <2>. QED
    BY <1>1, <1>2, <1>4, <2>3, <2>4, CleanCut, ThrowsFold
<1>. QED
  BY <1>3, <1>4 DEF Finish

LEMMA FoldOpenFails ==
    ASSUME Kept, Kept', FoldInv, OpenFails PROVE FoldInv'
<1>1. sub.pc = "opening" /\ Throws("outage") /\ UNCHANGED <<store, lease, source, published, publishing>>
  BY DEF OpenFails
<1>2. Fresh /\ source.data = Upto(store) /\ sub.messages # "open" /\ InLine
  BY <1>1 DEF FoldInv, Placed, Starts, InStep
<1>3. Whole /\ CutShort
  BY <1>1, <1>2, FreshWhole
<1>4. Single(batcher)
  <2>1. Len(batcher.chain) = 0
    BY <1>2 DEF Fresh
  <2>. QED
    BY <1>2, <2>1 DEF Single, Barriers, Fresh
<1>. QED
  BY <1>1, <1>2, <1>3, <1>4, ThrowsFold

LEMMA FoldContinue ==
    ASSUME Kept, Kept', FoldInv, Continue PROVE FoldInv'
<1>1. sub.pc = "await" /\ Awaited /\ UNCHANGED <<store, lease, source, published, publishing>>
  BY DEF Continue, world
<1>2. Clean => Whole
  BY <1>1 DEF FoldInv, InStep
<1>3. CASE sub.rejected # {} /\ Throws("application")
  <2>1. sub.messages # "open"
    BY <1>3 DEF FoldInv, Placed, Flows
  <2>. QED
    BY <1>1, <1>2, <1>3, <2>1, ThrowsFold
<1>4. CASE sub.rejected = {} /\ sub' = [sub EXCEPT !.pc = "next"] /\ UNCHANGED <<batcher, apps>>
  <2>1. /\ sub'.pc = "next" /\ sub'.position = sub.position /\ sub'.assigned = sub.assigned
        /\ sub'.rejected = sub.rejected /\ sub'.messages = sub.messages /\ sub'.thrown = sub.thrown
    BY <1>4 DEF Kept, Loop, Subs
  <2>2. /\ source' = source /\ store' = store /\ lease' = lease /\ published' = published
        /\ publishing' = publishing /\ batcher' = batcher /\ apps' = apps
    BY <1>1, <1>4
  <2>3. /\ Barriers(batcher.chain) = {} /\ Passed(apps, sub.wait)
        /\ apps # <<>> => sub.wait # sub.position
        /\ apps = <<>> => batcher.chain = <<>> /\ batcher.pending = <<>>
    BY <1>1, AwaitedHolds
  <2>4. /\ sub.wait = sub.position \/ sub.wait + 1 = sub.position
        /\ sub.assigned > 0 /\ sub.position \in Nat /\ sub.wait \in Nat /\ sub.assigned \in Nat
    BY <1>1, Parts, KeptMeans DEF FoldInv, Placed, Waits
  <2>5. /\ Len(apps) \in Nat /\ apps \in Seq(Apps) /\ (apps = <<>> <=> Len(apps) = 0)
        /\ \A i \in 1 .. Len(apps) : apps[i].at = sub.position - Len(apps) + i
        /\ \A i \in 1 .. Len(apps) : apps[i].handled \in {"waiting", "done", "failed"}
    BY AppFacts DEF FoldInv
  <2>6. Len(apps) <= 1
    <3>1. CASE apps = <<>>
      BY <2>5, <3>1
    <3>2. CASE apps # <<>> /\ Len(apps) > 1
      <4>0. \A w, p \in Nat : (w = p \/ w + 1 = p) /\ w # p => w = p - 1
        OBVIOUS
      <4>1. sub.wait = sub.position - 1 /\ Len(apps) - 1 \in 1 .. Len(apps)
        <5>1. sub.wait # sub.position
          BY <2>3, <3>2
        <5>2. sub.wait = sub.position - 1
          BY <2>4, <4>0, <5>1
        <5>3. \A n \in Nat : n > 1 => n - 1 \in 1 .. n
          OBVIOUS
        <5>. QED
          BY <2>5, <3>2, <5>2, <5>3
      <4>2. apps[Len(apps) - 1].at = sub.position - Len(apps) + (Len(apps) - 1)
        BY <2>5, <4>1
      <4>3. apps[Len(apps) - 1].at = sub.position - 1
        BY <2>4, <2>5, <4>2
      <4>. QED
        BY <2>3, <4>1, <4>3 DEF Passed
    <3>. QED
      BY <2>5, <3>1, <3>2
  <2>7. Single(batcher)
    <3>1. CASE apps = <<>>
      <4>1. Len(batcher.chain) = 0
        BY <2>3, <3>1
      <4>. QED
        BY <2>3, <3>1, <4>1 DEF Single
    <3>2. CASE apps # <<>>
      <4>0. \A n \in Nat : n <= 1 /\ n # 0 => n = 1
        OBVIOUS
      <4>1. Len(apps) = 1 /\ Lined(apps, sub.position, batcher)
        <5>1. Len(apps) = 1
          BY <2>5, <2>6, <3>2, <4>0
        <5>. QED
          BY <5>1 DEF FoldInv, InLine
      <4>2. \A m \in Nat : Holds(batcher, m) => m = apps[1].at
        BY <4>1 DEF Lined
      <4>3. /\ batcher \in Batchers /\ batcher.chain \in Seq(Links) /\ batcher.pending \in Data /\ Ordered(batcher)
            /\ Len(batcher.chain) \in Nat
        BY <4>1, Parts, KeptMeans DEF Kept, Formed, Lined
      <4>4. ASSUME NEW i \in 1 .. Len(batcher.chain)
            PROVE  1 \in 1 .. Len(batcher.chain[i].items) /\ batcher.chain[i].items[1] = apps[1].at
        <5>1. batcher.chain[i].items \in Data
          BY <4>3, ItemsTyped
        <5>2. batcher.chain[i].items # <<>>
          BY <2>3, <4>3 DEF Ordered, Barriers
        <5>3. 1 \in 1 .. Len(batcher.chain[i].items) /\ batcher.chain[i].items[1] \in Nat
          BY <5>1, <5>2, FirstItem
        <5>. QED
          BY <4>2, <5>3 DEF Holds
      <4>5. apps[1].at \in Nat
        BY <2>4, <2>5, <4>1
      <4>6. ~(Len(batcher.chain) > 1)
        <5>1. SUFFICES ASSUME Len(batcher.chain) > 1 PROVE FALSE
          OBVIOUS
        <5>2. 1 \in 1 .. Len(batcher.chain) /\ 2 \in 1 .. Len(batcher.chain)
          BY <4>3, <5>1
        <5>3. batcher.chain[1].items[1] < batcher.chain[2].items[1]
          BY <4>3, <4>4, <5>2 DEF Ordered
        <5>. QED
          BY <4>4, <4>5, <5>2, <5>3
      <4>7. ASSUME batcher.chain # <<>>, batcher.pending # <<>> PROVE FALSE
        <5>1. 1 \in 1 .. Len(batcher.chain)
          BY <4>3, <4>7, EmptySeq
        <5>2. 1 \in 1 .. Len(batcher.pending) /\ batcher.pending[1] \in Nat
          BY <4>3, <4>7, FirstItem
        <5>3. batcher.pending[1] = apps[1].at
          BY <4>2, <5>2 DEF Holds
        <5>4. batcher.chain[1].items[1] < batcher.pending[1]
          BY <4>3, <4>4, <5>1, <5>2 DEF Ordered
        <5>. QED
          BY <4>4, <4>5, <5>1, <5>3, <5>4
      <4>. QED
        BY <2>3, <4>3, <4>6, <4>7 DEF Single
    <3>. QED
      BY <3>1, <3>2
  <2>8. InLine'
    BY <2>1, <2>2 DEF FoldInv, InLine
  <2>9. Placed'
    <3>1. Counted' /\ Starts' /\ Flows' /\ Waits'
      BY <2>1, <2>2 DEF FoldInv, Placed, Counted, Waits, Starts, Flows
    <3>2. AtNext'
      <4>1. \A n \in Nat : n > 0 => n # 0
        OBVIOUS
      <4>2. sub'.assigned # 0
        BY <2>1, <2>4, <4>1
      <4>3. Single(batcher')
        BY <2>2, <2>7
      <4>. QED
        BY <4>2, <4>3 DEF AtNext
    <3>3. Settles'
      BY <1>1, <2>1, <2>2 DEF FoldInv, Placed, Settles
    <3>. QED
      BY <3>1, <3>2, <3>3 DEF Placed
  <2>10. (Folded => Folded') /\ Base' = Base /\ (Ahead' <=> Ahead)
    BY <2>2, AheadSame
  <2>11. Clean' <=> Clean
    BY <2>1, <2>2 DEF Clean, Failed
  <2>12. Clean' => Whole'
    BY <1>1, <1>2, <2>1, <2>2, <2>10, <2>11 DEF Whole
  <2>13. CutShort => CutShort'
    BY <2>1, <2>2, <2>10 DEF CutShort, Failed
  <2>14. ~lease.closing => CutShort
    <3>1. CASE Clean
      BY <1>2, <3>1, CleanCut
    <3>2. CASE ~Clean
      <4>1. PICK i \in 1 .. Len(apps) : Failed(i)
        BY <1>4, <3>2 DEF Clean
      <4>2. Len(apps) = 1 /\ i = 1 /\ apps # <<>>
        <5>1. \A n \in Nat : n <= 1 /\ i \in 1 .. n => n = 1 /\ i = 1
          OBVIOUS
        <5>2. Len(apps) \in Nat /\ Len(apps) <= 1 /\ i \in 1 .. Len(apps)
          BY <2>5, <2>6
        <5>3. Len(apps) = 1 /\ i = 1
          BY <5>1, <5>2
        <5>. QED
          BY <2>5, <5>3
      <4>3. sub.wait + 1 = sub.position
        BY <2>3, <2>4, <4>2
      <4>4. LastFailed
        BY <1>1, <1>4, <4>1, <4>2, <4>3 DEF LastFailed
      <4>. QED
        BY <4>4 DEF FoldInv, InStep
    <3>. QED
      BY <3>1, <3>2
  <2>15. InStep'
    <3>1. ~LastFailed' /\ sub'.pc \notin {"opening", "delay"}
      BY <2>1 DEF LastFailed
    <3>2. Interrupted' /\ ~lease'.closing => CutShort'
      BY <2>2, <2>13, <2>14
    <3>3. sub'.messages = "open" =>
            \A i, j \in 1 .. Len(apps') : j < i /\ Failed(i)' => apps'[j].handled # "waiting"
      BY <2>1, <2>2 DEF FoldInv, InStep, Failed
    <3>. QED
      BY <2>12, <3>1, <3>2, <3>3 DEF InStep
  <2>16. OneBatch'
    BY <2>2, <2>10 DEF FoldInv, OneBatch
  <2>. QED
    BY <2>8, <2>9, <2>15, <2>16 DEF FoldInv
<1>. QED
  BY <1>3, <1>4 DEF Continue

\* A subscription is over.
LEMMA EndsFold ==
    ASSUME Kept, Kept', FoldInv, NEW phase, Ends(phase), UNCHANGED <<store, apps, batcher, published>>,
           Clean => Whole
    PROVE  FoldInv'
<1>1. /\ sub'.pc = "over" /\ sub'.messages = "none" /\ sub'.position = sub.position
      /\ sub'.rejected = sub.rejected
  BY DEF Ends, Kept, Loop, Subs
<1>2. lease'.closing = lease.closing /\ source' = source /\ publishing' = publishing /\ store' = store
      /\ apps' = apps /\ batcher' = batcher /\ published' = published
  BY DEF Ends, Kept, Loop, LeaseType
<1>3. (Folded => Folded') /\ Base' = Base /\ (Ahead' <=> Ahead)
  BY <1>2, AheadSame
<1>4. InLine'
  BY <1>1, <1>2 DEF FoldInv, InLine
<1>5. Placed'
  BY <1>1, <1>2 DEF FoldInv, Placed, Counted, AtNext, Waits, Starts, Flows, Settles
<1>6. Clean' => Clean
  BY <1>1, <1>2 DEF Clean, Failed
<1>7. Whole => Whole'
  BY <1>1, <1>2, <1>3 DEF Whole
<1>8. InStep'
  BY <1>1, <1>6, <1>7 DEF InStep, Interrupted, LastFailed
<1>9. OneBatch'
  BY <1>2, <1>3 DEF FoldInv, OneBatch
<1>. QED
  BY <1>4, <1>5, <1>8, <1>9 DEF FoldInv

LEMMA FoldClose ==
    ASSUME Kept, Kept', FoldInv, Close PROVE FoldInv'
<1>1. /\ Cancel /\ CloseLease /\ store' = store /\ source' = source /\ publishing' = publishing
      /\ published' = published
  BY DEF Close, world
<1>2. /\ sub'.pc = sub.pc /\ sub'.position = sub.position /\ sub'.rejected = sub.rejected
      /\ sub'.wait = sub.wait /\ sub'.assigned = sub.assigned /\ sub'.thrown = sub.thrown
      /\ sub'.messages # "open" /\ (sub'.messages = "broken" => sub.messages = "broken")
      /\ lease'.closing
  BY <1>1 DEF CloseLease, Kept, Loop, Subs, LeaseType
<1>3. /\ batcher'.chain = batcher.chain /\ batcher'.pending = <<>>
      /\ Lined(apps', sub.position, batcher') /\ Len(apps') = Len(apps)
      /\ \A i \in 1 .. Len(apps) : apps'[i].at = apps[i].at
      /\ batcher.pending = <<>> => \A i \in 1 .. Len(apps) : apps'[i].handled = apps[i].handled
  BY <1>1, CancelFold
<1>4. /\ (Ahead' <=> Ahead) /\ Base' = Base
      /\ Folded => Folded'
      /\ Clean' => Clean
  BY <1>1, <1>2, CancelSound
<1>5. InLine'
  BY <1>2, <1>3 DEF InLine
<1>6. /\ Single(batcher) => Single(batcher')
      /\ Barriers(batcher'.chain) = Barriers(batcher.chain)
  BY <1>3 DEF Single, Barriers
<1>7. apps = <<>> => apps' = <<>>
  <2>1. apps \in Seq(Apps) /\ apps' \in Seq(Apps)
    BY DEF Kept, Loop
  <2>. QED
    BY <1>3, <2>1, EmptySeq
<1>8. Fresh => Fresh'
  BY <1>3, <1>7 DEF Fresh
<1>9. \A w, n : Behind(apps, batcher.chain, w, n) => Behind(apps', batcher'.chain, w, n)
  <2>1. \A w : Passed(apps, w) => Passed(apps', w)
    BY <1>3 DEF Passed
  <2>. QED
    BY <1>3, <1>6, <2>1 DEF Behind
<1>10. Placed'
  <2>1. Counted' /\ AtNext' /\ Starts' /\ Flows' /\ Settles'
    BY <1>1, <1>2, <1>3, <1>6, <1>8 DEF FoldInv, Placed, Counted, AtNext, Starts, Flows, Settles
  <2>2. Waits'
    BY <1>2, <1>3, <1>6, <1>7, <1>9 DEF FoldInv, Placed, Waits
  <2>. QED
    BY <2>1, <2>2 DEF Placed
<1>11. Whole /\ Clean' => Whole'
  BY <1>1, <1>2, <1>3, <1>4 DEF Whole
<1>12. InStep'
  BY <1>1, <1>2, <1>4, <1>11 DEF FoldInv, InStep
<1>13. OneBatch'
  BY <1>1, <1>4 DEF FoldInv, OneBatch
<1>. QED
  BY <1>5, <1>10, <1>12, <1>13 DEF FoldInv

LEMMA FreshParts ==
    ASSUME Fresh PROVE Single(batcher) /\ Len(apps) = 0 /\ ~Ahead
<1>1. Len(batcher.chain) = 0 /\ Len(apps) = 0
  BY DEF Fresh
<1>. QED
  BY <1>1 DEF Fresh, Single, Barriers, Ahead, Working

LEMMA FoldOpen ==
    ASSUME Kept, Kept', FoldInv, Open PROVE FoldInv'
<1>1. /\ sub.pc = "opening" /\ store' = store /\ apps' = apps /\ batcher' = batcher /\ published' = published
  BY DEF Open, world
<1>2. Fresh /\ source.data = Upto(store) /\ sub.rejected = {} /\ InLine
  BY <1>1 DEF FoldInv, Placed, Starts, InStep
<1>3. Whole /\ Len(apps) = 0 /\ ~Ahead /\ Single(batcher)
  BY <1>1, <1>2, FreshWhole, FreshParts
<1>4. CASE lease.closing /\ Ends("closed")
  BY <1>1, <1>3, <1>4, EndsFold
<1>5. CASE ~(lease.closing /\ Ends("closed"))
  <2> DEFINE initial == published - store
             phase == IF initial = 0 THEN "live" ELSE "replaying"
             turned == [lease EXCEPT !.phase = phase]
  <2>1. /\ ~lease.closing
        /\ sub' = [sub EXCEPT !.pc = "next", !.phase = phase, !.messages = "open",
                              !.initial = initial, !.remaining = initial, !.position = store]
        /\ lease' = IF initial = 0 THEN CaughtUp(turned, store) ELSE turned
        /\ Announces(phase)
    BY <1>5 DEF Open
  <2>2. /\ sub'.pc = "next" /\ sub'.messages = "open" /\ sub'.position = store /\ sub'.rejected = {}
    BY <1>2, <2>1 DEF Kept, Loop, Subs
  <2>3. ~lease'.closing
    <3>1. turned.closing = lease.closing
      BY DEF Kept, Loop, LeaseType
    <3> HIDE DEF turned
    <3>2. \A t, c : CaughtUp(t, c) = t \/ CaughtUp(t, c) = [t EXCEPT !.caughtUp = "resolved", !.cursor = c]
      BY DEF CaughtUp
    <3>3. turned \in LeaseType
      BY DEF turned, Kept, Loop, LeaseType, Phases
    <3>4. \A c : [turned EXCEPT !.caughtUp = "resolved", !.cursor = c].closing = turned.closing
      BY <3>3 DEF LeaseType
    <3>5. ASSUME NEW c PROVE CaughtUp(turned, c).closing = turned.closing
      <4>1. CASE CaughtUp(turned, c) = turned
        BY <4>1
      <4>2. CASE CaughtUp(turned, c) = [turned EXCEPT !.caughtUp = "resolved", !.cursor = c]
        BY <3>4, <4>2
      <4>. QED
        BY <3>2, <4>1, <4>2
    <3>. QED
      BY <2>1, <3>1, <3>5
  <2>4. source'.data = source.data
    BY LeaseKept
  <2>5. (Folded => Folded') /\ Base' = Base /\ (Ahead' <=> Ahead)
    BY <1>1, <2>4, AheadSame
  <2>6. /\ store \in Nat /\ published \in Nat /\ store <= published
    BY Parts, KeptMeans DEF FoldInv, Placed, Counted
  <2>7. InLine'
    <3>1. Lined(apps, store, batcher)
      BY <1>2, <1>3, <2>6 DEF InLine, Lined, Fresh
    <3>. QED
      BY <1>1, <2>2, <3>1 DEF InLine
  <2>8. ~batcher.cancelled
    BY <1>1, <2>1 DEF FoldInv, Placed, Settles
  <2>9. Fresh'
    BY <1>1, <1>2 DEF Fresh
  <2>10. Placed'
    BY <1>1, <1>3, <2>2, <2>3, <2>6, <2>8, <2>9
       DEF Placed, Counted, AtNext, Waits, Starts, Flows, Settles
  <2>11. Whole'
    BY <1>1, <1>3, <2>2, <2>5, <2>6 DEF Whole
  <2>12. InStep'
    BY <1>1, <1>3, <2>2, <2>11 DEF InStep, Interrupted, LastFailed
  <2>13. OneBatch'
    BY <2>1, <2>5, OneBatchAnnounced DEF FoldInv
  <2>. QED
    BY <2>7, <2>10, <2>12, <2>13 DEF FoldInv
<1>. QED
  BY <1>4, <1>5

LEMMA FoldSubscriptionEnds ==
    ASSUME Kept, Kept', FoldInv, SubscriptionEnds PROVE FoldInv'
<1>1. /\ sub.pc = "settling" /\ Quiet /\ store' = store /\ apps' = apps /\ batcher' = batcher
      /\ published' = published
  BY DEF SubscriptionEnds, world
<1>2. Clean => Whole
  BY <1>1 DEF FoldInv, InStep
<1>3. ASSUME NEW phase, Ends(phase) PROVE FoldInv'
  BY <1>1, <1>2, <1>3, EndsFold
<1>4. CASE /\ ~lease.closing /\ Retries
           /\ sub' = [sub EXCEPT !.pc = "delay", !.messages = "none"]
           /\ lease' = [lease EXCEPT !.phase = "reconnecting", !.restarts = @ + 1]
           /\ Announces("reconnecting")
  <2>1. sub.thrown = "outage" /\ Single(batcher) /\ batcher.pending = <<>>
    BY <1>1, <1>4 DEF FoldInv, Placed, Settles, Retries
  <2>2. Fresh
    BY <1>1, <2>1 DEF Fresh, Quiet
  <2>3. CutShort /\ InLine
    BY <1>1, <1>4, <2>1 DEF FoldInv, InStep, Interrupted
  <2>4. source.data = Upto(store)
    BY <2>2, <2>3, FreshWhole
  <2>5. sub'.pc = "delay" /\ sub'.messages = "none" /\ sub'.position = sub.position
    BY <1>4 DEF Kept, Loop, Subs
  <2>6. lease'.closing = lease.closing
    <3>1. \A n : [lease EXCEPT !.phase = "reconnecting", !.restarts = n].closing = lease.closing
      BY DEF Kept, Loop, LeaseType
    <3>. QED
      BY <1>4, <3>1
  <2>7. source'.data = source.data
    BY LeaseKept
  <2>8. (Ahead' <=> Ahead) /\ Fresh'
    BY <1>1, <2>2, <2>7, AheadSame DEF Fresh
  <2>9. InLine'
    BY <1>1, <2>3, <2>5 DEF InLine
  <2>10. Placed'
    BY <1>1, <2>5, <2>8 DEF FoldInv, Placed, Counted, AtNext, Waits, Starts, Flows, Settles
  <2>11. InStep'
    BY <1>1, <2>4, <2>5, <2>7 DEF InStep, Interrupted, LastFailed
  <2>12. OneBatch'
    BY <1>4, <2>8, OneBatchAnnounced DEF FoldInv
  <2>. QED
    BY <2>9, <2>10, <2>11, <2>12 DEF FoldInv
<1>. QED
  BY <1>3, <1>4 DEF SubscriptionEnds

\* A batcher that is empty.
LEMMA NewBatcher ==
    /\ EmptyBatcher.chain = <<>> /\ EmptyBatcher.pending = <<>> /\ ~EmptyBatcher.cancelled
    /\ \A n \in Nat : Lined(<<>>, n, EmptyBatcher)
<1>1. /\ EmptyBatcher.chain = <<>> /\ EmptyBatcher.pending = <<>> /\ ~EmptyBatcher.cancelled
  BY DEF EmptyBatcher
<1>2. Len(<<>>) = 0 /\ (1 .. 0) = {} /\ \A n \in Nat : 0 <= n
  OBVIOUS
<1>. QED
  BY <1>1, <1>2 DEF Lined, Ordered, Run, Holds

LEMMA FoldRetry ==
    ASSUME Kept, Kept', FoldInv, Retry PROVE FoldInv'
<1>1. /\ sub.pc = "delay" /\ store' = store /\ apps' = apps /\ published' = published
  BY DEF Retry, world
<1>2. Fresh /\ source.data = Upto(store) /\ InLine
  BY <1>1 DEF FoldInv, Placed, Starts, InStep
<1>3. Whole /\ Len(apps) = 0 /\ ~Ahead
  BY <1>1, <1>2, FreshWhole
<1>4. CASE Ends("closed") /\ batcher' = batcher
  BY <1>1, <1>3, <1>4, EndsFold
<1>5. CASE ~lease.closing /\ Attempt /\ UNCHANGED <<lease, source, publishing>>
  <2>1. /\ sub'.pc = "opening" /\ sub'.messages = "none" /\ sub'.position = 0 /\ sub'.rejected = {}
        /\ batcher' = EmptyBatcher /\ apps' = <<>>
    BY <1>1, <1>2, <1>5 DEF Attempt, Connecting, Fresh
  <2>2. Fresh' /\ ~batcher'.cancelled /\ InLine'
    BY <2>1, NewBatcher DEF Fresh, InLine
  <2>3. store \in Nat /\ published \in Nat /\ store <= published /\ 0 <= published
    BY Parts, KeptMeans DEF FoldInv, Placed, Counted
  <2>4. Placed'
    BY <1>1, <2>1, <2>2, <2>3 DEF Placed, Counted, AtNext, Waits, Starts, Flows, Settles
  <2>5. InStep'
    BY <1>1, <1>2, <1>5, <2>1 DEF InStep, Interrupted, LastFailed
  <2>6. OneBatch'
    BY <1>3, <1>5, NoBatch
  <2>. QED
    BY <2>2, <2>4, <2>5, <2>6 DEF FoldInv
<1>. QED
  BY <1>4, <1>5 DEF Retry

LEMMA FoldLoopEnds ==
    ASSUME Kept, Kept', FoldInv, LoopEnds PROVE FoldInv'
<1> DEFINE last == IF sub.assigned = 0 THEN 0 ELSE sub.position
<1>1. /\ sub.pc = "next" /\ sub.messages = "closed" /\ store' = store /\ apps' = apps /\ lease' = lease
      /\ source' = source /\ publishing' = publishing /\ published' = published
  BY DEF LoopEnds, world
<1>2. (Clean => Whole) /\ Single(batcher) /\ (sub.assigned = 0 => Fresh) /\ (batcher.cancelled => lease.closing)
  BY <1>1 DEF FoldInv, InStep, Placed, AtNext, Settles
<1>3. CASE lease.closing /\ sub' = [sub EXCEPT !.pc = "settling", !.thrown = "closed"] /\ batcher' = batcher
  <2>1. /\ sub'.pc = "settling" /\ sub'.thrown = "closed" /\ sub'.messages = "closed"
        /\ sub'.position = sub.position /\ sub'.rejected = sub.rejected
    BY <1>1, <1>3 DEF Kept, Loop, Subs
  <2>2. (Folded => Folded') /\ Base' = Base /\ (Ahead' <=> Ahead)
    BY <1>1, <1>3, AheadSame
  <2>3. InLine'
    BY <1>1, <1>3, <2>1 DEF FoldInv, InLine
  <2>4. Placed'
    BY <1>1, <1>3, <2>1 DEF FoldInv, Placed, Counted, AtNext, Waits, Starts, Flows, Settles
  <2>5. Clean' => Clean
    BY <1>1, <2>1 DEF Clean, Failed
  <2>6. Whole => Whole'
    BY <1>1, <2>1, <2>2 DEF Whole
  <2>7. InStep'
    BY <1>2, <2>1, <2>5, <2>6 DEF InStep, Interrupted, LastFailed
  <2>8. OneBatch'
    BY <1>1, <2>2 DEF FoldInv, OneBatch
  <2>. QED
    BY <2>3, <2>4, <2>7, <2>8 DEF FoldInv
<1>4. CASE /\ ~lease.closing
           /\ sub' = [sub EXCEPT !.pc = "final", !.wait = last]
           /\ batcher' = BarrierAfter(Drained(batcher), last)
  <2>1. /\ sub'.pc = "final" /\ sub'.wait = last /\ sub'.messages = "closed"
        /\ sub'.position = sub.position /\ sub'.rejected = sub.rejected
    BY <1>1, <1>4 DEF Kept, Loop, Subs
  <2>2. /\ batcher \in Batchers /\ Formed(batcher, source.data) /\ Ordered(batcher) /\ apps \in Seq(Apps)
        /\ sub.position \in Nat /\ Lined(apps, sub.position, batcher) /\ last \in Nat
    BY DEF Kept, Formed, Loop, FoldInv, InLine, Lined, Subs
  <2>3. PICK d : d = Drained(batcher)
    OBVIOUS
  <2>4. /\ d \in Batchers /\ Ordered(d) /\ Continues(batcher, d)
        /\ \A x : Holds(d, x) <=> Holds(batcher, x)
        /\ Barriers(d.chain) = Barriers(batcher.chain)
        /\ d.cancelled = batcher.cancelled
        /\ (batcher.pending = <<>> \/ batcher.cancelled => d = batcher)
        /\ (batcher.pending # <<>> /\ ~batcher.cancelled => d.pending = <<>>)
    BY <2>2, <2>3, DrainedHolds
  <2>5. Formed(d, source.data)
    BY <2>2, <2>3, DrainedFormed
  <2>6. PICK c : c = BarrierAfter(d, last)
    OBVIOUS
  <2>7. /\ c \in Batchers /\ Ordered(c) /\ Continues(d, c)
        /\ \A x : Holds(c, x) <=> Holds(d, x)
        /\ Barriers(c.chain) = Barriers(d.chain) \cup {Len(d.chain) + 1}
        /\ c.chain[Len(d.chain) + 1] = Barrier(last)
        /\ c.cancelled = d.cancelled /\ c.pending = d.pending
    BY <2>2, <2>4, <2>5, <2>6, BarrierHolds
  <2>8. batcher' = c
    BY <1>4, <2>3, <2>6
  <2>9. Continues(batcher, batcher') /\ ~batcher'.cancelled
    BY <1>2, <1>4, <2>2, <2>4, <2>7, <2>8, ContinuesOn
  <2>10. /\ (Ahead' <=> Ahead) /\ Base' = Base /\ (Ahead' => Head(batcher'.chain) = Head(batcher.chain))
    BY <1>1, <2>9, BaseContinues
  <2>11. Folded => Folded'
    BY <1>1, <2>10 DEF Folded
  <2>12. InLine'
    <3>1. c.pending # <<>> => c.pending = batcher.pending
      BY <2>4, <2>7
    <3>2. Lined(apps, sub.position, c)
      BY <2>2, <2>4, <2>7, <2>8, <2>9, <3>1, LinedSame
    <3>. QED
      BY <1>1, <2>1, <2>8, <3>2 DEF InLine
  <2>13. \A i \in Barriers(batcher'.chain) : batcher'.chain[i].commit = last
    <3>1. Barriers(batcher'.chain) = {Len(d.chain) + 1}
      BY <1>2, <2>4, <2>7, <2>8 DEF Single
    <3>2. Barrier(last).commit = last
      BY DEF Barrier
    <3>. QED
      BY <2>7, <2>8, <3>1, <3>2
  <2>14. last = sub.position \/ apps = <<>>
    BY <1>2 DEF Fresh
  <2>15. Placed'
    BY <1>1, <2>1, <2>9, <2>13, <2>14 DEF FoldInv, Placed, Counted, AtNext, Waits, Starts, Flows, Settles
  <2>16. Clean' => Clean
    BY <1>1, <2>1 DEF Clean, Failed
  <2>17. Whole => Whole'
    BY <1>1, <2>1, <2>10, <2>11 DEF Whole
  <2>18. InStep'
    BY <1>2, <2>1, <2>16, <2>17 DEF InStep, Interrupted, LastFailed
  <2>19. OneBatch'
    BY <1>1, <2>10 DEF FoldInv, OneBatch
  <2>. QED
    BY <2>12, <2>15, <2>18, <2>19 DEF FoldInv
<1>. QED
  BY <1>3, <1>4 DEF LoopEnds

LEMMA FoldBegins ==
    ASSUME SourceInit PROVE FoldInv
<1>1. /\ sub = Connecting /\ apps = <<>> /\ batcher = EmptyBatcher /\ store = 0 /\ published = 0
      /\ source.data = <<>> /\ Len(publishing) = 1 /\ publishing[1].then = "nothing"
  BY DEF SourceInit
<1>2. /\ sub.pc = "opening" /\ sub.messages = "none" /\ sub.position = 0 /\ sub.rejected = {}
  BY <1>1 DEF Connecting
<1>3. Fresh /\ ~batcher.cancelled /\ InLine
  BY <1>1, <1>2, NewBatcher DEF Fresh, InLine
<1>4. Placed
  BY <1>1, <1>2, <1>3 DEF Placed, Counted, AtNext, Waits, Starts, Flows, Settles
<1>5. source.data = Upto(store)
  BY <1>1 DEF Upto
<1>6. Len(apps) = 0
  BY <1>1
<1>7. InStep
  BY <1>2, <1>5, <1>6 DEF InStep, Interrupted, LastFailed
<1>8. OneBatch
  BY <1>1 DEF OneBatch
<1>. QED
  BY <1>3, <1>4, <1>7, <1>8 DEF FoldInv

-----------------------------------------------------------------------------
(***************************************************************************)
(* The theorem about the fold.                                             *)
(***************************************************************************)
LEMMA FoldSteps ==
    ASSUME Kept, FoldInv, Fitting, SourceNext PROVE Kept' /\ FoldInv'
<1>1. Kept'
  BY SourceKept
<1>2. CASE TimerFires \/ BatchStarts \/ BatchReduced \/ BarrierPasses \/ BatchFails
  BY <1>1, <1>2, FoldTimer, FoldStarts, FoldFails, FoldReduced, FoldBarrier
<1>3. CASE Accept \/ Hydrate \/ SessionLive \/ SessionEnds \/ Publish \/ Outage
  BY <1>1, <1>3, FoldAccept, FoldHydrate, FoldOutage
<1>4. CASE Open \/ OpenFails \/ Receive \/ Commit \/ Reject
  BY <1>1, <1>4, FoldOpen, FoldOpenFails, FoldReceive, FoldCommit, FoldReject
<1>5. CASE Continue \/ LoopBreaks \/ LoopEnds \/ Finish
  BY <1>1, <1>5, FoldContinue, FoldBreaks, FoldLoopEnds, FoldFinish
<1>6. CASE SubscriptionEnds \/ Retry \/ Close
  BY <1>1, <1>6, FoldSubscriptionEnds, FoldRetry, FoldClose
<1>. QED
  BY <1>1, <1>2, <1>3, <1>4, <1>5, <1>6 DEF SourceNext, Work

LEMMA FoldStays ==
    ASSUME FoldInv, UNCHANGED sourceVars PROVE FoldInv'
<1>1. /\ published' = published /\ store' = store /\ lease' = lease /\ sub' = sub /\ apps' = apps
      /\ batcher' = batcher /\ source' = source /\ publishing' = publishing
  BY DEF sourceVars, world
<1>2. InLine' /\ Placed'
  BY <1>1 DEF FoldInv, InLine, Placed, Counted, AtNext, Waits, Starts, Flows, Settles, Fresh
<1>3. (Folded => Folded') /\ Base' = Base /\ (Ahead' <=> Ahead)
  BY <1>1, AheadSame
<1>4. InStep'
  BY <1>1, <1>3, StillInStep DEF FoldInv, Sound, Whole, CutShort
<1>5. OneBatch'
  BY <1>1, <1>3 DEF FoldInv, OneBatch
<1>. QED
  BY <1>2, <1>4, <1>5 DEF FoldInv

\* No step changes the options.
LEMMA PolicyStays == ASSUME [Next]_vars PROVE Fitting' <=> Fitting
<1>1. policy' = policy
  <2>1. CASE UNCHANGED vars
    BY <2>1 DEF vars, sourceVars, world
  <2>2. CASE ViewWork \/ Unsubscribe
    BY <2>2 DEF ViewWork, Unsubscribe, Subscribe, Due, Pull, PullEnds, sourceVars, world
  <2>3. CASE SourceNext
    BY <2>3 DEF SourceNext, Work, TimerFires, BatchStarts, BatchReduced, BarrierPasses, Accept, Hydrate,
         SessionLive, SessionEnds, Open, Receive, Commit, Reject, Continue, LoopBreaks, LoopEnds,
         Finish, SubscriptionEnds, Retry, Publish, Outage, OpenFails, BatchFails, Close, world
  <2>. QED
    BY <2>1, <2>2, <2>3 DEF Next, Beside
<1>. QED
  BY <1>1 DEF Fitting

\* What the invariant says of the state and the checkpoint.
LEMMA FoldIs ==
    ASSUME Kept, FoldInv
    PROVE  FoldedOnce /\ (~Refusing => Len(source.data) <= published)
<1>1. /\ Len(apps) \in Nat /\ apps \in Seq(Apps) /\ (apps = <<>> <=> Len(apps) = 0)
      /\ \A i \in 1 .. Len(apps) : apps[i].at \in Nat /\ apps[i].at <= sub.position
      /\ store \in Nat /\ published \in Nat /\ sub.position \in Nat /\ Base \in Int
      /\ Len(source.data) \in Nat /\ sub.position <= published /\ store <= published
  BY AppFacts, BaseIs, Parts, KeptMeans DEF FoldInv, Placed, Counted
<1>2. DOMAIN apps = 1 .. Len(apps)
  BY <1>1
<1>3. ~Refusing => Clean
  BY <1>2 DEF Refusing, Clean, Failed
<1>4. sub.pc \in {"delay", "opening"} => source.data = Upto(store)
  BY DEF FoldInv, InStep
<1>5. ASSUME ~Refusing, sub.pc \in {"delay", "opening"}
      PROVE  /\ source.data = Upto(Len(source.data)) /\ store <= Len(source.data)
             /\ Len(source.data) <= published
  BY <1>1, <1>4, <1>5, UptoIs
<1>6. ASSUME ~Refusing, sub.pc \notin {"delay", "opening"}
      PROVE  /\ source.data = Upto(Len(source.data)) /\ store <= Len(source.data)
             /\ Len(source.data) <= published
  <2>1. Whole
    BY <1>3, <1>6 DEF FoldInv, InStep
  <2>2. /\ source.data = Upto(Len(source.data)) /\ store <= Base /\ Base <= store + Len(apps)
        /\ \A i \in 1 .. Len(apps) : apps[i].at = store + i
        /\ Ahead => Len(source.data) = Last(Head(batcher.chain).items)
    BY <2>1 DEF Whole, Folded
  <2>3. CASE ~Ahead
    <3>1. Base = Len(source.data)
      BY <2>3 DEF Base
    <3>2. CASE apps = <<>>
      BY <1>1, <2>2, <3>1, <3>2
    <3>3. CASE apps # <<>>
      <4>1. Len(apps) \in 1 .. Len(apps)
        BY <1>1, <3>3
      <4>2. store + Len(apps) <= sub.position
        BY <1>1, <2>2, <4>1
      <4>. QED
        BY <1>1, <2>2, <3>1, <4>2
    <3>. QED
      BY <3>2, <3>3
  <2>4. CASE Ahead
    <3>1. PICK it : it = Head(batcher.chain).items /\ HeadBatch(it)
      BY <2>4, BaseIs DEF FoldInv
    <3>2. /\ it[1] \in Nat /\ it[Len(it)] \in Nat /\ it[1] <= it[Len(it)]
          /\ \E i \in 1 .. Len(apps) : apps[i].at = it[Len(it)]
      BY <3>1, HeadItems DEF FoldInv
    <3>3. Len(source.data) = it[Len(it)] /\ Base = it[1] - 1
      BY <2>2, <2>4, <3>1, BaseIs DEF FoldInv
    <3>4. it[Len(it)] <= sub.position
      BY <1>1, <3>2
    <3>. QED
      BY <1>1, <2>2, <3>2, <3>3, <3>4
  <2>. QED
    BY <2>2, <2>3, <2>4
<1>. QED
  BY <1>4, <1>5, <1>6 DEF FoldedOnce

LEMMA FoldLasts == Spec => [](Together /\ (Fitting => FoldInv))
<1>1. Init => Together /\ FoldInv
  BY ViewStarts, FoldBegins DEF Init
<1>2. ASSUME Together, Fitting => FoldInv, [Next]_vars
      PROVE  Together' /\ (Fitting' => FoldInv')
  <2>1. Together' /\ Kept /\ (Fitting' <=> Fitting)
    BY <1>2, ViewSteps, PolicyStays DEF Together
  <2>2. ASSUME Fitting PROVE FoldInv'
    <3>1. FoldInv
      BY <1>2, <2>2
    <3>2. CASE UNCHANGED vars
      BY <3>1, <3>2, FoldStays DEF vars
    <3>3. CASE ViewWork \/ Unsubscribe
      BY <3>1, <3>3, FoldStays DEF ViewWork, Unsubscribe, Subscribe, Due, Pull, PullEnds
    <3>4. CASE SourceNext
      BY <2>1, <2>2, <3>1, <3>4, FoldSteps
    <3>. QED
      BY <1>2, <3>2, <3>3, <3>4 DEF Next, Beside
  <2>. QED
    BY <2>1, <2>2
<1>. QED
  BY <1>1, <1>2, PTL DEF Spec

\* As long as every message fits a batch, the state is the fold of the stream, every
\* message once and in order, the checkpoint is within it, and a subscription that
\* replaces a failed one starts exactly where the state ends.
THEOREM FoldedWhenFitting == Spec => [](Fitting => FoldedOnce)
<1>1. Together /\ (Fitting => FoldInv) => (Fitting => FoldedOnce)
  BY FoldIs DEF Together
<1>. QED
  BY <1>1, FoldLasts, PTL

\* A prefix of a fold is a fold.
LEMMA PrefixOfFold ==
    ASSUME NEW n \in Nat, NEW d \in Data, IsPrefix(d, Upto(n))
    PROVE  d = Upto(Len(d)) /\ Len(d) \in 0 .. n
<1>1. Len(d) \in Nat
  BY DEF Data
<1>2. Upto(n) \in Data /\ Len(Upto(n)) = n /\ \A i \in 1 .. n : Upto(n)[i] = i
  BY UptoIs
<1>3. Len(d) <= n /\ \A i \in 1 .. Len(d) : d[i] = Upto(n)[i]
  BY <1>2, PrefixItems
<1>4. \A i \in 1 .. Len(d) : d[i] = i
  BY <1>1, <1>2, <1>3
<1>5. Upto(Len(d)) \in Data /\ Len(Upto(Len(d))) = Len(d) /\ \A i \in 1 .. Len(d) : Upto(Len(d))[i] = i
  BY <1>1, UptoIs
<1>6. d = Upto(Len(d))
  BY <1>4, <1>5, SeqEqual DEF Data
<1>. QED
  BY <1>1, <1>3, <1>6

\* What the session publishes and what a view shows is at any time the fold of the
\* first messages of the stream, unless a delivery of the subscription has failed.
ShownFold ==
    ~Refusing => \E m, n \in 0 .. published :
                    session.value.data = Upto(n) /\ view.shown.data = Upto(m) /\ m <= n

THEOREM ShownIsTheFold == Spec => [](Fitting => ShownFold)
<1>1. ASSUME Together, FoldInv PROVE ShownFold
  <2>1. /\ Kept /\ ViewType /\ Forward(view, session.value.data) /\ source.data \in Data
        /\ session.value.data \in Data /\ view \in Shapes /\ published \in Nat
    BY <1>1, Parts, KeptMeans DEF Together, ViewIInv, ViewType
  <2>2. view.shown.data \in Data
    BY <2>1 DEF Shapes, Snapshots
  <2>3. IsPrefix(view.shown.data, session.value.data) /\ IsPrefix(session.value.data, source.data)
    BY <2>1 DEF Forward, Kept, States, Growing, Rising
  <2>4. SUFFICES ASSUME ~Refusing
                 PROVE  \E m, n \in 0 .. published :
                           session.value.data = Upto(n) /\ view.shown.data = Upto(m) /\ m <= n
    BY DEF ShownFold
  <2>5. source.data = Upto(Len(source.data)) /\ Len(source.data) <= published /\ Len(source.data) \in Nat
    BY <1>1, <2>1, <2>4, FoldIs DEF FoldedOnce, Data
  <2> DEFINE n == Len(session.value.data)
             m == Len(view.shown.data)
  <2>6. session.value.data = Upto(n) /\ n \in 0 .. Len(source.data)
    BY <2>1, <2>3, <2>5, PrefixOfFold
  <2>7. view.shown.data = Upto(m) /\ m \in 0 .. n
    BY <2>1, <2>2, <2>3, <2>6, PrefixOfFold
  <2> HIDE DEF n, m
  <2>8. n \in 0 .. published /\ m \in 0 .. published /\ m <= n
    BY <2>1, <2>5, <2>6, <2>7
  <2>. QED
    BY <2>6, <2>7, <2>8
<1>2. Together /\ (Fitting => FoldInv) => (Fitting => ShownFold)
  BY <1>1
<1>. QED
  BY <1>2, FoldLasts, PTL
=============================================================================
