------------------------ MODULE ManagedRuntimeProofs ------------------------
(***************************************************************************)
(* A managed runtime, for any number of readers, subscriptions, programs   *)
(* and runs of the hook: it drives its event stream as RuntimeFeed says,   *)
(* so no reader misses an event untold, and a provider that is mounted     *)
(* never finds its runtime closed.                                         *)
(***************************************************************************)
EXTENDS ManagedRuntime, SequenceTheorems, FiniteSetTheorems, TLAPS

(***************************************************************************)
(* The event stream by itself (RuntimeFeed): no loss goes untold. Its      *)
(* buffers account for every event at any capacity, for any number of      *)
(* readers.                                                                *)
(***************************************************************************)

Event == [n : Nat, kind : Kinds]

(***************************************************************************)
(* What GapsAreTold needs to be inductive: an iterator that waits has      *)
(* nothing left to hand over, so the next event may go straight to its     *)
(* promise, and one that is done has nothing left to tell.                 *)
(***************************************************************************)
Accounted(f) ==
    /\ f.phase = "waiting" => f.queue = <<>> /\ f.dropped = 0 /\ f.result # "done"
    /\ f.result = "done" => f.closed /\ f.queue = <<>>
    /\ f.result # "done" => f.read + f.dropped + Len(f.queue) = f.events
    /\ \A i \in 1 .. Len(f.queue) : f.queue[i].n = f.read + f.dropped + i

Kept(f) ==
    /\ f.phase = "none" => f.result # "done" /\ f.read = 0 /\ f.dropped = 0
    /\ Reading(f) /\ ~f.left => Accounted(f)

FeedIInv == FeedTypeOK /\ \A r \in Readers : Kept(feed[r])

-----------------------------------------------------------------------------
\* The last status among the events of a step is a state.
LEMMA LastStatusIsState ==
    ASSUME status \in States, NEW kinds \in Emissions
    PROVE  LastStatus(kinds) \in States
<1> DEFINE changes == {i \in DOMAIN kinds : kinds[i] \in States}
<1>1. CASE changes = {}
  BY <1>1 DEF LastStatus
<1>2. CASE changes # {}
  <2>1. PICK n \in 1 .. 4 : kinds \in [1 .. n -> Kinds]
    BY DEF Emissions
  <2>2. changes \subseteq 1 .. 4
    BY <2>1
  <2>3. \E i \in changes : \A j \in changes : j <= i
    BY <1>2, <2>2
  <2> QED
    BY <1>2, <2>3 DEF LastStatus
<1> QED
  BY <1>1, <1>2

\* Emissions as sequences.
LEMMA EmissionsAreSequences ==
    ASSUME NEW kinds \in Emissions
    PROVE  kinds \in Seq(Kinds) /\ Len(kinds) \in Nat \ {0} /\ kinds # <<>>
<1>1. PICK n \in 1 .. 4 : kinds \in [1 .. n -> Kinds]
  BY DEF Emissions
<1> QED
  BY <1>1

\* The events of a step, as an iterator numbers them.
Numbered(kinds, e) == [i \in 1 .. Len(kinds) |-> [n |-> e + i, kind |-> kinds[i]]]

LEMMA NewEvents ==
    ASSUME NEW kinds \in Emissions, NEW e \in Nat
    PROVE  LET new == Numbered(kinds, e) IN
           /\ new \in Seq(Event) /\ Len(new) = Len(kinds) /\ new[1].kind \in Kinds
           /\ \A i \in 1 .. Len(kinds) : new[i].n = e + i
           /\ Tail(new) \in Seq(Event) /\ Len(Tail(new)) = Len(kinds) - 1
           /\ \A i \in 1 .. Len(kinds) - 1 : Tail(new)[i].n = e + 1 + i
<1> DEFINE new == Numbered(kinds, e)
<1>1. kinds \in Seq(Kinds) /\ Len(kinds) \in Nat \ {0}
  BY EmissionsAreSequences
<1>2. \A i \in 1 .. Len(kinds) : new[i] \in Event /\ new[i].n = e + i /\ new[i].kind \in Kinds
  BY <1>1 DEF Event, Numbered
<1>3. new \in Seq(Event) /\ Len(new) = Len(kinds)
  BY <1>1, <1>2, IsASeq DEF Numbered
<1> HIDE DEF new
<1>4. /\ Tail(new) \in Seq(Event) /\ Len(Tail(new)) = Len(new) - 1
      /\ \A i \in 1 .. Len(Tail(new)) : Tail(new)[i] = new[i + 1]
  BY <1>1, <1>3, HeadTailProperties
<1>5. \A i \in 1 .. Len(kinds) - 1 : Tail(new)[i].n = e + 1 + i
  BY <1>1, <1>2, <1>3, <1>4
<1> QED
  BY <1>1, <1>2, <1>3, <1>4, <1>5 DEF new

\* The events that follow the first `base` ones, none left out.
Following(events, base) == \A i \in 1 .. Len(events) : events[i].n = base + i

\* An iterator is accounted for by its numbers.
Account(f, r, d, m, e) ==
    /\ f.read = r /\ f.dropped = d /\ Len(f.queue) = m /\ f.events = e
    /\ f.phase = "waiting" => f.queue = <<>> /\ d = 0 /\ f.result # "done"
    /\ f.result = "done" => f.closed /\ f.queue = <<>>
    /\ r + d + m = e
    /\ \A i \in 1 .. m : f.queue[i].n = r + d + i

LEMMA Numbers ==
    ASSUME NEW f, NEW r \in Nat, NEW d \in Nat, NEW m \in Nat, NEW e \in Nat,
           Account(f, r, d, m, e)
    PROVE  Accounted(f)
<1>1. f.read + f.dropped + Len(f.queue) = f.events
  BY DEF Account
<1>2. \A i \in 1 .. Len(f.queue) : f.queue[i].n = f.read + f.dropped + i
  BY DEF Account
<1> QED
  BY <1>1, <1>2 DEF Accounted, Account

\* Events behind others, without the oldest of them all.
LEMMA Retained ==
    ASSUME NEW old \in Seq(Event), NEW new \in Seq(Event), NEW base \in Nat,
           Following(old, base), Following(new, base + Len(old)),
           NEW lost \in 0 .. Len(old) + Len(new)
    PROVE  Following(SubSeq(old \o new, lost + 1, Len(old \o new)), base + lost)
<1>0. /\ \A i \in 1 .. Len(old) : old[i].n = base + i
      /\ \A i \in 1 .. Len(new) : new[i].n = base + Len(old) + i
  BY DEF Following
<1>1. PICK m \in Nat, k \in Nat : m = Len(old) /\ k = Len(new)
  BY LenProperties
<1>2. lost \in Nat /\ lost <= m + k
  BY <1>1
<1>3. PICK queue : queue = old \o new
  OBVIOUS
<1>4. queue \in Seq(Event) /\ Len(queue) = m + k
  BY <1>1, <1>3, ConcatProperties
<1>5. \A i \in 1 .. m + k : queue[i] = IF i <= m THEN old[i] ELSE new[i - m]
  BY <1>1, <1>3, ConcatProperties
<1>6. ASSUME NEW i \in 1 .. m + k PROVE queue[i] \in Event /\ queue[i].n = base + i
  <2>1. queue[i] \in Event
    BY <1>4, <1>6, ElementOfSeq
  <2>2. CASE i <= m
    BY <1>0, <1>1, <1>5, <2>1, <2>2
  <2>3. CASE i > m
    <3>1. PICK j \in 1 .. k : j = i - m
      BY <2>3
    <3>2. queue[i] = new[j] /\ new[j].n = base + m + j
      <4>1. j \in 1 .. Len(new) /\ base + Len(old) = base + m
        BY <1>1, <3>1
      <4>2. new[j].n = base + m + j
        BY <1>0, <4>1
      <4>3. queue[i] = new[i - m] /\ i - m = j
        BY <1>5, <2>3, <3>1
      <4> QED
        BY <4>2, <4>3
    <3> QED
      BY <2>1, <3>1, <3>2
  <2> QED
    BY <2>2, <2>3
<1>7. PICK kept : kept = SubSeq(queue, lost + 1, m + k)
  OBVIOUS
<1>8. /\ kept \in Seq(Event)
      /\ Len(kept) = IF lost + 1 <= m + k THEN m + k - (lost + 1) + 1 ELSE 0
      /\ \A i \in 1 .. m + k - (lost + 1) + 1 : kept[i] = queue[lost + 1 + i - 1]
  <2>1. \A i \in lost + 1 .. m + k : queue[i] \in Event
    BY <1>2, <1>6
  <2>2. lost + 1 \in Int /\ m + k \in Int
    BY <1>2
  <2> QED
    BY <1>7, <2>1, <2>2, SubSeqProperties
<1>9. Len(kept) = m + k - lost
  <2>1. CASE lost + 1 <= m + k
    BY <1>2, <1>8, <2>1
  <2>2. CASE lost = m + k
    BY <1>2, <1>8, <2>2
  <2> QED
    BY <1>2, <2>1, <2>2
<1>10. ASSUME NEW i \in 1 .. Len(kept) PROVE kept[i].n = base + lost + i
  <2>1. i \in 1 .. m + k - lost
    BY <1>9, <1>10
  <2>2. kept[i] = queue[lost + 1 + i - 1] /\ lost + 1 + i - 1 = lost + i
    BY <1>2, <1>8, <2>1
  <2>3. PICK j \in 1 .. m + k : j = lost + i
    BY <1>2, <2>1
  <2>4. queue[j].n = base + j
    BY <1>6
  <2> QED
    BY <1>2, <2>1, <2>2, <2>3, <2>4
<1>11. SubSeq(old \o new, lost + 1, Len(old \o new)) = kept
  BY <1>1, <1>3, <1>4, <1>7
<1> QED
  BY <1>10, <1>11, Zenon DEF Following

\* emit() keeps the account of an iterator, whether it waits or not.
LEMMA PushedKeeps ==
    ASSUME NEW f \in Unread, Reading(f), Kept(f), NEW kinds \in Emissions, NEW c \in BOOLEAN
    PROVE  LET g == [Pushed(f, kinds) EXCEPT !.closed = c]
           IN  g \in Unread /\ (~f.closed => Kept(g))
<1> DEFINE waits == f.phase = "waiting"
           new   == Numbered(kinds, f.events)
           added == IF waits THEN Tail(new) ELSE new
           queue == f.queue \o added
           lost  == IF Len(queue) > capacity THEN Len(queue) - capacity ELSE 0
           kept  == SubSeq(queue, lost + 1, Len(queue))
           g     == [Pushed(f, kinds) EXCEPT !.closed = c]
<1>1. g = [f EXCEPT !.phase = "resolved", !.result = IF waits THEN new[1].kind ELSE @,
                    !.read = IF waits THEN @ + 1 ELSE @, !.events = @ + Len(kinds),
                    !.queue = kept, !.dropped = @ + lost, !.closed = c]
  BY DEF Pushed, Unread, Numbered
<1> HIDE DEF waits, new, added, queue, lost, kept, g
<1>2. PICK e \in Nat, d \in Nat, n \in Nat, m \in Nat, k \in Nat \ {0} :
         /\ f.events = e /\ f.dropped = d /\ f.read = n
         /\ Len(f.queue) = m /\ Len(kinds) = k
  <2>1. f.events \in Nat /\ f.dropped \in Nat /\ f.read \in Nat
    BY DEF Unread
  <2>2. Len(f.queue) \in Nat
    BY LenProperties DEF Unread
  <2>3. Len(kinds) \in Nat \ {0}
    BY EmissionsAreSequences
  <2> QED
    BY <2>1, <2>2, <2>3
<1>3. f.queue \in Seq(Event) /\ f.result \in Kinds \cup {"none", "overflow", "done"}
  BY DEF Unread, Event
<1>4. /\ new \in Seq(Event) /\ Len(new) = k /\ new[1].kind \in Kinds
      /\ Tail(new) \in Seq(Event) /\ Len(Tail(new)) = k - 1
  BY <1>2, NewEvents DEF new
<1>5. /\ \A i \in 1 .. k : new[i].n = e + i
      /\ \A i \in 1 .. k - 1 : Tail(new)[i].n = e + 1 + i
  BY <1>2, NewEvents DEF new
<1>6. PICK a \in Nat : a = IF waits THEN k - 1 ELSE k
  OBVIOUS
<1>7. added \in Seq(Event) /\ Len(added) = a
  BY <1>4, <1>6 DEF added
<1>8. \A i \in 1 .. a : added[i].n = (IF waits THEN e + 1 ELSE e) + i
  <2>1. CASE waits
    BY <1>5, <1>6, <2>1 DEF added
  <2>2. CASE ~waits
    BY <1>5, <1>6, <2>2 DEF added
  <2> QED
    BY <2>1, <2>2
<1>9. queue \in Seq(Event) /\ Len(queue) = m + a
  <2>1. Len(f.queue) = m
    BY <1>2
  <2> QED
    BY <1>3, <1>7, <2>1, ConcatProperties DEF queue
<1>10. PICK lo \in 0 .. m + a : lo = lost
  <2>1. capacity \in Nat
    BY FeedAssumption
  <2>2. Len(queue) = m + a
    BY <1>9
  <2>3. CASE Len(queue) > capacity
    <3>1. lost = Len(queue) - capacity
      BY <2>3 DEF lost
    <3> QED
      BY <2>1, <2>2, <2>3, <3>1
  <2>4. CASE ~(Len(queue) > capacity)
    <3>1. lost = 0
      BY <2>4 DEF lost
    <3> QED
      BY <3>1
  <2> QED
    BY <2>3, <2>4
<1>11. kept \in Seq(Event) /\ Len(kept) = m + a - lo
  <2>1. /\ queue = f.queue \o added /\ Len(queue) = m + a
        /\ kept = SubSeq(queue, lo + 1, Len(queue))
    BY <1>9, <1>10 DEF kept, queue
  <2>2. \A i \in lo + 1 .. m + a : queue[i] \in Event
    BY <1>9, <1>10, ElementOfSeq
  <2>3. /\ SubSeq(queue, lo + 1, m + a) \in Seq(Event)
        /\ Len(SubSeq(queue, lo + 1, m + a))
              = IF lo + 1 <= m + a THEN m + a - (lo + 1) + 1 ELSE 0
    <3>1. lo + 1 \in Int /\ m + a \in Int
      BY <1>10
    <3> QED
      BY <2>2, <3>1, SubSeqProperties
  <2> QED
    BY <1>10, <2>1, <2>3
<1>12. PICK result \in Kinds \cup {"none", "overflow", "done"}, read \in Nat :
         /\ result = (IF waits THEN new[1].kind ELSE f.result)
         /\ read = (IF waits THEN n + 1 ELSE n)
  <2>1. (IF waits THEN new[1].kind ELSE f.result) \in Kinds \cup {"none", "overflow", "done"}
    BY <1>3, <1>4
  <2>2. (IF waits THEN n + 1 ELSE n) \in Nat
    OBVIOUS
  <2> QED
    BY <2>1, <2>2, Zenon
<1>13. PICK dropped \in Nat, events \in Nat : dropped = d + lo /\ events = e + k
  BY <1>10
<1>14. g = [f EXCEPT !.phase = "resolved", !.result = result, !.read = read,
                     !.events = events, !.queue = kept, !.dropped = dropped, !.closed = c]
  <2>1. (IF waits THEN new[1].kind ELSE f.result) = result
    BY <1>12
  <2>2. (IF waits THEN f.read + 1 ELSE f.read) = read
    BY <1>2, <1>12
  <2>3. f.events + Len(kinds) = events /\ f.dropped + lost = dropped
    BY <1>2, <1>10, <1>13
  <2> QED
    BY <1>1, <2>1, <2>2, <2>3, Zenon
<1>15. g \in Unread
  BY ZenonT(60), <1>11, <1>12, <1>13, <1>14 DEF Unread, Event
<1>16. /\ g.phase = "resolved" /\ g.queue = kept /\ g.result = result
       /\ g.read = read /\ g.events = events /\ g.dropped = dropped /\ g.left = f.left
  BY <1>14 DEF Unread
<1>17. ASSUME ~f.closed, ~f.left PROVE Accounted(g)
  <2>1. Accounted(f)
    BY <1>17 DEF Kept
  <2>2. f.result # "done"
    BY <1>17, <2>1 DEF Accounted
  <2>3. result # "done"
    <3>1. new[1].kind # "done"
      BY <1>4 DEF Kinds, States
    <3> QED
      BY <1>12, <2>2, <3>1
  <2>4. n + d + m = e /\ (\A i \in 1 .. m : f.queue[i].n = n + d + i) /\ (waits => m = 0)
    <3>1. n + d + m = e /\ (\A i \in 1 .. m : f.queue[i].n = n + d + i)
      BY <1>2, <2>1, <2>2 DEF Accounted
    <3>2. waits => Len(f.queue) = 0
      BY <2>1, EmptySeq DEF Accounted, waits
    <3> QED
      BY <1>2, <3>1, <3>2
  <2>5. \A i \in 1 .. m : f.queue[i].n = read + d + i
    BY <1>12, <2>4
  <2>6. ASSUME NEW i \in 1 .. a PROVE added[i].n = read + d + m + i
    <3>1. added[i].n = (IF waits THEN e + 1 ELSE e) + i /\ i \in Nat
      BY <1>8, <2>6
    <3>2. n + d + m = e
      BY <2>4
    <3> QED
      BY <1>12, <3>1, <3>2
  <2>7. PICK base \in Nat : base = read + d
    OBVIOUS
  <2>8. \A i \in 1 .. m + a - lo : kept[i].n = base + lo + i
    <3>1. kept = SubSeq(f.queue \o added, lo + 1, Len(f.queue \o added))
      BY <1>10 DEF kept, queue
    <3>2. lo \in 0 .. Len(f.queue) + Len(added)
      BY <1>2, <1>7
    <3>3. /\ \A i \in 1 .. Len(f.queue) : f.queue[i].n = base + i
          /\ \A i \in 1 .. Len(added) : added[i].n = base + Len(f.queue) + i
      BY <1>2, <1>7, <2>5, <2>6, <2>7
    <3>4. f.queue \in Seq(Event) /\ added \in Seq(Event)
      BY <1>3, <1>7
    <3>5. /\ Following(f.queue, base) /\ Following(added, base + Len(f.queue))
      BY <3>3, Zenon DEF Following
    <3>6. Following(SubSeq(f.queue \o added, lo + 1, Len(f.queue \o added)), base + lo)
      BY <3>2, <3>4, <3>5, Retained
    <3>7. \A i \in 1 .. Len(kept) : kept[i].n = base + lo + i
      BY <3>1, <3>6, Zenon DEF Following
    <3> QED
      BY <1>11, <3>7
  <2>9. PICK len \in Nat : len = m + a - lo
    BY <1>10
  <2>10. read + dropped + len = events
    BY <1>6, <1>10, <1>12, <1>13, <2>4, <2>9
  <2>11. \A i \in 1 .. len : g.queue[i].n = read + dropped + i
    <3>1. \A i \in 1 .. len : kept[i].n = base + lo + i
      BY <2>8, <2>9
    <3>2. \A i \in 1 .. len : base + lo + i = read + dropped + i
      BY <1>10, <1>13, <2>7
    <3> QED
      BY <1>16, <3>1, <3>2
  <2>12. Len(g.queue) = len
    BY <1>11, <1>16, <2>9
  <2>13. g.phase # "waiting" /\ g.result # "done"
    BY <1>16, <2>3
  <2>14. Account(g, read, dropped, len, events)
    BY <1>16, <2>10, <2>11, <2>12, <2>13 DEF Account
  <2> QED
    BY <2>14, Numbers
<1> QED
  BY <1>15, <1>16, <1>17 DEF Kept, g

\* next() keeps the account of an iterator that is not done.
LEMMA AskedKeeps ==
    ASSUME NEW f \in Unread, f.result # "done",
           f.read + f.dropped + Len(f.queue) = f.events,
           Following(f.queue, f.read + f.dropped)
    PROVE  Asked(f) \in Unread /\ Accounted(Asked(f)) /\ Asked(f).left = f.left
<1>1. PICK r \in Nat, d \in Nat, m \in Nat, e \in Nat, s \in Nat :
         /\ f.read = r /\ f.dropped = d /\ Len(f.queue) = m /\ f.events = e
         /\ s = r + d
  <2>1. f.read \in Nat /\ f.dropped \in Nat /\ f.events \in Nat
    BY DEF Unread
  <2>2. Len(f.queue) \in Nat
    BY LenProperties DEF Unread
  <2> QED
    BY <2>1, <2>2
<1>2. f.queue \in Seq(Event)
  BY DEF Unread, Event
<1>3. r + d + m = e /\ \A i \in 1 .. m : f.queue[i].n = r + d + i
  BY <1>1 DEF Following
<1>4. CASE d > 0
  <2>1. Asked(f) = [f EXCEPT !.phase = "resolved", !.result = "overflow",
                             !.read = s, !.dropped = 0]
    BY <1>1, <1>4 DEF Asked
  <2>2. Asked(f) \in Unread
    <3>1. PICK z \in Nat, o \in Kinds \cup {"none", "overflow", "done"} :
             z = 0 /\ o = "overflow"
      OBVIOUS
    <3>2. Asked(f) = [f EXCEPT !.phase = "resolved", !.result = o, !.read = s, !.dropped = z]
      BY <2>1, <3>1, Zenon
    <3> QED
      BY <3>2 DEF Unread
  <2>3. /\ Asked(f).phase = "resolved" /\ Asked(f).result = "overflow"
        /\ Asked(f).queue = f.queue /\ Asked(f).events = f.events /\ Asked(f).left = f.left
        /\ Asked(f).read = s /\ Asked(f).dropped = 0
    BY <2>1 DEF Unread
  <2>4. s + 0 + m = e /\ \A i \in 1 .. m : f.queue[i].n = s + 0 + i
    BY <1>1, <1>3
  <2>5. Len(Asked(f).queue) = m /\ Asked(f).events = e
    BY <1>1, <2>3
  <2>6. \A i \in 1 .. m : Asked(f).queue[i].n = s + 0 + i
    BY <2>3, <2>4
  <2>7. Account(Asked(f), s, 0, m, e)
    BY <2>3, <2>4, <2>5, <2>6 DEF Account
  <2>8. Accounted(Asked(f))
    BY <2>7, Numbers
  <2> QED
    BY <2>2, <2>3, <2>8
<1>5. CASE ~(d > 0) /\ f.queue # <<>>
  <2>1. m # 0 /\ d = 0
    BY <1>1, <1>2, <1>5, EmptySeq
  <2>2. PICK k \in Nat, t \in Nat : m = k + 1 /\ t = r + 1
    BY <2>1
  <2>3. /\ Head(f.queue) \in Event /\ Tail(f.queue) \in Seq(Event)
        /\ Len(Tail(f.queue)) = Len(f.queue) - 1
        /\ \A i \in 1 .. Len(Tail(f.queue)) : Tail(f.queue)[i] = f.queue[i + 1]
    BY <1>2, <1>5, HeadTailProperties
  <2>4. Len(Tail(f.queue)) = k /\ \A i \in 1 .. k : Tail(f.queue)[i] = f.queue[i + 1]
    BY <1>1, <2>2, <2>3
  <2>5. Head(f.queue).n = t
    <3>1. Head(f.queue) = f.queue[1]
      BY <1>2, <1>5
    <3>2. f.queue[1].n = r + d + 1
      BY <1>3, <2>2
    <3> QED
      BY <2>1, <2>2, <3>1, <3>2
  <2>6. PICK kind \in Kinds : Head(f.queue).kind = kind
    BY <2>3 DEF Event
  <2>7. Asked(f) = [f EXCEPT !.phase = "resolved", !.result = kind,
                             !.read = t, !.queue = Tail(f.queue)]
    BY <1>1, <1>5, <2>5, <2>6 DEF Asked
  <2>8. Asked(f) \in Unread
    BY <2>3, <2>7 DEF Unread, Event
  <2>9. /\ Asked(f).phase = "resolved" /\ Asked(f).result = kind
        /\ Asked(f).queue = Tail(f.queue) /\ Asked(f).events = f.events
        /\ Asked(f).left = f.left /\ Asked(f).read = t /\ Asked(f).dropped = f.dropped
    BY <2>7 DEF Unread
  <2>10. Asked(f).dropped = 0 /\ Len(Asked(f).queue) = k /\ Asked(f).events = e
    BY <1>1, <2>1, <2>4, <2>9
  <2>11. t + 0 + k = e
    BY <1>3, <2>1, <2>2
  <2>12. ASSUME NEW i \in 1 .. k PROVE Asked(f).queue[i].n = t + 0 + i
    <3>1. PICK j \in 1 .. m : j = i + 1
      BY <2>2
    <3>2. Asked(f).queue[i] = f.queue[j]
      BY <2>4, <2>9, <3>1
    <3>3. f.queue[j].n = r + d + j
      BY <1>3
    <3> QED
      BY <2>1, <2>2, <3>1, <3>2, <3>3
  <2>13. kind # "done"
    BY DEF Kinds, States
  <2>14. Asked(f).phase # "waiting" /\ Asked(f).result # "done"
    BY <2>9, <2>13
  <2>15. Account(Asked(f), t, 0, k, e)
    BY <2>9, <2>10, <2>11, <2>12, <2>14 DEF Account
  <2>16. Accounted(Asked(f))
    BY <2>15, Numbers
  <2> QED
    BY <2>8, <2>9, <2>16
<1>6. CASE ~(d > 0) /\ f.queue = <<>>
  <2>1. Asked(f) = IF f.closed THEN [f EXCEPT !.phase = "resolved", !.result = "done"]
                               ELSE [f EXCEPT !.phase = "waiting"]
    BY <1>1, <1>6 DEF Asked
  <2>2. Asked(f) \in Unread
    BY ZenonT(60), <2>1 DEF Unread
  <2>3. /\ Asked(f).phase = "waiting" => Asked(f).result # "done"
        /\ Asked(f).result = "done" => Asked(f).closed
        /\ Asked(f).queue = f.queue /\ Asked(f).events = f.events /\ Asked(f).left = f.left
        /\ Asked(f).read = f.read /\ Asked(f).dropped = f.dropped
    BY <2>1 DEF Unread
  <2>4. /\ d = 0 /\ Asked(f).read = r /\ Asked(f).dropped = d /\ Asked(f).events = e
        /\ Len(Asked(f).queue) = m /\ Asked(f).queue = <<>>
    BY <1>1, <1>6, <2>3
  <2>5. \A i \in 1 .. m : Asked(f).queue[i].n = r + d + i
    BY <1>3, <2>3
  <2>6. Account(Asked(f), r, d, m, e)
    BY <1>3, <2>3, <2>4, <2>5 DEF Account
  <2>7. Accounted(Asked(f))
    BY <2>6, Numbers
  <2> QED
    BY <2>2, <2>3, <2>7
<1> QED
  BY <1>4, <1>5, <1>6

LEMMA AskedIsRead ==
    ASSUME NEW f \in Unread
    PROVE  Asked(f).phase # "none"
BY DEF Asked, Unread

\* return() and the end of a loop.
LEMMA RemovedTyped ==
    ASSUME NEW f \in Unread
    PROVE  Removed(f) \in Unread
BY EmptySeq DEF Removed, Unread

LEMMA LeavesKeeps ==
    ASSUME NEW f \in Unread, Kept(f)
    PROVE  Leaves(f) \in Unread /\ Kept(Leaves(f))
<1>1. Removed(f) \in Unread
  BY RemovedTyped
<1>2. CASE Reading(f)
  <2>1. Leaves(f) = [Removed(f) EXCEPT !.left = TRUE] /\ Removed(f).phase = "resolved"
    BY <1>2 DEF Leaves, Removed, Reading, Unread
  <2>2. Leaves(f) \in Unread /\ Leaves(f).left /\ Leaves(f).phase = "resolved"
    BY <1>1, <2>1 DEF Unread
  <2> QED
    BY <2>2 DEF Kept
<1> QED
  BY <1>2 DEF Leaves

-----------------------------------------------------------------------------
LEMMA InitKeeps == FeedInit => FeedIInv
BY EmptySeq DEF FeedInit, FeedIInv, FeedTypeOK, Kept, Reading, Unread, States, Kinds

\* An event reaches every iterator that is read and not closed.
LEMMA EmitKeeps ==
    ASSUME FeedIInv, NEW kinds \in Emissions, Emit(kinds)
    PROVE  FeedIInv'
<1>1. status \in States /\ \A r \in Readers : feed[r] \in Unread /\ Kept(feed[r])
  BY DEF FeedIInv, FeedTypeOK
<1>2. CASE status = "closed"
  BY <1>2 DEF Emit, FeedIInv, FeedTypeOK, Kept, Reading, Accounted, feedVars
<1>3. CASE status # "closed"
  <2>1. status' = LastStatus(kinds) /\ status' \in States
    BY <1>1, <1>3, LastStatusIsState DEF Emit
  <2>2. feed' = [r \in Readers |->
                    IF ~Reading(feed[r]) \/ feed[r].closed THEN feed[r] ELSE
                    [Pushed(feed[r], kinds) EXCEPT !.closed = status' = "closed"]]
    BY <1>3 DEF Emit
  <2>3. ASSUME NEW r \in Readers PROVE feed'[r] \in Unread /\ Kept(feed'[r])
    <3>1. PICK c \in BOOLEAN : c = (status' = "closed")
      OBVIOUS
    <3>2. CASE ~Reading(feed[r]) \/ feed[r].closed
      BY <1>1, <2>2, <3>2
    <3>3. CASE Reading(feed[r]) /\ ~feed[r].closed
      <4>1. feed'[r] = [Pushed(feed[r], kinds) EXCEPT !.closed = c]
        BY <2>2, <3>1, <3>3
      <4> QED
        BY <1>1, <3>3, <4>1, PushedKeeps
    <3> QED
      BY <3>2, <3>3
  <2>4. feed' \in [Readers -> Unread]
    BY <2>2, <2>3
  <2> QED
    BY <2>1, <2>3, <2>4 DEF FeedIInv, FeedTypeOK
<1> QED
  BY <1>2, <1>3

\* A step that changes one iterator, and leaves it accounted for.
LEMMA OneIteratorKeeps ==
    ASSUME FeedIInv, NEW r \in Readers, NEW g \in Unread, Kept(g),
           feed' = [feed EXCEPT ![r] = g], UNCHANGED status
    PROVE  FeedIInv'
<1>1. feed' \in [Readers -> Unread] /\ status' \in States
  BY DEF FeedIInv, FeedTypeOK
<1>2. ASSUME NEW q \in Readers PROVE Kept(feed'[q])
  BY DEF FeedIInv, FeedTypeOK
<1> QED
  BY <1>1, <1>2 DEF FeedIInv, FeedTypeOK

LEMMA ObserveKeeps ==
    ASSUME FeedIInv, NEW r \in Readers, Observe(r)
    PROVE  FeedIInv'
<1>1. feed[r] \in Unread /\ Kept(feed[r]) /\ feed[r].phase = "none" /\ status \in States
  BY DEF FeedIInv, FeedTypeOK, Observe
<1> DEFINE first == [n |-> 1, kind |-> status]
           f     == [feed[r] EXCEPT !.queue = <<first>>, !.events = 1,
                                    !.closed = status = "closed"]
<1>2. <<first>> \in Seq(Event) /\ Len(<<first>>) = 1 /\ <<first>>[1] = first
  BY <1>1 DEF Event, Kinds
<1>3. f \in Unread
  BY <1>1, <1>2 DEF Unread, Event
<1>4. /\ f.result # "done" /\ f.read = 0 /\ f.dropped = 0
      /\ f.queue = <<first>> /\ f.events = 1
  BY <1>1 DEF Kept, Unread
<1>5. f.read + f.dropped + Len(f.queue) = f.events
  BY <1>2, <1>4
<1>6. Following(f.queue, f.read + f.dropped)
  BY <1>2, <1>4 DEF Following
<1> HIDE DEF f
<1>7. Asked(f) \in Unread /\ Accounted(Asked(f))
  BY <1>3, <1>4, <1>5, <1>6, AskedKeeps
<1>8. Kept(Asked(f))
  BY <1>3, <1>7, AskedIsRead DEF Kept
<1>9. feed' = [feed EXCEPT ![r] = Asked(f)] /\ UNCHANGED status
  BY DEF Observe, f
<1> QED
  BY <1>7, <1>8, <1>9, OneIteratorKeeps

LEMMA HandleKeeps ==
    ASSUME FeedIInv, NEW r \in Readers, Handle(r)
    PROVE  FeedIInv'
<1> DEFINE f == Handled(feed[r])
           g == IF f.left \/ f.result = "done" THEN [Removed(f) EXCEPT !.phase = "ended"]
                                              ELSE Asked(f)
<1>1. feed[r] \in Unread /\ Kept(feed[r])
  BY DEF FeedIInv, FeedTypeOK
<1>2. f \in Unread
  BY <1>1 DEF Handled, Unread, States
<1>3. /\ f.phase = feed[r].phase /\ f.left = feed[r].left /\ f.result = feed[r].result
      /\ f.queue = feed[r].queue /\ f.closed = feed[r].closed /\ f.events = feed[r].events
      /\ f.read = feed[r].read /\ f.dropped = feed[r].dropped
  BY <1>1 DEF Handled, Unread
<1>4. f.phase = "resolved" /\ feed' = [feed EXCEPT ![r] = g] /\ UNCHANGED status
  BY DEF Handle
<1> HIDE DEF f
<1>5. CASE f.left \/ f.result = "done"
  <2>1. Removed(f) \in Unread /\ g = [Removed(f) EXCEPT !.phase = "ended"]
    BY <1>2, <1>5, RemovedTyped
  <2>2. g \in Unread /\ g.phase = "ended"
    BY <2>1 DEF Unread
  <2>3. Kept(g)
    BY <2>2 DEF Kept, Reading
  <2> QED
    BY <1>4, <2>2, <2>3, OneIteratorKeeps
<1>6. CASE ~(f.left \/ f.result = "done")
  <2>1. Accounted(feed[r])
    BY <1>1, <1>3, <1>4, <1>6 DEF Kept, Reading
  <2>2. f.read + f.dropped + Len(f.queue) = f.events /\ Following(f.queue, f.read + f.dropped)
    BY <1>3, <1>6, <2>1 DEF Accounted, Following
  <2>3. Asked(f) \in Unread /\ Accounted(Asked(f))
    BY <1>2, <1>6, <2>2, AskedKeeps
  <2>4. Kept(Asked(f))
    BY <1>2, <2>3, AskedIsRead DEF Kept
  <2> QED
    BY <1>4, <1>6, <2>3, <2>4, OneIteratorKeeps
<1> QED
  BY <1>5, <1>6

LEMMA LeaveKeeps ==
    ASSUME FeedIInv, NEW r \in Readers, Leave(r)
    PROVE  FeedIInv'
<1>1. Leaves(feed[r]) \in Unread /\ Kept(Leaves(feed[r]))
  BY LeavesKeeps DEF FeedIInv, FeedTypeOK
<1>2. feed' = [feed EXCEPT ![r] = Leaves(feed[r])] /\ UNCHANGED status
  BY DEF Leave, FeedIInv, FeedTypeOK
<1> QED
  BY <1>1, <1>2, OneIteratorKeeps

LEMMA LeaveTogetherKeeps ==
    ASSUME FeedIInv, LeaveTogether
    PROVE  FeedIInv'
<1>1. \A r \in Readers : Leaves(feed[r]) \in Unread /\ Kept(Leaves(feed[r]))
  BY LeavesKeeps DEF FeedIInv, FeedTypeOK
<1> QED
  BY <1>1 DEF LeaveTogether, FeedIInv, FeedTypeOK

LEMMA StepKeeps == FeedIInv /\ [FeedNext]_feedVars => FeedIInv'
<1> SUFFICES ASSUME FeedIInv, [FeedNext]_feedVars
             PROVE  FeedIInv'
  OBVIOUS
<1>1. CASE \E kinds \in Emissions : Emit(kinds)
  BY <1>1, EmitKeeps
<1>2. ASSUME NEW r \in Readers, Observe(r) PROVE FeedIInv'
  BY <1>2, ObserveKeeps
<1>3. ASSUME NEW r \in Readers, Handle(r) PROVE FeedIInv'
  BY <1>3, HandleKeeps
<1>4. ASSUME NEW r \in Readers, Leave(r) PROVE FeedIInv'
  BY <1>4, LeaveKeeps
<1>5. CASE LeaveTogether
  BY <1>5, LeaveTogetherKeeps
<1>6. CASE UNCHANGED feedVars
  BY <1>6 DEF feedVars, FeedIInv, FeedTypeOK, Kept, Reading, Accounted
<1> QED
  BY <1>1, <1>2, <1>3, <1>4, <1>5, <1>6 DEF FeedNext

LEMMA FeedInvariant == FeedSpec => []FeedIInv
BY InitKeeps, StepKeeps, PTL DEF FeedSpec

(***************************************************************************)
(* Whatever a runtime reports and however late its readers are, and for    *)
(* any capacity, a reader has read every event it was sent or has been     *)
(* told how many it lost, before the ones behind the loss: the buffer and  *)
(* the overflow notice of RuntimeEventStream (core 810-936).               *)
(***************************************************************************)
THEOREM GapsAlwaysTold == FeedSpec => []GapsAreTold
<1>1. FeedIInv => GapsAreTold
  <2> SUFFICES ASSUME FeedIInv, NEW r \in Readers, Reading(feed[r]), ~feed[r].left
               PROVE  Accounted(feed[r])
    BY DEF GapsAreTold, Accounted
  <2> QED
    BY DEF FeedIInv, Kept
<1> QED
  BY <1>1, FeedInvariant, PTL

-----------------------------------------------------------------------------
(***************************************************************************)
(* The composition (ManagedRuntime).                                       *)
(***************************************************************************)

\* The reports of the core are emissions.
LEMMA Reports1 ==
    ASSUME NEW a \in Kinds
    PROVE  <<a>> \in Emissions
BY DEF Emissions

LEMMA Reports2 ==
    ASSUME NEW a \in Kinds, NEW b \in Kinds
    PROVE  <<a, b>> \in Emissions
BY DEF Emissions

LEMMA Reports3 ==
    ASSUME NEW a \in Kinds, NEW b \in Kinds, NEW c \in Kinds
    PROVE  <<a, b, c>> \in Emissions
BY DEF Emissions

LEMMA Reports4 ==
    ASSUME NEW a \in Kinds, NEW b \in Kinds, NEW c \in Kinds, NEW d \in Kinds
    PROVE  <<a, b, c, d>> \in Emissions
BY DEF Emissions

Reporting == [FeedNext]_feedVars

LEMMA EmitReports ==
    ASSUME NEW kinds \in Emissions, Emit(kinds)
    PROVE  Reporting
BY DEF Reporting, FeedNext

LEMMA AskReports == AskConnection => Reporting
<1>1. <<"connecting", "diagnostic">> \in Emissions
  BY Reports2 DEF Kinds, States
<1> QED
  BY <1>1, EmitReports DEF AskConnection, Reporting

LEMMA LinkReports ==
    ASSUME NEW s \in States, Reported(s)
    PROVE  Reporting
<1>1. <<s>> \in Emissions
  BY Reports1 DEF Kinds
<1> QED
  BY <1>1, EmitReports DEF Reported, Reporting

LEMMA DiagnosticReports ==
    ASSUME Emit(<<"diagnostic">>)
    PROVE  Reporting
<1>1. <<"diagnostic">> \in Emissions
  BY Reports1 DEF Kinds
<1> QED
  BY <1>1, EmitReports

LEMMA ClosedReports ==
    ASSUME Emit(<<"diagnostic", "closed">>)
    PROVE  Reporting
<1>1. <<"diagnostic", "closed">> \in Emissions
  BY Reports2 DEF Kinds, States
<1> QED
  BY <1>1, EmitReports

LEMMA RefusedReports == Refused => Reporting
<1>1. <<"diagnostic", "diagnostic", "disconnected">> \in Emissions
  BY Reports3 DEF Kinds, States
<1> QED
  BY <1>1, EmitReports, DiagnosticReports DEF Refused

LEMMA EstablishedReports == Established => Reporting
<1>1. <<"diagnostic", "connected">> \in Emissions
  BY Reports2 DEF Kinds, States
<1> QED
  BY <1>1, EmitReports DEF Established

LEMMA ForGoodReports == ClosesForGood => Reporting
<1>1. <<"diagnostic", "disconnected", "connecting", "diagnostic">> \in Emissions
  BY Reports4 DEF Kinds, States
<1> QED
  BY <1>1, EmitReports DEF ClosesForGood, Reporting

\* The steps of a subscription, its stream and the request report nothing.
LEMMA RuntimeReports == Runtime => Reporting
<1> SUFFICES ASSUME Runtime
             PROVE  Reporting
  OBVIOUS
<1>1. CASE Connect \/ LinkDrops \/ LinkRecovers \/ Reports
  BY <1>1, AskReports, LinkReports, DiagnosticReports
     DEF Connect, LinkDrops, LinkRecovers, Reports, States
<1>2. CASE Established \/ Refused \/ ClosesForGood
  BY <1>2, EstablishedReports, RefusedReports, ForGoodReports
<1>3. CASE ShutdownEnds \/ Deadline
  BY <1>3, ClosedReports DEF ShutdownEnds, Deadline
<1>4. CASE Request \/ Send \/ Answered \/ AbortRequest
  BY <1>4, AskReports DEF Request, Send, Answered, AbortRequest, Reporting, BesideRequest
<1>5. ASSUME NEW s \in Subs, NEW p \in Policies, Subscribe(s, p) PROVE Reporting
  BY <1>5, AskReports DEF Subscribe
<1>6. ASSUME NEW s \in Subs,
             \/ Start(s) \/ StartFails(s) \/ Next(s) \/ Decoded(s) \/ Throws(s)
             \/ Returns(s) \/ LoopEnds(s) \/ Close(s) \/ SignalAborts(s)
      PROVE  Reporting
  BY <1>6 DEF Start, StartFails, Next, Decoded, Throws, Returns, LoopEnds, Close, SignalAborts,
              OnlySubMoves, BesideSub, Reporting
<1>7. ASSUME NEW s \in Subs, Route(s) \/ Arrives(s) \/ Drained(s) \/ Denied(s)
      PROVE  Reporting
  BY <1>7 DEF Route, Arrives, Drained, Denied, OnlySubMoves, BesideSub, Reporting
<1>8. ASSUME NEW s \in Subs,
             Offer(s) \/ SourceEnds(s) \/ Take(s) \/ SeesEnd(s) \/ Interrupt(s)
      PROVE  Reporting
  BY <1>8 DEF Offer, SourceEnds, Take, SeesEnd, Interrupt, BesideSub, Reporting
<1> QED
  BY <1>1, <1>2, <1>3, <1>4, <1>5, <1>6, <1>7, <1>8 DEF Runtime

\* What the hook, the programs and the provider report.
LEMMA HookReports == Hook => Reporting
<1> SUFFICES ASSUME NEW i \in Effects, MountEffect(i) \/ StartProcessor(i) \/ CleanUp(i)
             PROVE  Reporting
  BY DEF Hook
<1>1. CASE MountEffect(i)
  BY <1>1 DEF MountEffect, Reporting
<1>2. CASE StartProcessor(i)
  <2>1. \/ Manage(i, effect' = [effect EXCEPT ![i] = "running"],
                     effect' = [effect EXCEPT ![i] = "failed"])
        \/ CreateThrows(effect' = [effect EXCEPT ![i] = "failed"])
    BY <1>2 DEF StartProcessor
  <2> QED
    BY <2>1, DiagnosticReports DEF Manage, CreateThrows, Reporting
<1>3. CASE CleanUp(i)
  BY <1>3 DEF CleanUp, Reporting
<1> QED
  BY <1>1, <1>2, <1>3

LEMMA ProgramReports == Program => Reporting
<1> SUFFICES ASSUME NEW l \in Programs, Acquire(l) \/ InterruptProgram(l) \/ ProgramEnds(l)
             PROVE  Reporting
  BY DEF Program
<1>1. CASE Acquire(l)
  <2>1. \/ Manage(l, program' = [program EXCEPT ![l] = "running"],
                     program' = [program EXCEPT ![l] = "over"])
        \/ CreateThrows(program' = [program EXCEPT ![l] = "over"])
    BY <1>1 DEF Acquire
  <2> QED
    BY <2>1, DiagnosticReports DEF Manage, CreateThrows, Reporting
<1>2. CASE InterruptProgram(l)
  BY <1>2 DEF InterruptProgram, Reporting
<1>3. CASE ProgramEnds(l)
  BY <1>3 DEF ProgramEnds, Reporting, vars
<1> QED
  BY <1>1, <1>2, <1>3

LEMMA ProviderReports == Provider => Reporting
<1>1. CASE ProviderMounts \/ Replays
  BY <1>1 DEF ProviderMounts, Replays, Reporting, vars
<1>2. CASE Unmounts
  BY <1>2 DEF Unmounts, Reporting, FeedNext
<1>3. ASSUME NEW n \in cleanups, Disposes(n) PROVE Reporting
  BY <1>3, DiagnosticReports DEF Disposes, CloseRuntime, Reporting, vars
<1> QED
  BY <1>1, <1>2, <1>3 DEF Provider

\* A reader that reads, begins or leaves.
LEMMA ReadReports == ASSUME NEW r \in Readers, Read(r) PROVE Reporting
BY DEF Read, Reporting, FeedNext

\* Every step drives the event stream or leaves it alone.
LEMMA NextReports == [AllNext]_allVars => Reporting
<1> SUFFICES ASSUME [AllNext]_allVars
             PROVE  Reporting
  OBVIOUS
<1>1. CASE UNCHANGED allVars
  BY <1>1 DEF allVars, vars, Reporting
<1>2. ASSUME AnyEnds PROVE Reporting
  BY <1>2 DEF AnyEnds, LeaseEnds, Reporting
<1>3. CASE AllNext
  BY <1>2, <1>3, RuntimeReports, ReadReports, ProgramReports, HookReports, ProviderReports
     DEF AllNext
<1> QED
  BY <1>1, <1>3

(***************************************************************************)
(* Every step of the managed runtime is one of its event stream, or leaves *)
(* it alone, so no reader misses an event without being told, whatever     *)
(* subscriptions, processors, a StrictMode replay or the shutdown do       *)
(* meanwhile (core 810-936, react status hook).                            *)
(***************************************************************************)
THEOREM ReadersAreTold == Spec => FeedSpec /\ []GapsAreTold
<1>1. Init => FeedInit
  BY DEF Init, CoreInit
<1>2. [AllNext]_allVars => [FeedNext]_feedVars
  BY NextReports DEF Reporting
<1>3. Spec => FeedSpec
  BY <1>1, <1>2, PTL DEF Spec, FeedSpec
<1> QED
  BY <1>3, GapsAlwaysTold, PTL

-----------------------------------------------------------------------------
(***************************************************************************)
(* Why a mounted provider's runtime is open: the run in force has not been *)
(* cleaned up, and a microtask only closes for the run that is still last. *)
(***************************************************************************)
OpenWhileMounted ==
    /\ mounted => closePhase = "open" /\ effectRun # 0 /\ effectRun \notin cleanups
    /\ effectRun = 0 => closePhase = "open" /\ cleanups = {}

LEMMA InitOpen == Init => OpenWhileMounted
BY DEF Init, CoreInit, OpenWhileMounted

\* Only a runtime that closes comes to the end of its shutdown.
LEMMA PhaseKept == Runtime => closePhase' = closePhase \/ closePhase = "closing"
<1> SUFFICES ASSUME Runtime
             PROVE  closePhase' = closePhase \/ closePhase = "closing"
  OBVIOUS
<1>1. CASE \/ Connect \/ Established \/ Refused \/ LinkDrops \/ LinkRecovers \/ Reports
           \/ ClosesForGood
  BY <1>1 DEF Connect, Established, Refused, LinkDrops, LinkRecovers, Reports, ClosesForGood,
              coreVars
<1>2. CASE ShutdownEnds \/ Deadline
  BY <1>2 DEF ShutdownEnds, Deadline
<1>3. CASE Request \/ Send \/ Answered \/ AbortRequest
  BY <1>3 DEF Request, Send, Answered, AbortRequest, BesideRequest
<1>4. ASSUME NEW s \in Subs, NEW p \in Policies, Subscribe(s, p)
      PROVE  closePhase' = closePhase
  BY <1>4 DEF Subscribe
<1>5. ASSUME NEW s \in Subs,
             \/ Start(s) \/ StartFails(s) \/ Next(s) \/ Decoded(s) \/ Throws(s)
             \/ Returns(s) \/ LoopEnds(s) \/ Close(s) \/ SignalAborts(s)
      PROVE  closePhase' = closePhase
  BY <1>5 DEF Start, StartFails, Next, Decoded, Throws, Returns, LoopEnds, Close, SignalAborts,
              OnlySubMoves, BesideSub
<1>6. ASSUME NEW s \in Subs, Route(s) \/ Arrives(s) \/ Drained(s) \/ Denied(s)
      PROVE  closePhase' = closePhase
  BY <1>6 DEF Route, Arrives, Drained, Denied, OnlySubMoves, BesideSub
<1>7. ASSUME NEW s \in Subs,
             Offer(s) \/ SourceEnds(s) \/ Take(s) \/ SeesEnd(s) \/ Interrupt(s)
      PROVE  closePhase' = closePhase
  BY <1>7 DEF Offer, SourceEnds, Take, SeesEnd, Interrupt, BesideSub
<1> QED
  BY <1>1, <1>2, <1>3, <1>4, <1>5, <1>6, <1>7 DEF Runtime

LEMMA StepOpen == OpenWhileMounted /\ [AllNext]_allVars => OpenWhileMounted'
<1> SUFFICES ASSUME OpenWhileMounted, [AllNext]_allVars
             PROVE  OpenWhileMounted'
  OBVIOUS
<1>1. CASE UNCHANGED allVars
  BY <1>1 DEF allVars, vars, coreVars, providerVars, OpenWhileMounted
<1>2. CASE effectRun > 0 /\ Runtime /\ UNCHANGED providerVars
  BY <1>2, PhaseKept DEF OpenWhileMounted, providerVars
<1>3. ASSUME NEW r \in Readers, Read(r), UNCHANGED providerVars PROVE OpenWhileMounted'
  BY <1>3 DEF Read, coreVars, providerVars, OpenWhileMounted
<1>4. ASSUME AnyEnds, UNCHANGED providerVars PROVE OpenWhileMounted'
  BY <1>4 DEF AnyEnds, LeaseEnds, providerVars, OpenWhileMounted
<1>5. ASSUME Program, UNCHANGED providerVars PROVE OpenWhileMounted'
  BY <1>5 DEF Program, Acquire, InterruptProgram, ProgramEnds, vars, coreVars, providerVars,
              OpenWhileMounted
<1>6. CASE Hook
  BY <1>6 DEF Hook, MountEffect, StartProcessor, CleanUp, coreVars, providerVars,
              OpenWhileMounted
<1>7. CASE ProviderMounts
  BY <1>7 DEF ProviderMounts, vars, coreVars, OpenWhileMounted
<1>8. CASE Replays
  BY <1>8 DEF Replays, vars, coreVars, OpenWhileMounted
<1>9. CASE Unmounts
  BY <1>9 DEF Unmounts, OpenWhileMounted
<1>10. ASSUME NEW n \in cleanups, Disposes(n) PROVE OpenWhileMounted'
  <2>1. /\ cleanups' = cleanups \ {n} /\ UNCHANGED <<mounted, effectRun>>
        /\ effectRun = n \/ closePhase' = closePhase
    BY <1>10 DEF Disposes, StillDown, vars, coreVars
  <2> QED
    BY <1>10, <2>1 DEF OpenWhileMounted
<1> QED
  BY <1>1, <1>2, <1>3, <1>4, <1>5, <1>6, <1>7, <1>8, <1>9, <1>10 DEF AllNext, Provider

(***************************************************************************)
(* NatsManagedProvider: neither a StrictMode replay nor a late microtask   *)
(* closes the runtime under a mounted tree.                                *)
(***************************************************************************)
THEOREM MountedIsOpen == Spec => []InUseStaysOpen
<1>1. OpenWhileMounted => InUseStaysOpen
  BY DEF OpenWhileMounted, InUseStaysOpen
<1> QED
  BY <1>1, InitOpen, StepOpen, PTL DEF Spec

-----------------------------------------------------------------------------
SubRecord ==
    [policy  : Policies \cup {"none"},
     pc      : {"none", "connecting", "starting", "refused", "waiting", "decoding",
                "handling", "ended"},
     native  : {"none", "open", "draining", "closed"},
     error   : BOOLEAN, lost : BOOLEAN,
     routed  : Nat, arrived : Nat, pulled : Nat, done : Nat,
     closing : BOOLEAN, cancelled : BOOLEAN, stopped : BOOLEAN,
     ready   : Promise, closed : Promise]

(***************************************************************************)
(* Why a graceful close loses nothing.  A loop that waits has handled what *)
(* it has pulled, and a nats.js subscription that neither an error, an     *)
(* abort nor the loss of its connection has closed was drained first.      *)
(***************************************************************************)
Unharmed(x) == ~x.error /\ ~x.cancelled /\ ~x.lost

Delivered(x) ==
    /\ x.pulled <= x.arrived /\ x.arrived <= x.routed
    /\ x.native = "none" => x.routed = 0 /\ x.done = 0
    /\ x.pc \in {"none", "connecting", "starting", "refused"} => x.native = "none"
    /\ x.pc = "waiting" => x.done = x.pulled
    /\ x.pc \in {"decoding", "handling"} => x.done + 1 = x.pulled
    /\ x.pc = "ended" => x.native \in {"none", "closed"}
    /\ x.pc # "ended" => x.closed = "pending"
    /\ x.pc # "ended" /\ x.native = "closed" /\ Unharmed(x) => x.arrived = x.routed
    /\ x.closed = "resolved" /\ ~x.cancelled /\ ~x.lost => x.done = x.routed

Sound(x) == x \in SubRecord /\ Delivered(x)

SubsSound == sub \in [Subs -> SubRecord] /\ \A s \in Subs : Delivered(sub[s])

LEMMA CutSound == ASSUME NEW x, Sound(x) PROVE Sound(Cut(x))
<1>1. CASE x.native \in {"open", "draining"}
  <2>1. Cut(x) = [x EXCEPT !.native = "closed", !.lost = TRUE]
    BY <1>1 DEF Cut
  <2>2. Cut(x) \in SubRecord
    BY <2>1 DEF Sound, SubRecord
  <2>3. /\ Cut(x).lost /\ Cut(x).native = "closed"
        /\ Cut(x).pc = x.pc /\ Cut(x).closed = x.closed /\ Cut(x).routed = x.routed
        /\ Cut(x).arrived = x.arrived /\ Cut(x).pulled = x.pulled /\ Cut(x).done = x.done
    BY <2>1 DEF Sound, SubRecord
  <2> QED
    BY <1>1, <2>2, <2>3 DEF Sound, Delivered, Unharmed
<1> QED
  BY <1>1 DEF Cut

LEMMA ClosingSound == ASSUME NEW x, Sound(x) PROVE Sound(Closing(x))
BY ZenonT(60) DEF Sound, Delivered, SubRecord, Unharmed, Closing

\* What the end of start() asks of a subscription.
Counted(x) ==
    /\ x \in SubRecord /\ x.pulled <= x.arrived /\ x.arrived <= x.routed
    /\ x.native = "none" => x.routed = 0 /\ x.done = 0

LEMMA SoundCounts == ASSUME NEW x, Sound(x) PROVE Counted(x)
BY DEF Sound, Delivered, Counted

\* start() ends well only with all that was routed handled.
LEMMA OverSound ==
    ASSUME NEW x, Counted(x), NEW ready \in Promise, NEW closed \in Promise,
           closed = "resolved" /\ ~x.cancelled /\ ~x.lost => x.done = x.routed
    PROVE  Sound(Over(x, ready, closed))
<1> DEFINE y == Over(x, ready, closed)
<1>1. PICK native \in {"none", "open", "draining", "closed"}, told \in Promise :
         /\ native = (IF x.native = "none" THEN x.native ELSE "closed")
         /\ told = (IF x.ready = "pending" THEN ready ELSE x.ready)
  BY DEF Counted, SubRecord
<1>2. y = [x EXCEPT !.pc = "ended", !.native = native, !.ready = told, !.closed = closed]
  BY <1>1 DEF Over
<1>3. y \in SubRecord
  BY <1>2 DEF Counted, SubRecord
<1>4. /\ y.pc = "ended" /\ y.native = native /\ y.closed = closed
      /\ y.lost = x.lost /\ y.cancelled = x.cancelled /\ y.routed = x.routed
      /\ y.arrived = x.arrived /\ y.pulled = x.pulled /\ y.done = x.done
  BY <1>2 DEF Counted, SubRecord
<1> HIDE DEF y
<1>5. y.closed = "resolved" /\ ~y.cancelled /\ ~y.lost => y.done = y.routed
  BY <1>4
<1>6. y.native \in {"none", "closed"} /\ (y.native = "none" => x.native = "none")
  BY <1>1, <1>4
<1>7. /\ x.pulled <= x.arrived /\ x.arrived <= x.routed
      /\ x.native = "none" => x.routed = 0 /\ x.done = 0
  BY DEF Counted
<1>8. Delivered(y)
  BY <1>4, <1>5, <1>6, <1>7 DEF Delivered
<1> QED
  BY <1>3, <1>8 DEF Sound, y

LEMMA FailedSound == ASSUME NEW x, Counted(x) PROVE Sound(Failed(x))
BY OverSound DEF Failed, Promise

LEMMA AbortedSound == ASSUME NEW x, Sound(x) PROVE Sound(Aborted(x))
<1> DEFINE y == [x EXCEPT !.closing = TRUE, !.cancelled = TRUE,
                          !.native  = IF @ = "none" THEN @ ELSE "closed"]
<1>1. PICK native \in {"none", "open", "draining", "closed"} :
         native = (IF x.native = "none" THEN x.native ELSE "closed")
  BY DEF Sound, SubRecord
<1>2. y = [x EXCEPT !.closing = TRUE, !.cancelled = TRUE, !.native = native]
  BY <1>1
<1>3. y \in SubRecord
  BY <1>2 DEF Sound, SubRecord
<1>4. /\ y.pc = x.pc /\ y.native = native /\ y.closed = x.closed /\ y.cancelled
      /\ y.routed = x.routed /\ y.arrived = x.arrived /\ y.pulled = x.pulled
      /\ y.done = x.done
  BY <1>2 DEF Sound, SubRecord
<1> HIDE DEF y
<1>5. Sound(y)
  BY <1>1, <1>3, <1>4 DEF Sound, Delivered, Unharmed
<1>6. Aborted(x) = IF x.pc = "connecting" THEN Failed(y) ELSE y
  BY DEF Aborted, y
<1> QED
  BY <1>5, <1>6, FailedSound, SoundCounts

LEMMA OutcomeSound ==
    ASSUME NEW x, Sound(x), NEW next \in {"starting", "refused"} PROVE Sound(Outcome(x, next))
BY DEF Sound, Delivered, SubRecord, Unharmed, Outcome

-----------------------------------------------------------------------------
\* One subscription moves, or all of them do in the same way.
LEMMA OneSound ==
    ASSUME SubsSound, NEW s \in Subs, NEW x, Sound(x), sub' = [sub EXCEPT ![s] = x]
    PROVE  SubsSound'
BY DEF SubsSound, Sound

LEMMA AllSound ==
    ASSUME DOMAIN sub' = Subs, sub' = [s \in Subs |-> sub'[s]], \A s \in Subs : Sound(sub'[s])
    PROVE  SubsSound'
BY DEF SubsSound, Sound

LEMMA EachSound == SubsSound => \A s \in Subs : Sound(sub[s])
BY DEF SubsSound, Sound

LEMMA InitSound == Init => SubsSound
BY DEF Init, CoreInit, SubsSound, SubRecord, Delivered, Unharmed, Promise

LEMMA SubscribeSound ==
    ASSUME SubsSound, NEW s \in Subs, NEW p \in Policies, Subscribe(s, p)
    PROVE  SubsSound'
<1>1. PICK pc \in {"starting", "connecting"} : pc = IF Connected THEN "starting" ELSE "connecting"
  OBVIOUS
<1>2. PICK x : x = [sub[s] EXCEPT !.policy = p, !.pc = pc]
  OBVIOUS
<1>3. sub' = [sub EXCEPT ![s] = x] /\ Sound(sub[s]) /\ sub[s].pc = "none"
  BY <1>1, <1>2, EachSound DEF Subscribe, SubStep
<1>4. Sound(x)
  BY <1>2, <1>3 DEF Sound, Delivered, SubRecord, Unharmed
<1> QED
  BY <1>3, <1>4, OneSound

LEMMA StartSound ==
    ASSUME SubsSound, NEW s \in Subs, Start(s) \/ StartFails(s)
    PROVE  SubsSound'
<1> DEFINE x == sub[s]
<1>1. Sound(x) /\ x.pc \in {"starting", "refused"}
  BY EachSound DEF Start, StartFails
<1>2. x.native = "none" /\ x.done = 0 /\ x.routed = 0 /\ x.arrived = 0 /\ x.pulled = 0
  BY <1>1 DEF Sound, Delivered, SubRecord
<1>3. Sound(Failed(x)) /\ Sound(Ended(x))
  BY <1>1, <1>2, FailedSound, OverSound, SoundCounts DEF Ended, Promise
<1>4. Sound([x EXCEPT !.native = "open", !.ready = "resolved", !.pc = "waiting"])
  BY <1>1, <1>2 DEF Sound, Delivered, SubRecord, Promise, Unharmed
<1>5. \E y : Sound(y) /\ sub' = [sub EXCEPT ![s] = y]
  BY <1>3, <1>4 DEF Start, StartFails, SubStep
<1> QED
  BY <1>5, OneSound

LEMMA NextSound ==
    ASSUME SubsSound, NEW s \in Subs, Next(s)
    PROVE  SubsSound'
<1> DEFINE x == sub[s]
<1>1. Sound(x) /\ x.pc = "waiting" /\ x.pulled < x.arrived
  BY EachSound DEF Next
<1>2. PICK pulled \in Nat : pulled = x.pulled + 1
  BY <1>1 DEF Sound, SubRecord
<1>3. PICK y : y = [x EXCEPT !.pulled = pulled]
  OBVIOUS
<1>4. /\ y.pc = x.pc /\ y.native = x.native /\ y.closed = x.closed /\ y.error = x.error
      /\ y.lost = x.lost /\ y.cancelled = x.cancelled /\ y.routed = x.routed
      /\ y.arrived = x.arrived /\ y.pulled = pulled /\ y.done = x.done
  BY <1>1, <1>3 DEF Sound, SubRecord
<1>5. Counted(y)
  <2>1. y \in SubRecord
    BY <1>1, <1>3 DEF Sound, SubRecord
  <2>2. x.arrived \in Nat /\ x.pulled \in Nat
    BY <1>1 DEF Sound, SubRecord
  <2> QED
    BY <1>1, <1>2, <1>4, <2>1, <2>2 DEF Sound, Delivered, Counted
<1>6. Sound([y EXCEPT !.pc = "decoding"])
  BY <1>1, <1>2, <1>4, <1>5 DEF Sound, Delivered, SubRecord, Counted, Unharmed
<1>7. sub' = [sub EXCEPT ![s] = IF y.cancelled THEN Failed(y) ELSE [y EXCEPT !.pc = "decoding"]]
  BY <1>2, <1>3 DEF Next, SubStep, Checked
<1> QED
  BY <1>5, <1>6, <1>7, FailedSound, OneSound

LEMMA DecodedSound ==
    ASSUME SubsSound, NEW s \in Subs, Decoded(s)
    PROVE  SubsSound'
<1> DEFINE x == sub[s]
<1>1. Sound(x) /\ x.pc = "decoding"
  BY EachSound DEF Decoded
<1>2. Sound([x EXCEPT !.pc = "handling"])
  BY <1>1 DEF Sound, Delivered, SubRecord, Unharmed
<1>3. sub' = [sub EXCEPT ![s] = IF x.cancelled THEN Failed(x) ELSE [x EXCEPT !.pc = "handling"]]
  BY DEF Decoded, SubStep, Checked
<1> QED
  BY <1>1, <1>2, <1>3, FailedSound, SoundCounts, OneSound

\* A handler that returns, or an offer.
LEMMA ReturnedSound ==
    ASSUME NEW x, Sound(x), x.pc = "handling"
    PROVE  Sound(Returned(x))
<1>1. PICK done \in Nat : done = x.done + 1
  BY DEF Sound, SubRecord
<1>2. PICK y : y = [x EXCEPT !.done = done]
  OBVIOUS
<1>3. /\ y.pc = x.pc /\ y.native = x.native /\ y.closed = x.closed /\ y.error = x.error
      /\ y.lost = x.lost /\ y.cancelled = x.cancelled /\ y.routed = x.routed
      /\ y.arrived = x.arrived /\ y.pulled = x.pulled /\ y.done = done
  BY <1>2 DEF Sound, SubRecord
<1>4. x.native # "none"
  BY DEF Sound, Delivered, SubRecord
<1>5. Counted(y)
  <2>1. y \in SubRecord
    BY <1>2 DEF Sound, SubRecord
  <2> QED
    BY <1>3, <1>4, <2>1 DEF Sound, Delivered, Counted
<1>6. Sound([y EXCEPT !.pc = "waiting"])
  BY <1>1, <1>3, <1>4, <1>5 DEF Sound, Delivered, SubRecord, Counted, Unharmed
<1>7. Returned(x) = IF y.cancelled THEN Failed(y) ELSE [y EXCEPT !.pc = "waiting"]
  BY <1>1, <1>2 DEF Returned, Checked
<1> QED
  BY <1>5, <1>6, <1>7, FailedSound

\* The loop ends: without an error, an abort or a loss, its subscription was drained.
LEMMA LoopEndsSound ==
    ASSUME SubsSound, NEW s \in Subs, LoopEnds(s)
    PROVE  SubsSound'
<1> DEFINE x == sub[s]
<1>1. /\ Sound(x) /\ x.pc = "waiting" /\ x.native = "closed"
      /\ x.error \/ x.pulled = x.arrived
      /\ sub' = [sub EXCEPT ![s] = IF x.error THEN Failed(x) ELSE Ended(x)]
  BY EachSound DEF LoopEnds, SubStep
<1>2. Sound(Failed(x))
  BY <1>1, FailedSound, SoundCounts
<1>3. ~x.error => Sound(Ended(x))
  <2>1. ~x.error /\ ~x.cancelled /\ ~x.lost => x.done = x.routed
    BY <1>1 DEF Sound, Delivered, Unharmed
  <2> QED
    BY <1>1, <2>1, OverSound, SoundCounts DEF Ended, Promise
<1> QED
  BY <1>1, <1>2, <1>3, OneSound

LEMMA StoppedSound == ASSUME NEW x, Sound(x) PROVE Sound(Stopped(x))
<1>1. Sound([x EXCEPT !.stopped = TRUE])
  BY ZenonT(60) DEF Sound, Delivered, SubRecord, Unharmed
<1> QED
  BY <1>1, AbortedSound DEF Stopped

\* What users, the server and nats.js do to one subscription.
LEMMA InputSound ==
    ASSUME SubsSound, NEW s \in Subs,
           \/ Throws(s) \/ Returns(s) \/ Close(s) \/ SignalAborts(s)
           \/ Route(s) \/ Arrives(s) \/ Drained(s) \/ Denied(s)
           \/ Offer(s) \/ Interrupt(s)
    PROVE  SubsSound'
<1> DEFINE x == sub[s]
<1>1. Sound(x) /\ Counted(x)
  BY EachSound, SoundCounts
<1>2. Sound(Failed(x)) /\ Sound(Closing(x)) /\ Sound(Stopped(x)) /\ Sound(Closing(Stopped(x)))
  BY <1>1, FailedSound, ClosingSound, StoppedSound
<1>3. CASE Throws(s)
  BY <1>2, <1>3, OneSound DEF Throws, SubStep
<1>4. CASE Returns(s)
  BY <1>1, <1>4, ReturnedSound, OneSound DEF Returns, SubStep
<1>5. CASE Close(s) \/ SignalAborts(s)
  BY <1>2, <1>5, OneSound DEF Close, SignalAborts, SubStep
<1>6. CASE Route(s)
  <2>1. PICK n \in Nat : n = x.routed + 1
    BY <1>1 DEF Sound, SubRecord
  <2>2. x.native \in {"open", "draining"} /\ sub' = [sub EXCEPT ![s] = [x EXCEPT !.routed = n]]
    BY <1>6, <2>1 DEF Route, SubStep
  <2>3. x.pc # "ended"
    BY <1>1, <2>2 DEF Sound, Delivered
  <2>4. Sound([x EXCEPT !.routed = n])
    BY <1>1, <2>1, <2>2, <2>3 DEF Sound, Delivered, SubRecord, Unharmed
  <2> QED
    BY <2>2, <2>4, OneSound
<1>7. CASE Arrives(s)
  <2>1. PICK n \in Nat : n = x.arrived + 1
    BY <1>1 DEF Sound, SubRecord
  <2>2. /\ x.native \in {"open", "draining"} /\ x.arrived < x.routed
        /\ sub' = [sub EXCEPT ![s] = [x EXCEPT !.arrived = n]]
    BY <1>7, <2>1 DEF Arrives, SubStep
  <2>3. Sound([x EXCEPT !.arrived = n])
    BY <1>1, <2>1, <2>2 DEF Sound, Delivered, SubRecord, Unharmed
  <2> QED
    BY <2>2, <2>3, OneSound
<1>8. CASE Drained(s)
  <2>1. /\ x.native = "draining" /\ x.arrived = x.routed
        /\ sub' = [sub EXCEPT ![s] = [x EXCEPT !.native = "closed"]]
    BY <1>8 DEF Drained, SubStep
  <2>2. Sound([x EXCEPT !.native = "closed"])
    BY <1>1, <2>1 DEF Sound, Delivered, SubRecord, Unharmed
  <2> QED
    BY <2>1, <2>2, OneSound
<1>9. CASE Denied(s)
  <2>1. /\ x.native = "open"
        /\ sub' = [sub EXCEPT ![s] = [x EXCEPT !.native = "closed", !.error = TRUE]]
    BY <1>9 DEF Denied, SubStep
  <2>2. Sound([x EXCEPT !.native = "closed", !.error = TRUE])
    BY <1>1, <2>1 DEF Sound, Delivered, SubRecord, Unharmed
  <2> QED
    BY <2>1, <2>2, OneSound
<1>10. CASE Offer(s)
  <2>1. x.pc = "handling" /\ \E y \in {Failed(x), Returned(x)} : sub' = [sub EXCEPT ![s] = y]
    BY <1>10 DEF Offer, SubStep
  <2> QED
    BY <1>1, <1>2, <2>1, ReturnedSound, OneSound
<1>11. CASE Interrupt(s)
  BY <1>1, <1>2, <1>11, OneSound DEF Interrupt, SubStep
<1> QED
  BY <1>3, <1>4, <1>5, <1>6, <1>7, <1>8, <1>9, <1>10, <1>11

\* What happens to all subscriptions at once.
LEMMA SharedSound ==
    ASSUME SubsSound,
           \/ Established \/ Refused \/ ClosesForGood \/ Deadline \/ CloseRuntime
    PROVE  SubsSound'
<1>1. \A s \in Subs : Sound(sub[s])
  BY EachSound
<1>2. CASE Established \/ Refused
  <2>1. PICK next \in {"starting", "refused"} : sub' = [s \in Subs |-> Outcome(sub[s], next)]
    BY <1>2 DEF Established, Refused, PromiseSettles
  <2> QED
    BY <1>1, <2>1, OutcomeSound, AllSound
<1>3. CASE ClosesForGood
  <2>1. sub' = [s \in Subs |-> Cut(sub[s])]
    BY <1>3 DEF ClosesForGood, CutAll
  <2> QED
    BY <1>1, <2>1, CutSound, AllSound
<1>4. CASE Deadline
  <2>1. sub' = [s \in Subs |-> IF Active(sub[s]) THEN Aborted(sub[s]) ELSE sub[s]]
    BY <1>4 DEF Deadline
  <2> QED
    BY <1>1, <2>1, AbortedSound, AllSound
<1>5. CASE CloseRuntime
  <2>1. sub' = [s \in Subs |-> IF Active(sub[s]) THEN Closing(sub[s]) ELSE sub[s]]
    BY <1>5 DEF CloseRuntime
  <2> QED
    BY <1>1, <2>1, ClosingSound, AllSound
<1> QED
  BY <1>2, <1>3, <1>4, <1>5

LEMMA RuntimeSound == SubsSound /\ Runtime => SubsSound'
<1> SUFFICES ASSUME SubsSound, Runtime
             PROVE  SubsSound'
  OBVIOUS
<1>1. CASE UNCHANGED sub
  BY <1>1 DEF SubsSound, Delivered, Unharmed
<1>2. CASE Connect \/ LinkDrops \/ LinkRecovers \/ Reports \/ ShutdownEnds
  BY <1>1, <1>2 DEF Connect, LinkDrops, LinkRecovers, Reports, ShutdownEnds, coreVars
<1>3. CASE Established \/ Refused \/ ClosesForGood \/ Deadline
  BY <1>3, SharedSound
<1>4. CASE Request \/ Send \/ Answered \/ AbortRequest
  BY <1>1, <1>4 DEF Request, Send, Answered, AbortRequest, BesideRequest
<1>5. ASSUME NEW s \in Subs, NEW p \in Policies, Subscribe(s, p) PROVE SubsSound'
  BY <1>5, SubscribeSound
<1>6. ASSUME NEW s \in Subs, Start(s) \/ StartFails(s) PROVE SubsSound'
  BY <1>6, StartSound
<1>7. ASSUME NEW s \in Subs, Next(s) \/ Decoded(s) \/ LoopEnds(s) PROVE SubsSound'
  BY <1>7, NextSound, DecodedSound, LoopEndsSound
<1>8. ASSUME NEW s \in Subs,
             \/ Throws(s) \/ Returns(s) \/ Close(s) \/ SignalAborts(s)
             \/ Route(s) \/ Arrives(s) \/ Drained(s) \/ Denied(s)
             \/ Offer(s) \/ Interrupt(s)
      PROVE  SubsSound'
  BY <1>8, InputSound
<1>9. ASSUME NEW s \in Subs, SourceEnds(s) \/ Take(s) \/ SeesEnd(s) PROVE SubsSound'
  BY <1>1, <1>9 DEF SourceEnds, Take, SeesEnd
<1> QED
  BY <1>2, <1>3, <1>4, <1>5, <1>6, <1>7, <1>8, <1>9 DEF Runtime

LEMMA StepSound == SubsSound /\ [AllNext]_allVars => SubsSound'
<1> SUFFICES ASSUME SubsSound, [AllNext]_allVars
             PROVE  SubsSound'
  OBVIOUS
<1>1. CASE UNCHANGED sub
  BY <1>1 DEF SubsSound, Delivered, Unharmed
<1>2. CASE UNCHANGED allVars
  BY <1>1, <1>2 DEF allVars, vars, coreVars
<1>3. CASE Runtime
  BY <1>3, RuntimeSound
<1>4. ASSUME NEW r \in Readers, Read(r) PROVE SubsSound'
  BY <1>1, <1>4 DEF Read, coreVars
<1>5. CASE AnyEnds \/ Program \/ Hook
  BY <1>1, <1>5 DEF AnyEnds, LeaseEnds, Program, Acquire, InterruptProgram, ProgramEnds,
                    Hook, MountEffect, StartProcessor, CleanUp, vars, coreVars
<1>6. CASE ProviderMounts \/ Replays \/ Unmounts
  BY <1>1, <1>6 DEF ProviderMounts, Replays, Unmounts, vars, coreVars
<1>7. ASSUME NEW n \in cleanups, Disposes(n) PROVE SubsSound'
  BY <1>1, <1>7, SharedSound DEF Disposes, vars, coreVars
<1> QED
  BY <1>2, <1>3, <1>4, <1>5, <1>6, <1>7 DEF AllNext, Provider

(***************************************************************************)
(* The graceful end of a subscription (core 893-1107, docs/PRODUCTION.md): *)
(* a lease that closes without an error has handled every message the      *)
(* server had routed to it, unless it was aborted or its connection lost,  *)
(* for any number of subscriptions and messages.                           *)
(***************************************************************************)
THEOREM GracefulHandlesAll == Spec => []GracefulLosesNothing
<1>1. SubsSound => GracefulLosesNothing
  BY DEF SubsSound, Delivered, GracefulLosesNothing
<1> QED
  BY <1>1, InitSound, StepSound, PTL DEF Spec

-----------------------------------------------------------------------------
(***************************************************************************)
(* Why a stream tells its losses.  As long as it is open or has ended      *)
(* well, and its subscription was not aborted, what has been taken of it   *)
(* and what is queued are the messages handled so far, in order: a handler *)
(* whose offer is dropped from a full queue was aborted before.            *)
(***************************************************************************)
StreamRecord == [queue : Seq(Nat), taken : Seq(Nat),
                 state : {"open", "failed", "ended", "shutdown"},
                 seen  : {"nothing", "failure", "end", "interrupt"}]

FirstMessages(n) == [m \in 1 .. n |-> m]

Lossless(x) == x.policy \in {"suspend", "error"}

\* A loop that runs has subscribed, and is cancelled once its signal is aborted.
Halts(x) ==
    /\ x.policy = "none" <=> x.pc = "none"
    /\ x.pc \in {"waiting", "decoding", "handling"}
       => x.native # "none" /\ (x.stopped => x.cancelled)

Streamed(x, q) ==
    /\ q \in StreamRecord
    /\ x.policy = "none" => q.queue = <<>> /\ q.taken = <<>>
    /\ q.state = "ended" => x.closed = "resolved"
    /\ q.seen = "end" => q.state = "ended" /\ q.queue = <<>>
    /\ Lossless(x) /\ q.state \in {"open", "ended"} /\ ~x.cancelled
       => q.taken \o q.queue = FirstMessages(x.done)

StreamsSound ==
    /\ stream = [s \in Subs |-> stream[s]]
    /\ \A s \in Subs : Halts(sub[s]) /\ Streamed(sub[s], stream[s])

StreamIInv == SubsSound /\ StreamsSound

\* A subscription moves on beside its stream.
Moves(x, y) ==
    /\ y.policy = x.policy
    /\ y.done = x.done \/ x.policy = "callback"
    /\ x.cancelled => y.cancelled
    /\ x.closed = "resolved" => y.closed = "resolved"
    /\ Halts(x) => Halts(y)

LEMMA MovesKeeps ==
    ASSUME NEW x, NEW y, NEW q, Moves(x, y), Streamed(x, q)
    PROVE  Streamed(y, q)
BY DEF Moves, Streamed, Lossless

LEMMA MovesCompose ==
    ASSUME NEW x, NEW y, NEW z, Moves(x, y), Moves(y, z)
    PROVE  Moves(x, z)
BY DEF Moves

LEMMA StaysMoves == ASSUME NEW x PROVE Moves(x, x)
BY DEF Moves

LEMMA CutMoves == ASSUME NEW x \in SubRecord PROVE Moves(x, Cut(x))
BY DEF SubRecord, Moves, Halts, Cut

LEMMA ClosingMoves == ASSUME NEW x \in SubRecord PROVE Moves(x, Closing(x))
BY DEF SubRecord, Moves, Halts, Closing

LEMMA OutcomeMoves ==
    ASSUME NEW x \in SubRecord, NEW next \in {"starting", "refused"}
    PROVE  Moves(x, Outcome(x, next))
BY DEF SubRecord, Moves, Halts, Outcome

\* start() ends: it was running, so the lease has not reported before.
LEMMA OverMoves ==
    ASSUME NEW x \in SubRecord, x.closed = "pending", x.pc # "none",
           NEW ready \in Promise, NEW closed \in Promise
    PROVE  Moves(x, Over(x, ready, closed))
<1> DEFINE y == Over(x, ready, closed)
<1>1. /\ y.pc = "ended" /\ y.policy = x.policy /\ y.done = x.done
      /\ y.cancelled = x.cancelled
  BY DEF SubRecord, Over
<1> QED
  BY <1>1 DEF Moves, Halts

LEMMA FailedMoves ==
    ASSUME NEW x \in SubRecord, x.closed = "pending", x.pc # "none"
    PROVE  Moves(x, Failed(x)) /\ Moves(x, Ended(x))
BY OverMoves DEF Failed, Ended, Promise

LEMMA AbortedMoves ==
    ASSUME NEW x, Sound(x), x.pc # "ended"
    PROVE  Moves(x, Aborted(x))
<1> DEFINE y == [x EXCEPT !.closing = TRUE, !.cancelled = TRUE,
                          !.native  = IF @ = "none" THEN @ ELSE "closed"]
<1>1. PICK native \in {"none", "open", "draining", "closed"} :
         native = (IF x.native = "none" THEN x.native ELSE "closed")
  BY DEF Sound, SubRecord
<1>2. y = [x EXCEPT !.closing = TRUE, !.cancelled = TRUE, !.native = native]
  BY <1>1
<1>3. y \in SubRecord
  BY <1>2 DEF Sound, SubRecord
<1>4. /\ y.pc = x.pc /\ y.closed = x.closed /\ y.cancelled /\ y.policy = x.policy
      /\ y.done = x.done /\ y.native = native
  BY <1>2 DEF Sound, SubRecord
<1> HIDE DEF y
<1>5. Moves(x, y)
  BY <1>1, <1>4 DEF Moves, Halts
<1>6. Aborted(x) = IF x.pc = "connecting" THEN Failed(y) ELSE y
  BY DEF Aborted, y
<1>7. CASE x.pc = "connecting"
  <2>1. y.closed = "pending" /\ y.pc # "none"
    BY <1>4, <1>7 DEF Sound, Delivered
  <2> QED
    BY <1>3, <1>5, <1>6, <1>7, <2>1, FailedMoves, MovesCompose
<1> QED
  BY <1>5, <1>6, <1>7

LEMMA StoppedMoves ==
    ASSUME NEW x, Sound(x), x.pc # "ended"
    PROVE  Moves(x, Stopped(x))
<1> DEFINE y == [x EXCEPT !.stopped = TRUE]
<1>1. Sound(y) /\ y.pc = x.pc /\ y.native = x.native
  BY DEF Sound, Delivered, SubRecord, Unharmed
<1>2. /\ y.closed = x.closed /\ y.cancelled = x.cancelled /\ y.policy = x.policy
      /\ y.done = x.done
  BY DEF Sound, SubRecord
<1> HIDE DEF y
<1>3. CASE x.native = "none"
  <2>1. Stopped(x) = y
    BY <1>3 DEF Stopped, y
  <2> QED
    BY <1>1, <1>2, <1>3, <2>1 DEF Moves, Halts
<1>4. CASE x.native # "none"
  <2>1. Stopped(x) = Aborted(y)
    BY <1>4 DEF Stopped, y
  <2>2. y.pc # "connecting"
    BY <1>1, <1>4 DEF Sound, Delivered
  <2>3. Aborted(y) = [y EXCEPT !.closing = TRUE, !.cancelled = TRUE, !.native = "closed"]
    BY <1>1, <1>4, <2>2 DEF Aborted, Sound, SubRecord
  <2>4. /\ Aborted(y).cancelled /\ Aborted(y).pc = y.pc /\ Aborted(y).policy = y.policy
        /\ Aborted(y).done = y.done /\ Aborted(y).closed = y.closed
        /\ Aborted(y).native = "closed"
    BY <1>1, <2>3 DEF Sound, SubRecord
  <2> QED
    BY <1>1, <1>2, <2>1, <2>4 DEF Moves, Halts
<1> QED
  BY <1>3, <1>4

-----------------------------------------------------------------------------
\* One subscription moves and the streams stay, or a stream moves beside it.
LEMMA OneMoves ==
    ASSUME StreamsSound, NEW s \in Subs, NEW y, Moves(sub[s], y),
           sub' = [sub EXCEPT ![s] = y], DOMAIN sub = Subs, UNCHANGED stream
    PROVE  StreamsSound'
<1>1. ASSUME NEW t \in Subs PROVE Halts(sub'[t]) /\ Streamed(sub'[t], stream[t])
  <2>1. Moves(sub[t], sub'[t])
    BY StaysMoves
  <2>2. Halts(sub[t]) /\ Streamed(sub[t], stream[t])
    BY DEF StreamsSound
  <2> QED
    BY <2>1, <2>2, MovesKeeps DEF Moves
<1> QED
  BY <1>1 DEF StreamsSound

LEMMA AllMove ==
    ASSUME StreamsSound, \A s \in Subs : Moves(sub[s], sub'[s]), UNCHANGED stream
    PROVE  StreamsSound'
<1>1. ASSUME NEW t \in Subs PROVE Halts(sub'[t]) /\ Streamed(sub'[t], stream[t])
  <2>1. Halts(sub[t]) /\ Streamed(sub[t], stream[t])
    BY DEF StreamsSound
  <2> QED
    BY <2>1, MovesKeeps DEF Moves
<1> QED
  BY <1>1 DEF StreamsSound

LEMMA OneStreams ==
    ASSUME StreamsSound, NEW s \in Subs, NEW y, NEW q, Halts(y), Streamed(y, q),
           sub' = [sub EXCEPT ![s] = y], DOMAIN sub = Subs,
           stream' = [stream EXCEPT ![s] = q]
    PROVE  StreamsSound'
<1>1. stream' = [t \in Subs |-> stream'[t]]
  BY DEF StreamsSound
<1>2. ASSUME NEW t \in Subs PROVE Halts(sub'[t]) /\ Streamed(sub'[t], stream'[t])
  <2>1. CASE t = s
    <3>1. sub'[s] = y /\ stream'[s] = q
      BY DEF StreamsSound
    <3> QED
      BY <2>1, <3>1
  <2>2. CASE t # s
    <3>1. sub'[t] = sub[t] /\ stream'[t] = stream[t]
      BY <2>2 DEF StreamsSound
    <3> QED
      BY <3>1 DEF StreamsSound
  <2> QED
    BY <2>1, <2>2
<1> QED
  BY <1>1, <1>2 DEF StreamsSound

LEMMA EachStream ==
    ASSUME StreamIInv, NEW s \in Subs
    PROVE  /\ sub[s] \in SubRecord /\ Sound(sub[s]) /\ Halts(sub[s])
           /\ Streamed(sub[s], stream[s]) /\ DOMAIN sub = Subs /\ DOMAIN stream = Subs
           /\ sub[s].pc # "ended" => sub[s].closed = "pending"
<1>1. SubsSound /\ StreamsSound
  BY DEF StreamIInv
<1>2. DOMAIN stream = Subs /\ Halts(sub[s]) /\ Streamed(sub[s], stream[s])
  BY <1>1 DEF StreamsSound
<1>3. Sound(sub[s]) /\ DOMAIN sub = Subs
  BY <1>1, EachSound DEF SubsSound
<1> QED
  BY <1>2, <1>3 DEF Sound, Delivered

LEMMA InitStreams == Init => StreamsSound
<1> SUFFICES ASSUME Init
             PROVE  StreamsSound
  OBVIOUS
<1>1. ASSUME NEW s \in Subs PROVE Halts(sub[s]) /\ Streamed(sub[s], stream[s])
  <2>1. /\ sub[s].policy = "none" /\ sub[s].pc = "none"
        /\ stream[s] = [queue |-> <<>>, taken |-> <<>>, state |-> "open", seen |-> "nothing"]
    BY DEF Init, CoreInit
  <2>2. stream[s] \in StreamRecord
    BY <2>1 DEF StreamRecord
  <2> QED
    BY <2>1, <2>2 DEF Halts, Streamed, Lossless
<1> QED
  BY <1>1 DEF Init, CoreInit, StreamsSound

\* A stream begins with its subscription.
LEMMA SubscribeStreams ==
    ASSUME StreamIInv, NEW s \in Subs, NEW p \in Policies, Subscribe(s, p)
    PROVE  StreamsSound'
<1>1. PICK pc \in {"starting", "connecting"} : pc = IF Connected THEN "starting" ELSE "connecting"
  OBVIOUS
<1>2. PICK x : x = [sub[s] EXCEPT !.policy = p, !.pc = pc]
  OBVIOUS
<1>3. sub' = [sub EXCEPT ![s] = x] /\ sub[s].pc = "none" /\ UNCHANGED stream
  BY <1>1, <1>2 DEF Subscribe, SubStep
<1>4. /\ x.policy = p /\ x.pc = pc /\ x.done = 0 /\ x.closed = sub[s].closed
      /\ sub[s].policy = "none" /\ p # "none"
  BY <1>2, <1>3, EachStream, DeliveryAssumption
     DEF SubRecord, Sound, Delivered, Halts, Strategies
<1>5. Halts(x)
  BY <1>4 DEF Halts
<1>6. Streamed(x, stream[s])
  <2>1. stream[s].queue = <<>> /\ stream[s].taken = <<>> /\ Streamed(sub[s], stream[s])
    BY <1>4, EachStream DEF Streamed
  <2>2. <<>> \o <<>> = FirstMessages(0)
    BY DEF FirstMessages
  <2> QED
    BY <1>4, <2>1, <2>2 DEF Streamed
<1>7. stream' = [stream EXCEPT ![s] = stream[s]]
  BY <1>3, EachStream DEF StreamIInv, StreamsSound
<1> QED
  BY <1>3, <1>5, <1>6, <1>7, EachStream, OneStreams DEF StreamIInv

\* What happens to a subscription beside its stream.
LEMMA LoopMoves ==
    ASSUME StreamIInv, NEW s \in Subs,
           \/ Start(s) \/ StartFails(s) \/ Next(s) \/ Decoded(s) \/ Throws(s)
           \/ Returns(s) \/ LoopEnds(s)
    PROVE  \E y : sub' = [sub EXCEPT ![s] = y] /\ Moves(sub[s], y)
<1> DEFINE x == sub[s]
<1>1. x \in SubRecord /\ Sound(x) /\ (x.pc # "ended" => x.closed = "pending")
  BY EachStream
<1>2. x.pc \in {"starting", "refused", "waiting", "decoding", "handling"}
  BY DEF Start, StartFails, Next, Decoded, Throws, Returns, LoopEnds
<1>3. Moves(x, Failed(x)) /\ Moves(x, Ended(x))
  BY <1>1, <1>2, FailedMoves
<1> HIDE DEF x
<1>4. CASE Start(s)
  <2>1. Moves(x, [x EXCEPT !.native = "open", !.ready = "resolved", !.pc = "waiting"])
        \/ x.stopped \/ x.pc # "starting"
    BY <1>1 DEF SubRecord, Moves, Halts
  <2> QED
    BY <1>3, <1>4, <2>1 DEF Start, SubStep, x
<1>5. CASE StartFails(s) \/ Throws(s) \/ LoopEnds(s)
  BY <1>3, <1>5 DEF StartFails, Throws, LoopEnds, SubStep, x
<1>6. CASE Next(s)
  <2>1. PICK pulled \in Nat : pulled = x.pulled + 1
    BY <1>1 DEF SubRecord
  <2>2. PICK y : y = [x EXCEPT !.pulled = pulled]
    OBVIOUS
  <2>3. /\ y \in SubRecord /\ y.pc = x.pc /\ y.closed = x.closed
        /\ x.pc = "waiting" /\ Moves(x, y)
    BY <1>1, <1>6, <2>2 DEF SubRecord, Moves, Halts, Next, x
  <2>4. Moves(y, Failed(y))
    BY <1>1, <2>3, FailedMoves
  <2>5. Moves(y, [y EXCEPT !.pc = "decoding"])
    BY <2>3 DEF SubRecord, Moves, Halts
  <2>6. sub' = [sub EXCEPT ![s] = IF y.cancelled THEN Failed(y) ELSE [y EXCEPT !.pc = "decoding"]]
    BY <1>6, <2>1, <2>2 DEF Next, SubStep, Checked, x
  <2> QED
    BY <2>3, <2>4, <2>5, <2>6, MovesCompose DEF x
<1>7. CASE Decoded(s)
  <2>1. Moves(x, [x EXCEPT !.pc = "handling"])
    BY <1>1, <1>7 DEF SubRecord, Moves, Halts, Decoded, x
  <2> QED
    BY <1>3, <1>7, <2>1 DEF Decoded, SubStep, Checked, x
<1>8. CASE Returns(s)
  <2>1. PICK done \in Nat : done = x.done + 1
    BY <1>1 DEF SubRecord
  <2>2. PICK y : y = [x EXCEPT !.done = done]
    OBVIOUS
  <2>3. /\ y \in SubRecord /\ y.pc = x.pc /\ y.closed = x.closed
        /\ x.pc = "handling" /\ Moves(x, y)
    BY <1>1, <1>8, <2>2 DEF SubRecord, Moves, Halts, Returns, x
  <2>4. Moves(y, Failed(y))
    BY <1>1, <2>3, FailedMoves
  <2>5. Moves(y, [y EXCEPT !.pc = "waiting"])
    BY <2>3 DEF SubRecord, Moves, Halts
  <2>6. sub' = [sub EXCEPT ![s] = IF y.cancelled THEN Failed(y) ELSE [y EXCEPT !.pc = "waiting"]]
    BY <1>8, <2>1, <2>2 DEF Returns, SubStep, Returned, Checked, x
  <2> QED
    BY <2>3, <2>4, <2>5, <2>6, MovesCompose DEF x
<1> QED
  BY <1>4, <1>5, <1>6, <1>7, <1>8

LEMMA ServedMoves ==
    ASSUME StreamIInv, NEW s \in Subs,
           Close(s) \/ SignalAborts(s) \/ Route(s) \/ Arrives(s) \/ Drained(s) \/ Denied(s)
    PROVE  \E y : sub' = [sub EXCEPT ![s] = y] /\ Moves(sub[s], y)
<1> DEFINE x == sub[s]
<1>1. x \in SubRecord /\ Sound(x)
  BY EachStream
<1> HIDE DEF x
<1>2. CASE Close(s)
  BY <1>1, <1>2, ClosingMoves DEF Close, SubStep, x
<1>3. CASE SignalAborts(s)
  BY <1>1, <1>3, StoppedMoves DEF SignalAborts, Active, SubStep, x
<1>4. CASE Route(s)
  <2>1. \A n : Moves(x, [x EXCEPT !.routed = n])
    BY <1>1 DEF SubRecord, Moves, Halts
  <2> QED
    BY <1>4, <2>1 DEF Route, SubStep, x
<1>5. CASE Arrives(s)
  <2>1. \A n : Moves(x, [x EXCEPT !.arrived = n])
    BY <1>1 DEF SubRecord, Moves, Halts
  <2> QED
    BY <1>5, <2>1 DEF Arrives, SubStep, x
<1>6. CASE Drained(s)
  <2>1. Moves(x, [x EXCEPT !.native = "closed"])
    BY <1>1 DEF SubRecord, Moves, Halts
  <2> QED
    BY <1>6, <2>1 DEF Drained, SubStep, x
<1>7. CASE Denied(s)
  <2>1. Moves(x, [x EXCEPT !.native = "closed", !.error = TRUE])
    BY <1>1 DEF SubRecord, Moves, Halts
  <2> QED
    BY <1>7, <2>1 DEF Denied, SubStep, x
<1> QED
  BY <1>2, <1>3, <1>4, <1>5, <1>6, <1>7

LEMMA SharedMoves ==
    ASSUME StreamIInv,
           \/ Established \/ Refused \/ ClosesForGood \/ Deadline \/ CloseRuntime
    PROVE  StreamsSound'
<1>1. \A s \in Subs : sub[s] \in SubRecord /\ Sound(sub[s])
  BY EachStream
<1>2. CASE Established \/ Refused
  <2>1. PICK next \in {"starting", "refused"} : sub' = [s \in Subs |-> Outcome(sub[s], next)]
    BY <1>2 DEF Established, Refused, PromiseSettles
  <2> QED
    BY <1>1, <1>2, <2>1, OutcomeMoves, AllMove DEF StreamIInv, Established, Refused
<1>3. CASE ClosesForGood
  <2>1. sub' = [s \in Subs |-> Cut(sub[s])] /\ UNCHANGED stream
    BY <1>3 DEF ClosesForGood, CutAll
  <2> QED
    BY <1>1, <2>1, CutMoves, AllMove DEF StreamIInv
<1>4. CASE Deadline
  <2>1. /\ sub' = [s \in Subs |-> IF Active(sub[s]) THEN Aborted(sub[s]) ELSE sub[s]]
        /\ UNCHANGED stream
    BY <1>4 DEF Deadline
  <2> QED
    BY <1>1, <2>1, AbortedMoves, StaysMoves, AllMove DEF StreamIInv, Active
<1>5. CASE CloseRuntime
  <2>1. /\ sub' = [s \in Subs |-> IF Active(sub[s]) THEN Closing(sub[s]) ELSE sub[s]]
        /\ UNCHANGED stream
    BY <1>5 DEF CloseRuntime
  <2> QED
    BY <1>1, <2>1, ClosingMoves, StaysMoves, AllMove DEF StreamIInv
<1> QED
  BY <1>2, <1>3, <1>4, <1>5

-----------------------------------------------------------------------------
LEMMA NextOne ==
    ASSUME NEW n \in Nat
    PROVE  Append(FirstMessages(n), n + 1) = FirstMessages(n + 1)
BY DEF FirstMessages

\* A message that is queued joins the messages that are on their way.
LEMMA QueuedAtEnd ==
    ASSUME NEW taken \in Seq(Nat), NEW queue \in Seq(Nat), NEW m \in Nat
    PROVE  taken \o Append(queue, m) = Append(taken \o queue, m)
OBVIOUS

LEMMA TakenFromHead ==
    ASSUME NEW taken \in Seq(Nat), NEW queue \in Seq(Nat), queue # <<>>
    PROVE  /\ Append(taken, Head(queue)) \o Tail(queue) = taken \o queue
           /\ Append(taken, Head(queue)) \in Seq(Nat) /\ Tail(queue) \in Seq(Nat)
OBVIOUS


\* The handler's offer: the queue takes the message, or the stream fails.
LEMMA OfferStreams ==
    ASSUME StreamIInv, NEW s \in Subs, Offer(s)
    PROVE  StreamsSound'
<1> DEFINE x == sub[s]
           q == stream[s]
           p == Offered(q, x.policy, x.pulled)
           y == IF q.state = "open" /\ p.state = "failed" THEN Failed(x) ELSE Returned(x)
<1>1. /\ x \in SubRecord /\ Sound(x) /\ Halts(x) /\ Streamed(x, q) /\ x.closed = "pending"
      /\ x.pc = "handling" /\ x.pulled = x.done + 1 /\ x.policy \notin {"none", "callback"}
  BY EachStream DEF Offer, StreamOf, Sound, Delivered
<1>2. q \in StreamRecord /\ q.state # "ended" /\ q.seen # "end"
  BY <1>1 DEF Streamed
<1>3. /\ sub' = [sub EXCEPT ![s] = y] /\ stream' = [stream EXCEPT ![s] = p]
      /\ ~Parked(s)
  BY DEF Offer, SubStep
<1>4. PICK done \in Nat, pulled \in Nat :
         done = x.done + 1 /\ pulled = x.pulled /\ pulled = done /\ x.done \in Nat
  BY <1>1 DEF SubRecord
<1>5. /\ Returned(x).policy = x.policy /\ Returned(x).done = done
      /\ Returned(x).cancelled = x.cancelled /\ Halts(Returned(x))
  <2>1. PICK z : z = [x EXCEPT !.done = done]
    OBVIOUS
  <2>2. /\ z \in SubRecord /\ z.policy = x.policy /\ z.done = done /\ z.pc = "handling"
        /\ z.cancelled = x.cancelled /\ z.closed = "pending" /\ Halts(z)
    BY <1>1, <2>1 DEF SubRecord, Halts
  <2>3. Returned(x) = IF z.cancelled THEN Failed(z) ELSE [z EXCEPT !.pc = "waiting"]
    BY <1>4, <2>1 DEF Returned, Checked
  <2>4. /\ Failed(z).policy = z.policy /\ Failed(z).done = z.done
        /\ Failed(z).cancelled = z.cancelled
    BY <2>2 DEF Failed, Over, SubRecord
  <2>5. Halts(Failed(z))
    BY <2>2, FailedMoves DEF Moves
  <2> QED
    BY <2>2, <2>3, <2>4, <2>5 DEF SubRecord, Halts
<1>6. Halts(Failed(x))
  BY <1>1, FailedMoves DEF Moves
<1>7. /\ Failed(x).policy = x.policy /\ Failed(x).closed = "rejected"
  BY <1>1 DEF Failed, Over, SubRecord
<1> HIDE DEF y, x, q
<1>8. CASE q.state # "open"
  <2>1. p = q /\ y = Returned(x)
    BY <1>8 DEF Offered, y
  <2>2. Streamed(y, p)
    BY <1>1, <1>2, <1>5, <1>8, <2>1 DEF Streamed
  <2> QED
    BY <1>3, <1>5, <2>1, <2>2, EachStream, OneStreams DEF StreamIInv
<1>9. CASE q.state = "open" /\ ~Full(q)
  <2>1. PICK queue : queue = Append(q.queue, pulled) /\ queue \in Seq(Nat)
    <3>1. Append(q.queue, pulled) \in Seq(Nat)
      BY <1>2 DEF StreamRecord
    <3> QED
      BY <3>1
  <2>2. p = [q EXCEPT !.queue = queue]
    BY <1>4, <1>9, <2>1 DEF Offered, Add
  <2>3. /\ p \in StreamRecord /\ p.queue = queue /\ p.taken = q.taken /\ p.state = q.state
        /\ p.seen = q.seen /\ y = Returned(x)
    BY <1>2, <1>9, <2>1, <2>2 DEF StreamRecord, y
  <2>4. ASSUME Lossless(x), ~x.cancelled PROVE q.taken \o queue = FirstMessages(done)
    <3>1. q.taken \o q.queue = FirstMessages(x.done)
      BY <1>1, <1>9, <2>4 DEF Streamed
    <3>2. q.taken \in Seq(Nat) /\ q.queue \in Seq(Nat)
      BY <1>2 DEF StreamRecord
    <3>3. q.taken \o queue = Append(q.taken \o q.queue, pulled)
      BY <2>1, <3>2, QueuedAtEnd
    <3> QED
      BY <1>4, <3>1, <3>3, NextOne
  <2>5. Streamed(y, p)
    BY <1>1, <1>2, <1>5, <2>3, <2>4 DEF Streamed, Lossless
  <2> QED
    BY <1>3, <1>5, <2>3, <2>5, EachStream, OneStreams DEF StreamIInv
<1>10. CASE q.state = "open" /\ Full(q)
  <2>1. q.queue \in Seq(Nat) /\ Len(q.queue) >= 1
    BY <1>2, <1>10, DeliveryAssumption DEF Full, ValidBuffer, StreamRecord
  <2>2. CASE x.policy = "sliding"
    <3>1. PICK queue, rest :
             /\ rest = Tail(q.queue) /\ rest \in Seq(Nat)
             /\ queue = Append(rest, pulled) /\ queue \in Seq(Nat)
      <4>1. q.queue # <<>>
        BY <2>1
      <4>2. Tail(q.queue) \in Seq(Nat)
        BY <2>1, <4>1
      <4>3. Append(Tail(q.queue), pulled) \in Seq(Nat)
        BY <4>2
      <4> QED
        BY <4>2, <4>3
    <3>2. p = [q EXCEPT !.queue = queue]
      <4>1. p = Add([q EXCEPT !.queue = Tail(@)], pulled)
        BY <1>4, <1>10, <2>2 DEF Offered
      <4>2. PICK r : r = [q EXCEPT !.queue = rest]
        OBVIOUS
      <4>3. p = [r EXCEPT !.queue = Append(r.queue, pulled)]
        BY <3>1, <4>1, <4>2 DEF Add
      <4>4. r.queue = rest
        BY <1>2, <4>2 DEF StreamRecord
      <4> QED
        BY <1>2, <3>1, <4>2, <4>3, <4>4 DEF StreamRecord
    <3>3. p \in StreamRecord /\ p.state = "open" /\ p.seen = q.seen /\ y = Returned(x)
      BY <1>2, <1>10, <3>1, <3>2 DEF StreamRecord, y
    <3>4. Streamed(y, p)
      BY <1>1, <1>2, <1>5, <2>2, <3>3 DEF Streamed, Lossless
    <3> QED
      BY <1>3, <1>5, <3>3, <3>4, EachStream, OneStreams DEF StreamIInv
  <2>3. CASE x.policy = "error"
    <3>1. p = [q EXCEPT !.state = "failed"]
      BY <1>10, <2>3 DEF Offered
    <3>2. /\ p \in StreamRecord /\ p.state = "failed" /\ p.seen = q.seen
          /\ y = Failed(x)
      BY <1>2, <1>10, <3>1 DEF StreamRecord, y
    <3>3. Streamed(y, p)
      BY <1>1, <1>2, <1>7, <3>2 DEF Streamed
    <3> QED
      BY <1>3, <1>6, <3>2, <3>3, EachStream, OneStreams DEF StreamIInv
  <2>4. CASE x.policy \notin {"sliding", "error"}
    <3>1. p = q /\ y = Returned(x)
      BY <1>2, <1>10, <2>4 DEF Offered, y
    <3>2. x.policy = "suspend" => x.cancelled
      BY <1>1, <1>3, <1>10 DEF Parked, Halts, x, q
    <3>3. Streamed(y, p)
      BY <1>1, <1>2, <1>5, <2>4, <3>1, <3>2 DEF Streamed, Lossless
    <3> QED
      BY <1>3, <1>5, <3>1, <3>3, EachStream, OneStreams DEF StreamIInv
  <2> QED
    BY <2>2, <2>3, <2>4
<1> QED
  BY <1>8, <1>9, <1>10

\* The stream's own steps, and its consumer's.
LEMMA ConsumeStreams ==
    ASSUME StreamIInv, NEW s \in Subs,
           SourceEnds(s) \/ Take(s) \/ SeesEnd(s) \/ Interrupt(s)
    PROVE  StreamsSound'
<1> DEFINE x == sub[s]
           q == stream[s]
<1>1. x \in SubRecord /\ Sound(x) /\ Halts(x) /\ Streamed(x, q) /\ q \in StreamRecord
  BY EachStream DEF Streamed
<1>2. DOMAIN sub = Subs /\ sub = [sub EXCEPT ![s] = x]
  BY EachStream DEF StreamIInv, SubsSound
<1> HIDE DEF x, q
<1>3. CASE SourceEnds(s)
  <2>1. PICK state \in {"ended", "failed"} :
           /\ state = (IF x.closed = "resolved" THEN "ended" ELSE "failed")
           /\ stream' = [stream EXCEPT ![s] = [q EXCEPT !.state = state]]
    BY <1>3 DEF SourceEnds, x, q
  <2>2. Streamed(x, [q EXCEPT !.state = state])
    BY <1>1, <1>3, <2>1 DEF Streamed, StreamRecord, SourceEnds, x, q
  <2> QED
    BY <1>1, <1>2, <1>3, <2>1, <2>2, OneStreams DEF StreamIInv, SourceEnds
<1>4. CASE Take(s)
  <2>1. PICK taken, queue : taken = Append(q.taken, Head(q.queue)) /\ queue = Tail(q.queue)
    OBVIOUS
  <2>2. stream' = [stream EXCEPT ![s] = [q EXCEPT !.taken = taken, !.queue = queue]]
    <3>1. stream' = [stream EXCEPT ![s].taken = taken, ![s].queue = queue]
      BY <1>4, <2>1, EachStream DEF Take, q, Streamed, StreamRecord
    <3> QED
      BY <1>1, <3>1, EachStream DEF q
  <2>3. /\ taken \in Seq(Nat) /\ queue \in Seq(Nat) /\ taken \o queue = q.taken \o q.queue
        /\ q.queue # <<>>
    BY <1>1, <1>4, <2>1, TakenFromHead DEF Take, StreamRecord, q
  <2>4. Streamed(x, [q EXCEPT !.taken = taken, !.queue = queue])
    BY <1>1, <2>3 DEF Streamed, StreamRecord
  <2> QED
    BY <1>1, <1>2, <1>4, <2>2, <2>4, OneStreams DEF StreamIInv, Take
<1>5. CASE SeesEnd(s)
  <2>1. PICK seen \in {"end", "failure"} :
           /\ seen = (IF q.state = "ended" THEN "end" ELSE "failure")
           /\ stream' = [stream EXCEPT ![s] = [q EXCEPT !.seen = seen]]
           /\ q.queue = <<>>
    BY <1>5 DEF SeesEnd, q
  <2>2. Streamed(x, [q EXCEPT !.seen = seen])
    BY <1>1, <2>1 DEF Streamed, StreamRecord
  <2> QED
    BY <1>1, <1>2, <1>5, <2>1, <2>2, OneStreams DEF StreamIInv, SeesEnd
<1>6. CASE Interrupt(s)
  <2>1. PICK p : p = [q EXCEPT !.queue = <<>>, !.state = "shutdown", !.seen = "interrupt"]
    OBVIOUS
  <2>2. stream' = [stream EXCEPT ![s] = p]
    BY <1>6, <2>1, EachStream DEF Interrupt, q
  <2>3. PICK y : /\ sub' = [sub EXCEPT ![s] = y]
                 /\ y = IF Active(x) THEN Closing(Stopped(x)) ELSE x
    BY <1>6 DEF Interrupt, SubStep, x
  <2>4. Halts(y) /\ y.policy = x.policy
    <3>1. CASE Active(x)
      <4>1. Sound(Stopped(x)) /\ Moves(x, Stopped(x))
        BY <1>1, <3>1, StoppedSound, StoppedMoves DEF Active
      <4>2. Moves(Stopped(x), Closing(Stopped(x)))
        BY <4>1, ClosingMoves DEF Sound
      <4> QED
        BY <1>1, <2>3, <3>1, <4>1, <4>2 DEF Moves
    <3> QED
      BY <1>1, <2>3, <3>1
  <2>5. Streamed(y, p)
    <3>1. x.policy \notin {"none", "callback"}
      BY <1>6 DEF Interrupt, StreamOf, x
    <3>2. p \in StreamRecord /\ p.state = "shutdown" /\ p.seen = "interrupt"
      <4>1. PICK empty : empty = <<>> /\ empty \in Seq(Nat)
        <5>1. <<>> \in Seq(Nat)
          OBVIOUS
        <5> QED
          BY <5>1
      <4> QED
        BY <1>1, <2>1, <4>1 DEF StreamRecord
    <3> QED
      BY <2>4, <3>1, <3>2 DEF Streamed
  <2> QED
    BY <1>2, <2>2, <2>3, <2>4, <2>5, OneStreams DEF StreamIInv
<1> QED
  BY <1>3, <1>4, <1>5, <1>6

LEMMA RuntimeStreams == StreamIInv /\ Runtime => StreamsSound'
<1> SUFFICES ASSUME StreamIInv, Runtime
             PROVE  StreamsSound'
  OBVIOUS
<1>1. CASE UNCHANGED <<sub, stream>>
  BY <1>1 DEF StreamIInv, StreamsSound
<1>2. CASE Connect \/ LinkDrops \/ LinkRecovers \/ Reports \/ ShutdownEnds
  BY <1>1, <1>2 DEF Connect, LinkDrops, LinkRecovers, Reports, ShutdownEnds, coreVars
<1>3. CASE Established \/ Refused \/ ClosesForGood \/ Deadline
  BY <1>3, SharedMoves
<1>4. CASE Request \/ Send \/ Answered \/ AbortRequest
  BY <1>1, <1>4 DEF Request, Send, Answered, AbortRequest, BesideRequest
<1>5. ASSUME NEW s \in Subs, NEW p \in Policies, Subscribe(s, p) PROVE StreamsSound'
  BY <1>5, SubscribeStreams
<1>6. ASSUME NEW s \in Subs,
             \/ Start(s) \/ StartFails(s) \/ Next(s) \/ Decoded(s) \/ Throws(s)
             \/ Returns(s) \/ LoopEnds(s)
      PROVE  StreamsSound'
  <2>1. UNCHANGED stream
    BY <1>6 DEF Start, StartFails, Next, Decoded, Throws, Returns, LoopEnds, OnlySubMoves
  <2> QED
    BY <1>6, <2>1, LoopMoves, EachStream, OneMoves DEF StreamIInv
<1>7. ASSUME NEW s \in Subs,
             \/ Close(s) \/ SignalAborts(s) \/ Route(s) \/ Arrives(s) \/ Drained(s) \/ Denied(s)
      PROVE  StreamsSound'
  <2>1. UNCHANGED stream
    BY <1>7 DEF Close, SignalAborts, Route, Arrives, Drained, Denied, OnlySubMoves
  <2> QED
    BY <1>7, <2>1, ServedMoves, EachStream, OneMoves DEF StreamIInv
<1>8. ASSUME NEW s \in Subs, Offer(s) PROVE StreamsSound'
  BY <1>8, OfferStreams
<1>9. ASSUME NEW s \in Subs, SourceEnds(s) \/ Take(s) \/ SeesEnd(s) \/ Interrupt(s)
      PROVE  StreamsSound'
  BY <1>9, ConsumeStreams
<1> QED
  BY <1>2, <1>3, <1>4, <1>5, <1>6, <1>7, <1>8, <1>9 DEF Runtime

LEMMA StepStreams == StreamIInv /\ [AllNext]_allVars => StreamIInv'
<1> SUFFICES ASSUME StreamIInv, [AllNext]_allVars
             PROVE  StreamsSound'
  BY StepSound DEF StreamIInv
<1>1. CASE UNCHANGED <<sub, stream>>
  BY <1>1 DEF StreamIInv, StreamsSound
<1>2. CASE UNCHANGED allVars
  BY <1>1, <1>2 DEF allVars, vars, coreVars
<1>3. CASE Runtime
  BY <1>3, RuntimeStreams
<1>4. ASSUME NEW r \in Readers, Read(r) PROVE StreamsSound'
  BY <1>1, <1>4 DEF Read, coreVars
<1>5. CASE AnyEnds \/ Program \/ Hook
  BY <1>1, <1>5 DEF AnyEnds, LeaseEnds, Program, Acquire, InterruptProgram, ProgramEnds,
                    Hook, MountEffect, StartProcessor, CleanUp, vars, coreVars
<1>6. CASE ProviderMounts \/ Replays \/ Unmounts
  BY <1>1, <1>6 DEF ProviderMounts, Replays, Unmounts, vars, coreVars
<1>7. ASSUME NEW n \in cleanups, Disposes(n) PROVE StreamsSound'
  BY <1>1, <1>7, SharedMoves DEF Disposes, vars, coreVars
<1> QED
  BY <1>2, <1>3, <1>4, <1>5, <1>6, <1>7 DEF AllNext, Provider

(***************************************************************************)
(* createSubjectStream() (effect 470-620): a stream that must not lose     *)
(* messages and that ends well has handed on every message the server had  *)
(* routed to its subscription, in order, unless it was aborted or its      *)
(* connection was lost, for any buffer and any number of messages.         *)
(***************************************************************************)
THEOREM StreamsTell == Spec => []StreamTellsLosses
<1>1. ASSUME StreamIInv PROVE StreamTellsLosses
  <2> SUFFICES ASSUME NEW s \in Subs, stream[s].seen = "end", Lossless(sub[s]),
                      ~sub[s].cancelled, ~sub[s].lost
               PROVE  stream[s].taken = FirstMessages(sub[s].routed)
    BY DEF StreamTellsLosses, Lossless, FirstMessages
  <2>1. /\ stream[s] \in StreamRecord /\ stream[s].queue = <<>>
        /\ sub[s].closed = "resolved" /\ Sound(sub[s])
        /\ stream[s].taken \o stream[s].queue = FirstMessages(sub[s].done)
    BY <1>1, EachStream DEF Streamed
  <2>2. sub[s].done = sub[s].routed
    BY <2>1 DEF Sound, Delivered
  <2>3. stream[s].taken \o <<>> = stream[s].taken
    BY <2>1 DEF StreamRecord
  <2> QED
    BY <2>1, <2>2, <2>3
<1>2. Init => StreamIInv
  BY InitSound, InitStreams DEF StreamIInv
<1> QED
  BY <1>1, <1>2, StepStreams, PTL DEF Spec

-----------------------------------------------------------------------------
(***************************************************************************)
(* Why the counter of consumers is right: a lease is opened once, by the   *)
(* run or the program it belongs to, and gives its share back once.  Why a *)
(* hook holds one lease: a run in force has waited for the lease that      *)
(* closingRef holds, and no earlier one can be alive.                      *)
(***************************************************************************)
LeaseTyped ==
    /\ lease \in [Leases -> {"none", "open", "closing", "ended"}]
    /\ effect \in [Effects -> {"none", "waiting", "running", "failed", "cleaned"}]
    /\ previous \in [Effects -> 0 .. MaxEffects] /\ closing \in 0 .. MaxEffects
    /\ program \in [Programs -> {"none", "running", "releasing", "over"}]

HooksOwn ==
    /\ \A i \in Effects : effect[i] \in {"none", "waiting", "failed"} => lease[i] = "none"
    /\ \A i \in Effects : effect[i] = "cleaned" => lease[i] # "open"
    /\ \A i, j \in Effects : i < j /\ effect[j] # "none" => effect[i] = "cleaned"
    /\ \A i \in Effects : effect[i] = "cleaned" /\ lease[i] = "closing" => closing = i
    /\ \A i \in Effects : effect[i] = "waiting" => previous[i] = closing
    /\ \A i, j \in Effects :
          effect[i] = "running" /\ effect[j] = "cleaned" => lease[j] # "closing"

ProgramsOwn ==
    \A l \in Programs : /\ program[l] = "none" => lease[l] = "none"
                        /\ program[l] \in {"releasing", "over"} => lease[l] # "open"

CountRight == used = Cardinality(Live) /\ used <= limit

LeaseIInv == LeaseTyped /\ HooksOwn /\ ProgramsOwn /\ CountRight

LEMMA LeasesAreFinite == IsFiniteSet(Leases)
<1>1. IsFiniteSet(Effects)
  BY FS_Interval, LeaseAssumption DEF Effects
<1> QED
  BY <1>1, FS_Union, LeaseAssumption

LEMMA LiveIsFinite == IsFiniteSet(Live) /\ Cardinality(Live) \in Nat
BY LeasesAreFinite, FS_Subset, FS_CardinalityType DEF Live

LEMMA InitLeases == Init => LeaseIInv
<1> SUFFICES ASSUME Init
             PROVE  LeaseIInv
  OBVIOUS
<1>1. LeaseTyped /\ HooksOwn /\ ProgramsOwn
  BY LeaseAssumption DEF Init, CoreInit, LeaseTyped, HooksOwn, ProgramsOwn, Effects
<1>2. Live = {} /\ used = 0 /\ limit \in Nat
  BY DeliveryAssumption DEF Init, CoreInit, Live
<1> QED
  BY <1>1, <1>2, FS_EmptySet DEF LeaseIInv, CountRight

\* Opening a lease that was not, ending one, and a change that does neither.
LEMMA OpenCounts ==
    ASSUME LeaseTyped, CountRight, NEW l \in Leases, lease[l] = "none", used + 1 <= limit,
           lease' = [lease EXCEPT ![l] = "open"], used' = used + 1
    PROVE  CountRight'
<1>1. Live' = Live \cup {l} /\ l \notin Live
  BY DEF Live, LeaseTyped
<1>2. Cardinality(Live \cup {l}) = Cardinality(Live) + 1
  BY <1>1, LiveIsFinite, FS_AddElement
<1> QED
  BY <1>1, <1>2 DEF CountRight

LEMMA EndCounts ==
    ASSUME LeaseTyped, CountRight, NEW l \in Live,
           lease' = [lease EXCEPT ![l] = "ended"], used' = used - 1
    PROVE  CountRight'
<1>1. Live' = Live \ {l}
  BY DEF Live, LeaseTyped
<1>2. Cardinality(Live \ {l}) = Cardinality(Live) - 1
  BY LiveIsFinite, FS_RemoveElement
<1>3. limit \in Nat /\ Cardinality(Live) \in Nat
  BY DeliveryAssumption, LiveIsFinite
<1> QED
  BY <1>1, <1>2, <1>3 DEF CountRight

LEMMA SameCounts ==
    ASSUME CountRight, UNCHANGED used, DOMAIN lease' = Leases,
           \A l \in Leases : (lease'[l] \in {"open", "closing"}) <=> (lease[l] \in {"open", "closing"})
    PROVE  CountRight'
<1>1. Live' = Live
  BY DEF Live
<1> QED
  BY <1>1 DEF CountRight

\* A step that leaves leases, hook and programs alone.
LEMMA IdleKeeps ==
    ASSUME LeaseIInv, UNCHANGED <<lease, used, effect, previous, closing, program>>
    PROVE  LeaseIInv'
BY DEF LeaseIInv, LeaseTyped, HooksOwn, ProgramsOwn, CountRight, Live

LEMMA LeaseEndsKeeps ==
    ASSUME LeaseIInv, NEW l \in Leases, LeaseEnds(l),
           UNCHANGED <<effect, previous, closing, program>>
    PROVE  LeaseIInv'
<1>1. l \in Live /\ lease' = [lease EXCEPT ![l] = "ended"] /\ used' = used - 1
  BY DEF LeaseEnds, Released
<1>2. CountRight'
  BY <1>1, EndCounts DEF LeaseIInv
<1>3. lease[l] \in {"open", "closing"} /\ LeaseTyped'
  BY <1>1 DEF Live, LeaseIInv, LeaseTyped
<1>4. HooksOwn' /\ ProgramsOwn'
  BY <1>1, <1>3, LeaseAssumption DEF LeaseIInv, LeaseTyped, HooksOwn, ProgramsOwn
<1> QED
  BY <1>2, <1>3, <1>4 DEF LeaseIInv

LEMMA MountKeeps ==
    ASSUME LeaseIInv, NEW i \in Effects, MountEffect(i)
    PROVE  LeaseIInv'
<1>1. /\ effect[i] = "none" /\ \A j \in 1 .. i - 1 : effect[j] = "cleaned"
      /\ effect' = [effect EXCEPT ![i] = "waiting"]
      /\ previous' = [previous EXCEPT ![i] = closing]
      /\ UNCHANGED <<lease, used, closing, program>>
  BY DEF MountEffect, coreVars, programVars
<1>2. \A j \in Effects : j < i => effect[j] = "cleaned"
  BY <1>1 DEF Effects
<1>3. \A j \in Effects : j > i => effect[j] = "none"
  BY <1>1 DEF LeaseIInv, HooksOwn
<1>4. LeaseTyped' /\ ProgramsOwn' /\ CountRight'
  BY <1>1 DEF LeaseIInv, LeaseTyped, ProgramsOwn, CountRight, Live
<1>5. HooksOwn'
  <2>1. \A a, b \in Effects : a < b /\ effect'[b] # "none" => effect'[a] = "cleaned"
    BY <1>1, <1>2, <1>3 DEF LeaseIInv, LeaseTyped, HooksOwn, Effects
  <2>2. \A a \in Effects : a # i => effect[a] \in {"none", "cleaned"}
    BY <1>2, <1>3 DEF Effects
  <2> QED
    BY <1>1, <2>1, <2>2 DEF LeaseIInv, LeaseTyped, HooksOwn
<1> QED
  BY <1>4, <1>5 DEF LeaseIInv

LEMMA StartKeeps ==
    ASSUME LeaseIInv, NEW i \in Effects, StartProcessor(i)
    PROVE  LeaseIInv'
<1>1. /\ effect[i] = "waiting" /\ Awaited(i) /\ i \in Leases
      /\ UNCHANGED <<previous, closing, program>>
  BY LeaseAssumption DEF StartProcessor, programVars
<1>2. lease[i] = "none" /\ \A j \in Effects : effect[j] = "cleaned" => lease[j] # "closing"
  BY <1>1 DEF LeaseIInv, HooksOwn, Awaited
<1>3. CASE /\ used + 1 <= limit /\ lease' = [lease EXCEPT ![i] = "open"] /\ used' = used + 1
           /\ effect' = [effect EXCEPT ![i] = "running"]
  <2>1. CountRight'
    BY <1>1, <1>2, <1>3, OpenCounts DEF LeaseIInv
  <2>2. LeaseTyped'
    BY <1>1, <1>3 DEF LeaseIInv, LeaseTyped
  <2>3. ProgramsOwn'
    BY <1>1, <1>3, LeaseAssumption DEF LeaseIInv, LeaseTyped, ProgramsOwn
  <2>4. HooksOwn'
    BY <1>1, <1>2, <1>3, LeaseAssumption DEF LeaseIInv, LeaseTyped, HooksOwn
  <2> QED
    BY <2>1, <2>2, <2>3, <2>4 DEF LeaseIInv
<1>4. CASE UNCHANGED <<lease, used>> /\ effect' = [effect EXCEPT ![i] = "failed"]
  <2>1. LeaseTyped' /\ ProgramsOwn' /\ CountRight'
    BY <1>1, <1>4 DEF LeaseIInv, LeaseTyped, ProgramsOwn, CountRight, Live
  <2>2. HooksOwn'
    BY <1>1, <1>2, <1>4 DEF LeaseIInv, LeaseTyped, HooksOwn
  <2> QED
    BY <2>1, <2>2 DEF LeaseIInv
<1>5. used \in Nat
  BY LiveIsFinite DEF LeaseIInv, CountRight
<1> QED
  BY <1>3, <1>4, <1>5 DEF StartProcessor, Manage, CreateThrows, Reserved, Released

LEMMA CleanUpKeeps ==
    ASSUME LeaseIInv, NEW i \in Effects, CleanUp(i)
    PROVE  LeaseIInv'
<1>1. /\ effect[i] \in {"waiting", "running", "failed"}
      /\ effect' = [effect EXCEPT ![i] = "cleaned"]
      /\ UNCHANGED <<used, previous, program>> /\ i \in Leases
  BY LeaseAssumption DEF CleanUp, programVars
<1>2. \A j \in Effects : j # i => effect[j] \in {"none", "cleaned"}
  BY <1>1 DEF LeaseIInv, LeaseTyped, HooksOwn, Effects
<1>3. CASE effect[i] = "running"
  <2>1. /\ closing' = i
        /\ lease' = [lease EXCEPT ![i] = IF lease[i] = "open" THEN "closing" ELSE lease[i]]
    BY <1>3 DEF CleanUp
  <2>2. LeaseTyped'
    BY <1>1, <2>1 DEF LeaseIInv, LeaseTyped, Effects
  <2>3. CountRight'
    BY <1>1, <2>1, <2>2, SameCounts DEF LeaseIInv, LeaseTyped
  <2>4. ProgramsOwn'
    BY <1>1, <2>1, LeaseAssumption DEF LeaseIInv, LeaseTyped, ProgramsOwn
  <2>5. HooksOwn'
    BY <1>1, <1>2, <1>3, <2>1, LeaseAssumption DEF LeaseIInv, LeaseTyped, HooksOwn
  <2> QED
    BY <2>2, <2>3, <2>4, <2>5 DEF LeaseIInv
<1>4. CASE effect[i] # "running"
  <2>1. UNCHANGED <<closing, lease>> /\ lease[i] = "none"
    BY <1>1, <1>4 DEF CleanUp, LeaseIInv, HooksOwn
  <2>2. LeaseTyped' /\ ProgramsOwn' /\ CountRight'
    BY <1>1, <2>1 DEF LeaseIInv, LeaseTyped, ProgramsOwn, CountRight, Live
  <2>3. HooksOwn'
    BY <1>1, <1>2, <1>4, <2>1 DEF LeaseIInv, LeaseTyped, HooksOwn
  <2> QED
    BY <2>2, <2>3 DEF LeaseIInv
<1> QED
  BY <1>3, <1>4

LEMMA UnmountKeeps ==
    ASSUME LeaseIInv, Unmounts
    PROVE  LeaseIInv'
<1> DEFINE Dropped(l) == l \in Effects /\ effect[l] = "running" /\ lease[l] = "open"
<1>1. /\ effect' = [i \in Effects |-> IF effect[i] = "none" THEN "none" ELSE "cleaned"]
      /\ lease' = [l \in Leases |-> IF Dropped(l) THEN "closing" ELSE lease[l]]
      /\ UNCHANGED <<used, previous, program>>
  BY DEF Unmounts, Cleaned, programVars
<1>2. CASE \E i \in Effects : effect[i] = "running"
  <2>1. PICK i \in Effects : effect[i] = "running" /\ closing' = i
    BY <1>2 DEF Unmounts
  <2>2. \A j \in Effects : j # i => effect[j] \in {"none", "cleaned"}
    BY <2>1 DEF LeaseIInv, LeaseTyped, HooksOwn, Effects
  <2>3. LeaseTyped'
    BY <1>1, <2>1 DEF LeaseIInv, LeaseTyped, Effects
  <2>4. CountRight'
    BY <1>1, <2>3, SameCounts DEF LeaseIInv, LeaseTyped
  <2>5. ProgramsOwn'
    BY <1>1, LeaseAssumption DEF LeaseIInv, LeaseTyped, ProgramsOwn
  <2>6. HooksOwn'
    BY <1>1, <2>1, <2>2, LeaseAssumption DEF LeaseIInv, LeaseTyped, HooksOwn
  <2> QED
    BY <2>3, <2>4, <2>5, <2>6 DEF LeaseIInv
<1>3. CASE ~\E i \in Effects : effect[i] = "running"
  <2>1. closing' = closing /\ lease' = lease
    BY <1>1, <1>3 DEF Unmounts, LeaseIInv, LeaseTyped
  <2>2. LeaseTyped' /\ ProgramsOwn' /\ CountRight'
    BY <1>1, <2>1 DEF LeaseIInv, LeaseTyped, ProgramsOwn, CountRight, Live
  <2>3. HooksOwn'
    BY <1>1, <1>3, <2>1 DEF LeaseIInv, LeaseTyped, HooksOwn
  <2> QED
    BY <2>2, <2>3 DEF LeaseIInv
<1> QED
  BY <1>2, <1>3

\* The shutdown asks every open lease to close.
LEMMA CloseKeeps ==
    ASSUME LeaseIInv, CloseRuntime, UNCHANGED <<effect, previous, closing, program>>
    PROVE  LeaseIInv'
<1>1. /\ lease' = [l \in Leases |-> IF lease[l] = "open" THEN "closing" ELSE lease[l]]
      /\ UNCHANGED used
  BY DEF CloseRuntime, ClosingLeases
<1>2. LeaseTyped'
  BY <1>1 DEF LeaseIInv, LeaseTyped
<1>3. CountRight'
  BY <1>1, <1>2, SameCounts DEF LeaseIInv, LeaseTyped
<1>4. HooksOwn' /\ ProgramsOwn'
  BY <1>1, LeaseAssumption DEF LeaseIInv, LeaseTyped, HooksOwn, ProgramsOwn
<1> QED
  BY <1>2, <1>3, <1>4 DEF LeaseIInv

LEMMA ProgramKeeps ==
    ASSUME LeaseIInv, NEW l \in Programs, Acquire(l) \/ InterruptProgram(l) \/ ProgramEnds(l),
           UNCHANGED hookVars
    PROVE  LeaseIInv'
<1>1. l \in Leases /\ l \notin Effects /\ UNCHANGED <<effect, previous, closing>>
  BY LeaseAssumption DEF hookVars
<1>2. CASE Acquire(l)
  <2>1. program[l] = "none" /\ lease[l] = "none" /\ used \in Nat
    BY <1>2, LiveIsFinite DEF Acquire, LeaseIInv, ProgramsOwn, CountRight
  <2>2. CASE /\ used + 1 <= limit /\ lease' = [lease EXCEPT ![l] = "open"]
             /\ used' = used + 1 /\ program' = [program EXCEPT ![l] = "running"]
    <3>1. CountRight'
      BY <1>1, <2>1, <2>2, OpenCounts DEF LeaseIInv
    <3>2. LeaseTyped' /\ ProgramsOwn' /\ HooksOwn'
      BY <1>1, <2>1, <2>2, LeaseAssumption DEF LeaseIInv, LeaseTyped, ProgramsOwn, HooksOwn
    <3> QED
      BY <3>1, <3>2 DEF LeaseIInv
  <2>3. CASE UNCHANGED <<lease, used>> /\ program' = [program EXCEPT ![l] = "over"]
    BY <1>1, <2>1, <2>3
       DEF LeaseIInv, LeaseTyped, ProgramsOwn, HooksOwn, CountRight, Live
  <2> QED
    BY <1>2, <2>1, <2>2, <2>3 DEF Acquire, Manage, CreateThrows, Reserved, Released
<1>3. CASE InterruptProgram(l)
  <2>1. /\ program[l] = "running" /\ program' = [program EXCEPT ![l] = "releasing"]
        /\ lease' = [lease EXCEPT ![l] = IF lease[l] = "open" THEN "closing" ELSE lease[l]]
        /\ UNCHANGED used
    BY <1>3 DEF InterruptProgram
  <2>2. LeaseTyped' /\ ProgramsOwn' /\ HooksOwn'
    BY <1>1, <2>1, LeaseAssumption DEF LeaseIInv, LeaseTyped, ProgramsOwn, HooksOwn
  <2>3. CountRight'
    BY <1>1, <2>1, <2>2, SameCounts DEF LeaseIInv, LeaseTyped
  <2> QED
    BY <2>2, <2>3 DEF LeaseIInv
<1>4. CASE ProgramEnds(l)
  <2>1. /\ lease[l] = "ended" /\ program' = [program EXCEPT ![l] = "over"]
        /\ UNCHANGED <<lease, used>>
    BY <1>4 DEF ProgramEnds, vars, coreVars
  <2> QED
    BY <1>1, <2>1 DEF LeaseIInv, LeaseTyped, ProgramsOwn, HooksOwn, CountRight, Live
<1> QED
  BY <1>2, <1>3, <1>4

\* The rest of the runtime opens and ends no lease.
LEMMA RuntimeLeases == Runtime => UNCHANGED <<lease, used>>
<1> SUFFICES ASSUME Runtime
             PROVE  UNCHANGED <<lease, used>>
  OBVIOUS
<1>1. CASE \/ Connect \/ Established \/ Refused \/ LinkDrops \/ LinkRecovers \/ Reports
           \/ ClosesForGood \/ ShutdownEnds \/ Deadline
  BY <1>1 DEF Connect, Established, Refused, LinkDrops, LinkRecovers, Reports, ClosesForGood,
              ShutdownEnds, Deadline, coreVars
<1>2. CASE Request \/ Send \/ Answered \/ AbortRequest
  BY <1>2 DEF Request, Send, Answered, AbortRequest, BesideRequest
<1>3. ASSUME NEW s \in Subs, NEW p \in Policies, Subscribe(s, p)
      PROVE  UNCHANGED <<lease, used>>
  BY <1>3 DEF Subscribe
<1>4. ASSUME NEW s \in Subs,
             \/ Start(s) \/ StartFails(s) \/ Next(s) \/ Decoded(s) \/ Throws(s)
             \/ Returns(s) \/ LoopEnds(s) \/ Close(s) \/ SignalAborts(s)
             \/ Route(s) \/ Arrives(s) \/ Drained(s) \/ Denied(s)
      PROVE  UNCHANGED <<lease, used>>
  BY <1>4 DEF Start, StartFails, Next, Decoded, Throws, Returns, LoopEnds, Close, SignalAborts,
              Route, Arrives, Drained, Denied, OnlySubMoves, BesideSub
<1>5. ASSUME NEW s \in Subs,
             Offer(s) \/ SourceEnds(s) \/ Take(s) \/ SeesEnd(s) \/ Interrupt(s)
      PROVE  UNCHANGED <<lease, used>>
  BY <1>5 DEF Offer, SourceEnds, Take, SeesEnd, Interrupt, BesideSub
<1> QED
  BY <1>1, <1>2, <1>3, <1>4, <1>5 DEF Runtime

LEMMA StepLeases == LeaseIInv /\ [AllNext]_allVars => LeaseIInv'
<1> SUFFICES ASSUME LeaseIInv, [AllNext]_allVars
             PROVE  LeaseIInv'
  OBVIOUS
<1>1. CASE UNCHANGED allVars
  BY <1>1, IdleKeeps DEF allVars, vars, coreVars, hookVars, programVars
<1>2. CASE Runtime /\ UNCHANGED <<hookVars, programVars>>
  BY <1>2, RuntimeLeases, IdleKeeps DEF hookVars, programVars
<1>3. ASSUME NEW r \in Readers, Read(r), UNCHANGED <<hookVars, programVars>>
      PROVE  LeaseIInv'
  BY <1>3, IdleKeeps DEF Read, coreVars, hookVars, programVars
<1>4. ASSUME AnyEnds, UNCHANGED <<hookVars, programVars>> PROVE LeaseIInv'
  BY <1>4, LeaseEndsKeeps DEF AnyEnds, hookVars, programVars
<1>5. ASSUME Program, UNCHANGED hookVars PROVE LeaseIInv'
  BY <1>5, ProgramKeeps DEF Program
<1>6. CASE Hook
  BY <1>6, MountKeeps, StartKeeps, CleanUpKeeps DEF Hook
<1>7. CASE ProviderMounts \/ Replays
  BY <1>7, IdleKeeps DEF ProviderMounts, Replays, vars, coreVars, hookVars, programVars
<1>8. CASE Unmounts
  BY <1>8, UnmountKeeps
<1>9. ASSUME NEW n \in cleanups, Disposes(n) PROVE LeaseIInv'
  BY <1>9, CloseKeeps, IdleKeeps DEF Disposes, vars, coreVars, hookVars, programVars
<1> QED
  BY <1>1, <1>2, <1>3, <1>4, <1>5, <1>6, <1>7, <1>8, <1>9 DEF AllNext, Provider

\* No two leases of a hook are alive together.
LEMMA OneLeasePerHook == LeaseIInv => Cardinality(Live \cap Effects) <= 1
<1> SUFFICES ASSUME LeaseIInv
             PROVE  Cardinality(Live \cap Effects) <= 1
  OBVIOUS
<1>1. \A i, j \in Live \cap Effects : i = j
  <2> SUFFICES ASSUME NEW i \in Live \cap Effects, NEW j \in Live \cap Effects
               PROVE  i = j
    OBVIOUS
  <2>1. /\ effect[i] = "running" \/ (effect[i] = "cleaned" /\ lease[i] = "closing")
        /\ effect[j] = "running" \/ (effect[j] = "cleaned" /\ lease[j] = "closing")
    <3>1. ASSUME NEW k \in Live \cap Effects
          PROVE  effect[k] = "running" \/ (effect[k] = "cleaned" /\ lease[k] = "closing")
      <4>1. lease[k] \in {"open", "closing"} /\ k \in Effects
        BY DEF Live
      <4> QED
        BY <4>1 DEF LeaseIInv, LeaseTyped, HooksOwn
    <3> QED
      BY <3>1
  <2>2. CASE effect[i] = "running" /\ effect[j] = "running"
    <3>1. ~(i < j) /\ ~(j < i)
      BY <2>2 DEF LeaseIInv, HooksOwn
    <3> QED
      BY <3>1 DEF Effects
  <2>3. CASE effect[i] = "cleaned" /\ effect[j] = "cleaned"
    BY <2>1, <2>3 DEF LeaseIInv, HooksOwn
  <2>4. CASE effect[i] # effect[j]
    BY <2>1, <2>4 DEF LeaseIInv, HooksOwn
  <2> QED
    BY <2>1, <2>2, <2>3, <2>4
<1>2. CASE Live \cap Effects = {}
  BY <1>2, FS_EmptySet
<1>3. CASE Live \cap Effects # {}
  <2>1. PICK i : i \in Live \cap Effects
    BY <1>3
  <2>2. Live \cap Effects = {i}
    BY <1>1, <2>1
  <2>3. Cardinality({i}) = 1
    BY FS_Singleton
  <2> QED
    BY <2>2, <2>3
<1> QED
  BY <1>2, <1>3

(***************************************************************************)
(* usedJetStreamConsumers (core 1781-1873) is the number of consumers that *)
(* exist and stays within the limit, through refusals, creations that      *)
(* throw, remounts, interruptions and the shutdown; a hook never holds two *)
(* leases (react 380-580), and a program out of its scope holds none.      *)
(***************************************************************************)
THEOREM LeasesAreLimited == Spec => []LeasesWithinLimits
<1>1. LeaseIInv => LeasesWithinLimits
  BY OneLeasePerHook DEF LeaseIInv, CountRight, ProgramsOwn, LeasesWithinLimits
<1> QED
  BY <1>1, InitLeases, StepLeases, PTL DEF Spec
=============================================================================
