------------------------ MODULE OrderedConsumerProofs ------------------------
(***************************************************************************)
(* Proofs about OrderedConsumer, for any leases, any accepted settings and *)
(* any stream: a resuming lease skips nothing that nobody has handled, the *)
(* redelivery window of coalescing is bounded, and "caught up" means that  *)
(* the whole captured replay has been handled and saved.                   *)
(*                                                                         *)
(* And about EventStream on top of it, for one lease and any adapters: the *)
(* caught-up event parts the replay from live, and a live snapshot of the  *)
(* materializer holds all of the replay.                                   *)
(***************************************************************************)
EXTENDS EventStream, FiniteSetTheorems, SequenceTheorems, WellFoundedInduction, TLAPS

-----------------------------------------------------------------------------
(***************************************************************************)
(* The inductive invariant.                                                *)
(***************************************************************************)
Before == {"idle", "loading", "creating", "consuming"}
Loop   == {"consuming", "receive", "handling", "saving"}

\* Retention overtakes a running lease that does not accept the gap.
Overtaken == LivePurge /\ options.retention = "error"

\* A message needs no more handling.
Excused(m) == m \in Handled \/ (options.retention = "continue" /\ m < first)
Covered(n) == \A m \in (origin + 1) .. n : Excused(m)

\* At most the whole stream is removed, and a start without a checkpoint is never
\* before an earlier one.
OriginBehind ==
    /\ first <= last + 1
    /\ origin <= IF options.start = "new" THEN last ELSE first - 1

\* Where a lease stands in the stream.
Placed(l) ==
    /\ pc[l] \in Before => handled[l] = {} /\ pending[l] = 0 /\ unsaved[l] = 0
    /\ pc[l] \in Loop => committed[l] <= position[l]
    /\ pc[l] \in {"handling", "saving"} => current[l] \in 1 .. position[l]
    /\ pc[l] \in {"receive", "handling"} => \A m \in handled[l] : m <= committed[l]
    /\ pc[l] = "saving" =>
          current[l] \in handled[l]
          /\ \A m \in handled[l] : m <= committed[l] \/ m = current[l]
    /\ pending[l] = 0 <=> unsaved[l] = 0

\* While retention waits for the leases, none of them falls behind it.
KeepsUp(l) ==
    ~LivePurge =>
        /\ pc[l] = "creating" /\ options.retention = "error" =>
              committed[l] = 0 \/ first <= committed[l] + 1
        /\ pc[l] \in Loop => first <= position[l] + 1

\* All that a lease has recorded, or will record, and all that it has passed is
\* covered, except what it is handling.
Recorded(l) == {committed[l], pending[l]} \cup
               {saving[l][i].sequence : i \in 1 .. Len(saving[l])}

Passed(l) ==
    pc[l] \in Loop =>
        \A m \in (origin + 1) .. position[l] :
            Excused(m) \/ (pc[l] = "handling" /\ m = current[l])

Sound(l) == (\A n \in Recorded(l) : Covered(n)) /\ Passed(l)

Complete == ~Overtaken => Covered(store) /\ \A l \in Leases : Sound(l)

\* Without a timer a lease has handled few messages beyond the checkpoint: those
\* that the writer counts, or, while it saves, as many as it may count.
Unsafe(l) == {m \in handled[l] : m > store}
Counting  == Before \cup {"receive", "handling"}

Counted(l) ==
    /\ ~timer[l] /\ unsaved[l] < Window
    /\ pc[l] = "handling" => current[l] \in handled[l] \/ committed[l] < current[l]
    /\ pc[l] \in Counting => saving[l] = <<>> /\ ~saveFailed[l]
    /\ pc[l] \in Counting => \A m \in Unsafe(l) : m <= pending[l]
    /\ pc[l] = "saving" /\ ~saveFailed[l] =>
          \/ saving[l] = <<>> /\ Unsafe(l) = {}
          \/ Len(saving[l]) = 1 /\ \A m \in Unsafe(l) : m <= saving[l][1].sequence
    /\ pc[l] = "saving" => unsaved[l] = 0
    /\ Cardinality(Unsafe(l)) <= IF pc[l] \in Counting THEN unsaved[l] ELSE Window

Windowed == ~options.timed => \A l \in Leases : Counted(l)

\* What is left of the captured replay, as far as nothing has come twice.
Busy(l) == pc[l] \in {"handling", "saving"}
ToDo(l) == {m \in replay[l] : m > position[l] \/ (Busy(l) /\ m = current[l])}

\* The replay counts down what is to do, what is behind is handled, and what is
\* ahead is the end of the replay without a hole.
Remains(l) == remaining[l] = Cardinality(ToDo(l))

Behind(l) ==
    \A m \in replay[l] :
        m <= position[l] => m \in handled[l] \/ (pc[l] = "handling" /\ m = current[l])

Ahead(l) ==
    \A m \in replay[l], n \in Sequences :
        n <= m /\ (n > position[l] \/ (Busy(l) /\ n = current[l])) => n \in replay[l]

Settled(l) ==
    caughtUp[l] = "resolved" => \A m \in replay[l] : m \in handled[l] /\ m <= store

InOrder(l) ==
    /\ pc[l] = "handling" => committed[l] < current[l]
    /\ Busy(l) => current[l] = position[l]
    /\ pc[l] = "saving" => pending[l] = 0
    /\ pc[l] = "saving" /\ ~saveFailed[l] =>
          IF saving[l] = <<>> THEN current[l] <= store
          ELSE saving[l][Len(saving[l])].sequence = current[l]
    /\ pc[l] \in Loop => Remains(l) /\ Behind(l) /\ Ahead(l)
    /\ Settled(l)
    /\ pc[l] \in {"idle", "loading", "creating"} => caughtUp[l] # "resolved"

Replayed == ~LivePurge /\ redeliveries = 0 => \A l \in Leases : InOrder(l)

ConsumerIInv ==
    /\ TypeOK /\ OriginBehind
    /\ \A l \in Leases : Placed(l) /\ KeepsUp(l)
    /\ Complete /\ Windowed /\ Replayed

-----------------------------------------------------------------------------
(***************************************************************************)
(* The settings never change, and neither do the bounds that go with them. *)
(***************************************************************************)
Same(v) == v' = v

\* The settings are among those that consumeJetStream() accepts.
LEMMA SettingsHold ==
    ASSUME TypeOK
    PROVE  /\ MaxSequence \in Nat /\ MaxRedeliveries \in Nat
           /\ options.maxItems \in Nat /\ options.timed \in BOOLEAN
           /\ options.retention \in {"error", "continue"}
           /\ Window \in Nat \ {0}
<1>1. options \in Options /\ options \in Settings
  BY ConsumerAssumption DEF TypeOK
<1>2. MaxSequence \in Nat /\ MaxRedeliveries \in Nat
  BY <1>1, ConsumerAssumption DEF MaxSequence, MaxRedeliveries
<1>. QED
  BY <1>1, <1>2 DEF Settings, Window

\* No step changes them.
LEMMA SettingsStay ==
    ASSUME Next
    PROVE  /\ options' = options
           /\ MaxSequence' = MaxSequence /\ MaxRedeliveries' = MaxRedeliveries
           /\ Sequences' = Sequences /\ Window' = Window /\ Overtaken' = Overtaken
<1>1. options' = options
  BY ZenonT(60) DEF Next, Publish, Purge, Work, Handler, ReceiveNext, Receive, streamVars, Open,
     Load, Create, Consume, Saved, LoopEnds, Finish, FlushAfterFailure, Fail,
     HandlerSucceeds, HandlerFails, ReceiveAgain, StartFails, TimedFlush, Save, Close,
     MessagesEnd, Crash
<1>. QED
  BY <1>1 DEF MaxSequence, MaxRedeliveries, Sequences, Window, Overtaken

\* Every step is one of the stream or one of a lease.
StreamStep == Publish \/ Purge

OwnStep(l) ==
    \/ Open(l) \/ Work(l) \/ Handler(l)
    \/ ReceiveAgain(l) \/ StartFails(l) \/ TimedFlush(l) \/ Save(l)
    \/ Close(l) \/ MessagesEnd(l) \/ Crash(l)

-----------------------------------------------------------------------------
(***************************************************************************)
(* Every step keeps the types, which come in groups.                       *)
(***************************************************************************)
Steps  == {"idle", "loading", "creating", "consuming", "receive",
           "handling", "saving", "final", "failing"} \cup Over
Saves  == Seq([sequence : Sequences, timed : BOOLEAN])
Places == 0 .. MaxSequence

StreamTypes ==
    /\ options \in Options
    /\ first \in 1 .. MaxSequence + 1
    /\ last \in Places
    /\ redeliveries \in 0 .. MaxRedeliveries
    /\ store \in Places /\ origin \in Places

ControlTypes ==
    /\ pc \in [Leases -> Steps]
    /\ closeRequested \in [Leases -> BOOLEAN]
    /\ messages \in [Leases -> {"none", "open", "closed"}]
    /\ caughtUp \in [Leases -> {"pending", "resolved", "rejected"}]

PlaceTypes ==
    /\ position \in [Leases -> Places] /\ committed \in [Leases -> Places]
    /\ remaining \in [Leases -> Places] /\ current \in [Leases -> Places]

WriterTypes ==
    /\ pending \in [Leases -> Places]
    /\ unsaved \in [Leases -> Nat]
    /\ timer \in [Leases -> BOOLEAN]
    /\ saving \in [Leases -> Saves]
    /\ saveFailed \in [Leases -> BOOLEAN]

HistoryTypes ==
    /\ handled \in [Leases -> SUBSET Sequences]
    /\ replay \in [Leases -> SUBSET Sequences]

Types == StreamTypes /\ ControlTypes /\ PlaceTypes /\ WriterTypes /\ HistoryTypes

\* A group stays typed as long as its variables stay.
LEMMA GroupsStay ==
    ASSUME Types, Next
    PROVE  /\ UNCHANGED <<first, last, redeliveries, store, origin>> => StreamTypes'
           /\ UNCHANGED <<pc, closeRequested, messages, caughtUp>> => ControlTypes'
           /\ UNCHANGED <<position, committed, remaining, current>> => PlaceTypes'
           /\ UNCHANGED writerVars => WriterTypes'
           /\ UNCHANGED <<handled, replay>> => HistoryTypes'
<1>1. /\ options' = options /\ Places' = Places /\ Saves' = Saves
      /\ Sequences' = Sequences
      /\ MaxSequence' = MaxSequence /\ MaxRedeliveries' = MaxRedeliveries
  BY SettingsStay DEF Places, Saves
<1>2. UNCHANGED <<first, last, redeliveries, store, origin>> => StreamTypes'
  BY <1>1 DEF Types, StreamTypes
<1>3. UNCHANGED <<pc, closeRequested, messages, caughtUp>> => ControlTypes'
  BY DEF Types, ControlTypes
<1>4. UNCHANGED <<position, committed, remaining, current>> => PlaceTypes'
  BY <1>1 DEF Types, PlaceTypes
<1>5. UNCHANGED writerVars => WriterTypes'
  BY <1>1 DEF Types, WriterTypes, writerVars
<1>6. UNCHANGED <<handled, replay>> => HistoryTypes'
  BY <1>1 DEF Types, HistoryTypes
<1>. QED
  BY <1>2, <1>3, <1>4, <1>5, <1>6

\* A flush saves a pending checkpoint.
LEMMA FlushTypes ==
    ASSUME WriterTypes, Saves' = Saves, Places' = Places, MaxSequence \in Nat,
           NEW l \in Leases, NEW checkpoint \in Places, NEW timed \in BOOLEAN,
           Flushed(l, checkpoint, timed), UNCHANGED saveFailed
    PROVE  WriterTypes'
<1>. DEFINE save == [sequence |-> checkpoint, timed |-> timed]
<1>1. /\ pending' \in [Leases -> Places] /\ unsaved' \in [Leases -> Nat]
      /\ timer' \in [Leases -> BOOLEAN]
  BY DEF Flushed, WriterTypes, Places
<1>2. saving' \in [Leases -> Saves]
  <2>1. CASE checkpoint = 0
    BY <2>1 DEF Flushed, WriterTypes
  <2>2. CASE checkpoint # 0
    <3>1. save \in [sequence : Sequences, timed : BOOLEAN]
      BY <2>2 DEF Places, Sequences
    <3>2. saving[l] \in Seq([sequence : Sequences, timed : BOOLEAN])
      BY DEF WriterTypes, Saves
    <3>3. Append(saving[l], save) \in Saves
      BY <3>1, <3>2 DEF Saves
    <3>4. saving' = [saving EXCEPT ![l] = Append(saving[l], save)]
      BY <2>2 DEF Flushed
    <3>. QED
      BY <3>3, <3>4 DEF WriterTypes
  <2>. QED
    BY <2>1, <2>2
<1>. QED
  BY <1>1, <1>2 DEF WriterTypes

\* Progress of the replay counts down.
LEMMA CommitTypes ==
    ASSUME PlaceTypes, ControlTypes, Places' = Places, MaxSequence \in Nat,
           NEW l \in Leases, Commit(l), UNCHANGED <<position, closeRequested, messages>>
    PROVE  PlaceTypes' /\ ControlTypes'
<1>1. ASSUME NEW n \in Places PROVE DecrementTo0(n) \in Places
  BY DEF DecrementTo0, Places
<1>2. remaining' = [remaining EXCEPT ![l] = DecrementTo0(remaining[l])]
  BY DEF Commit, AdvanceInitialReplay
<1>3. remaining' \in [Leases -> Places]
  BY <1>1, <1>2 DEF PlaceTypes
<1>4. committed' \in [Leases -> Places] /\ current' \in [Leases -> Places]
  BY DEF Commit, PlaceTypes, Places
<1>5. ControlTypes'
  BY DEF Commit, AdvanceInitialReplay, Goto, ControlTypes, Steps
<1>. QED
  BY <1>3, <1>4, <1>5 DEF PlaceTypes

\* A delivery moves the position, and a dropped one counts as replayed.
LEMMA ReceiveTypes ==
    ASSUME Types, Places' = Places, Sequences' = Sequences, MaxSequence \in Nat,
           NEW l \in Leases, NEW m, Receive(l, m)
    PROVE  PlaceTypes' /\ ControlTypes'
<1>1. m \in Places
  BY DEF Receive, Types, StreamTypes, Places
<1>2. ASSUME NEW n \in Places PROVE DecrementTo0(n) \in Places
  BY DEF DecrementTo0, Places
<1>3. \/ UNCHANGED remaining
      \/ remaining' = [remaining EXCEPT ![l] = DecrementTo0(remaining[l])]
  BY DEF Receive, AdvanceInitialReplay
<1>4. remaining' \in [Leases -> Places]
  BY <1>2, <1>3 DEF Types, PlaceTypes
<1>5. /\ position' \in [Leases -> Places] /\ committed' \in [Leases -> Places]
      /\ current' \in [Leases -> Places]
  BY <1>1 DEF Receive, Types, PlaceTypes
<1>6. ControlTypes'
  BY DEF Receive, AdvanceInitialReplay, Goto, Types, ControlTypes, Steps
<1>. QED
  BY <1>4, <1>5, <1>6 DEF PlaceTypes

LEMMA TypeStep ==
    ASSUME TypeOK, \A l \in Leases : Placed(l), Next
    PROVE  TypeOK'
<1>0. /\ options' = options
      /\ MaxSequence' = MaxSequence /\ MaxRedeliveries' = MaxRedeliveries
      /\ Sequences' = Sequences /\ Places' = Places /\ Saves' = Saves
      /\ MaxSequence \in Nat /\ MaxRedeliveries \in Nat
  BY SettingsStay, SettingsHold DEF Places, Saves
<1>t. Types
  BY DEF TypeOK, Types, StreamTypes, ControlTypes, PlaceTypes, WriterTypes,
     HistoryTypes,
     Steps, Saves, Places
<1>. SUFFICES Types'
  BY <1>0 DEF TypeOK, Types, StreamTypes, ControlTypes, PlaceTypes, WriterTypes,
     HistoryTypes, Steps, Saves, Places
<1>1. ASSUME Publish PROVE Types'
  BY <1>0, <1>t, <1>1, GroupsStay DEF Publish, Types, streamVars, leaseVars,
     writerVars, history, StreamTypes, Places
<1>2. ASSUME Purge PROVE Types'
  BY <1>0, <1>t, <1>2, GroupsStay DEF Purge, Types, streamVars, leaseVars, writerVars,
     history, StreamTypes, Places
<1>3. ASSUME NEW l \in Leases, Open(l) PROVE Types'
  BY <1>0, <1>t, <1>3, GroupsStay DEF Open, Goto, Types, streamVars, leaseVars,
     writerVars, history, ControlTypes, Steps, Over
<1>4. ASSUME NEW l \in Leases, Load(l) PROVE Types'
  <2>1. store \in Places
    BY <1>t DEF Types, StreamTypes
  <2>2. PlaceTypes'
    BY <1>0, <1>t, <1>4, <2>1 DEF Load, Loaded, Types, PlaceTypes
  <2>3. ControlTypes'
    BY <1>t, <1>4 DEF Load, Goto, Types, ControlTypes, Steps
  <2>. QED
    BY <1>t, <1>4, <2>2, <2>3, GroupsStay DEF Load, streamVars, history, Types
<1>5. ASSUME NEW l \in Leases, Create(l) PROVE Types'
  <2>1. Start(l) \in Places
    BY <1>0, <1>t DEF Start, Types, StreamTypes, PlaceTypes, Places
  <2>2. Cardinality((Start(l) + 1) .. last) \in Places
    <3>1. last \in Int /\ Start(l) + 1 \in Int /\ Start(l) >= 0 /\ last <= MaxSequence
      BY <1>0, <1>t, <2>1 DEF Types, StreamTypes, Places
    <3>2. Cardinality((Start(l) + 1) .. last) =
              IF Start(l) + 1 > last THEN 0 ELSE last - (Start(l) + 1) + 1
      BY <3>1, FS_Interval
    <3>. QED
      BY <1>0, <2>1, <3>1, <3>2 DEF Places
  <2>3. StreamTypes'
    BY <1>0, <1>t, <1>5, <2>1 DEF Create, streamVars, Types, StreamTypes
  <2>4. ControlTypes'
    BY <1>t, <1>5 DEF Create, Goto, Types, ControlTypes, Steps, Over
  <2>5. PlaceTypes'
    BY <1>0, <1>t, <1>5, <2>1, <2>2 DEF Create, Types, PlaceTypes
  <2>6. HistoryTypes'
    <3>1. (Start(l) + 1) .. last \in SUBSET Sequences
      BY <1>0, <1>t, <2>1 DEF Types, StreamTypes, Places, Sequences
    <3>. QED
      BY <1>0, <1>t, <1>5, <3>1 DEF Create, Types, HistoryTypes
  <2>. QED
    BY <1>t, <1>5, <2>3, <2>4, <2>5, <2>6, GroupsStay DEF Create, Types
<1>6. ASSUME NEW l \in Leases, Consume(l) PROVE Types'
  BY <1>0, <1>t, <1>6, GroupsStay DEF Consume, Goto, Types, streamVars, leaseVars,
     writerVars, history, ControlTypes, Steps, Over
<1>7. ASSUME NEW l \in Leases, ReceiveNext(l) PROVE Types'
  BY <1>0, <1>t, <1>7, GroupsStay, ReceiveTypes
  DEF ReceiveNext, Receive, writerVars, history, Types
<1>8. ASSUME NEW l \in Leases, ReceiveAgain(l) PROVE Types'
  <2>1. PICK m \in handled[l] : Receive(l, m)
    BY <1>8 DEF ReceiveAgain
  <2>2. StreamTypes'
    BY <1>0, <1>t, <1>8, <2>1 DEF ReceiveAgain, Receive, history, Types, StreamTypes
  <2>. QED
    BY <1>0, <1>t, <2>1, <2>2, GroupsStay, ReceiveTypes DEF Receive, writerVars,
       history,
       Types
<1>9. ASSUME NEW l \in Leases, Saved(l) PROVE Types'
  <2>1. PlaceTypes' /\ ControlTypes'
    <3>1. CASE Commit(l)
      BY <1>0, <1>t, <1>9, <3>1, CommitTypes DEF Saved, Types
    <3>2. CASE Goto(l, "failing") /\ UNCHANGED <<committed, remaining, caughtUp, current>>
      BY <1>t, <1>9, <3>2, GroupsStay DEF Saved, Goto, Types, ControlTypes, Steps
    <3>. QED
      BY <1>9, <3>1, <3>2 DEF Saved
  <2>. QED
    BY <1>t, <1>9, <2>1, GroupsStay DEF Saved, streamVars, history, Types
<1>10. ASSUME NEW l \in Leases, LoopEnds(l) PROVE Types'
  <2>1. pending[l] \in Places /\ Flushed(l, pending[l], FALSE) /\ UNCHANGED saveFailed
    BY <1>t, <1>10 DEF LoopEnds, Types, WriterTypes
  <2>2. WriterTypes'
    BY <1>0, <1>t, <2>1, FlushTypes DEF Types
  <2>. QED
    BY <1>t, <1>10, <2>2, GroupsStay DEF LoopEnds, Goto, streamVars, leaseVars,
       history, Types, ControlTypes, Steps
<1>11. ASSUME NEW l \in Leases, Finish(l) PROVE Types'
  BY <1>0, <1>t, <1>11, GroupsStay DEF Finish, Goto, Types, streamVars, leaseVars,
     writerVars, history, ControlTypes, Steps, Over
<1>12. ASSUME NEW l \in Leases, FlushAfterFailure(l) PROVE Types'
  <2>1. pending[l] \in Places /\ Flushed(l, pending[l], FALSE) /\ UNCHANGED saveFailed
    BY <1>t, <1>12 DEF FlushAfterFailure, Types, WriterTypes
  <2>2. WriterTypes'
    BY <1>0, <1>t, <2>1, FlushTypes DEF Types
  <2>. QED
    BY <1>t, <1>12, <2>2, GroupsStay DEF FlushAfterFailure, streamVars, leaseVars,
       history, Types
<1>13. ASSUME NEW l \in Leases, Fail(l) PROVE Types'
  BY <1>0, <1>t, <1>13, GroupsStay DEF Fail, Goto, Types, streamVars, leaseVars,
     writerVars, history, ControlTypes, Steps, Over
<1>14. ASSUME NEW l \in Leases, HandlerSucceeds(l) PROVE Types'
  <2>. DEFINE checkpoint == IF Duplicate(l, current[l]) THEN pending[l] ELSE current[l]
  <2>1. current[l] \in Sequences /\ current[l] \in Places /\ pending[l] \in Places
    BY <1>0, <1>t, <1>14 DEF HandlerSucceeds, Placed, Types, PlaceTypes, WriterTypes,
       Places,
       Sequences
  <2>2. HistoryTypes'
    <3>1. /\ handled' = [handled EXCEPT ![l] = handled[l] \cup {current[l]}]
          /\ UNCHANGED replay
      BY <1>14 DEF HandlerSucceeds
    <3>. QED
      BY <1>0, <1>t, <2>1, <3>1 DEF Types, HistoryTypes
  <2>3. CASE Goto(l, "failing") /\ UNCHANGED <<committed, remaining, caughtUp, current, writerVars>>
    <3>1. ControlTypes'
      BY <1>t, <1>14, <2>3 DEF HandlerSucceeds, Goto, Types, ControlTypes, Steps
    <3>. QED
      BY <1>t, <1>14, <2>2, <2>3, <3>1, GroupsStay DEF HandlerSucceeds, streamVars,
         Types
  <2>4. CASE /\ Flushed(l, checkpoint, FALSE) /\ Goto(l, "saving")
             /\ UNCHANGED <<committed, remaining, caughtUp, current, saveFailed>>
    <3>1. checkpoint \in Places
      BY <2>1
    <3>2. WriterTypes'
      BY <1>0, <1>t, <2>4, <3>1, FlushTypes DEF Types
    <3>3. ControlTypes'
      BY <1>t, <1>14, <2>4 DEF HandlerSucceeds, Goto, Types, ControlTypes, Steps
    <3>. QED
      BY <1>t, <1>14, <2>2, <2>4, <3>2, <3>3, GroupsStay DEF HandlerSucceeds,
         streamVars,
         Types
  <2>5. CASE /\ pending' = IF Duplicate(l, current[l]) THEN pending
                           ELSE [pending EXCEPT ![l] = current[l]]
             /\ unsaved' = IF Duplicate(l, current[l]) THEN unsaved
                           ELSE [unsaved EXCEPT ![l] = @ + 1]
             /\ timer' = IF Duplicate(l, current[l]) THEN timer
                         ELSE [timer EXCEPT ![l] = options.timed]
             /\ UNCHANGED <<saving, saveFailed>>
             /\ Commit(l)
    <3>1. options.timed \in BOOLEAN
      BY SettingsHold
    <3>2. WriterTypes'
      BY <1>0, <1>t, <2>1, <2>5, <3>1 DEF Types, WriterTypes
    <3>3. PlaceTypes' /\ ControlTypes'
      BY <1>0, <1>t, <1>14, <2>5, CommitTypes DEF HandlerSucceeds, Types
    <3>. QED
      BY <1>t, <1>14, <2>2, <3>2, <3>3, GroupsStay DEF HandlerSucceeds, streamVars,
         Types
  <2>. QED
    BY <1>14, <2>3, <2>4, <2>5 DEF HandlerSucceeds
<1>15. ASSUME NEW l \in Leases, HandlerFails(l) PROVE Types'
  BY <1>0, <1>t, <1>15, GroupsStay DEF HandlerFails, Goto, Types, streamVars,
     leaseVars, writerVars, history, ControlTypes, Steps, Over
<1>16. ASSUME NEW l \in Leases, StartFails(l) PROVE Types'
  BY <1>0, <1>t, <1>16, GroupsStay DEF StartFails, Goto, Types, streamVars, leaseVars,
     writerVars, history, ControlTypes, Steps, Over
<1>17. ASSUME NEW l \in Leases, TimedFlush(l) PROVE Types'
  <2>1. pending[l] \in Places /\ Flushed(l, pending[l], TRUE) /\ UNCHANGED saveFailed
    BY <1>t, <1>17 DEF TimedFlush, Types, WriterTypes
  <2>2. WriterTypes'
    BY <1>0, <1>t, <2>1, FlushTypes DEF Types
  <2>. QED
    BY <1>t, <1>17, <2>2, GroupsStay DEF TimedFlush, streamVars, leaseVars, history,
       Types
<1>18. ASSUME NEW l \in Leases, Save(l) PROVE Types'
  <2>1. saving[l] \in Saves /\ saving[l] # <<>>
    BY <1>t, <1>18 DEF Save, Types, WriterTypes
  <2>2. Tail(saving[l]) \in Saves /\ Head(saving[l]).sequence \in Places
    <3>. DEFINE R == [sequence : Sequences, timed : BOOLEAN]
    <3>1. saving[l] \in Seq(R)
      BY <2>1 DEF Saves
    <3>2. Tail(saving[l]) \in Seq(R) /\ Head(saving[l]) \in R
      <4>. HIDE DEF R
      <4>. QED
        BY <2>1, <3>1
    <3>. QED
      BY <1>0, <3>2 DEF Saves, Sequences, Places
  <2>3. saving' \in [Leases -> Saves]
    <3>1. saving' = [saving EXCEPT ![l] = Tail(saving[l])]
      BY <1>18 DEF Save
    <3>. QED
      BY <1>t, <2>2, <3>1 DEF Types, WriterTypes
  <2>4. WriterTypes'
    BY <1>0, <1>t, <1>18, <2>3 DEF Save, Types, WriterTypes
  <2>5. StreamTypes'
    BY <1>0, <1>t, <1>18, <2>2 DEF Save, Stored, streamVars, history, Types, StreamTypes
  <2>6. ControlTypes'
    BY <1>t, <1>18 DEF Save, TimedFailure, Types, ControlTypes
  <2>. QED
    BY <1>t, <1>18, <2>4, <2>5, <2>6, GroupsStay DEF Save, history, Types
<1>19. ASSUME NEW l \in Leases, Close(l) PROVE Types'
  BY <1>0, <1>t, <1>19, GroupsStay DEF Close, Types, streamVars, leaseVars,
     writerVars, history, ControlTypes, Steps, Over
<1>20. ASSUME NEW l \in Leases, MessagesEnd(l) PROVE Types'
  BY <1>0, <1>t, <1>20, GroupsStay DEF MessagesEnd, Types, streamVars, leaseVars,
     writerVars, history, ControlTypes, Steps, Over
<1>21. ASSUME NEW l \in Leases, Crash(l) PROVE Types'
  <2>1. <<>> \in Saves
    BY DEF Saves
  <2>2. WriterTypes'
    BY <1>0, <1>t, <1>21, <2>1 DEF Crash, Types, WriterTypes
  <2>3. ControlTypes'
    BY <1>t, <1>21 DEF Crash, Goto, Types, ControlTypes, Steps, Over
  <2>. QED
    BY <1>t, <1>21, <2>2, <2>3, GroupsStay DEF Crash, streamVars, history, Types
<1>. QED
  BY <1>1, <1>2, <1>3, <1>4, <1>5, <1>6, <1>7, <1>8, <1>9, <1>10, <1>11, <1>12, <1>13,
     <1>14, <1>15, <1>16, <1>17, <1>18, <1>19, <1>20, <1>21 DEF Next, Work, Handler

-----------------------------------------------------------------------------
(***************************************************************************)
(* What a step of one lease leaves alone.                                  *)
(***************************************************************************)
WriterStays(l) ==
    /\ pending'[l] = pending[l] /\ unsaved'[l] = unsaved[l] /\ timer'[l] = timer[l]
    /\ saving'[l] = saving[l] /\ saveFailed'[l] = saveFailed[l]

Stays(l) ==
    /\ pc'[l] = pc[l]
    /\ position'[l] = position[l] /\ committed'[l] = committed[l]
    /\ remaining'[l] = remaining[l] /\ current'[l] = current[l]
    /\ caughtUp'[l] = caughtUp[l]
    /\ handled'[l] = handled[l] /\ replay'[l] = replay[l]
    /\ WriterStays(l)

\* A lease has its own process: only the stream and the store are shared.
LEMMA OthersStay ==
    ASSUME TypeOK, NEW l \in Leases, OwnStep(l), NEW k \in Leases, k # l
    PROVE  Stays(k)
<1>. DEFINE Has(f) == k \in DOMAIN f
<1>0. /\ Has(pc) /\ Has(position) /\ Has(committed) /\ Has(remaining) /\ Has(current)
      /\ Has(caughtUp) /\ Has(handled) /\ Has(replay) /\ Has(pending) /\ Has(unsaved)
      /\ Has(timer) /\ Has(saving) /\ Has(saveFailed)
  BY DEF TypeOK
<1>. USE <1>0 DEF Stays, WriterStays, leaseVars, writerVars, history, Goto
<1>1. ASSUME NEW c, NEW t, Flushed(l, c, t), UNCHANGED saveFailed PROVE WriterStays(k)
  BY <1>1 DEF Flushed
<1>2. ASSUME AdvanceInitialReplay(l)
      PROVE  remaining'[k] = remaining[k] /\ caughtUp'[k] = caughtUp[k]
  BY <1>2 DEF AdvanceInitialReplay
<1>3. ASSUME NEW m, Receive(l, m) PROVE Stays(k)
  BY <1>2, <1>3 DEF Receive
<1>4. ASSUME Commit(l)
      PROVE  /\ pc'[k] = pc[k] /\ committed'[k] = committed[k] /\ current'[k] = current[k]
             /\ remaining'[k] = remaining[k] /\ caughtUp'[k] = caughtUp[k]
  BY <1>2, <1>4 DEF Commit
<1>5. CASE Open(l) \/ Load(l) \/ Create(l) \/ Consume(l) \/ StartFails(l)
  <2>1. CASE Open(l) \/ Consume(l) \/ StartFails(l)
    BY <2>1 DEF Open, Consume, StartFails
  <2>2. CASE Load(l)
    BY <2>2 DEF Load
  <2>3. CASE Create(l)
    BY <2>3 DEF Create
  <2>. QED
    BY <1>5, <2>1, <2>2, <2>3
<1>6. CASE ReceiveNext(l) \/ ReceiveAgain(l)
  BY <1>3, <1>6 DEF ReceiveNext, ReceiveAgain
<1>7. CASE Saved(l)
  BY <1>4, <1>7 DEF Saved
<1>8. CASE HandlerSucceeds(l)
  <2>1. handled'[k] = handled[k] /\ UNCHANGED <<position, replay>>
    BY <1>8 DEF HandlerSucceeds
  <2>2. CASE Goto(l, "failing") /\ UNCHANGED <<committed, remaining, caughtUp, current, writerVars>>
    BY <2>1, <2>2
  <2>3. CASE UNCHANGED <<saving, saveFailed>> /\ Commit(l)
    <3>1. WriterStays(k)
      BY <1>8, <2>3 DEF HandlerSucceeds, Commit, Flushed
    <3>. QED
      BY <1>4, <2>1, <2>3, <3>1
  <2>4. CASE /\ \E c : Flushed(l, c, FALSE)
             /\ Goto(l, "saving")
             /\ UNCHANGED <<committed, remaining, caughtUp, current, saveFailed>>
    BY <1>1, <2>1, <2>4
  <2>. QED
    BY <1>8, <2>2, <2>3, <2>4 DEF HandlerSucceeds
<1>9. CASE LoopEnds(l) \/ FlushAfterFailure(l) \/ TimedFlush(l)
  BY <1>1, <1>9 DEF LoopEnds, FlushAfterFailure, TimedFlush
<1>10. CASE Save(l)
  BY <1>10 DEF Save
<1>11. CASE Finish(l) \/ Fail(l) \/ HandlerFails(l) \/ Close(l) \/ MessagesEnd(l)
            \/ Crash(l)
  <2>1. CASE Finish(l) \/ HandlerFails(l) \/ MessagesEnd(l)
    BY <2>1 DEF Finish, HandlerFails, MessagesEnd
  <2>2. CASE Fail(l) \/ Close(l)
    BY <2>2 DEF Fail, Close
  <2>3. CASE Crash(l)
    BY <2>3 DEF Crash
  <2>. QED
    BY <1>11, <2>1, <2>2, <2>3
<1>. QED
  BY <1>5, <1>6, <1>7, <1>8, <1>9, <1>10, <1>11 DEF OwnStep, Work, Handler

\* The checkpoint never moves back, however many writers there are; retention
\* and publishing go forward, and what has been handled stays so.
Forward ==
    /\ store <= store' /\ first <= first' /\ last <= last'
    /\ redeliveries <= redeliveries'
    /\ \A l \in Leases : handled[l] \subseteq handled'[l]

LEMMA StoreMovesForward ==
    ASSUME TypeOK, Next
    PROVE  Forward
<1>0. /\ store \in Nat /\ first \in Nat /\ last \in Nat /\ redeliveries \in Nat
      /\ handled \in [Leases -> SUBSET Sequences]
  BY SettingsHold DEF TypeOK
<1>. USE <1>0 DEF Forward, streamVars, history
<1>1. CASE StreamStep
  BY <1>1 DEF StreamStep, Publish, Purge
<1>2. ASSUME NEW l \in Leases, Save(l) PROVE Forward
  BY <1>2 DEF Save, Stored, Accepted
<1>3. ASSUME NEW l \in Leases, OwnStep(l), ~Save(l) PROVE Forward
  <2>1. UNCHANGED <<store, first, last>>
    BY <1>3
    DEF OwnStep, Work, Handler, Open, Load, Create, Consume, StartFails, ReceiveNext,
        ReceiveAgain, Receive, Saved, HandlerSucceeds, LoopEnds, FlushAfterFailure,
        TimedFlush, Finish, Fail, HandlerFails, Close, MessagesEnd, Crash
  <2>2. redeliveries' \in {redeliveries, redeliveries + 1}
    BY <1>3
    DEF OwnStep, Work, Handler, Open, Load, Create, Consume, StartFails, ReceiveNext,
        ReceiveAgain, Receive, Saved, HandlerSucceeds, LoopEnds, FlushAfterFailure,
        TimedFlush, Finish, Fail, HandlerFails, Close, MessagesEnd, Crash
  <2>3. \/ UNCHANGED handled
        \/ handled' = [handled EXCEPT ![l] = handled[l] \cup {current[l]}]
    BY <1>3
    DEF OwnStep, Work, Handler, Open, Load, Create, Consume, StartFails, ReceiveNext,
        ReceiveAgain, Receive, Saved, HandlerSucceeds, LoopEnds, FlushAfterFailure,
        TimedFlush, Finish, Fail, HandlerFails, Close, MessagesEnd, Crash
  <2>. QED
    BY <2>1, <2>2, <2>3
<1>. QED
  BY <1>1, <1>2, <1>3 DEF Next, StreamStep, OwnStep

-----------------------------------------------------------------------------
(***************************************************************************)
(* Every step keeps each lease in its place.                               *)
(***************************************************************************)
\* A step is one of a lease, and then the others stay, or all of them stay.
LEMMA OneMoves ==
    ASSUME TypeOK, Next
    PROVE  \/ StreamStep /\ \A k \in Leases : Stays(k)
           \/ \E l \in Leases : OwnStep(l) /\ \A k \in Leases \ {l} : Stays(k)
<1>1. CASE StreamStep
  BY <1>1 DEF StreamStep, Publish, Purge, Stays, WriterStays, leaseVars, writerVars, history
<1>2. CASE \E l \in Leases : OwnStep(l)
  BY <1>2, OthersStay
<1>. QED
  BY <1>1, <1>2 DEF Next, StreamStep, OwnStep

\* What TypeOK says of one lease.
LeaseTyped(l) ==
    /\ l \in DOMAIN pc /\ l \in DOMAIN position /\ l \in DOMAIN committed
    /\ l \in DOMAIN remaining /\ l \in DOMAIN current /\ l \in DOMAIN caughtUp
    /\ l \in DOMAIN handled /\ l \in DOMAIN replay /\ l \in DOMAIN pending
    /\ l \in DOMAIN unsaved /\ l \in DOMAIN timer /\ l \in DOMAIN saving
    /\ l \in DOMAIN saveFailed
    /\ position[l] \in Nat /\ committed[l] \in Nat /\ current[l] \in Nat
    /\ remaining[l] \in Nat /\ pending[l] \in Nat /\ unsaved[l] \in Nat
    /\ handled[l] \subseteq Sequences /\ replay[l] \subseteq Sequences
    /\ timer[l] \in BOOLEAN /\ saveFailed[l] \in BOOLEAN

LEMMA LeaseTypes ==
    ASSUME TypeOK
    PROVE  /\ \A l \in Leases : LeaseTyped(l)
           /\ first \in Nat \ {0} /\ last \in Nat /\ store \in Nat /\ origin \in Nat
           /\ redeliveries \in Nat /\ Sequences \subseteq Nat
  BY SettingsHold DEF TypeOK, LeaseTyped, Sequences

\* The next delivery is past the position of its lease.
LEMMA UpcomingIsNew ==
    ASSUME TypeOK, NEW l \in Leases
    PROVE  Upcoming(l) \in Nat /\ position[l] < Upcoming(l)
  BY LeaseTypes DEF Upcoming, LeaseTyped

LEMMA PlacedStep ==
    ASSUME TypeOK, Next, NEW l \in Leases, OwnStep(l), Placed(l)
    PROVE  Placed(l)'
<1>0. LeaseTyped(l) /\ store \in Nat /\ Sequences \subseteq Nat
  BY LeaseTypes
<1>. USE <1>0 DEF LeaseTyped, Placed, Before, Loop, Goto, writerVars, leaseVars, history
<1>1. CASE Open(l) \/ Consume(l) \/ StartFails(l)
  BY <1>1 DEF Open, Consume, StartFails
<1>2. CASE Load(l)
  BY <1>2 DEF Load
<1>3. CASE Create(l)
  <2>1. Start(l) \in Nat /\ committed[l] <= Start(l)
    BY LeaseTypes DEF Start
  <2>2. pc'[l] \in {"closed", "consuming"}
    BY <1>3 DEF Create
  <2>. QED
    BY <1>3, <2>1, <2>2 DEF Create
<1>4. ASSUME NEW m \in Nat \ {0}, Receive(l, m), position[l] < m \/ m \in handled[l]
      PROVE  Placed(l)'
  <2>1. /\ position'[l] = (IF m > position[l] THEN m ELSE position[l])
        /\ UNCHANGED <<committed, handled, pending, unsaved>>
    BY <1>4 DEF Receive
  <2>2. CASE UNCHANGED <<pc, current>> \/ pc'[l] = "failing"
    BY <1>4, <2>1, <2>2 DEF Receive
  <2>3. CASE pc'[l] = "handling" /\ current'[l] = m
    BY <1>4, <2>1, <2>3 DEF Receive
  <2>. QED
    BY <1>4, <2>2, <2>3 DEF Receive
<1>5. CASE ReceiveNext(l)
  BY <1>4, <1>5, UpcomingIsNew DEF ReceiveNext
<1>6. CASE ReceiveAgain(l)
  <2>1. \A m \in handled[l] : m \in Nat \ {0}
    BY DEF Sequences
  <2>. QED
    BY <1>4, <1>6, <2>1 DEF ReceiveAgain
<1>7. ASSUME Commit(l), pc[l] = "saving", UNCHANGED <<position, writerVars, handled>>
      PROVE  Placed(l)'
  BY <1>7 DEF Commit
<1>8. CASE Saved(l)
  BY <1>7, <1>8 DEF Saved
<1>9. CASE HandlerSucceeds(l)
  <2>1. /\ pc[l] = "handling" /\ handled'[l] = handled[l] \cup {current[l]}
        /\ UNCHANGED position
    BY <1>9 DEF HandlerSucceeds
  <2>2. CASE Goto(l, "failing") /\ UNCHANGED <<pending, unsaved>>
    BY <2>1, <2>2
  <2>3. CASE /\ \E c : Flushed(l, c, FALSE)
             /\ Goto(l, "saving") /\ UNCHANGED <<committed, current>>
    BY <2>1, <2>3 DEF Flushed
  <2>4. CASE /\ \/ UNCHANGED <<pending, unsaved>>
                \/ pending'[l] = current[l] /\ unsaved'[l] = unsaved[l] + 1
             /\ Commit(l)
    BY <2>1, <2>4 DEF Commit
  <2>. QED
    BY <1>9, <2>2, <2>3, <2>4 DEF HandlerSucceeds
<1>10. CASE LoopEnds(l) \/ FlushAfterFailure(l) \/ TimedFlush(l)
  BY <1>10 DEF LoopEnds, FlushAfterFailure, TimedFlush, Flushed
<1>11. CASE Save(l) \/ Finish(l) \/ HandlerFails(l)
  BY <1>11 DEF Save, Finish, HandlerFails
<1>12. CASE Fail(l) \/ Close(l) \/ MessagesEnd(l) \/ Crash(l)
  BY <1>12 DEF Fail, Close, MessagesEnd, Crash
<1>. QED
  BY <1>1, <1>2, <1>3, <1>5, <1>6, <1>8, <1>9, <1>10, <1>11, <1>12
  DEF OwnStep, Work, Handler

-----------------------------------------------------------------------------
(***************************************************************************)
(* A start is never behind retention nor before an earlier start, and      *)
(* retention that waits does not overtake a lease.                         *)
(***************************************************************************)
LEMMA StartIsCurrent ==
    ASSUME TypeOK, OriginBehind, NEW l \in Leases
    PROVE  /\ Start(l) \in Nat
           /\ first <= Start(l) + 1
           /\ committed[l] <= Start(l)
           /\ committed[l] = 0 => origin <= Start(l)
  BY LeaseTypes DEF LeaseTyped, Start, OriginBehind

LEMMA OriginStep ==
    ASSUME TypeOK, OriginBehind, Next
    PROVE  OriginBehind' /\ origin <= origin'
<1>. USE LeaseTypes, SettingsStay
<1>1. CASE StreamStep
  BY <1>1 DEF StreamStep, Publish, Purge, history, OriginBehind
<1>2. ASSUME NEW l \in Leases, Create(l) PROVE OriginBehind' /\ origin <= origin'
  <2>1. origin' = (IF committed[l] = 0 THEN Start(l) ELSE origin)
        /\ UNCHANGED <<options, first, last>>
    BY <1>2 DEF Create, streamVars
  <2>2. CASE committed[l] = 0
    BY <2>1, <2>2, StartIsCurrent DEF Start, OriginBehind
  <2>3. CASE committed[l] # 0
    BY <2>1, <2>3 DEF OriginBehind
  <2>. QED
    BY <2>2, <2>3
<1>3. ASSUME NEW l \in Leases, OwnStep(l), ~Create(l)
      PROVE  UNCHANGED <<options, first, last, origin>>
  BY <1>3
  DEF OwnStep, Work, Handler, Open, Load, Consume, StartFails, ReceiveNext, ReceiveAgain,
      Receive, Saved, HandlerSucceeds, LoopEnds, FlushAfterFailure, TimedFlush, Save, Finish,
      Fail, HandlerFails, Close, MessagesEnd, Crash, streamVars, history
<1>4. UNCHANGED <<options, first, last, origin>> => OriginBehind' /\ origin <= origin'
  BY DEF OriginBehind
<1>. QED
  BY <1>1, <1>2, <1>3, <1>4 DEF Next, StreamStep, OwnStep

LEMMA KeepsUpStep ==
    ASSUME TypeOK, OriginBehind, \A k \in Leases : KeepsUp(k), Next, NEW l \in Leases
    PROVE  KeepsUp(l)'
<1>. SUFFICES ASSUME ~LivePurge PROVE KeepsUp(l)'
  BY DEF KeepsUp
<1>0. LeaseTyped(l) /\ first \in Nat \ {0} /\ store \in Nat /\ options' = options
  BY LeaseTypes, SettingsStay
<1>. USE <1>0 DEF LeaseTyped, KeepsUp, Loop
<1>1. CASE Purge
  <2>1. pc'[l] \in {"idle", "loading"} \cup Over
    BY <1>1 DEF Purge, leaseVars
  <2>. QED
    BY <2>1 DEF Over
<1>2. CASE Publish
  BY <1>2 DEF Publish, leaseVars
<1>3. ASSUME NEW k \in Leases, OwnStep(k) PROVE first' = first
  BY <1>3
  DEF OwnStep, Work, Handler, Open, Load, Create, Consume, StartFails, ReceiveNext,
      ReceiveAgain, Receive, Saved, HandlerSucceeds, LoopEnds, FlushAfterFailure, TimedFlush,
      Save, Finish, Fail, HandlerFails, Close, MessagesEnd, Crash, streamVars
<1>4. ASSUME NEW k \in Leases, OwnStep(k), k # l PROVE KeepsUp(l)'
  BY <1>3, <1>4, OthersStay DEF Stays
<1>5. ASSUME pc'[l] \in Loop => pc[l] \in Loop, pc'[l] = "creating" => pc[l] = "creating",
             first' = first, committed'[l] = committed[l] \/ pc[l] # "creating",
             position'[l] \in Nat, position'[l] >= position[l]
      PROVE  KeepsUp(l)'
  BY <1>5
<1>6. CASE Load(l)
  <2>1. pc'[l] = "failing" \/ (pc'[l] = "creating" /\ ~Gap /\ committed'[l] = store)
    BY <1>6 DEF Load, Goto, Loaded
  <2>2. first' = first
    BY <1>6 DEF Load, streamVars
  <2>. QED
    BY <2>1, <2>2 DEF Gap, Loaded
<1>7. CASE Create(l)
  <2>1. /\ pc'[l] \in {"closed", "consuming"} /\ position'[l] = Start(l)
        /\ first' = first
    BY <1>7 DEF Create, Goto, streamVars
  <2>. QED
    BY <2>1, StartIsCurrent
<1>8. ASSUME NEW m \in Nat, Receive(l, m) PROVE KeepsUp(l)'
  <2>1. position'[l] \in Nat /\ position'[l] >= position[l]
    BY <1>8 DEF Receive
  <2>2. pc[l] = "receive" /\ pc'[l] # "creating" /\ UNCHANGED <<first, committed>>
    BY <1>8 DEF Receive, Goto
  <2>. QED
    BY <1>5, <2>1, <2>2
<1>9. CASE ReceiveNext(l) \/ ReceiveAgain(l)
  BY <1>8, <1>9, UpcomingIsNew, LeaseTypes DEF ReceiveNext, ReceiveAgain
<1>10. ASSUME OwnStep(l), ~Load(l), ~Create(l), ~ReceiveNext(l), ~ReceiveAgain(l)
       PROVE  /\ UNCHANGED position
              /\ pc'[l] \in Loop => pc[l] \in Loop
              /\ pc'[l] # "creating" \/ (pc[l] = "creating" /\ UNCHANGED committed)
  <2>1. UNCHANGED position
    BY <1>10
    DEF OwnStep, Work, Handler, Open, Consume, StartFails, Saved, HandlerSucceeds,
        LoopEnds, FlushAfterFailure, TimedFlush, Save, Finish, Fail, HandlerFails, Close,
        MessagesEnd, Crash, leaseVars
  <2>2. CASE \/ Open(l) \/ Consume(l) \/ StartFails(l) \/ LoopEnds(l) \/ Finish(l)
             \/ Fail(l) \/ HandlerFails(l) \/ Crash(l)
    BY <2>1, <2>2
    DEF Open, Consume, StartFails, LoopEnds, Finish, Fail, HandlerFails, Crash, Goto
  <2>3. CASE Saved(l) \/ HandlerSucceeds(l)
    BY <2>1, <2>3 DEF Saved, HandlerSucceeds, Commit, Goto
  <2>4. CASE FlushAfterFailure(l) \/ TimedFlush(l) \/ Save(l) \/ Close(l) \/ MessagesEnd(l)
    BY <2>1, <2>4
    DEF FlushAfterFailure, TimedFlush, Save, Close, MessagesEnd, leaseVars
  <2>. QED
    BY <1>10, <2>2, <2>3, <2>4 DEF OwnStep, Work, Handler
<1>11. ASSUME OwnStep(l) PROVE KeepsUp(l)'
  BY <1>3, <1>5, <1>6, <1>7, <1>9, <1>10, <1>11
<1>. QED
  BY <1>1, <1>2, <1>4, <1>11 DEF Next, OwnStep

-----------------------------------------------------------------------------
(***************************************************************************)
(* Every step keeps what is recorded covered.                              *)
(***************************************************************************)
\* Arithmetic of the sequences after a start.
LEMMA Above ==
    ASSUME NEW a \in Nat, NEW b \in Nat, a <= b, NEW n \in Nat, NEW m \in (b + 1) .. n
    PROVE  m \in Nat /\ m \in (a + 1) .. n /\ b + 1 <= m /\ m <= n
  OBVIOUS

\* What is covered stays covered.
Lasting ==
    /\ \A m \in Nat : Excused(m) => Excused(m)'
    /\ \A n \in Nat : Covered(n) => Covered(n)'
    /\ origin <= origin' /\ origin' \in Nat

LEMMA CoverageLasts ==
    ASSUME TypeOK, TypeOK', OriginBehind, Next
    PROVE  Lasting
<1>1. /\ origin <= origin' /\ first <= first' /\ options' = options
      /\ Handled \subseteq Handled'
  BY OriginStep, StoreMovesForward, SettingsStay DEF Forward, Handled
<1>0. origin \in Nat /\ first \in Nat /\ origin' \in Nat /\ first' \in Nat
  <2>1. MaxSequence \in Nat /\ MaxSequence' \in Nat
    BY SettingsHold, SettingsStay
  <2>. QED
    BY <2>1 DEF TypeOK
<1>2. \A m \in Nat : Excused(m) => Excused(m)'
  BY <1>0, <1>1 DEF Excused
<1>3. \A n \in Nat : Covered(n) => Covered(n)'
  <2>. SUFFICES ASSUME NEW n \in Nat, Covered(n), NEW m \in (origin' + 1) .. n
                PROVE  Excused(m)'
    BY DEF Covered
  <2>1. m \in Nat /\ m \in (origin + 1) .. n
    BY ONLY <1>0, <1>1, Above
  <2>. QED
    BY <1>2, <2>1 DEF Covered
<1>. QED
  BY <1>0, <1>1, <1>2, <1>3 DEF Lasting

\* What the writer saves are sequences of the stream.
LEMMA SavesAreSequences ==
    ASSUME TypeOK, NEW l \in Leases
    PROVE  \A i \in 1 .. Len(saving[l]) : saving[l][i].sequence \in Sequences
<1>. DEFINE R == [sequence : Sequences, timed : BOOLEAN]
<1>1. saving[l] \in Seq(R)
  BY DEF TypeOK
<1>2. \A i \in 1 .. Len(saving[l]) : saving[l][i] \in R
  <2>. HIDE DEF R
  <2>. QED
    BY <1>1
<1>. QED
  BY <1>2

\* What a lease has recorded are sequences of the stream, or 0.
LEMMA RecordsAreSequences ==
    ASSUME TypeOK, NEW l \in Leases
    PROVE  Recorded(l) \subseteq Nat
  BY LeaseTypes, SavesAreSequences DEF Recorded, LeaseTyped

\* A flush chains the checkpoint that is pending, if there is one.
LEMMA FlushRecords ==
    ASSUME TypeOK, NEW l \in Leases, NEW c, NEW t, Flushed(l, c, t), UNCHANGED committed
    PROVE  Recorded(l)' \subseteq Recorded(l) \cup {0, c}
<1>. DEFINE R    == [sequence : Sequences, timed : BOOLEAN]
            save == [sequence |-> c, timed |-> t]
            more == Append(saving[l], save)
<1>1. pending'[l] = 0 /\ (saving'[l] = saving[l] \/ saving'[l] = more)
  BY LeaseTypes DEF LeaseTyped, Flushed
<1>2. saving[l] \in Seq(R)
  BY DEF TypeOK
<1>3. \A i \in 1 .. Len(more) : (i \in 1 .. Len(saving[l]) /\ more[i] = saving[l][i])
                                \/ more[i] = save
  <2>. HIDE DEF R, save
  <2>. QED
    BY <1>2
<1>4. \A i \in 1 .. Len(more) : more[i].sequence \in Recorded(l) \cup {0, c}
  <2>. HIDE DEF more
  <2>. QED
    BY <1>3 DEF Recorded
<1>. HIDE DEF more
<1>. QED
  BY SMTT(30), <1>1, <1>4 DEF Recorded

\* A lease that records nothing new, and has passed nothing new, stays sound.
LEMMA SoundLasts ==
    ASSUME TypeOK, Lasting, NEW l \in Leases, Sound(l),
           NEW N, Recorded(l)' \subseteq Recorded(l) \cup N,
           \A n \in N : n \in Nat /\ Covered(n)'
    PROVE  \A n \in Recorded(l)' : Covered(n)'
  BY RecordsAreSequences DEF Sound, Lasting

\* In particular one that records nothing at all.
LEMMA OldRecordsLast ==
    ASSUME TypeOK, Lasting, NEW l \in Leases, Sound(l), Recorded(l)' \subseteq Recorded(l)
    PROVE  \A n \in Recorded(l)' : Covered(n)'
  BY RecordsAreSequences DEF Sound, Lasting

\* A lease that does not move stays sound.
LEMMA SoundStays ==
    ASSUME TypeOK, Lasting, NEW l \in Leases, Sound(l), Stays(l)
    PROVE  Sound(l)'
<1>1. Recorded(l)' = Recorded(l)
  BY DEF Stays, WriterStays, Recorded
<1>2. \A n \in Recorded(l)' : Covered(n)'
  BY <1>1, RecordsAreSequences DEF Sound, Lasting
<1>3. position[l] \in Nat /\ origin \in Nat
  BY LeaseTypes DEF LeaseTyped
<1>4. Passed(l)'
  BY <1>3 DEF Stays, Sound, Passed, Lasting
<1>. QED
  BY <1>2, <1>4 DEF Sound

\* A lease that moves records and passes only what it has handled, what the store
\* had, and what retention has taken.
LEMMA SoundSteps ==
    ASSUME TypeOK, TypeOK', Lasting, OriginBehind, ~Overtaken, Covered(store), Next,
           NEW l \in Leases, OwnStep(l), Placed(l), KeepsUp(l), Sound(l)
    PROVE  Sound(l)'
<1>0. /\ LeaseTyped(l) /\ origin \in Nat /\ origin' \in Nat /\ store \in Nat
      /\ first \in Nat /\ Sequences \subseteq Nat
  BY LeaseTypes DEF Lasting
<1>. USE <1>0 DEF LeaseTyped, Goto, writerVars, leaseVars, history
<1>z. 0 \in Nat /\ Covered(0)'
  BY DEF Covered
<1>a. ASSUME Recorded(l)' = Recorded(l) PROVE \A n \in Recorded(l)' : Covered(n)'
  BY <1>a, OldRecordsLast
<1>b. ASSUME pc'[l] \in Loop => pc[l] \in Loop /\ pc[l] # "handling",
             position'[l] = position[l]
      PROVE  Passed(l)'
  BY <1>b DEF Sound, Passed, Lasting
<1>c. ASSUME NEW n \in Nat, NEW x, Excused(x)',
             \A m \in (origin + 1) .. n : Excused(m) \/ m = x
      PROVE  Covered(n)'
  <2>. SUFFICES ASSUME NEW m \in (origin' + 1) .. n PROVE Excused(m)'
    BY DEF Covered
  <2>1. origin <= origin'
    BY DEF Lasting
  <2>2. m \in Nat /\ m \in (origin + 1) .. n
    BY ONLY <1>0, <1>c, <2>1, Above
  <2>. QED
    BY <1>c, <2>2 DEF Lasting
<1>d. ASSUME pc'[l] = pc[l], position'[l] = position[l], current'[l] = current[l]
      PROVE  Passed(l)'
  <2>. SUFFICES ASSUME pc[l] \in Loop, NEW m \in (origin' + 1) .. position[l]
                PROVE  Excused(m)' \/ (pc[l] = "handling" /\ m = current[l])
    BY <1>d DEF Passed
  <2>1. position[l] \in Nat /\ origin <= origin'
    BY DEF Lasting
  <2>0. origin \in Nat /\ origin' \in Nat
    BY ONLY <1>0
  <2>2. m \in Nat /\ m \in (origin + 1) .. position[l]
    BY ONLY <2>0, <2>1, Above
  <2>3. Excused(m) \/ (pc[l] = "handling" /\ m = current[l])
    BY <2>2 DEF Sound, Passed
  <2>. QED
    BY <2>2, <2>3 DEF Lasting
<1>1. CASE Open(l) \/ Consume(l) \/ StartFails(l) \/ HandlerFails(l) \/ Finish(l) \/ Fail(l)
  <2>1. Recorded(l)' = Recorded(l)
    BY SMTT(30), <1>1 DEF Open, Consume, StartFails, HandlerFails, Finish, Fail, Recorded
  <2>2. /\ pc'[l] \in Loop => pc[l] \in Loop /\ pc[l] # "handling"
        /\ position'[l] = position[l]
    BY <1>1 DEF Open, Consume, StartFails, HandlerFails, Finish, Fail, Loop, Over
  <2>. QED
    BY <1>a, <1>b, <2>1, <2>2 DEF Sound
<1>2. CASE Close(l) \/ MessagesEnd(l)
  <2>1. Recorded(l)' = Recorded(l)
    BY <1>2 DEF Close, MessagesEnd, Recorded
  <2>2. UNCHANGED <<pc, position, current>>
    BY <1>2 DEF Close, MessagesEnd
  <2>. QED
    BY <1>a, <1>d, <2>1, <2>2 DEF Sound
<1>3. CASE Load(l)
  <2>1. Recorded(l)' \subseteq Recorded(l) \cup {store}
    BY <1>3 DEF Load, Loaded, Recorded
  <2>2. Covered(store)'
    <3>1. \A n \in {store} : Covered(n)'
      BY DEF Lasting
    <3>. QED
      BY <1>3, <3>1 DEF Load, Covered
  <2>3. pc'[l] \notin Loop
    BY <1>3 DEF Load, Loop
  <2>4. \A n \in {store} : n \in Nat /\ Covered(n)'
    BY DEF Lasting
  <2>. QED
    BY <2>1, <2>3, <2>4, SoundLasts DEF Sound, Passed
<1>4. CASE Create(l)
  <2>1. Recorded(l)' = Recorded(l)
    BY <1>4 DEF Create, Recorded
  <2>2. position'[l] = Start(l) /\ first' = first /\ options' = options
        /\ origin' = (IF committed[l] = 0 THEN Start(l) ELSE origin)
        /\ pc[l] = "creating" /\ pc'[l] # "handling"
    BY <1>4 DEF Create, streamVars
  <2>3. ASSUME NEW m \in (origin' + 1) .. Start(l) PROVE Excused(m)'
    <3>1. m \in Nat /\ origin' + 1 <= m /\ m <= Start(l) /\ Start(l) \in Nat
      BY <2>3, StartIsCurrent
    <3>2. committed[l] # 0 /\ origin' = origin
      BY <2>2, <3>1
    <3>3. CASE m <= committed[l]
      <4>1. Covered(committed[l])
        BY DEF Sound, Recorded
      <4>. QED
        BY <3>1, <3>2, <3>3, <4>1 DEF Covered, Lasting
    <3>4. CASE m > committed[l]
      <4>1. committed[l] + 1 < first /\ m < first
        BY <3>1, <3>2, <3>4 DEF Start
      <4>2. options.retention = "continue"
        BY <2>2, <3>2, <4>1, SettingsHold DEF KeepsUp, Overtaken
      <4>. QED
        BY <2>2, <4>1, <4>2 DEF Excused
    <3>. QED
      BY <3>1, <3>3, <3>4
  <2>4. Passed(l)'
    BY <2>2, <2>3 DEF Passed
  <2>. QED
    BY <1>a, <2>1, <2>4 DEF Sound
<1>5. ASSUME NEW m \in Nat, Receive(l, m), m = Upcoming(l) \/ m \in handled[l]
      PROVE  Sound(l)'
  <2>1. Recorded(l)' = Recorded(l)
    BY <1>5 DEF Receive, Recorded
  <2>2. /\ pc[l] = "receive" /\ committed[l] <= position[l] /\ UNCHANGED <<first, options>>
        /\ position'[l] = (IF m > position[l] THEN m ELSE position[l])
    BY <1>5 DEF Receive, Placed, Loop
  <2>3. m \in handled[l] => m <= position[l]
    BY <2>2 DEF Placed
  <2>4. CASE pc'[l] # "receive" /\ pc'[l] # "handling"
    BY <1>5, <1>a, <2>1, <2>4 DEF Receive, Sound, Passed, Loop
  <2>5. CASE pc'[l] = "receive"
    <3>1. m <= committed[l]
      BY <1>5, <2>5 DEF Receive, Duplicate
    <3>2. position'[l] = position[l]
      BY <2>2, <3>1
    <3>. QED
      BY <1>a, <1>b, <2>1, <2>2, <3>2 DEF Sound, Loop
  <2>6. CASE pc'[l] = "handling"
    <3>1. current'[l] = m
      BY <1>5, <2>6 DEF Receive
    <3>2. ASSUME NEW x \in (origin' + 1) .. position'[l] PROVE Excused(x)' \/ x = m
      <4>1. x \in Nat /\ origin + 1 <= x /\ x <= position'[l]
        BY <2>2 DEF Lasting
      <4>2. CASE x <= position[l]
        BY <2>2, <4>1, <4>2 DEF Sound, Passed, Loop, Lasting
      <4>3. CASE x > position[l]
        <5>1. m = Upcoming(l) /\ x <= m
          BY <1>5, <2>2, <2>3, <4>1, <4>3
        <5>2. CASE position[l] + 1 < first
          <6>1. options.retention = "continue"
            BY <2>2, <5>2, SettingsHold DEF KeepsUp, Overtaken, Loop
          <6>2. x = m \/ x < first
            BY <4>1, <5>1, <5>2 DEF Upcoming
          <6>. QED
            BY <2>2, <6>1, <6>2 DEF Excused
        <5>3. CASE ~(position[l] + 1 < first)
          BY <4>1, <4>3, <5>1, <5>3 DEF Upcoming
        <5>. QED
          BY <5>2, <5>3
      <4>. QED
        BY <4>1, <4>2, <4>3
    <3>3. Passed(l)'
      BY <2>6, <3>1, <3>2 DEF Passed
    <3>. QED
      BY <1>a, <2>1, <3>3 DEF Sound
  <2>. QED
    BY <2>4, <2>5, <2>6
<1>6. CASE ReceiveNext(l)
  BY <1>5, <1>6, UpcomingIsNew DEF ReceiveNext
<1>7. CASE ReceiveAgain(l)
  BY <1>5, <1>7 DEF ReceiveAgain
<1>8. CASE HandlerSucceeds(l)
  <2>1. /\ pc[l] = "handling" /\ handled'[l] = handled[l] \cup {current[l]}
        /\ current[l] \in 1 .. position[l] /\ UNCHANGED position
    BY <1>8 DEF HandlerSucceeds, Placed
  <2>2. PICK x : x = current[l]
    OBVIOUS
  <2>3. Excused(x)' /\ x \in Nat /\ x <= position[l]
    BY <2>1, <2>2 DEF Excused, Handled
  <2>4. \A m \in (origin + 1) .. position[l] : Excused(m) \/ m = x
    BY <2>1, <2>2 DEF Sound, Passed, Loop
  <2>5. Covered(x)'
    BY <1>c, <2>3, <2>4
  <2>6. Passed(l)'
    <3>1. \A n \in {position[l]} : Covered(n)'
      BY <1>c, <2>3, <2>4
    <3>. QED
      BY <2>1, <3>1 DEF Passed, Covered
  <2>7. Recorded(l)' \subseteq Recorded(l) \cup {0, x}
    <3>1. CASE UNCHANGED <<committed, pending, saving>>
      BY <3>1 DEF Recorded
    <3>2. CASE /\ UNCHANGED committed
               /\ \/ Flushed(l, current[l], FALSE)
                  \/ Flushed(l, pending[l], FALSE)
      <4>1. pending[l] \in Recorded(l)
        BY DEF Recorded
      <4>2. Recorded(l)' \subseteq Recorded(l) \cup {0, current[l], pending[l]}
        BY <3>2, FlushRecords
      <4>. QED
        BY <2>2, <4>1, <4>2
    <3>3. CASE /\ committed'[l] \in {committed[l], current[l]} /\ UNCHANGED saving
               /\ pending'[l] \in {pending[l], current[l]}
      BY <2>2, <3>3 DEF Recorded
    <3>. QED
      BY <1>8, <3>1, <3>2, <3>3 DEF HandlerSucceeds, Commit
  <2>. QED
    BY <1>z, <2>3, <2>5, <2>6, <2>7, SoundLasts DEF Sound
<1>9. CASE Saved(l)
  <2>1. Recorded(l)' \subseteq Recorded(l) \cup {current[l]}
    BY <1>9 DEF Saved, Commit, Recorded
  <2>2. pc[l] = "saving" /\ UNCHANGED position /\ current[l] \in 1 .. position[l]
    BY <1>9 DEF Saved, Placed
  <2>3. \A n \in {current[l]} : n \in Nat /\ Covered(n)'
    BY <2>2 DEF Sound, Passed, Loop, Covered, Lasting
  <2>. QED
    BY <1>b, <2>1, <2>2, <2>3, SoundLasts DEF Sound, Loop
<1>10. CASE LoopEnds(l) \/ FlushAfterFailure(l) \/ TimedFlush(l)
  <2>1. Recorded(l)' \subseteq Recorded(l) \cup {0}
    BY <1>10, FlushRecords DEF LoopEnds, FlushAfterFailure, TimedFlush, Recorded
  <2>2. \A n \in {0} : n \in Nat /\ Covered(n)'
    BY <1>z
  <2>3. Passed(l)'
    <3>1. CASE LoopEnds(l)
      BY <3>1 DEF LoopEnds, Passed, Loop
    <3>2. CASE FlushAfterFailure(l) \/ TimedFlush(l)
      BY <1>d, <3>2 DEF FlushAfterFailure, TimedFlush
    <3>. QED
      BY <1>10, <3>1, <3>2
  <2>. QED
    BY <2>1, <2>2, <2>3, SoundLasts DEF Sound
<1>11. CASE Save(l)
  <2>. DEFINE R == [sequence : Sequences, timed : BOOLEAN]
  <2>1. saving[l] \in Seq(R) /\ saving[l] # <<>> /\ saving'[l] = Tail(saving[l])
    BY <1>11 DEF Save, TypeOK
  <2>2. \A i \in 1 .. Len(saving'[l]) :
            i + 1 \in 1 .. Len(saving[l]) /\ saving'[l][i] = saving[l][i + 1]
    <3>. HIDE DEF R
    <3>. QED
      BY <2>1
  <2>3. UNCHANGED <<committed, pending, pc, position, current>>
    BY <1>11 DEF Save
  <2>4. Recorded(l)' \subseteq Recorded(l)
    BY <2>2, <2>3 DEF Recorded
  <2>. QED
    BY <1>d, <2>3, <2>4, OldRecordsLast DEF Sound
<1>12. CASE Crash(l)
  <2>1. Recorded(l)' \subseteq Recorded(l) /\ pc'[l] \notin Loop
    BY <1>12 DEF Crash, Recorded, Loop
  <2>. QED
    BY <2>1, OldRecordsLast DEF Sound, Passed
<1>. QED
  BY <1>1, <1>2, <1>3, <1>4, <1>6, <1>7, <1>8, <1>9, <1>10, <1>11, <1>12
  DEF OwnStep, Work, Handler

LEMMA CompleteStep ==
    ASSUME ConsumerIInv, TypeOK', Next
    PROVE  Complete'
<1>. SUFFICES ASSUME ~Overtaken
              PROVE  Covered(store)' /\ \A l \in Leases : Sound(l)'
  BY SettingsStay DEF Complete
<1>1. /\ TypeOK /\ OriginBehind /\ Covered(store)
      /\ \A l \in Leases : Sound(l) /\ Placed(l) /\ KeepsUp(l)
  BY DEF ConsumerIInv, Complete
<1>2. Lasting
  BY <1>1, CoverageLasts
<1>3. \A l \in Leases : Sound(l)'
  BY <1>1, <1>2, OneMoves, SoundStays, SoundSteps
<1>4. store' = store \/ \E l \in Leases : store' \in Recorded(l)
  <2>1. CASE StreamStep
    BY <2>1 DEF StreamStep, Publish, Purge
  <2>2. ASSUME NEW l \in Leases, Save(l) PROVE store' = store \/ store' \in Recorded(l)
    <3>1. saving[l] \in Seq([sequence : Sequences, timed : BOOLEAN]) /\ saving[l] # <<>>
      BY <1>1, <2>2 DEF TypeOK, Save
    <3>2. Head(saving[l]) = saving[l][1] /\ 1 \in 1 .. Len(saving[l])
      BY <3>1
    <3>. QED
      BY <2>2, <3>2 DEF Save, Stored, Recorded
  <2>3. ASSUME NEW l \in Leases, OwnStep(l), ~Save(l) PROVE store' = store
    BY <2>3
    DEF OwnStep, Work, Handler, Open, Load, Create, Consume, StartFails, ReceiveNext,
        ReceiveAgain, Receive, Saved, HandlerSucceeds, LoopEnds, FlushAfterFailure,
        TimedFlush, Finish, Fail, HandlerFails, Close, MessagesEnd, Crash
  <2>. QED
    BY <2>1, <2>2, <2>3 DEF Next, StreamStep, OwnStep
<1>5. Covered(store)'
  <2>1. PICK n : n = store'
    OBVIOUS
  <2>2. n \in Nat /\ Covered(n)
    BY <1>1, <1>4, <2>1, LeaseTypes, RecordsAreSequences DEF Sound
  <2>. QED
    BY <1>2, <2>1, <2>2 DEF Lasting, Covered
<1>. QED
  BY <1>3, <1>5

-----------------------------------------------------------------------------
(***************************************************************************)
(* Every step keeps the redelivery window.                                 *)
(***************************************************************************)
\* Few more: a set within another and one more element.
LEMMA OneMore ==
    ASSUME NEW S, IsFiniteSet(S), NEW x, NEW T, T \subseteq S \cup {x}
    PROVE  /\ IsFiniteSet(T) /\ Cardinality(T) \in Nat /\ Cardinality(S) \in Nat
           /\ Cardinality(T) <= Cardinality(S) + 1
<1>1. /\ IsFiniteSet(S \cup {x})
      /\ Cardinality(S \cup {x}) = IF x \in S THEN Cardinality(S) ELSE Cardinality(S) + 1
  BY FS_AddElement
<1>2. IsFiniteSet(T) /\ Cardinality(T) <= Cardinality(S \cup {x})
  BY <1>1, FS_Subset
<1>3. Cardinality(S) \in Nat /\ Cardinality(T) \in Nat
  BY <1>2, FS_CardinalityType
<1>. QED
  BY <1>1, <1>2, <1>3

\* What has been handled is finite.
LEMMA UnsafeIsFinite ==
    ASSUME TypeOK, NEW l \in Leases
    PROVE  IsFiniteSet(Unsafe(l)) /\ Cardinality(Unsafe(l)) \in Nat
<1>1. IsFiniteSet(Sequences)
  <2>1. 1 \in Int /\ MaxSequence \in Int
    BY SettingsHold
  <2>. QED
    BY <2>1, FS_Interval DEF Sequences
<1>2. Unsafe(l) \subseteq Sequences
  BY LeaseTypes DEF Unsafe, LeaseTyped
<1>3. IsFiniteSet(Unsafe(l))
  BY <1>1, <1>2, FS_Subset
<1>. QED
  BY <1>3, FS_CardinalityType

\* Handling one message adds at most that one; a save only takes away.
LEMMA UnsafeGrows ==
    ASSUME TypeOK, Forward, store' \in Nat, NEW l \in Leases,
           NEW x, handled'[l] \subseteq handled[l] \cup {x}
    PROVE  /\ Unsafe(l)' \subseteq Unsafe(l) \cup {x}
           /\ Cardinality(Unsafe(l)') \in Nat /\ Cardinality(Unsafe(l)) \in Nat
           /\ Cardinality(Unsafe(l)') <= Cardinality(Unsafe(l)) + 1
<1>1. store \in Nat /\ store <= store'
  BY LeaseTypes DEF Forward
<1>2. handled[l] \subseteq Nat
  BY LeaseTypes DEF LeaseTyped
<1>3. Unsafe(l)' \subseteq Unsafe(l) \cup {x}
  BY <1>1, <1>2 DEF Unsafe
<1>. QED
  BY <1>3, UnsafeIsFinite, OneMore

LEMMA UnsafeShrinks ==
    ASSUME TypeOK, Forward, store' \in Nat, NEW l \in Leases, handled'[l] \subseteq handled[l]
    PROVE  /\ Unsafe(l)' \subseteq Unsafe(l)
           /\ Cardinality(Unsafe(l)') \in Nat /\ Cardinality(Unsafe(l)) \in Nat
           /\ Cardinality(Unsafe(l)') <= Cardinality(Unsafe(l))
<1>1. store \in Nat /\ store <= store'
  BY LeaseTypes DEF Forward
<1>2. handled[l] \subseteq Nat
  BY LeaseTypes DEF LeaseTyped
<1>3. Unsafe(l)' \subseteq Unsafe(l)
  BY <1>1, <1>2 DEF Unsafe
<1>4. IsFiniteSet(Unsafe(l)')
  BY <1>3, UnsafeIsFinite, FS_Subset
<1>. QED
  BY <1>3, <1>4, UnsafeIsFinite, FS_Subset, FS_CardinalityType

\* A lease that handles nothing, records nothing, and neither starts to count nor
\* to save keeps its window.
LEMMA CountedLasts ==
    ASSUME TypeOK, Forward, store' \in Nat, NEW l \in Leases, Counted(l), Window' = Window,
           WriterStays(l), handled'[l] \subseteq handled[l],
           \/ pc'[l] = pc[l] /\ current'[l] = current[l] /\ committed'[l] = committed[l]
              /\ handled'[l] = handled[l]
           \/ pc'[l] # "saving" /\ (pc'[l] \in Counting => pc[l] \in Counting)
              /\ (pc'[l] = "handling" =>
                     current'[l] \in handled'[l] \/ committed'[l] < current'[l])
    PROVE  Counted(l)'
<1>. DEFINE cards  == Cardinality(Unsafe(l))
            cards2 == Cardinality(Unsafe(l)')
<1>1. /\ Unsafe(l)' \subseteq Unsafe(l)
      /\ cards \in Nat /\ cards2 \in Nat /\ cards2 <= cards
  BY UnsafeShrinks
<1>2. unsaved[l] \in Nat /\ Window \in Nat
  BY LeaseTypes, SettingsHold DEF LeaseTyped
<1>3. cards2 <= IF pc'[l] \in Counting THEN unsaved[l] ELSE Window
  BY <1>1, <1>2 DEF Counted
<1>4. /\ ~timer'[l] /\ unsaved'[l] < Window'
      /\ pc'[l] = "handling" => current'[l] \in handled'[l] \/ committed'[l] < current'[l]
      /\ pc'[l] \in Counting => saving'[l] = <<>> /\ ~saveFailed'[l]
      /\ pc'[l] = "saving" => unsaved'[l] = 0
  BY DEF Counted, WriterStays
<1>5. pc'[l] \in Counting => \A m \in Unsafe(l)' : m <= pending'[l]
  BY <1>1 DEF Counted, WriterStays
<1>6. pc'[l] = "saving" /\ ~saveFailed'[l] =>
          \/ saving'[l] = <<>> /\ Unsafe(l)' = {}
          \/ Len(saving'[l]) = 1 /\ \A m \in Unsafe(l)' : m <= saving'[l][1].sequence
  BY <1>1 DEF Counted, WriterStays
<1>7. Cardinality(Unsafe(l)') <= IF pc'[l] \in Counting THEN unsaved'[l] ELSE Window'
  BY <1>3 DEF WriterStays
<1>. HIDE DEF cards, cards2
<1>. QED
  BY <1>4, <1>5, <1>6, <1>7 DEF Counted, Counting, Before

\* A lease that has stopped counting keeps the window it had.
LEMMA WindowLasts ==
    ASSUME TypeOK, Forward, store' \in Nat, NEW l \in Leases, Counted(l), Window' = Window,
           handled'[l] \subseteq handled[l], pc'[l] \notin Counting, pc'[l] # "saving",
           ~timer'[l], unsaved'[l] < Window
    PROVE  Counted(l)'
<1>1. /\ Cardinality(Unsafe(l)) \in Nat /\ Cardinality(Unsafe(l)') \in Nat
      /\ Cardinality(Unsafe(l)') <= Cardinality(Unsafe(l))
  BY UnsafeShrinks
<1>2. unsaved[l] \in Nat /\ Window \in Nat
  BY LeaseTypes, SettingsHold DEF LeaseTyped
<1>3. Cardinality(Unsafe(l)) <= Window
  BY <1>1, <1>2 DEF Counted
<1>4. pc'[l] \notin {"handling", "saving"}
  BY DEF Counting
<1>5. Cardinality(Unsafe(l)') <= Window'
  BY <1>1, <1>2, <1>3
<1>. QED
  BY <1>4, <1>5 DEF Counted, Counting, Before

\* A flush of a lease without saves under way chains the one checkpoint.
LEMMA FlushChains ==
    ASSUME TypeOK, NEW l \in Leases, NEW c \in Nat, NEW t, Flushed(l, c, t)
    PROVE  /\ ~timer'[l] /\ pending'[l] = 0 /\ unsaved'[l] = 0
           /\ c = 0 => saving'[l] = saving[l]
           /\ c # 0 /\ saving[l] = <<>> =>
                 Len(saving'[l]) = 1 /\ saving'[l][1].sequence = c
<1>. USE LeaseTypes DEF LeaseTyped, Flushed
<1>1. ~timer'[l] /\ pending'[l] = 0 /\ unsaved'[l] = 0
  OBVIOUS
<1>2. c = 0 => saving'[l] = saving[l]
  OBVIOUS
<1>3. c # 0 => saving'[l] = Append(saving[l], [sequence |-> c, timed |-> t])
  OBVIOUS
<1>4. ASSUME NEW r PROVE Append(<<>>, r) = <<r>> /\ Len(<<r>>) = 1 /\ <<r>>[1] = r
  OBVIOUS
<1>5. ASSUME c # 0, saving[l] = <<>>
      PROVE  Len(saving'[l]) = 1 /\ saving'[l][1].sequence = c
  <2>. DEFINE r == [sequence |-> c, timed |-> t]
  <2>1. saving'[l] = Append(<<>>, r) /\ r.sequence = c
    BY <1>3, <1>5
  <2>. HIDE DEF r
  <2>2. Append(<<>>, r) = <<r>> /\ Len(<<r>>) = 1 /\ <<r>>[1] = r
    BY <1>4
  <2>3. Len(saving'[l]) = 1 /\ saving'[l][1] = r
    BY ONLY <2>1, <2>2
  <2>. QED
    BY <2>1, <2>3
<1>. QED
  BY <1>1, <1>2, <1>5

\* Handling a message fills the window by one, and a flush that is due empties the
\* writer.
LEMMA HandlingCounts ==
    ASSUME TypeOK, Forward, store' \in Nat, NEW l \in Leases, Placed(l), Counted(l),
           Window' = Window, ~options.timed, HandlerSucceeds(l)
    PROVE  Counted(l)'
<1>0. /\ LeaseTyped(l) /\ Sequences \subseteq Nat /\ Window \in Nat \ {0}
      /\ options.maxItems \in Nat
  BY LeaseTypes, SettingsHold
<1>1. /\ pc[l] = "handling" /\ handled'[l] = handled[l] \cup {current[l]}
      /\ current[l] \in Nat \ {0}
      /\ \A m \in handled[l] : m \in Nat /\ m <= committed[l]
      /\ committed[l] \in Nat /\ pending[l] \in Nat /\ unsaved[l] \in Nat
  <2>1. pc[l] = "handling" /\ handled'[l] = handled[l] \cup {current[l]}
    BY <1>0 DEF HandlerSucceeds, LeaseTyped
  <2>2. position[l] \in Nat /\ current[l] \in 1 .. position[l]
    BY <1>0, <2>1 DEF LeaseTyped, Placed
  <2>3. \A m \in handled[l] : m \in Nat /\ m <= committed[l]
    BY <1>0, <2>1 DEF LeaseTyped, Placed
  <2>. QED
    BY <1>0, <2>1, <2>2, <2>3 DEF LeaseTyped
<1>2. /\ ~timer[l] /\ unsaved[l] < Window /\ saving[l] = <<>> /\ ~saveFailed[l]
      /\ \A m \in Unsafe(l) : m <= pending[l]
      /\ current[l] \in handled[l] \/ committed[l] < current[l]
      /\ Cardinality(Unsafe(l)) <= unsaved[l]
  BY <1>1 DEF Counted, Counting
<1>3. /\ Unsafe(l)' \subseteq Unsafe(l) \cup {current[l]}
      /\ Cardinality(Unsafe(l)') \in Nat /\ Cardinality(Unsafe(l)) \in Nat
      /\ Cardinality(Unsafe(l)') <= Cardinality(Unsafe(l)) + 1
  BY <1>1, UnsafeGrows
<1>4. CASE Duplicate(l, current[l])
  <2>1. current[l] \in handled[l]
    BY <1>0, <1>1, <1>2, <1>4 DEF Duplicate
  <2>2. handled'[l] \subseteq handled[l]
    BY <1>1, <2>1
  <2>3. Unsafe(l)' \subseteq Unsafe(l) /\ Cardinality(Unsafe(l)') <= Cardinality(Unsafe(l))
    BY <2>2, UnsafeShrinks
  <2>4. CASE /\ Flushed(l, pending[l], FALSE) /\ pc'[l] = "saving"
    <3>1. /\ ~timer'[l] /\ unsaved'[l] = 0
          /\ pending[l] = 0 => saving'[l] = <<>>
          /\ pending[l] # 0 => Len(saving'[l]) = 1 /\ saving'[l][1].sequence = pending[l]
      BY <1>1, <1>2, <2>4, FlushChains
    <3>2. pending[l] = 0 => Unsafe(l)' = {}
      <4>1. pending[l] = 0 => unsaved[l] = 0
        BY DEF Placed
      <4>2. pending[l] = 0 => Cardinality(Unsafe(l)) = 0
        BY <1>2, <1>3, <4>1
      <4>3. pending[l] = 0 => Unsafe(l) = {}
        BY <4>2, UnsafeIsFinite, FS_EmptySet
      <4>. QED
        BY <2>3, <4>3
    <3>3. Cardinality(Unsafe(l)') <= Window'
      BY <1>0, <1>1, <1>2, <1>3, <2>3
    <3>4. pc'[l] \notin Counting /\ pc'[l] # "handling" /\ unsaved'[l] < Window'
      BY <1>0, <2>4, <3>1 DEF Counting, Before
    <3>5. \/ saving'[l] = <<>> /\ Unsafe(l)' = {}
          \/ Len(saving'[l]) = 1 /\ \A m \in Unsafe(l)' : m <= saving'[l][1].sequence
      <4>1. CASE pending[l] = 0
        BY <3>1, <3>2, <4>1
      <4>2. CASE pending[l] # 0
        BY <1>2, <2>3, <3>1, <4>2
      <4>. QED
        BY <4>1, <4>2
    <3>. QED
      BY <3>1, <3>3, <3>4, <3>5 DEF Counted
  <2>5. CASE /\ UNCHANGED <<pending, unsaved, timer, saving, saveFailed>>
             /\ pc'[l] = "receive"
    <3>1. WriterStays(l)
      BY <2>5 DEF WriterStays
    <3>. QED
      BY <1>1, <2>2, <2>5, <3>1, CountedLasts DEF Counting
  <2>. QED
    BY <1>0, <1>2, <1>4, <2>4, <2>5 DEF HandlerSucceeds, Goto, Commit, LeaseTyped
<1>5. CASE ~Duplicate(l, current[l])
  <2>1. committed[l] < current[l] /\ \A m \in handled'[l] : m <= current[l]
    BY <1>0, <1>1, <1>5 DEF Duplicate
  <2>2. \A m \in Unsafe(l)' : m <= current[l]
    BY <2>1 DEF Unsafe
  <2>3. CASE /\ Flushed(l, current[l], FALSE) /\ pc'[l] = "saving"
    <3>1. /\ ~timer'[l] /\ unsaved'[l] = 0
          /\ Len(saving'[l]) = 1 /\ saving'[l][1].sequence = current[l]
      BY <1>1, <1>2, <2>3, FlushChains
    <3>2. Cardinality(Unsafe(l)') <= Window'
      BY <1>0, <1>1, <1>2, <1>3
    <3>3. pc'[l] \notin Counting /\ pc'[l] # "handling" /\ unsaved'[l] < Window'
      BY <1>0, <2>3, <3>1 DEF Counting, Before
    <3>4. Len(saving'[l]) = 1 /\ \A m \in Unsafe(l)' : m <= saving'[l][1].sequence
      BY <2>2, <3>1
    <3>. QED
      BY <3>1, <3>2, <3>3, <3>4 DEF Counted
  <2>4. CASE /\ ~FlushDue(l, Duplicate(l, current[l]))
             /\ pending'[l] = current[l] /\ unsaved'[l] = unsaved[l] + 1
             /\ timer'[l] = options.timed
             /\ UNCHANGED <<saving, saveFailed>> /\ pc'[l] = "receive"
    <3>1. unsaved[l] + 1 < Window
      BY <1>0, <1>1, <1>5, <2>4 DEF FlushDue, Coalescing, Window
    <3>2. Cardinality(Unsafe(l)') <= unsaved'[l]
      BY <1>1, <1>2, <1>3, <2>4
    <3>3. ~timer'[l] /\ unsaved'[l] < Window' /\ saving'[l] = <<>> /\ ~saveFailed'[l]
      BY <1>2, <2>4, <3>1
    <3>4. \A m \in Unsafe(l)' : m <= pending'[l]
      BY <2>2, <2>4
    <3>. QED
      BY <2>4, <3>2, <3>3, <3>4 DEF Counted, Counting
  <2>. QED
    BY <1>0, <1>2, <1>5, <2>3, <2>4 DEF HandlerSucceeds, Goto, Commit, LeaseTyped
<1>. QED
  BY <1>4, <1>5

\* A save that succeeds empties the window of a lease that waits for it.
LEMMA SavingCounts ==
    ASSUME TypeOK, Forward, store' \in Nat, NEW l \in Leases, Counted(l), Window' = Window,
           Save(l)
    PROVE  Counted(l)'
<1>1. /\ LeaseTyped(l) /\ Window \in Nat \ {0} /\ store \in Nat
  BY LeaseTypes, SettingsHold
<1>2. /\ pc'[l] = pc[l] /\ current'[l] = current[l] /\ committed'[l] = committed[l]
      /\ handled'[l] = handled[l] /\ pending'[l] = pending[l]
      /\ unsaved'[l] = unsaved[l] /\ timer'[l] = timer[l]
      /\ saving[l] # <<>> /\ saving'[l] = Tail(saving[l])
  BY <1>1 DEF Save, history, LeaseTyped
<1>3. pc[l] \notin Counting /\ pc[l] # "handling"
  BY <1>2 DEF Counted, Counting
<1>4. CASE pc[l] # "saving"
  BY <1>2, <1>3, <1>4, WindowLasts DEF Counted
<1>5. CASE pc[l] = "saving"
  <2>1. /\ Cardinality(Unsafe(l)) \in Nat /\ Cardinality(Unsafe(l)') \in Nat
        /\ Cardinality(Unsafe(l)') <= Cardinality(Unsafe(l))
    BY <1>2, UnsafeShrinks
  <2>2. Cardinality(Unsafe(l)') <= Window'
    BY <1>1, <1>3, <2>1 DEF Counted
  <2>3. ASSUME ~saveFailed'[l]
        PROVE  saving'[l] = <<>> /\ Unsafe(l)' = {}
    <3>. DEFINE R == [sequence : Sequences, timed : BOOLEAN]
    <3>1. ~saveFailed[l] /\ store' = Head(saving[l]).sequence
      BY <1>1, <2>3 DEF Save, Stored, LeaseTyped
    <3>2. Len(saving[l]) = 1 /\ \A m \in Unsafe(l) : m <= saving[l][1].sequence
      BY <1>2, <1>5, <3>1 DEF Counted
    <3>3. saving[l] \in Seq(R)
      BY DEF TypeOK
    <3>4. Head(saving[l]) = saving[l][1] /\ Tail(saving[l]) = <<>>
      <4>. HIDE DEF R
      <4>1. Head(saving[l]) = saving[l][1]
        BY <1>2, <3>3
      <4>2. Tail(saving[l]) \in Seq(R)
        BY <1>2, <3>3
      <4>3. Len(Tail(saving[l])) = 0
        BY <1>2, <3>2, <3>3
      <4>4. Tail(saving[l]) = <<>>
        BY ONLY <4>2, <4>3, EmptySeq
      <4>. QED
        BY <4>1, <4>4
    <3>5. \A m \in handled[l] : m \in Nat /\ m <= store'
      <4>1. \A m \in handled[l] : m \in Nat
        BY <1>1, LeaseTypes DEF LeaseTyped
      <4>2. store <= store'
        BY DEF Forward
      <4>. QED
        BY <1>1, <3>1, <3>2, <3>4, <4>1, <4>2 DEF Unsafe
    <3>. QED
      BY <1>2, <3>4, <3>5 DEF Unsafe
  <2>. QED
    BY <1>2, <1>3, <1>5, <2>2, <2>3 DEF Counted
<1>. QED
  BY <1>4, <1>5

LEMMA CountedSteps ==
    ASSUME TypeOK, Forward, store' \in Nat, NEW l \in Leases, Placed(l), Counted(l),
           Window' = Window, ~options.timed, OwnStep(l)
    PROVE  Counted(l)'
<1>0. LeaseTyped(l) /\ store \in Nat /\ Window \in Nat \ {0}
  BY LeaseTypes, SettingsHold
<1>. USE <1>0 DEF LeaseTyped, Goto, writerVars, leaseVars, history
<1>1. CASE \/ Open(l) \/ Load(l) \/ Create(l) \/ Consume(l) \/ StartFails(l)
           \/ HandlerFails(l) \/ Finish(l) \/ Fail(l)
  <2>1. WriterStays(l) /\ UNCHANGED handled
    BY <1>1 DEF Open, Load, Create, Consume, StartFails, HandlerFails, Finish, Fail,
       WriterStays
  <2>2. /\ pc'[l] \notin {"handling", "saving"}
        /\ pc'[l] \in Counting => pc[l] \in Counting
    BY <1>1 DEF Open, Load, Create, Consume, StartFails, HandlerFails, Finish, Fail,
       Counting, Before
  <2>. QED
    BY <2>1, <2>2, CountedLasts
<1>2. CASE Close(l) \/ MessagesEnd(l)
  <2>1. WriterStays(l) /\ UNCHANGED <<handled, pc, current, committed>>
    BY <1>2 DEF Close, MessagesEnd, WriterStays
  <2>. QED
    BY <2>1, CountedLasts
<1>3. ASSUME NEW m \in Nat, Receive(l, m), position[l] < m \/ m \in handled[l]
      PROVE  Counted(l)'
  <2>1. WriterStays(l) /\ UNCHANGED <<handled, committed>> /\ pc[l] = "receive"
    BY <1>3 DEF Receive, WriterStays
  <2>2. pc'[l] = "receive" \/ pc'[l] = "failing" \/ (pc'[l] = "handling" /\ current'[l] = m)
    BY <1>3 DEF Receive
  <2>3. m \in handled[l] \/ committed[l] < m
    BY <1>3, <2>1 DEF Placed, Loop
  <2>. QED
    BY <2>1, <2>2, <2>3, CountedLasts DEF Counting
<1>4. CASE ReceiveNext(l)
  BY <1>3, <1>4, UpcomingIsNew DEF ReceiveNext
<1>5. CASE ReceiveAgain(l)
  <2>1. \A m \in handled[l] : m \in Nat
    BY LeaseTypes
  <2>. QED
    BY <1>3, <1>5, <2>1 DEF ReceiveAgain
<1>6. CASE HandlerSucceeds(l)
  BY <1>6, HandlingCounts
<1>7. CASE Saved(l)
  <2>1. /\ WriterStays(l) /\ UNCHANGED handled /\ pc[l] = "saving" /\ saving[l] = <<>>
        /\ \/ saveFailed[l] /\ pc'[l] = "failing"
           \/ ~saveFailed[l] /\ pc'[l] = "receive"
    BY <1>7 DEF Saved, Commit, WriterStays
  <2>2. CASE saveFailed[l]
    <3>1. pc'[l] = "failing"
      BY <2>1, <2>2
    <3>. QED
      BY <2>1, <3>1, CountedLasts DEF Counting, Before
  <2>3. CASE ~saveFailed[l]
    <3>1. Len(saving[l]) # 1 /\ pc'[l] = "receive"
      BY <2>1, <2>3
    <3>2. Unsafe(l) = {} /\ unsaved[l] = 0 /\ ~timer[l]
      BY <2>1, <2>3, <3>1 DEF Counted
    <3>3. Unsafe(l)' = {}
      BY <2>1, <3>2, UnsafeShrinks
    <3>4. Cardinality(Unsafe(l)') = 0
      BY <3>3, FS_EmptySet
    <3>5. /\ ~timer'[l] /\ unsaved'[l] = 0 /\ saving'[l] = <<>> /\ ~saveFailed'[l]
          /\ unsaved'[l] < Window'
      BY <2>1, <2>3, <3>2 DEF WriterStays
    <3>. QED
      BY <3>1, <3>3, <3>4, <3>5 DEF Counted
  <2>. QED
    BY <2>2, <2>3
<1>8. CASE LoopEnds(l) \/ FlushAfterFailure(l)
  <2>1. /\ ~timer'[l] /\ unsaved'[l] = 0 /\ UNCHANGED handled
        /\ pc'[l] \in {"final", "failing"}
    BY <1>8 DEF LoopEnds, FlushAfterFailure, Flushed
  <2>. QED
    BY <2>1, WindowLasts DEF Counting, Before
<1>9. CASE TimedFlush(l)
  BY <1>9 DEF TimedFlush, Counted
<1>10. CASE Save(l)
  BY <1>10, SavingCounts
<1>11. CASE Crash(l)
  <2>1. /\ UNCHANGED <<handled, timer, unsaved>> /\ pc'[l] = "crashed"
    BY <1>11 DEF Crash
  <2>. QED
    BY <2>1, WindowLasts DEF Counting, Before, Counted
<1>. QED
  BY <1>1, <1>2, <1>4, <1>5, <1>6, <1>7, <1>8, <1>9, <1>10, <1>11
  DEF OwnStep, Work, Handler

LEMMA WindowStep ==
    ASSUME ConsumerIInv, TypeOK', Next
    PROVE  Windowed'
<1>1. /\ options' = options /\ Window' = Window /\ TypeOK
      /\ \A l \in Leases : Placed(l)
  BY SettingsStay DEF ConsumerIInv
<1>2. Forward /\ store' \in Nat
  <2>1. MaxSequence' = MaxSequence /\ MaxSequence \in Nat
    BY <1>1, SettingsStay, SettingsHold
  <2>2. Forward
    BY <1>1, StoreMovesForward
  <2>3. store' \in 0 .. MaxSequence
    BY <2>1 DEF TypeOK
  <2>. QED
    BY <2>1, <2>2, <2>3
<1>. SUFFICES ASSUME ~options.timed PROVE \A l \in Leases : Counted(l)'
  BY <1>1 DEF Windowed
<1>3. \A l \in Leases : Counted(l)
  BY DEF ConsumerIInv, Windowed
<1>4. ASSUME NEW l \in Leases, Stays(l) PROVE Counted(l)'
  BY <1>1, <1>2, <1>3, <1>4, CountedLasts DEF Stays
<1>5. ASSUME NEW l \in Leases, OwnStep(l) PROVE Counted(l)'
  BY <1>1, <1>2, <1>3, <1>5, CountedSteps
<1>. QED
  BY <1>1, <1>4, <1>5, OneMoves

-----------------------------------------------------------------------------
(***************************************************************************)
(* Every step keeps the replay in order, as long as nothing comes twice.   *)
(***************************************************************************)
\* What is left to do is finite.
LEMMA ToDoIsFinite ==
    ASSUME TypeOK, NEW l \in Leases
    PROVE  IsFiniteSet(ToDo(l)) /\ Cardinality(ToDo(l)) \in Nat
<1>1. IsFiniteSet(Sequences)
  <2>1. 1 \in Int /\ MaxSequence \in Int
    BY SettingsHold
  <2>. QED
    BY <2>1, FS_Interval DEF Sequences
<1>2. ToDo(l) \subseteq Sequences
  BY LeaseTypes DEF ToDo, LeaseTyped
<1>3. IsFiniteSet(ToDo(l))
  BY <1>1, <1>2, FS_Subset
<1>. QED
  BY <1>3, FS_CardinalityType

\* A caught-up lease stays what it says.
LEMMA SettledLasts ==
    ASSUME TypeOK, Forward, store' \in Nat, NEW l \in Leases, Settled(l),
           replay'[l] = replay[l], caughtUp'[l] = "resolved" => caughtUp[l] = "resolved"
    PROVE  Settled(l)'
<1>1. /\ store \in Nat /\ store <= store' /\ handled[l] \subseteq handled'[l]
      /\ replay[l] \subseteq Nat
  BY LeaseTypes DEF Forward, LeaseTyped
<1>. QED
  BY <1>1 DEF Settled

\* A lease that is no longer in its loop, or not yet, has only its promise to keep.
LEMMA OutOfLoop ==
    ASSUME TypeOK, Forward, store' \in Nat, NEW l \in Leases, InOrder(l),
           replay'[l] = replay[l], caughtUp'[l] = "resolved" => caughtUp[l] = "resolved",
           pc'[l] \notin Loop,
           pc'[l] \in {"idle", "loading", "creating"} =>
               pc[l] \in {"idle", "loading", "creating"}
    PROVE  InOrder(l)'
<1>1. Settled(l)'
  BY SettledLasts DEF InOrder
<1>2. pc'[l] # "handling" /\ pc'[l] # "saving" /\ ~Busy(l)'
  BY DEF Loop, Busy
<1>. QED
  BY <1>1, <1>2 DEF InOrder

\* A lease that stays where it is in its replay keeps it in order.
LEMMA InPlace ==
    ASSUME TypeOK, Forward, store' \in Nat, NEW l \in Leases, InOrder(l),
           Sequences' = Sequences,
           pc'[l] = pc[l], position'[l] = position[l], committed'[l] = committed[l],
           remaining'[l] = remaining[l], current'[l] = current[l],
           handled'[l] = handled[l], replay'[l] = replay[l],
           caughtUp'[l] = "resolved" => caughtUp[l] = "resolved",
           pc[l] = "saving" =>
               saving'[l] = saving[l] /\ saveFailed'[l] = saveFailed[l] /\ pending'[l] = 0
    PROVE  InOrder(l)'
<1>1. Settled(l)'
  BY SettledLasts DEF InOrder
<1>2. ToDo(l)' = ToDo(l) /\ Busy(l)' = Busy(l)
  BY DEF ToDo, Busy
<1>3. pc'[l] \in Loop => Remains(l)' /\ Behind(l)' /\ Ahead(l)'
  BY <1>2 DEF InOrder, Remains, Behind, Ahead
<1>4. store \in Nat /\ store <= store' /\ current[l] \in Nat
  BY LeaseTypes DEF Forward, LeaseTyped
<1>5. pc'[l] = "saving" /\ ~saveFailed'[l] =>
          IF saving'[l] = <<>> THEN current'[l] <= store'
          ELSE saving'[l][Len(saving'[l])].sequence = current'[l]
  BY <1>4 DEF InOrder
<1>6. /\ pc'[l] = "handling" => committed'[l] < current'[l]
      /\ Busy(l)' => current'[l] = position'[l]
      /\ pc'[l] = "saving" => pending'[l] = 0
      /\ pc'[l] \in {"idle", "loading", "creating"} => caughtUp'[l] # "resolved"
  BY <1>2 DEF InOrder
<1>. QED
  BY <1>1, <1>3, <1>5, <1>6 DEF InOrder

\* A new consumer has the whole captured replay before it.
LEMMA CreateReplays ==
    ASSUME TypeOK, OriginBehind, NEW l \in Leases, InOrder(l), Create(l)
    PROVE  InOrder(l)'
<1>. DEFINE captured == (Start(l) + 1) .. last
<1>0. /\ LeaseTyped(l) /\ last \in Nat /\ Start(l) \in Nat
      /\ MaxSequence' = MaxSequence /\ MaxSequence \in Nat /\ last <= MaxSequence
  <2>1. options' = options
    BY DEF Create, streamVars
  <2>2. MaxSequence' = MaxSequence
    BY <2>1 DEF MaxSequence
  <2>3. last \in 0 .. MaxSequence
    BY DEF TypeOK
  <2>. QED
    BY <2>2, <2>3, LeaseTypes, StartIsCurrent, SettingsHold
<1>1. /\ pc[l] = "creating" /\ pc'[l] \in {"closed", "consuming"}
      /\ position'[l] = Start(l) /\ replay'[l] = captured
      /\ remaining'[l] = Cardinality(captured) /\ caughtUp'[l] = caughtUp[l]
  BY <1>0 DEF Create, Goto, LeaseTyped
<1>2. caughtUp'[l] # "resolved"
  BY <1>1 DEF InOrder
<1>3. ~Busy(l)' /\ pc'[l] \notin {"handling", "saving", "idle", "loading", "creating"}
  BY <1>1 DEF Busy
<1>4. ToDo(l)' = captured
  <2>1. \A m \in captured : m > Start(l)
    BY <1>0
  <2>. HIDE DEF captured
  <2>. QED
    BY <1>1, <1>3, <2>1 DEF ToDo
<1>5. Remains(l)'
  BY <1>1, <1>4 DEF Remains
<1>6. Behind(l)'
  BY <1>0, <1>1 DEF Behind
<1>7. Ahead(l)'
  BY <1>0, <1>1, <1>3 DEF Ahead, Sequences
<1>. QED
  BY <1>2, <1>3, <1>5, <1>6, <1>7 DEF InOrder, Settled

\* An empty replay is caught up when the iterator is there.
LEMMA ConsumeReplays ==
    ASSUME TypeOK, NEW l \in Leases, Placed(l), InOrder(l), Consume(l)
    PROVE  InOrder(l)'
<1>0. LeaseTyped(l) /\ Sequences' = Sequences
  <2>1. options' = options
    BY DEF Consume, streamVars
  <2>. QED
    BY <2>1, LeaseTypes DEF Sequences, MaxSequence
<1>1. /\ pc[l] = "consuming" /\ pc'[l] = "receive"
      /\ UNCHANGED <<position, replay, remaining, current, handled, store>>
      /\ caughtUp'[l] = "resolved" => remaining[l] = 0 \/ caughtUp[l] = "resolved"
  BY <1>0 DEF Consume, Goto, LeaseTyped, history
<1>2. Remains(l) /\ Behind(l) /\ Ahead(l) /\ Settled(l)
  BY <1>1 DEF InOrder, Loop
<1>3. ~Busy(l) /\ ~Busy(l)'
  BY <1>1 DEF Busy
<1>4. ToDo(l)' = ToDo(l)
  BY <1>1, <1>3 DEF ToDo
<1>5. Remains(l)' /\ Behind(l)' /\ Ahead(l)'
  BY <1>0, <1>1, <1>2, <1>3, <1>4 DEF Remains, Behind, Ahead
<1>6. remaining[l] = 0 => replay[l] = {}
  <2>1. remaining[l] = 0 => ToDo(l) = {}
    BY <1>2, ToDoIsFinite, FS_EmptySet DEF Remains
  <2>2. handled[l] = {} /\ replay[l] \subseteq Nat /\ position[l] \in Nat
    BY <1>0, <1>1, LeaseTypes DEF Placed, Before, LeaseTyped
  <2>. QED
    BY <1>1, <1>2, <2>1, <2>2 DEF ToDo, Behind
<1>7. Settled(l)'
  BY <1>1, <1>2, <1>6 DEF Settled
<1>8. pc'[l] \notin {"handling", "saving", "idle", "loading", "creating"}
  BY <1>1
<1>. QED
  BY <1>3, <1>5, <1>7, <1>8 DEF InOrder

\* What comes next is the next message of the stream, and no duplicate.
LEMMA ReceiveReplays ==
    ASSUME TypeOK, ~LivePurge, NEW l \in Leases, Placed(l), KeepsUp(l), InOrder(l),
           ReceiveNext(l)
    PROVE  InOrder(l)'
<1>. DEFINE m == position[l] + 1
<1>0. /\ LeaseTyped(l) /\ Sequences' = Sequences /\ first \in Nat
      /\ replay[l] \subseteq Nat /\ Sequences \subseteq Nat
  <2>1. options' = options
    BY DEF ReceiveNext, Receive
  <2>. QED
    BY <2>1, LeaseTypes DEF Sequences, MaxSequence, LeaseTyped
<1>1. pc[l] = "receive" /\ position[l] \in Nat /\ committed[l] \in Nat
  BY <1>0 DEF ReceiveNext, Receive, LeaseTyped
<1>2. first <= position[l] + 1 /\ committed[l] <= position[l]
  BY <1>1 DEF KeepsUp, Placed, Loop
<1>3. Upcoming(l) = m
  BY <1>0, <1>1, <1>2 DEF Upcoming
<1>4. Receive(l, m)
  BY <1>3 DEF ReceiveNext
<1>5. m > committed[l] /\ ~Duplicate(l, m)
  BY <1>1, <1>2 DEF Duplicate
<1>6. /\ pc'[l] = "handling" /\ current'[l] = m /\ position'[l] = m
      /\ UNCHANGED <<committed, replay, remaining, caughtUp, handled, store>>
  BY <1>0, <1>1, <1>4, <1>5 DEF Receive, Goto, LeaseTyped, history
<1>7. Remains(l) /\ Behind(l) /\ Ahead(l) /\ Settled(l)
  BY <1>1 DEF InOrder, Loop
<1>8. ~Busy(l) /\ Busy(l)'
  BY <1>1, <1>6 DEF Busy
<1>9. ToDo(l)' = ToDo(l)
  BY <1>0, <1>1, <1>6, <1>8 DEF ToDo
<1>10. Remains(l)'
  BY <1>6, <1>7, <1>9 DEF Remains
<1>11. Behind(l)'
  BY <1>0, <1>1, <1>6, <1>7 DEF Behind
<1>12. Ahead(l)'
  <2>1. \A k \in replay[l], n \in Sequences : n <= k /\ n > position[l] => n \in replay[l]
    BY <1>7 DEF Ahead
  <2>2. \A n \in Sequences : n > m \/ n = m => n > position[l]
    BY <1>0, <1>1
  <2>3. \A k \in replay[l], n \in Sequences : n <= k /\ (n > m \/ n = m) => n \in replay[l]
    BY <2>1, <2>2
  <2>. HIDE DEF m
  <2>. QED
    BY <1>0, <1>6, <2>3 DEF Ahead
<1>13. Settled(l)'
  BY <1>6, <1>7 DEF Settled
<1>. QED
  BY <1>5, <1>6, <1>8, <1>10, <1>11, <1>12, <1>13 DEF InOrder

\* When the current message is done, one less is to do, and after the last one
\* nothing of the replay is ahead.
LEMMA OneLessToDo ==
    ASSUME TypeOK, NEW l \in Leases, Placed(l), InOrder(l), Busy(l),
           NEW T, T = {m \in replay[l] : m > position[l]}
    PROVE  /\ Cardinality(T) = DecrementTo0(remaining[l])
           /\ remaining[l] = 1 => T = {}
<1>0. LeaseTyped(l) /\ IsFiniteSet(ToDo(l)) /\ Cardinality(ToDo(l)) \in Nat
  BY LeaseTypes, ToDoIsFinite
<1>1. /\ current[l] = position[l] /\ remaining[l] = Cardinality(ToDo(l)) /\ Ahead(l)
      /\ current[l] \in Nat /\ remaining[l] \in Nat
  BY <1>0 DEF InOrder, Busy, Loop, Remains, LeaseTyped
<1>2. current[l] \in Sequences
  <2>1. position[l] \in 0 .. MaxSequence /\ MaxSequence \in Nat
    BY SettingsHold DEF TypeOK
  <2>2. current[l] \in 1 .. position[l]
    BY DEF Busy, Placed
  <2>. QED
    BY <2>1, <2>2 DEF Sequences
<1>3. replay[l] \subseteq Nat /\ position[l] \in Nat
  BY <1>0, LeaseTypes DEF LeaseTyped
<1>4. T = ToDo(l) \ {current[l]}
  BY <1>1, <1>3 DEF ToDo
<1>5. Cardinality(T) = IF current[l] \in ToDo(l) THEN remaining[l] - 1 ELSE remaining[l]
  <2>1. Cardinality(ToDo(l) \ {current[l]}) =
            IF current[l] \in ToDo(l) THEN Cardinality(ToDo(l)) - 1
            ELSE Cardinality(ToDo(l))
    BY <1>0, FS_RemoveElement
  <2>. QED
    BY <1>1, <1>4, <2>1
<1>6. CASE current[l] \in replay[l]
  <2>1. current[l] \in ToDo(l)
    BY <1>6 DEF ToDo
  <2>2. remaining[l] # 0
    BY <1>0, <1>1, <2>1, FS_EmptySet
  <2>3. Cardinality(T) = remaining[l] - 1
    BY <1>5, <2>1
  <2>4. IsFiniteSet(T)
    BY <1>0, <1>4, FS_RemoveElement
  <2>5. remaining[l] = 1 => T = {}
    BY <1>1, <2>3, <2>4, FS_EmptySet
  <2>. QED
    BY <1>1, <2>2, <2>3, <2>5 DEF DecrementTo0
<1>7. CASE current[l] \notin replay[l]
  <2>1. T = {}
    <3>. SUFFICES ASSUME NEW m \in T PROVE FALSE
      OBVIOUS
    <3>1. m \in replay[l] /\ m > current[l]
      BY <1>1
    <3>2. current[l] <= m
      BY <1>1, <1>3, <3>1
    <3>. QED
      BY <1>1, <1>2, <1>7, <3>1, <3>2 DEF Ahead
  <2>2. ToDo(l) = {}
    BY <1>4, <1>7, <2>1 DEF ToDo
  <2>3. remaining[l] = 0 /\ Cardinality(T) = 0
    BY <1>1, <2>1, <2>2, FS_EmptySet
  <2>. QED
    BY <2>1, <2>3 DEF DecrementTo0
<1>. QED
  BY <1>6, <1>7

\* The end of a delivery, which resolves caughtUp with the last one of the replay.
LEMMA CommitReplays ==
    ASSUME TypeOK, Forward, store' \in Nat, NEW l \in Leases, Placed(l), InOrder(l),
           Busy(l), Sequences' = Sequences, Commit(l),
           UNCHANGED <<position, replay>>,
           handled[l] \cup {current[l]} \subseteq handled'[l],
           remaining[l] = 1 => current[l] <= store /\ current[l] \in handled[l]
    PROVE  InOrder(l)'
<1>. DEFINE T == {m \in replay[l] : m > position[l]}
<1>0. /\ LeaseTyped(l) /\ store \in Nat /\ position[l] \in Nat /\ current[l] \in Nat
      /\ replay[l] \subseteq Nat /\ Sequences \subseteq Nat
  BY LeaseTypes DEF LeaseTyped
<1>1. /\ Cardinality(T) = DecrementTo0(remaining[l])
      /\ remaining[l] = 1 => T = {}
  BY OneLessToDo
<1>2. /\ pc'[l] = "receive" /\ remaining'[l] = DecrementTo0(remaining[l])
      /\ caughtUp'[l] = "resolved" => caughtUp[l] = "resolved" \/ remaining[l] = 1
  BY <1>0 DEF Commit, AdvanceInitialReplay, LastInitial, Goto, LeaseTyped
<1>3. /\ current[l] = position[l] /\ Behind(l) /\ Ahead(l) /\ Settled(l)
      /\ pc[l] \in {"handling", "saving"}
  BY DEF InOrder, Busy, Loop
<1>4. ~Busy(l)' /\ pc'[l] \notin {"handling", "saving", "idle", "loading", "creating"}
  BY <1>2 DEF Busy
<1>5. Remains(l)'
  <2>1. ToDo(l)' = T
    BY <1>4 DEF ToDo
  <2>. HIDE DEF T
  <2>. QED
    BY <1>1, <1>2, <2>1 DEF Remains
<1>6. Behind(l)'
  BY <1>2, <1>3 DEF Behind
<1>7. Ahead(l)'
  BY <1>3, <1>4 DEF Ahead
<1>8. Settled(l)'
  <2>1. CASE remaining[l] = 1
    <3>1. \A m \in replay[l] : m <= position[l]
      BY <1>0, <1>1, <2>1
    <3>2. position[l] <= store /\ store <= store'
      BY <1>3, <2>1 DEF Forward
    <3>3. \A m \in replay[l] : m <= store'
      BY <1>0, <3>1, <3>2
    <3>4. \A m \in replay[l] : m \in handled'[l]
      BY <1>3, <3>1 DEF Behind
    <3>. QED
      BY <3>3, <3>4 DEF Settled
  <2>2. CASE remaining[l] # 1
    <3>1. caughtUp'[l] = "resolved" => caughtUp[l] = "resolved"
      BY <1>2, <2>2
    <3>. QED
      BY <1>3, <3>1, SettledLasts
  <2>. QED
    BY <2>1, <2>2
<1>. QED
  BY <1>2, <1>4, <1>5, <1>6, <1>7, <1>8 DEF InOrder

\* Handling a message of the replay: a failed writer ends it, a flush is waited for,
\* or the delivery is done.
LEMMA HandlerReplays ==
    ASSUME TypeOK, Forward, store' \in Nat, NEW l \in Leases, Placed(l), InOrder(l),
           Sequences' = Sequences, HandlerSucceeds(l)
    PROVE  InOrder(l)'
<1>0. LeaseTyped(l)
  BY LeaseTypes
<1>1. /\ pc[l] = "handling" /\ handled'[l] = handled[l] \cup {current[l]}
      /\ UNCHANGED <<position, replay, store>> /\ Busy(l)
  BY <1>0 DEF HandlerSucceeds, LeaseTyped, Busy
<1>2. /\ committed[l] < current[l] /\ current[l] \in Nat \ {0} /\ committed[l] \in Nat
      /\ current[l] = position[l]
      /\ Remains(l) /\ Behind(l) /\ Ahead(l) /\ Settled(l)
  BY <1>0, <1>1 DEF InOrder, Loop, LeaseTyped
<1>3. ~Duplicate(l, current[l])
  BY <1>2 DEF Duplicate
<1>4. CASE pc'[l] = "failing" /\ UNCHANGED caughtUp
  BY <1>1, <1>4, OutOfLoop DEF Loop
<1>5. CASE /\ Flushed(l, current[l], FALSE) /\ pc'[l] = "saving"
           /\ UNCHANGED <<committed, remaining, caughtUp, current, saveFailed>>
  <2>1. pending'[l] = 0
    BY <1>0, <1>5 DEF Flushed, LeaseTyped
  <2>2. saving'[l] # <<>> /\ saving'[l][Len(saving'[l])].sequence = current[l]
    <3>. DEFINE R == [sequence : Sequences, timed : BOOLEAN]
                r == [sequence |-> current[l], timed |-> FALSE]
    <3>1. saving'[l] = Append(saving[l], r) /\ r.sequence = current[l]
      BY <1>0, <1>2, <1>5 DEF Flushed, LeaseTyped
    <3>2. saving[l] \in Seq(R)
      BY DEF TypeOK
    <3>3. /\ Len(Append(saving[l], r)) = Len(saving[l]) + 1
          /\ Append(saving[l], r)[Len(saving[l]) + 1] = r
          /\ Append(saving[l], r) # <<>>
      <4>. HIDE DEF R, r
      <4>. QED
        BY <3>2
    <3>. HIDE DEF r
    <3>. QED
      BY <3>1, <3>3
  <2>3. Busy(l)'
    BY <1>5 DEF Busy
  <2>4. ToDo(l)' = ToDo(l)
    BY <1>1, <1>5, <2>3 DEF ToDo
  <2>5. Remains(l)' /\ Ahead(l)'
    BY <1>1, <1>2, <1>5, <2>3, <2>4 DEF Remains, Ahead
  <2>6. Behind(l)'
    BY <1>1, <1>2, <1>5 DEF Behind
  <2>7. Settled(l)'
    BY <1>1, <1>2, <1>5, SettledLasts
  <2>8. current'[l] = position'[l]
    BY <1>1, <1>2, <1>5
  <2>. QED
    BY <1>5, <2>1, <2>2, <2>5, <2>6, <2>7, <2>8 DEF InOrder
<1>6. CASE ~FlushDue(l, Duplicate(l, current[l])) /\ Commit(l)
  <2>1. remaining[l] # 1
    BY <1>6 DEF FlushDue
  <2>. QED
    BY <1>1, <1>6, <2>1, CommitReplays
<1>. QED
  BY <1>0, <1>3, <1>4, <1>5, <1>6 DEF HandlerSucceeds, Goto, LeaseTyped

\* The save that the loop waited for reaches the current message.
LEMMA SavedReplays ==
    ASSUME TypeOK, Forward, store' \in Nat, NEW l \in Leases, Placed(l), InOrder(l),
           Sequences' = Sequences, Saved(l)
    PROVE  InOrder(l)'
<1>0. LeaseTyped(l)
  BY LeaseTypes
<1>1. /\ pc[l] = "saving" /\ saving[l] = <<>> /\ Busy(l)
      /\ UNCHANGED <<position, replay, handled>>
  BY DEF Saved, Busy, history
<1>2. CASE saveFailed[l]
  <2>1. pc'[l] = "failing" /\ UNCHANGED <<caughtUp, replay>>
    BY <1>0, <1>1, <1>2 DEF Saved, Goto, LeaseTyped
  <2>. QED
    BY <2>1, OutOfLoop DEF Loop
<1>3. CASE ~saveFailed[l]
  <2>1. Commit(l)
    BY <1>3 DEF Saved
  <2>2. current[l] <= store
    BY <1>1, <1>3 DEF InOrder
  <2>3. current[l] \in handled[l]
    BY <1>1 DEF Placed
  <2>. QED
    BY <1>1, <2>1, <2>2, <2>3, CommitReplays
<1>. QED
  BY <1>2, <1>3

\* A save moves the store to what was chained.
LEMMA SaveReplays ==
    ASSUME TypeOK, Forward, store' \in Nat, NEW l \in Leases, InOrder(l),
           Sequences' = Sequences, Save(l)
    PROVE  InOrder(l)'
<1>0. LeaseTyped(l)
  BY LeaseTypes
<1>1. /\ UNCHANGED <<pc, position, committed, remaining, current, pending, caughtUp,
                     handled, replay>>
      /\ saving[l] # <<>> /\ saving'[l] = Tail(saving[l])
  BY <1>0 DEF Save, history, LeaseTyped
<1>2. CASE pc[l] # "saving"
  BY <1>1, <1>2, InPlace
<1>3. CASE pc[l] = "saving"
  <2>. DEFINE R == [sequence : Sequences, timed : BOOLEAN]
  <2>1. ToDo(l)' = ToDo(l) /\ Busy(l)' = Busy(l)
    BY <1>1 DEF ToDo, Busy
  <2>2. pc'[l] \in Loop => Remains(l)' /\ Behind(l)' /\ Ahead(l)'
    BY <1>1, <2>1 DEF InOrder, Remains, Behind, Ahead
  <2>3. Settled(l)'
    BY <1>1, SettledLasts DEF InOrder
  <2>4. ASSUME ~saveFailed'[l]
        PROVE  IF saving'[l] = <<>> THEN current'[l] <= store'
               ELSE saving'[l][Len(saving'[l])].sequence = current'[l]
    <3>1. ~saveFailed[l] /\ store' = Head(saving[l]).sequence
      BY <1>0, <2>4 DEF Save, Stored, LeaseTyped
    <3>2. saving[l][Len(saving[l])].sequence = current[l]
      BY <1>1, <1>3, <3>1 DEF InOrder
    <3>3. saving[l] \in Seq(R)
      BY DEF TypeOK
    <3>4. /\ Tail(saving[l]) = <<>> => Head(saving[l]) = saving[l][Len(saving[l])]
          /\ Tail(saving[l]) # <<>> =>
                Tail(saving[l])[Len(Tail(saving[l]))] = saving[l][Len(saving[l])]
      <4>. HIDE DEF R
      <4>1. /\ Len(saving[l]) \in Nat \ {0} /\ Head(saving[l]) = saving[l][1]
            /\ Tail(saving[l]) \in Seq(R) /\ Len(Tail(saving[l])) = Len(saving[l]) - 1
            /\ \A i \in 1 .. Len(saving[l]) - 1 : Tail(saving[l])[i] = saving[l][i + 1]
        BY <1>1, <3>3, EmptySeq
      <4>2. Tail(saving[l]) # <<>> => Len(Tail(saving[l])) \in Nat \ {0}
        BY <4>1, EmptySeq
      <4>3. Tail(saving[l]) = <<>> => Len(saving[l]) = 1
        <5>1. PICK t : t = Tail(saving[l])
          OBVIOUS
        <5>2. Len(t) = Len(saving[l]) - 1 /\ (t = <<>> => Len(t) = 0)
          BY <4>1, <5>1
        <5>. QED
          BY <4>1, <5>1, <5>2
      <4>. QED
        BY SMTT(30), <4>1, <4>2, <4>3
    <3>5. current'[l] = current[l] /\ current[l] \in Nat
      BY <1>0, <1>1 DEF LeaseTyped
    <3>. QED
      BY <1>1, <3>1, <3>2, <3>4, <3>5
  <2>5. current'[l] = position'[l] /\ pending'[l] = 0 /\ pc'[l] = "saving"
    BY <1>1, <1>3 DEF InOrder, Busy
  <2>. QED
    BY <2>2, <2>3, <2>4, <2>5 DEF InOrder
<1>. QED
  BY <1>2, <1>3

LEMMA InOrderSteps ==
    ASSUME TypeOK, OriginBehind, Forward, store' \in Nat, NEW l \in Leases,
           Placed(l), KeepsUp(l), InOrder(l), Sequences' = Sequences,
           ~LivePurge, redeliveries = 0, redeliveries' = 0, OwnStep(l)
    PROVE  InOrder(l)'
<1>0. LeaseTyped(l)
  BY LeaseTypes
<1>. USE <1>0 DEF LeaseTyped, Goto, writerVars, leaseVars, history
<1>1. CASE \/ Open(l) \/ Load(l) \/ StartFails(l) \/ HandlerFails(l) \/ LoopEnds(l)
           \/ Finish(l) \/ Fail(l) \/ Crash(l)
  <2>1. replay'[l] = replay[l] /\ (caughtUp'[l] = "resolved" => caughtUp[l] = "resolved")
    BY <1>1 DEF Open, Load, StartFails, HandlerFails, LoopEnds, Finish, Fail, Crash
  <2>2. /\ pc'[l] \notin Loop
        /\ pc'[l] \in {"idle", "loading", "creating"} =>
               pc[l] \in {"idle", "loading", "creating"}
    BY <1>1 DEF Open, Load, StartFails, HandlerFails, LoopEnds, Finish, Fail, Crash, Loop
  <2>. QED
    BY <2>1, <2>2, OutOfLoop
<1>2. CASE Close(l) \/ MessagesEnd(l)
  <2>1. /\ UNCHANGED <<pc, position, committed, remaining, current, handled, replay,
                       saving, saveFailed, pending>>
        /\ caughtUp'[l] = "resolved" => caughtUp[l] = "resolved"
    BY <1>2 DEF Close, MessagesEnd
  <2>2. pc[l] = "saving" => pending'[l] = 0
    BY <2>1 DEF InOrder
  <2>. QED
    BY <2>1, <2>2, InPlace
<1>3. CASE FlushAfterFailure(l) \/ TimedFlush(l)
  <2>1. UNCHANGED <<pc, position, committed, remaining, current, handled, replay,
                    saveFailed, caughtUp>>
    BY <1>3 DEF FlushAfterFailure, TimedFlush
  <2>2. pc[l] = "saving" => saving'[l] = saving[l] /\ pending'[l] = 0
    BY <1>3 DEF FlushAfterFailure, TimedFlush, Flushed, InOrder
  <2>. QED
    BY <2>1, <2>2, InPlace
<1>4. CASE Create(l) \/ Consume(l) \/ ReceiveNext(l)
  BY <1>4, CreateReplays, ConsumeReplays, ReceiveReplays
<1>5. CASE ReceiveAgain(l)
  BY <1>5 DEF ReceiveAgain
<1>6. CASE HandlerSucceeds(l) \/ Saved(l) \/ Save(l)
  BY <1>6, HandlerReplays, SavedReplays, SaveReplays
<1>. QED
  BY <1>1, <1>2, <1>3, <1>4, <1>5, <1>6 DEF OwnStep, Work, Handler

LEMMA ReplayStep ==
    ASSUME ConsumerIInv, TypeOK', Next
    PROVE  Replayed'
<1>1. /\ Sequences' = Sequences /\ TypeOK /\ OriginBehind
      /\ \A l \in Leases : Placed(l) /\ KeepsUp(l)
  BY SettingsStay DEF ConsumerIInv
<1>2. Forward /\ store' \in Nat
  <2>1. MaxSequence' = MaxSequence /\ MaxSequence \in Nat
    BY <1>1, SettingsStay, SettingsHold
  <2>2. Forward
    BY <1>1, StoreMovesForward
  <2>3. store' \in 0 .. MaxSequence
    BY <2>1 DEF TypeOK
  <2>. QED
    BY <2>1, <2>2, <2>3
<1>. SUFFICES ASSUME ~LivePurge, redeliveries' = 0 PROVE \A l \in Leases : InOrder(l)'
  BY DEF Replayed
<1>3. redeliveries = 0
  BY <1>1, <1>2, LeaseTypes DEF Forward
<1>4. \A l \in Leases : InOrder(l)
  BY <1>3 DEF ConsumerIInv, Replayed
<1>5. ASSUME NEW l \in Leases, Stays(l) PROVE InOrder(l)'
  <2>1. pc[l] = "saving" => pending'[l] = 0
    BY <1>4, <1>5 DEF InOrder, Stays, WriterStays
  <2>. QED
    BY <1>1, <1>2, <1>4, <1>5, <2>1, InPlace DEF Stays, WriterStays
<1>6. ASSUME NEW l \in Leases, OwnStep(l) PROVE InOrder(l)'
  BY <1>1, <1>2, <1>3, <1>4, <1>6, InOrderSteps
<1>. QED
  BY <1>1, <1>5, <1>6, OneMoves

-----------------------------------------------------------------------------
(***************************************************************************)
(* The invariant, and what follows from it.                                *)
(***************************************************************************)
\* Nothing has been handled, recorded or started at first.
LEMMA InitialConsumer ==
    ASSUME Init
    PROVE  ConsumerIInv
<1>1. TypeOK
  <2>1. options \in Options /\ MaxSequence \in Nat /\ MaxRedeliveries \in Nat
    BY ConsumerAssumption DEF Init, MaxSequence, MaxRedeliveries
  <2>. QED
    BY <2>1 DEF Init, TypeOK
<1>2. OriginBehind
  BY DEF Init, OriginBehind
<1>3. ASSUME NEW l \in Leases PROVE Placed(l) /\ KeepsUp(l)
  BY DEF Init, Placed, KeepsUp, Loop, Before
<1>4. Complete
  <2>1. ASSUME NEW n \in Nat, n = 0 PROVE Covered(n)
    BY <2>1 DEF Init, Covered
  <2>2. Covered(store)
    BY DEF Init, Covered
  <2>3. ASSUME NEW l \in Leases PROVE Sound(l)
    <3>1. \A n \in Recorded(l) : n = 0
      BY DEF Init, Recorded
    <3>2. Passed(l)
      BY DEF Init, Passed, Loop
    <3>. QED
      BY <2>1, <3>1, <3>2 DEF Sound
  <2>. QED
    BY <2>2, <2>3 DEF Complete
<1>5. Windowed
  <2>. SUFFICES ASSUME NEW l \in Leases PROVE Counted(l)
    BY DEF Windowed
  <2>1. Unsafe(l) = {} /\ Cardinality({}) = 0
    BY FS_EmptySet DEF Init, Unsafe
  <2>2. Window \in Nat \ {0}
    BY <1>1, SettingsHold
  <2>. QED
    BY <2>1, <2>2 DEF Init, Counted, Counting, Before
<1>6. Replayed
  BY DEF Init, Replayed, InOrder, Busy, Loop, Settled
<1>. QED
  BY <1>1, <1>2, <1>3, <1>4, <1>5, <1>6 DEF ConsumerIInv

LEMMA ConsumerSteps ==
    ASSUME ConsumerIInv, [Next]_vars
    PROVE  ConsumerIInv'
<1>1. CASE UNCHANGED vars
  <2>. USE <1>1 DEF vars, streamVars, leaseVars, writerVars, history
  <2>1. TypeOK' /\ OriginBehind'
    BY DEF ConsumerIInv, TypeOK, OriginBehind, MaxSequence, MaxRedeliveries, Sequences
  <2>2. \A l \in Leases : Placed(l)' /\ KeepsUp(l)'
    BY DEF ConsumerIInv, Placed, KeepsUp
  <2>3. \A m : Excused(m)' = Excused(m)
    BY DEF Excused, Handled
  <2>4. Complete'
    BY <2>3 DEF ConsumerIInv, Complete, Covered, Sound, Recorded, Passed, Overtaken
  <2>5. Windowed'
    BY DEF ConsumerIInv, Windowed, Counted, Unsafe, Window
  <2>6. Replayed'
    BY ZenonT(60) DEF ConsumerIInv, Replayed, InOrder, Busy, ToDo, Remains, Behind, Ahead, Settled,
       Sequences, MaxSequence
  <2>. QED
    BY <2>1, <2>2, <2>4, <2>5, <2>6 DEF ConsumerIInv
<1>2. CASE Next
  <2>1. /\ TypeOK /\ OriginBehind
        /\ \A l \in Leases : Placed(l) /\ KeepsUp(l)
    BY DEF ConsumerIInv
  <2>2. TypeOK'
    BY <1>2, <2>1, TypeStep
  <2>3. OriginBehind'
    BY <1>2, <2>1, OriginStep
  <2>4. \A l \in Leases : KeepsUp(l)'
    BY <1>2, <2>1, KeepsUpStep
  <2>5. \A l \in Leases : Placed(l)'
    <3>1. ASSUME NEW l \in Leases, Stays(l) PROVE Placed(l)'
      BY <2>1, <3>1 DEF Stays, WriterStays, Placed
    <3>2. ASSUME NEW l \in Leases, OwnStep(l) PROVE Placed(l)'
      BY <1>2, <2>1, <3>2, PlacedStep
    <3>. QED
      BY <1>2, <2>1, <3>1, <3>2, OneMoves
  <2>6. Complete' /\ Windowed' /\ Replayed'
    BY <1>2, <2>2, CompleteStep, WindowStep, ReplayStep
  <2>. QED
    BY <2>2, <2>3, <2>4, <2>5, <2>6 DEF ConsumerIInv
<1>. QED
  BY <1>1, <1>2

\* consumeJetStream() with resume, for any number of leases, crashes, failing handlers
\* and failing saves: the invariant from which the rest follows.
THEOREM ConsumerInvariant == Spec => []ConsumerIInv
<1>1. Init => ConsumerIInv
  BY InitialConsumer
<1>2. ConsumerIInv /\ [Next]_vars => ConsumerIInv'
  BY ConsumerSteps
<1>. QED
  BY <1>1, <1>2, PTL DEF Spec

\* Every variable keeps its type.
THEOREM ConsumerTyped == Spec => []TypeOK
<1>1. ConsumerIInv => TypeOK
  BY DEF ConsumerIInv
<1>. QED
  BY <1>1, ConsumerInvariant, PTL

\* At-least-once: unless retention overtakes a running lease whose policy is to
\* refuse a gap, whatever a resuming lease skips has been handled by some lease or was
\* removed by retention under the `continue` policy.
THEOREM AtLeastOnce == Spec => [](~Overtaken => NothingSkipped)
<1>1. ConsumerIInv => (~Overtaken => NothingSkipped)
  BY DEF ConsumerIInv, Complete, Covered, Excused, NothingSkipped
<1>. QED
  BY <1>1, ConsumerInvariant, PTL

\* Without a timer a crash repeats at most maxItems handled messages, one if saves are
\* not coalesced, whatever the other leases and retention do.
THEOREM WindowIsBounded == Spec => []RedeliveryWindow
<1>1. ConsumerIInv => RedeliveryWindow
  <2>. SUFFICES ASSUME ConsumerIInv, ~options.timed, NEW l \in Leases
                PROVE  Cardinality({m \in handled[l] : m > store}) <= Window
    BY DEF RedeliveryWindow
  <2>1. TypeOK /\ Counted(l)
    BY DEF ConsumerIInv, Windowed
  <2>2. unsaved[l] \in Nat /\ Window \in Nat /\ Cardinality(Unsafe(l)) \in Nat
    BY <2>1, LeaseTypes, SettingsHold, UnsafeIsFinite DEF LeaseTyped
  <2>3. Cardinality(Unsafe(l)) <= Window
    BY <2>1, <2>2 DEF Counted
  <2>. QED
    BY <2>3 DEF Unsafe
<1>. QED
  BY <1>1, ConsumerInvariant, PTL

\* A lease whose caughtUp promise has resolved has handled its whole captured replay
\* and saved it, unless retention overtakes running leases.
THEOREM CaughtUpIsTrue == Spec => [](~LivePurge => CaughtUpMeansReplayed)
<1>1. ConsumerIInv => (~LivePurge => CaughtUpMeansReplayed)
  BY DEF ConsumerIInv, Replayed, InOrder, Settled, CaughtUpMeansReplayed
<1>. QED
  BY <1>1, ConsumerInvariant, PTL

-----------------------------------------------------------------------------
(***************************************************************************)
(* The event stream: jetStreamEvents() and materializeJetStream() over one *)
(* lease. The events that were taken and those still queued are one        *)
(* sequence, which the caught-up event parts; a delivery that was handled  *)
(* is in it as long as there is a queue; and what the materializer has     *)
(* worked off is in its data.                                              *)
(***************************************************************************)
Numbers == Seq(Nat)
Views   == [phase : {"replaying", "live"}, data : Numbers]

StreamTyped ==
    /\ adapter \in Adapters
    /\ queue \in Numbers /\ seen \in Numbers /\ batch \in Numbers
    /\ materialized \in Views /\ shown \in Views

Among(x, s) == \E i \in 1 .. Len(s) : s[i] = x
Holds(s, R) == \A m \in R : Among(m, s)

\* The caught-up event comes right behind the replay.
Parts(events, R) ==
    \A i \in 1 .. Len(events) : events[i] = CaughtUp =>
        /\ \A m \in R : \E j \in 1 .. i - 1 : events[j] = m
        /\ \A j \in 1 .. i - 1 : events[j] \in R

\* What the materializer has worked off is in its data; the batch is the rest.
Batched ==
    LET done == Len(seen) - Len(batch) IN
    /\ done >= 0
    /\ \A i \in 1 .. Len(batch) : batch[i] = seen[done + i]
    /\ \A i \in 1 .. done : seen[i] # CaughtUp => Among(seen[i], materialized.data)

Starting == {"idle", "loading", "creating"}

Given == seen \o queue

\* What has been handled was given to the queue, as long as there is one.
AllGiven ==
    Streaming /\ queueState # "shutdown" => Holds(Given, handled[Lease])

ReplayFirst ==
    marker = "waiting" => \A i \in 1 .. Len(Given) : Given[i] \in replay[Lease]

Untouched ==
    pc[Lease] \in Starting =>
        Given = <<>> /\ batch = <<>> /\ materialized.phase # "live" /\ shown.phase # "live"

WorkedOff ==
    IF adapter.kind = "materialize" THEN consumer = "pulling" => Batched ELSE batch = <<>>

LiveHolds ==
    /\ materialized.phase = "live" => Holds(materialized.data, replay[Lease])
    /\ shown.phase = "live" => Holds(shown.data, replay[Lease])

Parting ==
    /\ Parts(Given, replay[Lease]) /\ AllGiven /\ ReplayFirst
    /\ Untouched /\ WorkedOff /\ LiveHolds

StreamIInv ==
    /\ ConsumerIInv /\ StreamTyped
    /\ ~LivePurge /\ redeliveries = 0 => Parting

-----------------------------------------------------------------------------
(***************************************************************************)
(* Sequences of events.                                                    *)
(***************************************************************************)
\* Two sequences in a row.
LEMMA JoinIs ==
    ASSUME NEW s \in Numbers, NEW t \in Numbers
    PROVE  /\ s \o t \in Numbers /\ Len(s \o t) = Len(s) + Len(t)
           /\ \A i \in 1 .. Len(s) : (s \o t)[i] = s[i]
           /\ \A i \in 1 .. Len(t) : (s \o t)[Len(s) + i] = t[i]
<1> USE DEF Numbers
<1>1. /\ s \o t \in Numbers /\ Len(s \o t) = Len(s) + Len(t)
      /\ \A i \in 1 .. Len(s) + Len(t) : (s \o t)[i] = IF i <= Len(s) THEN s[i] ELSE t[i - Len(s)]
  BY ConcatProperties
<1>2. Len(s) \in Nat /\ Len(t) \in Nat  OBVIOUS
<1>3. \A i \in 1 .. Len(s) : (s \o t)[i] = s[i]  BY <1>1, <1>2
<1>4. ASSUME NEW i \in 1 .. Len(t) PROVE (s \o t)[Len(s) + i] = t[i]
  <2>1. Len(s) + i \in 1 .. Len(s) + Len(t) /\ ~(Len(s) + i <= Len(s)) /\ (Len(s) + i) - Len(s) = i
    BY <1>2
  <2>. QED  BY <1>1, <2>1
<1>. QED  BY <1>1, <1>3, <1>4

\* A sequence and one element more.
LEMMA LongerIs ==
    ASSUME NEW s \in Numbers, NEW x \in Nat
    PROVE  /\ Append(s, x) \in Numbers /\ Len(Append(s, x)) = Len(s) + 1 /\ Append(s, x) # <<>>
           /\ \A i \in 1 .. Len(s) : Append(s, x)[i] = s[i]
           /\ Append(s, x)[Len(s) + 1] = x
BY AppendProperties DEF Numbers

\* What is among two sequences in a row is among one of them.
LEMMA AmongJoin ==
    ASSUME NEW s \in Numbers, NEW t \in Numbers, NEW x
    PROVE  Among(x, s \o t) <=> Among(x, s) \/ Among(x, t)
<1>1. Len(s) \in Nat /\ Len(t) \in Nat  BY DEF Numbers
<1>2. ASSUME NEW i \in 1 .. Len(s), s[i] = x PROVE Among(x, s \o t)
  <2>1. i \in 1 .. Len(s \o t) /\ (s \o t)[i] = x  BY <1>1, <1>2, JoinIs
  <2>. QED  BY <2>1 DEF Among
<1>3. ASSUME NEW i \in 1 .. Len(t), t[i] = x PROVE Among(x, s \o t)
  <2>1. Len(s) + i \in 1 .. Len(s \o t) /\ (s \o t)[Len(s) + i] = x  BY <1>1, <1>3, JoinIs
  <2>. QED  BY <2>1 DEF Among
<1>4. ASSUME NEW i \in 1 .. Len(s \o t), (s \o t)[i] = x PROVE Among(x, s) \/ Among(x, t)
  <2>1. Len(s \o t) = Len(s) + Len(t)  BY JoinIs
  <2>2. CASE i <= Len(s)
    <3>1. i \in 1 .. Len(s) /\ s[i] = x  BY <1>1, <1>4, <2>1, <2>2, JoinIs
    <3>. QED  BY <3>1 DEF Among
  <2>3. CASE ~(i <= Len(s))
    <3>1. i - Len(s) \in 1 .. Len(t) /\ Len(s) + (i - Len(s)) = i  BY <1>1, <2>1, <2>3
    <3>2. t[i - Len(s)] = x  BY <1>4, <3>1, JoinIs
    <3>. QED  BY <3>1, <3>2 DEF Among
  <2>. QED  BY <2>2, <2>3
<1>. QED  BY <1>2, <1>3, <1>4 DEF Among

\* What is among a longer sequence was there or has been added.
LEMMA AmongLonger ==
    ASSUME NEW s \in Numbers, NEW x \in Nat, NEW y
    PROVE  Among(y, Append(s, x)) <=> Among(y, s) \/ y = x
<1>1. Len(s) \in Nat  BY DEF Numbers
<1>2. Len(Append(s, x)) = Len(s) + 1 /\ Append(s, x)[Len(s) + 1] = x
      /\ \A i \in 1 .. Len(s) : Append(s, x)[i] = s[i]
  BY LongerIs
<1>3. \A i \in 1 .. Len(s) + 1 : i \in 1 .. Len(s) \/ i = Len(s) + 1  BY <1>1
<1>4. \A i \in 1 .. Len(s) : i \in 1 .. Len(s) + 1  BY <1>1
<1>5. Len(s) + 1 \in 1 .. Len(s) + 1  BY <1>1
<1>. QED  BY <1>2, <1>3, <1>4, <1>5 DEF Among

\* An event at the end of the queue is one at the end of all events.
LEMMA EventsGrow ==
    ASSUME NEW s \in Numbers, NEW q \in Numbers, NEW x \in Nat
    PROVE  s \o Append(q, x) = Append(s \o q, x)
<1> DEFINE a == s \o Append(q, x)  b == Append(s \o q, x)
<1>1. Len(s) \in Nat /\ Len(q) \in Nat /\ s \o q \in Numbers /\ Len(s \o q) = Len(s) + Len(q)
  BY JoinIs DEF Numbers
<1>2. a \in Numbers /\ Len(a) = Len(s) + Len(q) + 1  BY <1>1, JoinIs, LongerIs
<1>3. b \in Numbers /\ Len(b) = Len(s) + Len(q) + 1  BY <1>1, LongerIs
<1>4. ASSUME NEW i \in 1 .. Len(s) + Len(q) + 1 PROVE a[i] = b[i]
  <2>1. CASE i <= Len(s)
    <3>1. i \in 1 .. Len(s) /\ i \in 1 .. Len(s \o q)  BY <1>1, <2>1
    <3>2. a[i] = s[i]  BY <3>1, JoinIs, LongerIs
    <3>3. b[i] = (s \o q)[i] /\ (s \o q)[i] = s[i]  BY <1>1, <3>1, JoinIs, LongerIs
    <3>. QED  BY <3>2, <3>3
  <2>2. CASE i > Len(s)
    <3> DEFINE j == i - Len(s)
    <3>1. j \in 1 .. Len(q) + 1 /\ Len(s) + j = i  BY <1>1, <2>2
    <3> HIDE DEF j
    <3>2. Append(q, x) \in Numbers /\ Len(Append(q, x)) = Len(q) + 1  BY LongerIs
    <3>3. a[i] = Append(q, x)[j]
      <4>1. a[Len(s) + j] = Append(q, x)[j]  BY <3>1, <3>2, JoinIs
      <4>. QED  BY <3>1, <4>1
    <3>4. CASE j <= Len(q)
      <4>1. j \in 1 .. Len(q) /\ i \in 1 .. Len(s \o q)  BY <1>1, <3>1, <3>4
      <4>2. Append(q, x)[j] = q[j]  BY <4>1, LongerIs
      <4>3. b[i] = (s \o q)[i] /\ (s \o q)[i] = q[j]  BY <1>1, <3>1, <4>1, JoinIs, LongerIs
      <4>. QED  BY <3>3, <4>2, <4>3
    <3>5. CASE ~(j <= Len(q))
      <4>1. j = Len(q) + 1 /\ i = Len(s \o q) + 1  BY <1>1, <3>1, <3>5
      <4>. QED  BY <1>1, <3>3, <4>1, LongerIs
    <3>. QED  BY <3>4, <3>5
  <2>. QED  BY <1>1, <2>1, <2>2
<1>. QED  BY <1>2, <1>3, <1>4, SeqEqual DEF Numbers

\* The first element of a sequence and the others.
LEMMA HeadTail ==
    ASSUME NEW q \in Numbers, q # <<>>
    PROVE  /\ Head(q) \in Nat /\ Tail(q) \in Numbers /\ Len(q) \in Nat \ {0}
           /\ Len(Tail(q)) = Len(q) - 1 /\ Head(q) = q[1]
           /\ \A i \in 1 .. Len(q) - 1 : Tail(q)[i] = q[i + 1]
<1>1. Len(q) \in Nat \ {0} /\ Head(q) = q[1] /\ Len(Tail(q)) = Len(q) - 1 /\ Tail(q) \in Numbers
  BY DEF Numbers
<1>2. q[1] \in Nat  BY <1>1 DEF Numbers
<1>3. \A i \in 1 .. Len(q) - 1 : Tail(q)[i] = q[i + 1]  BY <1>1 DEF Numbers
<1>. QED  BY <1>1, <1>2, <1>3

\* Taking an event leaves all events as they are.
LEMMA EventsStay ==
    ASSUME NEW s \in Numbers, NEW q \in Numbers, q # <<>>
    PROVE  Append(s, Head(q)) \o Tail(q) = s \o q
<1> DEFINE a == Append(s, Head(q))  t == Tail(q)
<1>1. /\ Len(s) \in Nat /\ Len(q) \in Nat \ {0} /\ Head(q) \in Nat /\ t \in Numbers
      /\ Len(t) = Len(q) - 1 /\ Head(q) = q[1]
      /\ \A i \in 1 .. Len(q) - 1 : t[i] = q[i + 1]
  BY HeadTail DEF Numbers
<1>2. a \in Numbers /\ Len(a) = Len(s) + 1 /\ a[Len(s) + 1] = q[1]
      /\ \A i \in 1 .. Len(s) : a[i] = s[i]
  BY <1>1, LongerIs
<1> HIDE DEF a, t
<1>3. a \o t \in Numbers /\ s \o q \in Numbers /\ Len(a \o t) = Len(s) + Len(q) /\ Len(s \o q) = Len(s) + Len(q)
  <2>1. a \o t \in Numbers /\ s \o q \in Numbers /\ Len(a \o t) = Len(a) + Len(t) /\ Len(s \o q) = Len(s) + Len(q)
    BY <1>1, <1>2, JoinIs
  <2>. QED  BY <1>1, <1>2, <2>1
<1>4. ASSUME NEW i \in 1 .. Len(s) + Len(q) PROVE (a \o t)[i] = (s \o q)[i]
  <2>1. CASE i <= Len(s)
    <3>1. i \in 1 .. Len(s) /\ i \in 1 .. Len(a)  BY <1>1, <1>2, <2>1
    <3>. QED  BY <1>1, <1>2, <3>1, JoinIs
  <2>2. CASE i = Len(s) + 1
    <3>1. i \in 1 .. Len(a) /\ 1 \in 1 .. Len(q)  BY <1>1, <1>2, <2>2
    <3>2. (a \o t)[i] = q[1]  BY <1>1, <1>2, <2>2, <3>1, JoinIs
    <3>3. (s \o q)[Len(s) + 1] = q[1]  BY <3>1, JoinIs
    <3>. QED  BY <2>2, <3>2, <3>3
  <2>3. CASE i > Len(s) + 1
    <3> DEFINE j == i - (Len(s) + 1)
    <3>1. j \in 1 .. Len(t) /\ Len(a) + j = i /\ j + 1 \in 1 .. Len(q) /\ Len(s) + (j + 1) = i
          /\ j \in 1 .. Len(q) - 1
      BY <1>1, <1>2, <2>3
    <3> HIDE DEF j
    <3>0. \A k \in 1 .. Len(t) : (a \o t)[Len(a) + k] = t[k]  BY <1>1, <1>2, JoinIs
    <3>2. (a \o t)[Len(a) + j] = t[j]  BY <3>0, <3>1
    <3>3. (s \o q)[Len(s) + (j + 1)] = q[j + 1]  BY <3>1, JoinIs
    <3>. QED  BY <1>1, <3>1, <3>2, <3>3
  <2>4. i \in Int /\ (i <= Len(s) \/ i = Len(s) + 1 \/ i > Len(s) + 1)  BY <1>1
  <2>. QED  BY <2>1, <2>2, <2>3, <2>4
<1>5. a \o t = s \o q  BY <1>3, <1>4, SeqEqual DEF Numbers
<1>. QED  BY <1>5 DEF a, t

\* The caught-up event may come when all of the replay is there and nothing else; any
\* other event may come at any time.
LEMMA PartsGrow ==
    ASSUME NEW e \in Numbers, NEW R, Parts(e, R), NEW x \in Nat,
           x = CaughtUp => Holds(e, R) /\ \A i \in 1 .. Len(e) : e[i] \in R
    PROVE  Parts(Append(e, x), R)
<1> DEFINE f == Append(e, x)
<1>1. Len(e) \in Nat  BY DEF Numbers
<1>2. Len(f) = Len(e) + 1 /\ f[Len(e) + 1] = x /\ \A i \in 1 .. Len(e) : f[i] = e[i]  BY LongerIs
<1> HIDE DEF f
<1>3. ASSUME NEW i \in 1 .. Len(f), f[i] = CaughtUp
      PROVE  /\ \A m \in R : \E j \in 1 .. i - 1 : f[j] = m
             /\ \A j \in 1 .. i - 1 : f[j] \in R
  <2>1. \A j \in 1 .. i - 1 : j \in 1 .. Len(e) /\ f[j] = e[j]  BY <1>1, <1>2
  <2>2. CASE i \in 1 .. Len(e)
    <3>1. e[i] = CaughtUp  BY <1>2, <1>3, <2>2
    <3>2. /\ \A m \in R : \E j \in 1 .. i - 1 : e[j] = m
          /\ \A j \in 1 .. i - 1 : e[j] \in R
      BY <2>2, <3>1 DEF Parts
    <3>. QED  BY <2>1, <3>2
  <2>3. CASE i = Len(e) + 1
    <3>1. x = CaughtUp /\ 1 .. i - 1 = 1 .. Len(e)  BY <1>1, <1>2, <1>3, <2>3
    <3>. QED  BY <2>1, <3>1 DEF Holds, Among
  <2>. QED  BY <1>1, <1>2, <2>2, <2>3
<1>. QED  BY <1>3 DEF Parts, f

\* Events that parted the replay still do when the last ones are dropped.
LEMMA PartsShrink ==
    ASSUME NEW s \in Numbers, NEW q \in Numbers, NEW R, Parts(s \o q, R)
    PROVE  Parts(s, R)
<1>1. Len(s) \in Nat /\ Len(q) \in Nat /\ Len(s \o q) = Len(s) + Len(q)
      /\ \A i \in 1 .. Len(s) : (s \o q)[i] = s[i]
  BY JoinIs DEF Numbers
<1>2. ASSUME NEW i \in 1 .. Len(s), s[i] = CaughtUp
      PROVE  /\ \A m \in R : \E j \in 1 .. i - 1 : s[j] = m
             /\ \A j \in 1 .. i - 1 : s[j] \in R
  <2>1. i \in 1 .. Len(s \o q) /\ (s \o q)[i] = CaughtUp  BY <1>1, <1>2
  <2>2. /\ \A m \in R : \E j \in 1 .. i - 1 : (s \o q)[j] = m
        /\ \A j \in 1 .. i - 1 : (s \o q)[j] \in R
    BY <2>1 DEF Parts
  <2>3. \A j \in 1 .. i - 1 : j \in 1 .. Len(s)  BY <1>1
  <2>. QED  BY <1>1, <2>2, <2>3
<1>. QED  BY <1>2 DEF Parts

-----------------------------------------------------------------------------
(***************************************************************************)
(* The materializer. What FoldLeft computes over a batch is unfolded: a    *)
(* function with the equations of the fold exists, so the chosen one has   *)
(* them, and it goes through the batch in order.                           *)
(***************************************************************************)
\* The materializer at work: its state, what of the batch is still pending, and the
\* snapshot it has emitted last.
Works == [phase : {"replaying", "live"}, data : Numbers, pending : Numbers, snapshot : Views]

\* The pending events join the data.
LEMMA ReducedIs ==
    ASSUME NEW a \in Works
    PROVE  /\ Reduced(a) \in Works /\ Reduced(a).phase = a.phase /\ Reduced(a).snapshot = a.snapshot
           /\ Reduced(a).data = a.data \o a.pending /\ Reduced(a).pending = <<>>
<1>1. a.data \in Numbers /\ a.pending \in Numbers /\ <<>> \in Numbers  BY DEF Works, Numbers
<1>2. a.data \o a.pending \in Numbers  BY <1>1, JoinIs
<1>. QED  BY <1>1, <1>2 DEF Works, Reduced

\* A snapshot of the data is emitted.
LEMMA EmittedIs ==
    ASSUME NEW a \in Works
    PROVE  /\ Emitted(a) \in Works /\ Emitted(a).phase = a.phase /\ Emitted(a).data = a.data
           /\ Emitted(a).pending = a.pending
           /\ Emitted(a).snapshot.phase = a.phase /\ Emitted(a).snapshot.data = a.data
<1>1. [phase |-> a.phase, data |-> a.data] \in Views  BY DEF Works, Views
<1>. QED  BY <1>1 DEF Works, Emitted

\* The caught-up event reduces what is pending and emits the first live snapshot.
LEMMA CatchUpIs ==
    ASSUME NEW a \in Works
    PROVE  /\ CatchUp(a) \in Works /\ CatchUp(a).data = a.data \o a.pending
           /\ CatchUp(a).pending = <<>> /\ CatchUp(a).snapshot.data = a.data \o a.pending
<1> DEFINE b == Reduced(a)  c == [b EXCEPT !.phase = "live"]
<1>1. b \in Works /\ b.data = a.data \o a.pending /\ b.pending = <<>>  BY ReducedIs
<1>2. CatchUp(a) = Emitted(c)  BY DEF CatchUp
<1> HIDE DEF b
<1>3. c \in Works /\ c.data = b.data /\ c.pending = b.pending  BY <1>1 DEF Works
<1> HIDE DEF c
<1>4. /\ Emitted(c) \in Works /\ Emitted(c).data = c.data /\ Emitted(c).pending = c.pending
      /\ Emitted(c).snapshot.data = c.data
  BY <1>3, EmittedIs
<1>. QED  BY <1>1, <1>2, <1>3, <1>4

\* Any other event becomes pending.
LEMMA LaterIs ==
    ASSUME NEW a \in Works, NEW event \in Nat
    PROVE  LET more == [a EXCEPT !.pending = Append(@, event)] IN
           /\ more \in Works /\ more.phase = a.phase /\ more.data = a.data
           /\ more.snapshot = a.snapshot /\ more.pending = Append(a.pending, event)
<1>1. a.pending \in Numbers  BY DEF Works
<1>2. Append(a.pending, event) \in Numbers  BY <1>1, LongerIs
<1>. QED  BY <1>1, <1>2 DEF Works

\* The materializer stays typed.
LEMMA WorkIs ==
    ASSUME NEW a \in Works, NEW event \in Nat
    PROVE  Materialize(event, a) \in Works
<1> DEFINE more == [a EXCEPT !.pending = Append(@, event)]
<1>1. more \in Works  BY LaterIs
<1>2. CatchUp(a) \in Works  BY CatchUpIs
<1> HIDE DEF more
<1>3. Reduced(more) \in Works  BY <1>1, ReducedIs
<1>4. Materialize(event, a) \in {CatchUp(a), more, Reduced(more)}  BY DEF Materialize, more
<1>. QED  BY <1>1, <1>2, <1>3, <1>4

\* Induction over the natural numbers, for a set of them.
LEMMA Inductively ==
    ASSUME NEW S, 0 \in S, \A n \in Nat : n \in S => n + 1 \in S
    PROVE  \A n \in Nat : n \in S
<1> DEFINE R == OpToRel(<, Nat)
           T == {n \in Nat : n \notin S}
<1>1. IsWellFoundedOn(R, Nat)  BY NatLessThanWellFounded
<1>2. \A m, n \in Nat : m < n => <<m, n>> \in R  BY DEF OpToRel
<1> HIDE DEF R
<1>3. SUFFICES ASSUME T # {} PROVE FALSE  OBVIOUS
<1>4. \E x \in T : \A y \in T : ~(<<y, x>> \in R)  BY <1>1, <1>3, WFMin
<1>5. PICK x \in T : \A y \in T : ~(<<y, x>> \in R)  BY <1>4
<1>6. x \in Nat /\ x # 0 /\ x - 1 \in Nat /\ x - 1 < x  BY <1>5
<1>7. x - 1 \notin T  BY <1>2, <1>5, <1>6
<1>8. x - 1 \in S  BY <1>6, <1>7
<1>. QED  BY <1>5, <1>6, <1>8

\* A set of positions has a last one.
LEMMA TopOf ==
    ASSUME NEW n \in Nat, NEW s \in SUBSET (1 .. n), s # {}
    PROVE  Max(s) \in s /\ \A y \in s : y <= Max(s)
<1> DEFINE R == OpToRel(<, Nat)
           T == {k \in Nat : \A y \in s : y <= k}
<1>1. IsWellFoundedOn(R, Nat)  BY NatLessThanWellFounded
<1>2. \A i, j \in Nat : i < j => <<i, j>> \in R  BY DEF OpToRel
<1> HIDE DEF R
<1>3. T # {}  <2>1. n \in T OBVIOUS <2> QED BY <2>1
<1>4. \E x \in T : \A y \in T : ~(<<y, x>> \in R)  BY <1>1, <1>3, WFMin
<1>5. PICK x \in T : \A y \in T : ~(<<y, x>> \in R)  BY <1>4
<1>6. x \in s
  <2>1. SUFFICES ASSUME x \notin s PROVE FALSE  OBVIOUS
  <2>2. ASSUME NEW y \in s PROVE y \in Nat /\ x \in Nat /\ y < x /\ y >= 1
    <3>1. y \in 1 .. n /\ x \in Nat /\ y <= x /\ y # x  BY <1>5, <2>1
    <3>. QED  BY <3>1
  <2>3. PICK y \in s : TRUE  OBVIOUS
  <2>4. x - 1 \in Nat /\ x - 1 < x  BY <2>2, <2>3
  <2>5. \A z \in s : z <= x - 1  BY <2>2
  <2>6. x - 1 \in T  BY <2>4, <2>5
  <2>. QED  BY <1>2, <1>5, <2>4, <2>6
<1>7. \E m \in s : \A y \in s : m >= y  BY <1>5, <1>6
<1>8. Max(s) \in s /\ \A y \in s : Max(s) >= y  BY <1>7 DEF Max
<1>. QED  BY <1>8

\* What a fold over the first n elements computes for every set of positions.
Folding(g, f, base, q, n) ==
    \A s \in SUBSET (1 .. n) :
        g[s] = IF s = {} THEN base ELSE f[<<g[s \ {Max(s)}], q[Max(s)]>>]

HasFold(X, f, base, q, n) == \E g \in [SUBSET (1 .. n) -> X] : Folding(g, f, base, q, n)

\* A function that folds over every set of the first n positions exists, step by
\* step, although the fold of the library only chooses one.
LEMMA FoldsExist ==
    ASSUME NEW X, NEW E, NEW f, NEW base \in X, NEW q \in Seq(E),
           \A v \in X, e \in E : f[<<v, e>>] \in X
    PROVE  \A n \in Nat : n <= Len(q) => HasFold(X, f, base, q, n)
<1> DEFINE S == {n \in Nat : n <= Len(q) => HasFold(X, f, base, q, n)}
<1>1. 0 \in S
  <2> DEFINE g == [s \in SUBSET (1 .. 0) |-> base]
  <2>1. \A s \in SUBSET (1 .. 0) : s = {}  OBVIOUS
  <2>2. g \in [SUBSET (1 .. 0) -> X] /\ Folding(g, f, base, q, 0)  BY <2>1 DEF Folding
  <2>. QED  BY <2>2 DEF HasFold
<1>2. ASSUME NEW n \in Nat, n \in S PROVE n + 1 \in S
  <2>1. SUFFICES ASSUME n + 1 <= Len(q) PROVE HasFold(X, f, base, q, n + 1)
    OBVIOUS
  <2>0. n <= Len(q)  BY <2>1
  <2>2. PICK g \in [SUBSET (1 .. n) -> X] : Folding(g, f, base, q, n)
    <3>1. HasFold(X, f, base, q, n)  BY <1>2, <2>0
    <3>. QED  BY <3>1 DEF HasFold
  <2>3. q[n + 1] \in E  BY <2>1
  <2> DEFINE h == [s \in SUBSET (1 .. n + 1) |-> IF n + 1 \in s THEN f[<<g[s \ {n + 1}], q[n + 1]>>] ELSE g[s]]
  <2>4. ASSUME NEW s \in SUBSET (1 .. n + 1)
        PROVE  /\ n + 1 \notin s => s \in SUBSET (1 .. n)
               /\ n + 1 \in s => s \ {n + 1} \in SUBSET (1 .. n) /\ Max(s) = n + 1
    <3>1. n + 1 \in s => Max(s) = n + 1
      <4>1. ASSUME n + 1 \in s PROVE Max(s) \in 1 .. n + 1 /\ n + 1 <= Max(s)
        <5>1. n + 1 \in Nat /\ s # {}  BY <4>1
        <5>. QED  BY <4>1, <5>1, TopOf
      <4>. QED  BY <4>1
    <3>2. \A i \in 1 .. n + 1 : i # n + 1 => i \in 1 .. n  OBVIOUS
    <3>. QED  BY <3>1, <3>2
  <2>5. h \in [SUBSET (1 .. n + 1) -> X]
    <3>1. ASSUME NEW s \in SUBSET (1 .. n + 1)
          PROVE  (IF n + 1 \in s THEN f[<<g[s \ {n + 1}], q[n + 1]>>] ELSE g[s]) \in X
      <4>1. CASE n + 1 \in s
        <5>1. g[s \ {n + 1}] \in X  BY <2>2, <2>4, <4>1
        <5>2. <<g[s \ {n + 1}], q[n + 1]>> \in X \X E  BY <5>1, <2>3
        <5>. QED  BY <5>2, <4>1
      <4>2. CASE n + 1 \notin s  BY <2>2, <2>4, <4>2
      <4>. QED  BY <4>1, <4>2
    <3>. QED  BY <3>1
  <2>6. ASSUME NEW s \in SUBSET (1 .. n + 1)
        PROVE  h[s] = IF s = {} THEN base ELSE f[<<h[s \ {Max(s)}], q[Max(s)]>>]
    <3>1. CASE n + 1 \in s
      <4>1. s \ {n + 1} \in SUBSET (1 .. n + 1) /\ n + 1 \notin s \ {n + 1}  OBVIOUS
      <4>2. h[s \ {n + 1}] = g[s \ {n + 1}]  BY <4>1
      <4>3. h[s] = f[<<g[s \ {n + 1}], q[n + 1]>>]  BY <3>1
      <4>. QED  BY <2>4, <3>1, <4>2, <4>3
    <3>2. CASE n + 1 \notin s
      <4>1. s \in SUBSET (1 .. n) /\ h[s] = g[s]  BY <2>4, <3>2
      <4>2. CASE s = {}  BY <2>2, <4>1, <4>2 DEF Folding
      <4>3. CASE s # {}
        <5>1. s \ {Max(s)} \in SUBSET (1 .. n + 1) /\ n + 1 \notin s \ {Max(s)}  BY <3>2
        <5>2. h[s \ {Max(s)}] = g[s \ {Max(s)}]  BY <5>1
        <5>. QED  BY <2>2, <4>1, <4>3, <5>2 DEF Folding
      <4>. QED  BY <4>2, <4>3
    <3>. QED  BY <3>1, <3>2
  <2> HIDE DEF h
  <2>7. Folding(h, f, base, q, n + 1)  BY <2>6 DEF Folding
  <2>. QED  BY <2>5, <2>7 DEF HasFold
<1> HIDE DEF S
<1>3. \A n \in Nat : n \in S  BY <1>1, <1>2, Inductively
<1>. QED  BY <1>3 DEF S


\* v comes out of applying f to one element of q after the other.
InTurn(X, f, base, q, v) ==
    \E h \in [0 .. Len(q) -> X] :
        h[0] = base /\ h[Len(q)] = v /\ \A i \in 1 .. Len(q) : h[i] = f[<<h[i - 1], q[i]>>]

Within(X, E, f) == \A v \in X, e \in E : f[<<v, e>>] \in X

\* What iterates so over all positions goes through them in order.
LEMMA FoldsInTurn ==
    ASSUME NEW X, NEW E, NEW f, NEW base \in X, NEW q \in Seq(E), NEW it,
           Within(X, E, f), Folding(it, f, base, q, Len(q))
    PROVE  InTurn(X, f, base, q, it[1 .. Len(q)])
<1>1. Len(q) \in Nat  OBVIOUS
<1>2. ASSUME NEW i \in 1 .. Len(q) PROVE it[1 .. i] = f[<<it[1 .. i - 1], q[i]>>]
  <2>1. i \in Nat /\ i \in 1 .. i /\ i <= Len(q)  BY <1>1
  <2>2. 1 .. i \in SUBSET (1 .. Len(q)) /\ 1 .. i # {}
    <3>1. \A j \in 1 .. i : j \in 1 .. Len(q)  BY <1>1, <2>1
    <3>. QED  BY <2>1, <3>1
  <2>3. 1 .. i \in SUBSET (1 .. i)  OBVIOUS
  <2>4. Max(1 .. i) \in 1 .. i /\ i <= Max(1 .. i)  BY ONLY <2>1, <2>2, <2>3, TopOf
  <2>5. Max(1 .. i) = i  BY <2>1, <2>4
  <2>6. (1 .. i) \ {i} = 1 .. i - 1  OBVIOUS
  <2>. QED  BY <2>2, <2>5, <2>6 DEF Folding
<1>3. it[1 .. 0] = base
  <2>1. 1 .. 0 = {} /\ 1 .. 0 \in SUBSET (1 .. Len(q))  OBVIOUS
  <2>. QED  BY <2>1 DEF Folding
<1>4. ASSUME NEW n \in 0 .. Len(q) PROVE it[1 .. n] \in X
  <2> DEFINE S == {m \in Nat : m <= Len(q) => it[1 .. m] \in X}
  <2>1. 0 \in S  BY <1>3
  <2>2. ASSUME NEW m \in Nat, m \in S PROVE m + 1 \in S
    <3>1. ASSUME m + 1 <= Len(q) PROVE it[1 .. m + 1] \in X
      <4>1. m + 1 \in 1 .. Len(q) /\ m <= Len(q) /\ (m + 1) - 1 = m  BY <1>1, <3>1
      <4>2. it[1 .. m] \in X /\ q[m + 1] \in E  BY <2>2, <4>1
      <4>3. it[1 .. m + 1] = f[<<it[1 .. m], q[m + 1]>>]  BY <1>2, <4>1
      <4>. QED  BY <4>2, <4>3 DEF Within
    <3>. QED  BY <3>1
  <2> HIDE DEF S
  <2>3. n \in Nat /\ n <= Len(q)  BY <1>1
  <2>4. n \in S  BY <2>1, <2>2, <2>3, Inductively
  <2>. QED  BY <2>3, <2>4 DEF S
<1> DEFINE h == [i \in 0 .. Len(q) |-> it[1 .. i]]
<1>5. h \in [0 .. Len(q) -> X]  BY <1>4
<1>6. 0 \in 0 .. Len(q) /\ Len(q) \in 0 .. Len(q)
      /\ \A i \in 1 .. Len(q) : i \in 0 .. Len(q) /\ i - 1 \in 0 .. Len(q)
  BY <1>1
<1>7. h[0] = base /\ h[Len(q)] = it[1 .. Len(q)]  BY <1>3, <1>6
<1>8. \A i \in 1 .. Len(q) : h[i] = f[<<h[i - 1], q[i]>>]  BY <1>2, <1>6
<1>. QED  BY <1>5, <1>7, <1>8 DEF InTurn

\* FoldLeft(Materialize, ...) works off one event after the other.
LEMMA WorkedInTurn ==
    ASSUME NEW base \in Works, NEW q \in Numbers
    PROVE  \E h \in [0 .. Len(q) -> Works] :
              /\ h[0] = base
              /\ \A i \in 1 .. Len(q) : h[i] = Materialize(q[i], h[i - 1])
              /\ FoldLeft(LAMBDA a, event : Materialize(event, a), base, q) = h[Len(q)]
<1> DEFINE X == Works
           E == Nat
           D == DOMAIN q
           it == CHOOSE it : it = [s \in SUBSET D |-> IF s = {} THEN base
                                                      ELSE Materialize(q[Max(s)], it[s \ {Max(s)}])]
           Y == X \cup {it[s] : s \in SUBSET D}
           f == [p \in Y \X E |-> Materialize(p[2], p[1])]
<1>0. \A v \in X, e \in E : Materialize(e, v) \in X  BY WorkIs
<1>01. base \in X /\ q \in Seq(E)  BY DEF Numbers
<1> HIDE DEF X, E
<1>1. D = 1 .. Len(q) /\ Len(q) \in Nat  BY DEF Numbers
<1>2. FoldLeft(LAMBDA a, event : Materialize(event, a), base, q) = it[D]
  BY DEF FoldLeft, MapThenFoldSet
<1>3. \A v \in Y, e \in E : f[<<v, e>>] = Materialize(e, v)  OBVIOUS
<1>4. \A v \in X : v \in Y  OBVIOUS
<1>5. \A s \in SUBSET D : it[s] \in Y  OBVIOUS
<1> HIDE DEF f, Y
<1>6. \A v \in X, e \in E : f[<<v, e>>] \in X /\ f[<<v, e>>] = Materialize(e, v)  BY <1>0, <1>3, <1>4
<1>7. PICK g \in [SUBSET (1 .. Len(q)) -> X] : Folding(g, f, base, q, Len(q))
  <2>1. Len(q) <= Len(q)  BY <1>1
  <2>2. HasFold(X, f, base, q, Len(q))  BY <1>01, <1>1, <1>6, <2>1, FoldsExist
  <2>. QED  BY <2>2 DEF HasFold
<1>8. \A s \in SUBSET D : s # {} => q[Max(s)] \in E /\ s \ {Max(s)} \in SUBSET D
  <2>1. ASSUME NEW s \in SUBSET D, s # {} PROVE q[Max(s)] \in E
    <3>1. Max(s) \in 1 .. Len(q)  BY <1>1, <2>1, TopOf
    <3>. QED  BY <1>01, <3>1
  <2>. QED  BY <2>1
<1>9. g = [s \in SUBSET D |-> IF s = {} THEN base ELSE Materialize(q[Max(s)], g[s \ {Max(s)}])]
  <2>1. ASSUME NEW s \in SUBSET D
        PROVE  g[s] = IF s = {} THEN base ELSE Materialize(q[Max(s)], g[s \ {Max(s)}])
    <3>1. CASE s = {}  BY <1>1, <1>7, <3>1 DEF Folding
    <3>2. CASE s # {}
      <4>1. q[Max(s)] \in E /\ g[s \ {Max(s)}] \in X  BY <1>1, <1>7, <1>8, <3>2
      <4>2. g[s] = f[<<g[s \ {Max(s)}], q[Max(s)]>>]  BY <1>1, <1>7, <3>2 DEF Folding
      <4>. QED  BY <1>6, <3>2, <4>1, <4>2
    <3>. QED  BY <3>1, <3>2
  <2>. QED  BY <1>1, <1>7, <2>1
<1>10. it = [s \in SUBSET D |-> IF s = {} THEN base ELSE Materialize(q[Max(s)], it[s \ {Max(s)}])]
  BY <1>9
<1> HIDE DEF it
<1>11. Folding(it, f, base, q, Len(q))
  <2>1. ASSUME NEW s \in SUBSET D
        PROVE  it[s] = IF s = {} THEN base ELSE f[<<it[s \ {Max(s)}], q[Max(s)]>>]
    <3>1. CASE s = {}  BY <1>10, <3>1
    <3>2. CASE s # {}
      <4>1. q[Max(s)] \in E /\ it[s \ {Max(s)}] \in Y  BY <1>5, <1>8, <3>2
      <4>2. it[s] = Materialize(q[Max(s)], it[s \ {Max(s)}])  BY <1>10, <3>2
      <4>. QED  BY <1>3, <3>2, <4>1, <4>2
    <3>. QED  BY <3>1, <3>2
  <2>. QED  BY <1>1, <2>1 DEF Folding
<1>12. PICK h \in [0 .. Len(q) -> X] :
          /\ h[0] = base
          /\ \A i \in 1 .. Len(q) : h[i] = f[<<h[i - 1], q[i]>>]
          /\ it[1 .. Len(q)] = h[Len(q)]
  <2>1. Within(X, E, f)  BY <1>6 DEF Within
  <2>2. InTurn(X, f, base, q, it[1 .. Len(q)])  BY <1>01, <1>11, <2>1, FoldsInTurn
  <2>. QED  BY <2>2 DEF InTurn
<1>13. ASSUME NEW i \in 1 .. Len(q) PROVE h[i] = Materialize(q[i], h[i - 1])
  <2>1. i - 1 \in 0 .. Len(q) /\ q[i] \in E  BY <1>01, <1>1
  <2>2. h[i - 1] \in X  BY <1>12, <2>1
  <2>. QED  BY <1>6, <1>12, <2>1, <2>2
<1>. QED  BY <1>1, <1>2, <1>12, <1>13 DEF X

\* After n of the events that were seen: each is in the data or pending, and what is
\* live holds the replay.
Worked(a, n, R) ==
    /\ \A i \in 1 .. n : seen[i] # CaughtUp => Among(seen[i], a.data) \/ Among(seen[i], a.pending)
    /\ a.phase = "live" => Holds(a.data, R)
    /\ a.snapshot.phase = "live" => Holds(a.snapshot.data, R)

\* A sequence that holds the replay still does when others follow.
LEMMA MoreHolds ==
    ASSUME NEW s \in Numbers, NEW t \in Numbers, NEW R, Holds(s, R) PROVE Holds(s \o t, R)
BY AmongJoin DEF Holds

\* Once the pending events are reduced, all of the n events are in the data.
LEMMA ReducedWorks ==
    ASSUME NEW a \in Works, NEW n, NEW R, Worked(a, n, R)
    PROVE  /\ Worked(Reduced(a), n, R)
           /\ \A i \in 1 .. n : seen[i] # CaughtUp => Among(seen[i], Reduced(a).data)
<1> DEFINE b == Reduced(a)
<1>1. /\ a.data \in Numbers /\ a.pending \in Numbers
      /\ b.phase = a.phase /\ b.snapshot = a.snapshot /\ b.data = a.data \o a.pending
  BY ReducedIs DEF Works
<1> HIDE DEF b
<1>2. \A i \in 1 .. n : seen[i] # CaughtUp => Among(seen[i], b.data)
  BY <1>1, AmongJoin DEF Worked
<1>3. b.phase = "live" => Holds(b.data, R)  BY <1>1, MoreHolds DEF Worked
<1>4. b.snapshot.phase = "live" => Holds(b.snapshot.data, R)  BY <1>1 DEF Worked
<1>5. Worked(b, n, R)  BY <1>2, <1>3, <1>4 DEF Worked
<1>. QED  BY <1>2, <1>5 DEF b

\* One event of a batch.
LEMMA OneWorked ==
    ASSUME NEW a \in Works, NEW n \in Nat, NEW R, Worked(a, n, R), seen \in Numbers,
           n + 1 \in 1 .. Len(seen), Parts(seen, R), CaughtUp \notin R
    PROVE  Worked(Materialize(seen[n + 1], a), n + 1, R)
<1> DEFINE x == seen[n + 1]
           more == [a EXCEPT !.pending = Append(@, x)]
<1>0. /\ x \in Nat /\ Len(seen) \in Nat /\ a.data \in Numbers /\ a.pending \in Numbers
      /\ \A i \in 1 .. n + 1 : i \in 1 .. n \/ i = n + 1
  BY DEF Numbers, Works
<1>1. CASE x = CaughtUp
  <2> DEFINE c == CatchUp(a)  d == a.data \o a.pending
  <2>1. c.data = d /\ c.snapshot.data = d  BY CatchUpIs
  <2>2. \A y : Among(y, d) <=> Among(y, a.data) \/ Among(y, a.pending)  BY <1>0, AmongJoin
  <2>3. Materialize(x, a) = c  BY <1>1 DEF Materialize
  <2> HIDE DEF c, d, x
  <2>4. \A i \in 1 .. n : seen[i] # CaughtUp => Among(seen[i], d)  BY <2>2 DEF Worked
  <2>5. ASSUME NEW m \in R PROVE Among(m, d)
    <3>1. PICK j \in 1 .. (n + 1) - 1 : seen[j] = m  BY <1>1 DEF Parts, x
    <3>2. j \in 1 .. n /\ seen[j] # CaughtUp  BY <3>1
    <3>. QED  BY <2>4, <3>1, <3>2
  <2>6. Holds(d, R)  BY <2>5 DEF Holds
  <2>7. \A i \in 1 .. n + 1 : seen[i] # CaughtUp => Among(seen[i], d)
    BY <1>0, <1>1, <2>4 DEF x
  <2>8. Worked(c, n + 1, R)  BY <2>1, <2>6, <2>7 DEF Worked
  <2>. QED  BY <2>3, <2>8 DEF x
<1>2. CASE x # CaughtUp
  <2>1. /\ more \in Works /\ more.phase = a.phase /\ more.data = a.data
        /\ more.snapshot = a.snapshot /\ more.pending = Append(a.pending, x)
    BY <1>0, LaterIs
  <2>2. \A y : Among(y, Append(a.pending, x)) <=> Among(y, a.pending) \/ y = x
    BY <1>0, AmongLonger
  <2>3. Materialize(x, a) \in {more, Reduced(more)}  BY <1>2 DEF Materialize
  <2> HIDE DEF more, x
  <2>4. \A i \in 1 .. n + 1 : seen[i] # CaughtUp => Among(seen[i], more.data) \/ Among(seen[i], more.pending)
    BY <1>0, <2>1, <2>2 DEF Worked, x
  <2>5. Worked(more, n + 1, R)  BY <2>1, <2>4 DEF Worked
  <2>6. Worked(Reduced(more), n + 1, R)  BY <2>1, <2>5, ReducedWorks
  <2>. QED  BY <2>3, <2>5, <2>6 DEF x
<1>. QED  BY <1>1, <1>2

\* A whole batch, with what is emitted behind it.
LEMMA BatchWorked ==
    ASSUME StreamTyped, Batched, NEW R, Parts(seen, R), CaughtUp \notin R,
           materialized.phase = "live" => Holds(materialized.data, R),
           shown.phase = "live" => Holds(shown.data, R)
    PROVE  /\ Processed \in Works
           /\ Worked(Processed, Len(seen), R)
           /\ \A i \in 1 .. Len(seen) : seen[i] # CaughtUp => Among(seen[i], Processed.data)
<1> DEFINE a == [phase |-> materialized.phase, data |-> materialized.data,
                 pending |-> <<>>, snapshot |-> shown]
           d == Len(seen) - Len(batch)
           f == FoldLeft(LAMBDA w, event : Materialize(event, w), a, batch)
<1>1. a \in Works /\ batch \in Numbers /\ seen \in Numbers /\ a.phase = materialized.phase
      /\ a.data = materialized.data /\ a.snapshot = shown
  BY DEF StreamTyped, Works, Views, Numbers
<1>2. Processed = Closing(f)  BY DEF Processed
<1>3. /\ Len(seen) \in Nat /\ Len(batch) \in Nat /\ d \in Nat /\ d + Len(batch) = Len(seen)
      /\ \A i \in 1 .. Len(batch) : batch[i] = seen[d + i]
      /\ \A i \in 1 .. d : seen[i] # CaughtUp => Among(seen[i], materialized.data)
  BY <1>1 DEF Batched, Numbers
<1> HIDE DEF a, d
<1>4. PICK h \in [0 .. Len(batch) -> Works] :
         /\ h[0] = a
         /\ \A i \in 1 .. Len(batch) : h[i] = Materialize(batch[i], h[i - 1])
         /\ f = h[Len(batch)]
  BY <1>1, WorkedInTurn
<1> HIDE DEF f
<1> DEFINE S == {n \in Nat : n <= Len(batch) => Worked(h[n], d + n, R)}
<1>5. 0 \in S
  <2>1. d + 0 = d  BY <1>3
  <2>2. Worked(a, d, R)  BY <1>1, <1>3 DEF Worked
  <2>. QED  BY <1>4, <2>1, <2>2
<1>6. ASSUME NEW n \in Nat, n \in S PROVE n + 1 \in S
  <2> SUFFICES ASSUME n + 1 <= Len(batch) PROVE Worked(h[n + 1], d + (n + 1), R)  OBVIOUS
  <2>1. /\ n + 1 \in 1 .. Len(batch) /\ n \in 0 .. Len(batch) /\ (n + 1) - 1 = n
        /\ d + n \in Nat /\ (d + n) + 1 \in 1 .. Len(seen) /\ d + (n + 1) = (d + n) + 1
    BY <1>3
  <2>2. h[n + 1] = Materialize(seen[(d + n) + 1], h[n])  BY <1>3, <1>4, <2>1
  <2>3. h[n] \in Works /\ Worked(h[n], d + n, R)  BY <1>4, <1>6, <2>1
  <2>4. Worked(Materialize(seen[(d + n) + 1], h[n]), (d + n) + 1, R)
    BY <1>1, <2>1, <2>3, OneWorked
  <2>. QED  BY <2>1, <2>2, <2>4
<1> HIDE DEF S
<1>7. Len(batch) \in S  BY <1>3, <1>5, <1>6, Inductively
<1>8. f \in Works /\ Worked(f, Len(seen), R)
  <2>1. Len(batch) \in 0 .. Len(batch)  BY <1>3
  <2>2. Len(batch) <= Len(batch)  BY <1>3
  <2>3. Worked(h[Len(batch)], d + Len(batch), R)  BY <1>7, <2>2 DEF S
  <2>4. h[Len(batch)] \in Works  BY <1>4, <2>1
  <2>. QED  BY <1>3, <1>4, <2>3, <2>4
<1>9. /\ Reduced(f) \in Works /\ Worked(Reduced(f), Len(seen), R)
      /\ \A i \in 1 .. Len(seen) : seen[i] # CaughtUp => Among(seen[i], Reduced(f).data)
  BY <1>8, ReducedIs, ReducedWorks
<1>10. CASE Closing(f) = Reduced(f)  BY <1>2, <1>9, <1>10
<1>11. CASE f.phase = "live" /\ Closing(f) = Emitted(Reduced(f))
  <2> DEFINE r == Reduced(f)  e == Emitted(r)
  <2>1. r.phase = "live" /\ r \in Works  BY <1>8, <1>11, ReducedIs
  <2> HIDE DEF r
  <2>2. e \in Works /\ e.phase = r.phase /\ e.data = r.data /\ e.snapshot.data = r.data
    BY <2>1, EmittedIs
  <2>3. Holds(r.data, R)  BY <1>9, <2>1 DEF Worked, r
  <2>4. \A i \in 1 .. Len(seen) : seen[i] # CaughtUp => Among(seen[i], e.data)
    BY <1>9, <2>2 DEF r
  <2> HIDE DEF e
  <2>5. Worked(e, Len(seen), R)  BY <2>2, <2>3, <2>4 DEF Worked
  <2>6. Processed = e  BY <1>2, <1>11 DEF e, r
  <2>. QED  BY <2>2, <2>4, <2>5, <2>6
<1>. QED  BY <1>10, <1>11 DEF Closing

-----------------------------------------------------------------------------
(***************************************************************************)
(* What the steps of the lease do to the stream.                           *)
(***************************************************************************)
\* The lease of the stream is the only one.
LEMMA TheLease ==
    ASSUME OneLease
    PROVE  Lease \in Leases /\ \A l \in Leases : l = Lease
BY DEF OneLease, Lease

\* The events seen and queued are a sequence that starts with those seen.
LEMMA GivenIs ==
    ASSUME StreamTyped
    PROVE  /\ Given \in Numbers /\ seen \in Numbers /\ queue \in Numbers /\ batch \in Numbers
           /\ Len(Given) = Len(seen) + Len(queue)
           /\ Len(Given) \in Nat /\ Len(seen) \in Nat /\ Len(queue) \in Nat /\ Len(batch) \in Nat
           /\ \A i \in 1 .. Len(seen) : Given[i] = seen[i]
           /\ Given = <<>> => seen = <<>> /\ queue = <<>>
<1>1. seen \in Numbers /\ queue \in Numbers /\ batch \in Numbers  BY DEF StreamTyped
<1>2. /\ Given \in Numbers /\ Len(Given) = Len(seen) + Len(queue)
      /\ \A i \in 1 .. Len(seen) : Given[i] = seen[i]
  BY <1>1, JoinIs DEF Given
<1>3. Len(Given) \in Nat /\ Len(seen) \in Nat /\ Len(queue) \in Nat /\ Len(batch) \in Nat
  BY <1>1, <1>2 DEF Numbers
<1>4. ASSUME Given = <<>> PROVE seen = <<>> /\ queue = <<>>
  <2>1. Len(Given) = 0  BY <1>4
  <2>2. Len(seen) = 0 /\ Len(queue) = 0  BY <1>2, <1>3, <2>1
  <2>. QED  BY <1>1, <2>2 DEF Numbers
<1>. QED  BY <1>1, <1>2, <1>3, <1>4

\* What a step of the lease may do to what the events are compared with.
Moves ==
    /\ handled[Lease] \subseteq handled'[Lease]
    /\ pc'[Lease] \in Starting => pc[Lease] \in Starting
    /\ replay'[Lease] = replay[Lease] \/ pc[Lease] \in Starting

\* A step of the lease only adds to what is handled, never starts it again, and captures
\* the replay no later than the consumer is created.
LEMMA LeaseMoves ==
    ASSUME OneLease, TypeOK, [Next]_vars
    PROVE  Moves
<1>0. Lease \in Leases /\ \A l \in Leases : l = Lease  BY TheLease
<1>1. CASE UNCHANGED vars
  BY <1>1 DEF Moves, vars, leaseVars, history
<1>2. CASE Next
  <2>1. handled[Lease] \subseteq handled'[Lease]  BY <1>0, <1>2, StoreMovesForward DEF Forward
  <2>2. CASE Stays(Lease)  BY <2>1, <2>2 DEF Stays, Moves
  <2>3. CASE OwnStep(Lease)
    <3>1. Lease \in DOMAIN pc  BY <1>0 DEF TypeOK
    <3>2. replay' = replay \/ pc[Lease] = "creating"
      BY <2>3
      DEF OwnStep, Work, Handler, Open, Load, Create, Consume, StartFails, ReceiveNext,
          ReceiveAgain, Receive, Saved, HandlerSucceeds, LoopEnds, FlushAfterFailure,
          TimedFlush, Save, Finish, Fail, HandlerFails, Close, MessagesEnd, Crash, history
    <3>3. ASSUME NEW s, Goto(Lease, s) PROVE pc'[Lease] = s  BY <3>1, <3>3 DEF Goto
    <3>4. pc'[Lease] \in Starting => pc[Lease] \in Starting
      <4>1. CASE Open(Lease) \/ Load(Lease) \/ Create(Lease) \/ StartFails(Lease) \/ Consume(Lease)
        BY <3>3, <4>1 DEF Open, Load, Create, StartFails, Consume, Starting
      <4>2. CASE ReceiveNext(Lease) \/ ReceiveAgain(Lease)
        <5>1. PICK m : Receive(Lease, m)  BY <4>2 DEF ReceiveNext, ReceiveAgain
        <5>. QED  BY <3>3, <5>1 DEF Receive, Starting
      <4>3. CASE Saved(Lease)  BY <3>3, <4>3 DEF Saved, Commit, Starting
      <4>4. CASE HandlerSucceeds(Lease)  BY <3>3, <4>4 DEF HandlerSucceeds, Commit, Starting
      <4>5. CASE LoopEnds(Lease) \/ Finish(Lease) \/ Fail(Lease) \/ HandlerFails(Lease) \/ Crash(Lease)
        BY <3>3, <4>5 DEF LoopEnds, Finish, Fail, HandlerFails, Crash, Starting
      <4>6. CASE FlushAfterFailure(Lease) \/ TimedFlush(Lease) \/ Save(Lease) \/ Close(Lease) \/ MessagesEnd(Lease)
        BY <4>6 DEF FlushAfterFailure, TimedFlush, Save, Close, MessagesEnd, leaseVars
      <4>. QED  BY <2>3, <4>1, <4>2, <4>3, <4>4, <4>5, <4>6 DEF OwnStep, Work, Handler
    <3>. QED  BY <2>1, <3>2, <3>4 DEF Moves, Starting
  <2>. QED  BY <1>0, <1>2, <2>2, <2>3, OneMoves
<1>. QED  BY <1>1, <1>2

\* The events stay as they are, and nobody but the consumer leaves.
LEMMA PartingStays ==
    ASSUME Parting, Moves,
           UNCHANGED <<adapter, queue, seen, batch, materialized, shown>>,
           queueState' # "shutdown" => queueState # "shutdown",
           marker' = "waiting" => marker = "waiting",
           consumer' = "pulling" => consumer = "pulling",
           handled'[Lease] = handled[Lease] \/ ~Streaming
    PROVE  Parting'
<1>1. Given' = Given /\ (Streaming' <=> Streaming)  BY DEF Given, Streaming
<1>2. CASE pc[Lease] \in Starting
  <2>1. Given = <<>> /\ batch = <<>> /\ materialized.phase # "live" /\ shown.phase # "live"
    BY <1>2 DEF Parting, Untouched
  <2>2. Len(Given) = 0  BY <2>1
  <2>3. Parts(Given, replay[Lease])' /\ ReplayFirst'
    BY <1>1, <2>2 DEF Parts, ReplayFirst
  <2>4. AllGiven'  BY <1>1 DEF Parting, AllGiven, Holds, Among
  <2>5. Untouched' /\ LiveHolds'  BY <1>1, <2>1 DEF Untouched, LiveHolds
  <2>6. WorkedOff'  BY DEF Parting, WorkedOff, Batched, Among
  <2>. QED  BY <2>3, <2>4, <2>5, <2>6 DEF Parting
<1>3. CASE pc[Lease] \notin Starting
  <2>1. replay'[Lease] = replay[Lease] /\ pc'[Lease] \notin Starting  BY <1>3 DEF Moves
  <2>2. Parts(Given, replay[Lease])' /\ ReplayFirst'
    BY <1>1, <2>1 DEF Parting, Parts, ReplayFirst
  <2>3. AllGiven'  BY <1>1 DEF Parting, AllGiven, Holds, Among
  <2>4. Untouched'  BY <2>1 DEF Untouched
  <2>5. LiveHolds'  BY <2>1 DEF Parting, LiveHolds, Holds, Among
  <2>6. WorkedOff'  BY DEF Parting, WorkedOff, Batched, Among
  <2>. QED  BY <2>2, <2>3, <2>4, <2>5, <2>6 DEF Parting
<1>. QED  BY <1>2, <1>3

-----------------------------------------------------------------------------
(***************************************************************************)
(* What the steps of the stream do.                                        *)
(***************************************************************************)
\* A delivery that is offered before the caught-up event is one of the replay.
LEMMA BeforeTheMarker ==
    ASSUME OneLease, ConsumerIInv, ~LivePurge, redeliveries = 0, pc[Lease] = "handling", remaining[Lease] # 0
    PROVE  current[Lease] \in replay[Lease]
<1>0. Lease \in Leases  BY TheLease
<1>1. TypeOK /\ Placed(Lease) /\ InOrder(Lease)  BY <1>0 DEF ConsumerIInv, Replayed
<1>2. Remains(Lease) /\ Ahead(Lease) /\ Busy(Lease) /\ current[Lease] = position[Lease]
  BY <1>1 DEF InOrder, Loop, Busy
<1>3. ToDo(Lease) # {}  BY <1>2, FS_EmptySet DEF Remains
<1>4. PICK m \in replay[Lease] : m > position[Lease] \/ m = current[Lease]  BY <1>3 DEF ToDo
<1>5. /\ m \in Sequences /\ m \in Nat /\ current[Lease] \in Nat /\ MaxSequence \in Nat
      /\ current[Lease] \in 1 .. position[Lease] /\ position[Lease] \in Nat
  BY <1>0, <1>1, LeaseTypes, SettingsHold DEF LeaseTyped, Placed
<1>6. current[Lease] <= m /\ current[Lease] \in Sequences  BY <1>2, <1>4, <1>5 DEF Sequences
<1>. QED  BY <1>2, <1>6 DEF Ahead

\* An event that joins the queue is the last of all events.
LEMMA GivenGrows ==
    ASSUME StreamTyped, NEW x \in Nat, queue' = Append(queue, x), seen' = seen
    PROVE  /\ Given' = Append(Given, x)
           /\ Len(Given') = Len(Given) + 1 /\ Given'[Len(Given) + 1] = x
           /\ \A i \in 1 .. Len(Given) : Given'[i] = Given[i]
           /\ \A y : Among(y, Given') <=> Among(y, Given) \/ y = x
<1>1. Given \in Numbers /\ seen \in Numbers /\ queue \in Numbers  BY GivenIs
<1>2. Given' = Append(Given, x)  BY <1>1, EventsGrow DEF Given
<1>. QED  BY <1>1, <1>2, LongerIs, AmongLonger

\* A delivery joins the queue.
LEMMA OfferStep ==
    ASSUME OneLease, StreamIInv, ~LivePurge, redeliveries = 0, Parting, Moves, OfferDelivery(Lease)
    PROVE  Parting'
<1> DEFINE x == current[Lease]
<1>0. Lease \in Leases  BY TheLease
<1>1. /\ ConsumerIInv /\ StreamTyped /\ TypeOK /\ Placed(Lease)
  BY <1>0 DEF StreamIInv, ConsumerIInv
<1>2. pc[Lease] = "handling" /\ handled' = [handled EXCEPT ![Lease] = @ \cup {x}]
  BY DEF OfferDelivery, HandlerSucceeds
<1>3. /\ queue' = Append(queue, x) /\ queueState = "open" /\ Streaming
      /\ UNCHANGED <<adapter, queueState, marker, consumer, seen, batch, materialized, shown>>
  BY DEF OfferDelivery, Room, pullVars
<1>4. x \in Nat /\ x # CaughtUp
  <2>1. x \in 1 .. position[Lease] /\ position[Lease] \in Nat
    BY <1>0, <1>1, <1>2, LeaseTypes DEF Placed, LeaseTyped
  <2>. QED  BY <2>1 DEF CaughtUp
<1>5. handled'[Lease] = handled[Lease] \cup {x}  BY <1>0, <1>1, <1>2 DEF TypeOK
<1>6. replay'[Lease] = replay[Lease] /\ pc'[Lease] \notin Starting  BY <1>2 DEF Moves, Starting
<1> HIDE DEF x
<1>7. /\ Given \in Numbers /\ Len(Given) \in Nat /\ Given' = Append(Given, x)
      /\ Len(Given') = Len(Given) + 1 /\ Given'[Len(Given) + 1] = x
      /\ \A i \in 1 .. Len(Given) : Given'[i] = Given[i]
      /\ \A y : Among(y, Given') <=> Among(y, Given) \/ y = x
  BY <1>1, <1>3, <1>4, GivenIs, GivenGrows
<1>8. Parts(Given', replay[Lease])  BY <1>4, <1>7, PartsGrow DEF Parting
<1>9. Parts(Given, replay[Lease])'  BY <1>6, <1>8 DEF Parts
<1>10. AllGiven'
  <2>1. Holds(Given, handled[Lease])  BY <1>3 DEF Parting, AllGiven
  <2>2. \A m \in handled'[Lease] : Among(m, Given')  BY <1>5, <1>7, <2>1 DEF Holds
  <2>. QED  BY <2>2 DEF AllGiven, Holds, Among
<1>11. ReplayFirst'
  <2> SUFFICES ASSUME marker' = "waiting", NEW i \in 1 .. Len(Given') PROVE Given'[i] \in replay[Lease]
    BY <1>6 DEF ReplayFirst
  <2>1. marker = "waiting"  BY <1>3
  <2>2. x \in replay[Lease]
    <3>1. remaining[Lease] # 0  BY <2>1 DEF OfferDelivery, MayOffer
    <3>. QED  BY <1>1, <1>2, <3>1, BeforeTheMarker DEF x
  <2>3. i \in 1 .. Len(Given) \/ i = Len(Given) + 1  BY <1>7
  <2>. QED  BY <1>7, <2>1, <2>2, <2>3 DEF Parting, ReplayFirst
<1>12. Untouched'  BY <1>6 DEF Untouched
<1>13. WorkedOff'  BY <1>3 DEF Parting, WorkedOff, Batched, Among
<1>14. LiveHolds'  BY <1>3, <1>6 DEF Parting, LiveHolds, Holds, Among
<1>. QED  BY <1>9, <1>10, <1>11, <1>12, <1>13, <1>14 DEF Parting

\* The caught-up event: all of the replay has been handled, and nothing else.
LEMMA MarkerStep ==
    ASSUME OneLease, StreamIInv, ~LivePurge, redeliveries = 0, Parting, Moves, OfferMarker(Lease),
           marker' = "enqueued"
    PROVE  Parting'
<1>0. Lease \in Leases  BY TheLease
<1>1. /\ ConsumerIInv /\ StreamTyped /\ TypeOK /\ InOrder(Lease)
  BY <1>0 DEF StreamIInv, ConsumerIInv, Replayed
<1>2. /\ queue' = Append(queue, CaughtUp) /\ queueState = "open" /\ Streaming
      /\ caughtUp[Lease] = "resolved" /\ marker = "waiting"
      /\ UNCHANGED <<vars, adapter, queueState, consumer, seen, batch, materialized, shown>>
  BY DEF OfferMarker, Room, pullVars
<1>3. replay' = replay /\ handled' = handled /\ pc' = pc  BY <1>2 DEF vars, leaseVars, history
<1>4. pc[Lease] \notin Starting /\ \A m \in replay[Lease] : m \in handled[Lease]
  BY <1>1, <1>2 DEF InOrder, Settled, Starting
<1>5. CaughtUp \in Nat  BY DEF CaughtUp
<1>6. /\ Given \in Numbers /\ Len(Given) \in Nat /\ Given' = Append(Given, CaughtUp)
      /\ \A y : Among(y, Given') <=> Among(y, Given) \/ y = CaughtUp
  BY <1>1, <1>2, <1>5, GivenIs, GivenGrows
<1>7. Holds(Given, handled[Lease])  BY <1>2 DEF Parting, AllGiven
<1>8. Holds(Given, replay[Lease])  BY <1>4, <1>7 DEF Holds
<1>9. \A i \in 1 .. Len(Given) : Given[i] \in replay[Lease]  BY <1>2 DEF Parting, ReplayFirst
<1>10. Parts(Given', replay[Lease])  BY <1>5, <1>6, <1>8, <1>9, PartsGrow DEF Parting
<1>11. Parts(Given, replay[Lease])'  BY <1>3, <1>10 DEF Parts
<1>12. AllGiven'  BY <1>3, <1>6, <1>7 DEF AllGiven, Holds, Among
<1>13. ReplayFirst' /\ Untouched'  BY <1>3, <1>4 DEF ReplayFirst, Untouched
<1>14. WorkedOff'  BY <1>2 DEF Parting, WorkedOff, Batched, Among
<1>15. LiveHolds'  BY <1>2, <1>3 DEF Parting, LiveHolds, Holds, Among
<1>. QED  BY <1>11, <1>12, <1>13, <1>14, <1>15 DEF Parting

\* An event changes hands and is still the same event.
LEMMA TakeStep ==
    ASSUME StreamTyped, Parting, Take
    PROVE  Parting'
<1>1. /\ queue # <<>> /\ queue' = Tail(queue) /\ seen' = Append(seen, Head(queue))
      /\ batch' = IF adapter.kind = "materialize" THEN Append(batch, Head(queue)) ELSE batch
      /\ UNCHANGED <<vars, adapter, queueState, marker, consumer, materialized, shown>>
  BY DEF Take
<1>2. replay' = replay /\ handled' = handled /\ pc' = pc  BY <1>1 DEF vars, leaseVars, history
<1>3. /\ seen \in Numbers /\ queue \in Numbers /\ batch \in Numbers
      /\ Given = <<>> => queue = <<>>
      /\ Len(seen) \in Nat /\ Len(batch) \in Nat
  BY GivenIs
<1>4. Given' = Given  BY <1>1, <1>3, EventsStay DEF Given
<1>5. pc[Lease] \notin Starting  BY <1>1, <1>3 DEF Parting, Untouched
<1>6. Parts(Given, replay[Lease])' /\ AllGiven' /\ ReplayFirst'
  BY <1>1, <1>2, <1>4 DEF Parting, Parts, AllGiven, ReplayFirst, Streaming, Holds, Among
<1>7. Untouched'  BY <1>2, <1>5 DEF Untouched
<1>8. LiveHolds'  BY <1>1, <1>2 DEF Parting, LiveHolds, Holds, Among
<1>9. WorkedOff'
  <2>1. CASE adapter.kind = "materialize"
    <3> DEFINE x == Head(queue)
    <3>1. x \in Nat  BY <1>1, <1>3, HeadTail
    <3>2. Batched  BY <2>1 DEF Parting, WorkedOff, Take
    <3>3. /\ Len(seen') = Len(seen) + 1 /\ seen'[Len(seen) + 1] = x
          /\ \A i \in 1 .. Len(seen) : seen'[i] = seen[i]
      BY <1>1, <1>3, <3>1, LongerIs
    <3>4. /\ Len(batch') = Len(batch) + 1 /\ batch'[Len(batch) + 1] = x
          /\ \A i \in 1 .. Len(batch) : batch'[i] = batch[i]
      BY <1>1, <1>3, <2>1, <3>1, LongerIs
    <3> HIDE DEF x
    <3> DEFINE d == Len(seen) - Len(batch)
    <3>5. /\ d \in Nat /\ d + Len(batch) = Len(seen) /\ Len(seen') - Len(batch') = d
          /\ \A i \in 1 .. Len(batch) : batch[i] = seen[d + i]
          /\ \A i \in 1 .. d : seen[i] # CaughtUp => Among(seen[i], materialized.data)
      BY <1>3, <3>2, <3>3, <3>4 DEF Batched
    <3> HIDE DEF d
    <3>6. ASSUME NEW i \in 1 .. Len(batch') PROVE batch'[i] = seen'[d + i]
      <4>1. CASE i = Len(batch) + 1
        <5>1. d + i = Len(seen) + 1  BY <1>3, <3>5, <4>1
        <5>. QED  BY <3>3, <3>4, <4>1, <5>1
      <4>2. CASE i # Len(batch) + 1
        <5>1. i \in 1 .. Len(batch) /\ d + i \in 1 .. Len(seen)  BY <1>3, <3>4, <3>5, <4>2
        <5>. QED  BY <3>3, <3>4, <3>5, <5>1
      <4>. QED  BY <4>1, <4>2
    <3>7. ASSUME NEW i \in 1 .. d, seen'[i] # CaughtUp PROVE Among(seen'[i], materialized.data)
      <4>1. i \in 1 .. Len(seen) /\ seen'[i] = seen[i]  BY <1>3, <3>3, <3>5
      <4>. QED  BY <3>5, <3>7, <4>1
    <3>8. Batched'
      <4>1. Len(seen') - Len(batch') >= 0  BY <3>5
      <4>2. \A i \in 1 .. Len(batch') : batch'[i] = seen'[(Len(seen') - Len(batch')) + i]
        BY <3>5, <3>6
      <4>3. \A i \in 1 .. (Len(seen') - Len(batch')) :
                seen'[i] # CaughtUp => Among(seen'[i], materialized'.data)
        BY <1>1, <3>5, <3>7
      <4>. QED  BY <4>1, <4>2, <4>3 DEF Batched, Among
    <3>. QED  BY <1>1, <2>1, <3>8 DEF WorkedOff
  <2>2. CASE adapter.kind # "materialize"  BY <1>1, <2>2 DEF Parting, WorkedOff
  <2>. QED  BY <2>1, <2>2
<1>. QED  BY <1>6, <1>7, <1>8, <1>9 DEF Parting

\* The materializer works off its batch.
LEMMA ProcessStep ==
    ASSUME OneLease, ConsumerIInv, StreamTyped, Parting, ProcessBatch
    PROVE  Parting'
<1> DEFINE R == replay[Lease]
<1>0. Lease \in Leases /\ TypeOK  BY TheLease DEF ConsumerIInv
<1>1. /\ consumer = "pulling" /\ batch # <<>> /\ batch' = <<>>
      /\ materialized' = [phase |-> Processed.phase, data |-> Processed.data]
      /\ shown' = Processed.snapshot
      /\ UNCHANGED <<vars, adapter, queue, queueState, marker, consumer, seen>>
  BY DEF ProcessBatch, queueVars
<1>2. replay' = replay /\ handled' = handled /\ pc' = pc  BY <1>1 DEF vars, leaseVars, history
<1>3. adapter.kind = "materialize" /\ Batched  BY <1>1 DEF Parting, WorkedOff
<1>4. CaughtUp \notin R
  BY <1>0, LeaseTypes DEF LeaseTyped, Sequences, CaughtUp
<1>5. Parts(seen, R)
  BY GivenIs, PartsShrink DEF Parting, Given
<1>6. /\ materialized.phase = "live" => Holds(materialized.data, R)
      /\ shown.phase = "live" => Holds(shown.data, R)
  BY DEF Parting, LiveHolds
<1> DEFINE p == Processed
<1>7. /\ p \in Works /\ Worked(p, Len(seen), R)
      /\ \A i \in 1 .. Len(seen) : seen[i] # CaughtUp => Among(seen[i], p.data)
  <2> HIDE DEF R
  <2>. QED  BY <1>3, <1>4, <1>5, <1>6, BatchWorked
<1>8. materialized'.data = p.data /\ materialized'.phase = p.phase /\ shown' = p.snapshot  BY <1>1
<1> HIDE DEF p
<1>9. Parts(Given, replay[Lease])' /\ AllGiven' /\ ReplayFirst'
  <2>1. Given' = Given  BY <1>1 DEF Given
  <2>2. Streaming' <=> Streaming  BY <1>1 DEF Streaming
  <2>. QED  BY <1>1, <1>2, <2>1, <2>2 DEF Parting, Parts, AllGiven, ReplayFirst, Holds, Among
<1>10. Untouched'  BY <1>1, <1>2 DEF Parting, Untouched
<1>11. LiveHolds'
  <2>1. /\ p.phase = "live" => Holds(p.data, R)
        /\ p.snapshot.phase = "live" => Holds(p.snapshot.data, R)
    BY <1>7 DEF Worked
  <2>. QED  BY <1>2, <1>8, <2>1 DEF LiveHolds, Holds, Among
<1>12. WorkedOff'
  <2>1. Len(batch') = 0 /\ Len(seen) \in Nat /\ Len(seen') = Len(seen)  BY <1>1, GivenIs
  <2>2. \A i \in 1 .. Len(seen) : seen'[i] # CaughtUp => Among(seen'[i], materialized'.data)
    BY <1>1, <1>7, <1>8
  <2>3. Batched'
    <3>1. Len(seen') - Len(batch') = Len(seen)  BY <2>1
    <3>2. Len(seen') - Len(batch') >= 0  BY <2>1
    <3>3. \A i \in 1 .. Len(batch') : batch'[i] = seen'[(Len(seen') - Len(batch')) + i]  BY <2>1
    <3>4. \A i \in 1 .. (Len(seen') - Len(batch')) :
              seen'[i] # CaughtUp => Among(seen'[i], materialized'.data)
      BY <2>2, <3>1
    <3>. QED  BY <3>2, <3>3, <3>4 DEF Batched, Among
  <2>. QED  BY <1>1, <1>3, <2>3 DEF WorkedOff
<1>. QED  BY <1>9, <1>10, <1>11, <1>12 DEF Parting

\* The consumer leaves; what it had not taken is gone.
LEMMA ReleaseStep ==
    ASSUME TypeOK, StreamTyped, Parting, Release(Lease)
    PROVE  Parting'
<1>1. /\ consumer' = "gone" /\ queue' = <<>> /\ batch' = <<>> /\ queueState' = "shutdown"
      /\ UNCHANGED <<adapter, marker, seen, materialized, shown>>
      /\ UNCHANGED vars \/ Close(Lease)
  BY DEF Release
<1>2. replay' = replay /\ handled' = handled /\ pc' = pc
  BY <1>1 DEF vars, leaseVars, history, Close
<1>3. /\ Given \in Numbers /\ seen \in Numbers /\ queue \in Numbers
      /\ Len(Given) = Len(seen) + Len(queue) /\ Len(seen) \in Nat /\ Len(queue) \in Nat
      /\ \A i \in 1 .. Len(seen) : Given[i] = seen[i]
      /\ Given = <<>> => seen = <<>>
  BY GivenIs
<1>4. Given' = seen  BY <1>1, <1>3 DEF Given, Numbers
<1>5. Parts(seen, replay[Lease])  BY <1>3, PartsShrink DEF Parting, Given
<1>6. Parts(Given, replay[Lease])'  BY <1>2, <1>4, <1>5 DEF Parts
<1>7. AllGiven'  BY <1>1 DEF AllGiven
<1>8. ReplayFirst'
  <2>1. ASSUME marker = "waiting", NEW i \in 1 .. Len(seen) PROVE seen[i] \in replay[Lease]
    <3>1. i \in 1 .. Len(Given) /\ Given[i] = seen[i]  BY <1>3
    <3>. QED  BY <2>1, <3>1 DEF Parting, ReplayFirst
  <2>. QED  BY <1>1, <1>2, <1>4, <2>1 DEF ReplayFirst
<1>9. Untouched'  BY <1>1, <1>2, <1>3, <1>4 DEF Parting, Untouched
<1>10. WorkedOff'  BY <1>1 DEF WorkedOff
<1>11. LiveHolds'  BY <1>1, <1>2 DEF Parting, LiveHolds, Holds, Among
<1>. QED  BY <1>6, <1>7, <1>8, <1>9, <1>10, <1>11 DEF Parting

\* Every step of the stream is one of the lease, or leaves the lease alone.
LEMMA EventNextIsNext ==
    ASSUME EventNext
    PROVE  [Next]_vars
<1>1. CASE (Publish \/ Purge) /\ UNCHANGED streamAll  BY <1>1 DEF Next
<1>2. ASSUME NEW l \in Leases, LeaseStep(l) PROVE [Next]_vars  BY <1>2 DEF Next, LeaseStep
<1>3. ASSUME NEW l \in Leases, Producer(l) PROVE [Next]_vars
  BY <1>3 DEF Next, Producer, PlainHandler, OfferDelivery, RefuseDelivery, Handler
<1>4. ASSUME NEW l \in Leases, Follow(l) PROVE [Next]_vars
  BY <1>4 DEF Follow, OfferMarker, Registration
<1>5. ASSUME NEW l \in Leases, Release(l) PROVE [Next]_vars  BY <1>5 DEF Next, Release
<1>6. ASSUME NEW l \in Leases, Pulling(l) \/ Interrupt(l) PROVE [Next]_vars
  BY <1>5, <1>6 DEF Pulling, Interrupt, StreamEnds, Take, ProcessBatch
<1>7. ASSUME NEW l \in Leases, Crash(l) PROVE [Next]_vars  BY <1>7 DEF Next
<1>. QED  BY <1>1, <1>2, <1>3, <1>4, <1>6, <1>7 DEF EventNext

-----------------------------------------------------------------------------
(***************************************************************************)
(* The invariant of the stream, and what follows from it.                  *)
(***************************************************************************)
\* What is worked off is typed.
LEMMA ProcessedIs ==
    ASSUME StreamTyped
    PROVE  Processed \in Works
<1> DEFINE a == [phase |-> materialized.phase, data |-> materialized.data,
                 pending |-> <<>>, snapshot |-> shown]
           f == FoldLeft(LAMBDA w, event : Materialize(event, w), a, batch)
<1>1. a \in Works /\ batch \in Numbers  BY DEF StreamTyped, Works, Views, Numbers
<1>2. Processed = Closing(f)  BY DEF Processed
<1>3. Len(batch) \in 0 .. Len(batch)  BY <1>1 DEF Numbers
<1> HIDE DEF a
<1>4. PICK h \in [0 .. Len(batch) -> Works] : f = h[Len(batch)]  BY <1>1, WorkedInTurn
<1> HIDE DEF f
<1>5. Closing(f) \in {Emitted(Reduced(f)), Reduced(f)}  BY DEF Closing
<1>6. f \in Works  BY <1>3, <1>4
<1>. QED  BY <1>2, <1>5, <1>6, ReducedIs, EmittedIs

\* Every step keeps the types.
LEMMA TypedStep ==
    ASSUME OneLease, TypeOK, StreamTyped, [EventNext]_eventVars
    PROVE  StreamTyped'
<1>0. /\ queue \in Numbers /\ seen \in Numbers /\ batch \in Numbers /\ <<>> \in Numbers
      /\ Lease \in Leases /\ \A l \in Leases : l = Lease
  BY TheLease DEF StreamTyped, Numbers
<1>1. CASE UNCHANGED streamAll
  BY <1>1 DEF StreamTyped, streamAll, queueVars, pullVars
<1>2. CASE OfferDelivery(Lease)
  <2>1. queue' = Append(queue, current[Lease]) /\ UNCHANGED <<adapter, seen, batch, materialized, shown>>
    BY <1>2 DEF OfferDelivery, pullVars
  <2>2. current[Lease] \in Nat  BY <1>0, LeaseTypes DEF LeaseTyped
  <2>3. queue' \in Numbers  BY <1>0, <2>1, <2>2, LongerIs
  <2>. QED  BY <2>1, <2>3 DEF StreamTyped
<1>3. CASE OfferMarker(Lease)
  <2>1. queue' \in {queue, Append(queue, CaughtUp)} /\ UNCHANGED <<adapter, seen, batch, materialized, shown>>
    BY <1>3 DEF OfferMarker, pullVars
  <2>2. CaughtUp \in Nat  BY DEF CaughtUp
  <2>3. queue' \in Numbers  BY <1>0, <2>1, <2>2, LongerIs
  <2>. QED  BY <2>1, <2>3 DEF StreamTyped
<1>4. CASE RefuseDelivery(Lease) \/ Registration(Lease)
  BY <1>4 DEF RefuseDelivery, Registration, pullVars, StreamTyped
<1>5. CASE Take
  <2>1. /\ queue # <<>> /\ queue' = Tail(queue) /\ seen' = Append(seen, Head(queue))
        /\ batch' \in {batch, Append(batch, Head(queue))}
        /\ UNCHANGED <<adapter, materialized, shown>>
    BY <1>5 DEF Take
  <2>2. Head(queue) \in Nat /\ Tail(queue) \in Numbers  BY <1>0, <2>1, HeadTail
  <2>3. queue' \in Numbers /\ seen' \in Numbers /\ batch' \in Numbers  BY <1>0, <2>1, <2>2, LongerIs
  <2>. QED  BY <2>1, <2>3 DEF StreamTyped
<1>6. CASE ProcessBatch
  <2>1. /\ batch' = <<>> /\ materialized' = [phase |-> Processed.phase, data |-> Processed.data]
        /\ shown' = Processed.snapshot /\ UNCHANGED <<adapter, queue, seen>>
    BY <1>6 DEF ProcessBatch, queueVars
  <2>2. materialized' \in Views /\ shown' \in Views  BY <2>1, ProcessedIs DEF Works, Views
  <2>. QED  BY <1>0, <2>1, <2>2 DEF StreamTyped
<1>7. CASE Release(Lease)
  BY <1>0, <1>7 DEF Release, StreamTyped
<1>8. CASE UNCHANGED <<adapter, queueVars, seen, batch, materialized, shown>>
  BY <1>8 DEF StreamTyped, queueVars
<1>9. ASSUME EventNext PROVE StreamTyped'
  BY <1>0, <1>1, <1>2, <1>3, <1>4, <1>5, <1>6, <1>7, <1>8, <1>9
     DEF EventNext, Producer, PlainHandler, Follow, Pulling, StreamEnds, Interrupt
<1>10. CASE UNCHANGED eventVars  BY <1>1, <1>10 DEF eventVars
<1>. QED  BY <1>9, <1>10

\* Every step keeps the replay parted from live.
LEMMA PartingStep ==
    ASSUME OneLease, StreamIInv, ~LivePurge, redeliveries = 0, Parting, [EventNext]_eventVars
    PROVE  Parting'
<1>0. /\ Lease \in Leases /\ \A l \in Leases : l = Lease
      /\ ConsumerIInv /\ TypeOK /\ StreamTyped
  BY TheLease DEF StreamIInv, ConsumerIInv
<1>1. [Next]_vars  BY EventNextIsNext DEF eventVars
<1>2. Moves  BY <1>0, <1>1, LeaseMoves
<1>3. ASSUME UNCHANGED streamAll, handled'[Lease] = handled[Lease] \/ ~Streaming PROVE Parting'
  BY <1>2, <1>3, PartingStays DEF streamAll, queueVars, pullVars
<1>4. CASE (Publish \/ Purge) /\ UNCHANGED streamAll
  BY <1>3, <1>4 DEF Publish, Purge, history
<1>5. CASE LeaseStep(Lease) /\ UNCHANGED streamAll
  <2>1. handled' = handled
    BY <1>5
    DEF LeaseStep, Work, Open, Load, Create, Consume, StartFails, ReceiveNext,
        ReceiveAgain, Receive, Saved, LoopEnds, FlushAfterFailure,
        TimedFlush, Save, Finish, Fail, Close, MessagesEnd, history
  <2>. QED  BY <1>3, <1>5, <2>1
<1>6. CASE PlainHandler(Lease)  BY <1>3, <1>6 DEF PlainHandler
<1>7. CASE OfferDelivery(Lease)  BY <1>2, <1>7, OfferStep
<1>8. CASE RefuseDelivery(Lease)
  <2>1. /\ handled' = handled
        /\ UNCHANGED <<adapter, queue, marker, consumer, seen, batch, materialized, shown>>
        /\ queueState' = "shutdown" => queueState = "shutdown"
        /\ queueState' # "shutdown" => queueState # "shutdown"
    BY <1>8 DEF RefuseDelivery, HandlerFails, history, pullVars, Overflows
  <2>. QED  BY <1>2, <2>1, PartingStays
<1>9. CASE OfferMarker(Lease)
  <2>1. CASE marker' = "enqueued"  BY <1>2, <1>9, <2>1, MarkerStep
  <2>2. CASE marker' # "enqueued"
    <3>1. /\ handled' = handled
          /\ UNCHANGED <<adapter, queue, consumer, seen, batch, materialized, shown>>
          /\ queueState' # "shutdown" => queueState # "shutdown"
          /\ marker' # "waiting"
      BY <1>9, <2>2 DEF OfferMarker, history, vars, pullVars, Overflows
    <3>. QED  BY <1>2, <3>1, PartingStays
  <2>. QED  BY <2>1, <2>2
<1>10. CASE Registration(Lease)
  <2>1. /\ handled' = handled
        /\ UNCHANGED <<adapter, queue, marker, consumer, seen, batch, materialized, shown>>
        /\ queueState' # "shutdown" => queueState # "shutdown"
    BY <1>10 DEF Registration, history, vars, pullVars
  <2>. QED  BY <1>2, <2>1, PartingStays
<1>11. CASE Take  BY <1>0, <1>11, TakeStep
<1>12. CASE ProcessBatch  BY <1>0, <1>12, ProcessStep
<1>13. CASE Release(Lease)  BY <1>0, <1>13, ReleaseStep
<1>14. CASE /\ Crash(Lease) /\ consumer' = "gone"
            /\ UNCHANGED <<adapter, queueVars, seen, batch, materialized, shown>>
  <2>1. handled' = handled  BY <1>14 DEF Crash, history
  <2>. QED  BY <1>2, <1>14, <2>1, PartingStays DEF queueVars
<1>15. CASE EventNext
  BY <1>0, <1>4, <1>5, <1>6, <1>7, <1>8, <1>9, <1>10, <1>11, <1>12, <1>13, <1>14, <1>15
     DEF EventNext, Producer, Follow, Pulling, StreamEnds, Interrupt
<1>16. CASE UNCHANGED eventVars  BY <1>3, <1>16 DEF eventVars, vars, history
<1>. QED  BY <1>15, <1>16

\* The invariant is preserved ...
LEMMA StreamSteps ==
    ASSUME OneLease, StreamIInv, [EventNext]_eventVars
    PROVE  StreamIInv'
<1>1. ConsumerIInv /\ StreamTyped /\ TypeOK  BY DEF StreamIInv, ConsumerIInv
<1>2. [Next]_vars  BY EventNextIsNext DEF eventVars
<1>3. ConsumerIInv' /\ StreamTyped'  BY <1>1, <1>2, ConsumerSteps, TypedStep
<1>4. ASSUME ~LivePurge, redeliveries' = 0 PROVE Parting'
  <2>1. redeliveries = 0
    <3>1. redeliveries \in Nat  BY <1>1, LeaseTypes
    <3>2. redeliveries <= redeliveries'
      <4>1. CASE Next  BY <1>1, <4>1, StoreMovesForward DEF Forward
      <4>2. CASE UNCHANGED vars  BY <3>1, <4>2 DEF vars, streamVars
      <4>. QED  BY <1>2, <4>1, <4>2
    <3>. QED  BY <1>4, <3>1, <3>2
  <2>. QED  BY <1>4, <2>1, PartingStep DEF StreamIInv
<1>. QED  BY <1>3, <1>4 DEF StreamIInv

\* ... and holds at first.
LEMMA InitialStream ==
    ASSUME OneLease, EventInit
    PROVE  StreamIInv
<1>1. ConsumerIInv  BY InitialConsumer DEF EventInit
<1>2. <<>> \in Numbers  BY DEF Numbers
<1>3. /\ adapter \in Adapters /\ queue = <<>> /\ seen = <<>> /\ batch = <<>> /\ queueState = "open"
      /\ consumer = "pulling" /\ handled = [l \in Leases |-> {}]
      /\ materialized = [phase |-> "replaying", data |-> <<>>]
      /\ shown = [phase |-> "replaying", data |-> <<>>]
  BY DEF EventInit, MaterializerInit, Init
<1>4. StreamTyped  BY <1>2, <1>3 DEF StreamTyped, Views
<1>5. Given = <<>> /\ Len(Given) = 0 /\ Len(seen) = 0 /\ Len(batch) = 0  BY <1>3 DEF Given
<1>6. handled[Lease] = {}  BY <1>3, TheLease
<1>7. Parts(Given, replay[Lease]) /\ AllGiven /\ ReplayFirst
  BY <1>5, <1>6 DEF Parts, AllGiven, ReplayFirst, Holds
<1>8. Untouched /\ LiveHolds  BY <1>3, <1>5 DEF Untouched, LiveHolds
<1>9. WorkedOff  BY <1>3, <1>5 DEF WorkedOff, Batched
<1>. QED  BY <1>1, <1>4, <1>7, <1>8, <1>9 DEF StreamIInv, Parting

\* jetStreamEvents() and materializeJetStream() with one lease, whatever the queue
\* holds, whoever ends the stream and however the lease fails: the invariant from
\* which AtomicReplay follows.
THEOREM StreamInvariant == ASSUME OneLease PROVE EventSpec => []StreamIInv
<1>1. EventInit => StreamIInv  BY InitialStream
<1>2. StreamIInv /\ [EventNext]_eventVars => StreamIInv'  BY StreamSteps
<1>. QED  BY <1>1, <1>2, PTL DEF EventSpec

\* Unless retention overtakes a running lease, and as far as nothing is delivered twice,
\* every message of the captured replay comes before the caught-up event, nothing else
\* does, and a live snapshot of the materializer holds all of the replay.
THEOREM MarkerParts == ASSUME OneLease PROVE EventSpec => [](~LivePurge => AtomicReplay)
<1>1. StreamIInv => (~LivePurge => AtomicReplay)
  <2> SUFFICES ASSUME StreamIInv, ~LivePurge, redeliveries = 0
               PROVE  /\ Parts(Given, replay[Lease])
                      /\ shown.phase = "live" => Holds(shown.data, replay[Lease])
                      /\ DOMAIN Given = 1 .. Len(Given)
                      /\ DOMAIN shown.data = 1 .. Len(shown.data)
    BY DEF AtomicReplay, Parts, Holds, Among, Given
  <2>1. Parting /\ StreamTyped  BY DEF StreamIInv
  <2>2. Given \in Numbers /\ shown.data \in Numbers  BY <2>1, GivenIs DEF StreamTyped, Views
  <2>. QED  BY <2>1, <2>2 DEF Parting, LiveHolds, Numbers
<1>. QED  BY <1>1, StreamInvariant, PTL
=============================================================================
