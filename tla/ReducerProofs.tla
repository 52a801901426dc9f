--------------------------- MODULE ReducerProofs ---------------------------
(***************************************************************************)
(* Theorems about Reducer, for every set of threads, turns and requests,   *)
(* every record and event a stream may carry and every sequence bound.     *)
(* They rest on one fact about the fold, EventsAreDiffs: whatever the      *)
(* item, the events it raises are the differences it makes.                *)
(***************************************************************************)
EXTENDS Reducer, TLAPS

Maps == UNION {[T -> FlagSets] : T \in SUBSET Threads}

\* What the items of the two kinds of stream carry.
WellFormed(item) ==
  \/ item.kind = "synchronized"
  \/ /\ item.kind = "snapshot"
     /\ item.seq \in MaybeSeqs /\ item.threads \in Maps
  \/ /\ item.kind = "thread-upserted"
     /\ item.seq \in Sequenced /\ item.thread \in Threads /\ item.flags \in FlagSets
  \/ /\ item.kind = "thread-removed"
     /\ item.seq \in Sequenced /\ item.thread \in Threads
  \/ item.kind = "project" /\ item.seq \in Sequenced
  \/ /\ item.kind = "event"
     /\ item.seq \in Sequenced /\ item.thread \in Threads \cup {None}
     /\ item.event \in EventSets
----------------------------------------------------------------------------
(* Threads and items *)

LEMMA MapType ==
  ASSUME NEW f \in Maps
  PROVE  DOMAIN f \subseteq Threads /\ f \in [DOMAIN f -> FlagSets]
  BY DEF Maps

LEMMA MapIntro ==
  ASSUME NEW T \in SUBSET Threads, NEW f \in [T -> FlagSets]
  PROVE  f \in Maps
  BY DEF Maps

LEMMA NoFlagsType == NoFlags \in FlagSets
  BY DEF NoFlags, FlagSets

LEMMA FlagsOfType ==
  ASSUME NEW f \in Maps, NEW t \in Threads
  PROVE  FlagsOf(f, t) \in FlagSets
  BY MapType, NoFlagsType DEF FlagsOf

LEMMA RecordMaps ==
  ASSUME NEW S \in SUBSET Threads, NEW f \in ThreadMaps(S)
  PROVE  f \in Maps
  BY ReducerAssumption DEF ThreadMaps, Maps

LEMMA ShellItemsType == \A item \in ShellItems : WellFormed(item) /\ item.kind # "event"
  BY RecordMaps, ReducerAssumption DEF ShellItems, WellFormed, Sequenced

LEMMA ThreadItemsType ==
  ASSUME NEW t \in Threads, NEW item \in ThreadItems(t)
  PROVE  /\ WellFormed(item)
         /\ item.kind \in {"synchronized", "snapshot", "event"}
         /\ item.kind = "snapshot" => DOMAIN item.threads = {t}
         /\ item.kind = "event" => item.thread \in {t, None}
<1>1. CASE item \in [kind : {"synchronized"}]
  BY <1>1 DEF WellFormed
<1>2. CASE item \in [kind : {"snapshot"}, seq : MaybeSeqs, threads : [{t} -> ThreadRecords]]
  <2>1. item.threads \in [{t} -> FlagSets]
    BY <1>2, ReducerAssumption
  <2>. QED
    BY <1>2, <2>1, MapIntro DEF WellFormed
<1>3. CASE item \in [kind : {"event"}, seq : Sequenced, thread : {t, None},
                     event : ThreadEvents]
  BY <1>3, ReducerAssumption DEF WellFormed
<1>. QED
  BY <1>1, <1>2, <1>3 DEF ThreadItems

----------------------------------------------------------------------------
(* The fold *)

LEMMA FoldType ==
  ASSUME NEW flags \in FlagSets, NEW event \in EventSets
  PROVE  FoldThreadEvent(flags, event) \in FlagSets
<1>1. CASE event \in [type : {"settled", "other"}]
  BY <1>1 DEF FoldThreadEvent, FlagSets, TurnStates, Settled
<1>2. CASE event \in [type : {"session-set"}, status : Statuses, turn : Turns \cup {None}]
  <2>1. FoldThreadEvent(flags, event) = SessionSet(flags, event)
    BY <1>2 DEF FoldThreadEvent
  <2>2. SettledBy(event.status) \in TurnStates \cup {None}
    BY DEF SettledBy, TurnStates, Settled
  <2>. QED
    BY <1>2, <2>1, <2>2 DEF SessionSet, FlagSets, TurnStates
<1>3. CASE event \in [type : {"message"}, turn : Turns \cup {None}, streaming : BOOLEAN]
  <2>1. FoldThreadEvent(flags, event) = MessageSent(flags, event)
    BY <1>3 DEF FoldThreadEvent
  <2>. QED
    BY <1>3, <2>1 DEF MessageSent, FlagSets, TurnStates, Settled
<1>4. CASE event \in [type : {"interrupt"}, turn : Turns \cup {None}]
  BY <1>4 DEF FoldThreadEvent, TurnInterrupt, FlagSets, TurnStates, Settled
<1>5. CASE event \in [type : {"requested"}, request : Requests]
  BY <1>5 DEF FoldThreadEvent, FlagSets
<1>. QED
  BY <1>1, <1>2, <1>3, <1>4, <1>5 DEF EventSets

LEMMA NextSeqType ==
  ASSUME NEW s \in States, NEW seq \in MaybeSeqs
  PROVE  NextSeq(s, seq) \in Seqs
  BY DEF NextSeq, States, MaybeSeqs

\* A well-formed item takes a state to a state.
LEMMA ReduceType ==
  ASSUME NEW s \in States, NEW item, WellFormed(item)
  PROVE  ReduceItem(s, item).state \in States
<1>1. s.sequence \in Seqs /\ s.threads \in Maps
  BY DEF States, Maps
<1>2. ASSUME NEW seq \in Seqs, NEW f \in Maps, NEW e PROVE Result(seq, f, e).state \in States
  BY <1>2 DEF Result, States, Maps
<1>3. Silent(s).state \in States
  BY DEF Silent
<1>4. CASE item.kind = "synchronized"
  BY <1>3, <1>4 DEF ReduceItem
<1>5. CASE item.kind = "snapshot"
  BY <1>2, <1>5, NextSeqType DEF ReduceItem, ApplySnapshot, WellFormed
<1>6. CASE item.kind = "thread-upserted"
  <2> DEFINE f == [t \in DOMAIN s.threads \cup {item.thread} |->
                     IF t = item.thread THEN item.flags ELSE s.threads[t]]
  <2>1. f \in [DOMAIN s.threads \cup {item.thread} -> FlagSets]
    BY <1>1, <1>6, MapType DEF WellFormed
  <2>2. f \in Maps /\ item.seq \in MaybeSeqs
    BY <1>1, <1>6, <2>1, MapType, MapIntro DEF WellFormed, Sequenced
  <2>. QED
    BY <1>2, <1>3, <1>6, <2>2, NextSeqType DEF ReduceItem, ApplyShellEvent, Upsert
<1>7. CASE item.kind = "thread-removed"
  <2> DEFINE f == [t \in DOMAIN s.threads \ {item.thread} |-> s.threads[t]]
  <2>1. f \in [DOMAIN s.threads \ {item.thread} -> FlagSets]
    BY <1>1, MapType
  <2>2. f \in Maps /\ item.seq \in MaybeSeqs
    BY <1>1, <1>7, <2>1, MapType, MapIntro DEF WellFormed, Sequenced
  <2>. QED
    BY <1>2, <1>3, <1>7, <2>2, NextSeqType DEF ReduceItem, ApplyShellEvent, Remove
<1>8. CASE item.kind = "project"
  BY <1>1, <1>2, <1>3, <1>8, NextSeqType
  DEF ReduceItem, ApplyShellEvent, WellFormed, Sequenced
<1>9. CASE item.kind = "event"
  <2> DEFINE about == EventThread(s, item)
             updated == [t \in about |-> FoldThreadEvent(FlagsOf(s.threads, t), item.event)]
             f == [t \in DOMAIN s.threads \cup about |->
                     IF t \in about THEN updated[t] ELSE s.threads[t]]
  <2>1. about \subseteq Threads
    BY <1>1, <1>9, MapType DEF EventThread, WellFormed
  <2>2. \A t \in about : updated[t] \in FlagSets
    BY <1>1, <1>9, <2>1, FoldType, FlagsOfType DEF WellFormed
  <2>3. f \in [DOMAIN s.threads \cup about -> FlagSets]
    BY <1>1, <2>2, MapType
  <2>4. f \in Maps /\ item.seq \in MaybeSeqs
    BY <1>1, <1>9, <2>1, <2>3, MapType, MapIntro DEF WellFormed, Sequenced
  <2>. QED
    BY <1>2, <1>3, <1>9, <2>4, NextSeqType DEF ReduceItem, ApplyThreadEvent
<1>. QED
  BY <1>4, <1>5, <1>6, <1>7, <1>8, <1>9 DEF WellFormed

\* A state is silent about an item it already folded.
LEMMA StaleIsSilent ==
  ASSUME NEW s, NEW item, WellFormed(item), item.kind \notin {"synchronized", "snapshot"},
         Stale(s, item.seq)
  PROVE  ReduceItem(s, item) = Silent(s)
  BY DEF WellFormed, ReduceItem, ApplyShellEvent, ApplyThreadEvent

\* The salient events an item raises are the differences it makes to the threads
\* known afterwards, and an older thread's record changes only that way.
LEMMA EventsAreDiffs ==
  ASSUME NEW s \in States, NEW item, WellFormed(item)
  PROVE  LET r == ReduceItem(s, item)
         IN  r.events = UNION {Diff(t, FlagsOf(s.threads, t), r.state.threads[t]) :
                                 t \in DOMAIN r.state.threads}
<1> DEFINE r == ReduceItem(s, item)
           Differences(f) == UNION {Diff(t, FlagsOf(s.threads, t), f[t]) : t \in DOMAIN f}
<1> SUFFICES r.events = Differences(r.state.threads)
  OBVIOUS
<1>1. \A t, x : Diff(t, x, x) = {}
  BY DEF Diff
<1>2. \A t \in DOMAIN s.threads : FlagsOf(s.threads, t) = s.threads[t]
  BY DEF FlagsOf
<1>3. Differences(s.threads) = {}
  BY <1>1, <1>2
<1>4. ASSUME NEW q, NEW f, NEW e PROVE Result(q, f, e).state.threads = f /\ Result(q, f, e).events = e
  BY DEF Result
<1>5. Silent(s).events = Differences(Silent(s).state.threads)
  BY <1>3 DEF Silent
<1>6. CASE item.kind = "synchronized"
  BY <1>5, <1>6 DEF ReduceItem
<1>7. CASE item.kind = "snapshot"
  BY <1>4, <1>7 DEF ReduceItem, ApplySnapshot
<1>8. CASE item.kind = "thread-upserted"
  <2> DEFINE f == [t \in DOMAIN s.threads \cup {item.thread} |->
                     IF t = item.thread THEN item.flags ELSE s.threads[t]]
             d == Diff(item.thread, FlagsOf(s.threads, item.thread), item.flags)
  <2>1. CASE Stale(s, item.seq)
    BY <1>5, <1>8, <2>1, StaleIsSilent
  <2>2. CASE ~ Stale(s, item.seq)
    <3>1. r = Result(NextSeq(s, item.seq), f, d)
      BY <1>8, <2>2 DEF ReduceItem, ApplyShellEvent, Upsert
    <3>2. /\ item.thread \in DOMAIN f
          /\ Diff(item.thread, FlagsOf(s.threads, item.thread), f[item.thread]) = d
          /\ \A t \in DOMAIN f : t # item.thread =>
               Diff(t, FlagsOf(s.threads, t), f[t]) = {}
      BY <1>1, <1>2
    <3> HIDE DEF f, d
    <3>3. Differences(f) = d
      BY <3>2
    <3>. QED
      BY <1>4, <3>1, <3>3
  <2>. QED
    BY <2>1, <2>2
<1>9. CASE item.kind = "thread-removed"
  <2> DEFINE f == [t \in DOMAIN s.threads \ {item.thread} |-> s.threads[t]]
  <2>1. CASE Stale(s, item.seq)
    BY <1>5, <1>9, <2>1, StaleIsSilent
  <2>2. CASE ~ Stale(s, item.seq)
    <3>1. r = Result(NextSeq(s, item.seq), f, {})
      BY <1>9, <2>2 DEF ReduceItem, ApplyShellEvent, Remove
    <3>2. Differences(f) = {}
      BY <1>1, <1>2
    <3>. QED
      BY <1>4, <3>1, <3>2
  <2>. QED
    BY <2>1, <2>2
<1>10. CASE item.kind = "project"
  BY <1>3, <1>4, <1>5, <1>10 DEF ReduceItem, ApplyShellEvent
<1>11. CASE item.kind = "event"
  <2> DEFINE about == EventThread(s, item)
             updated == [t \in about |-> FoldThreadEvent(FlagsOf(s.threads, t), item.event)]
             f == [t \in DOMAIN s.threads \cup about |->
                     IF t \in about THEN updated[t] ELSE s.threads[t]]
             d == UNION {Diff(t, FlagsOf(s.threads, t), updated[t]) : t \in about}
  <2>1. CASE Stale(s, item.seq)
    BY <1>5, <1>11, <2>1 DEF ReduceItem, ApplyThreadEvent
  <2>2. CASE ~ Stale(s, item.seq)
    <3>1. r = Result(NextSeq(s, item.seq), f, d)
      BY <1>11, <2>2 DEF ReduceItem, ApplyThreadEvent
    <3>2. /\ about \subseteq DOMAIN f
          /\ \A t \in about : f[t] = updated[t]
          /\ \A t \in DOMAIN f \ about : Diff(t, FlagsOf(s.threads, t), f[t]) = {}
      BY <1>1, <1>2
    <3> HIDE DEF f, updated, about
    <3>3. Differences(f) = d
      BY <3>2
    <3>. QED
      BY <1>4, <3>1, <3>3
  <2>. QED
    BY <2>1, <2>2
<1>. QED
  BY <1>6, <1>7, <1>8, <1>9, <1>10, <1>11 DEF WellFormed

\* Only a snapshot can move the cursor back.
LEMMA CursorAdvances ==
  ASSUME NEW s \in States, NEW item, WellFormed(item), item.kind # "snapshot"
  PROVE  /\ s.sequence <= ReduceItem(s, item).state.sequence
         /\ item.kind # "synchronized" /\ item.seq # None =>
              item.seq <= ReduceItem(s, item).state.sequence
<1>1. s.sequence \in Nat /\ Seqs \subseteq Nat
  BY ReducerAssumption DEF States, Seqs
<1>2. item.kind # "synchronized" => item.seq \in Nat \cup {None}
  BY <1>1 DEF WellFormed, Sequenced, MaybeSeqs
<1>3. CASE item.kind = "synchronized"
  BY <1>1, <1>3 DEF ReduceItem, Silent
<1>4. CASE item.kind # "synchronized" /\ Stale(s, item.seq)
  BY <1>1, <1>4, StaleIsSilent DEF Silent, Stale
<1>5. CASE item.kind # "synchronized" /\ ~ Stale(s, item.seq)
  <2>1. ReduceItem(s, item).state.sequence = NextSeq(s, item.seq)
    BY <1>5 DEF WellFormed, ReduceItem, ApplyShellEvent, ApplyThreadEvent, Upsert, Remove, Result
  <2>. QED
    BY <1>1, <1>2, <1>5, <2>1 DEF NextSeq, Stale
<1>. QED
  BY <1>3, <1>4, <1>5

\* What two states agree on about a thread.
Same(a, b, t) ==
  /\ t \in DOMAIN a.threads <=> t \in DOMAIN b.threads
  /\ FlagsOf(a.threads, t) = FlagsOf(b.threads, t)

\* Two readers of one stream at the same cursor go on agreeing on what they agree
\* on, and agree on every thread whose record a fresh item gives.
LEMMA SameAfter ==
  ASSUME NEW a \in States, NEW b \in States, a.sequence = b.sequence,
         NEW item, WellFormed(item),
         NEW u \in Threads,
         item.kind = "event" /\ item.thread = None =>
           DOMAIN a.threads \subseteq {u} /\ DOMAIN b.threads \subseteq {u},
         NEW K \in SUBSET Threads, \A t \in K : Same(a, b, t),
         NEW t \in Threads,
         \/ t \in K
         \/ item.kind = "snapshot"
         \/ t \in Given(item) /\ item.kind # "synchronized" /\ ~ Stale(a, item.seq)
  PROVE  /\ ReduceItem(a, item).state.sequence = ReduceItem(b, item).state.sequence
         /\ Same(ReduceItem(a, item).state, ReduceItem(b, item).state, t)
<1> DEFINE x == ReduceItem(a, item).state
           y == ReduceItem(b, item).state
<1>1. NextSeq(a, item.seq) = NextSeq(b, item.seq) /\ (Stale(a, item.seq) <=> Stale(b, item.seq))
  BY DEF NextSeq, Stale
<1>2. CASE item.kind = "synchronized"
  BY <1>2 DEF ReduceItem, Silent, Given
<1>3. CASE item.kind = "snapshot"
  BY <1>1, <1>3 DEF ReduceItem, ApplySnapshot, Result, Same
<1>4. CASE item.kind \notin {"synchronized", "snapshot"} /\ Stale(a, item.seq)
  BY <1>1, <1>4, StaleIsSilent DEF Silent
<1>5. CASE item.kind = "thread-upserted" /\ ~ Stale(a, item.seq)
  <2>1. /\ x = Upsert(a, item).state /\ y = Upsert(b, item).state
        /\ t = item.thread \/ Same(a, b, t)
    BY <1>1, <1>5 DEF ReduceItem, ApplyShellEvent, Given
  <2>2. /\ x.sequence = NextSeq(a, item.seq) /\ y.sequence = NextSeq(b, item.seq)
        /\ t \in DOMAIN x.threads <=> t \in DOMAIN a.threads \/ t = item.thread
        /\ t \in DOMAIN y.threads <=> t \in DOMAIN b.threads \/ t = item.thread
        /\ FlagsOf(x.threads, t) = IF t = item.thread THEN item.flags ELSE FlagsOf(a.threads, t)
        /\ FlagsOf(y.threads, t) = IF t = item.thread THEN item.flags ELSE FlagsOf(b.threads, t)
    BY <2>1 DEF Upsert, Result, FlagsOf
  <2>. QED
    BY <1>1, <2>1, <2>2 DEF Same
<1>6. CASE item.kind = "thread-removed" /\ ~ Stale(a, item.seq)
  <2>1. /\ x = Remove(a, item).state /\ y = Remove(b, item).state
        /\ t = item.thread \/ Same(a, b, t)
    BY <1>1, <1>6 DEF ReduceItem, ApplyShellEvent, Given
  <2>2. /\ x.sequence = NextSeq(a, item.seq) /\ y.sequence = NextSeq(b, item.seq)
        /\ t \in DOMAIN x.threads <=> t \in DOMAIN a.threads /\ t # item.thread
        /\ t \in DOMAIN y.threads <=> t \in DOMAIN b.threads /\ t # item.thread
        /\ FlagsOf(x.threads, t) = IF t = item.thread THEN NoFlags ELSE FlagsOf(a.threads, t)
        /\ FlagsOf(y.threads, t) = IF t = item.thread THEN NoFlags ELSE FlagsOf(b.threads, t)
    BY <2>1 DEF Remove, Result, FlagsOf
  <2>. QED
    BY <1>1, <2>1, <2>2 DEF Same
<1>7. CASE item.kind = "project" /\ ~ Stale(a, item.seq)
  BY <1>1, <1>7 DEF ReduceItem, ApplyShellEvent, Result, Given, Same
<1>8. CASE item.kind = "event" /\ ~ Stale(a, item.seq)
  <2>1. Same(a, b, t) /\ (item.thread = None \/ item.thread \in Threads)
    BY <1>8 DEF Given, WellFormed
  <2>2. t \in EventThread(a, item) <=> t \in EventThread(b, item)
    BY <1>8, <2>1 DEF EventThread, Same
  <2>3. ASSUME NEW s, ~ Stale(s, item.seq)
        PROVE  LET z == ReduceItem(s, item).state
               IN  /\ z.sequence = NextSeq(s, item.seq)
                   /\ t \in DOMAIN z.threads <=>
                        t \in DOMAIN s.threads \/ t \in EventThread(s, item)
                   /\ FlagsOf(z.threads, t) =
                        IF t \in EventThread(s, item)
                        THEN FoldThreadEvent(FlagsOf(s.threads, t), item.event)
                        ELSE FlagsOf(s.threads, t)
    BY <1>8, <2>3 DEF ReduceItem, ApplyThreadEvent, Result, FlagsOf
  <2>. QED
    BY <1>1, <1>8, <2>1, <2>2, <2>3 DEF Same
<1>. QED
  BY <1>2, <1>3, <1>4, <1>5, <1>6, <1>7, <1>8 DEF WellFormed

----------------------------------------------------------------------------
(* The invariant *)

\* The stream of a thread tells of that thread only.
OneThread == stream # None =>
  DOMAIN state.threads \subseteq {stream} /\ DOMAIN resumed.threads \subseteq {stream}

\* The cursor has passed every event that was folded.
FoldedPassed == \A n \in folded : n <= state.sequence

SaidStands == said \subseteq Standing(state.threads)

Inv == TypeOK /\ NothingUnannounced /\ SaidStands /\ FoldedPassed /\ OneThread /\ Converges

LEMMA EmptyType == EmptyState \in States /\ DOMAIN EmptyState.threads = {}
<1>1. [t \in {} |-> NoFlags] \in Maps
  <2>1. {} \in SUBSET Threads /\ [t \in {} |-> NoFlags] \in [{} -> FlagSets]
    OBVIOUS
  <2>. QED
    BY <2>1, MapIntro
<1>2. 0 \in Seqs
  BY ReducerAssumption DEF Seqs
<1>. QED
  BY <1>1, <1>2 DEF EmptyState, States, Maps

LEMMA InitInv == Init => Inv
<1> SUFFICES ASSUME Init PROVE Inv
  OBVIOUS
<1>1. TypeOK
  BY EmptyType DEF Init, TypeOK
<1>2. NothingUnannounced
  BY EmptyType DEF Init, NothingUnannounced, Standing
<1>3. SaidStands /\ FoldedPassed /\ OneThread /\ Converges
  BY EmptyType DEF Init, SaidStands, FoldedPassed, OneThread, Converges
<1>. QED
  BY <1>1, <1>2, <1>3 DEF Inv

\* Every item taken is a well-formed one, and on a thread's stream about that thread.
LEMMA TakenItems ==
  ASSUME TypeOK, Next, ~ Resume
  PROVE  \E item \in Items :
           /\ Take(item) /\ WellFormed(item)
           /\ item.kind = "event" => stream \in Threads /\ item.thread \in {stream, None}
           /\ stream # None => /\ item.kind \in {"synchronized", "snapshot", "event"}
                               /\ item.kind = "snapshot" => DOMAIN item.threads = {stream}
<1>1. CASE stream = None
  BY <1>1, ShellItemsType DEF Next, ShellItem, ThreadItem, Items
<1>2. CASE stream # None
  BY <1>2, ThreadItemsType DEF TypeOK, Next, ShellItem, ThreadItem, Items
<1>. QED
  BY <1>1, <1>2

\* An entry is a request's or a settled turn's, and never both.
LEMMA MatterKinds ==
  ASSUME NEW t, NEW flags \in FlagSets, NEW m \in Matters(t, flags)
  PROVE  /\ m = <<t, m[2], m[3]>> /\ m[1] = t
         /\ \/ m[2] \in flags.pending /\ m[2] \notin Settled
            \/ m[2] \in Settled /\ m[2] = flags.turnState /\ m[3] = flags.turnId
               /\ m[2] \notin Requests
<1>1. flags.pending \subseteq Requests
  BY DEF FlagSets
<1>2. Requests \cap Settled = {}
  BY ReducerAssumption DEF TurnStates
<1>3. CASE m \in {<<t, q, None>> : q \in flags.pending}
  BY <1>1, <1>2, <1>3
<1>4. CASE m \in {<<t, s, flags.turnId>> : s \in {flags.turnState} \cap Settled}
  BY <1>2, <1>4
<1>. QED
  BY <1>3, <1>4 DEF Matters

\* An entry that stands after an item stood before it, is told by the item, or is a
\* turn that took the place of one that had settled alike.
LEMMA StandingAfter ==
  ASSUME NEW s \in States, NEW item, WellFormed(item),
         NEW m \in Standing(ReduceItem(s, item).state.threads)
  PROVE  LET f == ReduceItem(s, item).state.threads
         IN  /\ m[1] \in DOMAIN f
             /\ \/ m \in Told(ReduceItem(s, item))
                \/ m \in Standing(s.threads) /\ (m[2] \in Settled =>
                     FlagsOf(s.threads, m[1]).turnState = f[m[1]].turnState)
                \/ m[2] \in Settled /\ Replaced(FlagsOf(s.threads, m[1]), f[m[1]])
<1> DEFINE f == ReduceItem(s, item).state.threads
           t == m[1]
           old == FlagsOf(s.threads, t)
<1>0. f \in Maps /\ s.threads \in Maps
  BY ReduceType DEF States, Maps
<1>1. t \in DOMAIN f /\ m \in Matters(t, f[t]) /\ f[t] \in FlagSets
  <2>1. PICK u \in DOMAIN f : m \in Matters(u, f[u])
    BY DEF Standing
  <2>2. f[u] \in FlagSets
    BY <1>0, MapType
  <2>. QED
    BY <2>1, <2>2, MatterKinds
<1>2. Diff(t, old, f[t]) \subseteq ReduceItem(s, item).events
  BY <1>1, EventsAreDiffs
<1>3. <<t, m[2]>> \in Diff(t, old, f[t]) => m \in Told(ReduceItem(s, item))
  BY <1>2 DEF Told
<1>4. ASSUME m \in Matters(t, old) PROVE m \in Standing(s.threads)
  <2>1. Matters(t, NoFlags) = {}
    BY ReducerAssumption DEF Matters, NoFlags, TurnStates
  <2>2. t \in DOMAIN s.threads
    BY <1>4, <2>1 DEF FlagsOf
  <2>. QED
    BY <1>4, <2>2 DEF FlagsOf, Standing
<1> HIDE DEF f, t, old
<1>5. CASE m \in {<<t, q, None>> : q \in f[t].pending}
  <2>1. m[2] \in f[t].pending /\ m[2] \notin Settled /\ m = <<t, m[2], None>>
    <3>1. f[t].pending \subseteq Requests /\ Requests \cap Settled = {}
      BY <1>1, ReducerAssumption DEF FlagSets, TurnStates
    <3>. QED
      BY <1>5, <3>1
  <2>2. CASE m[2] \in old.pending
    <3>1. m \in Matters(t, old)
      BY <2>1, <2>2 DEF Matters
    <3>. QED
      BY <1>1, <1>4, <2>1, <3>1 DEF f, t
  <2>3. CASE m[2] \notin old.pending
    <3>1. <<t, m[2]>> \in Diff(t, old, f[t])
      BY <2>1, <2>3 DEF Diff
    <3>. QED
      BY <1>1, <1>3, <3>1 DEF f, t
  <2>. QED
    BY <2>2, <2>3
<1>6. CASE m \in {<<t, st, f[t].turnId>> : st \in {f[t].turnState} \cap Settled}
  <2>1. m[2] = f[t].turnState /\ m[2] \in Settled /\ m = <<t, m[2], f[t].turnId>>
    BY <1>6
  <2>2. CASE old.turnState # m[2]
    <3>1. <<t, m[2]>> \in Diff(t, old, f[t])
      BY <2>1, <2>2 DEF Diff
    <3>. QED
      BY <1>1, <1>3, <3>1 DEF f, t
  <2>3. CASE old.turnState = m[2] /\ old.turnId = f[t].turnId
    <3>1. m \in Matters(t, old)
      BY <2>1, <2>3 DEF Matters
    <3>. QED
      BY <1>1, <1>4, <2>1, <2>3, <3>1 DEF f, t, old
  <2>4. CASE old.turnState = m[2] /\ old.turnId # f[t].turnId
    <3>1. Replaced(old, f[t])
      BY <2>1, <2>4 DEF Replaced
    <3>. QED
      BY <1>1, <2>1, <3>1 DEF f, t, old
  <2>. QED
    BY <2>2, <2>3, <2>4
<1>. QED
  BY <1>1, <1>5, <1>6 DEF Matters

\* Two readers that agree on a thread, before and after an item, raise the same events
\* about it.
LEMMA AlikeHalf ==
  ASSUME NEW a \in States, NEW b \in States, NEW item, WellFormed(item),
         NEW K \in SUBSET Threads,
         \A t \in K : /\ Same(a, b, t)
                      /\ Same(ReduceItem(a, item).state, ReduceItem(b, item).state, t),
         NEW e \in EventsOf(K, ReduceItem(a, item))
  PROVE  e \in EventsOf(K, ReduceItem(b, item))
<1> DEFINE f == ReduceItem(a, item).state.threads
           g == ReduceItem(b, item).state.threads
<1>1. PICK t \in DOMAIN f : e \in Diff(t, FlagsOf(a.threads, t), f[t])
  BY EventsAreDiffs DEF EventsOf
<1>2. e[1] = t /\ t \in K
  BY <1>1 DEF Diff, EventsOf
<1>3. t \in DOMAIN g /\ f[t] = g[t] /\ FlagsOf(a.threads, t) = FlagsOf(b.threads, t)
  BY <1>1, <1>2 DEF Same, FlagsOf
<1>4. e \in ReduceItem(b, item).events
  BY <1>1, <1>3, EventsAreDiffs
<1>. QED
  BY <1>2, <1>4 DEF EventsOf

LEMMA TakeInv ==
  ASSUME Inv, NEW item, Take(item), WellFormed(item),
         item.kind = "event" => stream \in Threads /\ item.thread \in {stream, None},
         stream # None => /\ item.kind \in {"synchronized", "snapshot", "event"}
                          /\ item.kind = "snapshot" => DOMAIN item.threads = {stream}
  PROVE  Inv'
<1>0. /\ state \in States /\ resumed \in States /\ synced \subseteq Threads
      /\ stream \in Threads \cup {None}
      /\ state' = ReduceItem(state, item).state /\ resumed' = ReduceItem(resumed, item).state
      /\ state.sequence = resumed.sequence
      /\ stream' = stream
  BY DEF Inv, TypeOK, Take, Converges
<1>1. state' \in States /\ resumed' \in States
  BY <1>0, ReduceType
<1>2. /\ Given(item) \subseteq Threads
      /\ synced' \subseteq synced \cup Given(item)
  BY DEF Given, WellFormed, Take
<1>3. TypeOK'
  <2>1. overtaken' \subseteq Threads
    <3>1. DOMAIN state'.threads \subseteq Threads
      BY <1>1, MapType DEF States, Maps
    <3>. QED
      BY <1>0, <3>1 DEF Take, Overtaken
  <2>2. folded' \subseteq Seqs
    <3>1. CASE item.kind \in {"synchronized", "snapshot"}
      BY <3>1 DEF Inv, TypeOK, Take
    <3>2. CASE item.kind \notin {"synchronized", "snapshot"}
      <4>1. {item.seq} \ {None} \subseteq Seqs
        BY <3>2 DEF WellFormed, Sequenced, MaybeSeqs
      <4>. QED
        BY <3>2, <4>1 DEF Inv, TypeOK, Take
    <3>. QED
      BY <3>1, <3>2
  <2>. QED
    BY <1>0, <1>1, <1>2, <2>1, <2>2 DEF TypeOK
<1>4. NothingUnannounced' /\ SaidStands'
  <2>1. said' = (said \cup Told(ReduceItem(state, item))) \cap Standing(state'.threads)
    BY <1>0 DEF Take
  <2>2. overtaken' = Overtaken(state.threads, state'.threads)
    BY <1>0 DEF Take
  <2>3. ASSUME NEW m \in Standing(state'.threads), m \notin said'
        PROVE  m[2] \in Settled /\ m[1] \in overtaken'
    <3>1. m \notin said /\ m \notin Told(ReduceItem(state, item))
      BY <2>1, <2>3
    <3>2. /\ m[1] \in DOMAIN state'.threads
          /\ \/ m \in Standing(state.threads) /\ (m[2] \in Settled =>
                   FlagsOf(state.threads, m[1]).turnState = state'.threads[m[1]].turnState)
             \/ m[2] \in Settled /\ Replaced(FlagsOf(state.threads, m[1]), state'.threads[m[1]])
      BY <1>0, <3>1, <2>3, StandingAfter
    <3>3. m \in Standing(state.threads) => m[2] \in Settled /\ m[1] \in overtaken
      BY <3>1 DEF Inv, NothingUnannounced
    <3>. QED
      BY <2>2, <3>2, <3>3 DEF Overtaken
  <2>. QED
    BY <2>1, <2>3 DEF NothingUnannounced, SaidStands
<1>5. FoldedPassed'
  <2>1. CASE item.kind = "snapshot"
    BY <2>1 DEF FoldedPassed, Take
  <2>2. CASE item.kind = "synchronized"
    BY <1>0, <2>2 DEF Inv, FoldedPassed, Take, ReduceItem, Silent
  <2>3. CASE item.kind \notin {"synchronized", "snapshot"}
    <3>1. /\ state.sequence <= state'.sequence
          /\ item.seq # None => item.seq <= state'.sequence
      BY <1>0, <2>3, CursorAdvances
    <3>2. folded' \subseteq folded \cup ({item.seq} \ {None})
      BY <2>3 DEF Take
    <3>3. folded \subseteq Nat /\ state.sequence \in Nat /\ state'.sequence \in Nat
      BY <1>0, <1>1, ReducerAssumption DEF Inv, TypeOK, States, Seqs
    <3>. QED
      BY <3>1, <3>2, <3>3 DEF Inv, FoldedPassed
  <2>. QED
    BY <2>1, <2>2, <2>3
<1>6. OneThread'
  <2> SUFFICES ASSUME stream # None, NEW s \in {state, resumed}
               PROVE  DOMAIN ReduceItem(s, item).state.threads \subseteq {stream}
    BY <1>0 DEF OneThread
  <2>1. DOMAIN s.threads \subseteq {stream}
    BY DEF Inv, OneThread
  <2>2. CASE item.kind = "synchronized"
    BY <2>1, <2>2 DEF ReduceItem, Silent
  <2>3. CASE item.kind = "snapshot"
    BY <2>3 DEF ReduceItem, ApplySnapshot, Result
  <2>4. CASE item.kind = "event"
    <3>1. EventThread(s, item) \subseteq {stream}
      BY <2>1, <2>4 DEF EventThread
    <3>. QED
      BY <2>1, <2>4, <3>1 DEF ReduceItem, ApplyThreadEvent, Result, Silent
  <2>. QED
    BY <2>2, <2>3, <2>4
<1>7. Converges'
  <2>1. PICK u \in Threads \cup {None} :
          item.kind = "event" /\ item.thread = None =>
            /\ u \in Threads
            /\ DOMAIN state.threads \subseteq {u} /\ DOMAIN resumed.threads \subseteq {u}
    BY <1>0, ReducerAssumption DEF Inv, OneThread
  <2>2. \A t \in synced : Same(state, resumed, t)
    BY DEF Inv, Converges, Same
  <2>3. ASSUME NEW t \in synced' PROVE
          /\ state'.sequence = resumed'.sequence
          /\ Same(state', resumed', t)
    <3>1. t \in Threads
      BY <1>0, <1>2
    <3>2. \/ t \in synced
          \/ item.kind = "snapshot"
          \/ t \in Given(item) /\ item.kind # "synchronized" /\ ~ Stale(state, item.seq)
      BY DEF Take
    <3>3. PICK v \in Threads :
            item.kind = "event" /\ item.thread = None =>
              DOMAIN state.threads \subseteq {v} /\ DOMAIN resumed.threads \subseteq {v}
      BY <2>1, <3>1
    <3>. QED
      BY <1>0, <2>2, <3>1, <3>2, <3>3, SameAfter
  <2>4. state'.sequence = resumed'.sequence
    <3>1. CASE item.kind = "synchronized"
      BY <1>0, <3>1 DEF ReduceItem, Silent
    <3>2. CASE item.kind = "snapshot"
      BY <1>0, <3>2 DEF ReduceItem, ApplySnapshot, Result, NextSeq
    <3>3. CASE item.kind \notin {"synchronized", "snapshot"} /\ Stale(state, item.seq)
      BY <1>0, <3>3, StaleIsSilent DEF Silent, Stale
    <3>4. CASE item.kind \notin {"synchronized", "snapshot"} /\ ~ Stale(state, item.seq)
      BY <1>0, <3>4
      DEF WellFormed, ReduceItem, ApplyShellEvent, ApplyThreadEvent, Upsert, Remove, Result,
          NextSeq, Stale
    <3>. QED
      BY <3>1, <3>2, <3>3, <3>4
  <2>. QED
    BY <2>3, <2>4 DEF Converges, Same
<1>. QED
  BY <1>3, <1>4, <1>5, <1>6, <1>7 DEF Inv

LEMMA ResumeInv ==
  ASSUME Inv, Resume
  PROVE  Inv'
<1>1. TypeOK'
  BY EmptyType DEF Inv, TypeOK, Resume, EmptyState, States
<1>2. NothingUnannounced' /\ SaidStands' /\ FoldedPassed'
  BY DEF Inv, Resume, NothingUnannounced, SaidStands, FoldedPassed
<1>3. OneThread' /\ Converges'
  BY EmptyType DEF Inv, Resume, OneThread, Converges, EmptyState
<1>. QED
  BY <1>1, <1>2, <1>3 DEF Inv

LEMMA Invariance == Spec => []Inv
<1>1. Inv /\ [Next]_vars => Inv'
  <2> SUFFICES ASSUME Inv, [Next]_vars PROVE Inv'
    OBVIOUS
  <2>1. CASE Resume
    BY <2>1, ResumeInv
  <2>2. CASE Next /\ ~ Resume
    BY <2>2, TakenItems, TakeInv DEF Inv
  <2>3. CASE UNCHANGED vars
    <3>1. TypeOK' /\ NothingUnannounced' /\ SaidStands'
      BY <2>3 DEF vars, Inv, TypeOK, NothingUnannounced, SaidStands
    <3>2. FoldedPassed' /\ OneThread' /\ Converges'
      BY <2>3 DEF vars, Inv, FoldedPassed, OneThread, Converges
    <3>. QED
      BY <3>1, <3>2 DEF Inv
  <2>. QED
    BY <2>1, <2>2, <2>3
<1>. QED
  BY InitInv, <1>1, PTL DEF Spec

----------------------------------------------------------------------------
\* The fold keeps its types, whatever the stream carries.
THEOREM TypeInvariant == Spec => []TypeOK
<1>1. Inv => TypeOK
  BY DEF Inv
<1>. QED
  BY Invariance, <1>1, PTL

\* What stands was announced, each settled turn under its own id: none that a
\* snapshot, an upsert or an event shows goes by in silence, but for a turn that
\* settled as the one before it did with nothing seen between the two.
THEOREM AllAnnounced == Spec => []NothingUnannounced
<1>1. Inv => NothingUnannounced
  BY DEF Inv
<1>. QED
  BY Invariance, <1>1, PTL

\* What stands is not announced twice.
THEOREM AnnouncedOnce == Spec => []NothingRepeated
<1>1. Inv => NothingRepeated
  <2> SUFFICES ASSUME Inv, NEW item \in Items, NEW m \in said, m \in Told(ReduceItem(state, item))
               PROVE  FALSE
    BY DEF NothingRepeated
  <2>1. WellFormed(item) /\ state \in States
    BY ShellItemsType, ThreadItemsType DEF Inv, TypeOK, Items
  <2> DEFINE f == ReduceItem(state, item).state.threads
  <2>2. f \in Maps /\ state.threads \in Maps
    BY <2>1, ReduceType DEF States, Maps
  <2>3. PICK t \in DOMAIN state.threads : m \in Matters(t, state.threads[t])
    BY DEF Inv, SaidStands, Standing
  <2>4. PICK u \in DOMAIN f : <<m[1], m[2]>> \in Diff(u, FlagsOf(state.threads, u), f[u])
    BY <2>1, EventsAreDiffs DEF Told
  <2>5. state.threads[t] \in FlagSets /\ f[u] \in FlagSets
    BY <2>2, MapType
  <2> HIDE DEF f
  <2>6. u = t /\ m[1] = t /\ FlagsOf(state.threads, u) = state.threads[t]
    BY <2>3, <2>4, <2>5, MatterKinds DEF Diff, FlagsOf
  <2>7. \/ m[2] \in f[u].pending \ state.threads[t].pending
        \/ m[2] \in Settled /\ m[2] # state.threads[t].turnState
    BY <2>4, <2>6 DEF Diff
  <2>8. f[u].pending \subseteq Requests
    BY <2>5 DEF FlagSets
  <2>. QED
    BY <2>3, <2>5, <2>7, <2>8, MatterKinds
<1>. QED
  BY Invariance, <1>1, PTL

\* An event delivered again, at once or after later ones, changes nothing and
\* announces nothing.
THEOREM RedeliveryDropped == Spec => []RedeliveryIsSilent
<1>1. Inv => RedeliveryIsSilent
  <2> SUFFICES ASSUME Inv, NEW item \in Items,
                      item.kind \notin {"snapshot", "synchronized"}, item.seq \in folded
               PROVE  ReduceItem(state, item) = Silent(state)
    BY DEF RedeliveryIsSilent
  <2>1. WellFormed(item)
    BY ShellItemsType, ThreadItemsType DEF Inv, TypeOK, Items
  <2>2. Stale(state, item.seq)
    BY ReducerAssumption DEF Inv, TypeOK, FoldedPassed, Stale
  <2>. QED
    BY <2>1, <2>2, StaleIsSilent
<1>. QED
  BY Invariance, <1>1, PTL

\* A reader that starts again from the saved cursor announces of the threads it has
\* the record of what it would have announced without the restart.
THEOREM ResumedAnnouncesAlike == Spec => []AnnouncesAlike
<1>1. Inv => AnnouncesAlike
  <2> SUFFICES ASSUME Inv, NEW item \in Items
               PROVE  EventsOf(synced, ReduceItem(resumed, item)) =
                      EventsOf(synced, ReduceItem(state, item))
    BY DEF AnnouncesAlike
  <2>1. /\ WellFormed(item) /\ state \in States /\ resumed \in States
        /\ synced \in SUBSET Threads /\ state.sequence = resumed.sequence
    BY ShellItemsType, ThreadItemsType DEF Inv, TypeOK, Items, Converges
  <2>2. \A t \in synced : Same(state, resumed, t)
    BY DEF Inv, Converges, Same
  <2>3. item.kind = "event" => stream \in Threads
    BY ShellItemsType DEF Inv, TypeOK, Items
  <2>4. ASSUME NEW t \in synced
        PROVE  Same(ReduceItem(state, item).state, ReduceItem(resumed, item).state, t)
    <3>1. PICK u \in Threads :
            item.kind = "event" /\ item.thread = None =>
              DOMAIN state.threads \subseteq {u} /\ DOMAIN resumed.threads \subseteq {u}
      <4>1. CASE item.kind = "event"
        BY <2>3, <4>1, ReducerAssumption DEF Inv, OneThread
      <4>2. CASE item.kind # "event"
        BY <2>1, <4>2
      <4>. QED
        BY <4>1, <4>2
    <3>. QED
      BY <2>1, <2>2, <3>1, SameAfter
  <2>5. \A t \in synced :
          /\ Same(resumed, state, t)
          /\ Same(ReduceItem(resumed, item).state, ReduceItem(state, item).state, t)
    BY <2>2, <2>4 DEF Same
  <2>6. ASSUME NEW e \in EventsOf(synced, ReduceItem(state, item))
        PROVE  e \in EventsOf(synced, ReduceItem(resumed, item))
    BY <2>1, <2>2, <2>4, <2>6, AlikeHalf
  <2>7. ASSUME NEW e \in EventsOf(synced, ReduceItem(resumed, item))
        PROVE  e \in EventsOf(synced, ReduceItem(state, item))
    BY <2>1, <2>5, <2>7, AlikeHalf
  <2>. QED
    BY <2>6, <2>7
<1>. QED
  BY Invariance, <1>1, PTL

\* A reader that starts again from the saved cursor ends up with what it would
\* have held without the restart, thread by thread, as records come in.
THEOREM ResumedConverges == Spec => []Converges
<1>1. Inv => Converges
  BY DEF Inv
<1>. QED
  BY Invariance, <1>1, PTL
=============================================================================
