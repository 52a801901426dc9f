------------------------------ MODULE Reducer ------------------------------
(***************************************************************************)
(* What a watch announces (talaria/watch.py, reduce_item and what it       *)
(* calls): the fold of a stream's items into {sequence, threads}, and the  *)
(* salient events each item raises.  A value the code only tests for being *)
(* there (a turn's state, its id, a sequence) is None when it is not.      *)
(*                                                                         *)
(* The second half runs the fold on one stream, next to a second reader of *)
(* the same stream that may start again at any moment from the saved       *)
(* cursor, as a watch does after a restart: with no threads (start_watch). *)
(***************************************************************************)
EXTENDS Naturals

CONSTANTS
  Threads,        \* the threads of the environment
  Turns,          \* turn ids
  Requests,       \* what a thread can ask for: approval, user input
  MaxSeq,         \* the largest sequence the server assigns (a bound)
  ThreadRecords,  \* the flags a thread shell or thread detail may carry
  ThreadEvents,   \* what the events of a thread's stream may say
  None

Settled == {"completed", "interrupted", "error"}
TurnStates == Settled \cup {"running"}

\* idle stands for ready too, interrupted for stopped, starting for any other.
Statuses == {"running", "idle", "error", "interrupted", "starting"}

Seqs == 0 .. MaxSeq
MaybeSeqs == Seqs \cup {None}

FlagSets ==
  [turnState : TurnStates \cup {None}, turnId : Turns \cup {None},
   pending : SUBSET Requests,
   status : Statuses \cup {None}, active : Turns \cup {None}]

EventSets ==
  [type : {"settled", "other"}] \cup
  [type : {"session-set"}, status : Statuses, turn : Turns \cup {None}] \cup
  [type : {"message"}, turn : Turns \cup {None}, streaming : BOOLEAN] \cup
  [type : {"interrupt"}, turn : Turns \cup {None}] \cup
  [type : {"requested"}, request : Requests]

ASSUME ReducerAssumption ==
  /\ MaxSeq \in Nat
  /\ ThreadEvents \subseteq EventSets
  /\ ThreadRecords \subseteq FlagSets
  /\ None \notin Threads \cup Turns \cup TurnStates \cup Statuses
  /\ None \notin Seqs
  /\ Requests \cap TurnStates = {}

----------------------------------------------------------------------------
(* Salient events *)

NoFlags == [turnState |-> None, turnId |-> None, pending |-> {},
            status |-> None, active |-> None]

FlagsOf(threads, t) == IF t \in DOMAIN threads THEN threads[t] ELSE NoFlags

\* Mutant: what is flagged is announced, whether or not it was before.
MutantDiff(t, old, new) ==
  {<<t, q>> : q \in new.pending} \cup {<<t, s>> : s \in {new.turnState} \cap Settled}

\* A request that is newly pending, a turn state that is newly a settled one.
Diff(t, old, new) ==
  {<<t, q>> : q \in new.pending \ old.pending} \cup
  {<<t, s>> : s \in ({new.turnState} \cap Settled) \ {old.turnState}}

Result(seq, threads, events) ==
  [state |-> [sequence |-> seq, threads |-> threads], events |-> events]

EventsOf(T, result) == {e \in result.events : e[1] \in T}

Silent(state) == [state |-> state, events |-> {}]

----------------------------------------------------------------------------
(* Sequences *)

\* Mutant: nothing is stale.
MutantStale(state, seq) == FALSE

Stale(state, seq) == seq # None /\ seq <= state.sequence

\* Mutant: an item without a sequence takes the cursor away.
MutantNextSeq(state, seq) == seq

NextSeq(state, seq) == IF seq = None THEN state.sequence ELSE seq

----------------------------------------------------------------------------
(* Items of the shell stream *)

\* Mutant: a snapshot announces nothing.
MutantSnapshot(state, item) ==
  Result(NextSeq(state, item.seq), item.threads, {})

\* Mutant: a snapshot leaves the threads it does not list.
MutantMerge(state, item) ==
  Result(NextSeq(state, item.seq),
         [t \in DOMAIN state.threads \cup DOMAIN item.threads |->
            IF t \in DOMAIN item.threads THEN item.threads[t] ELSE state.threads[t]],
         UNION {Diff(t, FlagsOf(state.threads, t), item.threads[t]) :
                  t \in DOMAIN item.threads})

\* A snapshot replaces sequence and threads, also when it is the older one.
ApplySnapshot(state, item) ==
  Result(NextSeq(state, item.seq), item.threads,
         UNION {Diff(t, FlagsOf(state.threads, t), item.threads[t]) :
                  t \in DOMAIN item.threads})

\* Mutant: a thread's flags are added to those it had.
MutantUpsert(state, item) ==
  LET old == FlagsOf(state.threads, item.thread)
      new == [item.flags EXCEPT !.pending = @ \cup old.pending]
  IN  Result(NextSeq(state, item.seq),
             [t \in DOMAIN state.threads \cup {item.thread} |->
                IF t = item.thread THEN new ELSE state.threads[t]],
             Diff(item.thread, old, new))

Upsert(state, item) ==
  Result(NextSeq(state, item.seq),
         [t \in DOMAIN state.threads \cup {item.thread} |->
            IF t = item.thread THEN item.flags ELSE state.threads[t]],
         Diff(item.thread, FlagsOf(state.threads, item.thread), item.flags))

Remove(state, item) ==
  Result(NextSeq(state, item.seq),
         [t \in DOMAIN state.threads \ {item.thread} |-> state.threads[t]], {})

\* project-upserted and project-removed only move the cursor.
ApplyShellEvent(state, item) ==
  IF Stale(state, item.seq) THEN Silent(state)
  ELSE CASE item.kind = "thread-upserted" -> Upsert(state, item)
         [] item.kind = "thread-removed"  -> Remove(state, item)
         [] item.kind = "project" -> Result(NextSeq(state, item.seq), state.threads, {})

----------------------------------------------------------------------------
(* Events of a thread stream *)

\* An event that names no thread is about the only one there is.
EventThread(state, item) ==
  IF item.thread # None THEN {item.thread}
  ELSE {t \in DOMAIN state.threads : DOMAIN state.threads = {t}}

SettledBy(status) ==
  CASE status = "idle" -> "completed" [] status = "error" -> "error"
    [] status = "interrupted" -> "interrupted" [] OTHER -> None

SessionSet(flags, event) ==
  [flags EXCEPT
     !.status = event.status, !.active = event.turn,
     !.turnState = IF event.status = "running" /\ event.turn # None THEN "running"
                   ELSE IF @ = "running" /\ SettledBy(event.status) # None
                        THEN SettledBy(event.status) ELSE @,
     !.turnId = IF event.status = "running" /\ event.turn # None THEN event.turn ELSE @]

\* An assistant message of the latest turn: a delta, or the final message while
\* the session still runs the turn, shows it running; the final message settles
\* it, but an interrupted or failed turn stays so.
MessageSent(flags, event) ==
  LET running == flags.status = "running" /\ flags.active = event.turn
  IN  IF event.turn = None \/ flags.turnId \notin {None, event.turn} THEN flags
      ELSE [flags EXCEPT
              !.turnId = event.turn,
              !.turnState = IF event.streaming \/ running THEN "running"
                            ELSE IF @ \in {"interrupted", "error"} THEN @ ELSE "completed"]

TurnInterrupt(flags, event) ==
  IF event.turn # None /\ event.turn = flags.turnId
  THEN [flags EXCEPT !.turnState = "interrupted"] ELSE flags

FoldThreadEvent(flags, event) ==
  CASE event.type = "settled"     -> [flags EXCEPT !.turnState = "completed"]
    [] event.type = "session-set" -> SessionSet(flags, event)
    [] event.type = "message"     -> MessageSent(flags, event)
    [] event.type = "interrupt"   -> TurnInterrupt(flags, event)
    [] event.type = "requested"   -> [flags EXCEPT !.pending = @ \cup {event.request}]
    [] event.type = "other"       -> flags

ApplyThreadEvent(state, item) ==
  LET about == EventThread(state, item)
      updated == [t \in about |-> FoldThreadEvent(FlagsOf(state.threads, t), item.event)]
  IN  IF Stale(state, item.seq) THEN Silent(state)
      ELSE Result(NextSeq(state, item.seq),
                  [t \in DOMAIN state.threads \cup about |->
                     IF t \in about THEN updated[t] ELSE state.threads[t]],
                  UNION {Diff(t, FlagsOf(state.threads, t), updated[t]) : t \in about})

ReduceItem(state, item) ==
  CASE item.kind = "synchronized" -> Silent(state)
    [] item.kind = "snapshot"     -> ApplySnapshot(state, item)
    [] item.kind = "event"        -> ApplyThreadEvent(state, item)
    [] OTHER                      -> ApplyShellEvent(state, item)

----------------------------------------------------------------------------
(* What a server sends on each kind of stream *)

ThreadMaps(S) == UNION {[T -> ThreadRecords] : T \in SUBSET S}

Sequenced == MaybeSeqs \ {0}

ShellItems ==
  [kind : {"synchronized"}] \cup
  [kind : {"snapshot"}, seq : MaybeSeqs, threads : ThreadMaps(Threads)] \cup
  [kind : {"thread-upserted"}, seq : Sequenced, thread : Threads, flags : ThreadRecords] \cup
  [kind : {"thread-removed"}, seq : Sequenced, thread : Threads] \cup
  [kind : {"project"}, seq : Sequenced]

\* A thread's stream: its detail, then its events, named or not.
ThreadItems(t) ==
  [kind : {"synchronized"}] \cup
  [kind : {"snapshot"}, seq : MaybeSeqs, threads : [{t} -> ThreadRecords]] \cup
  [kind : {"event"}, seq : Sequenced, thread : {t, None}, event : ThreadEvents]

----------------------------------------------------------------------------
VARIABLES
  stream,     \* the kind of stream: None for the shell's, or the thread it is about
  state,      \* the state of a reader that never stopped
  resumed,    \* the state of a reader that started again from the saved cursor
  synced,     \* history: the threads whose record the resumed reader was given
  said,       \* history: what was announced and still stands
  overtaken,  \* history: the threads where a turn that settled took the place of
              \* one that had settled alike
  folded      \* history: the sequences of the events folded since the last snapshot

vars == <<stream, state, resumed, synced, said, overtaken, folded>>

EmptyState == [sequence |-> 0, threads |-> [t \in {} |-> NoFlags]]

Init ==
  /\ stream \in Threads \cup {None}
  /\ state = EmptyState
  /\ resumed = EmptyState
  /\ synced = {}
  /\ said = {}
  /\ overtaken = {}
  /\ folded = {}

\* What there is to announce of a thread: each request it waits for, and the turn
\* that settled with the state it settled in.
Matters(t, flags) ==
  {<<t, q, None>> : q \in flags.pending} \cup
  {<<t, s, flags.turnId>> : s \in {flags.turnState} \cap Settled}

Standing(threads) == UNION {Matters(t, threads[t]) : t \in DOMAIN threads}

\* What the events of a result announce: an event names thread and state, and the
\* turn it is about is the one the thread then has.
Told(result) ==
  {m \in Standing(result.state.threads) : <<m[1], m[2]>> \in result.events}

\* Between old and new the thread's turn became another one (or got its id) while
\* its state stayed the same settled one: nothing in between showed it running.
Replaced(old, new) ==
  new.turnState \in Settled /\ new.turnState = old.turnState /\ new.turnId # old.turnId

Overtaken(before, after) ==
  {t \in DOMAIN after :
     \/ Replaced(FlagsOf(before, t), after[t])
     \/ t \in overtaken /\ FlagsOf(before, t).turnState = after[t].turnState}

\* The item gives its threads' whole records (or their absence).
Given(item) ==
  CASE item.kind = "snapshot" -> Threads
    [] item.kind \in {"thread-upserted", "thread-removed"} -> {item.thread}
    [] OTHER -> {}

Take(item) ==
  LET result == ReduceItem(state, item)
      fresh == item.kind # "synchronized" /\ (item.kind = "snapshot" \/ ~ Stale(state, item.seq))
  IN  /\ state' = result.state
      /\ resumed' = ReduceItem(resumed, item).state
      /\ synced' = IF fresh THEN synced \cup Given(item) ELSE synced
      /\ said' = (said \cup Told(result)) \cap Standing(result.state.threads)
      /\ overtaken' = Overtaken(state.threads, result.state.threads)
      /\ folded' = IF item.kind = "snapshot" THEN {}
                   ELSE IF fresh THEN folded \cup ({item.seq} \ {None}) ELSE folded
      /\ UNCHANGED stream

\* start_watch: the cursor that was saved, and no threads.
Resume ==
  /\ resumed' = [EmptyState EXCEPT !.sequence = state.sequence]
  /\ synced' = {}
  /\ UNCHANGED <<stream, state, said, overtaken, folded>>

\* The items that may come next.
Items == IF stream = None THEN ShellItems ELSE ThreadItems(stream)

ShellItem == stream = None /\ \E item \in ShellItems : Take(item)
ThreadItem == stream # None /\ \E item \in ThreadItems(stream) : Take(item)

Next == ShellItem \/ ThreadItem \/ Resume

Spec == Init /\ [][Next]_vars

----------------------------------------------------------------------------
States == [sequence : Seqs, threads : UNION {[T -> FlagSets] : T \in SUBSET Threads}]

TypeOK ==
  /\ stream \in Threads \cup {None}
  /\ state \in States
  /\ resumed \in States
  /\ synced \subseteq Threads
  /\ overtaken \subseteq Threads
  /\ folded \subseteq Seqs

\* No request a thread waits for stands unannounced, and no turn that settled, each
\* turn under its own id, whichever of snapshot, upsert and event showed it.  The one
\* exception is a turn that settled as the turn before it did with nothing between
\* the two: the code compares states and not turns (_diff_thread).
NothingUnannounced ==
  \A m \in Standing(state.threads) :
    m \notin said => m[2] \in Settled /\ m[1] \in overtaken

\* What was announced and still stands is not announced again: not by the
\* snapshot that repeats it, nor by an upsert or an event of another kind.
NothingRepeated ==
  \A item \in Items : Told(ReduceItem(state, item)) \cap said = {}

\* An event that is delivered again, at once or after later ones, is dropped (until a
\* snapshot, which may be the older one, starts over).
RedeliveryIsSilent ==
  \A item \in Items :
    item.kind \notin {"snapshot", "synchronized"} /\ item.seq \in folded =>
      ReduceItem(state, item) = Silent(state)

\* A reader that resumed from the saved cursor holds, for every thread whose
\* record it was given since, what a reader that never stopped holds.
Converges ==
  /\ resumed.sequence = state.sequence
  /\ \A t \in synced :
       /\ t \in DOMAIN resumed.threads <=> t \in DOMAIN state.threads
       /\ FlagsOf(resumed.threads, t) = FlagsOf(state.threads, t)

\* A resumed reader announces anew only what a record shows of a thread it has no
\* record of yet: about the others it announces what a reader that never stopped
\* announces, no more and no less.
AnnouncesAlike ==
  \A item \in Items :
    EventsOf(synced, ReduceItem(resumed, item)) = EventsOf(synced, ReduceItem(state, item))

\* Whatever a thread asks for is announced: an event that says so raises a salient
\* event.
RequestsAnnounced ==
  \A item \in Items :
    (item.kind = "event" /\ item.event.type = "requested" /\ ~ Stale(state, item.seq)) =>
      \A t \in EventThread(state, item) :
        <<t, item.event.request>> \in ReduceItem(state, item).events
=============================================================================
