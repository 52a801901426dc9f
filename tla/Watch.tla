------------------------------- MODULE Watch -------------------------------
(***************************************************************************)
(* The life of a live watch (talaria/watch.py): the tools t3_watch and     *)
(* t3_unwatch, the plugin's unload, and the background readers they start  *)
(* and stop.  They share three things: the registry _live of running       *)
(* readers, the persisted blob {cursors, targets} in ctx.state, and each   *)
(* reader's `live` record (stop flag, task, client).                       *)
(*                                                                         *)
(* A step is one access to shared state.  OnLoop says how the steps of two *)
(* activities interleave:                                                  *)
(*   TRUE   handlers and readers share the host's asyncio loop             *)
(*          (ctx.spawn_task): whoever runs keeps the `baton` until it      *)
(*          awaits or returns, and a reader can be cancelled at an await;  *)
(*   FALSE  handlers run in host threads, where spawn_task raises and      *)
(*          _thread_fallback gives every reader a daemon thread: any step  *)
(*          of one may fall between two steps of another.                  *)
(***************************************************************************)
EXTENDS Naturals

CONSTANTS
  Watches,   \* watch ids: an environment's shell, or one of its threads
  Callers,   \* host threads that run tool handlers
  Readers,   \* reader identities: a bound on the readers alive at once
  MaxSeq,    \* the largest sequence number the server assigns (a bound)
  OnLoop,    \* one loop (TRUE) or host threads (FALSE), see above
  NoOne      \* "None"

ASSUME WatchAssumption ==
  /\ NoOne \notin Watches \cup Callers \cup Readers
  /\ Callers \cap Readers = {}
  /\ OnLoop \in BOOLEAN
  /\ MaxSeq \in Nat

VARIABLES
  live,       \* _live: the reader registered for a watch id, if any
  blob,       \* the watch blob in ctx.state; a cursor of 0 is an absent one
  bound,      \* a ctx is bound: register() ran and the plugin is loaded
  call,       \* each caller's handler: the step it is at and its locals
  rdr,        \* each reader: the step it is at, its `live` record and its locals
  baton,      \* OnLoop: who is running between two awaits
  told,       \* history: the last item the watch dealt with since its cursor was dropped
  lost        \* history: the item after that a crash caught between save and injection

vars == <<live, blob, bound, call, rdr, baton, told, lost>>

----------------------------------------------------------------------------
Seqs == 0 .. MaxSeq

EmptyBlob == [cursors |-> [w \in Watches |-> 0], targets |-> {}]

\* A handler that is not running, and a reader identity not in use.
IdleCall == [pc |-> "idle", wid |-> NoOne, cursor |-> 0, copy |-> EmptyBlob,
             reader |-> NoOne]
FreeReader == [pc |-> "free", wid |-> NoOne, stop |-> FALSE, cancel |-> FALSE,
               client |-> "none", seq |-> 0, item |-> "none", says |-> FALSE,
               copy |-> EmptyBlob]

\* The last item a watch dealt with: its sequence, and whether it was an event
\* (announced, unless it had nothing to say), a snapshot, or a snapshot taken over
\* whose announcements are still to be made.
Marks == [seq : Seqs, by : {"event", "snapshot", "taken"}]
NoMark == [seq |-> 0, by |-> "event"]

\* A reader that ended: nothing reads its record again.
DoneReader == [FreeReader EXCEPT !.pc = "done"]

Ended == {"free", "done", "dead"}

\* Steps at which a reader's coroutine is suspended: not yet begun, waiting for
\* the connection, for the next item, for the client to close.
Awaits == {"new", "connecting", "streaming", "closing"}

\* A reader that will go on consuming the stream unless someone stops it.
Running(r) == rdr[r].pc \notin Ended \cup {"unspawned"}

\* May the activity p take a step, and does it keep the loop afterwards?
May(p) == baton \in {NoOne, p}
Keep(p) == baton' = IF OnLoop THEN p ELSE NoOne
Yield == baton' = NoOne

Init ==
  /\ live = [w \in Watches |-> NoOne]
  /\ blob = EmptyBlob
  /\ bound = TRUE
  /\ call = [c \in Callers |-> IdleCall]
  /\ rdr = [r \in Readers |-> FreeReader]
  /\ baton = NoOne
  /\ told = [w \in Watches |-> NoMark]
  /\ lost = [w \in Watches |-> {}]

----------------------------------------------------------------------------
(* t3_watch: start_watch *)

\* Mutant: the test for an existing reader is dropped.
MutantHasLive(w) == FALSE

HasLive(w) == live[w] # NoOne /\ ~ rdr[live[w]].stop

\* A registered reader that was not stopped answers "watched": nothing is started.
AlreadyWatched(c, w) ==
  /\ bound /\ call[c].pc = "idle" /\ May(c)
  /\ HasLive(w)
  /\ UNCHANGED vars

\* A reader identity nothing refers to any more.
Unused(r) ==
  /\ rdr[r].pc \in Ended
  /\ \A w \in Watches : live[w] # r
  /\ \A c \in Callers : call[c].reader # r

\* The reader's identity is chosen here, so that a handler that began can finish.
BeginWatch(c, w) ==
  /\ bound /\ call[c].pc = "idle" /\ May(c)
  /\ ~ HasLive(w)
  /\ \E r \in Readers :
       /\ Unused(r)
       /\ call' = [call EXCEPT ![c] = [IdleCall EXCEPT !.pc = "cursor", !.wid = w,
                                                      !.reader = r]]
  /\ Keep(c)
  /\ UNCHANGED <<live, blob, bound, rdr, told, lost>>

ReadCursor(c) ==
  /\ call[c].pc = "cursor" /\ May(c)
  /\ call' = [call EXCEPT ![c].pc = "putRead",
                          ![c].cursor = blob.cursors[call[c].wid]]
  /\ Keep(c)
  /\ UNCHANGED <<live, blob, bound, rdr, told, lost>>

\* _put_target and _drop_target read the whole blob, change it and write it back.
PutRead(c) ==
  /\ call[c].pc = "putRead" /\ May(c)
  /\ call' = [call EXCEPT ![c].pc = "putWrite", ![c].copy = blob]
  /\ Keep(c)
  /\ UNCHANGED <<live, blob, bound, rdr, told, lost>>

WithTarget(b, w, cursor) ==
  [cursors |-> IF cursor > 0 THEN [b.cursors EXCEPT ![w] = cursor] ELSE b.cursors,
   targets |-> b.targets \cup {w}]

PutWrite(c) ==
  /\ call[c].pc = "putWrite" /\ May(c)
  /\ blob' = WithTarget(call[c].copy, call[c].wid, call[c].cursor)
  /\ call' = [call EXCEPT ![c].pc = "register", ![c].copy = EmptyBlob]
  /\ Keep(c)
  /\ UNCHANGED <<live, bound, rdr, told, lost>>

\* The reducer starts at the cursor that was read, with no threads.
Register(c) ==
  /\ call[c].pc = "register" /\ May(c)
  /\ live' = [live EXCEPT ![call[c].wid] = call[c].reader]
  /\ rdr' = [rdr EXCEPT ![call[c].reader] =
               [FreeReader EXCEPT !.pc = "unspawned", !.wid = call[c].wid,
                                  !.seq = call[c].cursor]]
  /\ call' = [call EXCEPT ![c].pc = "spawn"]
  /\ Keep(c)
  /\ UNCHANGED <<blob, bound, told, lost>>

Spawn(c) ==
  /\ call[c].pc = "spawn" /\ May(c)
  /\ rdr' = [rdr EXCEPT ![call[c].reader].pc = "new"]
  /\ call' = [call EXCEPT ![c] = IdleCall]
  /\ Yield
  /\ UNCHANGED <<live, blob, bound, told, lost>>

----------------------------------------------------------------------------
(* t3_unwatch: stop_watch;  unload: reset_live_watches *)

\* Mutant: the client is closed, the reader is neither told nor cancelled.
MutantUntold(x) ==
  [x EXCEPT !.client = IF @ = "open" THEN "closeRequested" ELSE @]

\* Mutant: the task is not cancelled.
MutantUncancelled(x) ==
  IF x.pc = "done" THEN x
  ELSE [x EXCEPT !.stop = TRUE, !.client = IF @ = "open" THEN "closeRequested" ELSE @]

\* _interrupt_live: set the stop flag, cancel the task (a thread has no cancel),
\* schedule the client's close on the reader's loop if there is a client yet.
Interrupted(x) ==
  IF x.pc = "done" THEN x
  ELSE [x EXCEPT !.stop = TRUE,
                 !.cancel = OnLoop /\ x.pc # "dead",
                 !.client = IF @ = "open" THEN "closeRequested" ELSE @]

UnwatchPop(c, w) ==
  /\ bound /\ call[c].pc = "idle" /\ May(c)
  /\ live' = [live EXCEPT ![w] = NoOne]
  /\ call' = [call EXCEPT ![c] = [IdleCall EXCEPT !.wid = w, !.reader = live[w],
                !.pc = IF live[w] = NoOne THEN "dropRead" ELSE "interrupt"]]
  /\ Keep(c)
  /\ UNCHANGED <<blob, bound, rdr, told, lost>>

Interrupt(c) ==
  /\ call[c].pc = "interrupt" /\ May(c)
  /\ rdr' = [rdr EXCEPT ![call[c].reader] = Interrupted(@)]
  /\ call' = [call EXCEPT ![c].pc = "dropRead", ![c].reader = NoOne]
  /\ Keep(c)
  /\ UNCHANGED <<live, blob, bound, told, lost>>

DropRead(c) ==
  /\ call[c].pc = "dropRead" /\ May(c)
  /\ call' = [call EXCEPT ![c].pc = "dropWrite", ![c].copy = blob]
  /\ Keep(c)
  /\ UNCHANGED <<live, blob, bound, rdr, told, lost>>

WithoutTarget(b, w) ==
  [cursors |-> [b.cursors EXCEPT ![w] = 0], targets |-> b.targets \ {w}]

DropWrite(c) ==
  /\ call[c].pc = "dropWrite" /\ May(c)
  /\ blob' = WithoutTarget(call[c].copy, call[c].wid)
  /\ told' = [told EXCEPT ![call[c].wid] = NoMark]
  /\ lost' = [lost EXCEPT ![call[c].wid] = {}]
  /\ call' = [call EXCEPT ![c] = IdleCall]
  /\ Yield
  /\ UNCHANGED <<live, bound, rdr>>

\* _on_unload unbinds the ctx and interrupts every reader it lists ...
UnloadInterrupt(c) ==
  /\ bound /\ call[c].pc = "idle" /\ May(c)
  /\ bound' = FALSE
  /\ rdr' = [r \in Readers |-> IF \E w \in Watches : live[w] = r
                               THEN Interrupted(rdr[r]) ELSE rdr[r]]
  /\ call' = [call EXCEPT ![c].pc = "clear"]
  /\ Keep(c)
  /\ UNCHANGED <<live, blob, told, lost>>

\* ... and then empties the registry.
UnloadClear(c) ==
  /\ call[c].pc = "clear" /\ May(c)
  /\ live' = [w \in Watches |-> NoOne]
  /\ call' = [call EXCEPT ![c] = IdleCall]
  /\ Yield
  /\ UNCHANGED <<blob, bound, rdr, told, lost>>

\* register(ctx) runs again, once no handler is at work.
Reload ==
  /\ ~ bound /\ baton = NoOne
  /\ \A c \in Callers : call[c].pc = "idle"
  /\ bound' = TRUE
  /\ UNCHANGED <<live, blob, call, rdr, baton, told, lost>>

----------------------------------------------------------------------------
(* The reader: body() and run_watch *)

At(r, pc) == rdr[r].pc = pc /\ May(r)

\* A cancelled task resumes with CancelledError whatever else it waited for.
Resumes(r, pc) == At(r, pc) /\ ~ rdr[r].cancel

\* client_factory succeeded; subscribe() awaits the connection.
BodyStarts(r) ==
  /\ Resumes(r, "new")
  /\ rdr' = [rdr EXCEPT ![r].pc = "connecting", ![r].client = "open"]
  /\ Yield
  /\ UNCHANGED <<live, blob, bound, call, told, lost>>

\* client_factory raised (no credential, a bad reference): it is called before
\* the try, so the finally that unregisters the reader does not run.
FactoryFails(r) ==
  /\ Resumes(r, "new")
  /\ rdr' = [rdr EXCEPT ![r].pc = "dead"]
  /\ Yield
  /\ UNCHANGED <<live, blob, bound, call, told, lost>>

\* Also while the client is closing: a dial in flight when close() runs succeeds.
Connected(r) ==
  /\ Resumes(r, "connecting")
  /\ rdr' = [rdr EXCEPT ![r].pc = "streaming"]
  /\ Yield
  /\ UNCHANGED <<live, blob, bound, call, told, lost>>

\* The connection is refused, or the stream ends, breaks or is closed.
StreamEnds(r) ==
  /\ Resumes(r, "connecting") \/ Resumes(r, "streaming")
  /\ rdr' = [rdr EXCEPT ![r].pc = "closing"]
  /\ Yield
  /\ UNCHANGED <<live, blob, bound, call, told, lost>>

\* Mutant: the item is skipped and the loop goes on (continue for break).
MutantStopNoticed(r) ==
  /\ Resumes(r, "streaming") /\ rdr[r].stop
  /\ UNCHANGED vars

\* An item arrives after the stop flag was set: the loop breaks.
StopNoticed(r) ==
  /\ Resumes(r, "streaming") /\ rdr[r].stop
  /\ rdr' = [rdr EXCEPT ![r].pc = "closing"]
  /\ Yield
  /\ UNCHANGED <<live, blob, bound, call, told, lost>>

\* Mutant: a replayed event is not dropped.
MutantReceive(r, s, says) ==
  /\ Resumes(r, "streaming") /\ ~ rdr[r].stop
  /\ rdr' = [rdr EXCEPT ![r].pc = "saveRead", ![r].item = "event", ![r].seq = s,
                        ![r].says = says]
  /\ Keep(r)
  /\ UNCHANGED <<live, blob, bound, call, told, lost>>

\* reduce_item of an event with sequence s: at or below the cursor it changes
\* nothing (0 stands for the completion marker, which never does), a later one
\* moves the cursor.  Whether it says anything salient is Reducer's affair.
Receive(r, s, says) ==
  /\ Resumes(r, "streaming") /\ ~ rdr[r].stop
  /\ rdr' = [rdr EXCEPT ![r].pc = "saveRead",
                        ![r].item = IF s > rdr[r].seq THEN "event" ELSE "none",
                        ![r].seq = IF s > rdr[r].seq THEN s ELSE @,
                        ![r].says = says /\ s > rdr[r].seq]
  /\ Keep(r)
  /\ UNCHANGED <<live, blob, bound, call, told, lost>>

\* reduce_item of a snapshot: it is never stale.  Its sequence becomes the cursor,
\* the older one too, and since a reader starts with no threads it may announce
\* again what stands.  An item without a sequence is like a snapshot at the cursor.
ReceiveSnapshot(r, s, says) ==
  /\ Resumes(r, "streaming") /\ ~ rdr[r].stop
  /\ rdr' = [rdr EXCEPT ![r].pc = "saveRead", ![r].item = "snapshot", ![r].seq = s,
                        ![r].says = says]
  /\ Keep(r)
  /\ UNCHANGED <<live, blob, bound, call, told, lost>>

\* The stream gives its next item: the stop flag is looked at before it is reduced.
ItemArrives(r) ==
  /\ rdr[r].pc = "streaming"
  /\ \/ StopNoticed(r)
     \/ \E s \in Seqs, says \in BOOLEAN : Receive(r, s, says) \/ ReceiveSnapshot(r, s, says)

\* persist(): the cursor is saved before the item's events are injected, and for a
\* stale item too; the target is put back if it is gone.
SaveRead(r) ==
  /\ At(r, "saveRead")
  /\ rdr' = [rdr EXCEPT ![r].pc = "saveWrite", ![r].copy = blob]
  /\ Keep(r)
  /\ UNCHANGED <<live, blob, bound, call, told, lost>>

\* Mutant: the cursor is saved one too far.
MutantWithCursor(b, w, seq) ==
  [cursors |-> [b.cursors EXCEPT ![w] = seq + 1], targets |-> b.targets \cup {w}]

WithCursor(b, w, seq) ==
  [cursors |-> [b.cursors EXCEPT ![w] = seq], targets |-> b.targets \cup {w}]

\* What a reader's item is to its watch once the cursor is saved.
Saved(x, mark) ==
  CASE x.item = "event" /\ ~ x.says -> [seq |-> x.seq, by |-> "event"]
    [] x.item = "snapshot" -> [seq |-> x.seq, by |-> IF x.says THEN "taken" ELSE "snapshot"]
    [] OTHER -> mark

\* Mutant: what an item says is not injected once the cursor was saved.
MutantSaveWrite(r) ==
  /\ At(r, "saveWrite")
  /\ blob' = WithCursor(rdr[r].copy, rdr[r].wid, rdr[r].seq)
  /\ rdr' = [rdr EXCEPT ![r].pc = "streaming", ![r].copy = EmptyBlob,
                        ![r].item = "none", ![r].says = FALSE]
  /\ told' = [told EXCEPT ![rdr[r].wid] = Saved(rdr[r], @)]
  /\ lost' = [lost EXCEPT ![rdr[r].wid] = IF rdr[r].item = "none" THEN @ ELSE {}]
  /\ Yield
  /\ UNCHANGED <<live, bound, call>>

SaveWrite(r) ==
  /\ At(r, "saveWrite")
  /\ blob' = WithCursor(rdr[r].copy, rdr[r].wid, rdr[r].seq)
  /\ rdr' = [rdr EXCEPT ![r].pc = IF rdr[r].says THEN "inject" ELSE "streaming",
                        ![r].copy = EmptyBlob,
                        ![r].item = IF rdr[r].says THEN @ ELSE "none"]
  /\ told' = [told EXCEPT ![rdr[r].wid] = Saved(rdr[r], @)]
  /\ lost' = [lost EXCEPT ![rdr[r].wid] = IF rdr[r].item = "none" THEN @ ELSE {}]
  /\ IF rdr[r].says THEN Keep(r) ELSE Yield
  /\ UNCHANGED <<live, bound, call>>

\* on_salient -> ctx.inject_message, for all that the item says; then the next item
\* is awaited.
Inject(r) ==
  /\ At(r, "inject")
  /\ told' = [told EXCEPT ![rdr[r].wid] =
                 [seq |-> rdr[r].seq,
                  by |-> IF rdr[r].item = "event" THEN "event" ELSE "snapshot"]]
  /\ rdr' = [rdr EXCEPT ![r].pc = "streaming", ![r].item = "none", ![r].says = FALSE]
  /\ Yield
  /\ UNCHANGED <<live, blob, bound, call, lost>>

\* The close that _interrupt_live scheduled runs on the reader's loop: a stream
\* that is being awaited breaks, a connection attempt goes on.
CloseRuns(r) ==
  /\ rdr[r].pc \in Awaits /\ rdr[r].client = "closeRequested" /\ May(r)
  /\ rdr' = [rdr EXCEPT ![r].client = "closed",
                        ![r].pc = IF @ = "streaming" /\ ~ rdr[r].cancel
                                  THEN "closing" ELSE @]
  /\ UNCHANGED <<live, blob, bound, call, baton, told, lost>>

\* CancelledError: a body that never began never runs; a suspended run_watch
\* goes through the finally; a second await inside the finally is cut short.
Cancelled(r) ==
  /\ rdr[r].cancel /\ rdr[r].pc \in Awaits /\ May(r)
  /\ rdr' = [rdr EXCEPT ![r] =
               IF @.pc \in {"connecting", "streaming"}
               THEN [@ EXCEPT !.pc = "closing", !.cancel = FALSE]
               ELSE DoneReader]
  /\ UNCHANGED <<live, blob, bound, call, baton, told, lost>>

\* finally: close the client, then unregister, but only one's own entry.
ClientClosed(r) ==
  /\ Resumes(r, "closing")
  /\ rdr' = [rdr EXCEPT ![r].pc = "leaving", ![r].client = "closed"]
  /\ Keep(r)
  /\ UNCHANGED <<live, blob, bound, call, told, lost>>

\* Mutant: the test for one's own entry is inverted.
MutantLeaveCheck(r) ==
  /\ At(r, "leaving")
  /\ IF live[rdr[r].wid] # r
     THEN rdr' = [rdr EXCEPT ![r].pc = "popping"] /\ Keep(r)
     ELSE rdr' = [rdr EXCEPT ![r] = DoneReader] /\ Yield
  /\ UNCHANGED <<live, blob, bound, call, told, lost>>

LeaveCheck(r) ==
  /\ At(r, "leaving")
  /\ IF live[rdr[r].wid] = r
     THEN rdr' = [rdr EXCEPT ![r].pc = "popping"] /\ Keep(r)
     ELSE rdr' = [rdr EXCEPT ![r] = DoneReader] /\ Yield
  /\ UNCHANGED <<live, blob, bound, call, told, lost>>

LeavePop(r) ==
  /\ At(r, "popping")
  /\ live' = [live EXCEPT ![rdr[r].wid] = NoOne]
  /\ rdr' = [rdr EXCEPT ![r] = DoneReader]
  /\ Yield
  /\ UNCHANGED <<blob, bound, call, told, lost>>

\* The host process dies and starts again: only ctx.state survives.
Crash ==
  /\ live' = [w \in Watches |-> NoOne]
  /\ bound' = TRUE
  /\ call' = [c \in Callers |-> IdleCall]
  /\ rdr' = [r \in Readers |-> FreeReader]
  /\ baton' = NoOne
  /\ lost' = [w \in Watches |-> lost[w] \cup
                {rdr[r].seq : r \in {q \in Readers : rdr[q].pc = "inject" /\ rdr[q].wid = w}}]
  /\ UNCHANGED <<blob, told>>

----------------------------------------------------------------------------
\* What a handler does once it has begun.
Continue(c) ==
  \/ ReadCursor(c) \/ PutRead(c) \/ PutWrite(c) \/ Register(c) \/ Spawn(c)
  \/ Interrupt(c) \/ DropRead(c) \/ DropWrite(c) \/ UnloadClear(c)

\* What a reader does by itself, whatever the server does.
Advance(r) ==
  \/ BodyStarts(r) \/ FactoryFails(r) \/ SaveRead(r) \/ SaveWrite(r) \/ Inject(r)
  \/ CloseRuns(r) \/ Cancelled(r) \/ ClientClosed(r) \/ LeaveCheck(r) \/ LeavePop(r)

Next ==
  \/ \E c \in Callers :
       \/ \E w \in Watches : AlreadyWatched(c, w) \/ BeginWatch(c, w) \/ UnwatchPop(c, w)
       \/ UnloadInterrupt(c)
       \/ Continue(c)
  \/ \E r \in Readers :
       \/ Connected(r) \/ StreamEnds(r) \/ ItemArrives(r)
       \/ Advance(r)
  \/ Reload
  \/ Crash

\* A thread that can run is scheduled, and the loop serves its ready queue in
\* order, so a step that is ready again and again is taken.  The server owes
\* nothing: a connection may stay pending and a stream may stay quiet.
Fairness ==
  /\ \A c \in Callers : SF_vars(Continue(c))
  /\ \A r \in Readers : SF_vars(Advance(r))

\* A server that answers: dials conclude and items keep arriving.
ServerFairness ==
  \A r \in Readers :
    /\ WF_vars(rdr[r].pc = "connecting" /\ (Connected(r) \/ StreamEnds(r)))
    /\ WF_vars(StopNoticed(r))

Spec == Init /\ [][Next]_vars
FairSpec == Spec /\ Fairness
FairServerSpec == FairSpec /\ ServerFairness

----------------------------------------------------------------------------
Blobs == [cursors : [Watches -> Seqs], targets : SUBSET Watches]

Calls ==
  [pc : {"idle", "cursor", "putRead", "putWrite", "register", "spawn",
         "interrupt", "dropRead", "dropWrite", "clear"},
   wid : Watches \cup {NoOne}, cursor : Seqs, copy : Blobs,
   reader : Readers \cup {NoOne}]

ReaderRecords ==
  [pc : Ended \cup Awaits \cup {"unspawned", "saveRead", "saveWrite", "inject",
                                "leaving", "popping"},
   wid : Watches \cup {NoOne}, stop : BOOLEAN, cancel : BOOLEAN,
   client : {"none", "open", "closeRequested", "closed"},
   seq : Seqs, item : {"none", "event", "snapshot"}, says : BOOLEAN, copy : Blobs]

\* Types, and which locals are set at which step: a handler at work on a watch
\* names it, one that handles a reader names it, and a reader that was
\* registered knows its watch.
TypeOK ==
  /\ live \in [Watches -> Readers \cup {NoOne}]
  /\ blob \in Blobs
  /\ bound \in BOOLEAN
  /\ call \in [Callers -> Calls]
  /\ rdr \in [Readers -> ReaderRecords]
  /\ baton \in Callers \cup Readers \cup {NoOne}
  /\ told \in [Watches -> Marks]
  /\ lost \in [Watches -> SUBSET Seqs]
  /\ \A c \in Callers :
       /\ call[c].pc \notin {"idle", "clear"} => call[c].wid \in Watches
       /\ call[c].pc \in {"cursor", "putRead", "putWrite", "register", "spawn",
                          "interrupt"} => call[c].reader \in Readers
  /\ \A r \in Readers : rdr[r].pc \notin {"free", "done"} => rdr[r].wid \in Watches

\* On the loop, whenever nothing is running, every reader that nobody stopped is
\* the one registered for its watch: no two readers feed the conversation from
\* one watch, and no reader is beyond the reach of t3_unwatch and of unload
\* (start_watch's test, the reader's own unregistering and reset_live_watches).
SoleReader ==
  baton = NoOne =>
    \A r \in Readers : Running(r) /\ ~ rdr[r].stop => live[rdr[r].wid] = r

\* A reader whose finally ran is not registered any more, whoever stopped it,
\* cancelled it in the middle of the finally or replaced it meanwhile.
NoEndedReaderRegistered ==
  \A w \in Watches : live[w] # NoOne => rdr[live[w]].pc # "done"

\* A resume never skips an item that was read: the saved cursor is that of the last
\* item whose events were injected (or that said nothing), of the one that the
\* reader that saved it is about to inject, or of one a crash caught between the
\* two (persist_sequence before on_salient).
OnlyCrashLoses ==
  \A w \in Watches :
    \/ blob.cursors[w] = 0
    \/ blob.cursors[w] = told[w].seq /\ told[w].by # "taken"
    \/ blob.cursors[w] \in lost[w]
    \/ \E r \in Readers :
         rdr[r].pc = "inject" /\ rdr[r].wid = w /\ rdr[r].seq = blob.cursors[w]

\* A watch target appears in ctx.state only because t3_watch put it there: what
\* t3_unwatch cleared is not written back by a reader or by another handler's
\* older copy of the blob.
TargetsOnlyFromWatch ==
  [][\A w \in Watches : w \in blob'.targets \ blob.targets =>
       \E c \in Callers : call[c].pc = "putWrite" /\ call[c].wid = w]_vars

\* A watch is on while a reader that nobody stopped runs for it.
Watching ==
  {w \in Watches : \E r \in Readers : Running(r) /\ rdr[r].wid = w /\ ~ rdr[r].stop}

Promised == INSTANCE WatchPromise WITH watching <- Watching

\* On the loop, readers, handlers, unloads and crashes together keep what a watch
\* promises: from one snapshot to the next events are announced in the order of
\* their sequences and none twice, across pauses, crashes and resumes too; nothing
\* is announced after an unwatch; only a snapshot, which is where a watch starts
\* over and may announce again what stands, or an unwatch, takes it back.
KeepsPromise == Promised!PromiseSpec

\* A watch that answers "watched" without starting a reader has one: the entry
\* it found does not belong to a reader whose body raised.
LiveEntryHasReader ==
  \A w \in Watches : HasLive(w) => rdr[live[w]].pc # "dead"

\* A reader that was told to stop stops.
StopsEventually ==
  \A r \in Readers : rdr[r].stop ~> (rdr[r].pc \in Ended \/ ~ rdr[r].stop)
=============================================================================
