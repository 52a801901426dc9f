# Talaria, verified: TLA+ models and proofs for hermes-plugin-talaria

Talaria (plugin id `t3code`) lets a Hermes agent drive remote T3 Code servers: it
pairs with them or discovers them through T3 Connect, reads and prompts their
threads, waits for turns, reads files, and watches threads live, injecting what
matters into the conversation. The package is `src/talaria/`, about 5000 lines of
Python. This directory holds TLA+ modules of its stateful parts, the TLC
configurations that check them and proofs that TLAPS checks. `PROJECT.json` gives
the source lines of every definition.

## 1. Inventory

| Component | State | Operations | Interacts with | What is hard | What makes it correct |
|---|---|---|---|---|---|
| Watch lifecycle (`watch.py` 30-40, 396-431, 479-703) | `_live`: watch id -> reader; the blob `{cursors, targets}` in `ctx.state`; each reader's `live` record | `t3_watch`, `t3_unwatch`, unload, the reader's body, persist, inject | WS client (one per reader), reducer, `ctx.spawn_task` or a daemon thread, `ctx.inject_message` | handlers and readers interleave; cancellation at any await; a crash between cursor and injection | one reader per watch; a stop stops; between snapshots events are told in order and none twice; nothing comes back after an unwatch |
| Watch reducer (`watch.py` 42-393) | `{sequence, threads}` | `reduce_item` | lifecycle | redelivery, snapshots against events, resuming with no threads | each turn and request that stands was announced, once; a redelivered event is silent; a resumed reader agrees with one that never stopped |
| WebSocket RPC client (`t3_ws.py`) | `_ws`, `_reader`, `_pending`, `_streams`, `_seq`, `_lock`, `_closing` | `request`, `subscribe`, `close`, the read loop | ticket by HTTP, server frames | dial races, lost sockets, cancellation, flow control by Ack | no call is stranded; answers reach their call in order; one socket |
| T3 Connect token tiers (`auth_t3connect.py` 336-548, 674-680, 852-892) | secrets: Clerk access and refresh token; caches `_relay_token`, `_env_access` | list, renew, buy a relay token, connect, exchange, send; `connect --code` stores | relay, Clerk, environment server, other threads, the CLI process | expiry under way, concurrent renewal of a one-time refresh token, lost answers | a carried token is alive; the account stays signed in |
| Names, secrets, discovery (`config.py`, `auth_direct.py`, `auth_t3connect.py` 501-548 and 841-921, `tools.py` 146-210, `cli.py`) | settings `environments`, secrets `T3CODE_TOKEN_*`, `ctx.state` `discovered_environments` | `login`, `logout`, list and merge, resolve, choose the client | every tool call | two stores written one after the other, colliding labels and secret names | the stores agree; a request carries its server's token; the union loses no environment |
| Clerk sign-in (`auth_t3connect.py` 180-335, 683-767) | pending ceremony, in memory and as a secret; two Clerk secrets | `connect`, `connect --code`, the host's renewal | Clerk, browser, every process with the same secrets | two ceremonies, a death between two writes, a renewal under way during a sign-in | the code of the last ceremony can be completed; both tokens are of the account that signed in last |
| `t3_wait` and write tools (`tools.py` 497-700, `commands.py`) | none of their own | dispatch, poll until settled, asked or timed out | environment HTTP client | the server executes late, answers are lost; deadline | one call, one command; "settled" is true of a moment in the wait; the wait ends near its deadline |
| Read tools (`tools.py` 216-360, 430-495) | the cursor, which the agent keeps | page a thread backwards, cut an answer to fit | HTTP client | the server's cursor knows nothing of the cut | what was passed over is marked truncated |
| File tools (`tools.py` 880-1000) | none | read cut, write the whole file | WS client | an edit of a cut read; a write that runs after its call failed | a tail is never lost in silence |
| DPoP key (`dpop.py`) | the key, a secret | load or create; sign | token tiers | two threads create it at once | a call is refused for its proof only because of that |
| HTTP client, schemas, errors, registration | a shared `httpx.Client` | stateless | | | |

How they interact: every tool call first lists the account's environments when the
user is signed in, writes the merged map to `ctx.state`, resolves the argument
against settings and map, chooses a bearer or the DPoP client, and sends HTTP
requests. Watches and file tools open a `T3WsClient` with a ticket bought over HTTP.
A watch's reader folds its subscription through the reducer, saves the cursor, then
injects the events.

The hazards this code is exposed to, each at its line and with the properties that
cover it or the reason none does, are in `PROJECT.json` under `hazards`.

## 2. Modules

| Module | Models | Checked by | Proved in |
|---|---|---|---|
| `Watch` | the lifecycle of watches | `WatchLoop`, `WatchStops`, `WatchPoisoned`, `WatchQuiet` | `WatchProofs` |
| `WatchPromise` | the abstract promise of `t3_watch` / `t3_unwatch` | refined by `Watch` in `WatchLoop` | `WatchProofs` |
| `Reducer` | `reduce_item` and a second, resuming reader | `Reducer`, `ReducerRequests` | `ReducerProofs` |
| `WsClient` | `T3WsClient`, its socket and its server | `WsClient`, `WsLive` | `WsClientProofs` |
| `ConnectAccess` | the four tiers of T3 Connect tokens | `ConnectAccess`, `ConnectRefused` | `ConnectAccessProofs` |
| `Environments` | names, secrets, discovery, resolution | `Environments` | `EnvironmentsProofs` |
| `Threads` | write tools and `t3_wait` against a server | `Tools` | `ThreadsProofs` |
| `Answers` | the pure functions that shape answers | through `Pages` and `Files` | lemmas in `ToolsProofs` |
| `Pages` | an agent that pages a thread with `t3_thread` | `Tools` | `ToolsProofs` |
| `Files` | agents that edit one file | `Tools` | `ToolsProofs` |
| `SignIn` | `connect`, `connect --code`, the host's renewal | `Tools` | `AuthProofs` |
| `ProofKey` | the DPoP key, its creation and the tokens bound to it | `Tools` | `AuthProofs` |

`MC*` modules give TLC its symmetry and structured constants. `MCWatchStops` runs `Watch` in
both of its modes, chosen in `Init`. `MCTools` runs five modules that share no state side by
side: `task` says which of them a behaviour is of, and nothing crosses; that each of the five
then keeps its own specification is `SideBySide` in `ToolsProofs`.

### Watch
A step is one access to shared state. `OnLoop = TRUE` is the host where handlers and
readers share the asyncio loop (`ctx.spawn_task` works): whoever runs keeps `baton`
until it awaits or returns. `OnLoop = FALSE` is the fallback where every reader has a
daemon thread with its own loop (`_thread_fallback`) and any two steps interleave.
`call[c].pc` walks through `start_watch`, `stop_watch` or the unload; `rdr[r].pc`
through `body()`: `new`, `connecting`, `streaming`, then per item `saveRead`,
`saveWrite`, `inject`, and at the end `closing`, `leaving`, `popping`. The `closing`
await stands for the generator's `aclose` and `_close_client` together. `live`, `blob`
and the record's `stop`, `cancel`, `client` are the code's fields. An item is what the
cursor makes of it: an event (`Receive`) with any sequence, dropped at or below the
cursor, or a snapshot (`ReceiveSnapshot`), which is never stale and moves the cursor
where it says, back too; whether it `says` anything is left open and is `Reducer`'s
affair. `Crash` kills all readers and handlers and keeps the blob. The stop flag is looked
at when an item arrives (`ItemArrives`), before the item is reduced. `told` and `lost` are
history: the last item a watch dealt with, and what a crash caught before its injection.

`WatchPromise` knows only which watches are on and the last item each dealt with. From
one snapshot to the next a watch tells events in the order of their sequences and none
twice, also across pauses, crashes and resumes; it tells nothing while it is off; a
snapshot is where it starts over, with any sequence, and it may announce again what
stands, as a resumed reader without threads does; only an unwatch forgets. `Watch` maps
`watching` to the watches with a running reader nobody stopped.

### Reducer
`ReduceItem` is the fold: a snapshot replaces the threads, upserts and removals change
one, thread events change flags, and the salient events are computed from the flags
before and after. Values that the code only tests for presence are `None` when absent.
The state machine offers any item any server could send next to one reader, and the
same items to a second reader that may restart at any moment from the saved cursor
with no threads. Snapshots may be older than what was folded.

The rest is history. What there is to announce (`Matters`) is a thread's request, or a turn
by its own id with the state it settled in; `said` is what was announced of it and still
stands. The code compares states and not turns, so a turn that settles as the turn before
it, with nothing between that shows it running, raises nothing: `overtaken` holds the
threads where that happened, until their state changes, and `NothingUnannounced` excepts
them. `folded` holds the sequences of the events since the
last snapshot, for redelivery. `synced` holds the threads whose record the resumed reader
was given: about those it holds (`Converges`) and announces (`AnnouncesAlike`) what a reader
that never stopped does. Of the others its first record announces again what stands, and a
lone session-set that settles a turn says nothing; both are the code's behaviour and no
property promises otherwise.

### WsClient
A step is what runs between two awaits. `call` is the caller's request or
subscription, `lock` the dial lock, `wire` the frames received on each socket. The
server sends the next chunk only after the Ack of the one before. A chunk is queued before
its Ack, so it reaches its subscription even when the Ack fails and ends the reader. A
frame that the loop cannot decode ends it too (`ReadUndecodable`, reader `failed`): the
waiters fail, the socket stays open and nobody reads it, which `OneSocket` allows.
Abstractions: `_auth_latched` is left out (written, never read); one `close()` at a time; the
Ack is one step with the dispatch of its chunk. The opening handshake takes longer than a
reader takes to notice its broken socket (`DialSucceeds`); a loop that ends on a broken
socket after the redial is thereby left out, so the code's test `self._ws is ws` is not put
to the test.

### ConnectAccess
A token is named by the moment its server stops accepting it. Each call lists (with the
one retry after renewing the Clerk tokens; a relay that cannot be reached is passed over,
`ListSkipped`, and the call goes on with the map it has), then sends any number of requests, each
through `Request`, `Dpop`, `Connect`, `Exchange`, `Send`. `cli` is `connect --code` in
another process. `Restart` loses the caches and keeps the secrets. The caches of the
relay and the environment are read in one step. Not modelled: revocation before expiry,
a change of relay origin, more than one environment. The model starts signed in.
`Patience < Skew` is the 30 s timeout of the HTTP client (`t3_env.py:50`) against the
300 s skew; a host suspended in the middle of a request is outside it.

### Environments
An environment stands for its id, its server, its URL and the bearer that server
issued; names are ids, label slugs, or what the user typed. `cli` is one `login` or
`logout`, whose two writes are two steps; it may die at each. A tool call is `list`,
`write` (of `ctx.state`), `resolve`, `authorise`, `sent`. The relay may list any of the
environments in any order. `raced` remembers that another command or call wrote a store
since the call began; `torn` the names whose last command died between its writes. The
settings and `ctx.state` are read in one step at the resolution. Assumption
`EnvironmentsAssumption`: ids are names that no label and no user uses (they are uuids).
Entries written by hand and `t3connect.enabled = false` are not modelled.

### Threads
The server is a log of events: the commands it executed and the starts, requests and
ends of turns. What a shell snapshot says of a thread is a function of the log at the
moment the server read it (`Running`, `Pending`, `Status`). `Dispatch` is a write tool up
to the moment its request leaves, with the ids of `new_id()`; `Execute` may happen while
the caller waits, after it gave up, or never. A wait is `poll`, `look` (the row is on its
way back), `sleep`. `Tick` is a second: it counts `left` down and `age` up, wakes sleepers
on time and lets no poll take longer than `Latency`. A prompt is one event and its turn
another, so that a wait may come between them. What the property names do not say is in
their comments: a prompt whose turn has not started is not waited for.

### Answers, Pages, Files
`Answers` states `_turns_from_messages`, `_fit_thread_payload` and `_cap_read`. A text is
the sequence of its characters' widths, in JSON characters or in UTF-8 bytes. `Pages` is
one agent that reads backwards while turns are added; messages of a turn may come after
the next turn began. `Files` has several agents that read, append a character and write
back. A write that failed may still run. The versions in `Files` are history, they are
not in the code. What neither module has: an agent that reads with `t3_read_file` and
knows to distrust a marked read is told by `truncated` alone.

### SignIn
`memory` is `_pending` of each process, `pending` and `stored` are the secrets. Commands
are `connect` (two steps: memory, secret), `connect --code` (look, exchange, store access,
store refresh, forget) and the host's renewal (read, answer, store, store). A process dies
between any two steps. PKCE is what it does: a code is exchanged with the verifier of its
own ceremony or refused. `torn` and `overrun` are history. Sign-in outside Hermes, which
has no secrets and keeps the ceremony in memory only, is not modelled.

### ProofKey
A key is its number, a token is the key it is bound to. A call loads the key anew at each
of the five places of the code that do, and `load_or_create_key` is two steps, look and
store. Which token is due is left open (`ConnectAccess` has the clock): any of them may
expire at any moment. `settled` and `replaced` are history.

## 3. Runs

| Run | Question | Answer and bounds |
|---|---|---|
| `watch_loop` | On one loop, is there one reader per watch, does nothing return after an unwatch, can the cursor get ahead of the injections, is an ended reader left in `_live`, is `WatchPromise` implemented? | Yes to the first two; only by a crash; never left; implemented. 2 watches, 1 handler at a time, 2 reader identities, sequences to 2 |
| `watch_stops` | Does a stopped reader end? | It ends: on the loop whatever the server does, with daemon threads if it goes on sending. 1 watch, 2 readers, sequences to 1 on the loop and 0 with threads (the stop does not look at them) |
| `watch_poisoned` | Does every entry of `_live` have a reader? | No: finding |
| `watch_quiet` | Does a stop end a thread-mode reader whose stream is quiet? | No: finding |
| `reducer` | Is each turn and request that stands announced, once; is redelivery silent; does a resumed reader hold and announce what one that never stopped does? | Yes, but for turns that settle as the one before. 2 threads, 2 turn ids, 1 kind of request, sequences to 2, 4 records of each turn, every event |
| `reducer_requests` | Is every request announced on a thread's stream? | No: finding |
| `ws_client` | Stranded calls, answers to the wrong call, stalled streams, second sockets? | None. 2 callers, 2 sockets, 2 ids, 2 chunks |
| `ws_live` | Does every call whose socket is lost end? | Yes, fair loop, 2 callers, 1 socket |
| `connect_access` | Are carried tokens alive, is the refresh token kept? | Yes. 2 callers, clock to 5, 3 refresh tokens |
| `connect_refused` | Is a call refused only when signed out? | No: finding |
| `environments` | Do stores agree, do requests carry their token, is every listed environment reachable? | Yes, with the exceptions the properties name. 3 servers, 6 names, 2 commands, 1 call at a time |
| `tools` | Threads: is a wait bounded, does "timeout" or "settled" tell the truth, is a command executed twice or a turn given access nobody asked for? Pages and Files: is anything cut in silence? SignIn: can the last ceremony be completed, are the tokens of one account? ProofKey: who is refused? | Yes to the first two, no command twice, nothing silent; the rest as the properties say. 1 agent, 2 commands, 5 events; 3 turns; 2 editors, 3 writes of up to 4 characters; 2 processes, 2 accounts, 2 ceremonies, 3 grants; 2 threads, 2 keys |

Why the bounds are enough. The races of `Watch` are between two activities over one
registry entry; two watches show that one does not disturb another, two readers that an
old one meets its successor. Sequence 2 gives "earlier", "same" and "later". In `Reducer`
two turns are the one that stands and the one that takes its place. In
`WsClient` two callers race for the lock, two sockets are a loss and a redial, two
chunks are the one held back and the one before. In `ConnectAccess` the lifetimes are
chosen so that every tier expires within the clock's bound and at different moments, and
three refresh tokens let two renewals and a sign-in overlap. In `Environments` two
servers share a label and a third has none, two names share a secret name, and two
commands are the least with which one can be torn and another follow. With one caller,
no call races another there: the properties make no promise to a raced call.
In `tools`, five events are a prompt, its turn, a request, the turn's end and one more
command; two commands are a prompt and the one sent after its answer was lost; the
timeouts lie below and above the floor and at the default. Three turns make a page that is
cut and one before it, with limits of 0 (the default), 1 and all; a prompt longer than
the limit is an answer that cannot fit. A limit of three bytes and characters of one and
two put the cut inside a character. Two ceremonies and two accounts are an old one and a
new one; three grants are a sign-in, a renewal and another sign-in. Two threads and two
keys are the race. Agents meet only in the log, where the late execution of one's
commands already stands for another's: the theorems hold for any number.

`CHECK_DEADLOCK` is left on everywhere: none of the systems stops, since calls may begin
again and waits, reads and resumes are always possible.

### Fairness
`FairSpec` of `Watch` is strong fairness for each handler and reader: the loop (and the
thread scheduler) runs whatever is ready again and again, and on the loop an activity is
enabled only while nobody holds the baton, hence strong. It demands nothing of the
server: `Advance` excludes the arrival of items and the end of a dial. `watch_stops`
(`MCWatchStops`) demands the same of both modes and adds, with daemon threads only, a
server whose dials conclude and whose items keep arriving: that mode looks at the flag
when one does, and `watch_quiet` shows what happens if none does. `FairSpec` of `WsClient` is
fairness of the loop for the read loops, the callers that have something to do and
`close()`; frames, failures and dials are owed by nobody.

## 4. Proofs

For every value of the constants, under the named assumptions of each module. Those say
that sets of names are disjoint, bounds are numbers and texts are sequences of widths;
the ones that say more are named below.

* `WatchProofs`: `TypeInvariant` (both modes) needs `Reservations`, a reader belongs to
  the one handler that will spawn it. `SoleReaderOnLoop` (`OnLoop = TRUE`) rests on
  `LoopInv`: only the holder of the baton is in the middle of a segment (`Segments`),
  and `Registry` says what `_live` tells of the readers at rest and inside a handler.
  `SoleReader` alone is not inductive: a reader that is no longer registered must be
  known to be stopped.

  What the loop feeds the conversation rests on `FeedInv`, on top of that: the blob a
  handler or a reader read is still the blob when it writes its copy back
  (`HandlerKnows`, `ReaderKnows`), a reader that feeds stands at its watch's saved cursor,
  away from it only while it saves an item and past it if that is an event, and nothing
  beyond the cursor was told (`NothingAhead`). Without these `OnlyCrashLoses` is not inductive: an older copy
  could set a cursor back or ahead. They give `OnlyCrashesLose`, `TargetsComeFromWatch`
  (an action property: only the write of `t3_watch` adds a target) and `PromiseIsKept`, the
  refinement of `WatchPromise`: initial states map to initial states (`PromiseStarts`), and
  each step to an announcement, a snapshot's starting over, a start, an unwatch, a pause or a
  stutter (`PromiseKept`).
  These hold with `OnLoop = TRUE` and are claimed for it alone: with daemon threads two
  steps of different activities may come between a look and a write.
  `EndedReadersUnregistered` holds in both modes; with threads it needs no segments, only
  that no reader is cancelled, so each ends in its own `finally` (`ThreadInv`).
* `ReducerProofs`: all rest on `EventsAreDiffs`, that the salient events of any item are
  the differences it makes between states. `AllAnnounced` speaks of turns: `StandingAfter`
  says that whatever stands after an item stood before, was raised by the item, or replaced
  a turn settled alike in a thread that is then `overtaken`. `AnnouncedOnce` needs that what
  was said still stands (`SaidStands`). `RedeliveryDropped` rests on `FoldedPassed`, that
  between snapshots the cursor is past every event folded. `ResumedConverges` and
  `ResumedAnnouncesAlike` rest on both readers folding the same item from equal flags
  (`Same`).
* `ConnectAccessProofs`: `CarriedTokensAlive` rests on `Margins`, that a cache's belief
  never exceeds its token's life and a call is never older than `Patience`.
  `StaysSignedIn` rests on `Successors`, that a refresh token on its way to the secrets
  is accepted, has one holder and is offered by nobody.
* `WsClientProofs`: all five theorems rest on `WsInv`. `Sockets`: whoever dials or backs off
  holds the lock and has no open socket, so the next one is the only one (`OneSocketOpen`).
  `Waiters`: `NoStrandedCall` alone is not inductive, because a subscription whose Request is
  still being sent must be registered and read already. `Numbered` and `Wired`: an id is
  given once, frames travel on their request's socket, an Exit is the server's last word, and
  of a request one chunk at most is on its way, the next that its call will queue; with
  `Queued` (what was sent is queued unless it is on its way) this gives
  `AnswersReachTheirCall` and `StreamsGoOn`.
* `EnvironmentsProofs`: `StoresKeepAgreeing` rests on `Written`, that a command about to
  write the settings has already written the secret that goes with them. Names that
  share a secret name are excluded by `Alone`, and the proof uses it at the one step
  where a write could disturb another name. `TypeInvariant`, `RequestsCarryTheirToken` and
  `ListedAreReached` rest on `CallInv`: whatever is held under a server's id is that server
  (`IdsAgree`; it needs the assumption that ids are names nobody uses as a label), and what
  a call has found out holds until another writes a store (`Knows`). That the map names
  every listed environment, whatever the labels and their order, is `AllDiscovered`: after
  each row of the listing the rows so far are reached (`Stages`).
* `ThreadsProofs`: all six theorems rest on `ThreadsInv`. `Timing`: time takes from `left`
  what it adds to `age`, so their sum bounds both how far past the deadline a poll can be
  (`WaitEnds`) and how far from it the last look was (`TimeoutMissesNothing`). `Over`: what
  the first events of the log say stays said, because the log only grows
  (`LastOfStable`), hence `SettledMeansOver`. `Ids`: an id is given once and is in flight
  or in the log once, hence `NoCommandTwice`. `ModesKept`: a command keeps until its
  execution the mode its builder gave it, hence `FullAccessAsked`; `ThreadsAssumption` says
  that an argument that is not passed differs from the modes.
* `AuthProofs`: `LastCeremonyStands` rests on `SecretKept`, that the secret is the last
  ceremony's until a sign-in finishes: `_clear_pending` forgets none but its own.
  `TokensOfLastSignIn` rests on what commands under way will store (`OfAccount`, `Current`,
  `JobsKept`). `NoOtherRefusal` rests on `OneKey`: while no key was stored over another
  no thread, cache or call knows a second one, and neither does anyone while a call goes on
  that began with one in play. `SignInTyped` and `ProofKeyTyped` rest on what a step of a
  command or call holds at each of its points (`SignInTypes`, `KeyTypes`).
* `ToolsProofs`: `NoSilentCut`, that no write of an edited read loses a tail the editor was
  not told of, rests on `FilesInv`: what was read of the present version without a mark is
  the whole file. `UnreadIsTold` rests on `PagesInv`: what lies between the cursor and the
  end was shown or marked, and the last answer is the fitted form of a page. That needs
  `PageTurns`, that `_turns_from_messages` gives back a page's turns whole and in order from
  messages in which turns overlap, and `FitFacts`, what fitting keeps. `NoNeedlessCut`, that
  an answer is cut no more than its limit demands, needs also that the binary search finds
  the longest text that fits (`LongestFitFacts`) and that an answer's size grows with its
  text (`ShorterFits`, `MarkGrows`). `PagesTyped`, `FilesTyped` and `ToolsTyped` are the
  types; the last, of all five systems of `MCTools`, goes through `SideBySide`.

Folds and induction. The functions of `Answers` and the listing of `Environments` are folds
over sequences. The library's induction theorems take an operator as a parameter, which
no installed prover instantiates, so the proofs do without: a set of numbers that holds
0 and, with each number below n, the next, holds all up to n (`UpTo`, from least
elements), and a fold or a recursive function is first shown to exist (`FoldExists`) before
its steps are used.

Only model-checked: the liveness properties (`StopsEventually`, `LostCallsEnd`), since
the prover has neither fairness nor `ENABLED` within reach. Every invariant and action
property of the passing runs is stated by a theorem. The runs that expect a violation
state what the documentation says and the code does not do, so there is nothing to prove.

## 5. Findings

Four runs find the code disagree with its documentation; `PROJECT.json` quotes the
lines. `watch_poisoned`: a factory that raises leaves a watch that is "watched" by
nobody. `watch_quiet`: in thread mode a stop before the client exists does not end a
reader on a quiet stream. `reducer_requests`: a thread's second request is not
announced. `connect_refused`: a long call is refused when the Clerk token expires,
though it could have been renewed.

Seen while modelling, without a run:
* A turn that settles in the state of the turn before it, with no item between that shows
  it running, is not announced: states are compared, not turns (`watch.py:194`), though
  `schemas.py:382` says that settled turns are injected. Without the exception of
  `overtaken`, `NothingUnannounced` is false after a snapshot and one upsert.
* A subscription whose send fails leaves its queue registered until the waiters next fail
  (`t3_ws.py:197`).
* A frame that is not UTF-8 ends the read loop and leaves its socket open and unread
  (`t3_ws.py:312`).
* `close()` during a dial leaves the dialled socket on a closed client (`t3_ws.py:284`).
* Two names that differ in punctuation share one secret (`config.py:35`).
* A watch's cursor is keyed by an environment name that may pass to another server
  (`watch.py:412`).
* `t3_wait` does not compare the sequence number a dispatch returned with the snapshot's:
  right after `t3_prompt` it may answer "settled" for the turn before (`tools.py:629`).
  `SettledIsOver` says what is true of it.
* `t3_respond` needs a request id that no tool shows to the agent.
* The page cursor is the server's, so the turns that `_fit_thread_payload` drops cannot be
  fetched with it; they are marked (`tools.py:487`).
* A process that remembers an older ceremony refuses the code of a newer one, because its
  memory wins over the secret (`auth_t3connect.py:714`).
* A renewal under way during a sign-in with another account may store the old account's
  tokens after it (`auth_t3connect.py:301`).
* The caches of relay and environment tokens survive a sign-in with another account:
  `reset_relay_cache` is called by tests only.
* After two threads created the DPoP key at once, tokens bought with the lost key stay
  cached, and are refused, until they expire (`dpop.py:172`).

## 6. Not modelled

`errors.py` and the tables of `schemas.py` have no behaviour over time. `t3_list`,
`t3_environments`, `t3_ls` and `t3_search` each pass one answer on: their resolution and
tokens are in `Environments` and `ConnectAccess`, their client in `WsClient`, and the shape
of what they answer is left to tests. Digests, signatures, URLs, headers and JSON are
abstracted. The pairing of a bearer server is one answer in `Environments`. Hand-written
environments, `t3connect.enabled = false`, revocation before expiry and sign-in outside
Hermes are left out, as said above.

Some hazards are modelled but no property covers them, because the code does not hold
there and the properties leave the case out by name: a process that remembers an older
ceremony, a renewal that outruns a sign-in, names that share a secret name, calls raced by a
command or by another listing, a wait for a prompt whose turn has not started. `PROJECT.json`
lists each with no property and the reason. The old read loop after a redial is excluded
by the assumption on the handshake, and of the growth and the leak of the socket
client's queues no property speaks.

## 7. Plan

Done, in this order: `Watch` and its promise (what users notice first when it breaks),
`Reducer`, `WsClient`, `ConnectAccess`, `Environments` and their first proofs; then
`Threads`, `Answers`, `Pages`, `Files`, `SignIn` and `ProofKey`, with the proofs of `Threads`,
`SignIn`, `ProofKey` and `WsClient`; then the proofs of the remaining safety properties: the
refinement of `WatchPromise`, the listing's map, pages and files.

What is left:
1. Compose `Watch` and `Environments`: cursors keyed by names that move.
2. Extend `ConnectAccess`: several environments, revocation and 401.
3. State what daemon threads still keep of `WatchPromise`, and prove it.
