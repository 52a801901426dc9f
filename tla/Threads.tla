------------------------------- MODULE Threads -------------------------------
(***************************************************************************)
(* Agents drive T3 Code threads: they dispatch commands (t3_new_thread,    *)
(* t3_prompt, t3_interrupt, t3_respond) and wait with t3_wait, which polls *)
(* the shell snapshot until the thread settles, asks for something, or a   *)
(* deadline passes (talaria/tools.py, commands.py, t3_env.py).             *)
(*                                                                         *)
(* The server executes a command some time after it was sent, even after   *)
(* the caller gave up on the answer, and starts the turn of a prompt some  *)
(* time after it accepted the prompt.  Time is kept in timers that Tick    *)
(* counts down.                                                            *)
(***************************************************************************)
EXTENDS Integers, Sequences, FiniteSets

CONSTANTS
    Agents,        \* callers of the tools, one call at a time each
    Latency,       \* bound: seconds between a poll and its answer
    Timeouts,      \* the timeout arguments of t3_wait: integers or Unset
    Intervals,     \* its interval arguments: integers or Unset
    DEFAULT_WAIT_TIMEOUT, DEFAULT_WAIT_INTERVAL, MIN_WAIT_INTERVAL,
    Modes,         \* the runtime_mode arguments: RUNTIME_MODES or Unset
    Unset,         \* an argument that is not passed
    MaxCommands,   \* bound: commands sent
    MaxEvents      \* bound: events in the server's log

ASSUME ThreadsAssumption ==
    /\ {Latency, DEFAULT_WAIT_TIMEOUT} \subseteq Nat
    /\ {DEFAULT_WAIT_INTERVAL, MIN_WAIT_INTERVAL} \subseteq Nat \ {0}
    /\ Timeouts \ {Unset} \subseteq Int /\ Intervals \ {Unset} \subseteq Int
    /\ Unset \notin {"approval-required", "none"}
    /\ {MaxCommands, MaxEvents} \subseteq Nat

VARIABLES
    log,       \* the server's events, of all threads, in order
    flight,    \* commands sent, not executed yet
    asked,     \* how many calls of the write tools there were
    issued,    \* how many ids new_id() gave
    call       \* each agent: its call, in progress or answered, see Calls

threadVars == <<log, flight, asked, issued, call>>

\* Thread 0 exists from the start; the others bear their command's id.
ThreadIds == 0 .. MaxCommands

Kinds == {"approval", "user-input"}

-----------------------------------------------------------------------------
(* The server *)

\* The position of the last of the first n events that is of thread t and of one
\* of these kinds, or 0.
LastOf(t, n, kinds) ==
    LET at == {i \in 1 .. n : log[i].thread = t /\ log[i].kind \in kinds}
    IN  IF at = {} THEN 0 ELSE CHOOSE i \in at : \A j \in at : j <= i

Exists(t, n) == t = 0 \/ LastOf(t, n, {"thread.create"}) > 0
LastRun(t, n) == LastOf(t, n, {"run"})
Running(t, n) == LastRun(t, n) > LastOf(t, n, {"over"})
Pending(t, n, k) == LastOf(t, n, {k}) > LastOf(t, n, {"respond " \o k, "over"})

Happens(kind, thread, id, mode, raw) ==
    /\ Len(log) < MaxEvents
    /\ log' = Append(log, [kind |-> kind, thread |-> thread, id |-> id,
                           mode |-> mode, raw |-> raw])

\* A command is executed, whoever still waits for it. The server decodes an
\* absent runtime mode as full-access.
Execute(c) ==
    /\ Happens(c.type, c.thread, c.id,
               IF c.mode = Unset THEN "full-access" ELSE c.mode, c.raw)
    /\ flight' = flight \ {c}
    /\ UNCHANGED <<asked, issued, call>>

\* The turn of thread t's newest prompt starts, asks for something, or ends.
Server(t) ==
    LET n == Len(log)
        prompt == LastOf(t, n, {"thread.turn.start"})
    IN  /\ \/ /\ ~Running(t, n) /\ prompt > LastRun(t, n)
              /\ Happens("run", t, log[prompt].id, Unset, Unset)
           \/ /\ Running(t, n)
              /\ \E k \in Kinds : ~Pending(t, n, k) /\ Happens(k, t, 0, Unset, Unset)
           \/ /\ Running(t, n)
              /\ Happens("over", t, 0, Unset, Unset)
        /\ UNCHANGED <<flight, asked, issued, call>>

-----------------------------------------------------------------------------
(* Commands *)

\* A call: its step, what it answered, and its locals. left is the time to the
\* deadline, age that since the poll left (counted from below 0 in a sleep), seq
\* and seen say where the log and the deadline were when the server read the row.
NoCall == [op |-> "done", status |-> "none", thread |-> 0, id |-> 0, left |-> 0,
           interval |-> 0, age |-> 0, seq |-> 0, seen |-> 0]

\* Mutant: the mode is left out when it was not passed.
MutantRuntimeMode(raw) == raw

\* _runtime_mode: a mode is always sent.
RuntimeMode(raw) == IF raw = Unset THEN "approval-required" ELSE raw

Moded == {"thread.create", "thread.turn.start"}
Types == Moded \cup {"thread.turn.interrupt", "respond approval", "respond user-input"}

\* The builders of commands.py: a fresh id, and a fresh thread for
\* thread.create. Only the creation and the prompt have a mode.
Command(type, thread, raw) ==
    [id |-> issued + 1, type |-> type, raw |-> raw,
     thread |-> IF type = "thread.create" THEN issued + 1 ELSE thread,
     mode |-> IF type \in Moded THEN RuntimeMode(raw) ELSE "none"]

\* A write tool dispatches one command and waits for the answer.
Dispatch(a, type, thread, raw) ==
    LET c == Command(type, thread, raw)
    IN  /\ call[a].op = "done" /\ issued < MaxCommands
        /\ asked' = asked + 1
        /\ issued' = issued + 1
        /\ flight' = flight \cup {c}
        /\ call' = [call EXCEPT ![a] = [NoCall EXCEPT !.op = "dispatch", !.id = c.id,
                                                    !.thread = c.thread]]
        /\ UNCHANGED log

Executed(id) == \E i \in DOMAIN log : log[i].kind \in Types /\ log[i].id = id

Returns(a, status) ==
    call' = [call EXCEPT ![a] =
               [NoCall EXCEPT !.status = status, !.thread = call[a].thread,
                              !.seq = call[a].seq,
                              !.seen = call[a].seen]]

\* The answer of a command that was executed tells its ids.
Dispatched(a) ==
    /\ call[a].op = "dispatch" /\ Executed(call[a].id)
    /\ Returns(a, "ok")
    /\ UNCHANGED <<log, flight, asked, issued>>

\* Mutant: the client sends the command again, built anew.
MutantDispatchFails(a) ==
    LET c == Command("thread.turn.start", call[a].thread, Unset)
    IN  /\ call[a].op = "dispatch" /\ issued < MaxCommands
        /\ issued' = issued + 1
        /\ flight' = flight \cup {c}
        /\ call' = [call EXCEPT ![a].id = c.id]
        /\ UNCHANGED <<log, asked>>

\* An HTTP error, a refusal, a timeout: the tool answers an error and does not
\* send the command again, which was executed, will be, or never is.
DispatchFails(a) ==
    /\ call[a].op = "dispatch"
    /\ Returns(a, "error")
    /\ UNCHANGED <<log, flight, asked, issued>>

-----------------------------------------------------------------------------
(* t3_wait *)

CoerceSeconds(raw, default) == IF raw = Unset THEN default ELSE raw
AtLeast(x, y) == IF x >= y THEN x ELSE y
AtMost(x, y) == IF x <= y THEN x ELSE y

WaitInterval(raw) == AtLeast(MIN_WAIT_INTERVAL, CoerceSeconds(raw, DEFAULT_WAIT_INTERVAL))
WaitTimeout(raw) == AtLeast(0, CoerceSeconds(raw, DEFAULT_WAIT_TIMEOUT))

\* Mutant: whatever state the latest turn has counts as settled.
MutantStatus(t, n) ==
    CASE ~Exists(t, n) \/ LastRun(t, n) = 0 -> "none"
      [] Pending(t, n, "approval") -> "approval"
      [] Pending(t, n, "user-input") -> "user-input"
      [] OTHER -> "settled"

\* _wait_terminal_status of thread t's row when the log had n events; "none" is
\* to go on polling.
Status(t, n) ==
    CASE ~Exists(t, n) -> "none"
      [] Pending(t, n, "approval") -> "approval"
      [] Pending(t, n, "user-input") -> "user-input"
      [] LastRun(t, n) = 0 \/ Running(t, n) -> "none"
      [] OTHER -> "settled"

\* The deadline is fixed before the first poll, which leaves at once.
Wait(a, thread, timeout, interval) ==
    /\ call[a].op = "done"
    /\ call' = [call EXCEPT ![a] =
                  [NoCall EXCEPT !.op = "poll", !.thread = thread,
                               !.left = WaitTimeout(timeout),
                               !.interval = WaitInterval(interval)]]
    /\ UNCHANGED <<log, flight, asked, issued>>

\* The server reads the thread's row.
Poll(a) ==
    /\ call[a].op = "poll"
    /\ call' = [call EXCEPT ![a].op = "look", ![a].seq = Len(log), ![a].seen = call[a].left]
    /\ UNCHANGED <<log, flight, asked, issued>>

\* The row arrives: answer what it says; or that time is up, when at most spare is
\* left; or sleep for nap. age then counts up to 0.
LookAndSleep(a, spare, nap) ==
    LET x == call[a]
        status == Status(x.thread, x.seq)
    IN  /\ x.op = "look"
        /\ \/ status # "none" /\ Returns(a, status)
           \/ status = "none" /\ x.left <= spare /\ Returns(a, "timeout")
           \/ /\ status = "none" /\ x.left > spare
              /\ call' = [call EXCEPT ![a].op = "sleep", ![a].seq = 0, ![a].seen = 0,
                                      ![a].age = -nap]
        /\ UNCHANGED <<log, flight, asked, issued>>

\* Mutant: it sleeps the whole interval, even past the deadline.
MutantOversleeps(a) == LookAndSleep(a, 0, call[a].interval)

\* Mutant: it gives up when the next poll would fall after the deadline.
MutantGivesUp(a) == LookAndSleep(a, call[a].interval, call[a].interval)

Look(a) == LookAndSleep(a, 0, AtMost(call[a].interval, call[a].left))

Wakes(a) ==
    /\ call[a].op = "sleep" /\ call[a].age = 0
    /\ call' = [call EXCEPT ![a].op = "poll"]
    /\ UNCHANGED <<log, flight, asked, issued>>

\* 401, another HTTP error or a timeout of the poll ends the wait.
PollFails(a) ==
    /\ call[a].op = "poll"
    /\ Returns(a, "error")
    /\ UNCHANGED <<log, flight, asked, issued>>

Timed == {"poll", "look", "sleep"}

\* A second passes: a sleeper wakes on time, a poll is answered within Latency.
Tick ==
    /\ \E a \in Agents : call[a].op \in Timed
    /\ \A a \in Agents :
         /\ call[a].op = "sleep" => call[a].age < 0
         /\ call[a].op \in {"poll", "look"} => call[a].age < Latency
    /\ call' = [a \in Agents |->
                  IF call[a].op \notin Timed THEN call[a]
                  ELSE [call[a] EXCEPT !.age = @ + 1, !.left = @ - 1]]
    /\ UNCHANGED <<log, flight, asked, issued>>

-----------------------------------------------------------------------------
ThreadsInit ==
    /\ log = <<>> /\ flight = {} /\ asked = 0 /\ issued = 0
    /\ call = [a \in Agents |-> NoCall]

ThreadsNext ==
    \/ \E a \in Agents :
         \/ \E type \in Types, t \in ThreadIds, raw \in Modes :
              /\ Exists(t, Len(log)) /\ (type = "thread.create" => t = 0)
              /\ type \in Moded \/ raw = Unset
              /\ Dispatch(a, type, t, raw)
         \/ \E t \in ThreadIds, timeout \in Timeouts, interval \in Intervals :
              Wait(a, t, timeout, interval)
         \/ Dispatched(a) \/ DispatchFails(a)
         \/ Poll(a) \/ Look(a) \/ Wakes(a) \/ PollFails(a)
    \/ \E c \in flight : Execute(c)
    \/ \E t \in ThreadIds : Server(t)
    \/ Tick

ThreadsSpec == ThreadsInit /\ [][ThreadsNext]_threadVars

-----------------------------------------------------------------------------
(* Properties *)

Statuses == {"none", "ok", "error", "timeout", "settled"} \cup Kinds

Calls == [op : {"done", "dispatch", "poll", "look", "sleep"}, status : Statuses,
          thread : ThreadIds, id : 0 .. MaxCommands, left : Int, interval : Nat, age : Int,
          seq : 0 .. MaxEvents, seen : Int]

SentModes == Modes \cup {Unset, "approval-required", "full-access", "none"}

Events == [kind : Types \cup Kinds \cup {"run", "over"}, thread : ThreadIds,
           id : 0 .. MaxCommands, mode : SentModes, raw : Modes \cup {Unset}]

Commands == [type : Types, thread : ThreadIds, id : 1 .. MaxCommands,
             mode : SentModes, raw : Modes \cup {Unset}]

\* The server's log, the commands in flight and the calls have their types.
ThreadsTypeOK ==
    /\ log \in Seq(Events) /\ Len(log) <= MaxEvents
    /\ flight \subseteq Commands
    /\ asked \in Nat /\ issued \in 0 .. MaxCommands
    /\ call \in [Agents -> Calls]

\* A wait is never more than one poll past its deadline: the last sleep is cut to
\* what is left of the timeout, whatever the interval.
WaitBounded ==
    \A a \in Agents : call[a].op \in Timed => call[a].left >= -Latency

\* A wait that gives up has looked at the thread at its deadline, or in the poll
\* that was under way then: what happened before was not missed.
TimeoutLookedLate ==
    \A a \in Agents : call[a].status = "timeout" => call[a].seen <= Latency

\* A wait that answers "settled" speaks of a moment during it at which every turn
\* of the thread that had started was over and nothing was asked; so a prompt whose
\* turn had started by then is done. (One the server had accepted, or had yet to
\* execute, without starting its turn is not waited for.)
SettledIsOver ==
    \A a \in Agents :
      LET x == call[a]
      IN  x.status = "settled" =>
            /\ \A i \in 1 .. x.seq : log[i].thread = x.thread /\ log[i].kind = "run" =>
                 \E j \in i .. x.seq : log[j].thread = x.thread /\ log[j].kind = "over"
            /\ \A k \in Kinds : ~Pending(x.thread, x.seq, k)

\* However many answers are lost, the server executes at most one command for
\* each call of a write tool: only the agent can repeat a prompt.
OneCallOneCommand ==
    LET executed == {i \in DOMAIN log : log[i].kind \in Types}
        ids == {log[i].id : i \in executed} \cup {c.id : c \in flight}
    IN  /\ \A i, j \in executed : log[i].id = log[j].id => i = j
        /\ \A i \in executed : \A c \in flight : c.id # log[i].id
        /\ Cardinality(ids) <= asked

\* A turn runs with full access only if the call that started it asked for it,
\* though the server takes a command without a mode for full access.
FullAccessOnlyIfAsked ==
    \A i \in DOMAIN log :
      log[i].kind \in Moded /\ log[i].mode = "full-access" =>
        log[i].raw = "full-access"
=============================================================================
