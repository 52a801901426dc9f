---------------------------- MODULE ThreadsProofs ----------------------------
(***************************************************************************)
(* Theorems about Threads, for any agents, latency, arguments and bounds.  *)
(* The invariants of a wait rest on the sum of what is left of its timeout *)
(* and the age of its poll, which time does not change (Timing); those of  *)
(* commands on the ids that were given out (Ids) and on what a command     *)
(* carries until the server executes it (ModesKept).                       *)
(***************************************************************************)
EXTENDS Threads, FiniteSetTheorems, WellFoundedInduction, TLAPS

\* While a call goes on it has no answer. A wait's deadline is not further past
\* than its poll is old, and a poll that was answered left the deadline no further
\* away than it is old.
Timing(x) ==
  /\ x.op # "done" => x.status = "none"
  /\ x.op \in Timed => x.left + x.age >= 0
  /\ x.op \in {"poll", "look"} => x.age \in 0 .. Latency
  /\ x.op = "sleep" => x.age <= 0
  /\ x.op = "look" => x.seen <= x.left + x.age
  /\ x.status = "timeout" => x.seen <= Latency

\* What SettledIsOver says of a call that was answered from the first x.seq events.
Over(x) ==
  /\ x.seq <= Len(log)
  /\ x.status = "settled" =>
       /\ \A i \in 1 .. x.seq : log[i].thread = x.thread /\ log[i].kind = "run" =>
            \E j \in i .. x.seq : log[j].thread = x.thread /\ log[j].kind = "over"
       /\ \A k \in Kinds : ~Pending(x.thread, x.seq, k)

\* Every call was given one id, and an id is in flight or executed once.
Ids ==
  /\ asked = issued
  /\ \A c \in flight : c.id \in 1 .. issued
  /\ \A c, d \in flight : c.id = d.id => c = d
  /\ \A i \in DOMAIN log : log[i].kind \in Types => log[i].id \in 1 .. issued
  /\ \A i \in DOMAIN log : \A c \in flight : log[i].kind \in Types => c.id # log[i].id
  /\ \A i, j \in DOMAIN log :
       log[i].kind \in Types /\ log[j].kind \in Types /\ log[i].id = log[j].id => i = j

ModesKept == \A c \in flight : c.type \in Moded => c.mode = RuntimeMode(c.raw)

ThreadsInv ==
  /\ ThreadsTypeOK
  /\ \A a \in Agents : Timing(call[a]) /\ Over(call[a])
  /\ Ids
  /\ ModesKept /\ FullAccessOnlyIfAsked
-----------------------------------------------------------------------------
(* The last event of a kind *)

LEMMA MinimumExists ==
  ASSUME NEW S, S \subseteq Nat, S # {}
  PROVE  \E m \in S : \A k \in S : m <= k
<1> DEFINE R == OpToRel(<, Nat)
<1>1. IsWellFoundedOn(R, Nat)
  BY NatLessThanWellFounded
<1>2. \A x, y \in Nat : x < y => <<x, y>> \in R
  BY DEF OpToRel
<1> HIDE DEF R
<1>3. PICK m \in S : \A k \in S : ~(<<k, m>> \in R)
  BY <1>1, WFMin
<1>4. \A k \in S : ~(k < m)
  BY <1>2, <1>3
<1>5. \A k \in S : k \in Nat /\ m \in Nat
  OBVIOUS
<1>. QED BY <1>4, <1>5

LEMMA MaximumExists ==
  ASSUME NEW n \in Nat, NEW S, S \subseteq 1 .. n, S # {}
  PROVE  \E m \in S : \A k \in S : k <= m
<1>1. \A k \in S : k \in Int /\ n - k \in Nat
  OBVIOUS
<1> DEFINE D == {n - k : k \in S}
<1>2. D \subseteq Nat /\ D # {}
  BY <1>1
<1>3. PICK d \in D : \A e \in D : d <= e
  BY <1>2, MinimumExists
<1>4. PICK m \in S : d = n - m
  BY <1>3
<1>5. \A k \in S : n - m <= n - k
  BY <1>3, <1>4
<1> HIDE DEF D
<1>6. \A k \in S : k <= m
  BY <1>1, <1>5
<1>. QED BY <1>6

LEMMA LastOfFacts ==
  ASSUME NEW t, NEW n \in Nat, NEW kinds
  PROVE  LET at == {i \in 1 .. n : log[i].thread = t /\ log[i].kind \in kinds}
             last == LastOf(t, n, kinds)
         IN  /\ last \in 0 .. n
             /\ \A i \in at : i <= last
             /\ last # 0 => last \in at
<1> DEFINE at == {i \in 1 .. n : log[i].thread = t /\ log[i].kind \in kinds}
           last == LastOf(t, n, kinds)
<1>1. CASE at = {}
  <2>1. last = 0
    BY <1>1 DEF LastOf
  <2>. QED BY <2>1, <1>1
<1>2. CASE at # {}
  <2>1. last = CHOOSE i \in at : \A j \in at : j <= i
    BY <1>2 DEF LastOf
  <2>2. at \subseteq 1 .. n
    OBVIOUS
  <2> HIDE DEF at
  <2>3. \E i \in at : \A j \in at : j <= i
    BY <1>2, <2>2, MaximumExists
  <2> HIDE DEF last
  <2>4. last \in at /\ \A j \in at : j <= last
    BY <2>1, <2>3
  <2>5. last \in 1 .. n
    BY <2>2, <2>4
  <2>. QED BY <2>4, <2>5 DEF at, last
<1>. QED BY <1>1, <1>2

\* The log only grows: what its first events say stays said.
LEMMA LastOfStable ==
  ASSUME NEW t, NEW n \in Nat, NEW kinds, \A i \in 1 .. n : log'[i] = log[i]
  PROVE  LastOf(t, n, kinds)' = LastOf(t, n, kinds)
<1> DEFINE now == {i \in 1 .. n : log[i].thread = t /\ log[i].kind \in kinds}
           then == {i \in 1 .. n : log'[i].thread = t /\ log'[i].kind \in kinds}
<1>1. now = then
  BY Zenon
<1>2. LastOf(t, n, kinds) = IF now = {} THEN 0 ELSE CHOOSE i \in now : \A j \in now : j <= i
  BY DEF LastOf
<1>3. LastOf(t, n, kinds)' =
        IF then = {} THEN 0 ELSE CHOOSE i \in then : \A j \in then : j <= i
  BY DEF LastOf
<1> DEFINE Last(S) == IF S = {} THEN 0 ELSE CHOOSE i \in S : \A j \in S : j <= i
<1>4. LastOf(t, n, kinds) = Last(now) /\ LastOf(t, n, kinds)' = Last(then)
  BY <1>2, <1>3
<1> HIDE DEF Last, now, then
<1>. QED BY <1>1, <1>4

\* When a thread's row says settled, its last turn is over, and so are those before.
LEMMA SettledFacts ==
  ASSUME NEW t, NEW n \in Nat, Status(t, n) = "settled"
  PROVE  /\ \A i \in 1 .. n : log[i].thread = t /\ log[i].kind = "run" =>
              \E j \in i .. n : log[j].thread = t /\ log[j].kind = "over"
         /\ \A k \in Kinds : ~Pending(t, n, k)
<1>1. /\ ~Pending(t, n, "approval") /\ ~Pending(t, n, "user-input")
      /\ LastRun(t, n) # 0 /\ ~Running(t, n)
  BY DEF Status
<1>2. \A k \in Kinds : ~Pending(t, n, k)
  BY <1>1 DEF Kinds
<1>3. ASSUME NEW i \in 1 .. n, log[i].thread = t, log[i].kind = "run"
      PROVE  \E j \in i .. n : log[j].thread = t /\ log[j].kind = "over"
  <2> DEFINE run == LastRun(t, n)
             over == LastOf(t, n, {"over"})
  <2>1. run \in 0 .. n /\ i <= run
    BY <1>3, LastOfFacts DEF LastRun
  <2>2. over \in 0 .. n /\ (over # 0 => log[over].thread = t /\ log[over].kind = "over")
    BY LastOfFacts
  <2>3. ~(run > over)
    BY <1>1 DEF Running
  <2>. QED BY <2>1, <2>2, <2>3
<1>. QED BY <1>2, <1>3
-----------------------------------------------------------------------------
(* Steps of calls *)

LEMMA Numbers ==
  /\ Latency \in Nat /\ DEFAULT_WAIT_TIMEOUT \in Nat
  /\ DEFAULT_WAIT_INTERVAL \in Nat /\ MIN_WAIT_INTERVAL \in Nat
  /\ MaxCommands \in Nat /\ MaxEvents \in Nat
  /\ \A x \in Timeouts : x # Unset => x \in Int
  /\ \A x \in Intervals : x # Unset => x \in Int
  BY ThreadsAssumption

LEMMA OverStable ==
  ASSUME NEW x \in Calls, Len(log) \in Nat, Over(x), Len(log') \in Nat, Len(log) <= Len(log'),
         \A i \in 1 .. Len(log) : log'[i] = log[i]
  PROVE  Over(x)'
<1> DEFINE n == x.seq
           t == x.thread
<1>1. n \in Nat /\ n <= Len(log)
  BY DEF Over, Calls
<1>2. \A i \in 1 .. n : log'[i] = log[i]
  BY <1>1
<1> HIDE DEF n, t
<1>3. ASSUME NEW k \in Kinds PROVE Pending(t, n, k)' = Pending(t, n, k)
  <2>1. /\ LastOf(t, n, {k})' = LastOf(t, n, {k})
        /\ LastOf(t, n, {"respond " \o k, "over"})' = LastOf(t, n, {"respond " \o k, "over"})
    BY <1>1, <1>2, LastOfStable
  <2>. QED BY <2>1 DEF Pending
<1>4. x.status = "settled" => \A k \in Kinds : ~Pending(t, n, k)'
  BY <1>3 DEF Over, n, t
<1>5. x.status = "settled" =>
        \A i \in 1 .. n : log'[i].thread = t /\ log'[i].kind = "run" =>
          \E j \in i .. n : log'[j].thread = t /\ log'[j].kind = "over"
  BY <1>1, <1>2 DEF Over, n, t
<1>6. n <= Len(log')
  BY <1>1
<1>. QED BY <1>4, <1>5, <1>6 DEF Over, n, t

LEMMA CallChanges ==
  ASSUME ThreadsInv, NEW a \in Agents, NEW x \in Calls, call' = [call EXCEPT ![a] = x],
         UNCHANGED <<log, flight, asked, issued>>, Timing(x), Over(x)
  PROVE  ThreadsInv'
<1>1. /\ call \in [Agents -> Calls] /\ call' \in [Agents -> Calls] /\ call'[a] = x
      /\ \A b \in Agents \ {a} : call'[b] = call[b]
  BY DEF ThreadsInv, ThreadsTypeOK
<1>2. ThreadsTypeOK'
  BY <1>1 DEF ThreadsInv, ThreadsTypeOK
<1>3. \A b \in Agents : Timing(call[b])'
  BY <1>1 DEF ThreadsInv, Timing
<1>4. Len(log) \in Nat
  BY DEF ThreadsInv, ThreadsTypeOK
<1>5. Over(x)' /\ \A b \in Agents \ {a} : Over(call[b])'
  <2>1. \A y \in Calls : Over(y) => Over(y)'
    BY <1>4, OverStable
  <2>. QED BY <2>1, <1>1 DEF ThreadsInv
<1>6. \A b \in Agents : Over(call[b])'
  BY <1>1, <1>5
<1>7. Ids' /\ ModesKept' /\ FullAccessOnlyIfAsked'
  BY DEF ThreadsInv, Ids, ModesKept, FullAccessOnlyIfAsked
<1>. QED BY <1>2, <1>3, <1>6, <1>7 DEF ThreadsInv

LEMMA NoCallFacts ==
  /\ NoCall \in Calls /\ NoCall.op = "done" /\ NoCall.status = "none" /\ NoCall.seq = 0
  /\ NoCall.age = 0 /\ NoCall.seen = 0
<1>1. 0 \in ThreadIds /\ 0 \in 0 .. MaxCommands /\ 0 \in 0 .. MaxEvents
  BY Numbers DEF ThreadIds
<1>. QED BY <1>1 DEF NoCall, Calls, Statuses

LEMMA CallFacts ==
  ASSUME ThreadsInv, NEW a \in Agents
  PROVE  /\ call \in [Agents -> Calls] /\ call[a] \in Calls /\ Timing(call[a]) /\ Over(call[a])
         /\ Len(log) \in Nat /\ Len(log) <= MaxEvents /\ issued \in 0 .. MaxCommands
  BY DEF ThreadsInv, ThreadsTypeOK

LEMMA Asleep ==
  ASSUME NEW x \in Calls, NEW y \in Int
  PROVE  [x EXCEPT !.op = "sleep", !.seq = 0, !.seen = 0, !.age = y] \in Calls
<1> DEFINE z == [x EXCEPT !.op = "sleep", !.seq = 0]
<1>1. 0 \in 0 .. MaxEvents
  BY Numbers
<1>2. z \in Calls
  BY <1>1 DEF Calls
<1>3. [x EXCEPT !.op = "sleep", !.seq = 0, !.seen = 0, !.age = y]
        = [z EXCEPT !.seen = 0, !.age = y]
  BY DEF Calls
<1> HIDE DEF z
<1>4. \A p, q \in Int : [z EXCEPT !.seen = p, !.age = q] \in Calls
  BY <1>2 DEF Calls
<1>5. 0 \in Int
  OBVIOUS
<1>. QED BY <1>3, <1>4, <1>5

LEMMA ReturnsKeeps ==
  ASSUME ThreadsInv, NEW a \in Agents, NEW status \in Statuses, Returns(a, status),
         UNCHANGED <<log, flight, asked, issued>>,
         status = "timeout" => call[a].seen <= Latency,
         status = "settled" => Status(call[a].thread, call[a].seq) = "settled"
  PROVE  ThreadsInv'
<1> DEFINE x == [NoCall EXCEPT !.status = status, !.thread = call[a].thread,
                               !.seq = call[a].seq, !.seen = call[a].seen]
<1>1. call' = [call EXCEPT ![a] = x]
  BY DEF Returns
<1>2. /\ x \in Calls /\ x.op = "done" /\ x.status = status /\ x.thread = call[a].thread
      /\ x.seq = call[a].seq /\ x.seen = call[a].seen
  BY NoCallFacts, CallFacts DEF Calls, NoCall
<1> HIDE DEF x
<1>3. x.seq \in Nat /\ x.seq <= Len(log)
  BY <1>2, CallFacts DEF Over, Calls
<1>4. Over(x)
  <2>1. status = "settled" =>
          /\ \A i \in 1 .. x.seq : log[i].thread = x.thread /\ log[i].kind = "run" =>
               \E j \in i .. x.seq : log[j].thread = x.thread /\ log[j].kind = "over"
          /\ \A k \in Kinds : ~Pending(x.thread, x.seq, k)
    BY <1>2, <1>3, SettledFacts
  <2>. QED BY <2>1, <1>2, <1>3 DEF Over
<1>5. Timing(x)
  BY <1>2 DEF Timing, Timed
<1>. QED BY <1>1, <1>2, <1>4, <1>5, CallChanges

LEMMA DispatchedKeeps ==
  ASSUME ThreadsInv, NEW a \in Agents, Dispatched(a) \/ DispatchFails(a) \/ PollFails(a)
  PROVE  ThreadsInv'
  BY ReturnsKeeps DEF Dispatched, DispatchFails, PollFails, Statuses

\* The deadline of a new wait is not behind it.
LEMMA WaitKeeps ==
  ASSUME ThreadsInv, NEW a \in Agents, NEW t \in ThreadIds,
         NEW timeout \in Timeouts, NEW interval \in Intervals, Wait(a, t, timeout, interval)
  PROVE  ThreadsInv'
<1> DEFINE x == [NoCall EXCEPT !.op = "poll", !.thread = t, !.left = WaitTimeout(timeout),
                               !.interval = WaitInterval(interval)]
<1>1. call' = [call EXCEPT ![a] = x] /\ UNCHANGED <<log, flight, asked, issued>>
  BY DEF Wait
<1>2. WaitTimeout(timeout) \in Nat /\ WaitInterval(interval) \in Nat
  BY Numbers DEF WaitTimeout, WaitInterval, AtLeast, CoerceSeconds
<1>3. /\ x \in Calls /\ x.op = "poll" /\ x.left \in Nat /\ x.age = 0
      /\ x.status = "none" /\ x.seq = 0 /\ x.seen = 0
  <2>1. \A l \in Int, i \in Nat :
          [NoCall EXCEPT !.op = "poll", !.thread = t, !.left = l, !.interval = i] \in Calls
    BY NoCallFacts DEF Calls
  <2>2. x \in Calls
    <3>1. WaitTimeout(timeout) \in Int
      BY <1>2
    <3>. QED BY <2>1, <3>1, <1>2
  <2>. QED BY <2>2, <1>2 DEF NoCall
<1> HIDE DEF x
<1>4. Timing(x)
  BY <1>3, Numbers DEF Timing, Timed
<1>5. Over(x)
  BY <1>3, CallFacts DEF Over
<1>. QED BY <1>1, <1>3, <1>4, <1>5, CallChanges

\* The server reads the row: what is left now is noted, and the poll is no older.
LEMMA PollKeeps == ASSUME ThreadsInv, NEW a \in Agents, Poll(a) PROVE ThreadsInv'
<1> DEFINE x == [call[a] EXCEPT !.op = "look", !.seq = Len(log), !.seen = call[a].left]
<1>1. /\ call[a].op = "poll" /\ UNCHANGED <<log, flight, asked, issued>>
      /\ call' = [call EXCEPT ![a].op = "look", ![a].seq = Len(log), ![a].seen = call[a].left]
  BY DEF Poll
<1>2. call' = [call EXCEPT ![a] = x]
  BY <1>1, CallFacts
<1>3. Len(log) \in 0 .. MaxEvents
  BY CallFacts, Numbers
<1>4. /\ x \in Calls /\ x.op = "look" /\ x.seq = Len(log) /\ x.seen = call[a].left
      /\ x.left = call[a].left /\ x.age = call[a].age /\ x.status = call[a].status
  BY <1>3, CallFacts DEF Calls
<1> HIDE DEF x
<1>5. /\ call[a].status = "none" /\ call[a].age \in 0 .. Latency
      /\ call[a].left + call[a].age >= 0 /\ call[a].left \in Int
  BY <1>1, CallFacts DEF Timing, Timed, Calls
<1>6. Timing(x)
  BY <1>4, <1>5, Numbers DEF Timing, Timed
<1>7. Over(x)
  BY <1>3, <1>4, <1>5 DEF Over
<1>. QED BY <1>1, <1>2, <1>4, <1>6, <1>7, CallChanges

\* A sleep is no longer than what is left, so that the deadline is not passed in it.
LEMMA LookKeeps == ASSUME ThreadsInv, NEW a \in Agents, Look(a) PROVE ThreadsInv'
<1> DEFINE nap == AtMost(call[a].interval, call[a].left)
           status == Status(call[a].thread, call[a].seq)
<1>1. call[a].op = "look" /\ UNCHANGED <<log, flight, asked, issued>>
  BY DEF Look, LookAndSleep
<1>2. /\ call[a].status = "none" /\ call[a].age \in 0 .. Latency
      /\ call[a].left \in Int /\ call[a].interval \in Nat /\ call[a].seen \in Int
      /\ call[a].seen <= call[a].left + call[a].age
  BY <1>1, CallFacts DEF Timing, Timed, Calls
<1>3. CASE status # "none" /\ Returns(a, status)
  <2>1. status \in {"none", "approval", "user-input", "settled"}
    BY DEF Status
  <2>2. status \in Statuses /\ status # "timeout"
    BY <2>1 DEF Statuses, Kinds
  <2>. QED BY <2>2, <1>1, <1>3, ReturnsKeeps
<1>4. CASE call[a].left <= 0 /\ Returns(a, "timeout")
  <2>1. call[a].seen <= Latency
    BY <1>2, <1>4, Numbers
  <2>2. "timeout" \in Statuses
    BY DEF Statuses
  <2>. QED BY <2>1, <2>2, <1>1, <1>4, ReturnsKeeps
<1>5. CASE /\ call[a].left > 0
           /\ call' = [call EXCEPT ![a].op = "sleep", ![a].seq = 0, ![a].seen = 0,
                                   ![a].age = -nap]
  <2> DEFINE x == [call[a] EXCEPT !.op = "sleep", !.seq = 0, !.seen = 0, !.age = -nap]
  <2>1. nap \in Nat /\ nap <= call[a].left
    BY <1>2, <1>5 DEF AtMost
  <2> HIDE DEF nap
  <2>2. call' = [call EXCEPT ![a] = x]
    BY <1>5, CallFacts
  <2>3. -nap \in Int /\ 0 \in 0 .. MaxEvents
    BY <2>1, Numbers
  <2>4. /\ x \in Calls /\ x.op = "sleep" /\ x.seq = 0 /\ x.seen = 0 /\ x.age = -nap
        /\ x.left = call[a].left /\ x.status = call[a].status
    <3>1. call[a] \in Calls /\ -nap \in Int
      BY CallFacts, <2>3
    <3>2. x \in Calls
      BY <3>1, Asleep
    <3>. QED BY <3>2, CallFacts DEF Calls
  <2> HIDE DEF x
  <2>5. Timing(x)
    BY <2>1, <2>4, <1>2 DEF Timing, Timed
  <2>6. Over(x)
    BY <2>4, <1>2, CallFacts DEF Over
  <2>. QED BY <2>2, <2>4, <2>5, <2>6, <1>1, CallChanges
<1>. QED BY <1>3, <1>4, <1>5 DEF Look, LookAndSleep

LEMMA WakesKeeps == ASSUME ThreadsInv, NEW a \in Agents, Wakes(a) PROVE ThreadsInv'
<1> DEFINE x == [call[a] EXCEPT !.op = "poll"]
<1>1. /\ call[a].op = "sleep" /\ call[a].age = 0 /\ UNCHANGED <<log, flight, asked, issued>>
      /\ call' = [call EXCEPT ![a] = x]
  BY CallFacts DEF Wakes
<1>2. /\ x \in Calls /\ x.op = "poll" /\ x.status = call[a].status /\ x.left = call[a].left
      /\ x.age = 0 /\ x.seq = call[a].seq
  BY <1>1, CallFacts DEF Calls
<1> HIDE DEF x
<1>3. call[a].status = "none" /\ call[a].left + call[a].age >= 0
  BY <1>1, CallFacts DEF Timing, Timed
<1>4. Timing(x)
  BY <1>1, <1>2, <1>3, Numbers DEF Timing, Timed
<1>5. Over(x)
  BY <1>2, <1>3, CallFacts DEF Over
<1>. QED BY <1>1, <1>2, <1>4, <1>5, CallChanges

\* A second that passes is taken from what is left and added to the age.
LEMMA TickKeeps == ThreadsInv /\ Tick => ThreadsInv'
<1> SUFFICES ASSUME ThreadsInv, Tick PROVE ThreadsInv'
  OBVIOUS
<1>1. UNCHANGED <<log, flight, asked, issued>>
  BY DEF Tick
<1>2. ASSUME NEW a \in Agents
      PROVE  call'[a] \in Calls /\ Timing(call[a])' /\ Over(call'[a])
  <2>1. CASE call[a].op \notin Timed
    <3>1. call'[a] = call[a]
      BY <2>1 DEF Tick
    <3>. QED BY <3>1, CallFacts DEF Timing
  <2>2. CASE call[a].op \in Timed
    <3> DEFINE x == [call[a] EXCEPT !.op = call[a].op, !.left = call[a].left - 1,
                                    !.age = call[a].age + 1]
    <3>1. call'[a] = x
      <4>1. call'[a] = [call[a] EXCEPT !.age = call[a].age + 1, !.left = call[a].left - 1]
        BY <2>2 DEF Tick
      <4>2. call[a] \in Calls
        BY CallFacts
      <4>. QED BY <4>1, <4>2 DEF Calls
    <3>2. /\ x \in Calls /\ x.age = call[a].age + 1 /\ x.left = call[a].left - 1
          /\ x.op = call[a].op /\ x.status = call[a].status /\ x.seen = call[a].seen
          /\ x.seq = call[a].seq /\ x.thread = call[a].thread
      <4>1. /\ call[a] \in Calls /\ call[a].left - 1 \in Int /\ call[a].age + 1 \in Int
            /\ call[a].op \in {"poll", "look", "sleep"}
        BY <2>2, CallFacts DEF Calls, Timed
      <4>. QED BY <4>1 DEF Calls
    <3> HIDE DEF x
    <3>3. /\ call[a].op = "sleep" => call[a].age < 0
          /\ call[a].op \in {"poll", "look"} => call[a].age < Latency
      BY DEF Tick
    <3>4. call[a].age \in Int /\ call[a].left \in Int /\ call[a].seen \in Int
      BY CallFacts DEF Calls
    <3>5. Timing(x)
      <4>1. /\ call[a].status = "none" /\ call[a].left + call[a].age >= 0
            /\ call[a].op \in {"poll", "look"} => call[a].age \in 0 .. Latency
            /\ call[a].op = "look" => call[a].seen <= call[a].left + call[a].age
        BY <2>2, CallFacts DEF Timing, Timed
      <4>2. x.left + x.age = call[a].left + call[a].age
        BY <3>2, <3>4
      <4>3. call[a].op \in {"poll", "look"} => x.age \in 0 .. Latency
        BY <4>1, <3>2, <3>3, <3>4, Numbers
      <4>4. call[a].op = "sleep" => x.age <= 0
        BY <3>2, <3>3, <3>4
      <4>. QED BY <4>1, <4>2, <4>3, <4>4, <3>2 DEF Timing
    <3>6. Over(x)
      BY <3>2, CallFacts DEF Over
    <3>. QED BY <3>1, <3>2, <3>5, <3>6 DEF Timing
  <2>. QED BY <2>1, <2>2
<1>3. call' \in [Agents -> Calls]
  BY <1>2 DEF Tick
<1>4. ThreadsTypeOK'
  BY <1>1, <1>3 DEF ThreadsInv, ThreadsTypeOK
<1>5. Len(log) \in Nat
  BY DEF ThreadsInv, ThreadsTypeOK
<1>6. \A y \in Calls : Over(y) => Over(y)'
  BY <1>1, <1>5, OverStable
<1>7. \A a \in Agents : Over(call[a])'
  BY <1>2, <1>6
<1>8. Ids' /\ ModesKept' /\ FullAccessOnlyIfAsked'
  BY <1>1 DEF ThreadsInv, Ids, ModesKept, FullAccessOnlyIfAsked
<1>. QED BY <1>2, <1>4, <1>7, <1>8 DEF ThreadsInv
-----------------------------------------------------------------------------
(* Steps of the server *)

\* An event is appended: the calls are not disturbed.
LEMMA LogGrows ==
  ASSUME ThreadsInv, NEW e \in Events, Len(log) < MaxEvents, log' = Append(log, e),
         UNCHANGED <<asked, issued, call>>, flight' \subseteq flight
  PROVE  /\ ThreadsTypeOK'
         /\ \A a \in Agents : Timing(call[a])' /\ Over(call[a])'
         /\ Len(log) \in Nat /\ DOMAIN log = 1 .. Len(log)
         /\ DOMAIN log' = 1 .. Len(log) + 1 /\ log'[Len(log) + 1] = e
         /\ \A i \in 1 .. Len(log) : log'[i] = log[i]
<1>1. log \in Seq(Events) /\ Len(log) \in Nat
  BY DEF ThreadsInv, ThreadsTypeOK
<1>2. /\ log' \in Seq(Events) /\ Len(log') = Len(log) + 1 /\ log'[Len(log) + 1] = e
      /\ \A i \in 1 .. Len(log) : log'[i] = log[i]
      /\ DOMAIN log = 1 .. Len(log) /\ DOMAIN log' = 1 .. Len(log) + 1
  BY <1>1
<1>3. ThreadsTypeOK'
  BY <1>1, <1>2, Numbers DEF ThreadsInv, ThreadsTypeOK
<1>4. ASSUME NEW a \in Agents PROVE Timing(call[a])' /\ Over(call[a])'
  <2>1. Over(call[a])'
    <3>1. \A x \in Calls : Over(x) => Over(x)'
      BY <1>1, <1>2, OverStable
    <3>. QED BY <3>1, CallFacts
  <2>2. Timing(call[a])'
    BY CallFacts DEF Timing
  <2>. QED BY <2>1, <2>2
<1>. QED BY <1>1, <1>2, <1>3, <1>4

\* A command that leaves the flight for the log keeps its id, given to no other, and
\* its mode.
LEMMA ExecuteKeeps == ASSUME ThreadsInv, NEW c \in flight, Execute(c) PROVE ThreadsInv'
<1> DEFINE e == [kind |-> c.type, thread |-> c.thread, id |-> c.id,
                 mode |-> IF c.mode = Unset THEN "full-access" ELSE c.mode, raw |-> c.raw]
<1>1. /\ Len(log) < MaxEvents /\ log' = Append(log, e)
      /\ flight' = flight \ {c} /\ UNCHANGED <<asked, issued, call>>
  BY DEF Execute, Happens
<1>2. c \in Commands
  BY DEF ThreadsInv, ThreadsTypeOK
<1>3. c.id \in 0 .. MaxCommands /\ c.mode \in SentModes
  BY <1>2, Numbers DEF Commands
<1>4. /\ e \in Events /\ e.kind = c.type /\ e.id = c.id /\ e.raw = c.raw
      /\ e.mode = IF c.mode = Unset THEN "full-access" ELSE c.mode
  BY <1>2, <1>3 DEF Commands, Events, SentModes
<1> HIDE DEF e
<1>5. /\ ThreadsTypeOK'
      /\ \A a \in Agents : Timing(call[a])' /\ Over(call[a])'
      /\ Len(log) \in Nat /\ DOMAIN log = 1 .. Len(log)
      /\ DOMAIN log' = 1 .. Len(log) + 1 /\ log'[Len(log) + 1] = e
      /\ \A i \in 1 .. Len(log) : log'[i] = log[i]
  BY <1>1, <1>4, LogGrows
<1>6. Ids'
  <2>1. asked' = issued' /\ \A d \in flight' : d.id \in 1 .. issued' /\ d.id # c.id
    BY <1>1 DEF ThreadsInv, Ids
  <2>2. \A d, g \in flight' : d.id = g.id => d = g
    BY <1>1 DEF ThreadsInv, Ids
  <2>3. \A i \in DOMAIN log' : i \in DOMAIN log \/ i = Len(log) + 1
    BY <1>5
  <2>4. \A i \in DOMAIN log : log[i].kind \in Types =>
          /\ log[i].id \in 1 .. issued /\ log[i].id # c.id
          /\ \A d \in flight' : d.id # log[i].id
    BY <1>1 DEF ThreadsInv, Ids
  <2>5. \A i \in DOMAIN log : log'[i] = log[i]
    BY <1>5
  <2>6. c.id \in 1 .. issued
    BY DEF ThreadsInv, Ids
  <2>7. \A i \in DOMAIN log' : log'[i].kind \in Types =>
          log'[i].id \in 1 .. issued' /\ \A d \in flight' : d.id # log'[i].id
    BY <1>1, <1>4, <1>5, <2>1, <2>3, <2>4, <2>5, <2>6
  <2>8. \A i, j \in DOMAIN log :
          log[i].kind \in Types /\ log[j].kind \in Types /\ log[i].id = log[j].id => i = j
    BY DEF ThreadsInv, Ids
  <2>9. \A i, j \in DOMAIN log' :
          log'[i].kind \in Types /\ log'[j].kind \in Types /\ log'[i].id = log'[j].id => i = j
    BY <1>4, <1>5, <2>3, <2>4, <2>5, <2>8
  <2>. QED BY <2>1, <2>2, <2>7, <2>9 DEF Ids
<1>7. ModesKept'
  BY <1>1 DEF ThreadsInv, ModesKept
<1>8. FullAccessOnlyIfAsked'
  <2>1. ASSUME c.type \in Moded, e.mode = "full-access" PROVE e.raw = "full-access"
    <3>1. c.mode = RuntimeMode(c.raw)
      BY <2>1 DEF ThreadsInv, ModesKept
    <3>2. c.mode # Unset
      BY <3>1, ThreadsAssumption DEF RuntimeMode
    <3>. QED BY <2>1, <3>1, <3>2, <1>4 DEF RuntimeMode
  <2>2. \A i \in DOMAIN log' : (i \in DOMAIN log /\ log'[i] = log[i]) \/ log'[i] = e
    BY <1>5
  <2>. QED BY <1>4, <2>1, <2>2 DEF ThreadsInv, FullAccessOnlyIfAsked
<1>. QED BY <1>5, <1>6, <1>7, <1>8 DEF ThreadsInv

\* The events of a turn carry no id that was given out to a command.
LEMMA ServerKeeps == ASSUME ThreadsInv, NEW t \in ThreadIds, Server(t) PROVE ThreadsInv'
<1> DEFINE prompt == LastOf(t, Len(log), {"thread.turn.start"})
<1>1. Len(log) \in Nat /\ DOMAIN log = 1 .. Len(log)
  BY DEF ThreadsInv, ThreadsTypeOK
<1>2. prompt > LastRun(t, Len(log)) => log[prompt].id \in 0 .. MaxCommands
  <2>1. LastRun(t, Len(log)) \in 0 .. Len(log) /\ prompt \in 0 .. Len(log)
    BY <1>1, LastOfFacts DEF LastRun
  <2>2. \A i \in 1 .. Len(log) : log[i].id \in 0 .. MaxCommands
    <3>1. \A i \in 1 .. Len(log) : log[i] \in Events
      BY <1>1 DEF ThreadsInv, ThreadsTypeOK
    <3>. QED BY <3>1 DEF Events
  <2> HIDE DEF prompt
  <2>. QED BY <1>1, <2>1, <2>2
<1>3. PICK kind \in Kinds \cup {"run", "over"}, id \in 0 .. MaxCommands :
        Happens(kind, t, id, Unset, Unset)
  <2>1. 0 \in 0 .. MaxCommands
    BY Numbers
  <2> HIDE DEF prompt
  <2>2. CASE /\ ~Running(t, Len(log)) /\ prompt > LastRun(t, Len(log))
             /\ Happens("run", t, log[prompt].id, Unset, Unset)
    BY <2>2, <1>2
  <2>3. CASE \E k \in Kinds : Happens(k, t, 0, Unset, Unset)
    BY <2>3, <2>1
  <2>4. CASE Happens("over", t, 0, Unset, Unset)
    BY <2>4, <2>1
  <2>. QED BY <2>2, <2>3, <2>4 DEF Server, prompt
<1> DEFINE e == [kind |-> kind, thread |-> t, id |-> id, mode |-> Unset, raw |-> Unset]
<1>4. /\ Len(log) < MaxEvents /\ log' = Append(log, e)
      /\ UNCHANGED <<flight, asked, issued, call>>
  BY <1>3 DEF Server, Happens
<1>5. e \in Events /\ e.kind \notin Types
  BY DEF Events, SentModes, Kinds, Types, Moded
<1> HIDE DEF e
<1>6. /\ ThreadsTypeOK'
      /\ \A a \in Agents : Timing(call[a])' /\ Over(call[a])'
      /\ DOMAIN log' = 1 .. Len(log) + 1 /\ log'[Len(log) + 1] = e
      /\ \A i \in 1 .. Len(log) : log'[i] = log[i]
  BY <1>4, <1>5, LogGrows
<1>7. \A i \in DOMAIN log' : log'[i].kind \in Types => i \in DOMAIN log /\ log'[i] = log[i]
  BY <1>1, <1>5, <1>6
<1>8. Ids'
  BY <1>4, <1>7 DEF ThreadsInv, Ids
<1>9. ModesKept'
  BY <1>4 DEF ThreadsInv, ModesKept
<1>10. FullAccessOnlyIfAsked'
  BY <1>7 DEF ThreadsInv, FullAccessOnlyIfAsked, Types
<1>. QED BY <1>6, <1>8, <1>9, <1>10 DEF ThreadsInv

\* A new command has an id that neither the log nor the flight knows.
LEMMA DispatchKeeps ==
  ASSUME ThreadsInv, NEW a \in Agents, NEW type \in Types, NEW t \in ThreadIds,
         NEW raw \in Modes, type \in Moded \/ raw = Unset, Dispatch(a, type, t, raw)
  PROVE  ThreadsInv'
<1> DEFINE c == Command(type, t, raw)
           x == [NoCall EXCEPT !.op = "dispatch", !.id = c.id, !.thread = c.thread]
<1>1. /\ issued < MaxCommands /\ asked' = asked + 1 /\ issued' = issued + 1
      /\ flight' = flight \cup {c} /\ call' = [call EXCEPT ![a] = x] /\ log' = log
  BY DEF Dispatch
<1>2. /\ c.id = issued + 1 /\ c.type = type /\ c.raw = raw
      /\ c.mode = IF type \in Moded THEN RuntimeMode(raw) ELSE "none"
  BY DEF Command
<1>3. issued \in Nat /\ issued + 1 \in 1 .. MaxCommands /\ issued + 1 \in ThreadIds
  BY <1>1, CallFacts, Numbers DEF ThreadIds
<1>4. c \in Commands /\ c.thread \in ThreadIds
  <2>1. c.mode \in SentModes
    BY <1>2 DEF SentModes, RuntimeMode
  <2>2. (IF type = "thread.create" THEN issued + 1 ELSE t) \in ThreadIds
    BY <1>3
  <2>3. (IF type \in Moded THEN RuntimeMode(raw) ELSE "none") \in SentModes
    BY <1>2, <2>1
  <2>. QED BY <2>2, <2>3, <1>3 DEF Command, Commands
<1> HIDE DEF c
<1>5. x \in Calls /\ x.op = "dispatch" /\ x.status = "none" /\ x.seq = 0
  <2>1. \A i \in 0 .. MaxCommands, u \in ThreadIds :
          [NoCall EXCEPT !.op = "dispatch", !.id = i, !.thread = u] \in Calls
    BY NoCallFacts DEF Calls
  <2>2. c.id \in 0 .. MaxCommands
    BY <1>2, <1>3
  <2>3. x \in Calls
    BY <2>1, <2>2, <1>4
  <2>. QED BY <2>3 DEF NoCall
<1> HIDE DEF x
<1>6. ThreadsTypeOK'
  <2>1. flight' \subseteq Commands
    BY <1>1, <1>4 DEF ThreadsInv, ThreadsTypeOK
  <2>2. call' \in [Agents -> Calls]
    BY <1>1, <1>5, CallFacts
  <2>3. asked' \in Nat /\ issued' \in 0 .. MaxCommands
    BY <1>1, <1>3, Numbers DEF ThreadsInv, ThreadsTypeOK
  <2>. QED BY <1>1, <2>1, <2>2, <2>3 DEF ThreadsInv, ThreadsTypeOK
<1>7. ASSUME NEW b \in Agents PROVE Timing(call[b])' /\ Over(call[b])'
  <2>1. Timing(x) /\ Over(x)
    BY <1>5, CallFacts DEF Timing, Over, Timed
  <2>2. call'[b] = x \/ call'[b] = call[b]
    BY <1>1, CallFacts
  <2>3. Timing(call'[b]) /\ Over(call'[b])
    BY <2>1, <2>2, CallFacts
  <2>4. Len(log) \in Nat /\ call'[b] \in Calls
    BY <2>2, <1>5, CallFacts
  <2>5. Timing(call[b])'
    BY <2>3 DEF Timing
  <2>6. \A y \in Calls : Over(y) => Over(y)'
    BY <1>1, <2>4, OverStable
  <2>. QED BY <2>3, <2>4, <2>5, <2>6
<1>8. Ids'
  <2>1. \A d \in flight : d.id \in 1 .. issued /\ d.id # c.id
    BY <1>2, <1>3 DEF ThreadsInv, Ids
  <2>2. \A i \in DOMAIN log : log[i].kind \in Types => log[i].id \in 1 .. issued /\ log[i].id # c.id
    BY <1>2, <1>3 DEF ThreadsInv, Ids
  <2>3. asked' = issued' /\ \A d \in flight' : d.id \in 1 .. issued'
    BY <1>1, <1>2, <1>3, <2>1 DEF ThreadsInv, Ids
  <2>4. \A d, g \in flight' : d.id = g.id => d = g
    BY <1>1, <2>1 DEF ThreadsInv, Ids
  <2>5. \A i \in DOMAIN log' : \A d \in flight' : log'[i].kind \in Types => d.id # log'[i].id
    BY <1>1, <2>2 DEF ThreadsInv, Ids
  <2>6. \A i \in DOMAIN log' : log'[i].kind \in Types => log'[i].id \in 1 .. issued'
    BY <1>1, <1>3, <2>2
  <2>7. \A i, j \in DOMAIN log' :
          log'[i].kind \in Types /\ log'[j].kind \in Types /\ log'[i].id = log'[j].id => i = j
    BY <1>1 DEF ThreadsInv, Ids
  <2>. QED BY <2>3, <2>4, <2>5, <2>6, <2>7 DEF Ids
<1>9. ModesKept'
  BY <1>1, <1>2 DEF ThreadsInv, ModesKept
<1>10. FullAccessOnlyIfAsked'
  BY <1>1 DEF ThreadsInv, FullAccessOnlyIfAsked
<1>. QED BY <1>6, <1>7, <1>8, <1>9, <1>10 DEF ThreadsInv
-----------------------------------------------------------------------------
(* The invariant *)

LEMMA InitThreadsInv == ThreadsInit => ThreadsInv
<1> SUFFICES ASSUME ThreadsInit PROVE ThreadsInv
  OBVIOUS
<1>1. log = <<>> /\ flight = {} /\ asked = 0 /\ issued = 0
  BY DEF ThreadsInit
<1>2. call \in [Agents -> Calls] /\ \A a \in Agents : call[a] = NoCall
  BY NoCallFacts DEF ThreadsInit
<1>3. log \in Seq(Events) /\ Len(log) = 0 /\ DOMAIN log = {}
  BY <1>1
<1>4. ThreadsTypeOK
  BY <1>1, <1>2, <1>3, Numbers DEF ThreadsTypeOK
<1>5. \A a \in Agents : Timing(call[a]) /\ Over(call[a])
  BY <1>2, <1>3, NoCallFacts DEF Timing, Over, Timed
<1>6. Ids /\ ModesKept /\ FullAccessOnlyIfAsked
  BY <1>1, <1>3 DEF Ids, ModesKept, FullAccessOnlyIfAsked
<1>. QED BY <1>4, <1>5, <1>6 DEF ThreadsInv

LEMMA NextThreadsInv == ThreadsInv /\ [ThreadsNext]_threadVars => ThreadsInv'
<1> SUFFICES ASSUME ThreadsInv, [ThreadsNext]_threadVars PROVE ThreadsInv'
  OBVIOUS
<1>1. ASSUME NEW a \in Agents, NEW type \in Types, NEW t \in ThreadIds, NEW raw \in Modes,
             type \in Moded \/ raw = Unset, Dispatch(a, type, t, raw)
      PROVE  ThreadsInv'
  BY <1>1, DispatchKeeps
<1>2. ASSUME NEW a \in Agents, NEW t \in ThreadIds, NEW timeout \in Timeouts,
             NEW interval \in Intervals, Wait(a, t, timeout, interval)
      PROVE  ThreadsInv'
  BY <1>2, WaitKeeps
<1>3. ASSUME NEW a \in Agents, Dispatched(a) \/ DispatchFails(a) \/ PollFails(a)
      PROVE  ThreadsInv'
  BY <1>3, DispatchedKeeps
<1>4. ASSUME NEW a \in Agents, Poll(a) PROVE ThreadsInv'
  BY <1>4, PollKeeps
<1>5. ASSUME NEW a \in Agents, Look(a) PROVE ThreadsInv'
  BY <1>5, LookKeeps
<1>6. ASSUME NEW a \in Agents, Wakes(a) PROVE ThreadsInv'
  BY <1>6, WakesKeeps
<1>7. ASSUME NEW c \in flight, Execute(c) PROVE ThreadsInv'
  BY <1>7, ExecuteKeeps
<1>8. ASSUME NEW t \in ThreadIds, Server(t) PROVE ThreadsInv'
  BY <1>8, ServerKeeps
<1>9. CASE Tick
  BY <1>9, TickKeeps
<1>10. CASE UNCHANGED threadVars
  <2>1. UNCHANGED <<log, flight, asked, issued, call>>
    BY <1>10 DEF threadVars
  <2>2. Len(log) \in Nat
    BY DEF ThreadsInv, ThreadsTypeOK
  <2>3. \A y \in Calls : Over(y) => Over(y)'
    BY <2>1, <2>2, OverStable
  <2>4. \A a \in Agents : Timing(call[a])' /\ Over(call[a])'
    BY <2>1, <2>3, CallFacts DEF Timing
  <2>5. ThreadsTypeOK' /\ Ids' /\ ModesKept' /\ FullAccessOnlyIfAsked'
    BY <2>1 DEF ThreadsInv, ThreadsTypeOK, Ids, ModesKept, FullAccessOnlyIfAsked
  <2>. QED BY <2>4, <2>5 DEF ThreadsInv
<1>. QED BY <1>1, <1>2, <1>3, <1>4, <1>5, <1>6, <1>7, <1>8, <1>9, <1>10 DEF ThreadsNext

LEMMA ThreadsInvariant == ThreadsSpec => []ThreadsInv
  BY InitThreadsInv, NextThreadsInv, PTL DEF ThreadsSpec

\* The log, the commands in flight and the calls have their types.
THEOREM ThreadsTyped == ThreadsSpec => []ThreadsTypeOK
<1>1. ThreadsInv => ThreadsTypeOK
  BY DEF ThreadsInv
<1>. QED BY <1>1, ThreadsInvariant, PTL

\* A t3_wait is never more than one poll past its deadline (_t3_wait cuts the last
\* sleep): what is left and the age of the poll add up to at least 0.
THEOREM WaitEnds == ThreadsSpec => []WaitBounded
<1>1. ThreadsInv => WaitBounded
  <2> SUFFICES ASSUME ThreadsInv, NEW a \in Agents, call[a].op \in Timed
               PROVE  call[a].left >= -Latency
    BY DEF WaitBounded
  <2>1. /\ call[a].left + call[a].age >= 0
        /\ call[a].op \in {"poll", "look"} => call[a].age \in 0 .. Latency
        /\ call[a].op = "sleep" => call[a].age <= 0
        /\ call[a].left \in Int /\ call[a].age \in Int
    BY CallFacts DEF Timing, Calls
  <2>. QED BY <2>1, Numbers DEF Timed
<1>. QED BY <1>1, ThreadsInvariant, PTL

\* A t3_wait answers "timeout" only after a look at the thread that was at its
\* deadline or in the poll under way then.
THEOREM TimeoutMissesNothing == ThreadsSpec => []TimeoutLookedLate
<1>1. ThreadsInv => TimeoutLookedLate
  BY DEF ThreadsInv, Timing, TimeoutLookedLate
<1>. QED BY <1>1, ThreadsInvariant, PTL

\* A t3_wait that answers "settled" saw a moment at which every turn of the thread
\* that had started was over and nothing was asked (_wait_terminal_status).
THEOREM SettledMeansOver == ThreadsSpec => []SettledIsOver
<1>1. ThreadsInv => SettledIsOver
  BY DEF ThreadsInv, Over, SettledIsOver
<1>. QED BY <1>1, ThreadsInvariant, PTL

\* A turn has full access only where the call asked for it (_runtime_mode).
THEOREM FullAccessAsked == ThreadsSpec => []FullAccessOnlyIfAsked
<1>1. ThreadsInv => FullAccessOnlyIfAsked
  BY DEF ThreadsInv
<1>. QED BY <1>1, ThreadsInvariant, PTL

\* The server executes at most one command for each call of a write tool: each call
\* builds one, with an id of its own, and none is sent again.
THEOREM NoCommandTwice == ThreadsSpec => []OneCallOneCommand
<1>1. ThreadsInv => OneCallOneCommand
  <2> SUFFICES ASSUME ThreadsInv PROVE OneCallOneCommand
    OBVIOUS
  <2> DEFINE executed == {i \in DOMAIN log : log[i].kind \in Types}
             ids == {log[i].id : i \in executed} \cup {c.id : c \in flight}
  <2>1. /\ \A i, j \in executed : log[i].id = log[j].id => i = j
        /\ \A i \in executed : \A c \in flight : c.id # log[i].id
    BY DEF ThreadsInv, Ids
  <2>2. ids \subseteq 1 .. issued /\ issued \in Nat /\ asked = issued
    <3>1. issued \in Nat /\ asked = issued
      BY CallFacts, Numbers DEF ThreadsInv, ThreadsTypeOK, Ids
    <3>2. \A i \in executed : log[i].id \in 1 .. issued
      BY DEF ThreadsInv, Ids
    <3>3. \A c \in flight : c.id \in 1 .. issued
      BY DEF ThreadsInv, Ids
    <3> HIDE DEF executed
    <3>. QED BY <3>1, <3>2, <3>3
  <2> HIDE DEF ids
  <2>3. IsFiniteSet(1 .. issued) /\ Cardinality(1 .. issued) = issued
    <3>1. /\ IsFiniteSet(1 .. issued)
          /\ Cardinality(1 .. issued) = IF 1 > issued THEN 0 ELSE issued - 1 + 1
      BY <2>2, FS_Interval
    <3>. QED BY <2>2, <3>1
  <2>4. Cardinality(ids) <= asked
    BY <2>2, <2>3, FS_Subset
  <2>. QED BY <2>1, <2>4 DEF OneCallOneCommand, ids
<1>. QED BY <1>1, ThreadsInvariant, PTL
=============================================================================
