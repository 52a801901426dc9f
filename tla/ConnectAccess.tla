--------------------------- MODULE ConnectAccess ---------------------------
(***************************************************************************)
(* How a tool call reaches an environment of T3 Connect                    *)
(* (talaria/auth_t3connect.py): four tiers of tokens, each bought with the *)
(* one before it.                                                          *)
(*                                                                         *)
(*   Clerk access token   a secret; renewed with the Clerk refresh token,  *)
(*                        which is itself replaced when it is used         *)
(*   relay token          _relay_token, cached in memory                   *)
(*   relay credential     cached with the environment's token              *)
(*   environment token    _env_access, cached in memory                    *)
(*                                                                         *)
(* Calls run in host threads and share the secrets and the caches.  A      *)
(* token is named by the moment its server stops accepting it; what the    *)
(* code believes of that moment is the entry's `expires`.                  *)
(***************************************************************************)
EXTENDS Naturals

CONSTANTS
  Callers,     \* host threads that run tool handlers
  Skew,        \* ACCESS_REFRESH_SKEW
  Patience,    \* the longest a request lasts, from its clock reading to its answer
  ClerkLife, RelayLife, CredLife, EnvLife,   \* what the servers grant
  MaxTime,     \* the clock's bound
  MaxRefresh,  \* a bound on the refresh tokens Clerk issues
  None

\* What the caches hold (_CachedRelayToken, _CachedEnvAccess).
RelayEntries == [token : Nat, expires : Nat]
EnvEntries == [token : Nat, expires : Nat, credential : Nat]

\* A request ends long before the skew has passed (a 30 s timeout for each of its
\* few exchanges, a skew of 300 s), and what a server grants outlasts a request.
ASSUME AccessAssumption ==
  /\ {Skew, Patience, ClerkLife, RelayLife, CredLife, EnvLife, MaxTime, MaxRefresh} \subseteq Nat
  /\ Patience < Skew /\ MaxRefresh > 0
  /\ Patience < RelayLife /\ Patience < EnvLife
  /\ None \notin Callers
  /\ None \notin RelayEntries /\ None \notin EnvEntries

VARIABLES
  now,       \* the time
  access,    \* the secret T3CODE_CLERK_ACCESS_TOKEN
  refresh,   \* the secret T3CODE_CLERK_REFRESH_TOKEN
  relay,     \* _relay_token
  env,       \* _env_access, for the one environment modelled
  call,      \* each caller's tool call: the step it is at and its locals
  cli,       \* `hermes t3code connect --code`, a process of its own
  good,      \* Clerk: the refresh tokens it accepts
  issued,    \* Clerk: the last refresh token it issued
  lost       \* history: an answer of Clerk's was lost and no sign-in repaired it

vars == <<now, access, refresh, relay, env, call, cli, good, issued, lost>>

----------------------------------------------------------------------------
Live(token) == now < token

\* Mutant: the cached token is used up to its last second.
MutantUsable(entry) == entry # None /\ entry.expires >= now

Usable(entry) == entry # None /\ entry.expires >= now + Skew

NoCall == [pc |-> "idle", epoch |-> 0, got |-> 0, again |-> FALSE,
           access |-> 0, refresh |-> 0]
NoCli == [pc |-> "idle", access |-> 0, refresh |-> 0]

\* Steps at which a call waits for a server, and those timed by its clock reading.
Timed == {"dpop", "connect", "exchange", "send"}
Waiting == {"list", "refresh"} \cup Timed

Goes(c, pc) == call' = [call EXCEPT ![c].pc = pc]
Returns(c) == call' = [call EXCEPT ![c] = NoCall]
Refused(c) == call' = [call EXCEPT ![c] = [NoCall EXCEPT !.pc = "refused"]]

Init ==
  /\ now = 0
  /\ access = ClerkLife
  /\ refresh = 1
  /\ relay = None
  /\ env = None
  /\ call = [c \in Callers |-> NoCall]
  /\ cli = NoCli
  /\ good = {1}
  /\ issued = 1
  /\ lost = FALSE

----------------------------------------------------------------------------
(* Every call first lists the account's environments (_ensure_discovered) *)

Begin(c) ==
  /\ call[c].pc = "idle"
  /\ call' = [call EXCEPT ![c] = [NoCall EXCEPT !.pc = "list", !.got = access]]
  /\ UNCHANGED <<now, access, refresh, relay, env, cli, good, issued, lost>>

List(c) ==
  /\ call[c].pc = "list" /\ Live(call[c].got)
  /\ call' = [call EXCEPT ![c] = [NoCall EXCEPT !.pc = "ready"]]
  /\ UNCHANGED <<now, access, refresh, relay, env, cli, good, issued, lost>>

\* The relay cannot be reached: the call goes on with the environments known.
ListSkipped(c) ==
  /\ call[c].pc = "list"
  /\ call' = [call EXCEPT ![c] = [NoCall EXCEPT !.pc = "ready"]]
  /\ UNCHANGED <<now, access, refresh, relay, env, cli, good, issued, lost>>

\* On 401, once: the refresh token is read and offered to Clerk.
ListRejected(c) ==
  /\ call[c].pc = "list" /\ ~ Live(call[c].got)
  /\ IF call[c].again THEN Refused(c)
     ELSE call' = [call EXCEPT ![c].pc = "refresh", ![c].got = refresh]
  /\ UNCHANGED <<now, access, refresh, relay, env, cli, good, issued, lost>>

\* Clerk takes a refresh token once and issues the next one.
Renew(token) ==
  /\ token \in good /\ issued < MaxRefresh
  /\ issued' = issued + 1
  /\ good' = (good \ {token}) \cup {issued'}

\* Mutant: the refresh token in the answer is ignored.
MutantRefresh(c) ==
  /\ call[c].pc = "refresh" /\ Renew(call[c].got)
  /\ call' = [call EXCEPT ![c].pc = "storeAccess", ![c].access = now + ClerkLife,
                          ![c].refresh = call[c].got]
  /\ UNCHANGED <<now, access, refresh, relay, env, cli, lost>>

\* Mutant: no refresh token is kept (complete_connect's empty fallback).
MutantNoFallback(c) ==
  /\ call[c].pc = "refresh" /\ Renew(call[c].got)
  /\ call' = [call EXCEPT ![c].pc = "storeAccess", ![c].access = now + ClerkLife,
                          ![c].refresh = 0]
  /\ UNCHANGED <<now, access, refresh, relay, env, cli, lost>>

Refresh(c) ==
  /\ call[c].pc = "refresh" /\ Renew(call[c].got)
  /\ call' = [call EXCEPT ![c].pc = "storeAccess", ![c].access = now + ClerkLife,
                          ![c].refresh = issued']
  /\ UNCHANGED <<now, access, refresh, relay, env, cli, lost>>

\* Another call, or a lost answer, has used the token: "run hermes t3code connect".
RefreshRejected(c) ==
  /\ call[c].pc = "refresh" /\ call[c].got \notin good
  /\ Refused(c)
  /\ UNCHANGED <<now, access, refresh, relay, env, cli, good, issued, lost>>

RefreshLost(c) ==
  /\ call[c].pc = "refresh" /\ Renew(call[c].got)
  /\ lost' = TRUE
  /\ Returns(c)
  /\ UNCHANGED <<now, access, refresh, relay, env, cli>>

\* Two secrets, one write each; then the environments are listed again.
StoreAccess(c) ==
  /\ call[c].pc = "storeAccess"
  /\ access' = call[c].access
  /\ Goes(c, "storeRefresh")
  /\ UNCHANGED <<now, refresh, relay, env, cli, good, issued, lost>>

StoreRefresh(c) ==
  /\ call[c].pc = "storeRefresh"
  /\ refresh' = call[c].refresh
  /\ call' = [call EXCEPT ![c] = [NoCall EXCEPT !.pc = "list", !.again = TRUE, !.got = access]]
  /\ UNCHANGED <<now, access, relay, env, cli, good, issued, lost>>

----------------------------------------------------------------------------
(* Each request to the environment asks for a token (ensure_environment_access) *)

\* The cached token; or the cached credential, to be exchanged again; or the relay.
Request(c) ==
  /\ call[c].pc = "ready"
  /\ call' = [call EXCEPT ![c].epoch = now,
       ![c].pc = IF Usable(env) THEN "send"
                 ELSE IF env # None /\ env.credential > now THEN "exchange"
                 ELSE IF Usable(relay) THEN "connect" ELSE "dpop",
       ![c].got = IF Usable(env) THEN env.token
                  ELSE IF env # None /\ env.credential > now THEN env.credential
                  ELSE IF Usable(relay) THEN relay.token ELSE access]
  /\ UNCHANGED <<now, access, refresh, relay, env, cli, good, issued, lost>>

\* dpop_token: the expiry is counted from the reading of the clock, not from the answer.
Dpop(c) ==
  /\ call[c].pc = "dpop"
  /\ IF Live(call[c].got)
     THEN /\ relay' = [token |-> now + RelayLife, expires |-> call[c].epoch + RelayLife]
          /\ call' = [call EXCEPT ![c].pc = "connect", ![c].got = now + RelayLife]
     ELSE Refused(c) /\ UNCHANGED relay
  /\ UNCHANGED <<now, access, refresh, env, cli, good, issued, lost>>

\* connect_environment: the credential says itself when it expires.
Connect(c) ==
  /\ call[c].pc = "connect"
  /\ IF Live(call[c].got)
     THEN call' = [call EXCEPT ![c].pc = "exchange", ![c].got = now + CredLife]
     ELSE Refused(c)
  /\ UNCHANGED <<now, access, refresh, relay, env, cli, good, issued, lost>>

\* exchange_dpop: the credential is kept, to be exchanged again.
Exchange(c) ==
  /\ call[c].pc = "exchange"
  /\ IF Live(call[c].got)
     THEN /\ env' = [token |-> now + EnvLife, expires |-> call[c].epoch + EnvLife,
                     credential |-> call[c].got]
          /\ call' = [call EXCEPT ![c].pc = "send", ![c].got = now + EnvLife]
     ELSE Refused(c) /\ UNCHANGED env
  /\ UNCHANGED <<now, access, refresh, relay, cli, good, issued, lost>>

\* A call sends one request or, like t3_wait, one for each look at the thread.
Send(c) ==
  /\ call[c].pc = "send"
  /\ IF Live(call[c].got)
     THEN call' = [call EXCEPT ![c] = [NoCall EXCEPT !.pc = "ready"]]
     ELSE Refused(c)
  /\ UNCHANGED <<now, access, refresh, relay, env, cli, good, issued, lost>>

Return(c) ==
  /\ call[c].pc \in {"ready", "refused"}
  /\ Returns(c)
  /\ UNCHANGED <<now, access, refresh, relay, env, cli, good, issued, lost>>

\* A server answers with an error of its own, or (but for the listing's) is unreachable.
Fails(c) ==
  /\ call[c].pc \in Waiting
  /\ Returns(c)
  /\ UNCHANGED <<now, access, refresh, relay, env, cli, good, issued, lost>>

----------------------------------------------------------------------------
(* The rest of the world *)

\* complete_connect: the user signs in, in another process; the caches stay.
SignIn ==
  /\ cli.pc = "idle" /\ issued < MaxRefresh
  /\ issued' = issued + 1
  /\ good' = good \cup {issued'}
  /\ cli' = [pc |-> "storeAccess", access |-> now + ClerkLife, refresh |-> issued']
  /\ UNCHANGED <<now, access, refresh, relay, env, call, lost>>

SignInAccess ==
  /\ cli.pc = "storeAccess"
  /\ access' = cli.access
  /\ cli' = [cli EXCEPT !.pc = "storeRefresh"]
  /\ UNCHANGED <<now, refresh, relay, env, call, good, issued, lost>>

SignInRefresh ==
  /\ cli.pc = "storeRefresh"
  /\ refresh' = cli.refresh
  /\ cli' = NoCli
  /\ lost' = FALSE
  /\ UNCHANGED <<now, access, relay, env, call, good, issued>>

\* The host starts again: the secrets survive, the caches and the calls do not.
Restart ==
  /\ relay' = None /\ env' = None
  /\ call' = [c \in Callers |-> NoCall]
  /\ lost' = (lost \/ \E c \in Callers : call[c].pc \in {"storeAccess", "storeRefresh"})
  /\ UNCHANGED <<now, access, refresh, cli, good, issued>>

Tick ==
  /\ now < MaxTime
  /\ \A c \in Callers : call[c].pc \in Timed => now < call[c].epoch + Patience
  /\ now' = now + 1
  /\ UNCHANGED <<access, refresh, relay, env, call, cli, good, issued, lost>>

Next ==
  \/ \E c \in Callers :
       \/ Begin(c) \/ List(c) \/ ListSkipped(c) \/ ListRejected(c)
       \/ Refresh(c) \/ RefreshRejected(c) \/ RefreshLost(c)
       \/ StoreAccess(c) \/ StoreRefresh(c)
       \/ Request(c) \/ Dpop(c) \/ Connect(c) \/ Exchange(c) \/ Send(c)
       \/ Return(c) \/ Fails(c)
  \/ SignIn \/ SignInAccess \/ SignInRefresh \/ Restart \/ Tick

Spec == Init /\ [][Next]_vars

----------------------------------------------------------------------------
Calls == [pc : {"idle", "ready", "refused", "storeAccess", "storeRefresh"} \cup Waiting,
          epoch : 0 .. MaxTime, got : Nat, again : BOOLEAN,
          access : Nat, refresh : 0 .. MaxRefresh]
CliCalls == [pc : {"idle", "storeAccess", "storeRefresh"},
             access : Nat, refresh : 0 .. MaxRefresh]

TypeOK ==
  /\ now \in 0 .. MaxTime
  /\ access \in Nat
  /\ refresh \in 1 .. MaxRefresh
  /\ relay \in RelayEntries \cup {None}
  /\ env \in EnvEntries \cup {None}
  /\ call \in [Callers -> Calls]
  /\ cli \in CliCalls
  /\ good \subseteq 1 .. issued
  /\ issued \in 1 .. MaxRefresh
  /\ lost \in BOOLEAN

\* A request carries a token its server still accepts when it arrives, whoever
\* cached it, however late the answer it came from, in every tier that looks at
\* the skew: the relay's and the environment's.
TokensAlive ==
  \A c \in Callers : call[c].pc \in {"connect", "send"} => Live(call[c].got)

\* Who is about to store a refresh token that Clerk accepts.
Storing ==
  \/ cli.pc # "idle" /\ cli.refresh \in good
  \/ \E c \in Callers : call[c].pc \in {"storeAccess", "storeRefresh"} /\ call[c].refresh \in good

\* The account stays signed in: the stored refresh token is one Clerk accepts, or
\* somebody is on the way to store one, however many calls renew at once and
\* sign-ins come between, unless an answer was lost.
RefreshNotLost == refresh \in good \/ Storing \/ lost

\* A call is refused for want of authentication only when the refresh token in
\* the secrets could not have helped.
RefusedOnlyIfSignedOut ==
  [][\A c \in Callers :
       call[c].pc # "refused" /\ call'[c].pc = "refused" => refresh \notin good]_vars
=============================================================================
