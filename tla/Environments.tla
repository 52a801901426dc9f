---------------------------- MODULE Environments ----------------------------
(***************************************************************************)
(* Which server a tool call reaches, and with whose token                  *)
(* (talaria/config.py, auth_direct.py, auth_t3connect.py, tools.py).       *)
(*                                                                         *)
(*   config      environments: name -> base URL, written by `hermes t3code *)
(*               login` and `logout`, a process of their own               *)
(*   secret      secret name -> bearer, written by the same two commands,  *)
(*               before the config                                         *)
(*   discovered  name -> environment, in ctx.state, written by every tool  *)
(*               call that lists the account's environments                *)
(*                                                                         *)
(* An environment stands for its id, its server and the server's base URL, *)
(* and for the bearer that server issued.  A name is an id, the slug of a  *)
(* label, or what the user typed after --name.                             *)
(***************************************************************************)
EXTENDS Naturals, FiniteSets, SequencesExt

CONSTANTS
  Envs,         \* the T3 servers
  Names,        \* what an environment can be called
  Label,        \* each server's label as slugify_label leaves it; None: empty
  Typed,        \* the names the user types after --name
  SecretName,   \* secret_name_for
  Callers,      \* host threads that run tool handlers
  Asked,        \* what calls ask for: the argument, or the default; None: neither
  MaxCommands,  \* a bound on the logins and logouts
  None

Secrets == {SecretName[n] : n \in Names}

\* Ids are uuids: they are names of their own, and nothing else is called so.
ASSUME EnvironmentsAssumption ==
  /\ IsFiniteSet(Envs) /\ Envs \subseteq Names
  /\ Label \in [Envs -> (Names \ Envs) \cup {None}]
  /\ Typed \subseteq Names \ Envs /\ Asked \subseteq Names \cup {None}
  /\ DOMAIN SecretName = Names
  /\ None \notin Names \cup Callers /\ MaxCommands \in Nat

VARIABLES
  config,       \* the settings' `environments`: the server each name is given
  secret,       \* the server whose bearer each T3CODE_TOKEN_ secret holds
  discovered,   \* ctx.state's discovered_environments
  signedIn,     \* a Clerk access token is in the secrets
  cli,          \* the login or logout in progress
  call,         \* each caller's tool call: the step it is at and its locals
  torn,         \* history: names whose last login or logout was cut short
  commands      \* how many logins and logouts there were

vars == <<config, secret, discovered, signedIn, cli, call, torn, commands>>

----------------------------------------------------------------------------
(* Names *)

\* The label's slug, or the id where there is no label.
Slug(e) == IF Label[e] = None THEN e ELSE Label[e]

\* The names a login can have given.
GivenNames == Typed \cup {Slug(e) : e \in Envs}

\* Mutant: a name already taken is used again.
MutantAddRow(taken, found, e) == [found EXCEPT ![Slug(e)] = e]

\* A row of the relay's list joins the map, under its id if its name is taken.
AddRow(taken, found, e) ==
  LET name == IF Slug(e) \in taken \/ found[Slug(e)] # None THEN e ELSE Slug(e)
  IN [found EXCEPT ![name] = e]

Nothing == [n \in Names |-> None]

\* The rows join one after the other.
DiscoveredMap(rows, taken) ==
  LET found[k \in 0 .. Len(rows)] ==
        IF k = 0 THEN Nothing ELSE AddRow(taken, found[k - 1], rows[k])
  IN found[Len(rows)]

\* What the relay may list: any of the environments, in any order.
Listings == UNION {{rows \in [1..k -> Envs] : IsInjective(rows)} : k \in 0..Cardinality(Envs)}

NoRef == [name |-> None, server |-> None, id |-> None]

\* A configured entry has no id; a discovered one hides behind it.
Ref(name) ==
  IF config[name] # None THEN [name |-> name, server |-> config[name], id |-> None]
  ELSE [name |-> name, server |-> discovered[name], id |-> discovered[name]]

Resolved == {Ref(n) : n \in {m \in Names : config[m] # None \/ discovered[m] # None}}

\* By name, then by id; with neither argument nor default, the sole entry.
Lookup(wanted) ==
  LET named == {r \in Resolved : r.name = wanted}
      ided == {r \in Resolved : r.id = wanted}
      fit == IF wanted = None THEN IF Cardinality(Resolved) = 1 THEN Resolved ELSE {}
             ELSE IF named # {} THEN named ELSE ided
  IN IF fit = {} THEN NoRef ELSE CHOOSE r \in fit : TRUE

----------------------------------------------------------------------------
NoCommand == [pc |-> "idle", op |-> None, name |-> None, env |-> None]

\* History: the relay listed what is wanted; another command or call wrote one of
\* the stores since this call began.
NoCall == [pc |-> "idle", wanted |-> None, map |-> Nothing, ref |-> NoRef,
           token |-> None, listed |-> FALSE, raced |-> FALSE]

Race(but) ==
  [c \in Callers |-> IF c = but \/ call[c].pc = "idle" THEN call[c]
                     ELSE [call[c] EXCEPT !.raced = TRUE]]

Init ==
  /\ config = Nothing
  /\ secret = [s \in Secrets |-> None]
  /\ discovered = Nothing
  /\ signedIn \in BOOLEAN
  /\ cli = NoCommand
  /\ call = [c \in Callers |-> NoCall]
  /\ torn = {}
  /\ commands = 0

----------------------------------------------------------------------------
(* hermes t3code login, logout and connect *)

\* The pairing token has been exchanged; before that nothing is written.
BeginLogin(e, name) ==
  /\ cli = NoCommand /\ commands < MaxCommands
  /\ commands' = commands + 1
  /\ name \in Typed \cup {Slug(e)}
  /\ cli' = [pc |-> "secret", op |-> "login", name |-> name, env |-> e]
  /\ UNCHANGED <<config, secret, discovered, signedIn, call, torn>>

BeginLogout(name) ==
  /\ cli = NoCommand /\ name \in GivenNames /\ commands < MaxCommands
  /\ commands' = commands + 1
  /\ cli' = [NoCommand EXCEPT !.pc = "secret", !.op = "logout", !.name = name]
  /\ UNCHANGED <<config, secret, discovered, signedIn, call, torn>>

\* set_secret or _remove_secret
WriteSecret ==
  /\ cli.pc = "secret"
  /\ secret' = [secret EXCEPT ![SecretName[cli.name]] = cli.env]
  /\ cli' = [cli EXCEPT !.pc = "config"]
  /\ call' = Race(None)
  /\ UNCHANGED <<config, discovered, signedIn, torn, commands>>

\* Mutant: an entry that is there already is kept.
MutantWriteConfig ==
  /\ cli.pc = "config"
  /\ config' = [config EXCEPT ![cli.name] =
                  IF cli.op = "login" /\ @ # None THEN @ ELSE cli.env]
  /\ cli' = NoCommand
  /\ torn' = torn \ {cli.name}
  /\ call' = Race(None)
  /\ UNCHANGED <<secret, discovered, signedIn, commands>>

\* _upsert_environment, or the entry dropped
WriteConfig ==
  /\ cli.pc = "config"
  /\ config' = [config EXCEPT ![cli.name] = cli.env]
  /\ cli' = NoCommand
  /\ torn' = torn \ {cli.name}
  /\ call' = Race(None)
  /\ UNCHANGED <<secret, discovered, signedIn, commands>>

\* The command dies, or one of its writes fails.
CommandFails ==
  /\ cli # NoCommand
  /\ cli' = NoCommand
  /\ torn' = IF cli.pc = "config" THEN torn \cup {cli.name} ELSE torn
  /\ UNCHANGED <<config, secret, discovered, signedIn, call, commands>>

\* `connect --code` stores the Clerk tokens; the user may remove them by hand.
SignInOrOut ==
  /\ signedIn' = ~ signedIn
  /\ UNCHANGED <<config, secret, discovered, cli, call, torn, commands>>

----------------------------------------------------------------------------
(* A tool call: list the account's environments, resolve, send *)

Begin(c, wanted) ==
  /\ call[c].pc = "idle"
  /\ call' = [call EXCEPT ![c] = [NoCall EXCEPT
       !.pc = IF signedIn THEN "list" ELSE "resolve", !.wanted = wanted]]
  /\ UNCHANGED <<config, secret, discovered, signedIn, cli, torn, commands>>

\* The relay answered; the names of the settings are read after it did.
Listed(c, rows) ==
  /\ call[c].pc = "list"
  /\ call' = [call EXCEPT ![c].pc = "write",
       ![c].listed = call[c].wanted \in ToSet(rows),
       ![c].map = DiscoveredMap(rows, {n \in Names : config[n] # None})]
  /\ UNCHANGED <<config, secret, discovered, signedIn, cli, torn, commands>>

\* A refusal ends the call; any other failure is swallowed.
ListFails(c) ==
  /\ call[c].pc = "list"
  /\ \/ call' = [call EXCEPT ![c] = NoCall]
     \/ call' = [call EXCEPT ![c].pc = "resolve"]
  /\ UNCHANGED <<config, secret, discovered, signedIn, cli, torn, commands>>

WriteDiscovered(c) ==
  /\ call[c].pc = "write"
  /\ discovered' = call[c].map
  /\ call' = [Race(c) EXCEPT ![c].pc = "resolve", ![c].map = Nothing]
  /\ UNCHANGED <<config, secret, signedIn, cli, torn, commands>>

Resolve(c) ==
  /\ call[c].pc = "resolve"
  /\ call' = [call EXCEPT ![c].ref = Lookup(call[c].wanted),
       ![c].pc = IF Lookup(call[c].wanted) = NoRef THEN "notFound" ELSE "authorise"]
  /\ UNCHANGED <<config, secret, discovered, signedIn, cli, torn, commands>>

\* A discovered environment's token is bought for its id, which is resolved again.
BoughtFor(id) ==
  LET r == Lookup(id)
  IN IF r = NoRef THEN id ELSE IF r.id # None THEN r.id ELSE r.name

\* Mutant: the bearer is looked up under the server's own name.
MutantBearer(ref) == secret[SecretName[Slug(ref.server)]]

Bearer(ref) == secret[SecretName[ref.name]]

Token(ref) == IF ref.id # None /\ signedIn THEN BoughtFor(ref.id) ELSE Bearer(ref)

\* Mutant: a call without a token is sent.
MutantAuthorise(c) ==
  /\ call[c].pc = "authorise"
  /\ call' = [call EXCEPT ![c].token = Token(call[c].ref), ![c].pc = "sent"]
  /\ UNCHANGED <<config, secret, discovered, signedIn, cli, torn, commands>>

\* With no token the call is refused as not authenticated.
Authorise(c) ==
  /\ call[c].pc = "authorise"
  /\ call' = [call EXCEPT ![c].token = Token(call[c].ref),
       ![c].pc = IF Token(call[c].ref) = None THEN "refused" ELSE "sent"]
  /\ UNCHANGED <<config, secret, discovered, signedIn, cli, torn, commands>>

Return(c) ==
  /\ call[c].pc \in {"notFound", "refused", "sent"}
  /\ call' = [call EXCEPT ![c] = NoCall]
  /\ UNCHANGED <<config, secret, discovered, signedIn, cli, torn, commands>>

----------------------------------------------------------------------------
Command ==
  \/ \E e \in Envs, name \in Names : BeginLogin(e, name)
  \/ \E name \in Names : BeginLogout(name)
  \/ WriteSecret \/ WriteConfig \/ CommandFails

ToolCall(c) ==
  \/ \E wanted \in Asked : Begin(c, wanted)
  \/ \E rows \in Listings : Listed(c, rows)
  \/ ListFails(c) \/ WriteDiscovered(c) \/ Resolve(c) \/ Authorise(c) \/ Return(c)

Next == Command \/ SignInOrOut \/ \E c \in Callers : ToolCall(c)

Spec == Init /\ [][Next]_vars

----------------------------------------------------------------------------
(* Properties *)

Commands ==
  {NoCommand} \cup
  [pc : {"secret", "config"}, op : {"login"}, name : Names, env : Envs] \cup
  [pc : {"secret", "config"}, op : {"logout"}, name : Names, env : {None}]

\* Every store and call keeps to the values the code gives it: a name is given to a
\* server or to none, a secret holds one bearer or none, and no request goes out without
\* a resolved environment and a token (config.py, auth_direct.py, tools._client_for).
TypeOK ==
  /\ config \in [Names -> Envs \cup {None}]
  /\ secret \in [Secrets -> Envs \cup {None}]
  /\ discovered \in [Names -> Envs \cup {None}]
  /\ signedIn \in BOOLEAN
  /\ cli \in Commands
  /\ torn \subseteq Names
  /\ commands \in 0..MaxCommands
  /\ \A c \in Callers :
       /\ call[c].pc \in {"idle", "list", "write", "resolve", "authorise",
                          "notFound", "refused", "sent"}
       /\ call[c].ref \in {NoRef} \cup
            [name : Names, server : Envs, id : Envs \cup {None}]
       /\ call[c].pc \in {"authorise", "refused", "sent"} => call[c].ref # NoRef
       /\ call[c].pc = "sent" => call[c].token \in Envs

\* No other name has this one's secret name.
Alone(name) == \A m \in Names : SecretName[m] = SecretName[name] => m = name

\* The config and the secrets agree: a name whose commands all ran to their end has
\* the bearer of the server it is configured for, and one that is not configured has
\* none (login and logout write the two stores one after the other).
StoresAgree ==
  \A name \in Names :
    (Alone(name) /\ name \notin torn /\ cli.name # name) =>
      secret[SecretName[name]] = config[name]

\* A request carries the token of the server it is sent to, unless a command wrote
\* between the call's reads of the config and of the secrets (tools._client_for), or
\* the name's command was cut short.
CarriesItsToken ==
  \A c \in Callers : LET r == call[c].ref IN
    (call[c].pc = "sent" /\ ~ call[c].raced /\ Alone(r.name)
       /\ r.name \notin torn /\ cli.name # r.name) =>
      call[c].token = r.server

\* "The resolved set is the union": a call that nobody raced reaches by its id every
\* environment it listed, whatever the labels, their order and the configured names
\* (discovered_environment_map, resolve_environments).
ListedAreReachable ==
  \A c \in Callers :
    (call[c].listed /\ ~ call[c].raced) =>
      /\ call[c].pc # "notFound"
      /\ call[c].pc \in {"authorise", "sent"} => call[c].ref.server = call[c].wanted
=============================================================================
