------------------------------ MODULE ProofKey ------------------------------
(***************************************************************************)
(* The key that signs DPoP proofs (talaria/dpop.py load_or_create_key) and *)
(* the tokens bound to it (talaria/auth_t3connect.py).  Every step of a    *)
(* call loads the key anew from the secrets, and the first one to find     *)
(* none creates it; a relay token, a credential and an environment's token *)
(* are bound to the key that bought them and stay cached until they        *)
(* expire.  A server refuses a proof by another key than its token's.      *)
(*                                                                         *)
(* Calls run in host threads; which token is due when is ConnectAccess's   *)
(* subject, here any of them may expire at any time.                       *)
(***************************************************************************)
EXTENDS Naturals

CONSTANTS
    Workers,    \* host threads, one request or status probe at a time each
    MaxKeys     \* bound: keys generated

ASSUME ProofKeyAssumption == MaxKeys \in Nat

VARIABLES
    key,         \* the secret T3CODE_DPOP_KEY, by number; 0 is none
    generated,   \* how many keys were generated
    relayKey,    \* the key of the relay token in _relay_token; 0 is no token
    envKeys,     \* the keys of the token and the credential in _env_access
    work,        \* each thread: its step and its locals
    replaced     \* history: a key was stored over another one

keyVars == <<key, generated, relayKey, envKeys, work, replaced>>

Keys == 0 .. MaxKeys

\* Where a call loads the key: ensure_environment_access, connect_environment,
\* dpop_token, environment_status (_dpop_auth_headers), make_proof.
Uses == {"ensure", "connect", "relay", "status", "proof"}

\* use is where the key being loaded goes, held the keys loaded, bound the keys the
\* call's tokens are bound to. settled: the call began with one key in play.
NoWork == [pc |-> "idle", use |-> "proof", probe |-> FALSE, settled |-> FALSE,
           held |-> [u \in Uses |-> 0],
           bound |-> [relay |-> 0, credential |-> 0, token |-> 0]]

Working(w) == work[w].pc \notin {"idle", "refused"}

-----------------------------------------------------------------------------
(* load_or_create_key *)

Loading(x, use) == [x EXCEPT !.pc = "load", !.use = use]
Has(x, k) == [x EXCEPT !.pc = x.use, !.held[x.use] = k]

Load(w) ==
    /\ work[w].pc = "load"
    /\ work' = [work EXCEPT ![w] = IF key # 0 THEN Has(work[w], key)
                                   ELSE [work[w] EXCEPT !.pc = "create"]]
    /\ UNCHANGED <<key, generated, relayKey, envKeys, replaced>>

\* Mutant: the key is generated and not stored.
MutantCreate(w) ==
    /\ work[w].pc = "create" /\ generated < MaxKeys
    /\ generated' = generated + 1
    /\ work' = [work EXCEPT ![w] = Has(work[w], generated + 1)]
    /\ UNCHANGED <<key, relayKey, envKeys, replaced>>

\* It found none: whatever another thread stored since is written over.
Create(w) ==
    /\ work[w].pc = "create" /\ generated < MaxKeys
    /\ generated' = generated + 1
    /\ key' = generated + 1
    /\ replaced' = (replaced \/ key # 0)
    /\ work' = [work EXCEPT ![w] = Has(work[w], generated + 1)]
    /\ UNCHANGED <<relayKey, envKeys>>

-----------------------------------------------------------------------------
(* A request to an environment: DpopEnvClient._request *)

\* Every key that a cache or a call holds.
InPlay ==
    {relayKey, envKeys.token, envKeys.credential}
        \cup UNION {{work[w].held[u] : u \in Uses}
                      \cup {work[w].bound.relay, work[w].bound.credential, work[w].bound.token} :
                        w \in {v \in Workers : Working(v)}}

Settled == key # 0 /\ InPlay \subseteq {0, key} /\ \A w \in Workers : work[w].pc # "create"

Begun == [NoWork EXCEPT !.settled = Settled]

\* ensure_environment_access looks at its cache: a token in it is used as it is.
Request(w) ==
    /\ ~Working(w)
    /\ work' = [work EXCEPT ![w] =
                  IF envKeys.token # 0
                  THEN Loading([Begun EXCEPT !.bound.token = envKeys.token], "proof")
                  ELSE Loading([Begun EXCEPT !.bound.credential = envKeys.credential], "ensure")]
    /\ UNCHANGED <<key, generated, relayKey, envKeys, replaced>>

\* environment_status (t3_environments): the relay token first, then the key.
Probe(w) ==
    /\ ~Working(w)
    /\ work' = [work EXCEPT ![w] =
                  IF relayKey # 0
                  THEN Loading([Begun EXCEPT !.bound.relay = relayKey, !.probe = TRUE], "status")
                  ELSE Loading([Begun EXCEPT !.probe = TRUE], "relay")]
    /\ UNCHANGED <<key, generated, relayKey, envKeys, replaced>>

\* The cached credential is exchanged while it lasts; else the relay grants one.
Ensure(w) ==
    /\ work[w].pc = "ensure"
    /\ work' = [work EXCEPT ![w] = IF @.bound.credential # 0
                                   THEN [@ EXCEPT !.pc = "exchange"]
                                   ELSE Loading(@, "connect")]
    /\ UNCHANGED <<key, generated, relayKey, envKeys, replaced>>

\* connect_environment, with its key loaded, calls dpop_token, which looks at its cache.
AskRelay(w) ==
    /\ work[w].pc = "connect"
    /\ work' = [work EXCEPT ![w] = IF relayKey # 0
                                   THEN [@ EXCEPT !.pc = "grant", !.bound.relay = relayKey]
                                   ELSE Loading(@, "relay")]
    /\ UNCHANGED <<key, generated, relayKey, envKeys, replaced>>

\* dpop_token buys a relay token and caches it.
BuyRelay(w) ==
    LET bought == [work[w] EXCEPT !.bound.relay = work[w].held["relay"]]
    IN  /\ work[w].pc = "relay"
        /\ relayKey' = work[w].held["relay"]
        /\ work' = [work EXCEPT ![w] = IF work[w].probe THEN Loading(bought, "status")
                                       ELSE [bought EXCEPT !.pc = "grant"]]
        /\ UNCHANGED <<key, generated, envKeys, replaced>>

\* Servers compare the proof's key with the token's; this ends a call.
Refuse(w) == work' = [work EXCEPT ![w] = [NoWork EXCEPT !.pc = "refused", !.settled = work[w].settled]]

\* The relay binds the credential to the thumbprint of connect_environment's key.
Grant(w) ==
    LET x == work[w]
    IN  /\ x.pc = "grant"
        /\ IF x.bound.relay = x.held["connect"]
           THEN work' = [work EXCEPT ![w].pc = "exchange",
                                     ![w].bound.credential = x.held["connect"]]
           ELSE Refuse(w)
        /\ UNCHANGED <<key, generated, relayKey, envKeys, replaced>>

\* The environment's token is bought with the key that ensure_environment_access
\* loaded before the relay was asked.
BuyToken(w) ==
    LET x == work[w]
    IN  /\ x.pc = "exchange"
        /\ IF x.bound.credential = x.held["ensure"]
           THEN /\ envKeys' = [token |-> x.held["ensure"], credential |-> x.bound.credential]
                /\ work' = [work EXCEPT ![w] =
                              Loading([x EXCEPT !.bound.token = x.held["ensure"]], "proof")]
           ELSE Refuse(w) /\ UNCHANGED envKeys
        /\ UNCHANGED <<key, generated, relayKey, replaced>>

\* The request itself, with a proof by the key as it is in the secrets by now; or
\* the status probe.
Prove(w) ==
    LET x == work[w]
    IN  /\ x.pc \in {"proof", "status"}
        /\ IF x.held[x.pc] = (IF x.probe THEN x.bound.relay ELSE x.bound.token)
           THEN work' = [work EXCEPT ![w] = NoWork]
           ELSE Refuse(w)
        /\ UNCHANGED <<key, generated, relayKey, envKeys, replaced>>

\* A request to a server fails for another reason.
Fails(w) ==
    /\ work[w].pc \in {"relay", "grant", "exchange", "proof", "status"}
    /\ work' = [work EXCEPT ![w] = NoWork]
    /\ UNCHANGED <<key, generated, relayKey, envKeys, replaced>>

-----------------------------------------------------------------------------
\* A cached token is too old to be used.
Expire ==
    /\ \/ relayKey # 0 /\ relayKey' = 0 /\ UNCHANGED envKeys
       \/ /\ \E what \in {"token", "credential"} :
               envKeys[what] # 0 /\ envKeys' = [envKeys EXCEPT ![what] = 0]
          /\ UNCHANGED relayKey
    /\ UNCHANGED <<key, generated, work, replaced>>

\* The host dies: the caches go, the secret stays.
HostRestarts ==
    /\ \E w \in Workers : work[w] # NoWork
    /\ relayKey' = 0 /\ envKeys' = [token |-> 0, credential |-> 0]
    /\ work' = [w \in Workers |-> NoWork]
    /\ UNCHANGED <<key, generated, replaced>>

-----------------------------------------------------------------------------
ProofKeyInit ==
    /\ key = 0 /\ generated = 0 /\ relayKey = 0 /\ replaced = FALSE
    /\ envKeys = [token |-> 0, credential |-> 0]
    /\ work = [w \in Workers |-> NoWork]

ProofKeyNext ==
    \/ \E w \in Workers :
         \/ Request(w) \/ Probe(w) \/ Load(w) \/ Create(w)
         \/ Ensure(w) \/ AskRelay(w) \/ BuyRelay(w) \/ Grant(w) \/ BuyToken(w)
         \/ Prove(w) \/ Fails(w)
    \/ Expire
    \/ HostRestarts

ProofKeySpec == ProofKeyInit /\ [][ProofKeyNext]_keyVars

-----------------------------------------------------------------------------
(* Properties *)

Works == [pc : {"idle", "refused", "load", "create", "grant", "exchange"} \cup Uses,
          use : Uses, probe : BOOLEAN, settled : BOOLEAN, held : [Uses -> Keys],
          bound : [relay : Keys, credential : Keys, token : Keys]]

\* The secret, the caches and the calls have their types, and no key is used that
\* was not generated.
ProofKeyTypeOK ==
    /\ generated \in Keys /\ key \in 0 .. generated
    /\ relayKey \in 0 .. generated
    /\ envKeys \in [token : 0 .. generated, credential : 0 .. generated]
    /\ work \in [Workers -> Works]
    /\ replaced \in BOOLEAN

\* A proof is refused only after two threads created the key at once, so that one
\* key was stored over another; and it is refused only to calls that began before
\* the tokens bound to the lost key were out of use: once one key is in play (its
\* tokens expired, or the host restarted) no later call is refused.
RefusedOnlyByCreation ==
    \A w \in Workers : work[w].pc = "refused" => replaced /\ ~work[w].settled
=============================================================================
