------------------------------- MODULE SignIn -------------------------------
(***************************************************************************)
(* Signing in to T3 Connect (talaria/auth_t3connect.py, cli.py).  `connect`*)
(* begins a ceremony: it keeps a verifier and a state in memory and as a   *)
(* secret, and prints a URL.  The user signs in there with some account    *)
(* and pastes the code to `connect --code`, which checks the state,        *)
(* exchanges the code and the verifier for two Clerk tokens, stores them,  *)
(* and forgets the ceremony.  Meanwhile the host may be renewing the       *)
(* tokens of the account that was signed in before.                        *)
(*                                                                         *)
(* Every process has a memory of its own; the secrets are those of Hermes, *)
(* shared by them, and each is written by itself.  A process may die       *)
(* between any two steps.                                                  *)
(***************************************************************************)
EXTENDS Naturals, Sequences

CONSTANTS
    Processes,       \* that run the commands or the host's tools
    Accounts,        \* Clerk accounts the user may sign in with
    MaxCeremonies,   \* bound: ceremonies begun
    MaxGrants,       \* bound: times Clerk grants tokens
    Nobody           \* no account

ASSUME SignInAssumption ==
    /\ Nobody \notin Accounts
    /\ {MaxCeremonies, MaxGrants} \subseteq Nat

VARIABLES
    memory,     \* _pending of each process: a ceremony; 0 is None
    pending,    \* the secret T3CODE_CLERK_PKCE_PENDING, likewise
    stored,     \* the two Clerk secrets: the grants they are of; 0 is empty
    job,        \* each process's command: its step and its locals
    opened,     \* how many ceremonies began
    urls,       \* the ceremonies whose URL was printed
    grants,     \* the account of each grant of Clerk's
    latest,     \* history: the ceremony whose secret was stored last
    finished,   \* history: a sign-in finished since then
    signIns,    \* history: how many sign-ins stored both tokens
    signedIn,   \* history: the account of the last of them
    torn,       \* history: the two tokens were not stored one after the other
    overrun     \* history: a renewal older than the last sign-in stored after it

signInVars == <<memory, pending, stored, job, opened, urls, grants, latest,
                finished, signIns, signedIn, torn, overrun>>

Ceremonies == 0 .. MaxCeremonies
Grants == 0 .. MaxGrants

\* An idle command; session 0 is a renewal. grant and refresh are the tokens to
\* store, began the number of sign-ins when a renewal read its refresh token.
NoJob == [pc |-> "idle", session |-> 0, account |-> Nobody,
          grant |-> 0, refresh |-> 0, began |-> 0]

AtRest(p) == job[p].pc = "idle"
Ends(p) == job' = [job EXCEPT ![p] = NoJob]

secretVars == <<memory, pending, stored>>
historyVars == <<latest, finished, signIns, signedIn, torn, overrun>>

-----------------------------------------------------------------------------
(* connect: start_connect, _save_pending *)

StartConnect(p) ==
    /\ AtRest(p) /\ opened < MaxCeremonies
    /\ opened' = opened + 1
    /\ memory' = [memory EXCEPT ![p] = opened + 1]
    /\ job' = [job EXCEPT ![p] = [NoJob EXCEPT !.pc = "savePending", !.session = opened + 1]]
    /\ UNCHANGED <<pending, stored, urls, grants, historyVars>>

SavePending(p) ==
    /\ job[p].pc = "savePending"
    /\ pending' = job[p].session
    /\ latest' = job[p].session /\ finished' = FALSE
    /\ urls' = urls \cup {job[p].session}
    /\ Ends(p)
    /\ UNCHANGED <<memory, stored, opened, grants, signIns, signedIn, torn, overrun>>

-----------------------------------------------------------------------------
(* connect --code: complete_connect *)

\* _load_pending: the memory wins.
LoadPending(p) == IF memory[p] # 0 THEN memory[p] ELSE pending

\* The user opened the URL of ceremony s, signed in as account a and pastes the
\* code. A code of another ceremony, or none pending, ends the command here.
CompleteConnect(p, s, a) ==
    /\ AtRest(p) /\ s \in urls /\ LoadPending(p) = s
    /\ job' = [job EXCEPT ![p] = [NoJob EXCEPT !.pc = "exchange", !.session = s,
                                             !.account = a]]
    /\ UNCHANGED <<secretVars, opened, urls, grants, historyVars>>

\* Mutant: an answer without a refresh token keeps the one there is.
MutantFallback(p) == stored.refresh

\* The refresh token of an answer that has none: complete_connect keeps none,
\* refresh_clerk_tokens the one it sent.
Fallback(p) == IF job[p].session # 0 THEN 0 ELSE job[p].refresh

\* _exchange_clerk_token: Clerk takes a code with the verifier of its own ceremony,
\* or a refresh token; its answer may leave out a new refresh token.
Exchanged(p) ==
    LET n == Len(grants) + 1
    IN  /\ job[p].pc \in {"exchange", "renew"} /\ n <= MaxGrants
        /\ grants' = Append(grants, job[p].account)
        /\ \E r \in {n, Fallback(p)} :
             job' = [job EXCEPT ![p].pc = "storeAccess", ![p].grant = n, ![p].refresh = r]
        /\ UNCHANGED <<secretVars, opened, urls, historyVars>>

\* Mutant: a failure forgets the ceremony.
MutantExchangeFails(p) ==
    /\ job[p].pc \in {"exchange", "renew"}
    /\ memory' = [memory EXCEPT ![p] = 0] /\ pending' = 0
    /\ Ends(p)
    /\ UNCHANGED <<stored, opened, urls, grants, historyVars>>

\* Clerk refuses, cannot be reached, or its answer is lost with a code or a token
\* that is good for once: the ceremony stays pending, and its URL gives other codes.
ExchangeFails(p) ==
    /\ job[p].pc \in {"exchange", "renew"}
    /\ Ends(p)
    /\ UNCHANGED <<secretVars, opened, urls, grants, historyVars>>

\* A renewal that read its refresh token before the last sign-in was done.
Overruns(p) == job[p].session = 0 /\ job[p].began # signIns

StoreAccess(p) ==
    /\ job[p].pc = "storeAccess"
    /\ stored' = [stored EXCEPT !.access = job[p].grant]
    /\ torn' = TRUE
    /\ overrun' = (overrun \/ Overruns(p))
    /\ job' = [job EXCEPT ![p].pc = "storeRefresh"]
    /\ UNCHANGED <<memory, pending, opened, urls, grants, latest, finished, signIns, signedIn>>

StoreRefresh(p) ==
    /\ job[p].pc = "storeRefresh"
    /\ stored' = [stored EXCEPT !.refresh = job[p].refresh]
    /\ torn' = (stored.access # job[p].grant)
    /\ IF job[p].session = 0
       THEN /\ overrun' = (overrun \/ Overruns(p))
            /\ Ends(p)
            /\ UNCHANGED <<signIns, signedIn>>
       ELSE /\ signIns' = signIns + 1 /\ signedIn' = job[p].account /\ overrun' = FALSE
            /\ job' = [job EXCEPT ![p].pc = "clearPending"]
    /\ UNCHANGED <<memory, pending, opened, urls, grants, latest, finished>>

\* _clear_pending: whatever is pending by now.
ClearPending(p) ==
    /\ job[p].pc = "clearPending"
    /\ memory' = [memory EXCEPT ![p] = 0] /\ pending' = 0
    /\ finished' = TRUE
    /\ Ends(p)
    /\ UNCHANGED <<stored, opened, urls, grants, latest, signIns, signedIn, torn, overrun>>

-----------------------------------------------------------------------------
(* refresh_clerk_tokens, when a listing was answered 401 *)

Renew(p) ==
    /\ AtRest(p) /\ stored.refresh # 0
    /\ job' = [job EXCEPT ![p] = [NoJob EXCEPT !.pc = "renew", !.refresh = stored.refresh,
                                             !.account = grants[stored.refresh],
                                             !.began = signIns]]
    /\ UNCHANGED <<secretVars, opened, urls, grants, historyVars>>

\* A process ends, or dies in the middle of a command: its memory goes.
Exits(p) ==
    /\ memory' = [memory EXCEPT ![p] = 0]
    /\ Ends(p)
    /\ UNCHANGED <<pending, stored, opened, urls, grants, historyVars>>

-----------------------------------------------------------------------------
SignInInit ==
    /\ memory = [p \in Processes |-> 0] /\ pending = 0
    /\ stored = [access |-> 0, refresh |-> 0]
    /\ job = [p \in Processes |-> NoJob]
    /\ opened = 0 /\ urls = {} /\ grants = <<>>
    /\ latest = 0 /\ finished = FALSE
    /\ signIns = 0 /\ signedIn = Nobody /\ torn = FALSE /\ overrun = FALSE

SignInNext ==
    \/ \E p \in Processes :
         \/ StartConnect(p) \/ SavePending(p)
         \/ \E s \in Ceremonies, a \in Accounts : CompleteConnect(p, s, a)
         \/ Exchanged(p) \/ ExchangeFails(p)
         \/ StoreAccess(p) \/ StoreRefresh(p) \/ ClearPending(p)
         \/ Renew(p)
         \/ Exits(p)

SignInSpec == SignInInit /\ [][SignInNext]_signInVars

-----------------------------------------------------------------------------
(* Properties *)

Jobs == [pc : {"idle", "savePending", "exchange", "renew", "storeAccess", "storeRefresh",
               "clearPending"},
         session : Ceremonies, account : Accounts \cup {Nobody},
         grant : Grants, refresh : Grants, began : Nat]

\* The memories, the secrets, the commands and Clerk's books have their types.
SignInTypeOK ==
    /\ memory \in [Processes -> 0 .. opened] /\ pending \in 0 .. opened
    /\ opened \in Ceremonies /\ latest \in 0 .. opened
    /\ stored \in [access : 0 .. Len(grants), refresh : 0 .. Len(grants)]
    /\ job \in [Processes -> Jobs]
    /\ grants \in Seq(Accounts) /\ Len(grants) <= MaxGrants
    /\ urls \subseteq 1 .. opened
    /\ signedIn \in Accounts \cup {Nobody}
    /\ {finished, torn, overrun} \subseteq BOOLEAN

\* Until a sign-in finishes, the code of the last `connect` can be pasted to any
\* process, however often it was refused, its exchange failed or a process died, and
\* whatever other ceremonies were begun before: except to a process that remembers
\* another one, whose memory wins over the secret (_load_pending).
LastCeremonyCompletes ==
    latest # 0 /\ ~finished =>
        \A p \in Processes : LoadPending(p) = latest \/ memory[p] \notin {0, latest}

\* Both Clerk tokens are of the account that signed in last, even when the answer
\* had no refresh token: the old account's is not kept with the new one's access
\* token. Excepted are two tokens not stored one after the other (a process died
\* between them, or two stored at once), until the next ones are; and a renewal under
\* way during the sign-in that stores after it and brings the old account back.
StoredAccount ==
    ~torn /\ ~overrun =>
        \A n \in {stored.access, stored.refresh} \ {0} : grants[n] = signedIn
=============================================================================
