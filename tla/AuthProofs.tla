------------------------------ MODULE AuthProofs ------------------------------
(***************************************************************************)
(* Theorems about SignIn, for any processes, accounts and bounds, and      *)
(* about ProofKey, for any number of threads and keys.                     *)
(*                                                                         *)
(* LastCeremonyCompletes rests on one fact about the secret (SecretKept):  *)
(* until a sign-in finishes, the secret is the last ceremony's, so that    *)
(* only a memory can hide it.  StoredAccount needs to know of commands     *)
(* under way what they are about to store: an answer's tokens are of the   *)
(* command's account (OfAccount), and a renewal that no sign-in overtook   *)
(* is of the account that signed in last (Current).  The refresh token is  *)
(* right even while the two are torn, because a renewal reads it           *)
(* (Refreshes).                                                            *)
(*                                                                         *)
(* The invariant of ProofKey has three parts: the steps of a call have the *)
(* keys they need loaded (Loaded); as long as no key was stored over       *)
(* another, and for as long as a call goes on that began with one key in   *)
(* play, no other key is in play (OneKey); and a refused call had two      *)
(* (RefusedOnlyByCreation).                                                *)
(*                                                                         *)
(* That all of it is well formed is shown apart: no ceremony is named that *)
(* did not begin (SignInTypes), no key held that was not generated         *)
(* (KeyTypes).                                                             *)
(***************************************************************************)
EXTENDS SignIn, ProofKey, TLAPS

(* SignIn *)

SignInShapes ==
  /\ job \in [Processes -> Jobs]
  /\ grants \in Seq(Accounts) /\ Len(grants) \in Grants
  /\ stored \in [access : 0 .. Len(grants), refresh : 0 .. Len(grants)]
  /\ opened \in Nat /\ urls \subseteq Nat \ {0}
  /\ signIns \in Nat

SecretKept == latest # 0 /\ ~finished => pending = latest

\* What a command has to store is of its account.
OfAccount(x) ==
  /\ x.pc = "savePending" => x.session # 0
  /\ x.pc \in {"exchange", "renew", "storeAccess", "storeRefresh"} => x.account \in Accounts
  /\ x.pc = "exchange" => x.session # 0
  /\ x.pc = "renew" =>
       /\ x.session = 0
       /\ x.refresh \in 1 .. Len(grants) /\ grants[x.refresh] = x.account
  /\ x.pc \in {"storeAccess", "storeRefresh"} =>
       /\ x.grant \in 1 .. Len(grants) /\ grants[x.grant] = x.account
       /\ x.refresh # 0 => x.refresh \in 1 .. Len(grants) /\ grants[x.refresh] = x.account

\* A renewal that began after the last sign-in is of its account.
Current(x) ==
  x.pc \in {"renew", "storeAccess", "storeRefresh"} /\ x.session = 0 =>
    /\ x.began \in 0 .. signIns
    /\ x.began = signIns /\ ~overrun => x.account = signedIn

JobsKept == \A p \in Processes : OfAccount(job[p]) /\ Current(job[p])

Refreshes == ~overrun /\ stored.refresh # 0 => grants[stored.refresh] = signedIn

\* While torn and overrun are both false the access token is right as well.
Accesses == ~torn /\ ~overrun /\ stored.access # 0 => grants[stored.access] = signedIn

SignInInv == SignInShapes /\ SecretKept /\ JobsKept /\ Refreshes /\ Accesses
-----------------------------------------------------------------------------
LEMMA Zeros == 0 \in Ceremonies /\ 0 \in Grants
  BY SignInAssumption DEF Ceremonies, Grants

LEMMA NoJobType == NoJob \in Jobs /\ NoJob.pc = "idle" /\ NoJob.session = 0
  BY Zeros DEF NoJob, Jobs

LEMMA InitSignInInv == SignInInit => SignInInv
<1> SUFFICES ASSUME SignInInit PROVE SignInInv
  OBVIOUS
<1>1. /\ job \in [Processes -> Jobs] /\ \A p \in Processes : job[p].pc = "idle"
  BY NoJobType DEF SignInInit
<1>2. grants \in Seq(Accounts) /\ Len(grants) = 0
  BY DEF SignInInit
<1>3. SignInShapes
  BY <1>1, <1>2, Zeros DEF SignInInit, SignInShapes
<1>4. JobsKept
  BY <1>1 DEF JobsKept, OfAccount, Current
<1>. QED BY <1>3, <1>4 DEF SignInInit, SignInInv, SecretKept, Refreshes, Accesses

\* A step that gives one process another command and touches neither Clerk's books
\* nor what the secrets hold of the tokens.
LEMMA CommandChanges ==
  ASSUME SignInInv, NEW p \in Processes, NEW x \in Jobs, job' = [job EXCEPT ![p] = x],
         UNCHANGED <<stored, grants, signIns, signedIn, torn, overrun>>,
         opened' \in Nat, urls' \subseteq Nat \ {0}, OfAccount(x), Current(x), SecretKept'
  PROVE  SignInInv'
<1> USE DEF SignInInv, SignInShapes
<1>1. SignInShapes'
  OBVIOUS
<1>2. JobsKept'
  BY DEF JobsKept, OfAccount, Current
<1>. QED BY <1>1, <1>2 DEF Refreshes, Accesses

LEMMA StartKeeps == ASSUME SignInInv, NEW p \in Processes, StartConnect(p) PROVE SignInInv'
<1> DEFINE x == [NoJob EXCEPT !.pc = "savePending", !.session = opened + 1]
<1>1. opened + 1 \in Ceremonies /\ opened \in Nat /\ opened + 1 # 0
  BY SignInAssumption DEF StartConnect, Ceremonies, SignInInv, SignInShapes
<1>2. x \in Jobs /\ x.pc = "savePending" /\ x.session # 0
  BY <1>1, Zeros DEF NoJob, Jobs
<1>3. /\ job' = [job EXCEPT ![p] = x] /\ opened' \in Nat /\ urls' \subseteq Nat \ {0}
      /\ UNCHANGED <<stored, grants, signIns, signedIn, torn, overrun>>
  BY <1>1 DEF StartConnect, historyVars, SignInInv, SignInShapes
<1>4. SecretKept'
  BY DEF StartConnect, historyVars, SecretKept, SignInInv
<1> HIDE DEF x
<1>5. OfAccount(x) /\ Current(x)
  BY <1>2 DEF OfAccount, Current
<1>. QED BY <1>2, <1>3, <1>4, <1>5, CommandChanges

\* ExchangeFails, Exits, SavePending and ClearPending end a command.
LEMMA JobEndKeeps ==
  ASSUME SignInInv, NEW p \in Processes, Ends(p), opened' = opened,
         urls' \subseteq Nat \ {0}, SecretKept',
         UNCHANGED <<stored, grants, signIns, signedIn, torn, overrun>>
  PROVE  SignInInv'
<1>1. job' = [job EXCEPT ![p] = NoJob] /\ opened' \in Nat
  BY DEF Ends, SignInInv, SignInShapes
<1>2. OfAccount(NoJob) /\ Current(NoJob)
  BY NoJobType DEF OfAccount, Current
<1>. QED BY <1>1, <1>2, NoJobType, CommandChanges

LEMMA CompleteKeeps ==
  ASSUME SignInInv, NEW p \in Processes, NEW s \in Ceremonies, NEW a \in Accounts,
         CompleteConnect(p, s, a)
  PROVE  SignInInv'
<1> DEFINE x == [NoJob EXCEPT !.pc = "exchange", !.session = s, !.account = a]
<1>1. s # 0
  BY DEF CompleteConnect, SignInInv, SignInShapes
<1>2. x \in Jobs /\ x.pc = "exchange" /\ x.session = s /\ x.account = a
  BY Zeros DEF NoJob, Jobs
<1>3. /\ job' = [job EXCEPT ![p] = x] /\ opened' \in Nat /\ urls' \subseteq Nat \ {0}
      /\ UNCHANGED <<stored, grants, signIns, signedIn, torn, overrun>>
  BY DEF CompleteConnect, historyVars, secretVars, SignInInv, SignInShapes
<1>4. SecretKept'
  BY DEF CompleteConnect, historyVars, secretVars, SecretKept, SignInInv
<1> HIDE DEF x
<1>5. OfAccount(x) /\ Current(x)
  BY <1>1, <1>2 DEF OfAccount, Current
<1>. QED BY <1>2, <1>3, <1>4, <1>5, CommandChanges

\* A renewal sends the refresh token it read, which is of the account that signed in
\* last unless it was overrun.
LEMMA RenewKeeps == ASSUME SignInInv, NEW p \in Processes, Renew(p) PROVE SignInInv'
<1> DEFINE x == [NoJob EXCEPT !.pc = "renew", !.refresh = stored.refresh,
                              !.account = grants[stored.refresh], !.began = signIns]
<1> USE DEF SignInInv, SignInShapes
<1>1. stored.refresh \in 0 .. Len(grants) /\ stored.refresh # 0
      /\ Len(grants) \in 0 .. MaxGrants
  BY DEF Renew, Grants
<1>2. stored.refresh \in 1 .. Len(grants) /\ stored.refresh \in Grants
  BY <1>1, SignInAssumption DEF Grants
<1>3. grants[stored.refresh] \in Accounts
  BY <1>2
<1>4. x \in Jobs
  BY <1>2, <1>3, Zeros DEF NoJob, Jobs
<1>5. /\ x.pc = "renew" /\ x.session = 0 /\ x.began = signIns
      /\ x.refresh = stored.refresh /\ x.account = grants[stored.refresh]
  BY DEF NoJob
<1>6. /\ job' = [job EXCEPT ![p] = x] /\ opened' \in Nat /\ urls' \subseteq Nat \ {0}
      /\ UNCHANGED <<stored, grants, signIns, signedIn, torn, overrun>>
  BY DEF Renew, historyVars, secretVars
<1>7. SecretKept'
  BY DEF Renew, historyVars, secretVars, SecretKept
<1> HIDE DEF x
<1>8. OfAccount(x) /\ Current(x)
  BY <1>2, <1>3, <1>5 DEF OfAccount, Current, Refreshes
<1>. QED BY <1>4, <1>6, <1>7, <1>8, CommandChanges

\* An answer's access token is new and of the command's account, and so is its refresh
\* token, or else it is what the command falls back on.
LEMMA ExchangedKeeps == ASSUME SignInInv, NEW p \in Processes, Exchanged(p) PROVE SignInInv'
<1> USE DEF SignInInv, SignInShapes
<1> DEFINE n == Len(grants) + 1
<1>1. PICK r \in {n, Fallback(p)} :
        job' = [job EXCEPT ![p].pc = "storeAccess", ![p].grant = n, ![p].refresh = r]
  BY DEF Exchanged
<1>2. /\ job[p].pc \in {"exchange", "renew"} /\ n <= MaxGrants
      /\ grants' = Append(grants, job[p].account)
      /\ UNCHANGED <<secretVars, opened, urls, historyVars>>
  BY DEF Exchanged
<1>3. /\ job[p].account \in Accounts
      /\ job[p].pc = "exchange" => job[p].session # 0
      /\ job[p].pc = "renew" => /\ job[p].session = 0
                                /\ job[p].refresh \in 1 .. Len(grants)
                                /\ grants[job[p].refresh] = job[p].account
  BY <1>2 DEF JobsKept, OfAccount
<1>4. Len(grants) \in Nat /\ grants' \in Seq(Accounts) /\ Len(grants') = n
  BY <1>2, <1>3
<1>5. grants'[n] = job[p].account /\ \A i \in 1 .. Len(grants) : grants'[i] = grants[i]
  BY <1>2, <1>3
<1>6. n \in Grants /\ n \in 1 .. n
  BY <1>2, <1>4, SignInAssumption DEF Grants
<1>7. r \in Grants /\ (r # 0 => r \in 1 .. n /\ grants'[r] = job[p].account)
  <2>1. CASE r = n
    BY <2>1, <1>5, <1>6
  <2>2. CASE r = Fallback(p) /\ job[p].pc = "exchange"
    BY <2>2, <1>3, Zeros DEF Fallback
  <2>3. CASE r = Fallback(p) /\ job[p].pc = "renew"
    <3>1. r = job[p].refresh /\ r \in 1 .. Len(grants)
      BY <2>3, <1>3 DEF Fallback
    <3>2. r \in Grants /\ r \in 1 .. n
      BY <3>1, <1>2, <1>4, SignInAssumption DEF Grants
    <3>. QED BY <3>1, <3>2, <2>3, <1>3, <1>5
  <2>. QED BY <1>1, <1>2, <2>1, <2>2, <2>3
<1> HIDE DEF n
<1>8. /\ job'[p] \in Jobs
      /\ job'[p].pc = "storeAccess" /\ job'[p].grant = n /\ job'[p].refresh = r
      /\ job'[p].session = job[p].session /\ job'[p].account = job[p].account
      /\ job'[p].began = job[p].began
  <2>1. job'[p] = [job[p] EXCEPT !.pc = "storeAccess", !.grant = n, !.refresh = r]
    BY <1>1
  <2>2. job[p] \in Jobs
    OBVIOUS
  <2>. QED BY <2>1, <2>2, <1>6, <1>7, ZenonT(60) DEF Jobs
<1>9. job' \in [Processes -> Jobs] /\ \A q \in Processes \ {p} : job'[q] = job[q]
  BY <1>1, <1>8
<1>10. stored' = stored /\ signIns' = signIns /\ signedIn' = signedIn /\ overrun' = overrun
       /\ torn' = torn /\ opened' = opened /\ urls' = urls
  BY <1>2 DEF secretVars, historyVars
<1>11. Len(grants) \in 0 .. n /\ n \in Nat
  BY <1>4 DEF n
<1>12. SignInShapes'
  BY <1>4, <1>6, <1>9, <1>10, <1>11
<1>13. OfAccount(job[p])'
  BY <1>3, <1>4, <1>5, <1>6, <1>7, <1>8 DEF OfAccount
<1>14. Current(job[p])'
  BY <1>2, <1>3, <1>8, <1>10 DEF Current, JobsKept
<1>15. ASSUME NEW q \in Processes \ {p} PROVE OfAccount(job[q])' /\ Current(job[q])'
  <2>1. 1 .. Len(grants) \subseteq 1 .. n
    BY <1>11
  <2>2. OfAccount(job[q]) /\ Current(job[q])
    BY DEF JobsKept
  <2>3. OfAccount(job[q])'
    BY <2>1, <2>2, <1>4, <1>5, <1>9 DEF OfAccount
  <2>. QED BY <2>2, <2>3, <1>9, <1>10 DEF Current
<1>16. Refreshes' /\ Accesses'
  <2>1. \A i \in 0 .. Len(grants) : i # 0 => i \in 1 .. Len(grants)
    BY <1>4
  <2>. QED BY <2>1, <1>5, <1>10 DEF Refreshes, Accesses
<1>17. SecretKept'
  BY <1>2 DEF SecretKept, secretVars, historyVars
<1>. QED BY <1>12, <1>13, <1>14, <1>15, <1>16, <1>17 DEF JobsKept

\* Storing the access token tears the two apart, until the refresh token follows.
LEMMA AccessKeeps == ASSUME SignInInv, NEW p \in Processes, StoreAccess(p) PROVE SignInInv'
<1> USE DEF SignInInv, SignInShapes
<1>1. /\ job[p].pc = "storeAccess"
      /\ stored' = [stored EXCEPT !.access = job[p].grant]
      /\ torn' = TRUE /\ overrun' = (overrun \/ Overruns(p))
      /\ job' = [job EXCEPT ![p].pc = "storeRefresh"]
      /\ UNCHANGED <<memory, pending, opened, urls, grants, latest, finished, signIns, signedIn>>
  BY DEF StoreAccess
<1>2. OfAccount(job[p]) /\ Current(job[p]) /\ job[p].grant \in 1 .. Len(grants)
  BY <1>1 DEF JobsKept, OfAccount
<1>3. /\ job'[p] \in Jobs /\ job'[p].pc = "storeRefresh"
      /\ job'[p].grant = job[p].grant /\ job'[p].refresh = job[p].refresh
      /\ job'[p].session = job[p].session /\ job'[p].account = job[p].account
      /\ job'[p].began = job[p].began
  BY <1>1 DEF Jobs
<1>4. job' \in [Processes -> Jobs] /\ \A q \in Processes \ {p} : job'[q] = job[q]
  BY <1>1, <1>3
<1>5. SignInShapes'
  BY <1>1, <1>2, <1>4
<1>6. OfAccount(job[p])' /\ Current(job[p])'
  BY <1>1, <1>2, <1>3 DEF OfAccount, Current
<1>7. \A q \in Processes \ {p} : OfAccount(job[q])' /\ Current(job[q])'
  BY <1>1, <1>4 DEF JobsKept, OfAccount, Current
<1>. QED
  BY <1>1, <1>5, <1>6, <1>7 DEF JobsKept, SecretKept, Refreshes, Accesses

\* The refresh token of a renewal that was not overtaken, or of a sign-in, is of the
\* account that has signed in last by then; if the access token is still the
\* command's own, it is too.
LEMMA RefreshKeeps == ASSUME SignInInv, NEW p \in Processes, StoreRefresh(p) PROVE SignInInv'
<1> USE DEF SignInInv, SignInShapes
<1>1. /\ job[p].pc = "storeRefresh"
      /\ stored' = [stored EXCEPT !.refresh = job[p].refresh]
      /\ torn' = (stored.access # job[p].grant)
      /\ UNCHANGED <<memory, pending, opened, urls, grants, latest, finished>>
  BY DEF StoreRefresh
<1>2. /\ OfAccount(job[p]) /\ Current(job[p]) /\ job[p].account \in Accounts
      /\ grants[job[p].grant] = job[p].account
      /\ job[p].refresh \in 0 .. Len(grants)
      /\ job[p].refresh # 0 => grants[job[p].refresh] = job[p].account
  BY <1>1, Zeros DEF JobsKept, OfAccount
<1>3. stored' \in [access : 0 .. Len(grants'), refresh : 0 .. Len(grants')]
  BY <1>1, <1>2
<1>4. stored'.access = stored.access /\ stored'.refresh = job[p].refresh
  BY <1>1
<1>5. CASE job[p].session = 0
  <2>1. /\ overrun' = (overrun \/ Overruns(p)) /\ Ends(p)
        /\ signIns' = signIns /\ signedIn' = signedIn
    BY <1>5 DEF StoreRefresh
  <2>2. ~overrun' => ~overrun /\ job[p].account = signedIn
    BY <2>1, <1>1, <1>2, <1>5 DEF Overruns, Current
  <2>3. Refreshes' /\ Accesses'
    BY <2>1, <2>2, <1>1, <1>2, <1>4 DEF Refreshes, Accesses
  <2>4. job' = [job EXCEPT ![p] = NoJob]
    BY <2>1 DEF Ends
  <2>5. job' \in [Processes -> Jobs]
    BY <2>4, NoJobType
  <2>6. JobsKept'
    BY <2>1, <2>4, <2>5, <1>1, NoJobType DEF JobsKept, OfAccount, Current
  <2>. QED BY <2>1, <2>3, <2>5, <2>6, <1>1, <1>3 DEF SecretKept
<1>6. CASE job[p].session # 0
  <2>1. /\ signIns' = signIns + 1 /\ signedIn' = job[p].account /\ overrun' = FALSE
        /\ job' = [job EXCEPT ![p].pc = "clearPending"]
    BY <1>6 DEF StoreRefresh
  <2>2. Refreshes' /\ Accesses'
    BY <2>1, <1>1, <1>2, <1>4 DEF Refreshes, Accesses
  <2>3. job'[p] \in Jobs /\ job'[p].pc = "clearPending"
    BY <2>1 DEF Jobs
  <2>4. job' \in [Processes -> Jobs] /\ \A q \in Processes \ {p} : job'[q] = job[q]
    BY <2>1, <2>3
  <2>5. JobsKept'
    BY <2>1, <2>3, <2>4, <1>1 DEF JobsKept, OfAccount, Current
  <2>. QED BY <2>1, <2>2, <2>4, <2>5, <1>1, <1>3 DEF SecretKept
<1>. QED BY <1>5, <1>6

LEMMA NextSignInInv == SignInInv /\ [SignInNext]_signInVars => SignInInv'
<1> SUFFICES ASSUME SignInInv, [SignInNext]_signInVars PROVE SignInInv'
  OBVIOUS
<1>1. CASE UNCHANGED signInVars
  BY <1>1 DEF signInVars, SignInInv, SignInShapes, SecretKept, JobsKept, OfAccount, Current,
              Refreshes, Accesses
<1>2. ASSUME NEW p \in Processes, SavePending(p) PROVE SignInInv'
  <2>1. job[p].session # 0 /\ job[p].session \in Nat
    BY <1>2, SignInAssumption
    DEF SavePending, SignInInv, SignInShapes, JobsKept, OfAccount, Jobs, Ceremonies
  <2>. QED BY <2>1, <1>2, JobEndKeeps DEF SavePending, SignInInv, SignInShapes, SecretKept
<1>3. ASSUME NEW p \in Processes, ExchangeFails(p) \/ Exits(p) PROVE SignInInv'
  BY <1>3, JobEndKeeps
  DEF ExchangeFails, Exits, secretVars, historyVars, SignInInv, SignInShapes, SecretKept
<1>4. ASSUME NEW p \in Processes, ClearPending(p) PROVE SignInInv'
  BY <1>4, JobEndKeeps DEF ClearPending, SignInInv, SignInShapes, SecretKept
<1>. QED
  BY <1>1, <1>2, <1>3, <1>4, StartKeeps, CompleteKeeps, ExchangedKeeps, AccessKeeps,
     RefreshKeeps, RenewKeeps DEF SignInNext

LEMMA SignInInvariant == SignInSpec => []SignInInv
  BY InitSignInInv, NextSignInInv, PTL DEF SignInSpec
-----------------------------------------------------------------------------
\* Until a sign-in finishes, any process that does not remember another ceremony takes
\* the code of the last `connect`, whatever failed or died (complete_connect,
\* _load_pending).
THEOREM LastCeremonyStands == SignInSpec => []LastCeremonyCompletes
<1>1. SignInInv => LastCeremonyCompletes
  BY DEF SignInInv, SecretKept, LastCeremonyCompletes, LoadPending
<1>. QED BY <1>1, SignInInvariant, PTL

\* The Clerk tokens in the secrets are those of the account that signed in last, unless
\* a death or a race left them torn or a renewal overran the sign-in (_store_tokens).
THEOREM TokensOfLastSignIn == SignInSpec => []StoredAccount
<1>1. SignInInv => StoredAccount
  BY DEF SignInInv, Refreshes, Accesses, StoredAccount
<1>. QED BY <1>1, SignInInvariant, PTL
-----------------------------------------------------------------------------
\* The sign-ins' other variables: no ceremony is named that did not begin.
Opened(x) == x.session \in 0 .. opened

SignInTypes ==
  /\ opened \in Ceremonies
  /\ memory \in [Processes -> 0 .. opened]
  /\ pending \in 0 .. opened /\ latest \in 0 .. opened
  /\ urls \subseteq 1 .. opened
  /\ \A p \in Processes : Opened(job[p])
  /\ signedIn \in Accounts \cup {Nobody}
  /\ finished \in BOOLEAN /\ torn \in BOOLEAN /\ overrun \in BOOLEAN

LEMMA SignInTypesStart == SignInInit => SignInTypes
<1> SUFFICES ASSUME SignInInit PROVE SignInTypes
  OBVIOUS
<1>1. 0 \in 0 .. opened /\ opened \in Ceremonies
  BY Zeros DEF SignInInit
<1>2. \A p \in Processes : job[p].session = 0
  BY DEF SignInInit, NoJob
<1>. QED BY <1>1, <1>2 DEF SignInInit, SignInTypes, Opened

LEMMA SignInTypesKept ==
  SignInInv /\ SignInTypes /\ [SignInNext]_signInVars => SignInTypes'
<1> SUFFICES ASSUME SignInInv, SignInTypes, [SignInNext]_signInVars PROVE SignInTypes'
  OBVIOUS
<1>1. opened \in Nat /\ opened <= MaxCeremonies /\ MaxCeremonies \in Nat /\ 0 \in 0 .. opened
  BY SignInAssumption DEF SignInTypes, Ceremonies
<1>2. job \in [Processes -> Jobs]
  BY DEF SignInInv, SignInShapes
<1>3. NoJob.session = 0
  BY DEF NoJob
<1>4. CASE UNCHANGED signInVars
  BY <1>4 DEF signInVars, SignInTypes, Opened
<1>5. ASSUME NEW p \in Processes, StartConnect(p) PROVE SignInTypes'
  <2> DEFINE x == [NoJob EXCEPT !.pc = "savePending", !.session = opened + 1]
  <2>1. /\ opened < MaxCeremonies /\ opened' = opened + 1
        /\ memory' = [memory EXCEPT ![p] = opened + 1] /\ job' = [job EXCEPT ![p] = x]
        /\ UNCHANGED <<pending, urls, latest, finished, signedIn, torn, overrun>>
    BY <1>5 DEF StartConnect, historyVars
  <2>2. x.session = opened + 1
    BY DEF NoJob
  <2> HIDE DEF x
  <2>3. opened' \in Ceremonies /\ opened' \in 0 .. opened' /\ 0 .. opened \subseteq 0 .. opened'
        /\ 1 .. opened \subseteq 1 .. opened'
    BY <1>1, <2>1 DEF Ceremonies
  <2>4. memory' \in [Processes -> 0 .. opened']
    BY <2>1, <2>3 DEF SignInTypes
  <2>5. \A q \in Processes : job'[q].session \in 0 .. opened'
    BY <1>2, <2>1, <2>2, <2>3 DEF SignInTypes, Opened
  <2>. QED BY <2>1, <2>3, <2>4, <2>5 DEF SignInTypes, Opened
<1>6. ASSUME NEW p \in Processes, SavePending(p) PROVE SignInTypes'
  <2>1. /\ job[p].pc = "savePending" /\ pending' = job[p].session /\ latest' = job[p].session
        /\ finished' = FALSE /\ urls' = urls \cup {job[p].session}
        /\ job' = [job EXCEPT ![p] = NoJob]
        /\ UNCHANGED <<memory, opened, signedIn, torn, overrun>>
    BY <1>6 DEF SavePending, Ends
  <2>2. job[p].session \in 0 .. opened /\ job[p].session # 0
    BY <2>1 DEF SignInInv, JobsKept, OfAccount, SignInTypes, Opened
  <2>3. job[p].session \in 1 .. opened
    BY <1>1, <2>2
  <2>. QED BY <1>1, <1>2, <1>3, <2>1, <2>2, <2>3 DEF SignInTypes, Opened
<1>7. ASSUME NEW p \in Processes, NEW s \in Ceremonies, NEW a \in Accounts,
             CompleteConnect(p, s, a)
      PROVE  SignInTypes'
  <2> DEFINE x == [NoJob EXCEPT !.pc = "exchange", !.session = s, !.account = a]
  <2>1. /\ s \in urls /\ job' = [job EXCEPT ![p] = x]
        /\ UNCHANGED <<memory, pending, opened, urls, latest, finished, signedIn, torn, overrun>>
    BY <1>7 DEF CompleteConnect, secretVars, historyVars
  <2>2. x.session = s /\ s \in 0 .. opened
    <3>1. s \in 1 .. opened
      BY <2>1 DEF SignInTypes
    <3>. QED BY <1>1, <3>1 DEF NoJob
  <2> HIDE DEF x
  <2>. QED BY <1>2, <2>1, <2>2 DEF SignInTypes, Opened
<1>8. ASSUME NEW p \in Processes, Exchanged(p) PROVE SignInTypes'
  <2> DEFINE n == Len(grants) + 1
  <2>1. PICK r \in {n, Fallback(p)} :
          job' = [job EXCEPT ![p].pc = "storeAccess", ![p].grant = n, ![p].refresh = r]
    BY <1>8 DEF Exchanged
  <2>2. UNCHANGED <<memory, pending, opened, urls, latest, finished, signedIn, torn, overrun>>
    BY <1>8 DEF Exchanged, secretVars, historyVars
  <2>3. \A q \in Processes : job'[q].session = job[q].session
    BY <1>2, <2>1 DEF Jobs
  <2>. QED BY <2>2, <2>3 DEF SignInTypes, Opened
<1>9. ASSUME NEW p \in Processes, ExchangeFails(p) PROVE SignInTypes'
  <2>1. /\ job' = [job EXCEPT ![p] = NoJob]
        /\ UNCHANGED <<memory, pending, opened, urls, latest, finished, signedIn, torn, overrun>>
    BY <1>9 DEF ExchangeFails, Ends, secretVars, historyVars
  <2>. QED BY <1>1, <1>2, <1>3, <2>1 DEF SignInTypes, Opened
<1>10. ASSUME NEW p \in Processes, StoreAccess(p) PROVE SignInTypes'
  <2>1. /\ job' = [job EXCEPT ![p].pc = "storeRefresh"] /\ torn' = TRUE
        /\ overrun' = (overrun \/ Overruns(p))
        /\ UNCHANGED <<memory, pending, opened, urls, latest, finished, signedIn>>
    BY <1>10 DEF StoreAccess
  <2>2. \A q \in Processes : job'[q].session = job[q].session
    BY <1>2, <2>1 DEF Jobs
  <2>3. overrun' \in BOOLEAN
    BY <2>1 DEF Overruns, SignInTypes
  <2>. QED BY <2>1, <2>2, <2>3 DEF SignInTypes, Opened
<1>11. ASSUME NEW p \in Processes, StoreRefresh(p) PROVE SignInTypes'
  <2>1. /\ job[p].pc = "storeRefresh" /\ torn' = (stored.access # job[p].grant)
        /\ UNCHANGED <<memory, pending, opened, urls, latest, finished>>
    BY <1>11 DEF StoreRefresh
  <2>2. torn' \in BOOLEAN
    BY <2>1
  <2>3. CASE job[p].session = 0
    <3>1. overrun' = (overrun \/ Overruns(p)) /\ signedIn' = signedIn
          /\ job' = [job EXCEPT ![p] = NoJob]
      BY <1>11, <2>3 DEF StoreRefresh, Ends
    <3>2. overrun' \in BOOLEAN
      BY <3>1 DEF Overruns, SignInTypes
    <3>. QED BY <1>1, <1>2, <1>3, <2>1, <2>2, <3>1, <3>2 DEF SignInTypes, Opened
  <2>4. CASE job[p].session # 0
    <3>1. overrun' = FALSE /\ signedIn' = job[p].account
          /\ job' = [job EXCEPT ![p].pc = "clearPending"]
      BY <1>11, <2>4 DEF StoreRefresh
    <3>2. job[p].account \in Accounts
      BY <2>1 DEF SignInInv, JobsKept, OfAccount
    <3>3. \A q \in Processes : job'[q].session = job[q].session
      BY <1>2, <3>1 DEF Jobs
    <3>. QED BY <2>1, <2>2, <3>1, <3>2, <3>3 DEF SignInTypes, Opened
  <2>. QED BY <2>3, <2>4
<1>12. ASSUME NEW p \in Processes, ClearPending(p) PROVE SignInTypes'
  <2>1. /\ job' = [job EXCEPT ![p] = NoJob] /\ memory' = [memory EXCEPT ![p] = 0]
        /\ pending' = 0 /\ finished' = TRUE
        /\ UNCHANGED <<opened, urls, latest, signedIn, torn, overrun>>
    BY <1>12 DEF ClearPending, Ends
  <2>. QED BY <1>1, <1>2, <1>3, <2>1 DEF SignInTypes, Opened
<1>13. ASSUME NEW p \in Processes, Renew(p) PROVE SignInTypes'
  <2> DEFINE x == [NoJob EXCEPT !.pc = "renew", !.refresh = stored.refresh,
                                !.account = grants[stored.refresh], !.began = signIns]
  <2>1. /\ job' = [job EXCEPT ![p] = x]
        /\ UNCHANGED <<memory, pending, opened, urls, latest, finished, signedIn, torn, overrun>>
    BY <1>13 DEF Renew, secretVars, historyVars
  <2>2. x.session = 0
    BY DEF NoJob
  <2> HIDE DEF x
  <2>. QED BY <1>1, <1>2, <2>1, <2>2 DEF SignInTypes, Opened
<1>14. ASSUME NEW p \in Processes, Exits(p) PROVE SignInTypes'
  <2>1. /\ job' = [job EXCEPT ![p] = NoJob] /\ memory' = [memory EXCEPT ![p] = 0]
        /\ UNCHANGED <<pending, opened, urls, latest, finished, signedIn, torn, overrun>>
    BY <1>14 DEF Exits, Ends, historyVars
  <2>. QED BY <1>1, <1>2, <1>3, <2>1 DEF SignInTypes, Opened
<1>. QED BY <1>4, <1>5, <1>6, <1>7, <1>8, <1>9, <1>10, <1>11, <1>12, <1>13, <1>14 DEF SignInNext

\* No secret, memory or command names a ceremony that was never begun, and no token is
\* kept that Clerk did not grant.
THEOREM SignInTyped == SignInSpec => []SignInTypeOK
<1>1. SignInInv /\ SignInTypes => SignInTypeOK
  <2> SUFFICES ASSUME SignInInv, SignInTypes PROVE SignInTypeOK
    OBVIOUS
  <2>1. Len(grants) <= MaxGrants
    BY SignInAssumption DEF SignInInv, SignInShapes, Grants
  <2>. QED BY <2>1 DEF SignInInv, SignInShapes, SignInTypes, SignInTypeOK
<1>2. SignInSpec => []SignInTypes
  BY SignInInvariant, SignInTypesStart, SignInTypesKept, PTL DEF SignInSpec
<1>. QED BY <1>1, <1>2, SignInInvariant, PTL

-----------------------------------------------------------------------------
(* ProofKey *)

Bounds == [relay : Nat, credential : Nat, token : Nat]

WorkRecords == [pc : {"idle", "refused", "load", "create", "grant", "exchange"} \cup Uses,
          use : Uses, probe : BOOLEAN, settled : BOOLEAN, held : [Uses -> Nat],
          bound : Bounds]

Caches == relayKey \in Nat /\ envKeys \in [token : Nat, credential : Nat]

KeyShapes ==
  /\ key \in Nat /\ generated \in Nat /\ replaced \in BOOLEAN
  /\ Caches
  /\ work \in [Workers -> WorkRecords]

\* The step a call is at or loads the key for.
At(x) == IF x.pc \in {"load", "create"} THEN x.use ELSE x.pc

\* The keys that a step compares were loaded, or bound to a token, before it.
Loaded(x) ==
  /\ x.pc \in Uses => x.held[x.pc] # 0
  /\ At(x) \in {"connect", "grant", "exchange"} \/ (At(x) = "relay" /\ ~x.probe) =>
       x.held["ensure"] # 0
  /\ At(x) = "grant" \/ (At(x) = "relay" /\ ~x.probe) => x.held["connect"] # 0
  /\ At(x) \in {"grant", "status"} => x.bound.relay # 0
  /\ At(x) = "exchange" => x.bound.credential # 0
  /\ At(x) = "proof" => x.bound.token # 0
  /\ At(x) \in {"ensure", "connect", "grant", "exchange", "proof"} => ~x.probe
  /\ At(x) = "status" => x.probe

\* A call holds no key but k.
Only(x, k) ==
  /\ \A u \in Uses : x.held[u] \in {0, k}
  /\ x.bound.relay \in {0, k} /\ x.bound.credential \in {0, k} /\ x.bound.token \in {0, k}

\* Nobody holds a key but the one in the secrets.
Cached(k) ==
  relayKey \in {0, k} /\ envKeys.token \in {0, k} /\ envKeys.credential \in {0, k}

OneKey ==
  /\ Cached(key)
  /\ \A w \in Workers : Only(work[w], key)

\* Nor does anybody create one.
Quiet == key # 0 /\ \A w \in Workers : work[w].pc # "create"

KeyInv ==
  /\ KeyShapes
  /\ \A w \in Workers : Loaded(work[w]) /\ (~Working(w) => Only(work[w], 0))
  /\ ~replaced => OneKey
  /\ (\E w \in Workers : work[w].settled) => OneKey /\ Quiet
  /\ RefusedOnlyByCreation
-----------------------------------------------------------------------------
LEMMA LoadingFacts ==
  ASSUME NEW x \in WorkRecords, NEW u \in Uses
  PROVE  LET y == Loading(x, u)
         IN  /\ y \in WorkRecords /\ y.pc = "load" /\ y.use = u /\ y.probe = x.probe
             /\ y.settled = x.settled /\ y.held = x.held /\ y.bound = x.bound
  BY DEF Loading, WorkRecords

LEMMA BoundFacts ==
  ASSUME NEW x \in WorkRecords, NEW k \in Nat
  PROVE  LET c == [x EXCEPT !.bound.credential = k]
             t == [x EXCEPT !.bound.token = k]
             r == [x EXCEPT !.bound.relay = k]
         IN  /\ c \in WorkRecords /\ c.pc = x.pc /\ c.use = x.use /\ c.probe = x.probe
             /\ c.settled = x.settled /\ c.held = x.held
             /\ c.bound.credential = k /\ c.bound.token = x.bound.token
             /\ c.bound.relay = x.bound.relay
             /\ t \in WorkRecords /\ t.pc = x.pc /\ t.use = x.use /\ t.probe = x.probe
             /\ t.settled = x.settled /\ t.held = x.held
             /\ t.bound.token = k /\ t.bound.credential = x.bound.credential
             /\ t.bound.relay = x.bound.relay
             /\ r \in WorkRecords /\ r.pc = x.pc /\ r.use = x.use /\ r.probe = x.probe
             /\ r.settled = x.settled /\ r.held = x.held
             /\ r.bound.relay = k /\ r.bound.token = x.bound.token
             /\ r.bound.credential = x.bound.credential
  BY DEF WorkRecords, Bounds

LEMMA NoWorkFacts ==
  /\ NoWork \in WorkRecords /\ NoWork.pc = "idle" /\ NoWork.settled = FALSE
  /\ NoWork.probe = FALSE
  /\ \A u \in Uses : NoWork.held[u] = 0
  /\ NoWork.bound.relay = 0 /\ NoWork.bound.credential = 0 /\ NoWork.bound.token = 0
  BY DEF NoWork, WorkRecords, Uses, Bounds

LEMMA NoWorkLoaded == Loaded(NoWork) /\ \A k \in Nat : Only(NoWork, k)
  BY NoWorkFacts DEF Loaded, At, Only, Uses

LEMMA InitKeyInv == ProofKeyInit => KeyInv
<1> SUFFICES ASSUME ProofKeyInit PROVE KeyInv
  OBVIOUS
<1>1. work \in [Workers -> WorkRecords] /\ \A w \in Workers : work[w] = NoWork
  BY NoWorkFacts DEF ProofKeyInit
<1>2. /\ key = 0 /\ generated = 0 /\ relayKey = 0 /\ replaced = FALSE
      /\ envKeys = [token |-> 0, credential |-> 0]
  BY DEF ProofKeyInit
<1>3. KeyShapes
  BY <1>1, <1>2 DEF KeyShapes, Caches
<1>4. OneKey
  BY <1>1, <1>2, NoWorkLoaded DEF OneKey, Cached
<1>5. RefusedOnlyByCreation
  BY <1>1, NoWorkFacts DEF RefusedOnlyByCreation
<1>. QED BY <1>1, <1>3, <1>4, <1>5, NoWorkFacts, NoWorkLoaded DEF KeyInv

\* A step of one call that creates no key.
LEMMA WorkChanges ==
  ASSUME KeyInv, NEW w \in Workers, NEW x \in WorkRecords, work' = [work EXCEPT ![w] = x],
         key' = key, generated' = generated, replaced' = replaced, Caches',
         Loaded(x), x.pc \in {"idle", "refused"} => Only(x, 0),
         OneKey => Only(x, key) /\ Cached(key)',
         x.settled => OneKey /\ Quiet,
         Quiet => x.pc # "create",
         x.pc = "refused" => replaced /\ ~x.settled
  PROVE  KeyInv'
<1> USE DEF KeyInv
<1>1. /\ work \in [Workers -> WorkRecords] /\ work' \in [Workers -> WorkRecords] /\ work'[w] = x
      /\ \A v \in Workers \ {w} : work'[v] = work[v]
  BY DEF KeyShapes
<1>2. KeyShapes'
  BY <1>1 DEF KeyShapes
<1>3. \A v \in Workers : Loaded(work[v])' /\ (~Working(v)' => Only(work[v], 0)')
  BY <1>1 DEF Loaded, At, Only, Working
<1>4. OneKey => OneKey'
  <2> SUFFICES ASSUME OneKey PROVE OneKey'
    OBVIOUS
  <2>1. \A v \in Workers : Only(work'[v], key)
    BY <1>1 DEF OneKey
  <2>. QED BY <2>1 DEF OneKey, Only, Cached
<1>5. Quiet => Quiet'
  BY <1>1 DEF Quiet
<1>6. (\E v \in Workers : work'[v].settled) => OneKey /\ Quiet
  BY <1>1
<1>7. RefusedOnlyByCreation'
  BY <1>1 DEF RefusedOnlyByCreation
<1>. QED BY <1>2, <1>3, <1>4, <1>5, <1>6, <1>7

\* Of a call in KeyInv, what the lemmas about single steps use.
LEMMA WorkFacts ==
  ASSUME KeyInv, NEW w \in Workers
  PROVE  /\ work[w] \in WorkRecords /\ key \in Nat /\ Caches
         /\ Loaded(work[w]) /\ (OneKey => Only(work[w], key) /\ Cached(key))
         /\ work[w].settled => OneKey /\ Quiet
         /\ ~replaced => OneKey
  BY DEF KeyInv, KeyShapes, OneKey

LEMMA LoadKeeps == ASSUME KeyInv, NEW w \in Workers, Load(w) PROVE KeyInv'
<1>1. /\ work[w].pc = "load" /\ key' = key /\ generated' = generated /\ replaced' = replaced
      /\ relayKey' = relayKey /\ envKeys' = envKeys
  BY DEF Load
<1>2. Caches' /\ (OneKey => Cached(key)')
  BY <1>1, WorkFacts DEF Caches, Cached
<1>3. CASE key = 0
  <2> DEFINE x == [work[w] EXCEPT !.pc = "create"]
  <2>1. work' = [work EXCEPT ![w] = x]
    BY <1>3 DEF Load
  <2>2. /\ x \in WorkRecords /\ x.pc = "create" /\ x.use = work[w].use
        /\ x.probe = work[w].probe
        /\ x.settled = work[w].settled /\ x.held = work[w].held /\ x.bound = work[w].bound
    BY WorkFacts DEF WorkRecords
  <2> HIDE DEF x
  <2>3. Loaded(x) /\ (OneKey => Only(x, key))
    BY <2>2, <1>1, WorkFacts DEF Loaded, At, Only, Uses
  <2>4. ~Quiet
    BY <1>3 DEF Quiet
  <2>. QED BY <2>1, <2>2, <2>3, <2>4, <1>1, <1>2, WorkFacts, WorkChanges
<1>4. CASE key # 0
  <2> DEFINE x == Has(work[w], key)
  <2>1. work' = [work EXCEPT ![w] = x]
    BY <1>4 DEF Load
  <2>2. /\ x \in WorkRecords /\ x.pc = work[w].use /\ x.use = work[w].use
        /\ x.probe = work[w].probe
        /\ x.settled = work[w].settled /\ x.bound = work[w].bound
        /\ x.held = [work[w].held EXCEPT ![work[w].use] = key]
    BY WorkFacts DEF WorkRecords, Has
  <2>3. work[w].use \in Uses /\ work[w].held \in [Uses -> Nat]
    BY WorkFacts DEF WorkRecords
  <2> HIDE DEF x
  <2>4. Loaded(x) /\ (OneKey => Only(x, key))
    BY <2>2, <2>3, <1>1, <1>4, WorkFacts DEF Loaded, At, Only, Uses
  <2>5. x.pc \notin {"create", "idle", "refused"}
    BY <2>2, <2>3 DEF Uses
  <2>. QED BY <2>1, <2>2, <2>4, <2>5, <1>1, <1>2, WorkFacts, WorkChanges
<1>. QED BY <1>3, <1>4

\* The key that is stored over another makes replaced true; the first one comes when
\* there was none to hold.
LEMMA CreateKeeps == ASSUME KeyInv, NEW w \in Workers, Create(w) PROVE KeyInv'
<1> DEFINE k == generated + 1
           x == Has(work[w], k)
<1>1. /\ work[w].pc = "create" /\ key' = k /\ generated' = k
      /\ replaced' = (replaced \/ key # 0)
      /\ work' = [work EXCEPT ![w] = x] /\ relayKey' = relayKey /\ envKeys' = envKeys
  BY DEF Create
<1>2. k \in Nat /\ k # 0
  BY DEF KeyInv, KeyShapes
<1>3. work[w].use \in Uses /\ work[w].held \in [Uses -> Nat]
  BY WorkFacts DEF WorkRecords
<1> HIDE DEF k
<1>4. /\ x \in WorkRecords /\ x.pc = work[w].use /\ x.use = work[w].use
      /\ x.probe = work[w].probe
      /\ x.settled = work[w].settled /\ x.bound = work[w].bound
      /\ x.held = [work[w].held EXCEPT ![work[w].use] = k]
  BY <1>2, WorkFacts DEF WorkRecords, Has
<1> HIDE DEF x
<1>5. /\ work \in [Workers -> WorkRecords] /\ work' \in [Workers -> WorkRecords] /\ work'[w] = x
      /\ \A v \in Workers \ {w} : work'[v] = work[v]
  BY <1>1, <1>4 DEF KeyInv, KeyShapes
<1>6. KeyShapes'
  BY <1>1, <1>2, <1>5 DEF KeyInv, KeyShapes, Caches
<1>7. Loaded(x)
  BY <1>1, <1>2, <1>3, <1>4, WorkFacts DEF Loaded, At, Uses
<1>8. x.pc \notin {"create", "idle", "refused"}
  BY <1>3, <1>4 DEF Uses
<1>9. \A v \in Workers : Loaded(work[v])' /\ (~Working(v)' => Only(work[v], 0)')
  BY <1>5, <1>7, <1>8 DEF KeyInv, Loaded, At, Only, Working
<1>10. \A v \in Workers : ~work'[v].settled
  BY <1>1, <1>4, <1>5 DEF KeyInv, Quiet
<1>11. ~replaced' => OneKey'
  <2> SUFFICES ASSUME ~replaced' PROVE OneKey'
    OBVIOUS
  <2>1. key = 0 /\ OneKey
    BY <1>1 DEF KeyInv, KeyShapes
  <2>2. Cached(key)'
    BY <2>1, <1>1 DEF OneKey, Cached
  <2>3. Only(x, k)
    BY <2>1, <1>3, <1>4 DEF OneKey, Only
  <2>4. \A v \in Workers \ {w} : Only(work[v], k)
    BY <2>1 DEF OneKey, Only
  <2>. QED BY <2>2, <2>3, <2>4, <1>1, <1>5 DEF OneKey, Only
<1>12. RefusedOnlyByCreation'
  BY <1>1, <1>5, <1>8, <1>10 DEF KeyInv, RefusedOnlyByCreation
<1>. QED BY <1>6, <1>9, <1>10, <1>11, <1>12 DEF KeyInv

\* A call begins with the keys in its hands put down, and is settled only if one key
\* is in play.
LEMMA BegunFacts ==
  ASSUME KeyInv, NEW w \in Workers
  PROVE  /\ Begun \in WorkRecords /\ Begun.pc = "idle" /\ Begun.probe = FALSE
         /\ \A u \in Uses : Begun.held[u] = 0
         /\ Begun.bound.relay = 0 /\ Begun.bound.credential = 0 /\ Begun.bound.token = 0
         /\ Begun.settled => OneKey /\ Quiet
<1>1. Settled \in BOOLEAN
  BY DEF Settled
<1>2. /\ Begun.held = NoWork.held /\ Begun.bound = NoWork.bound /\ Begun.pc = NoWork.pc
      /\ Begun.probe = NoWork.probe
  BY DEF Begun, NoWork
<1>3. Begun \in WorkRecords
  BY <1>1, NoWorkFacts DEF Begun, WorkRecords
<1>4. Begun.settled = Settled
  BY DEF Begun, NoWork
<1>5. Settled => OneKey
  <2> SUFFICES ASSUME Settled PROVE OneKey
    OBVIOUS
  <2>1. Cached(key)
    BY DEF Settled, InPlay, Cached
  <2>2. ASSUME NEW v \in Workers, Working(v) PROVE Only(work[v], key)
    <3>1. {work[v].held[u] : u \in Uses} \subseteq InPlay
      BY <2>2 DEF InPlay
    <3>2. {work[v].bound.relay, work[v].bound.credential, work[v].bound.token} \subseteq InPlay
      BY <2>2 DEF InPlay
    <3>. QED BY <3>1, <3>2 DEF Settled, Only
  <2>3. ASSUME NEW v \in Workers, ~Working(v) PROVE Only(work[v], key)
    BY <2>3 DEF KeyInv, Only
  <2>. QED BY <2>1, <2>2, <2>3 DEF OneKey
<1>6. Settled => Quiet
  BY DEF Settled, Quiet
<1>. QED BY <1>2, <1>3, <1>4, <1>5, <1>6, NoWorkFacts

\* A call goes on to load the key for its next step.
LEMMA LoadingKeeps ==
  ASSUME KeyInv, NEW w \in Workers, NEW y \in WorkRecords, NEW u \in Uses,
         work' = [work EXCEPT ![w] = Loading(y, u)],
         key' = key, generated' = generated, replaced' = replaced, Caches',
         Loaded(Loading(y, u)),
         OneKey => Only(y, key) /\ Cached(key)',
         y.settled => OneKey /\ Quiet
  PROVE  KeyInv'
<1> DEFINE x == Loading(y, u)
<1>1. /\ x \in WorkRecords /\ x.pc = "load" /\ x.settled = y.settled /\ x.held = y.held
      /\ x.bound = y.bound
  BY LoadingFacts
<1> HIDE DEF x
<1>2. OneKey => Only(x, key)
  BY <1>1 DEF Only
<1>3. work' = [work EXCEPT ![w] = x] /\ Loaded(x)
  BY DEF x
<1>. QED BY <1>1, <1>2, <1>3, WorkChanges

\* A call is answered.
LEMMA WorkEndKeeps ==
  ASSUME KeyInv, NEW w \in Workers, work' = [work EXCEPT ![w] = NoWork],
         UNCHANGED <<key, generated, relayKey, envKeys, replaced>>
  PROVE  KeyInv'
<1>1. Caches' /\ (OneKey => Cached(key)')
  BY WorkFacts DEF Caches, Cached
<1>2. key \in Nat
  BY WorkFacts
<1>. QED BY <1>1, <1>2, NoWorkFacts, NoWorkLoaded, WorkChanges

\* A call is refused: it held two keys.
LEMMA RefuseKeeps ==
  ASSUME KeyInv, NEW w \in Workers, Refuse(w), ~OneKey,
         UNCHANGED <<key, generated, relayKey, envKeys, replaced>>
  PROVE  KeyInv'
<1> DEFINE x == [NoWork EXCEPT !.pc = "refused", !.settled = work[w].settled]
<1>1. work' = [work EXCEPT ![w] = x]
  BY DEF Refuse
<1>2. work[w].settled \in BOOLEAN
  BY WorkFacts DEF WorkRecords
<1>3. /\ x \in WorkRecords /\ x.pc = "refused" /\ x.settled = work[w].settled
      /\ x.held = NoWork.held /\ x.bound = NoWork.bound /\ x.probe = NoWork.probe
  BY <1>2, NoWorkFacts DEF NoWork, WorkRecords
<1>4. replaced /\ ~work[w].settled
  BY WorkFacts
<1> HIDE DEF x
<1>5. Only(x, 0) /\ Loaded(x)
  BY <1>3, NoWorkFacts DEF Only, Loaded, At, Uses
<1>6. Caches' /\ (OneKey => Cached(key)')
  BY WorkFacts DEF Caches, Cached
<1>. QED BY <1>1, <1>3, <1>4, <1>5, <1>6, WorkChanges

LEMMA RequestKeeps == ASSUME KeyInv, NEW w \in Workers, Request(w) PROVE KeyInv'
<1> DEFINE t == [Begun EXCEPT !.bound.token = envKeys.token]
           c == [Begun EXCEPT !.bound.credential = envKeys.credential]
<1>1. UNCHANGED <<key, generated, relayKey, envKeys, replaced>>
  BY DEF Request
<1>2. Caches' /\ (OneKey => Cached(key)') /\ envKeys.token \in Nat /\ envKeys.credential \in Nat
  BY <1>1, WorkFacts DEF Caches, Cached
<1>3. /\ Begun \in WorkRecords /\ Begun.pc = "idle" /\ Begun.probe = FALSE
      /\ \A u \in Uses : Begun.held[u] = 0
      /\ Begun.bound.relay = 0 /\ Begun.bound.credential = 0 /\ Begun.bound.token = 0
      /\ Begun.settled => OneKey /\ Quiet
  BY BegunFacts
<1>4. /\ t \in WorkRecords /\ t.pc = "idle" /\ t.probe = FALSE /\ t.settled = Begun.settled
      /\ t.held = Begun.held /\ t.bound.token = envKeys.token
      /\ t.bound.credential = 0 /\ t.bound.relay = 0
      /\ c \in WorkRecords /\ c.pc = "idle" /\ c.probe = FALSE /\ c.settled = Begun.settled
      /\ c.held = Begun.held /\ c.bound.credential = envKeys.credential
      /\ c.bound.token = 0 /\ c.bound.relay = 0
  BY <1>2, <1>3, BoundFacts, ZenonT(60)
<1> HIDE DEF t, c
<1>5. OneKey => Only(t, key) /\ Only(c, key)
  BY <1>3, <1>4 DEF OneKey, Cached, Only
<1>6. "proof" \in Uses /\ "ensure" \in Uses
  BY DEF Uses
<1>7. CASE envKeys.token # 0
  <2>1. work' = [work EXCEPT ![w] = Loading(t, "proof")]
    BY <1>7 DEF Request, t
  <2>2. Loaded(Loading(t, "proof"))
    BY <1>4, <1>6, <1>7, LoadingFacts DEF Loaded, At, Uses
  <2>. QED BY <2>1, <2>2, <1>1, <1>2, <1>3, <1>4, <1>5, <1>6, LoadingKeeps
<1>8. CASE envKeys.token = 0
  <2>1. work' = [work EXCEPT ![w] = Loading(c, "ensure")]
    BY <1>8 DEF Request, c
  <2>2. Loaded(Loading(c, "ensure"))
    BY <1>4, <1>6, <1>8, LoadingFacts DEF Loaded, At, Uses
  <2>. QED BY <2>1, <2>2, <1>1, <1>2, <1>3, <1>4, <1>5, <1>6, LoadingKeeps
<1>. QED BY <1>7, <1>8

LEMMA ProbeKeeps == ASSUME KeyInv, NEW w \in Workers, Probe(w) PROVE KeyInv'
<1> DEFINE r == [Begun EXCEPT !.bound.relay = relayKey, !.probe = TRUE]
           n == [Begun EXCEPT !.probe = TRUE]
<1>1. UNCHANGED <<key, generated, relayKey, envKeys, replaced>>
  BY DEF Probe
<1>2. Caches' /\ (OneKey => Cached(key)') /\ relayKey \in Nat
  BY <1>1, WorkFacts DEF Caches, Cached
<1>3. /\ Begun \in WorkRecords /\ Begun.pc = "idle"
      /\ \A u \in Uses : Begun.held[u] = 0
      /\ Begun.bound.relay = 0 /\ Begun.bound.credential = 0 /\ Begun.bound.token = 0
      /\ Begun.settled => OneKey /\ Quiet
  BY BegunFacts
<1>4. /\ r \in WorkRecords /\ r.pc = "idle" /\ r.probe = TRUE /\ r.settled = Begun.settled
      /\ r.held = Begun.held /\ r.bound.relay = relayKey
      /\ r.bound.credential = 0 /\ r.bound.token = 0
  BY <1>2, <1>3 DEF WorkRecords, Bounds
<1>5. /\ n \in WorkRecords /\ n.pc = "idle" /\ n.probe = TRUE /\ n.settled = Begun.settled
      /\ n.held = Begun.held /\ n.bound = Begun.bound
  BY <1>3 DEF WorkRecords
<1> HIDE DEF r, n
<1>6. OneKey => Only(r, key) /\ Only(n, key)
  BY <1>3, <1>4, <1>5 DEF OneKey, Cached, Only
<1>7. "status" \in Uses /\ "relay" \in Uses
  BY DEF Uses
<1>8. CASE relayKey # 0
  <2>1. work' = [work EXCEPT ![w] = Loading(r, "status")]
    BY <1>8 DEF Probe, r
  <2>2. Loaded(Loading(r, "status"))
    BY <1>4, <1>7, <1>8, LoadingFacts DEF Loaded, At, Uses
  <2>. QED BY <2>1, <2>2, <1>1, <1>2, <1>3, <1>4, <1>6, <1>7, LoadingKeeps
<1>9. CASE relayKey = 0
  <2>1. work' = [work EXCEPT ![w] = Loading(n, "relay")]
    BY <1>9 DEF Probe, n
  <2>2. Loaded(Loading(n, "relay"))
    BY <1>5, <1>7, <1>9, LoadingFacts DEF Loaded, At, Uses
  <2>. QED BY <2>1, <2>2, <1>1, <1>2, <1>3, <1>5, <1>6, <1>7, LoadingKeeps
<1>. QED BY <1>8, <1>9

\* A step that keeps what a call holds and moves it on.
LEMMA MoveFacts ==
  ASSUME NEW x \in WorkRecords, NEW pc \in {"grant", "exchange"}
  PROVE  LET y == [x EXCEPT !.pc = pc]
         IN  /\ y \in WorkRecords /\ y.pc = pc /\ y.use = x.use /\ y.probe = x.probe
             /\ y.settled = x.settled /\ y.held = x.held /\ y.bound = x.bound
  BY DEF WorkRecords

LEMMA MoveKeeps ==
  ASSUME KeyInv, NEW w \in Workers, NEW y \in WorkRecords, NEW pc \in {"grant", "exchange"},
         work' = [work EXCEPT ![w] = [y EXCEPT !.pc = pc]],
         key' = key, generated' = generated, replaced' = replaced, Caches',
         Loaded([y EXCEPT !.pc = pc]),
         OneKey => Only(y, key) /\ Cached(key)',
         y.settled => OneKey /\ Quiet
  PROVE  KeyInv'
<1> DEFINE x == [y EXCEPT !.pc = pc]
<1>1. x \in WorkRecords /\ x.pc = pc /\ x.settled = y.settled /\ x.held = y.held
      /\ x.bound = y.bound
  BY MoveFacts
<1> HIDE DEF x
<1>2. OneKey => Only(x, key)
  BY <1>1 DEF Only
<1>3. work' = [work EXCEPT ![w] = x] /\ Loaded(x)
  BY DEF x
<1>. QED BY <1>1, <1>2, <1>3, WorkChanges

LEMMA EnsureKeeps == ASSUME KeyInv, NEW w \in Workers, Ensure(w) PROVE KeyInv'
<1>1. work[w].pc = "ensure" /\ UNCHANGED <<key, generated, relayKey, envKeys, replaced>>
  BY DEF Ensure
<1>2. Caches' /\ (OneKey => Cached(key)') /\ work[w] \in WorkRecords
      /\ work \in [Workers -> WorkRecords]
  BY <1>1, WorkFacts DEF Caches, Cached, KeyInv, KeyShapes
<1>3. /\ work[w].held["ensure"] # 0 /\ ~work[w].probe
      /\ "connect" \in Uses
  BY <1>1, WorkFacts DEF Loaded, At, Uses
<1>4. CASE work[w].bound.credential # 0
  <2>1. work' = [work EXCEPT ![w] = [work[w] EXCEPT !.pc = "exchange"]]
    BY <1>2, <1>4 DEF Ensure
  <2>2. Loaded([work[w] EXCEPT !.pc = "exchange"])
    BY <1>2, <1>3, <1>4, MoveFacts DEF Loaded, At, Uses
  <2>. QED BY <2>1, <2>2, <1>1, <1>2, WorkFacts, MoveKeeps
<1>5. CASE work[w].bound.credential = 0
  <2>1. work' = [work EXCEPT ![w] = Loading(work[w], "connect")]
    BY <1>2, <1>5 DEF Ensure
  <2>2. Loaded(Loading(work[w], "connect"))
    BY <1>2, <1>3, LoadingFacts DEF Loaded, At, Uses
  <2>. QED BY <2>1, <2>2, <1>1, <1>2, <1>3, WorkFacts, LoadingKeeps
<1>. QED BY <1>4, <1>5

LEMMA AskRelayKeeps == ASSUME KeyInv, NEW w \in Workers, AskRelay(w) PROVE KeyInv'
<1> DEFINE r == [work[w] EXCEPT !.bound.relay = relayKey]
<1>1. work[w].pc = "connect" /\ UNCHANGED <<key, generated, relayKey, envKeys, replaced>>
  BY DEF AskRelay
<1>2. /\ Caches' /\ (OneKey => Cached(key)') /\ relayKey \in Nat
      /\ work[w] \in WorkRecords /\ work \in [Workers -> WorkRecords]
  BY <1>1, WorkFacts DEF Caches, Cached, KeyInv, KeyShapes
<1>3. /\ work[w].held["ensure"] # 0 /\ work[w].held["connect"] # 0 /\ ~work[w].probe
      /\ "relay" \in Uses
  BY <1>1, WorkFacts DEF Loaded, At, Uses
<1>4. CASE relayKey # 0
  <2>1. work' = [work EXCEPT ![w] = [r EXCEPT !.pc = "grant"]]
    <3>1. [work[w] EXCEPT !.pc = "grant", !.bound.relay = relayKey] = [r EXCEPT !.pc = "grant"]
      BY <1>2 DEF WorkRecords, Bounds
    <3>. QED BY <3>1, <1>2, <1>4 DEF AskRelay
  <2>2. /\ r \in WorkRecords /\ r.probe = work[w].probe /\ r.settled = work[w].settled
        /\ r.held = work[w].held /\ r.bound.relay = relayKey
        /\ r.bound.token = work[w].bound.token /\ r.bound.credential = work[w].bound.credential
    BY <1>2, BoundFacts
  <2> HIDE DEF r
  <2>3. Loaded([r EXCEPT !.pc = "grant"])
    BY <1>3, <1>4, <2>2, MoveFacts DEF Loaded, At, Uses
  <2>4. OneKey => Only(r, key)
    BY <2>2, WorkFacts DEF OneKey, Cached, Only
  <2>. QED BY <2>1, <2>2, <2>3, <2>4, <1>1, <1>2, WorkFacts, MoveKeeps
<1>5. CASE relayKey = 0
  <2>1. work' = [work EXCEPT ![w] = Loading(work[w], "relay")]
    BY <1>2, <1>5 DEF AskRelay
  <2>2. Loaded(Loading(work[w], "relay"))
    BY <1>2, <1>3, LoadingFacts DEF Loaded, At, Uses
  <2>. QED BY <2>1, <2>2, <1>1, <1>2, <1>3, WorkFacts, LoadingKeeps
<1>. QED BY <1>4, <1>5

LEMMA BuyRelayKeeps == ASSUME KeyInv, NEW w \in Workers, BuyRelay(w) PROVE KeyInv'
<1> DEFINE r == [work[w] EXCEPT !.bound.relay = work[w].held["relay"]]
<1>1. /\ work[w].pc = "relay" /\ relayKey' = work[w].held["relay"]
      /\ UNCHANGED <<key, generated, envKeys, replaced>>
      /\ work' = [work EXCEPT ![w] = IF work[w].probe THEN Loading(r, "status")
                                     ELSE [r EXCEPT !.pc = "grant"]]
  BY DEF BuyRelay
<1>2. /\ work[w] \in WorkRecords /\ "relay" \in Uses /\ "status" \in Uses
      /\ work[w].held["relay"] \in Nat
  BY WorkFacts DEF WorkRecords, Uses
<1>3. /\ work[w].held["relay"] # 0
      /\ ~work[w].probe => work[w].held["ensure"] # 0 /\ work[w].held["connect"] # 0
  BY <1>1, WorkFacts DEF Loaded, At, Uses
<1>4. Caches' /\ (OneKey => Cached(key)')
  BY <1>1, <1>2, WorkFacts DEF Caches, Cached, OneKey, Only
<1>5. /\ r \in WorkRecords /\ r.probe = work[w].probe /\ r.settled = work[w].settled
      /\ r.held = work[w].held /\ r.bound.relay = work[w].held["relay"]
      /\ r.bound.token = work[w].bound.token /\ r.bound.credential = work[w].bound.credential
  BY <1>2, BoundFacts
<1> HIDE DEF r
<1>6. OneKey => Only(r, key)
  BY <1>2, <1>5, WorkFacts DEF Only
<1>7. CASE work[w].probe
  <2>1. Loaded(Loading(r, "status"))
    <3> DEFINE y == Loading(r, "status")
    <3>1. y.pc = "load" /\ y.use = "status" /\ y.probe = r.probe /\ y.bound = r.bound
      BY <1>2, <1>5, LoadingFacts
    <3> HIDE DEF y
    <3>2. At(y) = "status" /\ y.pc \notin Uses
      BY <3>1 DEF At, Uses
    <3>3. y.bound.relay # 0 /\ y.probe
      BY <3>1, <1>3, <1>5, <1>7
    <3>4. Loaded(y)
      BY <3>2, <3>3 DEF Loaded
    <3>. QED BY <3>4 DEF y
  <2>. QED BY <2>1, <1>1, <1>2, <1>4, <1>5, <1>6, <1>7, WorkFacts, LoadingKeeps
<1>8. CASE ~work[w].probe
  <2>1. Loaded([r EXCEPT !.pc = "grant"])
    BY <1>3, <1>5, <1>8, MoveFacts DEF Loaded, At, Uses
  <2>. QED BY <2>1, <1>1, <1>4, <1>5, <1>6, <1>8, WorkFacts, MoveKeeps
<1>. QED BY <1>7, <1>8

\* Two keys that are in hand and differ are not one key.
LEMMA TwoKeys ==
  ASSUME KeyInv, NEW w \in Workers, NEW i \in Nat \ {0}, NEW j \in Nat \ {0}, i # j,
         OneKey => i \in {0, key} /\ j \in {0, key}
  PROVE  ~OneKey
  OBVIOUS

LEMMA GrantKeeps == ASSUME KeyInv, NEW w \in Workers, Grant(w) PROVE KeyInv'
<1> DEFINE i == work[w].bound.relay
           j == work[w].held["connect"]
           c == [work[w] EXCEPT !.bound.credential = j]
<1>1. work[w].pc = "grant" /\ UNCHANGED <<key, generated, relayKey, envKeys, replaced>>
  BY DEF Grant
<1>2. /\ work[w] \in WorkRecords /\ work \in [Workers -> WorkRecords] /\ "connect" \in Uses
      /\ i \in Nat /\ j \in Nat
  BY WorkFacts DEF WorkRecords, Bounds, Uses, KeyInv, KeyShapes
<1>3. i # 0 /\ j # 0 /\ work[w].held["ensure"] # 0 /\ ~work[w].probe
  BY <1>1, WorkFacts DEF Loaded, At, Uses
<1>4. Caches' /\ (OneKey => Cached(key)')
  BY <1>1, WorkFacts DEF Caches, Cached
<1>5. OneKey => i \in {0, key} /\ j \in {0, key}
  BY <1>2, WorkFacts DEF Only
<1>6. CASE i = j
  <2>1. work' = [work EXCEPT ![w] = [c EXCEPT !.pc = "exchange"]]
    <3>1. [work[w] EXCEPT !.pc = "exchange", !.bound.credential = j] = [c EXCEPT !.pc = "exchange"]
      BY <1>2 DEF WorkRecords, Bounds
    <3>2. work' = [work EXCEPT ![w].pc = "exchange", ![w].bound.credential = j]
      BY <1>6 DEF Grant
    <3>3. work' = [work EXCEPT ![w] = [work[w] EXCEPT !.pc = "exchange", !.bound.credential = j]]
      BY <3>2, <1>2
    <3>. QED BY <3>1, <3>3
  <2>2. /\ c \in WorkRecords /\ c.probe = work[w].probe /\ c.settled = work[w].settled
        /\ c.held = work[w].held /\ c.bound.credential = j
        /\ c.bound.token = work[w].bound.token /\ c.bound.relay = work[w].bound.relay
    BY <1>2, BoundFacts
  <2> HIDE DEF c, i, j
  <2>3. Loaded([c EXCEPT !.pc = "exchange"])
    BY <1>3, <2>2, MoveFacts DEF Loaded, At, Uses
  <2>4. OneKey => Only(c, key)
    BY <2>2, <1>5, WorkFacts DEF Only
  <2>. QED BY <2>1, <2>2, <2>3, <2>4, <1>1, <1>4, WorkFacts, MoveKeeps
<1>7. CASE i # j
  <2>1. Refuse(w)
    BY <1>7 DEF Grant
  <2>. QED BY <2>1, <1>1, <1>2, <1>3, <1>5, <1>7, TwoKeys, RefuseKeeps
<1>. QED BY <1>6, <1>7

LEMMA BuyTokenKeeps == ASSUME KeyInv, NEW w \in Workers, BuyToken(w) PROVE KeyInv'
<1> DEFINE i == work[w].bound.credential
           j == work[w].held["ensure"]
           t == [work[w] EXCEPT !.bound.token = j]
<1>1. work[w].pc = "exchange" /\ UNCHANGED <<key, generated, relayKey, replaced>>
  BY DEF BuyToken
<1>2. /\ work[w] \in WorkRecords /\ "ensure" \in Uses /\ "proof" \in Uses
      /\ i \in Nat /\ j \in Nat
  BY WorkFacts DEF WorkRecords, Bounds, Uses
<1>3. i # 0 /\ j # 0 /\ ~work[w].probe
  BY <1>1, WorkFacts DEF Loaded, At, Uses
<1>4. OneKey => i \in {0, key} /\ j \in {0, key}
  BY <1>2, WorkFacts DEF Only
<1>5. CASE i = j
  <2>1. /\ envKeys' = [token |-> j, credential |-> i]
        /\ work' = [work EXCEPT ![w] = Loading(t, "proof")]
    BY <1>5 DEF BuyToken
  <2>2. Caches' /\ (OneKey => Cached(key)')
    BY <2>1, <1>1, <1>2, <1>4, WorkFacts DEF Caches, Cached
  <2>3. /\ t \in WorkRecords /\ t.probe = work[w].probe /\ t.settled = work[w].settled
        /\ t.held = work[w].held /\ t.bound.token = j
        /\ t.bound.credential = work[w].bound.credential /\ t.bound.relay = work[w].bound.relay
    BY <1>2, BoundFacts
  <2> HIDE DEF t
  <2>4. Loaded(Loading(t, "proof"))
    BY <1>2, <1>3, <2>3, LoadingFacts DEF Loaded, At, Uses
  <2>5. OneKey => Only(t, key)
    BY <2>3, <1>4, WorkFacts DEF Only
  <2>. QED BY <2>1, <2>2, <2>3, <2>4, <2>5, <1>1, <1>2, WorkFacts, LoadingKeeps
<1>6. CASE i # j
  <2>1. Refuse(w) /\ envKeys' = envKeys
    BY <1>6 DEF BuyToken
  <2>. QED BY <2>1, <1>1, <1>2, <1>3, <1>4, <1>6, TwoKeys, RefuseKeeps
<1>. QED BY <1>5, <1>6

LEMMA ProveKeeps == ASSUME KeyInv, NEW w \in Workers, Prove(w) PROVE KeyInv'
<1> DEFINE i == work[w].held[work[w].pc]
           j == IF work[w].probe THEN work[w].bound.relay ELSE work[w].bound.token
<1>1. work[w].pc \in {"proof", "status"}
      /\ UNCHANGED <<key, generated, relayKey, envKeys, replaced>>
  BY DEF Prove
<1>2. work[w].pc \in Uses /\ i \in Nat /\ j \in Nat
  BY <1>1, WorkFacts DEF WorkRecords, Bounds, Uses
<1>3. i # 0 /\ j # 0
  BY <1>1, <1>2, WorkFacts DEF Loaded, At
<1>4. OneKey => i \in {0, key} /\ j \in {0, key}
  BY <1>2, WorkFacts DEF Only
<1>5. CASE i = j
  BY <1>1, <1>5, WorkEndKeeps DEF Prove
<1>6. CASE i # j
  <2>1. Refuse(w)
    BY <1>6 DEF Prove
  <2>. QED BY <2>1, <1>1, <1>2, <1>3, <1>4, <1>6, TwoKeys, RefuseKeeps
<1>. QED BY <1>5, <1>6

\* A token that expires leaves no key in play that was not.
LEMMA ExpireKeeps == KeyInv /\ Expire => KeyInv'
<1> SUFFICES ASSUME KeyInv, Expire PROVE KeyInv'
  OBVIOUS
<1>1. UNCHANGED <<key, generated, work, replaced>>
  BY DEF Expire
<1>2. Caches' /\ (OneKey => Cached(key)')
  BY <1>1 DEF Expire, KeyInv, KeyShapes, Caches, OneKey, Cached
<1>3. OneKey => OneKey'
  BY <1>1, <1>2 DEF OneKey, Only
<1>4. Quiet => Quiet'
  BY <1>1 DEF Quiet
<1>. QED
  BY <1>1, <1>2, <1>3, <1>4
  DEF KeyInv, KeyShapes, Loaded, At, Only, Working, RefusedOnlyByCreation

\* After a restart nothing is in play but the secret.
LEMMA RestartKeeps == KeyInv /\ HostRestarts => KeyInv'
<1> SUFFICES ASSUME KeyInv, HostRestarts PROVE KeyInv'
  OBVIOUS
<1>1. /\ relayKey' = 0 /\ envKeys' = [token |-> 0, credential |-> 0]
      /\ work' = [w \in Workers |-> NoWork] /\ UNCHANGED <<key, generated, replaced>>
  BY DEF HostRestarts
<1>2. work' \in [Workers -> WorkRecords] /\ \A w \in Workers : work'[w] = NoWork
  BY <1>1, NoWorkFacts
<1>3. key \in Nat /\ KeyShapes'
  BY <1>1, <1>2 DEF KeyInv, KeyShapes, Caches
<1>4. \A w \in Workers : Loaded(work[w])' /\ Only(work[w], 0)' /\ Only(work[w], key)'
  BY <1>1, <1>2, <1>3, NoWorkLoaded DEF Loaded, At, Only
<1>5. OneKey'
  BY <1>1, <1>4 DEF OneKey, Cached
<1>6. \A w \in Workers : ~work'[w].settled /\ work'[w].pc # "refused"
  BY <1>2, NoWorkFacts
<1>. QED BY <1>3, <1>4, <1>5, <1>6 DEF KeyInv, RefusedOnlyByCreation

LEMMA NextKeyInv == KeyInv /\ [ProofKeyNext]_keyVars => KeyInv'
<1> SUFFICES ASSUME KeyInv, [ProofKeyNext]_keyVars PROVE KeyInv'
  OBVIOUS
<1>1. CASE UNCHANGED keyVars
  BY <1>1 DEF keyVars, KeyInv, KeyShapes, Caches, Loaded, At, Only, OneKey, Cached, Quiet,
              Working, RefusedOnlyByCreation
<1>2. ASSUME NEW w \in Workers, Fails(w) PROVE KeyInv'
  BY <1>2, WorkEndKeeps DEF Fails
<1>. QED
  BY <1>1, <1>2, LoadKeeps, CreateKeeps, RequestKeeps, ProbeKeeps, EnsureKeeps,
     AskRelayKeeps, BuyRelayKeeps, GrantKeeps, BuyTokenKeeps, ProveKeeps, ExpireKeeps,
     RestartKeeps DEF ProofKeyNext
-----------------------------------------------------------------------------
\* A proof of possession is refused only to a call that began while tokens of a key
\* that was stored over were in use (load_or_create_key).
THEOREM NoOtherRefusal == ProofKeySpec => []RefusedOnlyByCreation
<1>1. KeyInv => RefusedOnlyByCreation
  BY DEF KeyInv
<1>. QED BY <1>1, InitKeyInv, NextKeyInv, PTL DEF ProofKeySpec
-----------------------------------------------------------------------------
\* A call that holds no key that was not generated yet.
WorksTo(g) ==
  [pc : {"idle", "refused", "load", "create", "grant", "exchange"} \cup Uses,
   use : Uses, probe : BOOLEAN, settled : BOOLEAN, held : [Uses -> 0 .. g],
   bound : [relay : 0 .. g, credential : 0 .. g, token : 0 .. g]]

KeyTypes ==
  /\ generated \in Keys /\ key \in 0 .. generated /\ relayKey \in 0 .. generated
  /\ envKeys \in [token : 0 .. generated, credential : 0 .. generated]
  /\ work \in [Workers -> WorksTo(generated)]
  /\ replaced \in BOOLEAN

LEMMA IdleTyped ==
  ASSUME NEW g \in Nat
  PROVE  /\ NoWork \in WorksTo(g)
         /\ \A b \in BOOLEAN : [NoWork EXCEPT !.settled = b] \in WorksTo(g)
         /\ \A b \in BOOLEAN : [NoWork EXCEPT !.pc = "refused", !.settled = b] \in WorksTo(g)
<1>1. 0 \in 0 .. g
  OBVIOUS
<1>. QED BY <1>1 DEF NoWork, WorksTo, Uses

\* What the steps make of a call.
LEMMA StepsTyped ==
  ASSUME NEW g \in Nat, NEW x \in WorksTo(g)
  PROVE  /\ \A u \in Uses : Loading(x, u) \in WorksTo(g)
         /\ \A k \in 0 .. g : Has(x, k) \in WorksTo(g)
         /\ \A pc \in {"create", "grant", "exchange"} : [x EXCEPT !.pc = pc] \in WorksTo(g)
         /\ [x EXCEPT !.probe = TRUE] \in WorksTo(g)
         /\ \A k \in 0 .. g : /\ [x EXCEPT !.bound.token = k] \in WorksTo(g)
                              /\ [x EXCEPT !.bound.credential = k] \in WorksTo(g)
                              /\ [x EXCEPT !.bound.relay = k] \in WorksTo(g)
         /\ \A u \in Uses : x.held[u] \in 0 .. g
         /\ x.bound.relay \in 0 .. g /\ x.bound.credential \in 0 .. g
         /\ x.bound.token \in 0 .. g
<1>1. x.held \in [Uses -> 0 .. g] /\ x.use \in Uses
  BY DEF WorksTo
<1>2. x.bound \in [relay : 0 .. g, credential : 0 .. g, token : 0 .. g]
  BY DEF WorksTo
<1>3. \A k \in 0 .. g : [x.held EXCEPT ![x.use] = k] \in [Uses -> 0 .. g]
  BY <1>1
<1>4. \A u \in Uses : Loading(x, u) \in WorksTo(g)
  BY DEF Loading, WorksTo
<1>5. \A k \in 0 .. g : Has(x, k) \in WorksTo(g)
  <2> TAKE k \in 0 .. g
  <2> DEFINE h == [x.held EXCEPT ![x.use] = k]
  <2>1. Has(x, k) = [x EXCEPT !.pc = x.use, !.held = h]
    BY DEF Has, WorksTo
  <2>2. h \in [Uses -> 0 .. g]
    BY <1>3
  <2> HIDE DEF h
  <2>. QED BY <1>1, <2>1, <2>2 DEF WorksTo
<1>6. \A k \in 0 .. g : /\ [x EXCEPT !.bound.token = k] \in WorksTo(g)
                        /\ [x EXCEPT !.bound.credential = k] \in WorksTo(g)
                        /\ [x EXCEPT !.bound.relay = k] \in WorksTo(g)
  BY DEF WorksTo
<1>. QED BY <1>1, <1>2, <1>4, <1>5, <1>6 DEF WorksTo

\* A step of one call that generates no key.
LEMMA OneTyped ==
  ASSUME KeyTypes, NEW w \in Workers, NEW x \in WorksTo(generated),
         work' = [work EXCEPT ![w] = x], UNCHANGED <<key, generated, replaced>>,
         relayKey' \in 0 .. generated,
         envKeys' \in [token : 0 .. generated, credential : 0 .. generated]
  PROVE  KeyTypes'
  BY DEF KeyTypes

LEMMA KeyTypesStart == ProofKeyInit => KeyTypes
<1> SUFFICES ASSUME ProofKeyInit PROVE KeyTypes
  OBVIOUS
<1>1. generated = 0 /\ 0 \in Nat /\ 0 \in 0 .. 0 /\ 0 \in Keys
  BY ProofKeyAssumption DEF ProofKeyInit, Keys
<1>2. NoWork \in WorksTo(0)
  BY <1>1, IdleTyped
<1>. QED BY <1>1, <1>2 DEF ProofKeyInit, KeyTypes

LEMMA KeyTypesKept == KeyTypes /\ [ProofKeyNext]_keyVars => KeyTypes'
<1> SUFFICES ASSUME KeyTypes, [ProofKeyNext]_keyVars PROVE KeyTypes'
  OBVIOUS
<1> DEFINE g == generated
<1>1. g \in Nat /\ g <= MaxKeys /\ MaxKeys \in Nat /\ 0 \in 0 .. g
  BY ProofKeyAssumption DEF KeyTypes, Keys
<1>2. /\ relayKey \in 0 .. g /\ key \in 0 .. g
      /\ envKeys \in [token : 0 .. g, credential : 0 .. g]
      /\ envKeys.token \in 0 .. g /\ envKeys.credential \in 0 .. g
      /\ \A w \in Workers : work[w] \in WorksTo(g)
  BY DEF KeyTypes
<1>3. NoWork \in WorksTo(g) /\ Begun \in WorksTo(g)
      /\ \A w \in Workers :
           [NoWork EXCEPT !.pc = "refused", !.settled = work[w].settled] \in WorksTo(g)
  <2>1. Settled \in BOOLEAN
    BY DEF Settled
  <2>2. \A w \in Workers : work[w].settled \in BOOLEAN
    BY <1>2 DEF WorksTo
  <2>. QED BY <1>1, <2>1, <2>2, IdleTyped DEF Begun
<1>4. \A x \in WorksTo(g) :
         /\ \A u \in Uses : Loading(x, u) \in WorksTo(g)
         /\ \A k \in 0 .. g : Has(x, k) \in WorksTo(g)
         /\ \A pc \in {"create", "grant", "exchange"} : [x EXCEPT !.pc = pc] \in WorksTo(g)
         /\ [x EXCEPT !.probe = TRUE] \in WorksTo(g)
         /\ \A k \in 0 .. g : /\ [x EXCEPT !.bound.token = k] \in WorksTo(g)
                              /\ [x EXCEPT !.bound.credential = k] \in WorksTo(g)
                              /\ [x EXCEPT !.bound.relay = k] \in WorksTo(g)
         /\ \A u \in Uses : x.held[u] \in 0 .. g
         /\ x.bound.relay \in 0 .. g /\ x.bound.credential \in 0 .. g
         /\ x.bound.token \in 0 .. g
  BY <1>1, StepsTyped
<1>5. {"ensure", "connect", "relay", "status", "proof"} \subseteq Uses
  BY DEF Uses
<1> HIDE DEF g
<1>6. ASSUME NEW w \in Workers, NEW x \in WorksTo(g), work' = [work EXCEPT ![w] = x],
             UNCHANGED <<key, generated, relayKey, envKeys, replaced>>
      PROVE  KeyTypes'
  BY <1>2, <1>6, OneTyped DEF g
<1>7. CASE UNCHANGED keyVars
  BY <1>7 DEF keyVars, KeyTypes
<1>8. ASSUME NEW w \in Workers, Request(w) PROVE KeyTypes'
  <2>1. /\ Loading([Begun EXCEPT !.bound.token = envKeys.token], "proof") \in WorksTo(g)
        /\ Loading([Begun EXCEPT !.bound.credential = envKeys.credential], "ensure") \in WorksTo(g)
    BY <1>2, <1>3, <1>4, <1>5
  <2>. QED BY <1>6, <1>8, <2>1 DEF Request
<1>9. ASSUME NEW w \in Workers, Probe(w) PROVE KeyTypes'
  <2> DEFINE y == [Begun EXCEPT !.bound.relay = relayKey]
  <2>1. y \in WorksTo(g)
    BY <1>2, <1>3, <1>4
  <2>2. /\ Loading([y EXCEPT !.probe = TRUE], "status") \in WorksTo(g)
        /\ Loading([Begun EXCEPT !.probe = TRUE], "relay") \in WorksTo(g)
    <3> HIDE DEF y
    <3>. QED BY <1>3, <1>4, <1>5, <2>1
  <2>3. [Begun EXCEPT !.bound.relay = relayKey, !.probe = TRUE] = [y EXCEPT !.probe = TRUE]
    BY <1>3 DEF WorksTo
  <2> HIDE DEF y
  <2>. QED BY <1>6, <1>9, <2>2, <2>3 DEF Probe
<1>10. ASSUME NEW w \in Workers, Load(w) PROVE KeyTypes'
  <2>1. Has(work[w], key) \in WorksTo(g) /\ [work[w] EXCEPT !.pc = "create"] \in WorksTo(g)
    BY <1>2, <1>4
  <2>. QED BY <1>6, <1>10, <2>1 DEF Load
<1>11. ASSUME NEW w \in Workers, Create(w) PROVE KeyTypes'
  <2> DEFINE m == g + 1
  <2>1. m \in Nat /\ 0 .. g \subseteq 0 .. m /\ m \in 0 .. m /\ m \in Keys
    BY <1>1, <1>11 DEF Create, Keys, g
  <2> HIDE DEF m
  <2>2. WorksTo(g) \subseteq WorksTo(m)
    BY <2>1 DEF WorksTo
  <2>3. Has(work[w], m) \in WorksTo(m)
    BY <1>2, <2>1, <2>2, StepsTyped
  <2>4. /\ generated' = m /\ key' = m /\ replaced' = (replaced \/ key # 0)
        /\ work' = [work EXCEPT ![w] = Has(work[w], m)] /\ UNCHANGED <<relayKey, envKeys>>
    BY <1>11 DEF Create, m, g
  <2>5. work' \in [Workers -> WorksTo(m)]
    BY <1>2, <2>2, <2>3, <2>4 DEF KeyTypes
  <2>6. replaced' \in BOOLEAN
    BY <2>4 DEF KeyTypes
  <2>7. relayKey' \in 0 .. m /\ envKeys' \in [token : 0 .. m, credential : 0 .. m]
    BY <1>2, <2>1, <2>4
  <2>. QED BY <2>1, <2>4, <2>5, <2>6, <2>7 DEF KeyTypes
<1>12. ASSUME NEW w \in Workers, Ensure(w) PROVE KeyTypes'
  <2>1. Loading(work[w], "connect") \in WorksTo(g)
        /\ [work[w] EXCEPT !.pc = "exchange"] \in WorksTo(g)
    BY <1>2, <1>4, <1>5
  <2>2. \/ work' = [work EXCEPT ![w] = [work[w] EXCEPT !.pc = "exchange"]]
        \/ work' = [work EXCEPT ![w] = Loading(work[w], "connect")]
    BY <1>12 DEF Ensure, KeyTypes
  <2>. QED BY <1>6, <1>12, <2>1, <2>2 DEF Ensure
<1>13. ASSUME NEW w \in Workers, AskRelay(w) PROVE KeyTypes'
  <2> DEFINE y == [work[w] EXCEPT !.bound.relay = relayKey]
  <2>1. y \in WorksTo(g) /\ Loading(work[w], "relay") \in WorksTo(g)
    BY <1>2, <1>4, <1>5
  <2>2. [work[w] EXCEPT !.pc = "grant", !.bound.relay = relayKey] = [y EXCEPT !.pc = "grant"]
    BY <1>2 DEF WorksTo
  <2>3. \/ work' = [work EXCEPT ![w] = [work[w] EXCEPT !.pc = "grant", !.bound.relay = relayKey]]
        \/ work' = [work EXCEPT ![w] = Loading(work[w], "relay")]
    BY <1>13 DEF AskRelay, KeyTypes
  <2> HIDE DEF y
  <2>4. [y EXCEPT !.pc = "grant"] \in WorksTo(g)
    BY <1>4, <2>1
  <2>. QED BY <1>6, <1>13, <2>1, <2>2, <2>3, <2>4 DEF AskRelay
<1>14. ASSUME NEW w \in Workers, BuyRelay(w) PROVE KeyTypes'
  <2> DEFINE k == work[w].held["relay"]
             y == [work[w] EXCEPT !.bound.relay = k]
  <2>1. k \in 0 .. g
    BY <1>2, <1>4, <1>5
  <2>2. y \in WorksTo(g)
    BY <1>2, <1>4, <2>1
  <2>3. /\ relayKey' = k /\ UNCHANGED <<key, generated, envKeys, replaced>>
        /\ \/ work' = [work EXCEPT ![w] = Loading(y, "status")]
           \/ work' = [work EXCEPT ![w] = [y EXCEPT !.pc = "grant"]]
    BY <1>14 DEF BuyRelay
  <2> HIDE DEF y, k
  <2>4. Loading(y, "status") \in WorksTo(g) /\ [y EXCEPT !.pc = "grant"] \in WorksTo(g)
    BY <1>4, <1>5, <2>2
  <2>. QED BY <1>2, <2>1, <2>3, <2>4, OneTyped DEF g
<1>15. ASSUME NEW w \in Workers, Refuse(w),
              UNCHANGED <<key, generated, relayKey, envKeys, replaced>>
       PROVE  KeyTypes'
  BY <1>3, <1>6, <1>15 DEF Refuse
<1>16. ASSUME NEW w \in Workers, Grant(w) PROVE KeyTypes'
  <2>1. UNCHANGED <<key, generated, relayKey, envKeys, replaced>>
    BY <1>16 DEF Grant
  <2>2. CASE Refuse(w)
    BY <1>15, <2>1, <2>2
  <2>3. CASE ~ Refuse(w)
    <3> DEFINE k == work[w].held["connect"]
               y == [work[w] EXCEPT !.bound.credential = k]
    <3>1. k \in 0 .. g
      BY <1>2, <1>4, <1>5
    <3>2. y \in WorksTo(g)
      BY <1>2, <1>4, <3>1
    <3>3. work' = [work EXCEPT ![w].pc = "exchange", ![w].bound.credential = k]
      BY <1>16, <2>3 DEF Grant
    <3>4. work' = [work EXCEPT ![w] = [y EXCEPT !.pc = "exchange"]]
      BY <1>2, <3>3 DEF KeyTypes, WorksTo
    <3> HIDE DEF y, k
    <3>5. [y EXCEPT !.pc = "exchange"] \in WorksTo(g)
      BY <1>4, <3>2
    <3>. QED BY <1>6, <2>1, <3>4, <3>5
  <2>. QED BY <2>2, <2>3
<1>17. ASSUME NEW w \in Workers, BuyToken(w) PROVE KeyTypes'
  <2>1. UNCHANGED <<key, generated, relayKey, replaced>>
    BY <1>17 DEF BuyToken
  <2>2. CASE Refuse(w) /\ UNCHANGED envKeys
    BY <1>15, <2>1, <2>2
  <2>3. CASE ~ (Refuse(w) /\ UNCHANGED envKeys)
    <3> DEFINE k == work[w].held["ensure"]
               c == work[w].bound.credential
               y == [work[w] EXCEPT !.bound.token = k]
    <3>1. k \in 0 .. g /\ c \in 0 .. g
      BY <1>2, <1>4, <1>5
    <3>2. y \in WorksTo(g)
      BY <1>2, <1>4, <3>1
    <3>3. work' = [work EXCEPT ![w] = Loading(y, "proof")]
          /\ envKeys' = [token |-> k, credential |-> c]
      BY <1>17, <2>3 DEF BuyToken
    <3> HIDE DEF y, k, c
    <3>4. Loading(y, "proof") \in WorksTo(g)
      BY <1>4, <1>5, <3>2
    <3>5. envKeys' \in [token : 0 .. g, credential : 0 .. g]
      BY <3>1, <3>3
    <3>. QED BY <1>2, <2>1, <3>3, <3>4, <3>5, OneTyped DEF g
  <2>. QED BY <2>2, <2>3
<1>18. ASSUME NEW w \in Workers, Prove(w) PROVE KeyTypes'
  BY <1>3, <1>6, <1>15, <1>18 DEF Prove
<1>19. ASSUME NEW w \in Workers, Fails(w) PROVE KeyTypes'
  BY <1>3, <1>6, <1>19 DEF Fails
<1>20. CASE Expire
  <2>1. UNCHANGED <<key, generated, work, replaced>>
    BY <1>20 DEF Expire
  <2>2. relayKey' \in 0 .. g
    BY <1>1, <1>2, <1>20 DEF Expire
  <2>3. envKeys' \in [token : 0 .. g, credential : 0 .. g]
    BY <1>1, <1>2, <1>20 DEF Expire
  <2>. QED BY <2>1, <2>2, <2>3 DEF KeyTypes, g
<1>21. CASE HostRestarts
  <2>1. /\ UNCHANGED <<key, generated, replaced>> /\ relayKey' = 0
        /\ envKeys' = [token |-> 0, credential |-> 0] /\ work' = [w \in Workers |-> NoWork]
    BY <1>21 DEF HostRestarts
  <2>. QED BY <1>1, <1>3, <2>1 DEF KeyTypes, g
<1>. QED BY <1>7, <1>8, <1>9, <1>10, <1>11, <1>12, <1>13, <1>14, <1>16, <1>17, <1>18, <1>19,
            <1>20, <1>21 DEF ProofKeyNext

\* No cache, call or secret holds a key that was not generated.
THEOREM ProofKeyTyped == ProofKeySpec => []ProofKeyTypeOK
<1>1. KeyTypes => ProofKeyTypeOK
  <2> SUFFICES ASSUME KeyTypes PROVE ProofKeyTypeOK
    OBVIOUS
  <2>1. 0 .. generated \subseteq Keys
    BY ProofKeyAssumption DEF KeyTypes, Keys
  <2>2. WorksTo(generated) \subseteq Works
    BY <2>1 DEF WorksTo, Works
  <2>. QED BY <2>2 DEF KeyTypes, ProofKeyTypeOK
<1>. QED BY <1>1, KeyTypesStart, KeyTypesKept, PTL DEF ProofKeySpec
=============================================================================
