------------------------ MODULE ConnectAccessProofs ------------------------
(***************************************************************************)
(* Theorems about ConnectAccess, for every set of callers and every        *)
(* lifetime of a token.  TokensAlive rests on Margins: what a call carries *)
(* outlasts the longest request from the moment the call read the clock.   *)
(* RefreshNotLost rests on Successors: a refresh token on its way to the   *)
(* secrets is accepted, is carried by one holder, and nobody offers it.    *)
(***************************************************************************)
EXTENDS ConnectAccess, TLAPS

Margins ==
  /\ relay # None => relay.expires =< relay.token
  /\ env # None => env.expires =< env.token
  /\ \A c \in Callers :
       /\ call[c].pc \in Timed => call[c].epoch =< now /\ now =< call[c].epoch + Patience
       /\ call[c].pc \in {"connect", "send"} => call[c].got > call[c].epoch + Patience

\* A caller about to store a refresh token, and the sign-in about to store its own.
Holds(c) == call[c].pc \in {"storeAccess", "storeRefresh"}
CliHolds == cli.pc # "idle"

Successors ==
  /\ \A c \in Callers : Holds(c) =>
       /\ call[c].refresh \in good /\ call[c].refresh # refresh
       /\ \A d \in Callers : call[d].pc = "refresh" => call[d].got # call[c].refresh
       /\ \A d \in Callers : Holds(d) /\ call[d].refresh = call[c].refresh => d = c
       /\ CliHolds => cli.refresh # call[c].refresh
  /\ CliHolds =>
       /\ cli.refresh \in good /\ cli.refresh # refresh
       /\ \A d \in Callers : call[d].pc = "refresh" => call[d].got # cli.refresh
  /\ refresh =< issued
  /\ \A c \in Callers : call[c].pc = "refresh" => call[c].got =< issued

Inv == TypeOK /\ Margins /\ Successors /\ RefreshNotLost
----------------------------------------------------------------------------
LEMMA ConstantsType ==
  /\ Skew \in Nat /\ Patience \in Nat /\ MaxTime \in Nat /\ MaxRefresh \in Nat \ {0}
  /\ ClerkLife \in Nat /\ RelayLife \in Nat /\ CredLife \in Nat /\ EnvLife \in Nat
  BY AccessAssumption

LEMMA NoCallType == NoCall \in Calls /\ [NoCall EXCEPT !.pc = "refused"] \in Calls
<1>1. 0 \in 0 .. MaxTime /\ 0 \in 0 .. MaxRefresh
  BY ConstantsType
<1>. QED
  BY <1>1 DEF NoCall, Calls

LEMMA NoCliType == NoCli \in CliCalls
<1>1. 0 \in 0 .. MaxRefresh
  BY ConstantsType
<1>. QED
  BY <1>1 DEF NoCli, CliCalls

LEMMA TypeInit == Init => TypeOK
<1> SUFFICES ASSUME Init PROVE TypeOK
  OBVIOUS
<1>1. now \in 0 .. MaxTime /\ refresh \in 1 .. MaxRefresh /\ issued \in 1 .. MaxRefresh
  BY ConstantsType DEF Init
<1>2. good \subseteq 1 .. issued
  BY DEF Init
<1>3. call \in [Callers -> Calls] /\ cli \in CliCalls
  BY NoCallType, NoCliType DEF Init
<1>. QED
  BY <1>1, <1>2, <1>3, ConstantsType DEF Init, TypeOK

LEMMA TypeStep == TypeOK /\ Successors /\ [Next]_vars => TypeOK'
<1> SUFFICES ASSUME TypeOK, Successors, [Next]_vars PROVE TypeOK'
  OBVIOUS
<1> USE ConstantsType, NoCallType DEF TypeOK
<1>1. ASSUME NEW c \in Callers, Begin(c) PROVE TypeOK'
  BY <1>1 DEF Begin, Calls, Waiting, Timed, NoCall
<1>2. ASSUME NEW c \in Callers, List(c) PROVE TypeOK'
  BY <1>2 DEF List, Calls, Waiting, Timed, NoCall
<1>22. ASSUME NEW c \in Callers, ListSkipped(c) PROVE TypeOK'
  BY <1>22 DEF ListSkipped, Calls, Waiting, Timed, NoCall
<1>3. ASSUME NEW c \in Callers, ListRejected(c) PROVE TypeOK'
  BY <1>3 DEF ListRejected, Calls, Waiting, Timed, NoCall, Refused
<1>4. ASSUME NEW c \in Callers, Refresh(c) PROVE TypeOK'
  <2>1. issued' \in 1 .. MaxRefresh /\ issued' \in 0 .. MaxRefresh /\ good' \subseteq 1 .. issued'
    BY <1>4 DEF Refresh, Renew
  <2>2. now + ClerkLife \in Nat
    OBVIOUS
  <2>. QED
    BY <1>4, <2>1, <2>2, ZenonT(40) DEF Refresh, Calls, Waiting
<1>5. ASSUME NEW c \in Callers, RefreshRejected(c) PROVE TypeOK'
  BY <1>5 DEF RefreshRejected, Calls, Waiting, Timed, NoCall, Refused
<1>6. ASSUME NEW c \in Callers, RefreshLost(c) PROVE TypeOK'
  BY <1>6 DEF RefreshLost, Calls, Waiting, Timed, NoCall, Returns, Renew
<1>7. ASSUME NEW c \in Callers, StoreAccess(c) PROVE TypeOK'
  BY <1>7 DEF StoreAccess, Calls, Waiting, Timed, Goes
<1>8. ASSUME NEW c \in Callers, StoreRefresh(c) PROVE TypeOK'
  <2>1. call[c].refresh \in 1 .. MaxRefresh
    BY <1>8 DEF StoreRefresh, Successors, Holds
  <2>. QED
    BY <1>8, <2>1 DEF StoreRefresh, Calls, Waiting, NoCall
<1>9. ASSUME NEW c \in Callers, Request(c) PROVE TypeOK'
  BY <1>9 DEF Request, Calls, Waiting, Timed, RelayEntries, EnvEntries
<1>10. ASSUME NEW c \in Callers, Dpop(c) PROVE TypeOK'
  BY <1>10 DEF Dpop, Calls, Waiting, Timed, NoCall, Refused, RelayEntries, EnvEntries
<1>11. ASSUME NEW c \in Callers, Connect(c) PROVE TypeOK'
  BY <1>11 DEF Connect, Calls, Waiting, Timed, NoCall, Refused
<1>12. ASSUME NEW c \in Callers, Exchange(c) PROVE TypeOK'
  BY <1>12 DEF Exchange, Calls, Waiting, Timed, NoCall, Refused, RelayEntries, EnvEntries
<1>13. ASSUME NEW c \in Callers, Send(c) PROVE TypeOK'
  BY <1>13 DEF Send, Calls, Waiting, Timed, NoCall, Refused
<1>14. ASSUME NEW c \in Callers, Return(c) PROVE TypeOK'
  BY <1>14 DEF Return, Calls, Waiting, Timed, NoCall, Returns
<1>15. ASSUME NEW c \in Callers, Fails(c) PROVE TypeOK'
  BY <1>15 DEF Fails, Calls, Waiting, Timed, NoCall, Returns
<1>16. CASE SignIn
  BY <1>16 DEF SignIn, Calls, CliCalls
<1>17. CASE SignInAccess
  BY <1>17 DEF SignInAccess, Calls, CliCalls
<1>18. CASE SignInRefresh
  <2>1. cli.refresh \in 1 .. MaxRefresh
    BY <1>18 DEF SignInRefresh, Successors, CliHolds
  <2>. QED
    BY <1>18, <2>1, NoCliType DEF SignInRefresh
<1>19. CASE Restart
  BY <1>19 DEF Restart, Calls
<1>20. CASE Tick
  BY <1>20 DEF Tick, Calls
<1>21. CASE UNCHANGED vars
  BY <1>21 DEF vars
<1>. QED
  BY <1>1, <1>2, <1>3, <1>4, <1>5, <1>6, <1>7, <1>8, <1>9, <1>10, <1>11,
     <1>12, <1>13, <1>14, <1>15, <1>16, <1>17, <1>18, <1>19, <1>20, <1>21, <1>22 DEF Next

----------------------------------------------------------------------------
LEMMA MarginsStep == TypeOK /\ Margins /\ [Next]_vars => Margins'
<1> SUFFICES ASSUME TypeOK, Margins, [Next]_vars PROVE Margins'
  OBVIOUS
<1> USE ConstantsType, AccessAssumption DEF TypeOK, Margins
<1>1. ASSUME NEW c \in Callers, Begin(c) PROVE Margins'
  BY <1>1 DEF Begin, Calls, Timed, NoCall
<1>2. ASSUME NEW c \in Callers, List(c) PROVE Margins'
  BY <1>2 DEF List, Calls, Timed, NoCall
<1>22. ASSUME NEW c \in Callers, ListSkipped(c) PROVE Margins'
  BY <1>22 DEF ListSkipped, Calls, Timed, NoCall
<1>3. ASSUME NEW c \in Callers, ListRejected(c) PROVE Margins'
  BY <1>3 DEF ListRejected, Calls, Timed, NoCall, Refused
<1>4. ASSUME NEW c \in Callers, Refresh(c) PROVE Margins'
  BY <1>4 DEF Refresh, Calls, Timed
<1>5. ASSUME NEW c \in Callers, RefreshRejected(c) PROVE Margins'
  BY <1>5 DEF RefreshRejected, Calls, Timed, NoCall, Refused
<1>6. ASSUME NEW c \in Callers, RefreshLost(c) PROVE Margins'
  BY <1>6 DEF RefreshLost, Calls, Timed, NoCall, Returns
<1>7. ASSUME NEW c \in Callers, StoreAccess(c) PROVE Margins'
  BY <1>7 DEF StoreAccess, Calls, Timed, Goes
<1>8. ASSUME NEW c \in Callers, StoreRefresh(c) PROVE Margins'
  BY <1>8 DEF StoreRefresh, Calls, Timed, NoCall
<1>9. ASSUME NEW c \in Callers, Request(c) PROVE Margins'
  BY <1>9 DEF Request, Calls, Timed, Usable, RelayEntries, EnvEntries
<1>10. ASSUME NEW c \in Callers, Dpop(c) PROVE Margins'
  BY <1>10 DEF Dpop, Calls, Timed, NoCall, Refused, RelayEntries, EnvEntries
<1>11. ASSUME NEW c \in Callers, Connect(c) PROVE Margins'
  BY <1>11 DEF Connect, Calls, Timed, NoCall, Refused
<1>12. ASSUME NEW c \in Callers, Exchange(c) PROVE Margins'
  BY <1>12 DEF Exchange, Calls, Timed, NoCall, Refused, RelayEntries, EnvEntries
<1>13. ASSUME NEW c \in Callers, Send(c) PROVE Margins'
  BY <1>13 DEF Send, Calls, Timed, NoCall, Refused
<1>14. ASSUME NEW c \in Callers, Return(c) PROVE Margins'
  BY <1>14 DEF Return, Calls, Timed, NoCall, Returns
<1>15. ASSUME NEW c \in Callers, Fails(c) PROVE Margins'
  BY <1>15 DEF Fails, Calls, Waiting, Timed, NoCall, Returns
<1>16. CASE SignIn
  BY <1>16 DEF SignIn, Calls, Timed
<1>17. CASE SignInAccess
  BY <1>17 DEF SignInAccess, Calls, Timed
<1>18. CASE SignInRefresh
  BY <1>18 DEF SignInRefresh, Calls, Timed
<1>19. CASE Restart
  BY <1>19 DEF Restart, Calls, Timed, NoCall
<1>20. CASE Tick
  BY <1>20 DEF Tick, Calls, Timed
<1>21. CASE UNCHANGED vars
  BY <1>21 DEF vars
<1>. QED
  BY <1>1, <1>2, <1>3, <1>4, <1>5, <1>6, <1>7, <1>8, <1>9, <1>10, <1>11,
     <1>12, <1>13, <1>14, <1>15, <1>16, <1>17, <1>18, <1>19, <1>20, <1>21, <1>22 DEF Next

LEMMA SuccessorsStep == TypeOK /\ Successors /\ [Next]_vars => Successors'
<1> SUFFICES ASSUME TypeOK, Successors, [Next]_vars PROVE Successors'
  OBVIOUS
<1> USE ConstantsType DEF TypeOK, Successors, Holds, CliHolds
<1>1. ASSUME NEW c \in Callers, Begin(c) PROVE Successors'
  BY <1>1 DEF Begin, Calls, NoCall
<1>2. ASSUME NEW c \in Callers, List(c) PROVE Successors'
  BY <1>2 DEF List, Calls, NoCall
<1>22. ASSUME NEW c \in Callers, ListSkipped(c) PROVE Successors'
  BY <1>22 DEF ListSkipped, Calls, NoCall
<1>3. ASSUME NEW c \in Callers, ListRejected(c) PROVE Successors'
  BY <1>3 DEF ListRejected, Calls, NoCall, Refused
<1>4. ASSUME NEW c \in Callers, Refresh(c) PROVE Successors'
  BY <1>4 DEF Refresh, Calls, Renew
<1>5. ASSUME NEW c \in Callers, RefreshRejected(c) PROVE Successors'
  BY <1>5 DEF RefreshRejected, Calls, NoCall, Refused
<1>6. ASSUME NEW c \in Callers, RefreshLost(c) PROVE Successors'
  BY <1>6 DEF RefreshLost, Calls, NoCall, Returns, Renew
<1>7. ASSUME NEW c \in Callers, StoreAccess(c) PROVE Successors'
  BY <1>7 DEF StoreAccess, Calls, Goes
<1>8. ASSUME NEW c \in Callers, StoreRefresh(c) PROVE Successors'
  BY <1>8 DEF StoreRefresh, Calls, NoCall
<1>9. ASSUME NEW c \in Callers, Request(c) PROVE Successors'
  BY <1>9 DEF Request, Calls
<1>10. ASSUME NEW c \in Callers, Dpop(c) PROVE Successors'
  BY <1>10 DEF Dpop, Calls, NoCall, Refused
<1>11. ASSUME NEW c \in Callers, Connect(c) PROVE Successors'
  BY <1>11 DEF Connect, Calls, NoCall, Refused
<1>12. ASSUME NEW c \in Callers, Exchange(c) PROVE Successors'
  BY <1>12 DEF Exchange, Calls, NoCall, Refused
<1>13. ASSUME NEW c \in Callers, Send(c) PROVE Successors'
  BY <1>13 DEF Send, Calls, NoCall, Refused
<1>14. ASSUME NEW c \in Callers, Return(c) PROVE Successors'
  BY <1>14 DEF Return, Calls, NoCall, Returns
<1>15. ASSUME NEW c \in Callers, Fails(c) PROVE Successors'
  BY <1>15 DEF Fails, Calls, Waiting, Timed, NoCall, Returns
<1>16. CASE SignIn
  BY <1>16 DEF SignIn, Calls, CliCalls
<1>17. CASE SignInAccess
  BY <1>17 DEF SignInAccess, Calls, CliCalls
<1>18. CASE SignInRefresh
  BY <1>18 DEF SignInRefresh, Calls, CliCalls, NoCli
<1>19. CASE Restart
  BY <1>19 DEF Restart, Calls, NoCall
<1>20. CASE Tick
  BY <1>20 DEF Tick, Calls, Timed
<1>21. CASE UNCHANGED vars
  BY <1>21 DEF vars
<1>. QED
  BY <1>1, <1>2, <1>3, <1>4, <1>5, <1>6, <1>7, <1>8, <1>9, <1>10, <1>11,
     <1>12, <1>13, <1>14, <1>15, <1>16, <1>17, <1>18, <1>19, <1>20, <1>21, <1>22 DEF Next

\* A renewal spends the stored token only to carry its successor.
LEMMA RefreshKept ==
  TypeOK /\ Successors /\ RefreshNotLost /\ [Next]_vars => RefreshNotLost'
<1> SUFFICES ASSUME TypeOK, Successors, RefreshNotLost, [Next]_vars PROVE RefreshNotLost'
  OBVIOUS
<1> USE DEF TypeOK, RefreshNotLost, Storing
<1>1. ASSUME NEW c \in Callers, Begin(c) PROVE RefreshNotLost'
  BY <1>1 DEF Begin, Calls, NoCall
<1>2. ASSUME NEW c \in Callers, List(c) PROVE RefreshNotLost'
  BY <1>2 DEF List, Calls, NoCall
<1>22. ASSUME NEW c \in Callers, ListSkipped(c) PROVE RefreshNotLost'
  BY <1>22 DEF ListSkipped, Calls, NoCall
<1>3. ASSUME NEW c \in Callers, ListRejected(c) PROVE RefreshNotLost'
  BY <1>3 DEF ListRejected, Calls, NoCall, Refused
<1>4. ASSUME NEW c \in Callers, Refresh(c) PROVE RefreshNotLost'
  BY <1>4 DEF Refresh, Renew, Successors, Holds, CliHolds, Calls
<1>5. ASSUME NEW c \in Callers, RefreshRejected(c) PROVE RefreshNotLost'
  BY <1>5 DEF RefreshRejected, Calls, NoCall, Refused
<1>6. ASSUME NEW c \in Callers, RefreshLost(c) PROVE RefreshNotLost'
  BY <1>6 DEF RefreshLost, Calls, NoCall, Returns
<1>7. ASSUME NEW c \in Callers, StoreAccess(c) PROVE RefreshNotLost'
  BY <1>7 DEF StoreAccess, Calls, Goes
<1>8. ASSUME NEW c \in Callers, StoreRefresh(c) PROVE RefreshNotLost'
  BY <1>8 DEF StoreRefresh, Successors, Holds
<1>9. ASSUME NEW c \in Callers, Request(c) PROVE RefreshNotLost'
  BY <1>9 DEF Request, Calls
<1>10. ASSUME NEW c \in Callers, Dpop(c) PROVE RefreshNotLost'
  BY <1>10 DEF Dpop, Calls, NoCall, Refused
<1>11. ASSUME NEW c \in Callers, Connect(c) PROVE RefreshNotLost'
  BY <1>11 DEF Connect, Calls, NoCall, Refused
<1>12. ASSUME NEW c \in Callers, Exchange(c) PROVE RefreshNotLost'
  BY <1>12 DEF Exchange, Calls, NoCall, Refused
<1>13. ASSUME NEW c \in Callers, Send(c) PROVE RefreshNotLost'
  BY <1>13 DEF Send, Calls, NoCall, Refused
<1>14. ASSUME NEW c \in Callers, Return(c) PROVE RefreshNotLost'
  BY <1>14 DEF Return, Calls, NoCall, Returns
<1>15. ASSUME NEW c \in Callers, Fails(c) PROVE RefreshNotLost'
  BY <1>15 DEF Fails, Calls, Waiting, Timed, NoCall, Returns
<1>16. CASE SignIn
  BY <1>16 DEF SignIn, Calls, CliCalls
<1>17. CASE SignInAccess
  BY <1>17 DEF SignInAccess, Calls, CliCalls
<1>18. CASE SignInRefresh
  BY <1>18 DEF SignInRefresh, Successors, CliHolds, Calls, CliCalls, NoCli
<1>19. CASE Restart
  BY <1>19 DEF Restart, Calls, NoCall
<1>20. CASE Tick
  BY <1>20 DEF Tick, Calls
<1>21. CASE UNCHANGED vars
  BY <1>21 DEF vars
<1>. QED
  BY <1>1, <1>2, <1>3, <1>4, <1>5, <1>6, <1>7, <1>8, <1>9, <1>10, <1>11,
     <1>12, <1>13, <1>14, <1>15, <1>16, <1>17, <1>18, <1>19, <1>20, <1>21, <1>22 DEF Next

LEMMA InitInv == Init => Inv
<1> SUFFICES ASSUME Init PROVE Inv
  OBVIOUS
<1>1. TypeOK
  BY TypeInit
<1>2. Margins
  BY DEF Init, Margins, NoCall, Timed
<1>3. Successors
  BY DEF Init, Successors, Holds, CliHolds, NoCall, NoCli
<1>4. RefreshNotLost
  BY DEF Init, RefreshNotLost
<1>. QED
  BY <1>1, <1>2, <1>3, <1>4 DEF Inv

LEMMA Invariance == Spec => []Inv
<1>1. Inv /\ [Next]_vars => Inv'
  BY TypeStep, MarginsStep, SuccessorsStep, RefreshKept DEF Inv
<1>. QED
  BY InitInv, <1>1, PTL DEF Spec
----------------------------------------------------------------------------
\* The tokens, the caches and the calls keep their types (the state of
\* auth_t3connect.py), whatever the callers do and whatever Clerk issues.
THEOREM TypeInvariant == Spec => []TypeOK
<1>1. Inv => TypeOK
  BY DEF Inv
<1>. QED
  BY Invariance, <1>1, PTL

\* A relay or environment token is alive when it reaches its server, cached by
\* whoever (dpop_token, ensure_environment_access), as long as a request is
\* shorter than the skew.
THEOREM CarriedTokensAlive == Spec => []TokensAlive
<1>1. Inv => TokensAlive
  BY ConstantsType DEF Inv, TypeOK, Margins, TokensAlive, Calls, Timed, Live
<1>. QED
  BY Invariance, <1>1, PTL

\* However many calls renew the Clerk tokens at once (refresh_clerk_tokens), the
\* account stays signed in unless an answer of Clerk's is lost.
THEOREM StaysSignedIn == Spec => []RefreshNotLost
<1>1. Inv => RefreshNotLost
  BY DEF Inv
<1>. QED
  BY Invariance, <1>1, PTL
=============================================================================
