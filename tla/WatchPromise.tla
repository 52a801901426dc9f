---------------------------- MODULE WatchPromise ----------------------------
(***************************************************************************)
(* What t3_watch and t3_unwatch promise the conversation.  While a watch   *)
(* is on, the items of its stream are dealt with one by one, and announced *)
(* if they say anything: an event only if it is later than everything the  *)
(* watch has told so far, so that a replayed one is silent, also when the  *)
(* watch paused meanwhile (its stream broke, the host restarted).  A       *)
(* snapshot is where a watch starts over: whatever its sequence, it may    *)
(* announce again what stands, and what comes after it is told from there. *)
(* Once a watch is off nothing is announced, and only unwatching forgets.  *)
(***************************************************************************)
EXTENDS Naturals

CONSTANTS Watches, MaxSeq

VARIABLES
  watching,   \* the watches that are on
  told        \* for each watch, the last item it dealt with

promiseVars == <<watching, told>>

Untold == [seq |-> 0, by |-> "event"]

PromiseInit ==
  /\ watching = {}
  /\ told = [w \in Watches |-> Untold]

Begin(w) ==
  /\ w \notin watching
  /\ watching' = watching \cup {w}
  /\ UNCHANGED told

\* An event is announced, unless it has nothing to say.
Announce(w, s) ==
  /\ w \in watching
  /\ s > told[w].seq
  /\ told' = [told EXCEPT ![w] = [seq |-> s, by |-> "event"]]
  /\ UNCHANGED watching

\* A snapshot is taken over; what it says is announced with it, or after it.
StartOver(w, s) ==
  /\ w \in watching
  /\ \E by \in {"taken", "snapshot"} : told' = [told EXCEPT ![w] = [seq |-> s, by |-> by]]
  /\ UNCHANGED watching

\* Streams end one by one; a stop or a crash may end several at once.
Pause(S) ==
  /\ S # {}
  /\ watching' = watching \ S
  /\ UNCHANGED told

Forget(w) ==
  /\ w \notin watching
  /\ told' = [told EXCEPT ![w] = Untold]
  /\ UNCHANGED watching

PromiseNext ==
  \/ \E w \in Watches :
       Begin(w) \/ Forget(w) \/ \E s \in 0 .. MaxSeq : Announce(w, s) \/ StartOver(w, s)
  \/ \E S \in SUBSET watching : Pause(S)

PromiseSpec == PromiseInit /\ [][PromiseNext]_promiseVars
=============================================================================
