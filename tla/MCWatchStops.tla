---------------------------- MODULE MCWatchStops ----------------------------
(***************************************************************************)
(* Does a reader that was told to stop end?  Watch on a loop and Watch     *)
(* with daemon threads, which of them a behaviour is of being chosen at    *)
(* its start, as the host chooses it by giving ctx.spawn_task or not.      *)
(* What the server owes differs: nothing on the loop, where a stop cancels *)
(* the reader's task; an answer, with threads.                             *)
(***************************************************************************)
CONSTANTS Watches, Callers, Readers, NoOne, LoopSeq, ThreadSeq

VARIABLES live, blob, bound, call, rdr, baton, told, lost,
          onLoop      \* does the host run readers on the loop of its handlers?

Loop == INSTANCE Watch WITH OnLoop <- TRUE, MaxSeq <- LoopSeq
Threads == INSTANCE Watch WITH OnLoop <- FALSE, MaxSeq <- ThreadSeq

vars == <<live, blob, bound, call, rdr, baton, told, lost, onLoop>>

Init == onLoop \in BOOLEAN /\ Loop!Init

\* A step of the one mode or of the other.
OfLoop(step) == onLoop /\ step /\ UNCHANGED onLoop
OfThreads(step) == ~onLoop /\ step /\ UNCHANGED onLoop

Next == OfLoop(Loop!Next) \/ OfThreads(Threads!Next)

\* Every handler and every reader goes on when it can; a server of threads dials
\* and sends.
Fairness ==
  /\ \A c \in Callers :
       SF_vars(OfLoop(Loop!Continue(c)) \/ OfThreads(Threads!Continue(c)))
  /\ \A r \in Readers :
       /\ SF_vars(OfLoop(Loop!Advance(r)) \/ OfThreads(Threads!Advance(r)))
       /\ WF_vars(OfThreads(/\ rdr[r].pc = "connecting"
                            /\ Threads!Connected(r) \/ Threads!StreamEnds(r)))
       /\ WF_vars(OfThreads(Threads!StopNoticed(r)))

Spec == Init /\ [][Next]_vars /\ Fairness

\* A reader that was told to stop stops: on the loop whatever the server does, even
\* if the dial never concludes or the stream stays quiet; with threads if the server
\* goes on sending (watch.py _interrupt_live).
StopsEventually == Loop!StopsEventually
=============================================================================
