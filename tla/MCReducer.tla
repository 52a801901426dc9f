----------------------------- MODULE MCReducer -----------------------------
(***************************************************************************)
(* Instances of Reducer for TLC.                                           *)
(***************************************************************************)
EXTENDS Reducer, TLC

CONSTANTS t1, t2, turnA, turnB, approval

\* A thread at work, one that waits for an approval, one that finished and one that
\* was interrupted, each with either turn.
Working(turn) == [turnState |-> "running", turnId |-> turn, pending |-> {},
                  status |-> "running", active |-> turn]

Records ==
  UNION {{Working(turn), [Working(turn) EXCEPT !.pending = Requests],
          [Working(turn) EXCEPT !.turnState = "completed", !.status = "idle",
                                !.active = None],
          [Working(turn) EXCEPT !.turnState = "interrupted", !.status = "interrupted"]} :
           turn \in Turns}

Events ==
  [type : {"settled", "other"}] \cup
  [type : {"session-set"}, status : {"running", "interrupted"}, turn : Turns] \cup
  [type : {"session-set"}, status : {"idle", "error"}, turn : {None}] \cup
  [type : {"message"}, turn : Turns, streaming : BOOLEAN] \cup
  [type : {"interrupt"}, turn : Turns] \cup
  [type : {"requested"}, request : Requests]

\* The two threads are interchangeable, and so are the two turns.
Symmetry == Permutations(Threads) \cup Permutations(Turns)
=============================================================================
