-------------------------------- MODULE Pages --------------------------------
(***************************************************************************)
(* An agent reads a thread backwards with t3_thread (talaria/tools.py      *)
(* handle_t3_thread): each answer holds the last turns before a cursor,    *)
(* cut down when it would be too long, and the cursor of the next page.    *)
(* The page and the cursor are the server's, and the cursor knows nothing  *)
(* of the turns the tool dropped from the page.                            *)
(***************************************************************************)
EXTENDS Answers

CONSTANTS
    Outputs,      \* the assistant messages a turn may have: sequences of texts
    Prompts,      \* the user texts a turn may have
    TurnLimits,   \* the turn_limit arguments the agent may pass
    MaxTurns,     \* bound: turns of the thread
    DEFAULT_TURN_LIMIT

ASSUME PagesAssumption ==
    /\ MaxTurns \in Nat /\ DEFAULT_TURN_LIMIT \in Nat \ {0} /\ TurnLimits \subseteq Int
    /\ Prompts \subseteq Seq(Nat) /\ Outputs \subseteq Seq(Seq(Nat))

VARIABLES
    turns,      \* the server's thread: [user, says], oldest first
    reading,    \* the agent's paging, see Reading
    answer      \* the last answer: [turns, truncated]

pageVars == <<turns, reading, answer>>

\* total: the turns there were when paging began; before: the cursor, the
\* turns that remain to be read; shown: those read in full; marked: those on
\* pages marked as truncated.
Reading == [total : 0 .. MaxTurns, before : 0 .. MaxTurns,
            shown : SUBSET (1 .. MaxTurns), marked : SUBSET (1 .. MaxTurns)]

Idle == [total |-> 0, before |-> 0, shown |-> {}, marked |-> {}]
NoAnswer == [turns |-> <<>>, truncated |-> FALSE]

\* A turn_limit that is no number above 0 (here 0) is the default.
TurnLimit(raw) == IF raw < 1 THEN DEFAULT_TURN_LIMIT ELSE raw

-----------------------------------------------------------------------------
(* The server *)

\* The messages of turns first to last; when late, the first turn's last
\* message came after the later turns began.
Messages(first, last, late) ==
    LET said(i, texts) == [k \in DOMAIN texts |->
                              [turn |-> i, role |-> "assistant", text |-> texts[k]]]
        says(i) == IF late /\ i = first /\ turns[i].says # <<>>
                   THEN Front(turns[i].says) ELSE turns[i].says
        ofTurn(i) == <<[turn |-> i, role |-> "user", text |-> turns[i].user]>>
                        \o said(i, says(i))
        pieces == [k \in 1 .. last - first + 1 |-> ofTurn(first + k - 1)]
    IN  FlattenSeq(pieces)
            \o (IF first <= last /\ says(first) # turns[first].says
                THEN said(first, <<Last(turns[first].says)>>) ELSE <<>>)

NewTurn(user, says) ==
    /\ Len(turns) < MaxTurns
    /\ turns' = Append(turns, [user |-> user, says |-> says])
    /\ UNCHANGED <<reading, answer>>

-----------------------------------------------------------------------------
(* The tool *)

\* The whole of a turn, as an answer shows it.
Whole(i) == [id |-> i, user |-> turns[i].user, out |-> Joined(turns[i].says)]

\* One call of t3_thread: the page before the cursor, made to fit.
Page(last, limit, late, from) ==
    LET first == Max({1, last - TurnLimit(limit) + 1})
        fit == FitThreadPayload(TurnsFromMessages(Messages(first, last, late)))
    IN  /\ answer' = fit
        /\ reading' = [from EXCEPT
              !.before = first - 1,
              !.shown = @ \cup {i \in first .. last : Contains(fit.turns, Whole(i))},
              !.marked = @ \cup (IF fit.truncated THEN first .. last ELSE {})]
        /\ UNCHANGED turns

\* The first page, with no cursor.
ReadLatest(limit, late) ==
    Page(Len(turns), limit, late, [Idle EXCEPT !.total = Len(turns)])

\* The next page, with the cursor of the last answer.
ReadOlder(limit, late) ==
    /\ reading.before > 0
    /\ Page(reading.before, limit, late, reading)

-----------------------------------------------------------------------------
PagesInit == turns = <<>> /\ reading = Idle /\ answer = NoAnswer

PagesNext ==
    \/ \E user \in Prompts, says \in Outputs : NewTurn(user, says)
    \/ \E limit \in TurnLimits, late \in BOOLEAN : ReadLatest(limit, late)
    \/ \E limit \in TurnLimits, late \in BOOLEAN : ReadOlder(limit, late)

PagesSpec == PagesInit /\ [][PagesNext]_pageVars

-----------------------------------------------------------------------------
(* Properties *)

\* The server's turns, the cursor and the last answer have their types.
PagesTypeOK ==
    /\ turns \in Seq([user : Prompts, says : Outputs]) /\ Len(turns) <= MaxTurns
    /\ reading \in Reading
    /\ answer.truncated \in BOOLEAN
    /\ \A t \in Range(answer.turns) : t.id \in 1 .. MaxTurns

\* An agent that has paged to the beginning has read, word for word, every
\* turn the thread had when it began, except turns of pages marked truncated:
\* nothing is lost without a word of it, though the cursor passes over the
\* turns that _fit_thread_payload dropped.
UnreadIsMarked ==
    reading.before = 0 => (1 .. reading.total) \ reading.shown \subseteq reading.marked

\* A truncated answer ends with the newest turn of its page and is the
\* longest that fits: one more turn, or one more character of the output when
\* only one turn is left, would be over the limit; and it is itself over the
\* limit only if the newest turn is too long without any output.
CutIsTight ==
    LET shown == answer.turns
        newest == Whole(Last(shown).id)
        cut == Last(shown) # newest
        n == Len(Last(shown).out)
    IN  answer.truncated /\ shown # <<>> =>
            /\ Fits(shown, TRUE) \/ (Len(shown) = 1 /\ n = 0)
            /\ ~cut /\ Fits(shown, TRUE) =>
                 ~Fits(<<Whole(Head(shown).id - 1)>> \o shown, TRUE)
            /\ cut => /\ Len(shown) = 1
                      /\ Last(shown) = CutTo(newest, n)[1]
                      /\ ~Fits(CutTo(newest, n + 1), TRUE)
=============================================================================
