------------------------------ MODULE Answers ------------------------------
(***************************************************************************)
(* The pure functions that shape what a tool answers: grouping a thread's  *)
(* messages into turns, making the answer fit a limit of JSON characters   *)
(* (talaria/tools.py _turns_from_messages, _fit_thread_payload), and       *)
(* cutting a file at a limit of bytes (_cap_read).                         *)
(*                                                                         *)
(* A text is the sequence of the widths of its characters: in JSON         *)
(* characters for a thread (a letter is 1, an escaped newline 2, \uXXXX    *)
(* 6), in UTF-8 bytes for a file.                                          *)
(***************************************************************************)
EXTENDS Integers, Sequences, SequencesExt, FiniteSetsExt

CONSTANTS
    OUTPUT_CHAR_LIMIT,   \* JSON characters of a thread's answer
    READ_BYTE_LIMIT,     \* bytes of a file's contents
    Frame,               \* JSON characters of an answer with no turn
    Mark                 \* JSON characters of the "truncated" mark

ASSUME LimitsAssumption ==
    {OUTPUT_CHAR_LIMIT, READ_BYTE_LIMIT, Frame, Mark} \subseteq Nat

Width(text) == FoldLeft(LAMBDA sum, w : sum + w, 0, text)
Prefix(text, n) == SubSeq(text, 1, n)

-----------------------------------------------------------------------------
(* Turns of messages *)

Newline == <<2>>
JoinText(left, right) ==
    IF left = <<>> THEN right
    ELSE IF right = <<>> THEN left ELSE left \o Newline \o right

Joined(texts) == FoldLeft(JoinText, <<>>, texts)

Texts(messages, id, role) ==
    FoldLeft(LAMBDA joined, m : IF m.turn = id /\ m.role = role THEN JoinText(joined, m.text)
                                ELSE joined,
             <<>>, messages)

\* The ids of the turns, in the order in which they first appear.
TurnIds(messages) ==
    FoldLeft(LAMBDA seen, m : IF Contains(seen, m.turn) THEN seen ELSE Append(seen, m.turn),
             <<>>, messages)

TurnsFromMessages(messages) ==
    LET ids == TurnIds(messages)
    IN  [i \in DOMAIN ids |->
            [id |-> ids[i],
             user |-> Texts(messages, ids[i], "user"),
             out |-> Texts(messages, ids[i], "assistant")]]

-----------------------------------------------------------------------------
(* An answer that fits *)

Size(turns, truncated) ==
    FoldLeft(LAMBDA sum, t : sum + Width(t.user) + Width(t.out),
             Frame + (IF truncated THEN Mark ELSE 0), turns)

Fits(turns, truncated) == Size(turns, truncated) <= OUTPUT_CHAR_LIMIT

CutTo(turn, n) == <<[turn EXCEPT !.out = Prefix(@, n)]>>

\* Mutant: a character of the text counts as one character of the JSON.
MutantLongestFit(turn) ==
    Min({Len(turn.out), Max({0, OUTPUT_CHAR_LIMIT - Size(CutTo(turn, 0), TRUE)})})

\* The binary search for the longest output of the one turn left that fits.
LongestFit(turn) ==
    LET top == Len(turn.out)
        search[s \in [lo : 0 .. top + 1, hi : -1 .. top, best : 0 .. top]] ==
            LET mid == (s.lo + s.hi) \div 2
            IN  IF s.lo > s.hi THEN s.best
                ELSE IF Fits(CutTo(turn, mid), TRUE)
                THEN search[[s EXCEPT !.lo = mid + 1, !.best = mid]]
                ELSE search[[s EXCEPT !.hi = mid - 1]]
    IN  search[[lo |-> 0, hi |-> top, best |-> 0]]

\* The oldest turns go while there is another one, then the end of the output of
\* the last one.
CutDown(turns) ==
    LET n == Len(turns)
        latest(k) == SubSeq(turns, n - k + 1, n)
        fitting == {k \in 1 .. n - 1 : Fits(latest(k), TRUE)}
    IN  IF fitting # {} THEN latest(Max(fitting))
        ELSE IF turns = <<>> THEN turns
        ELSE CutTo(Last(turns), LongestFit(Last(turns)))

\* Mutant: only a cut output is marked, not the turns that were dropped.
MutantFit(turns) ==
    IF Fits(turns, FALSE) THEN [turns |-> turns, truncated |-> FALSE]
    ELSE [turns |-> CutDown(turns), truncated |-> Len(turns) = 1]

FitThreadPayload(turns) ==
    IF Fits(turns, FALSE) THEN [turns |-> turns, truncated |-> FALSE]
    ELSE [turns |-> CutDown(turns), truncated |-> TRUE]

-----------------------------------------------------------------------------
(* A file's contents *)

\* The longest run of whole characters within the limit.
Kept(text) ==
    Prefix(text, Max({n \in 0 .. Len(text) : Width(Prefix(text, n)) <= READ_BYTE_LIMIT}))

\* Mutant: a character cut in two is replaced (U+FFFD is 3 bytes), not dropped.
MutantReplaced(value) ==
    IF Width(value.contents) <= READ_BYTE_LIMIT THEN value
    ELSE [value EXCEPT !.truncated = TRUE,
                       !.contents = IF Width(Kept(@)) = READ_BYTE_LIMIT THEN Kept(@)
                                    ELSE Append(Kept(@), 3)]

\* Mutant: the server's own mark is kept when the tool cuts.
MutantUnmarked(value) ==
    IF Width(value.contents) <= READ_BYTE_LIMIT THEN value
    ELSE [value EXCEPT !.contents = Kept(@)]

\* Decoding the first bytes with errors ignored drops a character cut in two.
CapRead(value) ==
    IF Width(value.contents) <= READ_BYTE_LIMIT THEN value
    ELSE [value EXCEPT !.contents = Kept(@), !.truncated = TRUE]
=============================================================================
