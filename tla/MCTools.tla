------------------------------ MODULE MCTools ------------------------------
(***************************************************************************)
(* Instances of Threads, Pages, Files, SignIn and ProofKey for TLC.  The   *)
(* five share no state, so one run checks them side by side: the task says *)
(* which of them a behaviour is of.                                        *)
(***************************************************************************)
EXTENDS Threads, Pages, Files, SignIn, ProofKey, TLC

VARIABLE task

vars == <<task, threadVars, pageVars, fileVars, signInVars, keyVars>>

Init ==
    /\ task \in {"threads", "pages", "files", "signIn", "proofKey"}
    /\ ThreadsInit /\ PagesInit /\ FilesInit /\ SignInInit /\ ProofKeyInit

Next ==
    /\ UNCHANGED task
    /\ \/ /\ task = "threads" /\ ThreadsNext
          /\ UNCHANGED <<pageVars, fileVars, signInVars, keyVars>>
       \/ /\ task = "pages" /\ PagesNext
          /\ UNCHANGED <<threadVars, fileVars, signInVars, keyVars>>
       \/ /\ task = "files" /\ FilesNext
          /\ UNCHANGED <<threadVars, pageVars, signInVars, keyVars>>
       \/ /\ task = "signIn" /\ SignInNext
          /\ UNCHANGED <<threadVars, pageVars, fileVars, keyVars>>
       \/ /\ task = "proofKey" /\ ProofKeyNext
          /\ UNCHANGED <<threadVars, pageVars, fileVars, signInVars>>

Spec == Init /\ [][Next]_vars

\* The state of the threads, of a thread's pages, of a file, of the sign-ins and of
\* the key have their types.
TypeOK == ThreadsTypeOK /\ PagesTypeOK /\ FilesTypeOK /\ SignInTypeOK /\ ProofKeyTypeOK

\* Processes are interchangeable, and so are accounts.
Symmetry == Permutations(Processes) \cup Permutations(Accounts)

\* Below 0, above it, and none: raised to the floor, kept, replaced by the default.
MCTimeouts == {-1, Unset}
MCIntervals == {1}

\* A prompt of one letter, and one too long for an answer with any output.
MCPrompts == {<<1>>, [i \in 1 .. 12 |-> 1]}

\* No message, two with an escaped character, one longer than an answer.
MCOutputs == {<<>>, <<<<1>>, <<6>>>>, <<<<6, 1, 1, 6, 1>>>>}
=============================================================================
