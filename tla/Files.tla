-------------------------------- MODULE Files --------------------------------
(***************************************************************************)
(* Editors edit a file of a project with t3_read_file and t3_write_file     *)
(* (talaria/tools.py _file_tool): a read is an RPC whose answer is cut at  *)
(* a limit of bytes, a write is an RPC that replaces the whole file, so an *)
(* edit writes back what a read returned.  Each call has a WebSocket of    *)
(* its own; when it breaks, the RPC may have run, or may run still.        *)
(***************************************************************************)
EXTENDS Answers

CONSTANTS
    Editors,     \* agents with a file tool each, one call at a time
    Widths,      \* UTF-8 bytes of the characters agents type
    MaxLength,   \* bound: characters of the file
    MaxWrites    \* bound: writes that agents begin

ASSUME FilesAssumption == MaxLength \in Nat /\ MaxWrites \in Nat

VARIABLES
    file,       \* the server's file: [contents, version]
    held,       \* what each agent last read: [contents, truncated, version]
    writing,    \* the write each agent waits for, by its number; 0 is none
    underway,     \* the writes that may still run: [id, contents, truncated, version]
    ran,        \* the writes that ran, by number
    begun       \* how many writes began

fileVars == <<file, held, writing, underway, ran, begun>>

Nothing == [contents |-> <<>>, truncated |-> FALSE, version |-> 0]

-----------------------------------------------------------------------------
\* projects.readFile: the server may cut the contents itself, and says so.
Served(n) == [contents |-> Prefix(file.contents, n), version |-> file.version,
              truncated |-> n < Len(file.contents)]

ReadFile(a, n) ==
    /\ writing[a] = 0
    /\ held' = [held EXCEPT ![a] = CapRead(Served(n))]
    /\ UNCHANGED <<file, writing, underway, ran, begun>>

\* The edit: the agent adds a character w to what it read and writes it all.
WriteFile(a, w) ==
    LET text == Append(held[a].contents, w)
    IN  /\ writing[a] = 0 /\ begun < MaxWrites
        /\ Len(text) <= MaxLength
        /\ begun' = begun + 1
        /\ writing' = [writing EXCEPT ![a] = begun + 1]
        /\ underway' = underway \cup {[id |-> begun + 1, contents |-> text,
                                   truncated |-> held[a].truncated,
                                   version |-> held[a].version]}
        /\ UNCHANGED <<file, held, ran>>

\* projects.writeFile runs.
Runs(x) ==
    /\ file' = [contents |-> x.contents, version |-> file.version + 1]
    /\ underway' = underway \ {x}
    /\ ran' = ran \cup {x.id}
    /\ UNCHANGED <<held, writing, begun>>

\* The answer arrives.
Written(a) ==
    /\ writing[a] \in ran
    /\ writing' = [writing EXCEPT ![a] = 0]
    /\ UNCHANGED <<file, held, underway, ran, begun>>

\* An error instead: the write ran, runs later, or never does.
WriteFails(a) ==
    /\ writing[a] # 0
    /\ writing' = [writing EXCEPT ![a] = 0]
    /\ UNCHANGED <<file, held, underway, ran, begun>>

-----------------------------------------------------------------------------
FilesInit ==
    /\ file = [contents |-> <<>>, version |-> 0]
    /\ held = [a \in Editors |-> Nothing]
    /\ writing = [a \in Editors |-> 0]
    /\ underway = {} /\ ran = {} /\ begun = 0

FilesNext ==
    \/ \E a \in Editors :
         \/ \E n \in 0 .. Len(file.contents) : ReadFile(a, n)
         \/ \E w \in Widths : WriteFile(a, w)
         \/ Written(a)
         \/ WriteFails(a)
    \/ \E x \in underway : Runs(x)

FilesSpec == FilesInit /\ [][FilesNext]_fileVars

-----------------------------------------------------------------------------
(* Properties *)

Copies == [contents : Seq(Widths), truncated : BOOLEAN, version : 0 .. MaxWrites]

\* The file, the copies and the writes under way have their types.
FilesTypeOK ==
    /\ file \in [contents : Seq(Widths), version : 0 .. MaxWrites]
    /\ held \in [Editors -> Copies]
    /\ writing \in [Editors -> 0 .. MaxWrites]
    /\ \A x \in underway : /\ x.id \in (1 .. begun) \ ran
                         /\ [contents |-> x.contents, truncated |-> x.truncated,
                             version |-> x.version] \in Copies
    /\ ran \subseteq 1 .. begun
    /\ begun \in 0 .. MaxWrites

\* An edit drops the end of a file only if the read it comes from was marked
\* truncated (by the server or by _cap_read), or if another write came between
\* the read and it: the cut is never silent.
TailKept ==
    [][file' # file =>
         \/ Len(file'.contents) > Len(file.contents)
         \/ \E x \in underway \ underway' : x.truncated \/ x.version # file.version]_fileVars
=============================================================================
