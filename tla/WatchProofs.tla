---------------------------- MODULE WatchProofs ----------------------------
(***************************************************************************)
(* Theorems about Watch, for every set of watches, handlers and readers    *)
(* and every sequence bound.  TypeInvariant and EndedReadersUnregistered   *)
(* hold on the loop and with threads.  The others are about the loop and   *)
(* rest on two invariants: LoopInv, who may be in the middle of a segment  *)
(* and what the registry says of the readers then; and FeedInv, what each  *)
(* handler and reader knows of the blob in the middle of its segment, and  *)
(* how the cursors, the items dealt with and the crashes' losses agree.     *)
(***************************************************************************)
EXTENDS Watch, TLAPS

Reserved(c) == call[c].pc \in {"cursor", "putRead", "putWrite", "register"}

\* Until it is registered, a reader belongs to the one handler that will spawn
\* it; no reader is spawned twice.
Reservations ==
  \A c \in Callers :
    /\ Reserved(c) =>
         /\ rdr[call[c].reader].pc \in Ended
         /\ \A w \in Watches : live[w] # call[c].reader
         /\ \A d \in Callers : call[d].reader = call[c].reader => d = c
    /\ call[c].pc = "spawn" =>
         /\ rdr[call[c].reader].pc = "unspawned"
         /\ \A d \in Callers :
              call[d].pc = "spawn" /\ call[d].reader = call[c].reader => d = c

TypeInv == TypeOK /\ Reservations

\* Only the holder of the baton is in the middle of a segment.
Segments ==
  /\ \A c \in Callers : call[c].pc # "idle" => baton = c
  /\ \A r \in Readers :
       /\ rdr[r].pc \notin Ended \cup Awaits \cup {"unspawned"} => baton = r
       /\ rdr[r].pc = "unspawned" =>
            \E c \in Callers : call[c].pc = "spawn" /\ call[c].reader = r

\* What the registry says of the readers, at rest and in the middle of a handler.
Registry ==
  /\ \A w \in Watches : live[w] # NoOne =>
       rdr[live[w]].wid = w /\ rdr[live[w]].pc # "done"
  /\ \A r \in Readers :
       /\ Running(r) /\ ~ rdr[r].stop =>
            \/ live[rdr[r].wid] = r
            \/ \E c \in Callers : call[c].pc = "interrupt" /\ call[c].reader = r
       /\ rdr[r].cancel =>
            \/ \A w \in Watches : live[w] # r
            \/ \E c \in Callers : call[c].pc = "clear"
       /\ rdr[r].pc = "popping" => live[rdr[r].wid] = r
  /\ \A c \in Callers :
       /\ Reserved(c) => ~ HasLive(call[c].wid)
       /\ call[c].pc = "spawn" => /\ live[call[c].wid] = call[c].reader
                                  /\ rdr[call[c].reader].wid = call[c].wid
       /\ call[c].pc = "interrupt" => \A w \in Watches : live[w] # call[c].reader
       /\ call[c].pc = "clear" => \A w \in Watches : ~ HasLive(w)

LoopInv == Segments /\ Registry
----------------------------------------------------------------------------
LEMMA ZeroSeq == 0 \in Seqs
  BY WatchAssumption DEF Seqs

LEMMA EmptyBlobType == EmptyBlob \in Blobs
  BY ZeroSeq DEF EmptyBlob, Blobs

LEMMA FreeReaderType == FreeReader \in ReaderRecords /\ DoneReader \in ReaderRecords
  BY ZeroSeq, EmptyBlobType DEF FreeReader, DoneReader, ReaderRecords, Ended, Awaits

LEMMA NoMarkType == NoMark \in Marks
  BY ZeroSeq DEF NoMark, Marks

LEMMA IdleCallType == IdleCall \in Calls
  BY ZeroSeq, EmptyBlobType DEF IdleCall, Calls

LEMMA RestFields ==
  /\ IdleCall.pc = "idle" /\ IdleCall.reader = NoOne
  /\ FreeReader.pc = "free" /\ DoneReader.pc = "done"
  BY DEF IdleCall, FreeReader, DoneReader

LEMMA InterruptedType ==
  ASSUME NEW x \in ReaderRecords
  PROVE  /\ Interrupted(x) \in ReaderRecords
         /\ Interrupted(x).pc = x.pc
         /\ Interrupted(x).wid = x.wid
         /\ x.pc # "done" => Interrupted(x).stop
<1>. DEFINE y == [x EXCEPT !.stop = TRUE,
                           !.cancel = OnLoop /\ x.pc # "dead",
                           !.client = IF @ = "open" THEN "closeRequested" ELSE @]
<1>1. (OnLoop /\ x.pc # "dead") \in BOOLEAN
  BY WatchAssumption
<1>2. y \in ReaderRecords /\ y.pc = x.pc /\ y.wid = x.wid /\ y.stop
  BY <1>1 DEF ReaderRecords
<1>. QED
  BY <1>2 DEF Interrupted

\* A handler that goes on with the reader it reserved.
LEMMA ReservationKept ==
  ASSUME Reservations, NEW c \in Callers, Reserved(c), UNCHANGED <<live, rdr>>,
         \A d \in Callers \ {c} : call'[d] = call[d],
         call'[c].reader = call[c].reader,
         call'[c].pc \in {"cursor", "putRead", "putWrite", "register"}
  PROVE  Reservations'
  BY DEF Reservations, Reserved

\* A step that takes nothing into reservation, registers nothing and leaves
\* ended and unspawned readers where they are.
LEMMA ReservationsUntouched ==
  ASSUME TypeOK, Reservations,
         \A c \in Callers :
           \/ call'[c] = call[c]
           \/ /\ call'[c].pc \notin {"cursor", "putRead", "putWrite", "register", "spawn"}
              /\ \/ call'[c].reader \in {call[c].reader, NoOne}
                 \/ \E w \in Watches : call'[c].reader = live[w],
         \A w \in Watches : live'[w] \in {live[w], NoOne},
         \A r \in Readers : rdr[r].pc \in Ended \cup {"unspawned"} =>
                               rdr'[r].pc = rdr[r].pc
  PROVE  Reservations'
<1>1. ASSUME NEW c \in Callers,
             call'[c].pc \in {"cursor", "putRead", "putWrite", "register", "spawn"}
      PROVE  call'[c] = call[c] /\ call[c].reader \in Readers /\ call[c].reader # NoOne
  BY <1>1, WatchAssumption DEF TypeOK
<1>2. ASSUME NEW c \in Callers,
             call'[c].pc \in {"cursor", "putRead", "putWrite", "register"}
      PROVE  /\ rdr'[call'[c].reader].pc \in Ended
             /\ \A w \in Watches : live'[w] # call'[c].reader
             /\ \A d \in Callers : call'[d].reader = call'[c].reader => d = c
  <2>1. /\ call'[c] = call[c] /\ call[c].reader \in Readers /\ call[c].reader # NoOne
        /\ Reserved(c)
    BY <1>1, <1>2 DEF Reserved
  <2>2. /\ rdr[call[c].reader].pc \in Ended
        /\ \A w \in Watches : live[w] # call[c].reader
        /\ \A d \in Callers : call[d].reader = call[c].reader => d = c
    BY <2>1 DEF Reservations
  <2>. QED
    BY <2>1, <2>2
<1>3. ASSUME NEW c \in Callers, call'[c].pc = "spawn"
      PROVE  /\ rdr'[call'[c].reader].pc = "unspawned"
             /\ \A d \in Callers :
                  call'[d].pc = "spawn" /\ call'[d].reader = call'[c].reader => d = c
  <2>1. call'[c] = call[c] /\ call[c].reader \in Readers
    BY <1>1, <1>3
  <2>2. /\ rdr[call[c].reader].pc = "unspawned"
        /\ \A d \in Callers :
             call[d].pc = "spawn" /\ call[d].reader = call[c].reader => d = c
    BY <2>1, <1>3 DEF Reservations
  <2>. QED
    BY <1>1, <2>1, <2>2
<1>. QED
  BY <1>2, <1>3 DEF Reservations, Reserved

\* A step of one running reader.
LEMMA ReaderStepTyped ==
  ASSUME TypeOK, Reservations, NEW r \in Readers,
         rdr[r].pc \notin Ended \cup {"unspawned"},
         rdr' = [rdr EXCEPT ![r] = rdr'[r]],
         rdr'[r] \in ReaderRecords,
         rdr'[r].pc = "done" \/ rdr'[r].wid = rdr[r].wid,
         baton' \in {NoOne, r, baton},
         live' = live \/ live' = [live EXCEPT ![rdr[r].wid] = NoOne],
         UNCHANGED <<blob, bound, call, told, lost>>
  PROVE  TypeOK' /\ Reservations'
<1>1. /\ live \in [Watches -> Readers \cup {NoOne}] /\ rdr \in [Readers -> ReaderRecords]
      /\ rdr[r].wid \in Watches
  BY DEF TypeOK, Ended
<1>2. live' \in [Watches -> Readers \cup {NoOne}] /\ \A w \in Watches : live'[w] \in {live[w], NoOne}
  BY <1>1
<1>3. TypeOK'
  BY <1>1, <1>2 DEF TypeOK, Ended
<1>4. Reservations'
  BY <1>1, <1>2, ReservationsUntouched
<1>. QED
  BY <1>3, <1>4

\* Every variable keeps its type and the locals a step reads are set, on the
\* loop and with threads; a reader is reserved by one handler and spawned once.
THEOREM TypeInvariant == Spec => [](TypeOK /\ Reservations)
<1>1. Init => TypeOK /\ Reservations
  BY ZeroSeq, EmptyBlobType, FreeReaderType, IdleCallType, NoMarkType, RestFields
  DEF Init, TypeOK, Reservations, Reserved
<1>2. TypeOK /\ Reservations /\ [Next]_vars => TypeOK' /\ Reservations'
  <2> SUFFICES ASSUME TypeOK, Reservations, [Next]_vars PROVE TypeOK' /\ Reservations'
    OBVIOUS
  <2>0. /\ live \in [Watches -> Readers \cup {NoOne}] /\ blob \in Blobs
        /\ call \in [Callers -> Calls] /\ rdr \in [Readers -> ReaderRecords]
        /\ lost \in [Watches -> SUBSET Seqs]
        /\ \A c \in Callers :
             /\ call[c].pc \notin {"idle", "clear"} => call[c].wid \in Watches
             /\ call[c].pc \in {"cursor", "putRead", "putWrite", "register", "spawn",
                                "interrupt"} => call[c].reader \in Readers
        /\ \A r \in Readers : rdr[r].pc \notin {"free", "done"} => rdr[r].wid \in Watches
    BY DEF TypeOK
  <2>1. ASSUME NEW c \in Callers, NEW w \in Watches, BeginWatch(c, w)
        PROVE  TypeOK' /\ Reservations'
    <3>1. PICK r \in Readers :
            /\ Unused(r)
            /\ call' = [call EXCEPT ![c] =
                 [IdleCall EXCEPT !.pc = "cursor", !.wid = w, !.reader = r]]
      BY <2>1 DEF BeginWatch
    <3>2. call'[c] \in Calls /\ call'[c].pc = "cursor" /\ call'[c].wid = w
          /\ call'[c].reader = r
      BY <2>0, <3>1, IdleCallType DEF Calls, IdleCall
    <3>3. TypeOK'
      BY <2>1, <3>1, <3>2 DEF TypeOK, BeginWatch, Keep
    <3>4. Reservations'
      BY <2>0, <2>1, <3>1, <3>2 DEF BeginWatch, Reservations, Reserved, Unused
    <3>. QED
      BY <3>3, <3>4
  <2>2. ASSUME NEW c \in Callers, ReadCursor(c) PROVE TypeOK' /\ Reservations'
    <3>1. call'[c] = [call[c] EXCEPT !.pc = "putRead", !.cursor = blob.cursors[call[c].wid]]
      BY <2>0, <2>2 DEF ReadCursor
    <3>2. call[c] \in Calls /\ blob.cursors[call[c].wid] \in Seqs
      BY <2>0, <2>2 DEF ReadCursor, Calls, Blobs
    <3>3. call'[c] \in Calls
      BY <3>1, <3>2 DEF Calls
    <3>4. TypeOK'
      BY <2>2, <3>1, <3>2, <3>3 DEF TypeOK, ReadCursor, Keep
    <3>5. Reserved(c)
      BY <2>2 DEF ReadCursor, Reserved
    <3>6. /\ call'[c].reader = call[c].reader
          /\ call'[c].pc \in {"cursor", "putRead", "putWrite", "register"}
      BY <3>1, <3>2 DEF Calls
    <3>7. Reservations'
      BY <2>0, <2>2, <3>5, <3>6, ReservationKept DEF ReadCursor
    <3>. QED
      BY <3>4, <3>7
  <2>3. ASSUME NEW c \in Callers, PutRead(c) PROVE TypeOK' /\ Reservations'
    <3>1. call'[c] = [call[c] EXCEPT !.pc = "putWrite", !.copy = blob]
      BY <2>0, <2>3 DEF PutRead
    <3>2. call[c] \in Calls /\ blob \in Blobs
      BY <2>0, <2>3 DEF PutRead, Calls, Blobs
    <3>3. call'[c] \in Calls
      BY <3>1, <3>2 DEF Calls
    <3>4. TypeOK'
      BY <2>3, <3>1, <3>2, <3>3 DEF TypeOK, PutRead, Keep
    <3>5. Reserved(c)
      BY <2>3 DEF PutRead, Reserved
    <3>6. /\ call'[c].reader = call[c].reader
          /\ call'[c].pc \in {"cursor", "putRead", "putWrite", "register"}
      BY <3>1, <3>2 DEF Calls
    <3>7. Reservations'
      BY <2>0, <2>3, <3>5, <3>6, ReservationKept DEF PutRead
    <3>. QED
      BY <3>4, <3>7
  <2>4. ASSUME NEW c \in Callers, PutWrite(c) PROVE TypeOK' /\ Reservations'
    <3>1. call'[c] = [call[c] EXCEPT !.pc = "register", !.copy = EmptyBlob]
      BY <2>0, <2>4 DEF PutWrite
    <3>2. /\ call[c] \in Calls /\ call[c].copy \in Blobs /\ call[c].wid \in Watches
          /\ call[c].cursor \in Seqs
      BY <2>0, <2>4 DEF PutWrite, Calls
    <3>3. call'[c] \in Calls
      BY <3>1, <3>2, EmptyBlobType DEF Calls
    <3>4. blob' \in Blobs
      BY <2>4, <3>2 DEF PutWrite, WithTarget, Blobs
    <3>5. TypeOK'
      BY <2>4, <3>1, <3>2, <3>3, <3>4 DEF TypeOK, PutWrite, Keep
    <3>6. /\ Reserved(c) /\ call'[c].reader = call[c].reader
          /\ call'[c].pc \in {"cursor", "putRead", "putWrite", "register"}
      BY <2>4, <3>1, <3>2, ZenonT(40) DEF PutWrite, Reserved, Calls
    <3>7. Reservations'
      BY <2>0, <2>4, <3>6, ReservationKept DEF PutWrite
    <3>. QED
      BY <3>5, <3>7
  <2>5. ASSUME NEW c \in Callers, Register(c) PROVE TypeOK' /\ Reservations'
    <3>1. call'[c] = [call[c] EXCEPT !.pc = "spawn"]
      BY <2>0, <2>5 DEF Register
    <3>2. /\ call[c].reader \in Readers /\ call[c].wid \in Watches
          /\ call[c].cursor \in Seqs /\ call[c] \in Calls
      BY <2>0, <2>5 DEF Register, Calls
    <3>3. call'[c] \in Calls
      BY <3>1, <3>2 DEF Calls
    <3>4. /\ rdr'[call[c].reader] \in ReaderRecords
          /\ rdr'[call[c].reader].pc = "unspawned"
          /\ rdr'[call[c].reader].wid = call[c].wid
      BY <2>0, <2>5, <3>2, FreeReaderType DEF Register, ReaderRecords, FreeReader
    <3>5. TypeOK'
      BY <2>5, <3>1, <3>2, <3>3, <3>4 DEF TypeOK, Register, Keep
    <3>6. Reservations'
      BY <2>0, <2>5, <3>1, <3>2, <3>4 DEF Register, Reservations, Reserved, Calls
    <3>. QED
      BY <3>5, <3>6
  <2>6. ASSUME NEW c \in Callers, Spawn(c) PROVE TypeOK' /\ Reservations'
    <3>1. call[c].reader \in Readers /\ rdr[call[c].reader].pc = "unspawned"
      BY <2>0, <2>6 DEF Spawn, Reservations
    <3>2. /\ rdr'[call[c].reader] \in ReaderRecords
          /\ rdr'[call[c].reader].wid = rdr[call[c].reader].wid
      BY <2>0, <2>6, <3>1 DEF Spawn, ReaderRecords, Awaits
    <3>3. TypeOK'
      BY <2>6, <3>1, <3>2, IdleCallType, RestFields DEF TypeOK, Spawn, Yield
    <3>4. /\ call'[c].pc = "idle" /\ call'[c].reader = NoOne
          /\ \A d \in Callers \ {c} : call'[d] = call[d]
          /\ \A q \in Readers \ {call[c].reader} : rdr'[q] = rdr[q]
      BY <2>0, <2>6, RestFields DEF Spawn
    <3>5. \A d \in Callers \ {c} : Reserved(d) \/ call[d].pc = "spawn" =>
            call[d].reader \in Readers \ {call[c].reader} /\ call[d].reader # NoOne
      BY <2>0, <2>6, WatchAssumption DEF Spawn, Reservations, Reserved
    <3>6. ASSUME NEW d \in Callers, Reserved(d)'
          PROVE  /\ rdr'[call'[d].reader].pc \in Ended
                 /\ \A w \in Watches : live'[w] # call'[d].reader
                 /\ \A e \in Callers : call'[e].reader = call'[d].reader => e = d
      <4>1. d # c /\ call'[d] = call[d] /\ Reserved(d)
        BY <3>4, <3>6 DEF Reserved
      <4>2. /\ rdr[call[d].reader].pc \in Ended
            /\ \A w \in Watches : live[w] # call[d].reader
            /\ \A e \in Callers : call[e].reader = call[d].reader => e = d
        BY <4>1 DEF Reservations
      <4>. QED
        BY <2>6, <3>4, <3>5, <4>1, <4>2 DEF Spawn
    <3>7. ASSUME NEW d \in Callers, call'[d].pc = "spawn"
          PROVE  /\ rdr'[call'[d].reader].pc = "unspawned"
                 /\ \A e \in Callers :
                      call'[e].pc = "spawn" /\ call'[e].reader = call'[d].reader => e = d
      <4>1. d # c /\ call'[d] = call[d]
        BY <3>4, <3>7
      <4>2. /\ rdr[call[d].reader].pc = "unspawned"
            /\ \A e \in Callers :
                 call[e].pc = "spawn" /\ call[e].reader = call[d].reader => e = d
        BY <3>7, <4>1 DEF Reservations
      <4>. QED
        BY <3>4, <3>5, <3>7, <4>1, <4>2
    <3>. QED
      BY <3>3, <3>6, <3>7 DEF Reservations, Reserved
  <2>7. ASSUME NEW c \in Callers, NEW w \in Watches, UnwatchPop(c, w)
        PROVE  TypeOK' /\ Reservations'
    <3>1. call'[c] = [IdleCall EXCEPT !.wid = w, !.reader = live[w],
                     !.pc = IF live[w] = NoOne THEN "dropRead" ELSE "interrupt"]
      BY <2>0, <2>7 DEF UnwatchPop
    <3>2. /\ call'[c].wid = w /\ call'[c].reader = live[w]
          /\ call'[c].pc = IF live[w] = NoOne THEN "dropRead" ELSE "interrupt"
          /\ call'[c] \in Calls
      BY <2>0, <3>1, ZeroSeq, EmptyBlobType, ZenonT(40) DEF IdleCall, Calls
    <3>3. TypeOK'
      BY <2>7, <3>2 DEF TypeOK, UnwatchPop, Keep
    <3>4. Reservations'
      BY <2>0, <2>7, <3>2, ReservationsUntouched DEF UnwatchPop
    <3>. QED
      BY <3>3, <3>4
  <2>8. ASSUME NEW c \in Callers, Interrupt(c) PROVE TypeOK' /\ Reservations'
    <3>1. call'[c] = [call[c] EXCEPT !.pc = "dropRead", !.reader = NoOne]
      BY <2>0, <2>8 DEF Interrupt
    <3>2. call[c].reader \in Readers /\ call[c] \in Calls
      BY <2>0, <2>8 DEF Interrupt
    <3>3. call'[c] \in Calls /\ call'[c].pc = "dropRead" /\ call'[c].reader = NoOne
          /\ call'[c].wid = call[c].wid
      BY <3>1, <3>2 DEF Calls
    <3>4. rdr' = [rdr EXCEPT ![call[c].reader] = Interrupted(rdr[call[c].reader])]
      BY <2>8 DEF Interrupt
    <3>5. \A q \in Readers : /\ rdr'[q] \in ReaderRecords
                             /\ rdr'[q].pc = rdr[q].pc
                             /\ rdr'[q].wid = rdr[q].wid
      BY <2>0, <3>2, <3>4, InterruptedType
    <3>6. TypeOK'
      BY <2>8, <3>3, <3>4, <3>5 DEF TypeOK, Interrupt, Keep
    <3>7. Reservations'
      BY <2>0, <2>8, <3>3, <3>5, ReservationsUntouched DEF Interrupt
    <3>. QED
      BY <3>6, <3>7
  <2>9. ASSUME NEW c \in Callers, DropRead(c) PROVE TypeOK' /\ Reservations'
    <3>1. call'[c] = [call[c] EXCEPT !.pc = "dropWrite", !.copy = blob]
      BY <2>0, <2>9 DEF DropRead
    <3>2. call'[c] \in Calls /\ call'[c].pc = "dropWrite" /\ call'[c].wid = call[c].wid
          /\ call'[c].reader = call[c].reader
      BY <2>0, <3>1, ZenonT(40) DEF Calls
    <3>3. TypeOK'
      BY <2>9, <3>2 DEF TypeOK, DropRead, Keep
    <3>4. Reservations'
      BY <2>0, <2>9, <3>2, ReservationsUntouched DEF DropRead
    <3>. QED
      BY <3>3, <3>4
  <2>10. ASSUME NEW c \in Callers, DropWrite(c) PROVE TypeOK' /\ Reservations'
    <3>1. call[c].copy \in Blobs
      BY <2>0 DEF Calls
    <3>2. blob' \in Blobs
      BY <2>10, <3>1, ZeroSeq DEF DropWrite, WithoutTarget, Blobs
    <3>3. TypeOK'
      BY <2>10, <3>2, IdleCallType, NoMarkType, RestFields DEF TypeOK, DropWrite, Yield
    <3>4. Reservations'
      BY <2>0, <2>10, RestFields, ReservationsUntouched DEF DropWrite
    <3>. QED
      BY <3>3, <3>4
  <2>11. ASSUME NEW c \in Callers, UnloadInterrupt(c) PROVE TypeOK' /\ Reservations'
    <3>1. call'[c] = [call[c] EXCEPT !.pc = "clear"]
      BY <2>0, <2>11 DEF UnloadInterrupt
    <3>2. call'[c] \in Calls /\ call'[c].pc = "clear" /\ call'[c].reader = call[c].reader
      BY <2>0, <3>1 DEF Calls
    <3>3. \A q \in Readers : /\ rdr'[q] \in ReaderRecords
                             /\ rdr'[q].pc = rdr[q].pc
                             /\ rdr'[q].wid = rdr[q].wid
      BY <2>0, <2>11, InterruptedType DEF UnloadInterrupt
    <3>4. rdr' \in [Readers -> ReaderRecords]
      BY <2>11, <3>3 DEF UnloadInterrupt
    <3>5. call' \in [Callers -> Calls] /\ baton' \in Callers \cup Readers \cup {NoOne}
          /\ \A d \in Callers \ {c} : call'[d] = call[d]
      BY <2>0, <2>11, <3>2 DEF UnloadInterrupt, Keep
    <3>6. TypeOK'
      BY <2>11, <3>2, <3>3, <3>4, <3>5 DEF TypeOK, UnloadInterrupt
    <3>7. Reservations'
      BY <2>0, <2>11, <3>2, <3>3, ReservationsUntouched DEF UnloadInterrupt
    <3>. QED
      BY <3>6, <3>7
  <2>12. ASSUME NEW c \in Callers, UnloadClear(c) PROVE TypeOK' /\ Reservations'
    <3>1. TypeOK'
      BY <2>12, IdleCallType, RestFields DEF TypeOK, UnloadClear, Yield
    <3>2. Reservations'
      BY <2>0, <2>12, RestFields, ReservationsUntouched DEF UnloadClear
    <3>. QED
      BY <3>1, <3>2
  <2>13. ASSUME Reload PROVE TypeOK' /\ Reservations'
    <3>1. TypeOK'
      BY <2>13 DEF TypeOK, Reload
    <3>2. Reservations'
      BY <2>13, ReservationsUntouched DEF Reload
    <3>. QED
      BY <3>1, <3>2
  <2>14. ASSUME NEW r \in Readers, BodyStarts(r) PROVE TypeOK' /\ Reservations'
    <3>1. rdr[r] \in ReaderRecords /\ rdr[r].pc \notin Ended \cup {"unspawned"}
      BY <2>0, <2>14 DEF BodyStarts, Resumes, At, Ended, Awaits
    <3>2. /\ rdr' = [rdr EXCEPT ![r] = rdr'[r]]
          /\ rdr'[r] \in ReaderRecords
          /\ rdr'[r].pc = "done" \/ rdr'[r].wid = rdr[r].wid
      BY <2>0, <2>14, <3>1, FreeReaderType, RestFields
      DEF BodyStarts, Resumes, At, ReaderRecords, Ended, Awaits
    <3>. QED
      BY <2>0, <2>14, <3>1, <3>2, ReaderStepTyped DEF BodyStarts, Resumes, At, Keep, Yield
  <2>15. ASSUME NEW r \in Readers, FactoryFails(r) PROVE TypeOK' /\ Reservations'
    <3>1. rdr[r] \in ReaderRecords /\ rdr[r].pc \notin Ended \cup {"unspawned"}
      BY <2>0, <2>15 DEF FactoryFails, Resumes, At, Ended, Awaits
    <3>2. /\ rdr' = [rdr EXCEPT ![r] = rdr'[r]]
          /\ rdr'[r] \in ReaderRecords
          /\ rdr'[r].pc = "done" \/ rdr'[r].wid = rdr[r].wid
      BY <2>0, <2>15, <3>1, FreeReaderType, RestFields
      DEF FactoryFails, Resumes, At, ReaderRecords, Ended, Awaits
    <3>. QED
      BY <2>0, <2>15, <3>1, <3>2, ReaderStepTyped DEF FactoryFails, Resumes, At, Keep, Yield
  <2>16. ASSUME NEW r \in Readers, Connected(r) PROVE TypeOK' /\ Reservations'
    <3>1. rdr[r] \in ReaderRecords /\ rdr[r].pc \notin Ended \cup {"unspawned"}
      BY <2>0, <2>16 DEF Connected, Resumes, At, Ended, Awaits
    <3>2. /\ rdr' = [rdr EXCEPT ![r] = rdr'[r]]
          /\ rdr'[r] \in ReaderRecords
          /\ rdr'[r].pc = "done" \/ rdr'[r].wid = rdr[r].wid
      BY <2>0, <2>16, <3>1, FreeReaderType, RestFields
      DEF Connected, Resumes, At, ReaderRecords, Ended, Awaits
    <3>. QED
      BY <2>0, <2>16, <3>1, <3>2, ReaderStepTyped DEF Connected, Resumes, At, Keep, Yield
  <2>17. ASSUME NEW r \in Readers, StreamEnds(r) PROVE TypeOK' /\ Reservations'
    <3>1. rdr[r] \in ReaderRecords /\ rdr[r].pc \notin Ended \cup {"unspawned"}
      BY <2>0, <2>17 DEF StreamEnds, Resumes, At, Ended, Awaits
    <3>2. /\ rdr' = [rdr EXCEPT ![r] = rdr'[r]]
          /\ rdr'[r] \in ReaderRecords
          /\ rdr'[r].pc = "done" \/ rdr'[r].wid = rdr[r].wid
      BY <2>0, <2>17, <3>1, FreeReaderType, RestFields
      DEF StreamEnds, Resumes, At, ReaderRecords, Ended, Awaits
    <3>. QED
      BY <2>0, <2>17, <3>1, <3>2, ReaderStepTyped DEF StreamEnds, Resumes, At, Keep, Yield
  <2>18. ASSUME NEW r \in Readers, StopNoticed(r) PROVE TypeOK' /\ Reservations'
    <3>1. rdr[r] \in ReaderRecords /\ rdr[r].pc \notin Ended \cup {"unspawned"}
      BY <2>0, <2>18 DEF StopNoticed, Resumes, At, Ended, Awaits
    <3>2. /\ rdr' = [rdr EXCEPT ![r] = rdr'[r]]
          /\ rdr'[r] \in ReaderRecords
          /\ rdr'[r].pc = "done" \/ rdr'[r].wid = rdr[r].wid
      BY <2>0, <2>18, <3>1, FreeReaderType, RestFields
      DEF StopNoticed, Resumes, At, ReaderRecords, Ended, Awaits
    <3>. QED
      BY <2>0, <2>18, <3>1, <3>2, ReaderStepTyped DEF StopNoticed, Resumes, At, Keep, Yield
  <2>19. ASSUME NEW r \in Readers, NEW s \in Seqs, NEW says \in BOOLEAN,
                Receive(r, s, says) \/ ReceiveSnapshot(r, s, says)
        PROVE  TypeOK' /\ Reservations'
    <3>1. /\ rdr[r] \in ReaderRecords /\ rdr[r].pc \notin Ended \cup {"unspawned"}
          /\ May(r) /\ Keep(r) /\ UNCHANGED <<live, blob, bound, call, told, lost>>
      BY <2>0, <2>19 DEF Receive, ReceiveSnapshot, Resumes, At, Ended
    <3>2. rdr' = [rdr EXCEPT ![r] = rdr'[r]]
      BY <2>0, <2>19 DEF Receive, ReceiveSnapshot
    <3>3. rdr'[r] \in ReaderRecords /\ rdr'[r].wid = rdr[r].wid
      <4>1. CASE Receive(r, s, says)
        <5>1. /\ (IF s > rdr[r].seq THEN "event" ELSE "none") \in {"none", "event", "snapshot"}
              /\ (IF s > rdr[r].seq THEN s ELSE rdr[r].seq) \in Seqs
              /\ (says /\ s > rdr[r].seq) \in BOOLEAN
          BY <3>1 DEF ReaderRecords
        <5>2. rdr'[r] = [rdr[r] EXCEPT !.pc = "saveRead",
                           !.item = IF s > rdr[r].seq THEN "event" ELSE "none",
                           !.seq = IF s > rdr[r].seq THEN s ELSE rdr[r].seq,
                           !.says = says /\ s > rdr[r].seq]
          BY <2>0, <4>1 DEF Receive
        <5>. QED
          BY <3>1, <5>1, <5>2 DEF ReaderRecords
      <4>2. CASE ReceiveSnapshot(r, s, says)
        BY <2>0, <3>1, <4>2 DEF ReceiveSnapshot, ReaderRecords
      <4>. QED
        BY <2>19, <4>1, <4>2
    <3>. QED
      BY <2>0, <3>1, <3>2, <3>3, ReaderStepTyped DEF Keep
  <2>20. ASSUME NEW r \in Readers, SaveRead(r) PROVE TypeOK' /\ Reservations'
    <3>1. rdr[r] \in ReaderRecords /\ rdr[r].pc \notin Ended \cup {"unspawned"}
      BY <2>0, <2>20 DEF SaveRead, At, Ended, Awaits
    <3>2. /\ rdr' = [rdr EXCEPT ![r] = rdr'[r]]
          /\ rdr'[r] \in ReaderRecords
          /\ rdr'[r].pc = "done" \/ rdr'[r].wid = rdr[r].wid
      BY <2>0, <2>20, <3>1, FreeReaderType, RestFields
      DEF SaveRead, At, ReaderRecords, Ended, Awaits
    <3>. QED
      BY <2>0, <2>20, <3>1, <3>2, ReaderStepTyped DEF SaveRead, At, Keep, Yield
  <2>21. ASSUME NEW r \in Readers, SaveWrite(r) PROVE TypeOK' /\ Reservations'
    <3>1. /\ rdr[r] \in ReaderRecords /\ rdr[r].pc = "saveWrite"
          /\ rdr[r].copy \in Blobs /\ rdr[r].wid \in Watches /\ rdr[r].seq \in Seqs
      BY <2>0, <2>21 DEF SaveWrite, At, ReaderRecords
    <3>2. blob' \in Blobs
      BY <2>21, <3>1 DEF SaveWrite, WithCursor, Blobs
    <3>3. rdr'[r] \in ReaderRecords /\ rdr'[r].wid = rdr[r].wid
      <4>1. rdr'[r] = [rdr[r] EXCEPT
                         !.pc = IF rdr[r].says THEN "inject" ELSE "streaming",
                         !.copy = EmptyBlob,
                         !.item = IF rdr[r].says THEN rdr[r].item ELSE "none"]
        BY <2>0, <2>21 DEF SaveWrite
      <4>. QED
        BY <3>1, <4>1, EmptyBlobType DEF ReaderRecords, Awaits
    <3>4. told' \in [Watches -> Marks]
      <4>1. Saved(rdr[r], told[rdr[r].wid]) \in Marks
        BY <3>1 DEF TypeOK, Saved, Marks
      <4>. QED
        BY <2>21, <4>1 DEF TypeOK, SaveWrite
    <3>5. lost' \in [Watches -> SUBSET Seqs]
      BY <2>0, <2>21, <3>1 DEF SaveWrite
    <3>6. baton' \in Callers \cup Readers \cup {NoOne}
      BY <2>21 DEF SaveWrite, Keep, Yield
    <3>7. TypeOK'
      BY <2>0, <2>21, <3>1, <3>2, <3>3, <3>4, <3>5, <3>6 DEF TypeOK, SaveWrite
    <3>8. Reservations'
      BY <2>0, <2>21, <3>1, ReservationsUntouched DEF SaveWrite, Ended
    <3>. QED
      BY <3>7, <3>8
  <2>22. ASSUME NEW r \in Readers, Inject(r) PROVE TypeOK' /\ Reservations'
    <3>1. rdr[r] \in ReaderRecords /\ rdr[r].pc = "inject" /\ rdr[r].seq \in Seqs
      BY <2>0, <2>22 DEF Inject, At, ReaderRecords
    <3>2. rdr'[r] \in ReaderRecords /\ rdr'[r].wid = rdr[r].wid
      BY <2>0, <2>22, <3>1 DEF Inject, ReaderRecords, Awaits
    <3>3. told' \in [Watches -> Marks]
      BY <2>22, <3>1 DEF TypeOK, Inject, Marks
    <3>4. TypeOK'
      BY <2>22, <3>1, <3>2, <3>3 DEF TypeOK, Inject, Yield
    <3>5. Reservations'
      BY <2>0, <2>22, <3>1, ReservationsUntouched DEF Inject, Ended
    <3>. QED
      BY <3>4, <3>5
  <2>23. ASSUME NEW r \in Readers, CloseRuns(r) PROVE TypeOK' /\ Reservations'
    <3>1. rdr[r] \in ReaderRecords /\ rdr[r].pc \notin Ended \cup {"unspawned"}
      BY <2>0, <2>23 DEF CloseRuns, Ended, Awaits
    <3>2. /\ rdr' = [rdr EXCEPT ![r] = rdr'[r]]
          /\ rdr'[r] \in ReaderRecords
          /\ rdr'[r].pc = "done" \/ rdr'[r].wid = rdr[r].wid
      BY <2>0, <2>23, <3>1, FreeReaderType, RestFields
      DEF CloseRuns, ReaderRecords, Ended, Awaits
    <3>. QED
      BY <2>0, <2>23, <3>1, <3>2, ReaderStepTyped DEF CloseRuns, Keep, Yield
  <2>24. ASSUME NEW r \in Readers, Cancelled(r) PROVE TypeOK' /\ Reservations'
    <3>1. rdr[r] \in ReaderRecords /\ rdr[r].pc \notin Ended \cup {"unspawned"}
      BY <2>0, <2>24 DEF Cancelled, Ended, Awaits
    <3>2. /\ rdr' = [rdr EXCEPT ![r] = rdr'[r]]
          /\ rdr'[r] \in ReaderRecords
          /\ rdr'[r].pc = "done" \/ rdr'[r].wid = rdr[r].wid
      <4>1. rdr'[r] = IF rdr[r].pc \in {"connecting", "streaming"}
                      THEN [rdr[r] EXCEPT !.pc = "closing", !.cancel = FALSE]
                      ELSE DoneReader
        BY <2>0, <2>24 DEF Cancelled
      <4>2. [rdr[r] EXCEPT !.pc = "closing", !.cancel = FALSE] \in ReaderRecords
            /\ [rdr[r] EXCEPT !.pc = "closing", !.cancel = FALSE].wid = rdr[r].wid
        BY <3>1 DEF ReaderRecords, Awaits
      <4>3. rdr' = [rdr EXCEPT ![r] = rdr'[r]]
        BY <2>0, <2>24 DEF Cancelled
      <4>. QED
        BY <4>1, <4>2, <4>3, FreeReaderType, RestFields
    <3>. QED
      BY <2>0, <2>24, <3>1, <3>2, ReaderStepTyped DEF Cancelled, Keep, Yield
  <2>25. ASSUME NEW r \in Readers, ClientClosed(r) PROVE TypeOK' /\ Reservations'
    <3>1. rdr[r] \in ReaderRecords /\ rdr[r].pc \notin Ended \cup {"unspawned"}
      BY <2>0, <2>25 DEF ClientClosed, Resumes, At, Ended, Awaits
    <3>2. /\ rdr' = [rdr EXCEPT ![r] = rdr'[r]]
          /\ rdr'[r] \in ReaderRecords
          /\ rdr'[r].pc = "done" \/ rdr'[r].wid = rdr[r].wid
      BY <2>0, <2>25, <3>1, FreeReaderType, RestFields
      DEF ClientClosed, Resumes, At, ReaderRecords, Ended, Awaits
    <3>. QED
      BY <2>0, <2>25, <3>1, <3>2, ReaderStepTyped DEF ClientClosed, Resumes, At, Keep, Yield
  <2>26. ASSUME NEW r \in Readers, LeaveCheck(r) PROVE TypeOK' /\ Reservations'
    <3>1. rdr[r] \in ReaderRecords /\ rdr[r].pc \notin Ended \cup {"unspawned"}
      BY <2>0, <2>26 DEF LeaveCheck, At, Ended, Awaits
    <3>2. /\ rdr' = [rdr EXCEPT ![r] = rdr'[r]]
          /\ rdr'[r] \in ReaderRecords
          /\ rdr'[r].pc = "done" \/ rdr'[r].wid = rdr[r].wid
      BY <2>0, <2>26, <3>1, FreeReaderType, RestFields
      DEF LeaveCheck, At, ReaderRecords, Ended, Awaits
    <3>. QED
      BY <2>0, <2>26, <3>1, <3>2, ReaderStepTyped DEF LeaveCheck, At, Keep, Yield
  <2>27. ASSUME NEW r \in Readers, LeavePop(r) PROVE TypeOK' /\ Reservations'
    <3>1. rdr[r] \in ReaderRecords /\ rdr[r].pc \notin Ended \cup {"unspawned"}
      BY <2>0, <2>27 DEF LeavePop, At, Ended, Awaits
    <3>2. /\ rdr' = [rdr EXCEPT ![r] = rdr'[r]]
          /\ rdr'[r] \in ReaderRecords
          /\ rdr'[r].pc = "done" \/ rdr'[r].wid = rdr[r].wid
      BY <2>0, <2>27, <3>1, FreeReaderType, RestFields
      DEF LeavePop, At, ReaderRecords, Ended, Awaits
    <3>. QED
      BY <2>0, <2>27, <3>1, <3>2, ReaderStepTyped DEF LeavePop, At, Keep, Yield
  <2>28. ASSUME Crash PROVE TypeOK' /\ Reservations'
    <3>1. lost' \in [Watches -> SUBSET Seqs]
      BY <2>0, <2>28 DEF Crash, ReaderRecords
    <3>2. TypeOK'
      BY <2>28, <3>1, FreeReaderType, IdleCallType, RestFields DEF TypeOK, Crash
    <3>3. Reservations'
      BY <2>28, RestFields DEF Crash, Reservations, Reserved
    <3>. QED
      BY <3>2, <3>3
  <2>29. ASSUME UNCHANGED vars PROVE TypeOK' /\ Reservations'
    <3>1. TypeOK'
      BY <2>29 DEF TypeOK, vars
    <3>2. Reservations'
      BY <2>29, ReservationsUntouched DEF vars
    <3>. QED
      BY <3>1, <3>2
  <2>. QED
    BY <2>1, <2>2, <2>3, <2>4, <2>5, <2>6, <2>7, <2>8, <2>9, <2>10, <2>11,
       <2>12, <2>13, <2>14, <2>15, <2>16, <2>17, <2>18, <2>19, <2>20, <2>21, <2>22,
       <2>23, <2>24, <2>25, <2>26, <2>27, <2>28, <2>29
    DEF Next, ItemArrives, Continue, Advance, AlreadyWatched
<1>. QED
  BY <1>1, <1>2, PTL DEF Spec
----------------------------------------------------------------------------
(* The loop *)

Loop == OnLoop = TRUE /\ TypeInv /\ LoopInv

\* While a handler runs, the other handlers have not begun and every reader is
\* suspended, or is the one this handler is about to spawn.
LEMMA HandlerAlone ==
  ASSUME Loop, NEW c \in Callers, May(c)
  PROVE  /\ \A d \in Callers \ {c} : call[d].pc = "idle"
         /\ \A r \in Readers : rdr[r].pc \in Ended \cup Awaits \cup {"unspawned"}
         /\ \A r \in Readers : rdr[r].pc = "unspawned" =>
              call[c].pc = "spawn" /\ call[c].reader = r
  BY WatchAssumption DEF Loop, LoopInv, Segments, May

\* While a reader runs, no handler has begun and every other reader is suspended.
LEMMA ReaderAlone ==
  ASSUME Loop, NEW r \in Readers, May(r)
  PROVE  /\ \A c \in Callers : call[c].pc = "idle"
         /\ \A q \in Readers \ {r} : rdr[q].pc \in Ended \cup Awaits
         /\ rdr[r].pc # "unspawned"
  BY WatchAssumption DEF Loop, LoopInv, Segments, May

\* A step of a handler that touches neither the registry nor a reader.
LEMMA HandlerStep ==
  ASSUME Loop, NEW c \in Callers, May(c), UNCHANGED <<live, rdr>>,
         \A d \in Callers \ {c} : call'[d] = call[d],
         call[c].pc \notin {"spawn", "interrupt", "clear"},
         call'[c].pc \notin {"spawn", "interrupt", "clear"},
         call'[c].pc # "idle" => baton' = c,
         Reserved(c)' => ~ HasLive(call'[c].wid)
  PROVE  LoopInv'
<1>1. \A d \in Callers : d # c => call'[d] = call[d] /\ call[d].pc = "idle"
  BY HandlerAlone
<1>2. \A r \in Readers : rdr[r].pc \in Ended \cup Awaits
  BY HandlerAlone
<1>3. Segments'
  BY <1>1, <1>2 DEF Segments, Ended, Awaits
<1>4. Registry'
  BY <1>1, <1>2 DEF Loop, LoopInv, Registry, Reserved, HasLive, Running, Ended, Awaits
<1>. QED
  BY <1>3, <1>4 DEF LoopInv

\* A step of a reader that leaves the registry alone.
LEMMA ReaderStep ==
  ASSUME Loop, NEW r \in Readers, May(r), UNCHANGED <<live, call>>,
         rdr[r].pc \notin Ended,
         rdr' = [rdr EXCEPT ![r] = rdr'[r]],
         rdr'[r].pc # "unspawned",
         rdr'[r].pc \notin Ended \cup Awaits => baton' = r,
         rdr'[r].pc = "done" => \A w \in Watches : live[w] # r,
         rdr'[r].pc # "done" => rdr'[r].wid = rdr[r].wid /\ rdr'[r].stop = rdr[r].stop,
         rdr'[r].cancel => rdr[r].cancel,
         rdr'[r].pc = "popping" => live[rdr[r].wid] = r
  PROVE  LoopInv'
<1>1. /\ \A c \in Callers : call'[c].pc = "idle"
      /\ \A q \in Readers : q # r => rdr'[q] = rdr[q] /\ rdr[q].pc \in Ended \cup Awaits
      /\ rdr[r].pc # "unspawned"
  BY ReaderAlone DEF Loop, TypeInv, TypeOK
<1>2. Segments'
  BY <1>1 DEF Segments, Ended, Awaits
<1>3. /\ \A w \in Watches : live[w] # NoOne => rdr[live[w]].wid = w /\ rdr[live[w]].pc # "done"
      /\ \A q \in Readers :
           /\ Running(q) /\ ~ rdr[q].stop => live[rdr[q].wid] = q
           /\ rdr[q].cancel => \A w \in Watches : live[w] # q
      /\ live \in [Watches -> Readers \cup {NoOne}]
  BY <1>1 DEF Loop, TypeInv, TypeOK, LoopInv, Registry
<1>4. \A w \in Watches : live'[w] # NoOne =>
        rdr'[live'[w]].wid = w /\ rdr'[live'[w]].pc # "done"
  BY <1>1, <1>3
<1>5. ASSUME NEW q \in Readers
      PROVE  /\ Running(q)' /\ ~ rdr'[q].stop => live'[rdr'[q].wid] = q
             /\ rdr'[q].cancel => \A w \in Watches : live'[w] # q
             /\ rdr'[q].pc = "popping" => live'[rdr'[q].wid] = q
  <2>1. CASE q = r
    BY <1>1, <1>3, <2>1 DEF Running, Ended
  <2>2. CASE q # r
    BY <1>1, <1>3, <2>2 DEF Running, Ended, Awaits
  <2>. QED
    BY <2>1, <2>2
<1>6. Registry'
  BY <1>1, <1>4, <1>5 DEF Registry, Reserved
<1>. QED
  BY <1>2, <1>6 DEF LoopInv

LEMMA LoopInvStarts == ASSUME Init PROVE LoopInv
<1>1. /\ \A c \in Callers : call[c].pc = "idle"
      /\ \A r \in Readers : rdr[r].pc = "free" /\ ~ rdr[r].cancel
      /\ \A w \in Watches : live[w] = NoOne
  BY RestFields DEF Init, FreeReader
<1>. QED
  BY <1>1 DEF LoopInv, Segments, Registry, Reserved, Running, Ended

LEMMA LoopInvKept == ASSUME Loop, [Next]_vars PROVE LoopInv'
<1>0. /\ live \in [Watches -> Readers \cup {NoOne}]
      /\ call \in [Callers -> Calls] /\ rdr \in [Readers -> ReaderRecords]
      /\ NoOne \notin Watches \cup Callers \cup Readers /\ OnLoop = TRUE
      /\ Registry
  BY WatchAssumption DEF Loop, TypeInv, TypeOK, LoopInv
<1>1. ASSUME NEW c \in Callers, NEW w \in Watches, BeginWatch(c, w) PROVE LoopInv'
  <2>1. /\ call'[c].pc = "cursor" /\ call'[c].wid = w
        /\ \A d \in Callers \ {c} : call'[d] = call[d]
    BY <1>0, <1>1 DEF BeginWatch, IdleCall
  <2>. QED
    BY <1>0, <1>1, <2>1, HandlerStep DEF BeginWatch, Keep
<1>2. ASSUME NEW c \in Callers, ReadCursor(c) PROVE LoopInv'
  <2>1. /\ call'[c].pc = "putRead" /\ call'[c].wid = call[c].wid
        /\ \A d \in Callers \ {c} : call'[d] = call[d]
    BY <1>0, <1>2 DEF ReadCursor, Calls
  <2>2. ~ HasLive(call[c].wid)
    BY <1>0, <1>2 DEF ReadCursor, Registry, Reserved
  <2>. QED
    BY <1>0, <1>2, <2>1, <2>2, HandlerStep DEF ReadCursor, Keep
<1>3. ASSUME NEW c \in Callers, PutRead(c) PROVE LoopInv'
  <2>1. /\ call'[c].pc = "putWrite" /\ call'[c].wid = call[c].wid
        /\ \A d \in Callers \ {c} : call'[d] = call[d]
    BY <1>0, <1>3 DEF PutRead, Calls
  <2>2. ~ HasLive(call[c].wid)
    BY <1>0, <1>3 DEF PutRead, Registry, Reserved
  <2>. QED
    BY <1>0, <1>3, <2>1, <2>2, HandlerStep DEF PutRead, Keep
<1>4. ASSUME NEW c \in Callers, PutWrite(c) PROVE LoopInv'
  <2>1. /\ call'[c].pc = "register" /\ call'[c].wid = call[c].wid
        /\ \A d \in Callers \ {c} : call'[d] = call[d]
    BY <1>0, <1>4 DEF PutWrite, Calls
  <2>2. ~ HasLive(call[c].wid)
    BY <1>0, <1>4 DEF PutWrite, Registry, Reserved
  <2>. QED
    BY <1>0, <1>4, <2>1, <2>2, HandlerStep DEF PutWrite, Keep
<1>5. ASSUME NEW c \in Callers, DropRead(c) PROVE LoopInv'
  <2>1. /\ call'[c].pc = "dropWrite" /\ \A d \in Callers \ {c} : call'[d] = call[d]
    BY <1>0, <1>5 DEF DropRead, Calls
  <2>. QED
    BY <1>0, <1>5, <2>1, HandlerStep DEF DropRead, Keep, Reserved
<1>6. ASSUME NEW c \in Callers, DropWrite(c) PROVE LoopInv'
  <2>1. /\ call'[c].pc = "idle" /\ \A d \in Callers \ {c} : call'[d] = call[d]
    BY <1>0, <1>6, RestFields DEF DropWrite
  <2>. QED
    BY <1>0, <1>6, <2>1, HandlerStep DEF DropWrite, Reserved
<1>7. ASSUME NEW c \in Callers, Register(c) PROVE LoopInv'
  <2>1. /\ \A d \in Callers \ {c} : call'[d] = call[d] /\ call[d].pc = "idle"
        /\ \A q \in Readers : rdr[q].pc \in Ended \cup Awaits \cup {"unspawned"}
        /\ \A q \in Readers : rdr[q].pc = "unspawned" =>
             call[c].pc = "spawn" /\ call[c].reader = q
    BY <1>0, <1>7, HandlerAlone DEF Register
  <2> DEFINE r == call[c].reader
  <2>2. /\ r \in Readers /\ call[c].wid \in Watches /\ \A w \in Watches : live[w] # r
        /\ ~ HasLive(call[c].wid)
    BY <1>0, <1>7 DEF Register, Loop, TypeInv, TypeOK, Reservations, Reserved, Registry
  <2>3. /\ rdr'[r].pc = "unspawned" /\ rdr'[r].wid = call[c].wid
        /\ ~ rdr'[r].stop /\ ~ rdr'[r].cancel
        /\ \A q \in Readers \ {r} : rdr'[q] = rdr[q]
        /\ call'[c].pc = "spawn" /\ call'[c].reader = r /\ call'[c].wid = call[c].wid
        /\ live'[call[c].wid] = r
        /\ \A w \in Watches \ {call[c].wid} : live'[w] = live[w]
    BY <1>0, <1>7, <2>2 DEF Register, FreeReader, Calls
  <2>4. Segments'
    BY <1>0, <1>7, <2>1, <2>3 DEF Register, Segments, Keep, Ended, Awaits
  <2>5. \A w \in Watches : live'[w] # NoOne =>
          rdr'[live'[w]].wid = w /\ rdr'[live'[w]].pc # "done"
    BY <1>0, <2>2, <2>3 DEF Registry
  <2>6. ASSUME NEW q \in Readers
        PROVE  /\ Running(q)' /\ ~ rdr'[q].stop => live'[rdr'[q].wid] = q
               /\ rdr'[q].cancel => \A w \in Watches : live'[w] # q
               /\ rdr'[q].pc # "popping"
    <3>1. CASE q = r
      BY <1>0, <2>2, <2>3, <3>1 DEF Running, Ended
    <3>2. CASE q # r
      <4>1. rdr'[q] = rdr[q] /\ rdr[q].pc \in Ended \cup Awaits
        BY <2>1, <2>3, <3>2
      <4>2. Running(q) /\ ~ rdr[q].stop => live[rdr[q].wid] = q /\ rdr[q].wid # call[c].wid
        BY <1>0, <1>7, <2>1, <2>2 DEF Registry, Register, HasLive
      <4>3. rdr[q].cancel => \A w \in Watches : live[w] # q
        BY <1>0, <1>7, <2>1 DEF Registry, Register
      <4>4. Running(q) => rdr[q].wid \in Watches
        BY DEF Loop, TypeInv, TypeOK, Running, Ended
      <4>5. Running(q)' <=> Running(q)
        BY <4>1 DEF Running
      <4>6. rdr'[q].pc # "popping"
        BY <4>1 DEF Ended, Awaits
      <4>7. Running(q)' /\ ~ rdr'[q].stop => live'[rdr'[q].wid] = q
        BY <2>3, <4>1, <4>2, <4>4, <4>5
      <4>8. rdr'[q].cancel => \A w \in Watches : live'[w] # q
        BY <2>3, <3>2, <4>1, <4>3
      <4>. QED
        BY <4>6, <4>7, <4>8
    <3>. QED
      BY <3>1, <3>2
  <2>7. Registry'
    BY <1>0, <2>1, <2>3, <2>5, <2>6 DEF Registry, Reserved
  <2>. QED
    BY <2>4, <2>7 DEF LoopInv
<1>8. ASSUME NEW c \in Callers, Spawn(c) PROVE LoopInv'
  <2>1. /\ \A d \in Callers \ {c} : call'[d] = call[d] /\ call[d].pc = "idle"
        /\ \A q \in Readers : rdr[q].pc \in Ended \cup Awaits \cup {"unspawned"}
        /\ \A q \in Readers : rdr[q].pc = "unspawned" =>
             call[c].pc = "spawn" /\ call[c].reader = q
    BY <1>0, <1>8, HandlerAlone DEF Spawn
  <2> DEFINE r == call[c].reader
  <2>2. /\ r \in Readers /\ rdr[r].pc = "unspawned"
        /\ live[call[c].wid] = r /\ rdr[r].wid = call[c].wid
    BY <1>0, <1>8 DEF Spawn, Loop, TypeInv, TypeOK, Reservations, Registry
  <2>3. /\ rdr'[r].pc = "new" /\ rdr'[r].wid = rdr[r].wid /\ rdr'[r].cancel = rdr[r].cancel
        /\ \A q \in Readers \ {r} : rdr'[q] = rdr[q]
        /\ call'[c].pc = "idle" /\ live' = live
    BY <1>0, <1>8, <2>2, RestFields DEF Spawn, ReaderRecords
  <2>4. Segments'
    BY <1>0, <1>8, <2>1, <2>3, SMTT(60) DEF Spawn, Segments, Ended, Awaits
  <2>5. Registry'
    BY <1>0, <1>8, <2>1, <2>2, <2>3, SMTT(30)
    DEF Spawn, Registry, Reserved, HasLive, Running, Ended, Awaits
  <2>. QED
    BY <2>4, <2>5 DEF LoopInv
<1>9. ASSUME NEW c \in Callers, NEW w \in Watches, UnwatchPop(c, w) PROVE LoopInv'
  <2>1. /\ \A d \in Callers \ {c} : call'[d] = call[d] /\ call[d].pc = "idle"
        /\ \A q \in Readers : rdr[q].pc \in Ended \cup Awaits \cup {"unspawned"}
        /\ \A q \in Readers : rdr[q].pc = "unspawned" =>
             call[c].pc = "spawn" /\ call[c].reader = q
    BY <1>0, <1>9, HandlerAlone DEF UnwatchPop
  <2>2. /\ call'[c].pc = IF live[w] = NoOne THEN "dropRead" ELSE "interrupt"
        /\ call'[c].reader = live[w] /\ rdr' = rdr
        /\ live'[w] = NoOne /\ \A v \in Watches \ {w} : live'[v] = live[v]
    BY <1>0, <1>9 DEF UnwatchPop, IdleCall
  <2>3. Segments'
    BY <1>0, <1>9, <2>1, <2>2 DEF UnwatchPop, Segments, Keep, Ended, Awaits
  <2>4. Registry'
    BY <1>0, <1>9, <2>1, <2>2
    DEF UnwatchPop, Registry, Reserved, HasLive, Running, Ended, Awaits
  <2>. QED
    BY <2>3, <2>4 DEF LoopInv
<1>10. ASSUME NEW c \in Callers, Interrupt(c) PROVE LoopInv'
  <2>1. /\ \A d \in Callers \ {c} : call'[d] = call[d] /\ call[d].pc = "idle"
        /\ \A q \in Readers : rdr[q].pc \in Ended \cup Awaits \cup {"unspawned"}
        /\ \A q \in Readers : rdr[q].pc = "unspawned" =>
             call[c].pc = "spawn" /\ call[c].reader = q
    BY <1>0, <1>10, HandlerAlone DEF Interrupt
  <2> DEFINE r == call[c].reader
  <2>2. r \in Readers /\ \A w \in Watches : live[w] # r
    BY <1>0, <1>10 DEF Interrupt, Loop, TypeInv, TypeOK, Registry
  <2>3. /\ rdr'[r].pc = rdr[r].pc /\ rdr'[r].wid = rdr[r].wid
        /\ rdr[r].pc # "done" => rdr'[r].stop
        /\ \A q \in Readers \ {r} : rdr'[q] = rdr[q]
        /\ call'[c].pc = "dropRead" /\ live' = live
    <3>1. call'[c].pc = "dropRead" /\ live' = live
      BY <1>0, <1>10 DEF Interrupt, Calls
    <3>2. rdr' = [rdr EXCEPT ![r] = Interrupted(rdr[r])]
      BY <1>10 DEF Interrupt
    <3>. QED
      BY <1>0, <2>2, <3>1, <3>2, InterruptedType
  <2>4. Segments'
    BY <1>0, <1>10, <2>1, <2>3 DEF Interrupt, Segments, Keep, Ended, Awaits
  <2>5. \A w \in Watches : live'[w] # NoOne =>
          rdr'[live'[w]].wid = w /\ rdr'[live'[w]].pc # "done"
    BY <1>0, <2>2, <2>3 DEF Registry
  <2>6. ASSUME NEW q \in Readers
        PROVE  /\ Running(q)' /\ ~ rdr'[q].stop => live'[rdr'[q].wid] = q
               /\ rdr'[q].cancel => \A w \in Watches : live'[w] # q
               /\ rdr'[q].pc # "popping"
    <3>1. CASE q = r
      BY <2>1, <2>2, <2>3, <3>1 DEF Running, Ended, Awaits
    <3>2. CASE q # r
      BY <1>0, <1>10, <2>1, <2>3, <3>2 DEF Interrupt, Registry, Running, Ended, Awaits
    <3>. QED
      BY <3>1, <3>2
  <2>7. Registry'
    BY <2>1, <2>3, <2>5, <2>6 DEF Registry, Reserved
  <2>. QED
    BY <2>4, <2>7 DEF LoopInv
<1>11. ASSUME NEW c \in Callers, UnloadInterrupt(c) PROVE LoopInv'
  <2>1. /\ \A d \in Callers \ {c} : call'[d] = call[d] /\ call[d].pc = "idle"
        /\ \A q \in Readers : rdr[q].pc \in Ended \cup Awaits \cup {"unspawned"}
        /\ \A q \in Readers : rdr[q].pc = "unspawned" =>
             call[c].pc = "spawn" /\ call[c].reader = q
    BY <1>0, <1>11, HandlerAlone DEF UnloadInterrupt
  <2>2. ASSUME NEW q \in Readers
        PROVE  /\ rdr'[q].pc = rdr[q].pc /\ rdr'[q].wid = rdr[q].wid
               /\ \/ rdr'[q] = rdr[q] /\ \A w \in Watches : live[w] # q
                  \/ rdr'[q].stop /\ \E w \in Watches : live[w] = q
                  \/ rdr[q].pc = "done"
    BY <1>0, <1>11, InterruptedType DEF UnloadInterrupt
  <2>3. call'[c].pc = "clear" /\ live' = live
    BY <1>0, <1>11 DEF UnloadInterrupt, Calls
  <2>4. Segments'
    BY <1>0, <1>11, <2>1, <2>2, <2>3 DEF UnloadInterrupt, Segments, Keep, Ended, Awaits
  <2>5. Registry'
    BY <1>0, <1>11, <2>1, <2>2, <2>3
    DEF UnloadInterrupt, Registry, Reserved, HasLive, Running, Ended, Awaits
  <2>. QED
    BY <2>4, <2>5 DEF LoopInv
<1>12. ASSUME NEW c \in Callers, UnloadClear(c) PROVE LoopInv'
  <2>1. /\ \A d \in Callers \ {c} : call'[d] = call[d] /\ call[d].pc = "idle"
        /\ \A q \in Readers : rdr[q].pc \in Ended \cup Awaits \cup {"unspawned"}
        /\ \A q \in Readers : rdr[q].pc = "unspawned" =>
             call[c].pc = "spawn" /\ call[c].reader = q
    BY <1>0, <1>12, HandlerAlone DEF UnloadClear
  <2>2. /\ call'[c].pc = "idle" /\ rdr' = rdr
        /\ \A w \in Watches : ~ HasLive(w) /\ live'[w] = NoOne
    BY <1>0, <1>12, RestFields DEF UnloadClear, Registry
  <2>3. Segments'
    BY <1>0, <1>12, <2>1, <2>2 DEF UnloadClear, Segments, Ended, Awaits
  <2>4. Registry'
    <3>1. ASSUME NEW q \in Readers
          PROVE  /\ Running(q)' => rdr'[q].stop
                 /\ \A w \in Watches : live'[w] # q
                 /\ rdr'[q].pc # "popping"
      BY <1>0, <1>12, <2>1, <2>2
      DEF UnloadClear, Registry, HasLive, Running, Ended, Awaits, Loop, TypeInv, TypeOK
    <3>. QED
      BY <2>1, <2>2, <3>1 DEF Registry, Reserved
  <2>. QED
    BY <2>3, <2>4 DEF LoopInv
<1>13. ASSUME Reload PROVE LoopInv'
  BY <1>0, <1>13 DEF Reload, Loop, LoopInv, Segments, Registry, Reserved, HasLive, Running
<1>14. ASSUME NEW r \in Readers, BodyStarts(r) PROVE LoopInv'
  <2>1. /\ rdr' = [rdr EXCEPT ![r] = rdr'[r]] /\ rdr'[r].wid = rdr[r].wid
        /\ rdr'[r].stop = rdr[r].stop /\ rdr'[r].cancel = rdr[r].cancel
        /\ rdr'[r].pc \notin {"unspawned", "done", "popping"}
        /\ rdr'[r].pc \notin Ended \cup Awaits => baton' = r
    BY <1>0, <1>14 DEF BodyStarts, ReaderRecords, Resumes, At, Ended, Awaits, Keep, Yield
  <2>2. May(r) /\ rdr[r].pc \notin Ended /\ UNCHANGED <<live, call>>
    BY <1>14 DEF BodyStarts, Resumes, At, Ended
  <2>. QED
    BY <2>1, <2>2, ReaderStep
<1>15. ASSUME NEW r \in Readers, FactoryFails(r) PROVE LoopInv'
  <2>1. /\ rdr' = [rdr EXCEPT ![r] = rdr'[r]] /\ rdr'[r].wid = rdr[r].wid
        /\ rdr'[r].stop = rdr[r].stop /\ rdr'[r].cancel = rdr[r].cancel
        /\ rdr'[r].pc \notin {"unspawned", "done", "popping"}
        /\ rdr'[r].pc \notin Ended \cup Awaits => baton' = r
    BY <1>0, <1>15 DEF FactoryFails, ReaderRecords, Resumes, At, Ended, Awaits, Keep, Yield
  <2>2. May(r) /\ rdr[r].pc \notin Ended /\ UNCHANGED <<live, call>>
    BY <1>15 DEF FactoryFails, Resumes, At, Ended
  <2>. QED
    BY <2>1, <2>2, ReaderStep
<1>16. ASSUME NEW r \in Readers, Connected(r) PROVE LoopInv'
  <2>1. /\ rdr' = [rdr EXCEPT ![r] = rdr'[r]] /\ rdr'[r].wid = rdr[r].wid
        /\ rdr'[r].stop = rdr[r].stop /\ rdr'[r].cancel = rdr[r].cancel
        /\ rdr'[r].pc \notin {"unspawned", "done", "popping"}
        /\ rdr'[r].pc \notin Ended \cup Awaits => baton' = r
    BY <1>0, <1>16 DEF Connected, ReaderRecords, Resumes, At, Ended, Awaits, Keep, Yield
  <2>2. May(r) /\ rdr[r].pc \notin Ended /\ UNCHANGED <<live, call>>
    BY <1>16 DEF Connected, Resumes, At, Ended
  <2>. QED
    BY <2>1, <2>2, ReaderStep
<1>17. ASSUME NEW r \in Readers, StreamEnds(r) PROVE LoopInv'
  <2>1. /\ rdr' = [rdr EXCEPT ![r] = rdr'[r]] /\ rdr'[r].wid = rdr[r].wid
        /\ rdr'[r].stop = rdr[r].stop /\ rdr'[r].cancel = rdr[r].cancel
        /\ rdr'[r].pc \notin {"unspawned", "done", "popping"}
        /\ rdr'[r].pc \notin Ended \cup Awaits => baton' = r
    BY <1>0, <1>17 DEF StreamEnds, ReaderRecords, Resumes, At, Ended, Awaits, Keep, Yield
  <2>2. May(r) /\ rdr[r].pc \notin Ended /\ UNCHANGED <<live, call>>
    BY <1>17 DEF StreamEnds, Resumes, At, Ended
  <2>. QED
    BY <2>1, <2>2, ReaderStep
<1>18. ASSUME NEW r \in Readers, StopNoticed(r) PROVE LoopInv'
  <2>1. /\ rdr' = [rdr EXCEPT ![r] = rdr'[r]] /\ rdr'[r].wid = rdr[r].wid
        /\ rdr'[r].stop = rdr[r].stop /\ rdr'[r].cancel = rdr[r].cancel
        /\ rdr'[r].pc \notin {"unspawned", "done", "popping"}
        /\ rdr'[r].pc \notin Ended \cup Awaits => baton' = r
    BY <1>0, <1>18 DEF StopNoticed, ReaderRecords, Resumes, At, Ended, Awaits, Keep, Yield
  <2>2. May(r) /\ rdr[r].pc \notin Ended /\ UNCHANGED <<live, call>>
    BY <1>18 DEF StopNoticed, Resumes, At, Ended
  <2>. QED
    BY <2>1, <2>2, ReaderStep
<1>19. ASSUME NEW r \in Readers, NEW s \in Seqs, NEW says \in BOOLEAN,
              Receive(r, s, says) \/ ReceiveSnapshot(r, s, says)
       PROVE  LoopInv'
  <2>1. /\ rdr' = [rdr EXCEPT ![r] = rdr'[r]] /\ rdr'[r].wid = rdr[r].wid
        /\ rdr'[r].stop = rdr[r].stop /\ rdr'[r].cancel = rdr[r].cancel
        /\ rdr'[r].pc = "saveRead" /\ baton' = r
    BY <1>0, <1>19 DEF Receive, ReceiveSnapshot, ReaderRecords, Keep
  <2>2. May(r) /\ rdr[r].pc \notin Ended /\ UNCHANGED <<live, call>>
    BY <1>19 DEF Receive, ReceiveSnapshot, Resumes, At, Ended
  <2>. QED
    BY <2>1, <2>2, ReaderStep
<1>20. ASSUME NEW r \in Readers, SaveRead(r) PROVE LoopInv'
  <2>1. /\ rdr' = [rdr EXCEPT ![r] = rdr'[r]] /\ rdr'[r].wid = rdr[r].wid
        /\ rdr'[r].stop = rdr[r].stop /\ rdr'[r].cancel = rdr[r].cancel
        /\ rdr'[r].pc \notin {"unspawned", "done", "popping"}
        /\ rdr'[r].pc \notin Ended \cup Awaits => baton' = r
    BY <1>0, <1>20 DEF SaveRead, ReaderRecords, Resumes, At, Ended, Awaits, Keep, Yield
  <2>2. May(r) /\ rdr[r].pc \notin Ended /\ UNCHANGED <<live, call>>
    BY <1>20 DEF SaveRead, Resumes, At, Ended
  <2>. QED
    BY <2>1, <2>2, ReaderStep
<1>21. ASSUME NEW r \in Readers, SaveWrite(r) PROVE LoopInv'
  <2>1. /\ rdr' = [rdr EXCEPT ![r] = rdr'[r]] /\ rdr'[r].wid = rdr[r].wid
        /\ rdr'[r].stop = rdr[r].stop /\ rdr'[r].cancel = rdr[r].cancel
        /\ rdr'[r].pc \notin {"unspawned", "done", "popping"}
        /\ rdr'[r].pc \notin Ended \cup Awaits => baton' = r
    BY <1>0, <1>21, ZenonT(40)
    DEF SaveWrite, ReaderRecords, Resumes, At, Ended, Awaits, Keep, Yield
  <2>2. May(r) /\ rdr[r].pc \notin Ended /\ UNCHANGED <<live, call>>
    BY <1>21 DEF SaveWrite, Resumes, At, Ended
  <2>. QED
    BY <2>1, <2>2, ReaderStep
<1>22. ASSUME NEW r \in Readers, Inject(r) PROVE LoopInv'
  <2>1. /\ rdr' = [rdr EXCEPT ![r] = rdr'[r]] /\ rdr'[r].wid = rdr[r].wid
        /\ rdr'[r].stop = rdr[r].stop /\ rdr'[r].cancel = rdr[r].cancel
        /\ rdr'[r].pc \notin {"unspawned", "done", "popping"}
        /\ rdr'[r].pc \notin Ended \cup Awaits => baton' = r
    BY <1>0, <1>22 DEF Inject, ReaderRecords, Resumes, At, Ended, Awaits, Keep, Yield
  <2>2. May(r) /\ rdr[r].pc \notin Ended /\ UNCHANGED <<live, call>>
    BY <1>22 DEF Inject, Resumes, At, Ended
  <2>. QED
    BY <2>1, <2>2, ReaderStep
<1>23. ASSUME NEW r \in Readers, ClientClosed(r) PROVE LoopInv'
  <2>1. /\ rdr' = [rdr EXCEPT ![r] = rdr'[r]] /\ rdr'[r].wid = rdr[r].wid
        /\ rdr'[r].stop = rdr[r].stop /\ rdr'[r].cancel = rdr[r].cancel
        /\ rdr'[r].pc \notin {"unspawned", "done", "popping"}
        /\ rdr'[r].pc \notin Ended \cup Awaits => baton' = r
    BY <1>0, <1>23 DEF ClientClosed, ReaderRecords, Resumes, At, Ended, Awaits, Keep, Yield
  <2>2. May(r) /\ rdr[r].pc \notin Ended /\ UNCHANGED <<live, call>>
    BY <1>23 DEF ClientClosed, Resumes, At, Ended
  <2>. QED
    BY <2>1, <2>2, ReaderStep
<1>24. ASSUME NEW r \in Readers, CloseRuns(r) PROVE LoopInv'
  <2>1. /\ rdr' = [rdr EXCEPT ![r] = rdr'[r]] /\ rdr'[r].wid = rdr[r].wid
        /\ rdr'[r].stop = rdr[r].stop /\ rdr'[r].cancel = rdr[r].cancel
        /\ rdr'[r].pc \in Awaits
    BY <1>0, <1>24, ZenonT(40) DEF CloseRuns, ReaderRecords, Awaits
  <2>2. May(r) /\ rdr[r].pc \notin Ended /\ UNCHANGED <<live, call>>
    BY <1>24 DEF CloseRuns, Ended, Awaits
  <2>. QED
    BY <2>1, <2>2, ReaderStep DEF Awaits
<1>25. ASSUME NEW r \in Readers, Cancelled(r) PROVE LoopInv'
  <2>1. /\ rdr' = [rdr EXCEPT ![r] = rdr'[r]]
        /\ rdr'[r] = IF rdr[r].pc \in {"connecting", "streaming"}
                     THEN [rdr[r] EXCEPT !.pc = "closing", !.cancel = FALSE]
                     ELSE DoneReader
    BY <1>0, <1>25 DEF Cancelled
  <2>2. /\ May(r) /\ rdr[r].pc \notin Ended /\ UNCHANGED <<live, call>>
        /\ rdr[r].cancel /\ rdr[r] \in ReaderRecords
    BY <1>0, <1>25 DEF Cancelled, Ended, Awaits
  <2>3. \A w \in Watches : live[w] # r
    BY <1>0, <2>2, ReaderAlone DEF Registry
  <2>4. CASE rdr[r].pc \in {"connecting", "streaming"}
    <3>1. /\ rdr'[r].pc = "closing" /\ rdr'[r].wid = rdr[r].wid
          /\ rdr'[r].stop = rdr[r].stop /\ ~ rdr'[r].cancel
      BY <2>1, <2>2, <2>4 DEF ReaderRecords
    <3>. QED
      BY <2>1, <2>2, <3>1, ReaderStep DEF Awaits
  <2>5. CASE rdr[r].pc \notin {"connecting", "streaming"}
    BY <2>1, <2>2, <2>3, <2>5, ReaderStep, RestFields DEF Ended
  <2>. QED
    BY <2>4, <2>5
<1>26. ASSUME NEW r \in Readers, LeaveCheck(r) PROVE LoopInv'
  <2>1. /\ May(r) /\ rdr[r].pc = "leaving" /\ UNCHANGED <<live, call>>
        /\ rdr[r] \in ReaderRecords /\ rdr' = [rdr EXCEPT ![r] = rdr'[r]]
    BY <1>0, <1>26 DEF LeaveCheck, At
  <2>2. CASE live[rdr[r].wid] = r
    <3>1. /\ rdr'[r].pc = "popping" /\ rdr'[r].wid = rdr[r].wid /\ baton' = r
          /\ rdr'[r].stop = rdr[r].stop /\ rdr'[r].cancel = rdr[r].cancel
      BY <1>0, <1>26, <2>1, <2>2 DEF LeaveCheck, ReaderRecords, Keep
    <3>. QED
      BY <2>1, <2>2, <3>1, ReaderStep DEF Ended
  <2>3. CASE live[rdr[r].wid] # r
    <3>1. rdr'[r] = DoneReader
      BY <1>0, <1>26, <2>3 DEF LeaveCheck
    <3>2. \A w \in Watches : live[w] # r
      BY <1>0, <2>3 DEF Registry
    <3>3. ~ DoneReader.cancel
      BY DEF DoneReader, FreeReader
    <3>. QED
      BY <2>1, <3>1, <3>2, <3>3, ReaderStep, RestFields DEF Ended
  <2>. QED
    BY <2>2, <2>3
<1>27. ASSUME NEW r \in Readers, LeavePop(r) PROVE LoopInv'
  <2>1. /\ May(r) /\ rdr[r].pc = "popping" /\ call' = call /\ baton' = NoOne
        /\ rdr'[r] = DoneReader /\ \A q \in Readers \ {r} : rdr'[q] = rdr[q]
        /\ live'[rdr[r].wid] = NoOne
        /\ \A w \in Watches \ {rdr[r].wid} : live'[w] = live[w]
    <3>1. rdr[r].pc = "popping" /\ rdr[r].wid \in Watches
      BY <1>27 DEF LeavePop, At, Loop, TypeInv, TypeOK
    <3>. QED
      BY <1>0, <1>27, <3>1 DEF LeavePop, At, Yield
  <2>2. /\ \A c \in Callers : call[c].pc = "idle"
        /\ \A q \in Readers \ {r} : rdr[q].pc \in Ended \cup Awaits
    BY <2>1, ReaderAlone
  <2>3. DoneReader.pc = "done" /\ ~ DoneReader.cancel
    BY DEF DoneReader, FreeReader
  <2>4. Segments'
    BY <2>1, <2>2, <2>3 DEF Segments, Ended, Awaits
  <2>5. \A w \in Watches : live'[w] # r /\ live'[w] \in {NoOne, live[w]}
    BY <1>0, <2>1 DEF Registry
  <2>6. \A w \in Watches : live'[w] # NoOne =>
          rdr'[live'[w]].wid = w /\ rdr'[live'[w]].pc # "done"
    BY <1>0, <2>1, <2>5 DEF Registry
  <2>7. ASSUME NEW q \in Readers
        PROVE  /\ Running(q)' /\ ~ rdr'[q].stop => live'[rdr'[q].wid] = q
               /\ rdr'[q].cancel => \A w \in Watches : live'[w] # q
               /\ rdr'[q].pc # "popping"
    <3>1. CASE q = r
      BY <2>1, <2>3, <2>5, <3>1 DEF Running, Ended
    <3>2. CASE q # r
      <4>1. /\ Running(q) /\ ~ rdr[q].stop => live[rdr[q].wid] = q
            /\ rdr[q].cancel => \A w \in Watches : live[w] # q
            /\ live[rdr[r].wid] = r
        BY <1>0, <2>1, <2>2 DEF Registry
      <4>2. Running(q) => rdr[q].wid \in Watches
        BY DEF Loop, TypeInv, TypeOK, Running, Ended
      <4>. QED
        BY <1>0, <2>1, <2>2, <2>5, <3>2, <4>1, <4>2 DEF Running, Ended, Awaits
    <3>. QED
      BY <3>1, <3>2
  <2>8. Registry'
    BY <2>1, <2>2, <2>6, <2>7 DEF Registry, Reserved
  <2>. QED
    BY <2>4, <2>8 DEF LoopInv
<1>28. ASSUME Crash PROVE LoopInv'
  BY <1>0, <1>28, RestFields DEF Crash, LoopInv, Segments, Registry, Reserved, Running, Ended
<1>29. ASSUME UNCHANGED vars PROVE LoopInv'
  BY <1>29 DEF vars, Loop, LoopInv, Segments, Registry, Reserved, HasLive, Running
<1>. QED
  BY <1>1, <1>2, <1>3, <1>4, <1>5, <1>6, <1>7, <1>8, <1>9, <1>10, <1>11,
     <1>12, <1>13, <1>14, <1>15, <1>16, <1>17, <1>18, <1>19, <1>20, <1>21, <1>22,
     <1>23, <1>24, <1>25, <1>26, <1>27, <1>28, <1>29
  DEF Next, ItemArrives, Continue, Advance, AlreadyWatched

\* On the loop LoopInv holds throughout.
LEMMA LoopInvariant == ASSUME OnLoop = TRUE PROVE Spec => []Loop
<1>1. Init => LoopInv
  BY LoopInvStarts
<1>2. TypeInv /\ LoopInv /\ [Next]_vars => LoopInv'
  BY LoopInvKept DEF Loop
<1>. QED
  BY <1>1, <1>2, TypeInvariant, PTL DEF Spec, TypeInv, Loop

\* On the loop, at rest, every running reader nobody stopped is the registered one:
\* t3_watch never starts a second, and unwatch and unload reach them all.
THEOREM SoleReaderOnLoop ==
  ASSUME OnLoop = TRUE
  PROVE  Spec => []SoleReader
<1>1. Loop => SoleReader
  BY WatchAssumption DEF Loop, LoopInv, Segments, Registry, SoleReader
<1>. QED
  BY <1>1, LoopInvariant, PTL
----------------------------------------------------------------------------
(* What the loop feeds the conversation *)

Feeding(r) == Running(r) /\ ~ rdr[r].stop
Saving(r) == rdr[r].pc \in {"saveRead", "saveWrite"}

\* What a handler in the middle of its segment read is still so: the cursor, the
\* blob, the target it put, and that nothing feeds from the watch it is dropping.
HandlerKnows(c) ==
  /\ call[c].pc \in {"putRead", "putWrite", "register"} =>
       call[c].cursor = blob.cursors[call[c].wid]
  /\ call[c].pc \in {"putWrite", "dropWrite"} => call[c].copy = blob
  /\ call[c].pc \in {"register", "spawn"} => call[c].wid \in blob.targets
  /\ call[c].pc = "spawn" => rdr[call[c].reader].seq = blob.cursors[call[c].wid]
  /\ call[c].pc = "interrupt" =>
       rdr[call[c].reader].wid = call[c].wid /\ live[call[c].wid] = NoOne
  /\ call[c].pc \in {"dropRead", "dropWrite"} =>
       \A r \in Readers : Feeding(r) => rdr[r].wid # call[c].wid

\* A reader that feeds the conversation stands at its watch's saved cursor, away
\* from it only while it saves an item, ahead of it if that is an event; an event it
\* is about to inject is later than everything its watch dealt with.
ReaderKnows(r) ==
  /\ Saving(r) \/ rdr[r].pc = "inject" => ~ rdr[r].stop
  /\ rdr[r].pc = "saveWrite" => rdr[r].copy = blob
  /\ Feeding(r) =>
       /\ rdr[r].wid \in blob.targets
       /\ IF Saving(r)
          THEN /\ rdr[r].item = "event" => rdr[r].seq > blob.cursors[rdr[r].wid]
               /\ rdr[r].item = "none" => rdr[r].seq = blob.cursors[rdr[r].wid]
          ELSE rdr[r].seq = blob.cursors[rdr[r].wid]
  /\ rdr[r].pc = "inject" /\ rdr[r].item = "event" => rdr[r].seq > told[rdr[r].wid].seq

\* Nothing beyond the saved cursor was dealt with.
NothingAhead == \A w \in Watches : told[w].seq <= blob.cursors[w]

FeedInv ==
  /\ \A c \in Callers : HandlerKnows(c)
  /\ \A r \in Readers : ReaderKnows(r)
  /\ NothingAhead
  /\ OnlyCrashLoses

\* What every step on the loop may use.
LEMMA LoopFacts ==
  ASSUME Loop
  PROVE  /\ live \in [Watches -> Readers \cup {NoOne}] /\ blob \in Blobs
         /\ call \in [Callers -> Calls] /\ rdr \in [Readers -> ReaderRecords]
         /\ told \in [Watches -> Marks] /\ lost \in [Watches -> SUBSET Seqs]
         /\ NoOne \notin Watches \cup Callers \cup Readers /\ OnLoop = TRUE
         /\ Seqs \subseteq Nat
         /\ blob.cursors \in [Watches -> Seqs] /\ blob.targets \subseteq Watches
         /\ \A r \in Readers : rdr[r].pc \notin {"free", "done"} => rdr[r].wid \in Watches
         /\ \A r \in Readers : rdr[r].seq \in Seqs
         /\ \A w \in Watches : told[w].seq \in Seqs
  BY WatchAssumption DEF Marks, Loop, TypeInv, TypeOK, Blobs, Seqs, ReaderRecords

\* While a handler runs no reader saves or injects; while a reader runs no
\* handler has begun, and no other reader feeds from the same watch.
LEMMA FeedingAlone ==
  ASSUME Loop, NEW r \in Readers, May(r)
  PROVE  /\ \A c \in Callers : call[c].pc = "idle"
         /\ \A q \in Readers \ {r} :
              /\ rdr[q].pc \in Ended \cup Awaits
              /\ Feeding(q) /\ Feeding(r) => rdr[q].wid # rdr[r].wid
<1>1. /\ \A c \in Callers : call[c].pc = "idle"
      /\ \A q \in Readers \ {r} : rdr[q].pc \in Ended \cup Awaits
  BY ReaderAlone
<1>2. \A q \in Readers : Feeding(q) => live[rdr[q].wid] = q
  BY <1>1 DEF Feeding, Loop, LoopInv, Registry
<1>. QED
  BY <1>1, <1>2

\* A step of a handler that leaves the blob, the readers and the histories alone.
LEMMA HandlerLooks ==
  ASSUME Loop, FeedInv, NEW c \in Callers, May(c),
         UNCHANGED <<blob, rdr, told, lost>>,
         \A d \in Callers \ {c} : call'[d] = call[d],
         HandlerKnows(c)'
  PROVE  FeedInv'
<1>1. \A d \in Callers \ {c} : call[d].pc = "idle"
  BY HandlerAlone
<1>2. \A d \in Callers : HandlerKnows(d)'
  BY <1>1 DEF HandlerKnows
<1>. QED
  BY <1>2 DEF FeedInv, ReaderKnows, NothingAhead, OnlyCrashLoses, Feeding, Running, Saving

\* A step of one reader that saves and injects nothing.
LEMMA ReaderLooks ==
  ASSUME Loop, FeedInv, NEW r \in Readers, May(r),
         UNCHANGED <<call, blob, told, lost>>,
         rdr' = [rdr EXCEPT ![r] = rdr'[r]],
         rdr[r].pc # "inject",
         ReaderKnows(r)'
  PROVE  FeedInv'
<1>1. \A c \in Callers : call[c].pc = "idle"
  BY ReaderAlone
<1>2. \A q \in Readers \ {r} : rdr'[q] = rdr[q]
  BY LoopFacts
<1>3. \A c \in Callers : HandlerKnows(c)'
  BY <1>1 DEF HandlerKnows
<1>4. \A q \in Readers : ReaderKnows(q)'
  BY <1>2 DEF FeedInv, ReaderKnows, Feeding, Running, Saving
<1>5. NothingAhead' /\ OnlyCrashLoses'
  BY <1>2 DEF FeedInv, NothingAhead, OnlyCrashLoses
<1>. QED
  BY <1>3, <1>4, <1>5 DEF FeedInv

\* The steps of a reader that neither take an item nor handle one.
Quiet(r) ==
  \/ BodyStarts(r) \/ FactoryFails(r) \/ Connected(r) \/ StreamEnds(r) \/ StopNoticed(r)
  \/ CloseRuns(r) \/ Cancelled(r) \/ ClientClosed(r) \/ LeaveCheck(r) \/ LeavePop(r)

\* A reader takes an item off its stream.
Takes(r) ==
  \E s \in Seqs, says \in BOOLEAN : Receive(r, s, says) \/ ReceiveSnapshot(r, s, says)

LEMMA QuietSteps ==
  ASSUME TypeOK, NEW r \in Readers, Quiet(r)
  PROVE  /\ May(r) /\ UNCHANGED <<call, blob, told, lost>>
         /\ rdr' = [rdr EXCEPT ![r] = rdr'[r]]
         /\ rdr[r].pc \notin Ended \cup {"unspawned", "saveRead", "saveWrite", "inject"}
         /\ rdr'[r].pc \notin {"unspawned", "saveRead", "saveWrite", "inject"}
         /\ \/ rdr'[r].pc = "done"
            \/ rdr'[r].wid = rdr[r].wid /\ rdr'[r].stop = rdr[r].stop /\ rdr'[r].seq = rdr[r].seq
<1>0. rdr \in [Readers -> ReaderRecords] /\ rdr[r] \in ReaderRecords
  BY DEF TypeOK
<1>1. CASE BodyStarts(r)
  BY <1>0, <1>1 DEF BodyStarts, ReaderRecords, Resumes, At, Ended, Awaits
<1>2. CASE FactoryFails(r)
  BY <1>0, <1>2 DEF FactoryFails, ReaderRecords, Resumes, At, Ended, Awaits
<1>3. CASE Connected(r)
  BY <1>0, <1>3 DEF Connected, ReaderRecords, Resumes, At, Ended, Awaits
<1>4. CASE StreamEnds(r)
  BY <1>0, <1>4 DEF StreamEnds, ReaderRecords, Resumes, At, Ended, Awaits
<1>5. CASE StopNoticed(r)
  BY <1>0, <1>5 DEF StopNoticed, ReaderRecords, Resumes, At, Ended, Awaits
<1>6. CASE CloseRuns(r)
  <2>1. /\ rdr' = [rdr EXCEPT ![r] = rdr'[r]] /\ rdr'[r].wid = rdr[r].wid
        /\ rdr'[r].stop = rdr[r].stop /\ rdr'[r].seq = rdr[r].seq
        /\ rdr'[r].pc \in Awaits
    BY <1>0, <1>6, ZenonT(60) DEF CloseRuns, ReaderRecords, Awaits
  <2>. QED
    BY <1>6, <2>1 DEF CloseRuns, Ended, Awaits
<1>7. CASE Cancelled(r)
  BY <1>0, <1>7, RestFields DEF Cancelled, ReaderRecords, Ended, Awaits
<1>8. CASE ClientClosed(r)
  BY <1>0, <1>8 DEF ClientClosed, ReaderRecords, Resumes, At, Ended, Awaits
<1>9. CASE LeaveCheck(r)
  BY <1>0, <1>9, RestFields DEF LeaveCheck, ReaderRecords, At, Ended, Awaits
<1>10. CASE LeavePop(r)
  BY <1>0, <1>10, RestFields DEF LeavePop, ReaderRecords, At, Ended, Awaits
<1>. QED
  BY <1>1, <1>2, <1>3, <1>4, <1>5, <1>6, <1>7, <1>8, <1>9, <1>10 DEF Quiet

LEMMA FeedInvStarts == ASSUME Init PROVE FeedInv
<1>1. /\ \A c \in Callers : call[c].pc = "idle"
      /\ \A r \in Readers : rdr[r].pc = "free"
      /\ \A w \in Watches : told[w].seq = 0 /\ blob.cursors[w] = 0
  BY RestFields DEF Init, EmptyBlob, NoMark
<1>. QED
  BY <1>1 DEF FeedInv, HandlerKnows, ReaderKnows, NothingAhead, OnlyCrashLoses,
              Feeding, Running, Saving, Ended

LEMMA FeedInvKept == ASSUME Loop, FeedInv, [Next]_vars PROVE FeedInv'
<1>0. /\ live \in [Watches -> Readers \cup {NoOne}] /\ blob \in Blobs
      /\ call \in [Callers -> Calls] /\ rdr \in [Readers -> ReaderRecords]
      /\ told \in [Watches -> Marks] /\ lost \in [Watches -> SUBSET Seqs]
      /\ NoOne \notin Watches \cup Callers \cup Readers /\ OnLoop = TRUE
      /\ Seqs \subseteq Nat
      /\ blob.cursors \in [Watches -> Seqs] /\ blob.targets \subseteq Watches
      /\ \A r \in Readers : rdr[r].pc \notin {"free", "done"} => rdr[r].wid \in Watches
      /\ \A r \in Readers : rdr[r].seq \in Seqs
      /\ \A w \in Watches : told[w].seq \in Seqs
  BY LoopFacts
<1>1. ASSUME NEW c \in Callers, NEW w \in Watches, BeginWatch(c, w) PROVE FeedInv'
  <2>1. call'[c].pc = "cursor" /\ \A d \in Callers \ {c} : call'[d] = call[d]
    BY <1>0, <1>1 DEF BeginWatch, IdleCall
  <2>2. HandlerKnows(c)'
    BY <2>1 DEF HandlerKnows
  <2>. QED
    BY <1>1, <2>1, <2>2, HandlerLooks DEF BeginWatch
<1>2. ASSUME NEW c \in Callers, ReadCursor(c) PROVE FeedInv'
  <2>1. /\ call'[c].pc = "putRead" /\ call'[c].wid = call[c].wid
        /\ call'[c].cursor = blob.cursors[call[c].wid] /\ blob' = blob
        /\ \A d \in Callers \ {c} : call'[d] = call[d]
    BY <1>0, <1>2 DEF ReadCursor, Calls
  <2>2. HandlerKnows(c)'
    BY <2>1 DEF HandlerKnows
  <2>. QED
    BY <1>2, <2>1, <2>2, HandlerLooks DEF ReadCursor
<1>3. ASSUME NEW c \in Callers, PutRead(c) PROVE FeedInv'
  <2>1. /\ call'[c].pc = "putWrite" /\ call'[c].wid = call[c].wid /\ call'[c].copy = blob
        /\ call'[c].cursor = call[c].cursor /\ blob' = blob
        /\ \A d \in Callers \ {c} : call'[d] = call[d]
    BY <1>0, <1>3 DEF PutRead, Calls
  <2>2. call[c].cursor = blob.cursors[call[c].wid]
    BY <1>3 DEF PutRead, FeedInv, HandlerKnows
  <2>3. HandlerKnows(c)'
    BY <2>1, <2>2 DEF HandlerKnows
  <2>. QED
    BY <1>3, <2>1, <2>3, HandlerLooks DEF PutRead
<1>4. ASSUME NEW c \in Callers, PutWrite(c) PROVE FeedInv'
  <2> DEFINE w == call[c].wid
  <2>1. /\ call[c].copy = blob /\ call[c].cursor = blob.cursors[w] /\ w \in Watches
    BY <1>4 DEF PutWrite, FeedInv, HandlerKnows, Loop, TypeInv, TypeOK
  <2>2. blob'.cursors = blob.cursors /\ blob'.targets = blob.targets \cup {w}
    BY <1>0, <1>4, <2>1 DEF PutWrite, WithTarget
  <2>3. /\ call'[c].pc = "register" /\ call'[c].wid = w /\ call'[c].cursor = call[c].cursor
        /\ \A d \in Callers \ {c} : call'[d] = call[d]
        /\ UNCHANGED <<live, rdr, told, lost>>
    BY <1>0, <1>4 DEF PutWrite, Calls
  <2>4. /\ \A d \in Callers \ {c} : call[d].pc = "idle"
        /\ \A q \in Readers : rdr[q].pc # "saveWrite"
    BY <1>4, HandlerAlone DEF PutWrite, Ended, Awaits
  <2>5. \A d \in Callers : HandlerKnows(d)'
    BY <2>1, <2>2, <2>3, <2>4 DEF HandlerKnows
  <2>6. \A q \in Readers : ReaderKnows(q)'
    BY <2>2, <2>3, <2>4 DEF FeedInv, ReaderKnows, Feeding, Running, Saving
  <2>. QED
    BY <2>2, <2>3, <2>5, <2>6 DEF FeedInv, NothingAhead, OnlyCrashLoses
<1>5. ASSUME NEW c \in Callers, DropRead(c) PROVE FeedInv'
  <2>1. /\ call'[c].pc = "dropWrite" /\ call'[c].wid = call[c].wid /\ call'[c].copy = blob
        /\ blob' = blob /\ rdr' = rdr
        /\ \A d \in Callers \ {c} : call'[d] = call[d]
    BY <1>0, <1>5 DEF DropRead, Calls
  <2>2. \A r \in Readers : Feeding(r) => rdr[r].wid # call[c].wid
    BY <1>5 DEF DropRead, FeedInv, HandlerKnows
  <2>3. HandlerKnows(c)'
    BY <2>1, <2>2 DEF HandlerKnows, Feeding, Running
  <2>. QED
    BY <1>5, <2>1, <2>3, HandlerLooks DEF DropRead
<1>6. ASSUME NEW c \in Callers, DropWrite(c) PROVE FeedInv'
  <2> DEFINE w == call[c].wid
  <2>1. /\ call[c].copy = blob /\ w \in Watches
        /\ \A r \in Readers : Feeding(r) => rdr[r].wid # w
    BY <1>6 DEF DropWrite, FeedInv, HandlerKnows, Loop, TypeInv, TypeOK
  <2>2. /\ blob'.cursors = [blob.cursors EXCEPT ![w] = 0]
        /\ blob'.targets = blob.targets \ {w}
        /\ told' = [told EXCEPT ![w] = NoMark] /\ rdr' = rdr
        /\ \A v \in Watches \ {w} : lost'[v] = lost[v]
    BY <1>0, <1>6, <2>1 DEF DropWrite, WithoutTarget
  <2>3. /\ \A d \in Callers : call'[d].pc = "idle"
        /\ \A q \in Readers : rdr[q].pc \in Ended \cup Awaits \cup {"unspawned"}
    BY <1>0, <1>6, HandlerAlone, RestFields DEF DropWrite
  <2>4. \A d \in Callers : HandlerKnows(d)'
    BY <2>3 DEF HandlerKnows
  <2>5. \A q \in Readers : ReaderKnows(q)'
    <3>1. ASSUME NEW q \in Readers, Feeding(q)
          PROVE  rdr[q].wid \in Watches /\ rdr[q].wid # w
      BY <1>0, <2>1, <3>1 DEF Feeding, Running, Ended
    <3>2. \A q \in Readers : ~ Saving(q) /\ rdr[q].pc # "inject" /\ rdr[q].pc # "saveWrite"
      BY <2>3 DEF Saving, Ended, Awaits
    <3>. QED
      BY <1>0, <2>2, <3>1, <3>2 DEF FeedInv, ReaderKnows, Feeding, Running, Saving
  <2>6. NothingAhead'
    BY <1>0, <2>1, <2>2 DEF FeedInv, NothingAhead, NoMark
  <2>7. OnlyCrashLoses'
    BY <1>0, <2>1, <2>2 DEF FeedInv, OnlyCrashLoses
  <2>. QED
    BY <2>4, <2>5, <2>6, <2>7 DEF FeedInv
<1>7. ASSUME NEW c \in Callers, Register(c) PROVE FeedInv'
  <2> DEFINE r == call[c].reader
  <2>1. /\ r \in Readers /\ call[c].wid \in Watches
        /\ call[c].cursor = blob.cursors[call[c].wid] /\ call[c].wid \in blob.targets
        /\ rdr[r].pc \in Ended
    BY <1>7 DEF Register, FeedInv, HandlerKnows, Loop, TypeInv, TypeOK, Reservations, Reserved
  <2>2. /\ rdr'[r].pc = "unspawned" /\ rdr'[r].seq = call[c].cursor
        /\ \A q \in Readers \ {r} : rdr'[q] = rdr[q]
        /\ call'[c].pc = "spawn" /\ call'[c].reader = r /\ call'[c].wid = call[c].wid
        /\ UNCHANGED <<blob, told, lost>>
        /\ \A d \in Callers \ {c} : call'[d] = call[d]
    BY <1>0, <1>7, <2>1 DEF Register, FreeReader, Calls
  <2>3. \A d \in Callers \ {c} : call[d].pc = "idle"
    BY <1>7, HandlerAlone DEF Register
  <2>4. \A d \in Callers : HandlerKnows(d)'
    BY <2>1, <2>2, <2>3 DEF HandlerKnows
  <2>5. \A q \in Readers : ReaderKnows(q)'
    BY <2>2 DEF FeedInv, ReaderKnows, Feeding, Running, Saving
  <2>6. NothingAhead' /\ OnlyCrashLoses'
    BY <2>1, <2>2 DEF FeedInv, NothingAhead, OnlyCrashLoses, Ended
  <2>. QED
    BY <2>4, <2>5, <2>6 DEF FeedInv
<1>8. ASSUME NEW c \in Callers, Spawn(c) PROVE FeedInv'
  <2> DEFINE r == call[c].reader
  <2>1. /\ r \in Readers /\ rdr[r].pc = "unspawned" /\ rdr[r].wid = call[c].wid
        /\ call[c].wid \in blob.targets /\ rdr[r].seq = blob.cursors[call[c].wid]
    BY <1>0, <1>8 
    DEF Spawn, FeedInv, HandlerKnows, Loop, LoopInv, TypeInv, TypeOK, Reservations, Registry
  <2>2. /\ rdr'[r].pc = "new" /\ rdr'[r].wid = rdr[r].wid /\ rdr'[r].seq = rdr[r].seq
        /\ \A q \in Readers \ {r} : rdr'[q] = rdr[q]
        /\ UNCHANGED <<blob, told, lost>>
        /\ call'[c].pc = "idle" /\ \A d \in Callers \ {c} : call'[d] = call[d]
    BY <1>0, <1>8, <2>1, RestFields DEF Spawn, ReaderRecords
  <2>3. \A d \in Callers \ {c} : call[d].pc = "idle"
    BY <1>8, HandlerAlone DEF Spawn
  <2>4. \A d \in Callers : HandlerKnows(d)'
    BY <2>2, <2>3 DEF HandlerKnows
  <2>5. \A q \in Readers : ReaderKnows(q)'
    BY <2>1, <2>2 DEF FeedInv, ReaderKnows, Feeding, Running, Saving
  <2>6. NothingAhead' /\ OnlyCrashLoses'
    BY <2>1, <2>2 DEF FeedInv, NothingAhead, OnlyCrashLoses
  <2>. QED
    BY <2>4, <2>5, <2>6 DEF FeedInv
<1>9. ASSUME NEW c \in Callers, NEW w \in Watches, UnwatchPop(c, w) PROVE FeedInv'
  <2>1. /\ call'[c].pc = IF live[w] = NoOne THEN "dropRead" ELSE "interrupt"
        /\ call'[c].reader = live[w] /\ call'[c].wid = w
        /\ \A d \in Callers \ {c} : call'[d] = call[d]
        /\ rdr' = rdr /\ live'[w] = NoOne
    BY <1>0, <1>9 DEF UnwatchPop, IdleCall
  <2>2. \A d \in Callers : call[d].pc # "interrupt"
    BY <1>9, HandlerAlone DEF UnwatchPop
  <2>3. \A q \in Readers : Feeding(q) => live[rdr[q].wid] = q
    BY <1>0, <2>2 DEF Feeding, Registry, Loop, LoopInv
  <2>4. live[w] # NoOne => rdr[live[w]].wid = w
    BY DEF Registry, Loop, LoopInv
  <2>5. HandlerKnows(c)'
    BY <1>0, <2>1, <2>3, <2>4 DEF HandlerKnows, Feeding, Running
  <2>. QED
    BY <1>9, <2>1, <2>5, HandlerLooks DEF UnwatchPop
<1>10. ASSUME NEW c \in Callers, Interrupt(c) PROVE FeedInv'
  <2> DEFINE r == call[c].reader
  <2>1. /\ r \in Readers /\ live[call[c].wid] = NoOne
    BY <1>10 DEF Interrupt, FeedInv, HandlerKnows, Loop, TypeInv, TypeOK
  <2>2. rdr[r] \in ReaderRecords /\ rdr' = [rdr EXCEPT ![r] = Interrupted(rdr[r])]
    BY <1>0, <1>10, <2>1 DEF Interrupt
  <2>3. /\ rdr'[r].pc = rdr[r].pc /\ rdr'[r].wid = rdr[r].wid
        /\ rdr[r].pc # "done" => rdr'[r].stop
        /\ \A q \in Readers \ {r} : rdr'[q] = rdr[q]
    BY <1>0, <2>1, <2>2, InterruptedType
  <2>4. /\ call'[c].pc = "dropRead" /\ call'[c].wid = call[c].wid
        /\ UNCHANGED <<blob, told, lost>>
        /\ \A d \in Callers \ {c} : call'[d] = call[d]
    BY <1>0, <1>10 DEF Interrupt, Calls
  <2>5. /\ \A d \in Callers \ {c} : call[d].pc = "idle"
        /\ \A q \in Readers : rdr[q].pc \in Ended \cup Awaits \cup {"unspawned"}
    BY <1>10, HandlerAlone DEF Interrupt
  <2>6. \A q \in Readers : Feeding(q)' => Feeding(q) /\ q # r
    BY <2>3 DEF Feeding, Running, Ended
  <2>7. \A q \in Readers : Feeding(q) /\ q # r => live[rdr[q].wid] = q
    BY <2>5 DEF Feeding, Registry, Loop, LoopInv
  <2>8. \A d \in Callers : HandlerKnows(d)'
    BY <1>0, <2>1, <2>3, <2>4, <2>5, <2>6, <2>7 DEF HandlerKnows
  <2>9. \A q \in Readers : ReaderKnows(q)'
    BY <2>3, <2>4, <2>5, <2>6 DEF FeedInv, ReaderKnows, Saving, Ended, Awaits
  <2>10. NothingAhead' /\ OnlyCrashLoses'
    BY <2>3, <2>4, <2>5 DEF FeedInv, NothingAhead, OnlyCrashLoses, Ended, Awaits
  <2>. QED
    BY <2>8, <2>9, <2>10 DEF FeedInv
<1>11. ASSUME NEW c \in Callers, UnloadInterrupt(c) PROVE FeedInv'
  <2>1. \A q \in Readers : /\ rdr'[q].pc = rdr[q].pc
                           /\ rdr'[q] = rdr[q] \/ rdr'[q].stop \/ rdr[q].pc = "done"
    BY <1>0, <1>11, InterruptedType DEF UnloadInterrupt
  <2>2. /\ call'[c].pc = "clear" /\ UNCHANGED <<blob, told, lost>>
        /\ \A d \in Callers \ {c} : call'[d] = call[d] /\ call[d].pc = "idle"
        /\ \A q \in Readers : rdr[q].pc \in Ended \cup Awaits \cup {"unspawned"}
    BY <1>0, <1>11, HandlerAlone DEF UnloadInterrupt, Calls
  <2>3. \A d \in Callers : HandlerKnows(d)'
    BY <2>2 DEF HandlerKnows
  <2>4. \A q \in Readers : ReaderKnows(q)'
    <3>1. \A q \in Readers : Feeding(q)' => rdr'[q] = rdr[q] /\ Feeding(q)
      BY <2>1 DEF Feeding, Running, Ended
    <3>2. \A q \in Readers : ~ Saving(q)' /\ rdr'[q].pc # "inject" /\ rdr'[q].pc # "saveWrite"
      BY <2>1, <2>2 DEF Saving, Ended, Awaits
    <3>. QED
      BY <2>2, <3>1, <3>2 DEF FeedInv, ReaderKnows, Saving
  <2>5. NothingAhead' /\ OnlyCrashLoses'
    BY <2>1, <2>2 DEF FeedInv, NothingAhead, OnlyCrashLoses, Ended, Awaits
  <2>. QED
    BY <2>3, <2>4, <2>5 DEF FeedInv
<1>12. ASSUME NEW c \in Callers, UnloadClear(c) PROVE FeedInv'
  <2>1. call'[c].pc = "idle" /\ \A d \in Callers \ {c} : call'[d] = call[d]
    BY <1>0, <1>12, RestFields DEF UnloadClear
  <2>2. HandlerKnows(c)'
    BY <2>1 DEF HandlerKnows
  <2>. QED
    BY <1>12, <2>1, <2>2, HandlerLooks DEF UnloadClear
<1>13. ASSUME Reload PROVE FeedInv'
  BY <1>13 DEF Reload, FeedInv, HandlerKnows, ReaderKnows, NothingAhead, OnlyCrashLoses,
               Feeding, Running, Saving
<1>14. ASSUME NEW r \in Readers, Quiet(r) PROVE FeedInv'
  <2>0. TypeOK
    BY DEF Loop, TypeInv
  <2>1. ReaderKnows(r)'
    BY <1>14, <2>0, QuietSteps DEF FeedInv, ReaderKnows, Feeding, Running, Saving, Ended
  <2>. QED
    BY <1>14, <2>0, <2>1, QuietSteps, ReaderLooks
<1>15. ASSUME NEW r \in Readers, NEW s \in Seqs, NEW says \in BOOLEAN,
              Receive(r, s, says) \/ ReceiveSnapshot(r, s, says)
       PROVE  FeedInv'
  <2>1. /\ rdr[r].pc = "streaming" /\ ~ rdr[r].stop /\ May(r)
        /\ UNCHANGED <<call, blob, told, lost>>
        /\ rdr[r] \in ReaderRecords
    BY <1>0, <1>15 DEF Receive, ReceiveSnapshot, Resumes, At
  <2>2. /\ rdr' = [rdr EXCEPT ![r] = rdr'[r]]
        /\ rdr'[r].pc = "saveRead" /\ rdr'[r].wid = rdr[r].wid /\ ~ rdr'[r].stop
    BY <1>0, <1>15, <2>1 DEF Receive, ReceiveSnapshot, ReaderRecords
  <2>3. /\ rdr'[r].item = "event" => rdr'[r].seq > rdr[r].seq
        /\ rdr'[r].item = "none" => rdr'[r].seq = rdr[r].seq
    <3>1. CASE Receive(r, s, says)
      <4>1. /\ rdr'[r].item = IF s > rdr[r].seq THEN "event" ELSE "none"
            /\ rdr'[r].seq = IF s > rdr[r].seq THEN s ELSE rdr[r].seq
        BY <1>0, <2>1, <3>1 DEF Receive, ReaderRecords
      <4>. QED
        BY <4>1
    <3>2. CASE ReceiveSnapshot(r, s, says)
      BY <1>0, <2>1, <3>2 DEF ReceiveSnapshot, ReaderRecords
    <3>. QED
      BY <1>15, <3>1, <3>2
  <2>4. /\ rdr[r].seq = blob.cursors[rdr[r].wid] /\ rdr[r].wid \in blob.targets
    BY <2>1 DEF FeedInv, ReaderKnows, Feeding, Running, Saving, Ended
  <2>5. ReaderKnows(r)'
    BY <2>1, <2>2, <2>3, <2>4 DEF ReaderKnows, Feeding, Running, Saving
  <2>. QED
    BY <2>1, <2>2, <2>5, ReaderLooks
<1>16. ASSUME NEW r \in Readers, SaveRead(r) PROVE FeedInv'
  <2>1. /\ rdr[r].pc = "saveRead" /\ May(r)
        /\ UNCHANGED <<call, blob, told, lost>>
        /\ rdr[r] \in ReaderRecords
    BY <1>0, <1>16 DEF SaveRead, At
  <2>2. /\ rdr' = [rdr EXCEPT ![r] = rdr'[r]]
        /\ rdr'[r].pc = "saveWrite" /\ rdr'[r].wid = rdr[r].wid
        /\ rdr'[r].stop = rdr[r].stop /\ rdr'[r].item = rdr[r].item
        /\ rdr'[r].seq = rdr[r].seq /\ rdr'[r].copy = blob
    BY <1>0, <1>16, <2>1 DEF SaveRead, ReaderRecords
  <2>3. ReaderKnows(r)'
    BY <2>1, <2>2 DEF FeedInv, ReaderKnows, Feeding, Running, Saving, Ended
  <2>. QED
    BY <2>1, <2>2, <2>3, ReaderLooks
<1>17. ASSUME NEW r \in Readers, SaveWrite(r) PROVE FeedInv'
  <2> DEFINE w == rdr[r].wid
             mark == Saved(rdr[r], told[w])
  <2>1. /\ rdr[r].pc = "saveWrite" /\ May(r) /\ UNCHANGED call
        /\ rdr[r] \in ReaderRecords /\ w \in Watches /\ rdr[r].seq \in Nat
        /\ blob.cursors[w] \in Nat /\ told[w].seq \in Nat
    BY <1>0, <1>17 DEF SaveWrite, At
  <2>2. /\ rdr[r].copy = blob /\ ~ rdr[r].stop /\ w \in blob.targets /\ Feeding(r)
        /\ rdr[r].item = "event" => rdr[r].seq > blob.cursors[w]
        /\ rdr[r].item = "none" => rdr[r].seq = blob.cursors[w]
        /\ told[w].seq <= blob.cursors[w]
    BY <2>1 DEF FeedInv, ReaderKnows, NothingAhead, Feeding, Running, Saving, Ended
  <2>3. /\ blob'.cursors = [blob.cursors EXCEPT ![w] = rdr[r].seq]
        /\ blob'.targets = blob.targets
    BY <1>0, <1>17, <2>1, <2>2 DEF SaveWrite, WithCursor
  <2>4. /\ \A q \in Readers \ {r} : rdr'[q] = rdr[q]
        /\ rdr'[r].pc = IF rdr[r].says THEN "inject" ELSE "streaming"
        /\ rdr'[r].wid = w /\ ~ rdr'[r].stop /\ rdr'[r].seq = rdr[r].seq
        /\ rdr[r].says => rdr'[r].item = rdr[r].item
    <3>1. rdr'[r] = [rdr[r] EXCEPT
                       !.pc = IF rdr[r].says THEN "inject" ELSE "streaming",
                       !.copy = EmptyBlob,
                       !.item = IF rdr[r].says THEN rdr[r].item ELSE "none"]
      BY <1>0, <1>17 DEF SaveWrite
    <3>2. \A q \in Readers \ {r} : rdr'[q] = rdr[q]
      BY <1>0, <1>17 DEF SaveWrite
    <3>. QED
      BY <2>1, <2>2, <3>1, <3>2 DEF ReaderRecords
  <2>5. /\ \A c \in Callers : call[c].pc = "idle"
        /\ \A q \in Readers \ {r} : /\ rdr[q].pc \in Ended \cup Awaits
                                    /\ Feeding(q) => rdr[q].wid # w
    BY <2>1, <2>2, FeedingAlone
  <2>6. /\ told' = [told EXCEPT ![w] = mark]
        /\ lost' = [lost EXCEPT ![w] = IF rdr[r].item = "none" THEN @ ELSE {}]
    BY <1>17 DEF SaveWrite
  <2>7. /\ rdr[r].item = "event" /\ rdr[r].says => mark = told[w]
        /\ rdr[r].item = "event" /\ ~ rdr[r].says => mark.seq = rdr[r].seq /\ mark.by = "event"
        /\ rdr[r].item = "none" => mark = told[w]
        /\ rdr[r].item = "snapshot" =>
             /\ mark.seq = rdr[r].seq
             /\ ~ rdr[r].says => mark.by = "snapshot"
    BY DEF Saved
  <2>8. rdr[r].item \in {"none", "event", "snapshot"} /\ rdr[r].says \in BOOLEAN
    BY <2>1 DEF ReaderRecords
  <2>9. mark.seq <= rdr[r].seq
    BY <2>1, <2>2, <2>7, <2>8
  <2> HIDE DEF mark
  <2>10. \A c \in Callers : HandlerKnows(c)'
    BY <2>1, <2>5 DEF HandlerKnows
  <2>11. ReaderKnows(r)'
    <3>1. rdr'[r].pc = "inject" /\ rdr'[r].item = "event" => rdr'[r].seq > told'[w].seq
      BY <1>0, <2>1, <2>2, <2>4, <2>6, <2>7, <2>8
    <3>2. rdr'[r].seq = blob'.cursors[w]
      BY <1>0, <2>1, <2>3, <2>4
    <3>. QED
      BY <2>2, <2>3, <2>4, <2>8, <3>1, <3>2 DEF ReaderKnows, Feeding, Running, Saving
  <2>12. \A q \in Readers \ {r} : ReaderKnows(q)'
    <3> SUFFICES ASSUME NEW q \in Readers \ {r} PROVE ReaderKnows(q)'
      OBVIOUS
    <3>1. rdr'[q] = rdr[q] /\ rdr[q].pc \in Ended \cup Awaits
      BY <2>4, <2>5
    <3>2. Feeding(q) => /\ rdr[q].wid \in blob.targets
                        /\ rdr[q].seq = blob.cursors[rdr[q].wid]
      BY <3>1 DEF FeedInv, ReaderKnows, Saving, Ended, Awaits
    <3>3. Feeding(q) => blob'.cursors[rdr[q].wid] = blob.cursors[rdr[q].wid]
      BY <1>0, <2>3, <2>5, <3>2
    <3>. QED
      BY <2>3, <3>1, <3>2, <3>3 DEF ReaderKnows, Feeding, Running, Saving, Ended, Awaits
  <2>13. NothingAhead'
    BY <1>0, <2>1, <2>3, <2>6, <2>9 DEF FeedInv, NothingAhead
  <2>14. OnlyCrashLoses'
    <3> SUFFICES ASSUME NEW v \in Watches
                 PROVE  \/ blob'.cursors[v] = 0
                        \/ blob'.cursors[v] = told'[v].seq /\ told'[v].by # "taken"
                        \/ blob'.cursors[v] \in lost'[v]
                        \/ \E q \in Readers : /\ rdr'[q].pc = "inject" /\ rdr'[q].wid = v
                                              /\ rdr'[q].seq = blob'.cursors[v]
      BY DEF OnlyCrashLoses
    <3>1. \/ blob.cursors[v] = 0
          \/ blob.cursors[v] = told[v].seq /\ told[v].by # "taken"
          \/ blob.cursors[v] \in lost[v]
      BY <2>1, <2>5 DEF FeedInv, OnlyCrashLoses, Ended, Awaits
    <3>2. CASE v # w
      BY <1>0, <2>3, <2>6, <3>1, <3>2
    <3>3. CASE v = w /\ rdr[r].says
      BY <1>0, <2>1, <2>3, <2>4, <3>3
    <3>4. CASE v = w /\ ~ rdr[r].says /\ rdr[r].item = "none"
      BY <1>0, <2>1, <2>2, <2>3, <2>6, <2>7, <3>1, <3>4
    <3>5. CASE v = w /\ ~ rdr[r].says /\ rdr[r].item # "none"
      BY <1>0, <2>1, <2>3, <2>6, <2>7, <2>8, <3>5
    <3>. QED
      BY <3>2, <3>3, <3>4, <3>5
  <2>. QED
    BY <2>10, <2>11, <2>12, <2>13, <2>14 DEF FeedInv
<1>18. ASSUME NEW r \in Readers, Inject(r) PROVE FeedInv'
  <2> DEFINE w == rdr[r].wid
  <2>1. /\ rdr[r].pc = "inject" /\ May(r) /\ UNCHANGED <<call, blob, lost>>
        /\ rdr[r] \in ReaderRecords /\ w \in Watches
    BY <1>0, <1>18 DEF Inject, At
  <2>2. /\ \A v \in Watches \ {w} : told'[v] = told[v]
        /\ told'[w].seq = rdr[r].seq /\ told'[w].by # "taken"
    BY <1>0, <1>18, <2>1 DEF Inject
  <2>3. /\ ~ rdr[r].stop /\ rdr[r].seq = blob.cursors[w] /\ w \in blob.targets
    BY <2>1 DEF FeedInv, ReaderKnows, Feeding, Running, Saving, Ended
  <2>4. /\ \A q \in Readers \ {r} : rdr'[q] = rdr[q]
        /\ rdr'[r].pc = "streaming" /\ rdr'[r].wid = w /\ ~ rdr'[r].stop
        /\ rdr'[r].seq = rdr[r].seq
    BY <1>0, <1>18, <2>1, <2>3 DEF Inject, ReaderRecords
  <2>5. /\ \A c \in Callers : call[c].pc = "idle"
        /\ \A q \in Readers \ {r} : rdr[q].pc \in Ended \cup Awaits
    BY <2>1, ReaderAlone
  <2>6. \A c \in Callers : HandlerKnows(c)'
    BY <2>1, <2>5 DEF HandlerKnows
  <2>7. \A q \in Readers : ReaderKnows(q)'
    <3>1. ReaderKnows(r)'
      BY <2>1, <2>3, <2>4 DEF ReaderKnows, Feeding, Running, Saving
    <3>2. ASSUME NEW q \in Readers \ {r} PROVE ReaderKnows(q)'
      <4>1. rdr'[q] = rdr[q] /\ rdr[q].pc \in Ended \cup Awaits
        BY <2>4, <2>5
      <4>2. ReaderKnows(q) /\ blob' = blob
        BY <2>1 DEF FeedInv
      <4>. QED
        BY <4>1, <4>2 DEF ReaderKnows, Feeding, Running, Saving, Ended, Awaits
    <3>. QED
      BY <3>1, <3>2
  <2>8. NothingAhead'
    <3>1. \A v \in Watches : told[v].seq <= blob.cursors[v]
      BY DEF FeedInv, NothingAhead
    <3>2. told'[w].seq <= blob.cursors[w]
      <4>1. told'[w].seq = blob.cursors[w] /\ blob.cursors[w] \in Nat
        BY <1>0, <2>1, <2>2, <2>3
      <4>. QED
        BY <4>1
    <3>. QED
      BY <2>1, <2>2, <3>1, <3>2 DEF NothingAhead
  <2>9. OnlyCrashLoses'
    BY <1>0, <2>1, <2>2, <2>3, <2>4 DEF FeedInv, OnlyCrashLoses
  <2>. QED
    BY <2>6, <2>7, <2>8, <2>9 DEF FeedInv
<1>19. ASSUME Crash PROVE FeedInv'
  <2>1. /\ \A c \in Callers : call'[c].pc = "idle"
        /\ \A r \in Readers : rdr'[r].pc = "free"
        /\ UNCHANGED <<blob, told>>
    BY <1>19, RestFields DEF Crash
  <2>2. OnlyCrashLoses'
    <3>1. \A w \in Watches : lost'[w] = lost[w] \cup
            {rdr[r].seq : r \in {q \in Readers : rdr[q].pc = "inject" /\ rdr[q].wid = w}}
      BY <1>19 DEF Crash
    <3>. QED
      BY <2>1, <3>1 DEF FeedInv, OnlyCrashLoses
  <2>. QED
    BY <2>1, <2>2 DEF FeedInv, HandlerKnows, ReaderKnows, NothingAhead, Feeding, Running,
                      Saving, Ended
<1>20. ASSUME UNCHANGED vars PROVE FeedInv'
  BY <1>20 DEF vars, FeedInv, HandlerKnows, ReaderKnows, NothingAhead, OnlyCrashLoses,
               Feeding, Running, Saving
<1>. QED
  BY <1>1, <1>2, <1>3, <1>4, <1>5, <1>6, <1>7, <1>8, <1>9, <1>10, <1>11, <1>12, <1>13,
     <1>14, <1>15, <1>16, <1>17, <1>18, <1>19, <1>20
  DEF Next, ItemArrives, Continue, Advance, AlreadyWatched, Quiet

LEMMA FeedInvariant == ASSUME OnLoop = TRUE PROVE Spec => [](Loop /\ FeedInv)
<1>1. Init => FeedInv
  BY FeedInvStarts
<1>2. Loop /\ FeedInv /\ [Next]_vars => FeedInv'
  BY FeedInvKept
<1>. QED
  BY <1>1, <1>2, LoopInvariant, PTL DEF Spec

\* On the loop a saved cursor is that of the last item dealt with, of one about to be,
\* or of one a crash caught in between: a resume skips nothing that was read.
THEOREM OnlyCrashesLose ==
  ASSUME OnLoop = TRUE
  PROVE  Spec => []OnlyCrashLoses
<1>1. FeedInv => OnlyCrashLoses
  BY DEF FeedInv
<1>. QED
  BY <1>1, FeedInvariant, PTL

\* On the loop only t3_watch adds a target: no reader and no older copy of the blob
\* writes back one that t3_unwatch removed.
THEOREM TargetsComeFromWatch ==
  ASSUME OnLoop = TRUE
  PROVE  Spec => TargetsOnlyFromWatch
<1> DEFINE A == \A w \in Watches : w \in blob'.targets \ blob.targets =>
                  \E c \in Callers : call[c].pc = "putWrite" /\ call[c].wid = w
<1>1. Loop /\ FeedInv /\ [Next]_vars => [A]_vars
  <2> SUFFICES ASSUME Loop, FeedInv, [Next]_vars PROVE A
    OBVIOUS
  <2>1. ASSUME NEW c \in Callers, PutWrite(c) PROVE A
    <3>1. call[c].copy = blob
      BY <2>1 DEF PutWrite, FeedInv, HandlerKnows
    <3>2. blob'.targets = blob.targets \cup {call[c].wid} /\ call[c].pc = "putWrite"
      BY <2>1, <3>1 DEF PutWrite, WithTarget
    <3>. QED
      BY <3>2
  <2>2. ASSUME NEW c \in Callers, DropWrite(c) PROVE A
    <3>1. call[c].copy = blob
      BY <2>2 DEF DropWrite, FeedInv, HandlerKnows
    <3>2. blob'.targets \subseteq blob.targets
      BY <2>2, <3>1 DEF DropWrite, WithoutTarget
    <3>. QED
      BY <3>2
  <2>3. ASSUME NEW r \in Readers, SaveWrite(r) PROVE A
    <3>1. /\ rdr[r].copy = blob /\ rdr[r].wid \in blob.targets
      BY <2>3 DEF SaveWrite, At, FeedInv, ReaderKnows, Feeding, Running, Saving, Ended
    <3>2. blob'.targets = blob.targets
      BY <2>3, <3>1 DEF SaveWrite, WithCursor
    <3>. QED
      BY <3>2
  <2>4. CASE blob' = blob
    BY <2>4, ZenonT(60)
  <2>5. blob' = blob \/ (\E c \in Callers : PutWrite(c) \/ DropWrite(c))
                     \/ (\E r \in Readers : SaveWrite(r))
    BY ZenonT(60)
       DEF Next, Continue, Advance, ItemArrives, AlreadyWatched, BeginWatch, ReadCursor, PutRead,
       Register, Spawn, UnwatchPop, Interrupt, DropRead, UnloadInterrupt, UnloadClear,
       Reload, BodyStarts, FactoryFails, Connected, StreamEnds, StopNoticed, Receive,
       ReceiveSnapshot, SaveRead, Inject, CloseRuns, Cancelled, ClientClosed, LeaveCheck, LeavePop, Crash, vars
  <2>. QED
    BY <2>1, <2>2, <2>3, <2>4, <2>5
<1>. QED
  BY <1>1, FeedInvariant, PTL DEF Spec, TargetsOnlyFromWatch
----------------------------------------------------------------------------
(* WatchPromise is implemented *)

\* A step that injects nothing and starts no reader is a pause, or nothing.
LEMMA Pauses ==
  ASSUME told' = told,
         \A r \in Readers : Feeding(r)' => Feeding(r) /\ rdr'[r].wid = rdr[r].wid
  PROVE  [Promised!PromiseNext]_<<Watching, told>>
<1>1. Watching' \subseteq Watching
  BY DEF Watching, Feeding
<1>2. CASE Watching' = Watching
  BY <1>2
<1>3. CASE Watching' # Watching
  <2> DEFINE S == Watching \ Watching'
  <2>1. S # {} /\ S \in SUBSET Watching /\ Watching' = Watching \ S
    BY <1>1, <1>3
  <2>2. Promised!Pause(S)
    BY <2>1 DEF Promised!Pause
  <2>. QED
    BY <2>1, <2>2 DEF Promised!PromiseNext
<1>. QED
  BY <1>2, <1>3

LEMMA PromiseStarts == ASSUME Init PROVE Promised!PromiseInit
<1>1. \A r \in Readers : rdr[r].pc = "free"
  BY RestFields DEF Init
<1>2. Watching = {}
  BY <1>1 DEF Watching, Running, Ended
<1>. QED
  BY <1>2 DEF Init, NoMark, Promised!PromiseInit, Promised!Untold

LEMMA PromiseKept ==
  ASSUME Loop, FeedInv, [Next]_vars
  PROVE  [Promised!PromiseNext]_<<Watching, told>>
<1>0. /\ call \in [Callers -> Calls] /\ rdr \in [Readers -> ReaderRecords]
      /\ told \in [Watches -> Marks] /\ OnLoop = TRUE /\ TypeOK
      /\ \A r \in Readers : rdr[r].pc \notin {"free", "done"} => rdr[r].wid \in Watches
      /\ \A r \in Readers : rdr[r].seq \in Seqs
  BY LoopFacts DEF Loop, TypeInv
<1>1. CASE rdr' = rdr /\ told' = told
  BY <1>1, Pauses DEF Feeding, Running
<1>2. ASSUME NEW c \in Callers, DropWrite(c)
      PROVE  [Promised!PromiseNext]_<<Watching, told>>
  <2> DEFINE w == call[c].wid
  <2>1. /\ w \in Watches /\ told' = [told EXCEPT ![w] = NoMark] /\ rdr' = rdr
        /\ \A r \in Readers : Feeding(r) => rdr[r].wid # w
    BY <1>2 DEF DropWrite, FeedInv, HandlerKnows, Loop, TypeInv, TypeOK
  <2>2. w \notin Watching /\ Watching' = Watching
    BY <2>1 DEF Watching, Feeding, Running
  <2>3. Promised!Forget(w)
    BY <2>1, <2>2 DEF NoMark, Promised!Forget, Promised!Untold
  <2>. QED
    BY <2>1, <2>3 DEF Promised!PromiseNext
<1>3. ASSUME NEW c \in Callers, Register(c)
      PROVE  [Promised!PromiseNext]_<<Watching, told>>
  <2>1. /\ call[c].reader \in Readers
    BY <1>3 DEF Register, Loop, TypeInv, TypeOK
  <2>2. /\ rdr'[call[c].reader].pc = "unspawned" /\ told' = told
        /\ \A q \in Readers \ {call[c].reader} : rdr'[q] = rdr[q]
    BY <1>0, <1>3, <2>1 DEF Register, FreeReader
  <2>. QED
    BY <2>2, Pauses DEF Feeding, Running
<1>4. ASSUME NEW c \in Callers, Spawn(c)
      PROVE  [Promised!PromiseNext]_<<Watching, told>>
  <2> DEFINE r == call[c].reader
             w == rdr[r].wid
  <2>1. r \in Readers /\ rdr[r].pc = "unspawned" /\ w \in Watches
    BY <1>0, <1>4 DEF Spawn, Loop, TypeInv, TypeOK, Reservations
  <2>2. /\ rdr'[r].pc = "new" /\ rdr'[r].wid = w /\ rdr'[r].stop = rdr[r].stop
        /\ \A q \in Readers \ {r} : rdr'[q] = rdr[q]
        /\ told' = told
    BY <1>0, <1>4, <2>1 DEF Spawn, ReaderRecords
  <2>3. Watching' = Watching \/ Watching' = Watching \cup {w}
    BY <2>1, <2>2 DEF Watching, Running, Ended
  <2>4. CASE Watching' = Watching
    BY <2>2, <2>4
  <2>5. CASE Watching' # Watching
    <3>1. Promised!Begin(w)
      BY <2>2, <2>3, <2>5 DEF Promised!Begin
    <3>. QED
      BY <2>1, <3>1 DEF Promised!PromiseNext
  <2>. QED
    BY <2>4, <2>5
<1>5. ASSUME NEW c \in Callers, Interrupt(c)
      PROVE  [Promised!PromiseNext]_<<Watching, told>>
  <2> DEFINE r == call[c].reader
  <2>1. r \in Readers
    BY <1>5 DEF Interrupt, Loop, TypeInv, TypeOK
  <2>2. rdr[r] \in ReaderRecords /\ rdr' = [rdr EXCEPT ![r] = Interrupted(rdr[r])]
    BY <1>0, <1>5, <2>1 DEF Interrupt
  <2>3. /\ rdr'[r].pc = rdr[r].pc
        /\ rdr[r].pc # "done" => rdr'[r].stop
        /\ \A q \in Readers \ {r} : rdr'[q] = rdr[q]
    BY <1>0, <2>1, <2>2, InterruptedType
  <2>. QED
    BY <1>5, <2>3, Pauses DEF Interrupt, Feeding, Running, Ended
<1>6. ASSUME NEW c \in Callers, UnloadInterrupt(c)
      PROVE  [Promised!PromiseNext]_<<Watching, told>>
  <2>1. \A q \in Readers : /\ rdr'[q].pc = rdr[q].pc
                           /\ rdr'[q] = rdr[q] \/ rdr'[q].stop \/ rdr[q].pc = "done"
    BY <1>0, <1>6, InterruptedType DEF UnloadInterrupt
  <2>. QED
    BY <1>6, <2>1, Pauses DEF UnloadInterrupt, Feeding, Running, Ended
<1>7. ASSUME NEW r \in Readers, Quiet(r)
      PROVE  [Promised!PromiseNext]_<<Watching, told>>
  <2>1. /\ \A q \in Readers \ {r} : rdr'[q] = rdr[q]
        /\ rdr[r].pc \notin Ended \cup {"unspawned"} /\ told' = told
        /\ \/ rdr'[r].pc = "done"
           \/ rdr'[r].wid = rdr[r].wid /\ rdr'[r].stop = rdr[r].stop
    BY <1>0, <1>7, QuietSteps
  <2>. QED
    BY <2>1, Pauses DEF Feeding, Running, Ended
<1>8. ASSUME NEW r \in Readers, Takes(r) \/ SaveRead(r)
      PROVE  [Promised!PromiseNext]_<<Watching, told>>
  <2>1. rdr[r].pc \in {"streaming", "saveRead"} /\ told' = told
    BY <1>8 DEF Takes, Receive, ReceiveSnapshot, SaveRead, Resumes, At
  <2>2. /\ \A q \in Readers \ {r} : rdr'[q] = rdr[q]
        /\ rdr'[r].wid = rdr[r].wid /\ rdr'[r].stop = rdr[r].stop
    <3>1. CASE Takes(r)
      BY <1>0, <3>1 DEF Takes, Receive, ReceiveSnapshot, ReaderRecords
    <3>2. CASE SaveRead(r)
      BY <1>0, <3>2 DEF SaveRead, ReaderRecords
    <3>. QED
      BY <1>8, <3>1, <3>2
  <2>. QED
    BY <2>1, <2>2, Pauses DEF Feeding, Running, Ended
<1>9. ASSUME NEW r \in Readers, SaveWrite(r) \/ Inject(r)
      PROVE  [Promised!PromiseNext]_<<Watching, told>>
  <2> DEFINE w == rdr[r].wid
             s == rdr[r].seq
  <2>1. /\ rdr[r].pc \in {"saveWrite", "inject"} /\ w \in Watches /\ s \in Seqs
        /\ rdr[r] \in ReaderRecords
    BY <1>0, <1>9 DEF SaveWrite, Inject, At
  <2>2. ~ rdr[r].stop /\ Feeding(r)
    BY <2>1 DEF FeedInv, ReaderKnows, Saving, Feeding, Running, Ended
  <2>3. /\ \A q \in Readers \ {r} : rdr'[q] = rdr[q]
        /\ rdr'[r].wid = w /\ ~ rdr'[r].stop /\ rdr'[r].pc \in {"inject", "streaming"}
    <3>1. CASE SaveWrite(r)
      <4>1. rdr'[r] = [rdr[r] EXCEPT
                         !.pc = IF rdr[r].says THEN "inject" ELSE "streaming",
                         !.copy = EmptyBlob,
                         !.item = IF rdr[r].says THEN rdr[r].item ELSE "none"]
        BY <1>0, <3>1 DEF SaveWrite
      <4>2. \A q \in Readers \ {r} : rdr'[q] = rdr[q]
        BY <1>0, <3>1 DEF SaveWrite
      <4>. QED
        BY <2>1, <2>2, <4>1, <4>2 DEF ReaderRecords
    <3>2. CASE Inject(r)
      BY <1>0, <2>1, <2>2, <3>2 DEF Inject, ReaderRecords
    <3>. QED
      BY <1>9, <3>1, <3>2
  <2>4. w \in Watching /\ Watching' = Watching
    BY <2>1, <2>2, <2>3 DEF Watching, Feeding, Running, Ended
  <2>5. \/ told' = told
        \/ told' = [told EXCEPT ![w] = [seq |-> s, by |-> "event"]] /\ s > told[w].seq
        \/ \E by \in {"taken", "snapshot"} :
             told' = [told EXCEPT ![w] = [seq |-> s, by |-> by]]
    <3>1. CASE SaveWrite(r)
      <4>1. told' = [told EXCEPT ![w] = Saved(rdr[r], told[w])] /\ rdr[r].pc = "saveWrite"
        BY <3>1 DEF SaveWrite, At
      <4>2. CASE rdr[r].item = "event" /\ ~ rdr[r].says
        <5>1. s > blob.cursors[w] /\ told[w].seq <= blob.cursors[w]
          BY <2>1, <2>2, <4>1, <4>2 DEF FeedInv, ReaderKnows, NothingAhead, Saving
        <5>2. s \in Nat /\ blob.cursors[w] \in Nat /\ told[w].seq \in Nat
          BY <2>1, LoopFacts
        <5>. QED
          BY <4>1, <4>2, <5>1, <5>2 DEF Saved
      <4>3. CASE rdr[r].item = "snapshot"
        BY <4>1, <4>3 DEF Saved
      <4>4. CASE rdr[r].item # "snapshot" /\ ~ (rdr[r].item = "event" /\ ~ rdr[r].says)
        <5>1. Saved(rdr[r], told[w]) = told[w]
          BY <4>4 DEF Saved
        <5>. QED
          BY <1>0, <2>1, <4>1, <5>1
      <4>. QED
        BY <4>2, <4>3, <4>4
    <3>2. CASE Inject(r)
      <4>1. /\ rdr[r].pc = "inject"
            /\ told' = [told EXCEPT ![w] = [seq |-> s,
                          by |-> IF rdr[r].item = "event" THEN "event" ELSE "snapshot"]]
        BY <3>2 DEF Inject, At
      <4>2. rdr[r].item = "event" => s > told[w].seq
        BY <4>1 DEF FeedInv, ReaderKnows
      <4>. QED
        BY <4>1, <4>2
    <3>. QED
      BY <1>9, <3>1, <3>2
  <2>6. s \in 0 .. MaxSeq
    BY <2>1 DEF Seqs
  <2>7. told' = told \/ Promised!Announce(w, s) \/ Promised!StartOver(w, s)
    BY <2>4, <2>5 DEF Promised!Announce, Promised!StartOver
  <2>. QED
    BY <2>1, <2>4, <2>6, <2>7 DEF Promised!PromiseNext
<1>10. ASSUME Crash
       PROVE  [Promised!PromiseNext]_<<Watching, told>>
  <2>1. told' = told /\ \A r \in Readers : rdr'[r].pc = "free"
    BY <1>10, RestFields, ZenonT(60) DEF Crash
  <2>. QED
    BY <2>1, Pauses DEF Feeding, Running, Ended
<1>11. \/ rdr' = rdr /\ told' = told
       \/ \E c \in Callers : DropWrite(c) \/ Register(c) \/ Spawn(c) \/ Interrupt(c)
                             \/ UnloadInterrupt(c)
       \/ \E r \in Readers : Quiet(r) \/ Takes(r) \/ SaveRead(r) \/ SaveWrite(r) \/ Inject(r)
       \/ Crash
  BY ZenonT(60)
     DEF Next, Continue, Advance, ItemArrives, Quiet, Takes, AlreadyWatched, BeginWatch, ReadCursor,
     PutRead, PutWrite, UnwatchPop, DropRead, UnloadClear, Reload, vars
<1>. QED
  BY <1>1, <1>2, <1>3, <1>4, <1>5, <1>6, <1>7, <1>8, <1>9, <1>10, <1>11

\* On the loop Watch implements WatchPromise: whatever handlers, readers, unloads,
\* reloads and crashes do, from one snapshot to the next a watch deals with events in
\* the order of their sequences and with none twice, only while it is on; a snapshot
\* is where it starts over, and unwatching alone forgets.
THEOREM PromiseIsKept ==
  ASSUME OnLoop = TRUE
  PROVE  Spec => KeepsPromise
<1>1. Init => Promised!PromiseInit
  BY PromiseStarts
<1>2. Loop /\ FeedInv /\ [Next]_vars => [Promised!PromiseNext]_Promised!promiseVars
  BY PromiseKept DEF Promised!promiseVars
<1>. QED
  BY <1>1, <1>2, FeedInvariant, PTL DEF Spec, KeepsPromise, Promised!PromiseSpec
----------------------------------------------------------------------------
(* Readers that ended, on the loop and with threads *)

\* With threads a reader cannot be cancelled, so it ends in its own finally only.
ThreadInv ==
  /\ \A r \in Readers : ~ rdr[r].cancel
  /\ \A w \in Watches : live[w] # NoOne =>
       rdr[live[w]].wid = w /\ rdr[live[w]].pc # "done"

\* A step that registers nothing and ends no registered reader.
LEMMA ThreadStep ==
  ASSUME TypeOK, ThreadInv,
         \A w \in Watches : live'[w] \in {live[w], NoOne},
         \A r \in Readers :
           /\ ~ rdr'[r].cancel
           /\ \/ /\ rdr'[r].wid = rdr[r].wid
                 /\ rdr'[r].pc = "done" => rdr[r].pc = "done"
              \/ \A w \in Watches : live'[w] # r
  PROVE  ThreadInv'
BY DEF TypeOK, ThreadInv

LEMMA ThreadInvKept ==
  ASSUME OnLoop = FALSE, TypeInv, ThreadInv, [Next]_vars
  PROVE  ThreadInv'
<1>0. /\ live \in [Watches -> Readers \cup {NoOne}] /\ TypeOK
      /\ rdr \in [Readers -> ReaderRecords]
      /\ \A r \in Readers : ~ rdr[r].cancel
      /\ NoOne \notin Readers /\ OnLoop = FALSE
  BY WatchAssumption DEF TypeInv, TypeOK, ThreadInv
<1>1. CASE UNCHANGED rdr /\ \A w \in Watches : live'[w] \in {live[w], NoOne}
  BY <1>0, <1>1, ThreadStep
<1>2. ASSUME NEW c \in Callers, Register(c) PROVE ThreadInv'
  <2> DEFINE r == call[c].reader
  <2>1. /\ r \in Readers /\ call[c].wid \in Watches /\ \A w \in Watches : live[w] # r
    BY <1>2 DEF Register, TypeInv, TypeOK, Reservations, Reserved
  <2>2. /\ rdr'[r].pc = "unspawned" /\ rdr'[r].wid = call[c].wid /\ ~ rdr'[r].cancel
        /\ \A q \in Readers \ {r} : rdr'[q] = rdr[q]
        /\ live'[call[c].wid] = r
        /\ \A w \in Watches \ {call[c].wid} : live'[w] = live[w]
    BY <1>0, <1>2, <2>1 DEF Register, FreeReader
  <2>. QED
    BY <1>0, <2>1, <2>2 DEF ThreadInv
<1>3. ASSUME NEW c \in Callers, Spawn(c) PROVE ThreadInv'
  <2>1. \A q \in Readers : /\ ~ rdr'[q].cancel /\ rdr'[q].wid = rdr[q].wid
                           /\ rdr'[q].pc = "done" => rdr[q].pc = "done"
    BY <1>0, <1>3 DEF Spawn, ReaderRecords
  <2>. QED
    BY <1>0, <1>3, <2>1, ThreadStep DEF Spawn
<1>4. ASSUME NEW c \in Callers, Interrupt(c) \/ UnloadInterrupt(c) PROVE ThreadInv'
  <2>1. \A x \in ReaderRecords : ~ x.cancel => ~ Interrupted(x).cancel
    BY <1>0 DEF Interrupted, ReaderRecords
  <2>2. \A q \in Readers : rdr'[q] = rdr[q] \/ rdr'[q] = Interrupted(rdr[q])
    BY <1>0, <1>4 DEF Interrupt, UnloadInterrupt
  <2>3. \A q \in Readers : /\ ~ rdr'[q].cancel /\ rdr'[q].wid = rdr[q].wid
                           /\ rdr'[q].pc = "done" => rdr[q].pc = "done"
    BY <1>0, <2>1, <2>2, InterruptedType
  <2>. QED
    BY <1>0, <1>4, <2>3, ThreadStep DEF Interrupt, UnloadInterrupt
<1>5. ASSUME NEW r \in Readers, LeaveCheck(r) \/ LeavePop(r) PROVE ThreadInv'
  <2>1. rdr[r].pc \in {"leaving", "popping"} /\ rdr[r].wid \in Watches
    BY <1>0, <1>5 DEF LeaveCheck, LeavePop, At, TypeOK
  <2>2. \A q \in Readers \ {r} : rdr'[q] = rdr[q]
    BY <1>0, <1>5 DEF LeaveCheck, LeavePop
  <2>3. \A w \in Watches : live'[w] \in {live[w], NoOne}
    BY <1>0, <1>5, <2>1 DEF LeaveCheck, LeavePop
  <2>4. CASE rdr'[r].pc = "popping" /\ rdr'[r].wid = rdr[r].wid /\ ~ rdr'[r].cancel
    BY <1>0, <2>2, <2>3, <2>4, ThreadStep
  <2>5. CASE rdr'[r] = DoneReader /\ live'[rdr[r].wid] # r
    <3>1. \A w \in Watches : live'[w] # r
      BY <1>0, <2>3, <2>5 DEF ThreadInv
    <3>2. ~ rdr'[r].cancel
      BY <2>5 DEF DoneReader, FreeReader
    <3>. QED
      BY <1>0, <2>2, <2>3, <3>1, <3>2, ThreadStep
  <2>6. CASE LeaveCheck(r)
    <3>1. \/ rdr'[r] = [rdr[r] EXCEPT !.pc = "popping"]
          \/ rdr'[r] = DoneReader /\ live'[rdr[r].wid] # r
      BY <1>0, <2>6 DEF LeaveCheck
    <3>. QED
      BY <1>0, <2>4, <2>5, <3>1 DEF ReaderRecords
  <2>7. CASE LeavePop(r)
    BY <1>0, <2>1, <2>5, <2>7 DEF LeavePop
  <2>. QED
    BY <1>5, <2>6, <2>7
<1>6. ASSUME NEW r \in Readers,
             \/ BodyStarts(r) \/ FactoryFails(r) \/ Connected(r) \/ StreamEnds(r)
             \/ StopNoticed(r) \/ CloseRuns(r) \/ Cancelled(r) \/ ClientClosed(r)
      PROVE  ThreadInv'
  <2>1. ~ Cancelled(r)
    BY <1>0 DEF Cancelled
  <2>2. UNCHANGED live
    BY <1>6, <2>1 DEF BodyStarts, FactoryFails, Connected, StreamEnds, StopNoticed, CloseRuns, ClientClosed
  <2>3. /\ \A q \in Readers \ {r} : rdr'[q] = rdr[q]
        /\ ~ rdr'[r].cancel /\ rdr'[r].wid = rdr[r].wid /\ rdr'[r].pc # "done"
    <3>1. CASE CloseRuns(r)
      BY <1>0, <3>1, ZenonT(60) DEF CloseRuns, ReaderRecords, Awaits
    <3>2. CASE ~ CloseRuns(r)
      BY <1>0, <1>6, <2>1, <3>2
      DEF BodyStarts, FactoryFails, Connected, StreamEnds, StopNoticed, ClientClosed,
          ReaderRecords
    <3>. QED
      BY <3>1, <3>2
  <2>. QED
    BY <1>0, <2>2, <2>3, ThreadStep
<1>7. ASSUME NEW r \in Readers,
             Takes(r) \/ SaveRead(r) \/ SaveWrite(r) \/ Inject(r)
      PROVE  ThreadInv'
  <2>1. UNCHANGED live
    BY <1>7 DEF Takes, Receive, ReceiveSnapshot, SaveRead, SaveWrite, Inject
  <2>2. /\ \A q \in Readers \ {r} : rdr'[q] = rdr[q]
        /\ ~ rdr'[r].cancel /\ rdr'[r].wid = rdr[r].wid /\ rdr'[r].pc # "done"
    <3>1. CASE Takes(r)
      BY <1>0, <3>1 DEF Takes, Receive, ReceiveSnapshot, ReaderRecords
    <3>2. CASE SaveRead(r)
      BY <1>0, <3>2 DEF SaveRead, ReaderRecords
    <3>3. CASE SaveWrite(r)
      BY <1>0, <3>3 DEF SaveWrite, ReaderRecords
    <3>4. CASE Inject(r)
      BY <1>0, <3>4 DEF Inject, ReaderRecords
    <3>. QED
      BY <1>7, <3>1, <3>2, <3>3, <3>4
  <2>. QED
    BY <1>0, <2>1, <2>2, ThreadStep
<1>8. ASSUME Crash PROVE ThreadInv'
  <2>1. /\ \A w \in Watches : live'[w] = NoOne
        /\ \A r \in Readers : ~ rdr'[r].cancel
    BY <1>8 DEF Crash, FreeReader
  <2>. QED
    BY <2>1 DEF ThreadInv
<1>9. \/ UNCHANGED rdr /\ \A w \in Watches : live'[w] \in {live[w], NoOne}
      \/ \E c \in Callers : Register(c) \/ Spawn(c) \/ Interrupt(c) \/ UnloadInterrupt(c)
      \/ \E r \in Readers : LeaveCheck(r) \/ LeavePop(r)
      \/ \E r \in Readers :
           \/ BodyStarts(r) \/ FactoryFails(r) \/ Connected(r) \/ StreamEnds(r)
           \/ StopNoticed(r) \/ CloseRuns(r) \/ Cancelled(r) \/ ClientClosed(r)
      \/ \E r \in Readers :
           Takes(r) \/ SaveRead(r) \/ SaveWrite(r) \/ Inject(r)
      \/ Crash
  BY <1>0, ZenonT(60)
     DEF Next, Continue, Advance, ItemArrives, Takes, AlreadyWatched, BeginWatch, ReadCursor,
     PutRead, PutWrite, UnwatchPop, DropRead, DropWrite, UnloadClear, Reload, vars
<1>. QED
  BY <1>1, <1>2, <1>3, <1>4, <1>5, <1>6, <1>7, <1>8, <1>9

\* A reader whose finally ran is not registered any more, on the loop and with
\* threads, whoever stopped, cancelled or replaced it meanwhile.
THEOREM EndedReadersUnregistered == Spec => []NoEndedReaderRegistered
<1>1. CASE OnLoop = TRUE
  <2>1. Loop => NoEndedReaderRegistered
    BY DEF Loop, LoopInv, Registry, NoEndedReaderRegistered
  <2>. QED
    BY <1>1, <2>1, LoopInvariant, PTL
<1>2. CASE OnLoop = FALSE
  <2>1. Init => ThreadInv
    BY DEF Init, ThreadInv, FreeReader
  <2>2. OnLoop = FALSE /\ TypeInv /\ ThreadInv /\ [Next]_vars => ThreadInv'
    BY ThreadInvKept, ZenonT(60)
  <2>3. ThreadInv => NoEndedReaderRegistered
    BY DEF ThreadInv, NoEndedReaderRegistered
  <2>. QED
    BY <1>2, <2>1, <2>2, <2>3, TypeInvariant, PTL DEF Spec, TypeInv
<1>. QED
  BY <1>1, <1>2, WatchAssumption
=============================================================================
