------------------------- MODULE DurableInboxProofs -------------------------
(***************************************************************************)
(* What is proved of DurableInbox for every set of events, aggregates and  *)
(* workers and every value of the settings: its type invariant, its safety *)
(* invariants and the implementation of AggregateLog.  The last section is *)
(* about the mode the worker derives from its dead letters.                *)
(***************************************************************************)
EXTENDS DurableInbox, ContinuityMode, TLAPS

-----------------------------------------------------------------------------
(* The inductive invariant.  The safety invariants of DurableInbox are not *)
(* inductive: a retried row is judged by what its event did long ago.      *)

TablesOK ==
    /\ inbox \in [Event -> RowType]
    /\ version \in [Aggregate -> Nat]
    /\ lastEvent \in [Aggregate -> Event \cup {NoEvent}]
    /\ deadLetter \in [Event -> LetterType]
    /\ effects \in [Aggregate -> Seq(Event)]

MemoryOK ==
    /\ lastId \in Nat
    /\ batch \in [Worker -> SUBSET Event]
    /\ reading \in [Consumer -> [event : Event \cup {NoEvent}, row : RowType]]
    /\ retrying \in [Event -> [held : BOOLEAN, sets : SUBSET {"status", "next"}]]
    /\ overtaken \subseteq Event

(* Nothing has happened to an event that was never staged.               *)
AbsentIsFresh(e) ==
    inbox[e].status = "absent" =>
        inbox[e].attempts = 0 /\ deadLetter[e].status = "none" /\ ~Committed(e)

(* e's effect, or another with its version, has committed; if the version  *)
(* is still the current one the effect is e's.                             *)
Reached(e) ==
    \/ VersionOf[e] < version[AggregateOf[e]]
    \/ VersionOf[e] = version[AggregateOf[e]] /\ lastEvent[AggregateOf[e]] = e

(* A processed row's version has been reached, by an event with a handler. *)
ProcessedReached(e) ==
    inbox[e].status = "processed" => Reached(e) /\ e \notin Unsupported

(* A waiting row always has one attempt left, of its own or an operator's. *)
AttemptLeft(e) ==
    /\ inbox[e].status \in Waiting =>
          inbox[e].attempts < MaxAttempts + deadLetter[e].retries
    /\ inbox[e].status \in Settled =>
          inbox[e].attempts <= MaxAttempts + deadLetter[e].retries
    /\ inbox[e].attempts >= MaxAttempts /\ inbox[e].status \in Waiting
          => deadLetter[e].status = "retry_pending"

OnlySupportedCommit(e) == Committed(e) => e \notin Unsupported

CommittedRow(e) ==
    Committed(e) => \/ inbox[e].status = "processed"
                    \/ inbox[e].status = "pending" /\ deadLetter[e].status = "retry_pending"

DeadIsOpen(e) == inbox[e].status = "dead_letter" => deadLetter[e].status = "open"

RowInv(e) == /\ AbsentIsFresh(e) /\ ProcessedReached(e) /\ AttemptLeft(e)
             /\ OnlySupportedCommit(e) /\ CommittedRow(e) /\ DeadIsOpen(e)

TableInv == TablesOK /\ VersionTracksEffects /\ \A e \in Event : RowInv(e)

(* An open letter's row is dead-lettered, or a consume wrote over it.      *)
OpenIsDead(e) ==
    deadLetter[e].status = "open" => inbox[e].status = "dead_letter" \/ e \in overtaken

(* What a consume has read was a waiting row with an attempt left.         *)
ReadingOK(c) ==
    reading[c] # NotReading =>
        /\ reading[c].event \in Event
        /\ inbox[reading[c].event].status # "absent"
        /\ reading[c].row.status \in Waiting
        /\ reading[c].row.attempts < MaxAttempts + deadLetter[reading[c].event].retries

(* A retry holds a letter that exists; a row it has read as pending cannot *)
(* be dead-lettered before it ends.                                        *)
RetryOK(e) ==
    retrying[e].held =>
        /\ deadLetter[e].status # "none"
        /\ "status" \notin retrying[e].sets => inbox[e].status # "dead_letter"

(* A worker only selects rows that were staged.                          *)
BatchStaged == \A w \in Worker : \A e \in batch[w] : inbox[e].status # "absent"

IInv == /\ MemoryOK /\ BatchStaged /\ TableInv
        /\ \A e \in Event : OpenIsDead(e) /\ RetryOK(e)
        /\ \A c \in Consumer : ReadingOK(c)

-----------------------------------------------------------------------------
(* What the pieces of _apply_inbox_record do, each stated once.            *)

(* What a transaction works on: the row it stages, or the stored one and   *)
(* what the session read of it, then or earlier.                           *)
RowOf(e, row, stored) ==
    \/ /\ inbox[e].status = "absent"
       /\ row = StagedRow /\ stored = StagedRow
    \/ /\ inbox[e].status # "absent" /\ stored = inbox[e]
       /\ \/ row = inbox[e]
          \/ /\ row \in RowType /\ row.status \in Waiting
             /\ row.attempts < MaxAttempts + deadLetter[e].retries

(* Position classifies the event's version against the aggregate's.        *)
LEMMA PositionMeaning ==
    ASSUME TablesOK, NEW e \in Event
    PROVE  LET v == VersionOf[e]   current == version[AggregateOf[e]] IN
           /\ Position(e) = "gap" <=> v > current + 1
           /\ Position(e) = "same" <=> v = current
           /\ Position(e) = "older" <=> v < current
           /\ Position(e) = "next" <=> v = current + 1
<1> DEFINE v == VersionOf[e]
           current == version[AggregateOf[e]]
<1>1. v \in Nat /\ current \in Nat
  BY InboxAssumption DEF TablesOK
<1>2. CASE v > current + 1
  BY <1>1, <1>2 DEF Position
<1>3. CASE v = current
  BY <1>1, <1>3 DEF Position
<1>4. CASE v < current
  BY <1>1, <1>4 DEF Position
<1>5. CASE v = current + 1
  BY <1>1, <1>5 DEF Position
<1> QED
  BY <1>1, <1>2, <1>3, <1>4, <1>5

(* The rows a transaction works on are rows, and exist.                    *)
LEMMA RowOfType ==
    ASSUME TablesOK, lastId \in Nat, NEW e \in Event, NEW row, NEW stored,
           RowOf(e, row, stored)
    PROVE  /\ row \in RowType /\ stored \in RowType
           /\ stored.status # "absent"
           /\ stored.status = "dead_letter" => inbox[e].status = "dead_letter"
<1>1. StagedRow \in RowType /\ StagedRow.status = "pending"
  BY DEF StagedRow, RowType, Waiting
<1> QED
  BY <1>1 DEF TablesOK, RowOf

(* A row with three columns written is a row.                              *)
LEMMA RowWritten ==
    ASSUME NEW stored \in RowType, NEW s \in {"absent"} \cup Waiting \cup Settled,
           NEW a \in Nat, NEW n \in {"null", "ahead", "passed"}
    PROVE  [stored EXCEPT !.status = s, !.attempts = a + 1, !.next = n] \in RowType
<1> DEFINE b == a + 1
<1>1. b \in Nat
  OBVIOUS
<1> HIDE DEF b
<1>2. [stored EXCEPT !.status = s, !.attempts = b, !.next = n] \in RowType
  BY <1>1 DEF RowType
<1> QED
  BY <1>2 DEF b

(* What a failure leaves in the row's tables.                              *)
LEMMA FailureStep ==
    ASSUME TablesOK, NEW e \in Event, NEW row \in RowType, NEW stored \in RowType,
           NEW retryable \in BOOLEAN, NEW waitAs \in Waiting,
           ScheduleFailure(e, row, stored, retryable, waitAs)
    PROVE  /\ inbox' \in [Event -> RowType]
           /\ \A f \in Event \ {e} : inbox'[f] = inbox[f]
           /\ inbox'[e].attempts = row.attempts + 1
           /\ \/ /\ inbox'[e].status = "dead_letter" /\ ~retrying[e].held
                 /\ deadLetter' = [deadLetter EXCEPT ![e].status = "open"]
              \/ /\ inbox'[e].status \in {waitAs, stored.status}
                 /\ row.attempts + 1 < MaxAttempts
                 /\ deadLetter' = deadLetter
<1>1. MaxAttempts \in Nat /\ row.attempts \in Nat
  BY InboxAssumption DEF RowType
<1>2. CASE ~retryable \/ row.attempts + 1 >= MaxAttempts
  <2> DEFINE nx == Flushed(row.next, "null", stored.next)
             newRow == [stored EXCEPT !.status = "dead_letter",
                                      !.attempts = row.attempts + 1,
                                      !.next = nx]
  <2>1. /\ inbox' = [inbox EXCEPT ![e] = newRow] /\ ~retrying[e].held
        /\ deadLetter' = [deadLetter EXCEPT ![e].status = "open"]
    BY <1>2 DEF ScheduleFailure, DeadLetter
  <2>3. nx \in {"null", "ahead", "passed"}
    BY DEF RowType, Flushed
  <2> HIDE DEF nx
  <2>2. /\ newRow \in RowType /\ newRow.status = "dead_letter"
        /\ newRow.attempts = row.attempts + 1
    <3>1. newRow \in RowType
      <4>1. "dead_letter" \in {"absent"} \cup Waiting \cup Settled
        BY DEF Settled
      <4> QED
        BY <1>1, <2>3, <4>1, RowWritten
    <3>2. newRow.status = "dead_letter"
      BY DEF RowType
    <3>3. newRow.attempts = row.attempts + 1
      BY DEF RowType
    <3> QED
      BY <3>1, <3>2, <3>3
  <2> HIDE DEF newRow
  <2>4. /\ inbox' \in [Event -> RowType] /\ inbox'[e] = newRow
        /\ \A f \in Event \ {e} : inbox'[f] = inbox[f]
    BY <2>1, <2>2 DEF TablesOK
  <2> QED
    BY <2>1, <2>2, <2>4, Zenon
<1>3. CASE ~(~retryable \/ row.attempts + 1 >= MaxAttempts)
  <2> DEFINE st == Flushed(row.status, waitAs, stored.status)
             newRow == [stored EXCEPT !.status = st,
                                      !.attempts = row.attempts + 1,
                                      !.next = "ahead"]
  <2>1. inbox' = [inbox EXCEPT ![e] = newRow] /\ deadLetter' = deadLetter
    BY <1>3 DEF ScheduleFailure, BackOff
  <2>3. st \in {waitAs, stored.status}
    BY DEF Flushed
  <2> HIDE DEF st
  <2>2. /\ newRow \in RowType /\ newRow.status \in {waitAs, stored.status}
        /\ newRow.attempts = row.attempts + 1
    <3>1. newRow \in RowType
      <4>1. st \in {"absent"} \cup Waiting \cup Settled
        BY <2>3 DEF RowType
      <4> QED
        BY <1>1, <2>3, <4>1, RowWritten
    <3>2. newRow.status = st
      BY DEF RowType
    <3>3. newRow.attempts = row.attempts + 1
      BY DEF RowType
    <3> QED
      BY <2>3, <3>1, <3>2, <3>3
  <2> HIDE DEF newRow
  <2>4. /\ inbox' \in [Event -> RowType] /\ inbox'[e] = newRow
        /\ \A f \in Event \ {e} : inbox'[f] = inbox[f]
    BY <2>1, <2>2 DEF TablesOK
  <2>5. row.attempts + 1 < MaxAttempts
    BY <1>1, <1>3
  <2> QED
    BY <2>1, <2>2, <2>4, <2>5, Zenon
<1> QED
  BY <1>2, <1>3

(* What settling a row as processed leaves in the row's tables.            *)
LEMMA ProcessedStep ==
    ASSUME TablesOK, NEW e \in Event, NEW row \in RowType, NEW stored \in RowType,
           MarkProcessed(e, row, stored)
    PROVE  /\ inbox' \in [Event -> RowType]
           /\ \A f \in Event \ {e} : inbox'[f] = inbox[f]
           /\ inbox'[e].status = "processed"
           /\ inbox'[e].attempts = stored.attempts
           /\ deadLetter' = deadLetter
<1> DEFINE newRow == [stored EXCEPT !.status = "processed",
                                    !.next = Flushed(row.next, "null", @)]
<1>1. inbox' = [inbox EXCEPT ![e] = newRow] /\ deadLetter' = deadLetter
  BY DEF MarkProcessed
<1>2. /\ newRow \in RowType /\ newRow.status = "processed"
      /\ newRow.attempts = stored.attempts
  BY DEF RowType, Settled, Flushed
<1> HIDE DEF newRow
<1> QED
  BY <1>1, <1>2 DEF TablesOK

(* Every way to apply a record is one of four: nothing, a failure of an    *)
(* event that cannot have been processed, a receipt for a version already  *)
(* reached, or the effect itself.                                          *)
Fails(e, row, stored) ==
    \E retryable \in BOOLEAN : \E waitAs \in {"retry", "blocked"} :
        ScheduleFailure(e, row, stored, retryable, waitAs)

Failable(e) == e \in Unsupported \/ ~Reached(e)

(* A committed event's version has been reached.                           *)
LEMMA CommittedReached ==
    ASSUME TablesOK, VersionTracksEffects, NEW e \in Event, Committed(e)
    PROVE  Reached(e)
<1> DEFINE a == AggregateOf[e]
<1>1. a \in Aggregate /\ VersionOf[e] \in Nat /\ VersionOf[e] > 0
  BY InboxAssumption
<1>2. PICK i \in DOMAIN effects[a] : effects[a][i] = e
  BY DEF Committed
<1>3. effects[a] \in Seq(Event) /\ version[a] = Len(effects[a])
  BY <1>1 DEF TablesOK, VersionTracksEffects
<1>4. i \in 1 .. version[a]
  BY <1>2, <1>3
<1>5. VersionOf[e] = i
  BY <1>1, <1>2 DEF VersionTracksEffects
<1>6. version[a] # 0 => lastEvent[a] = effects[a][version[a]]
  BY <1>1 DEF VersionTracksEffects
<1>7. version[a] \in Nat
  BY <1>1 DEF TablesOK
<1> QED
  BY <1>2, <1>4, <1>5, <1>6, <1>7 DEF Reached

(* What applying a row can do: nothing, fail, mark a row processed, or     *)
(* have the effect.                                                        *)
LEMMA ApplyShapes ==
    ASSUME TablesOK, NEW e \in Event, lastId \in Nat, NEW row, NEW stored,
           RowOf(e, row, stored), ApplyRecord(e, row, stored)
    PROVE  \/ /\ inbox' = inbox /\ inbox[e].status # "absent"
              /\ UNCHANGED deadLetter /\ NoEffect
           \/ /\ row.status \notin Answered /\ Failable(e)
              /\ Fails(e, row, stored) /\ NoEffect
           \/ /\ row.status \notin Answered /\ Reached(e) /\ e \notin Unsupported
              /\ MarkProcessed(e, row, stored) /\ NoEffect
           \/ HandlerSucceeds(e, row, stored)
<1>1. /\ AggregateOf[e] \in Aggregate /\ VersionOf[e] \in Nat
      /\ version[AggregateOf[e]] \in Nat
  BY InboxAssumption DEF TablesOK
<1>2. CASE AnswerReceipt(e, row, stored)
  <2>1. stored = inbox[e] /\ inbox[e].status # "absent"
    BY <1>2 DEF AnswerReceipt, RowOf, Answered, StagedRow
  <2>2. inbox' = inbox
    BY <1>2, <2>1 DEF AnswerReceipt, TablesOK
  <2> QED
    BY <1>2, <2>1, <2>2 DEF AnswerReceipt
<1>3. CASE RejectUnsupported(e, row, stored)
  BY <1>3 DEF RejectUnsupported, Failable, Fails
<1>4. CASE BlockBehindGap(e, row, stored)
  <2>1. ~Reached(e)
    BY <1>1, <1>4, PositionMeaning DEF BlockBehindGap, Reached
  <2> QED
    BY <1>4, <2>1 DEF BlockBehindGap, Applicable, Fails, Failable
<1>5. CASE SameVersion(e, row, stored)
  <2>1. VersionOf[e] = version[AggregateOf[e]]
    BY <1>5, PositionMeaning DEF SameVersion
  <2>2. CASE lastEvent[AggregateOf[e]] = e
    BY <1>5, <2>1, <2>2 DEF SameVersion, Applicable, Reached
  <2>3. CASE lastEvent[AggregateOf[e]] # e
    <3>1. ~Reached(e)
      BY <1>1, <2>1, <2>3 DEF Reached
    <3> QED
      BY <1>5, <2>3, <3>1 DEF SameVersion, Applicable, Fails, Failable
  <2> QED
    BY <2>2, <2>3
<1>6. CASE Supersede(e, row, stored)
  <2>1. VersionOf[e] < version[AggregateOf[e]]
    BY <1>6, PositionMeaning DEF Supersede
  <2> QED
    BY <1>6, <2>1 DEF Supersede, Applicable, Reached
<1>7. ASSUME NEW retryable \in BOOLEAN, HandlerFails(e, row, stored, retryable)
      PROVE  row.status \notin Answered /\ Failable(e) /\ Fails(e, row, stored) /\ NoEffect
  <2>1. ~Reached(e)
    BY <1>1, <1>7, PositionMeaning DEF HandlerFails, Reached
  <2> QED
    BY <1>7, <2>1 DEF HandlerFails, Applicable, Fails, Failable
<1> QED
  BY <1>2, <1>3, <1>4, <1>5, <1>6, <1>7 DEF ApplyRecord

-----------------------------------------------------------------------------
(* Each of the four preserves the invariant of the tables.                 *)

(* The row a failing or succeeding transaction works on waits and has an   *)
(* attempt left; the stored row has not counted too many.                  *)
LEMMA OpenRow ==
    ASSUME TableInv, NEW e \in Event, NEW row, NEW stored, RowOf(e, row, stored),
           row.status \notin Answered, lastId \in Nat
    PROVE  /\ row.attempts < MaxAttempts + deadLetter[e].retries
           /\ stored.attempts <= MaxAttempts + deadLetter[e].retries
<1>1. /\ inbox[e] \in RowType /\ deadLetter[e] \in LetterType
      /\ MaxAttempts \in Nat /\ MaxAttempts > 0
  BY InboxAssumption DEF TableInv, TablesOK
<1>2. AttemptLeft(e)
  BY DEF TableInv, RowInv
<1>3. CASE inbox[e].status = "absent"
  BY <1>1, <1>3 DEF RowOf, StagedRow, LetterType
<1>4. CASE inbox[e].status # "absent"
  <2>1. inbox[e].attempts <= MaxAttempts + deadLetter[e].retries
    BY <1>1, <1>2, <1>4 DEF AttemptLeft, RowType, LetterType
  <2>2. row = inbox[e] => inbox[e].status \in Waiting
    BY <1>1, <1>4 DEF RowType, Settled, Answered
  <2> QED
    BY <1>2, <1>4, <2>1, <2>2 DEF RowOf, AttemptLeft
<1> QED
  BY <1>3, <1>4

(* The invariant of the rows a transaction does not touch.                 *)
LEMMA OtherRows ==
    ASSUME TableInv, NEW f \in Event, inbox'[f] = inbox[f],
           deadLetter'[f] = deadLetter[f], Committed(f)' <=> Committed(f),
           Reached(f) => Reached(f)'
    PROVE  RowInv(f)'
BY DEF TableInv, RowInv, AbsentIsFresh, ProcessedReached, AttemptLeft,
       OnlySupportedCommit, CommittedRow, DeadIsOpen

(* Steps that leave the tables alone.                                      *)
LEMMA UnchangedTables ==
    ASSUME TableInv, UNCHANGED <<inbox, version, lastEvent, deadLetter, effects>>
    PROVE  TableInv'
BY DEF TableInv, TablesOK, VersionTracksEffects, RowInv, AbsentIsFresh, ProcessedReached,
   Reached, AttemptLeft, OnlySupportedCommit, CommittedRow, DeadIsOpen, Committed

(* A step without an effect commits nothing and moves no version.          *)
LEMMA NoEffectKeeps ==
    ASSUME TableInv, NoEffect
    PROVE  /\ VersionTracksEffects'
           /\ \A f \in Event : (Committed(f)' <=> Committed(f)) /\ (Reached(f)' <=> Reached(f))
BY DEF TableInv, NoEffect, VersionTracksEffects, Committed, Reached

(* A transaction leaves every row and letter but its own, leaves its row   *)
(* staged, and opens the letter, which no retry holds, if it dead-letters. *)
OnlyRow(e) ==
    /\ \A f \in Event \ {e} : inbox'[f] = inbox[f] /\ deadLetter'[f] = deadLetter[f]
    /\ inbox'[e].status # "absent"
    /\ deadLetter'[e].retries = deadLetter[e].retries
    /\ \/ /\ deadLetter'[e].status = deadLetter[e].status
          /\ inbox'[e].status = "dead_letter" => inbox[e].status = "dead_letter"
       \/ /\ deadLetter'[e].status = "open" /\ ~retrying[e].held
          /\ inbox'[e].status = "dead_letter"
    /\ inbox[e].status = "processed" => inbox'[e].status = "processed"

(* A failure of an event that cannot have been processed.                  *)
LEMMA FailurePreserves ==
    ASSUME TableInv, NEW e \in Event, NEW row, NEW stored, RowOf(e, row, stored),
           lastId \in Nat, row.status \notin Answered, Failable(e),
           Fails(e, row, stored), NoEffect
    PROVE  TableInv' /\ OnlyRow(e)
<1>1. /\ row \in RowType /\ stored \in RowType /\ stored.status # "absent"
      /\ stored.status = "dead_letter" => inbox[e].status = "dead_letter"
      /\ deadLetter[e] \in LetterType /\ MaxAttempts \in Nat
      /\ deadLetter \in [Event -> LetterType]
  BY RowOfType, InboxAssumption DEF TableInv, TablesOK
<1>2. PICK retryable \in BOOLEAN, waitAs \in {"retry", "blocked"} :
          ScheduleFailure(e, row, stored, retryable, waitAs)
  BY DEF Fails
<1>3. /\ inbox' \in [Event -> RowType]
      /\ \A f \in Event \ {e} : inbox'[f] = inbox[f]
      /\ inbox'[e].attempts = row.attempts + 1
      /\ \/ /\ inbox'[e].status = "dead_letter" /\ ~retrying[e].held
            /\ deadLetter' = [deadLetter EXCEPT ![e].status = "open"]
         \/ /\ inbox'[e].status \in {waitAs, stored.status}
            /\ row.attempts + 1 < MaxAttempts
            /\ deadLetter' = deadLetter
  BY <1>1, <1>2, FailureStep DEF TableInv, Waiting
<1>4. /\ deadLetter' \in [Event -> LetterType]
      /\ \A f \in Event \ {e} : deadLetter'[f] = deadLetter[f]
      /\ deadLetter'[e].retries = deadLetter[e].retries
  BY <1>1, <1>3 DEF LetterType
<1>5. TablesOK'
  BY <1>3, <1>4 DEF TableInv, TablesOK, NoEffect
<1>6. /\ VersionTracksEffects'
      /\ \A f \in Event : (Committed(f)' <=> Committed(f)) /\ (Reached(f)' <=> Reached(f))
  BY NoEffectKeeps
<1>7. ASSUME NEW f \in Event \ {e} PROVE RowInv(f)'
  BY <1>3, <1>4, <1>6, OtherRows
<1>8. row.attempts < MaxAttempts + deadLetter[e].retries /\ row.attempts \in Nat
  BY <1>1, OpenRow DEF RowType
<1>9. ~Committed(e) /\ ~Committed(e)' /\ inbox[e].status # "processed"
  BY <1>6, CommittedReached
     DEF Failable, TableInv, RowInv, OnlySupportedCommit, ProcessedReached
<1>10. stored.status # "processed"
  BY <1>9 DEF RowOf, StagedRow
<1>11. RowInv(e)' /\ OnlyRow(e)
  <2>1. CASE /\ inbox'[e].status = "dead_letter" /\ ~retrying[e].held
             /\ deadLetter' = [deadLetter EXCEPT ![e].status = "open"]
    <3>1. deadLetter'[e].status = "open"
      BY <1>1, <2>1 DEF LetterType
    <3>2. AttemptLeft(e)'
      BY <1>1, <1>3, <1>4, <1>8, <2>1 DEF AttemptLeft, Waiting, LetterType
    <3> QED
      BY <1>3, <1>4, <2>1, <3>1, <3>2, <1>9 DEF RowInv, AbsentIsFresh, ProcessedReached,
             OnlySupportedCommit, CommittedRow, DeadIsOpen, OnlyRow
  <2>2. CASE /\ inbox'[e].status \in {waitAs, stored.status}
             /\ row.attempts + 1 < MaxAttempts
             /\ deadLetter' = deadLetter
    <3>1. /\ inbox'[e].status = "dead_letter" => inbox[e].status = "dead_letter"
          /\ inbox'[e].status \notin {"absent", "processed"}
      BY <1>1, <1>10, <2>2
    <3>2. AttemptLeft(e)'
      BY <1>1, <1>3, <1>4, <1>8, <2>2 DEF AttemptLeft, LetterType
    <3>3. DeadIsOpen(e)'
      BY <2>2, <3>1 DEF DeadIsOpen, TableInv, RowInv
    <3> QED
      BY <1>3, <1>4, <2>2, <3>1, <3>2, <3>3, <1>9 DEF RowInv, AbsentIsFresh,
             ProcessedReached, OnlySupportedCommit, CommittedRow, OnlyRow
  <2> QED
    BY <1>3, <2>1, <2>2
<1> QED
  BY <1>5, <1>6, <1>7, <1>11 DEF TableInv

(* A row settled as processed, with or without an effect of its own.       *)
LEMMA ProcessedRow ==
    ASSUME TableInv, NEW e \in Event, NEW row, NEW stored, RowOf(e, row, stored),
           lastId \in Nat, row.status \notin Answered, MarkProcessed(e, row, stored),
           Reached(e)', e \notin Unsupported, OnlySupportedCommit(e)'
    PROVE  RowInv(e)' /\ OnlyRow(e)
<1>1. /\ row \in RowType /\ stored \in RowType
      /\ deadLetter[e] \in LetterType /\ MaxAttempts \in Nat
  BY RowOfType, InboxAssumption DEF TableInv, TablesOK
<1>2. /\ inbox'[e].status = "processed" /\ inbox'[e].attempts = stored.attempts
      /\ deadLetter' = deadLetter /\ \A f \in Event \ {e} : inbox'[f] = inbox[f]
  BY <1>1, ProcessedStep DEF TableInv
<1>3. AttemptLeft(e)'
  BY <1>1, <1>2, OpenRow DEF AttemptLeft, Waiting, LetterType, RowType
<1>4. OnlyRow(e)
  BY <1>2 DEF OnlyRow
<1> QED
  BY <1>2, <1>3, <1>4 DEF RowInv, AbsentIsFresh, ProcessedReached,
       CommittedRow, DeadIsOpen

(* A receipt without an effect, for a version that has been reached.       *)
LEMMA ReceiptPreserves ==
    ASSUME TableInv, NEW e \in Event, NEW row, NEW stored, RowOf(e, row, stored),
           lastId \in Nat, row.status \notin Answered, MarkProcessed(e, row, stored),
           NoEffect, Reached(e), e \notin Unsupported
    PROVE  TableInv' /\ OnlyRow(e)
<1>1. row \in RowType /\ stored \in RowType
  BY RowOfType DEF TableInv
<1>2. /\ inbox' \in [Event -> RowType] /\ deadLetter' = deadLetter
      /\ \A f \in Event \ {e} : inbox'[f] = inbox[f]
  BY <1>1, ProcessedStep DEF TableInv
<1>3. TablesOK'
  BY <1>2 DEF TableInv, TablesOK, NoEffect
<1>4. /\ VersionTracksEffects'
      /\ \A f \in Event : (Committed(f)' <=> Committed(f)) /\ (Reached(f)' <=> Reached(f))
  BY NoEffectKeeps
<1>5. ASSUME NEW f \in Event \ {e} PROVE RowInv(f)'
  BY <1>2, <1>4, OtherRows
<1>6. OnlySupportedCommit(e)' /\ Reached(e)'
  BY <1>4 DEF OnlySupportedCommit, TableInv, RowInv
<1>7. RowInv(e)' /\ OnlyRow(e)
  BY <1>6, ProcessedRow
<1> QED
  BY <1>3, <1>4, <1>5, <1>7 DEF TableInv

(* The effect itself: the log of e's aggregate grows by e, the version by  *)
(* one, and only e becomes committed.                                      *)
LEMMA EffectGrows ==
    ASSUME TableInv, NEW e \in Event, NEW row, NEW stored,
           HandlerSucceeds(e, row, stored)
    PROVE  LET a == AggregateOf[e] IN
           /\ effects' = [effects EXCEPT ![a] = Append(effects[a], e)]
           /\ a \in Aggregate /\ VersionOf[e] = Len(effects[a]) + 1
           /\ version' = [version EXCEPT ![a] = VersionOf[e]]
           /\ lastEvent' = [lastEvent EXCEPT ![a] = e]
<1>1. AggregateOf[e] \in Aggregate
  BY InboxAssumption
<1>2. VersionOf[e] = version[AggregateOf[e]] + 1
  BY PositionMeaning DEF HandlerSucceeds, TableInv
<1>3. version[AggregateOf[e]] = Len(effects[AggregateOf[e]])
  BY <1>1 DEF TableInv, VersionTracksEffects
<1> QED
  BY <1>1, <1>2, <1>3 DEF HandlerSucceeds

(* The version row follows the effect.                                     *)
LEMMA EffectTracked ==
    ASSUME TableInv, NEW e \in Event, NEW row, NEW stored,
           HandlerSucceeds(e, row, stored)
    PROVE  VersionTracksEffects'
<1> DEFINE a == AggregateOf[e]
<1>1. /\ effects' = [effects EXCEPT ![a] = Append(effects[a], e)]
      /\ a \in Aggregate /\ VersionOf[e] = Len(effects[a]) + 1
      /\ version' = [version EXCEPT ![a] = VersionOf[e]]
      /\ lastEvent' = [lastEvent EXCEPT ![a] = e]
  BY EffectGrows
<1>2. /\ effects \in [Aggregate -> Seq(Event)]
      /\ version \in [Aggregate -> Nat]
      /\ lastEvent \in [Aggregate -> Event \cup {NoEvent}]
  BY DEF TableInv, TablesOK
<1>3. ASSUME NEW b \in Aggregate \ {a}
      PROVE  /\ effects'[b] = effects[b]
             /\ version'[b] = version[b] /\ lastEvent'[b] = lastEvent[b]
  BY <1>1, <1>2
<1>4. /\ effects'[a] = Append(effects[a], e)
      /\ version'[a] = VersionOf[e] /\ lastEvent'[a] = e
  BY <1>1, <1>2
<1>5. effects[a] \in Seq(Event) /\ Len(effects[a]) \in Nat
  BY <1>1, <1>2
<1>6. /\ Len(effects'[a]) = Len(effects[a]) + 1
      /\ effects'[a][Len(effects[a]) + 1] = e
      /\ \A i \in 1 .. Len(effects[a]) : effects'[a][i] = effects[a][i]
  BY <1>4, <1>5
<1>7. \A i \in DOMAIN effects'[a] : /\ AggregateOf[effects'[a][i]] = a
                                   /\ VersionOf[effects'[a][i]] = i
  <2> SUFFICES ASSUME NEW i \in DOMAIN effects'[a]
               PROVE  AggregateOf[effects'[a][i]] = a /\ VersionOf[effects'[a][i]] = i
    OBVIOUS
  <2>1. i \in 1 .. Len(effects[a]) + 1
    BY <1>4, <1>5, <1>6
  <2>2. CASE i = Len(effects[a]) + 1
    BY <1>1, <1>6, <2>2
  <2>3. CASE i \in 1 .. Len(effects[a])
    <3>1. AggregateOf[effects[a][i]] = a /\ VersionOf[effects[a][i]] = i
      BY <1>1, <1>5, <2>3 DEF TableInv, VersionTracksEffects
    <3> QED
      BY <1>6, <2>3, <3>1
  <2> QED
    BY <1>5, <2>1, <2>2, <2>3
<1>8. /\ version'[a] = Len(effects'[a])
      /\ lastEvent'[a] = IF version'[a] = 0 THEN NoEvent ELSE effects'[a][version'[a]]
  BY <1>1, <1>4, <1>5, <1>6
<1>9. ASSUME NEW b \in Aggregate
      PROVE  /\ version'[b] = Len(effects'[b])
             /\ \A i \in DOMAIN effects'[b] : /\ AggregateOf[effects'[b][i]] = b
                                             /\ VersionOf[effects'[b][i]] = i
             /\ lastEvent'[b] = IF version'[b] = 0 THEN NoEvent
                                                   ELSE effects'[b][version'[b]]
  <2>1. CASE b = a
    BY <1>7, <1>8, <2>1
  <2>2. CASE b # a
    BY <1>3, <2>2 DEF TableInv, VersionTracksEffects
  <2> QED
    BY <2>1, <2>2
<1> QED
  BY <1>9 DEF VersionTracksEffects

(* The effect with its receipt.                                            *)
LEMMA EffectPreserves ==
    ASSUME TableInv, NEW e \in Event, NEW row, NEW stored, RowOf(e, row, stored),
           lastId \in Nat, HandlerSucceeds(e, row, stored)
    PROVE  TableInv' /\ OnlyRow(e)
<1> DEFINE a == AggregateOf[e]
<1>1. /\ effects' = [effects EXCEPT ![a] = Append(effects[a], e)]
      /\ a \in Aggregate /\ VersionOf[e] = Len(effects[a]) + 1
      /\ version' = [version EXCEPT ![a] = VersionOf[e]]
      /\ lastEvent' = [lastEvent EXCEPT ![a] = e]
  BY EffectGrows
<1>2. TablesOK /\ VersionTracksEffects
  BY DEF TableInv
<1>3. /\ row \in RowType /\ stored \in RowType /\ row.status \notin Answered
      /\ MarkProcessed(e, row, stored) /\ e \notin Unsupported
  BY RowOfType, <1>2 DEF HandlerSucceeds, Applicable
<1>4. /\ inbox' \in [Event -> RowType] /\ deadLetter' = deadLetter
      /\ \A f \in Event \ {e} : inbox'[f] = inbox[f]
  BY <1>2, <1>3, ProcessedStep
<1>5. effects[a] \in Seq(Event) /\ VersionOf[e] \in Nat
  BY <1>1, <1>2, InboxAssumption DEF TablesOK
<1>6. Append(effects[a], e) \in Seq(Event)
  BY <1>5
<1>7. TablesOK'
  BY <1>1, <1>2, <1>4, <1>5, <1>6 DEF TablesOK
<1>8. ASSUME NEW f \in Event \ {e}, Reached(f) PROVE Reached(f)'
  <2>1. /\ AggregateOf[f] \in Aggregate /\ VersionOf[f] \in Nat
        /\ version[AggregateOf[f]] \in Nat /\ version[a] = Len(effects[a])
    BY <1>1, <1>2, InboxAssumption DEF TablesOK, VersionTracksEffects
  <2>2. CASE AggregateOf[f] = a
    <3>1. version'[a] = version[a] + 1
      BY <1>1, <1>2, <2>1 DEF TablesOK
    <3> QED
      BY <1>8, <2>1, <2>2, <3>1 DEF Reached
  <2>3. CASE AggregateOf[f] # a
    <3>1. /\ version'[AggregateOf[f]] = version[AggregateOf[f]]
          /\ lastEvent'[AggregateOf[f]] = lastEvent[AggregateOf[f]]
      BY <1>1, <1>2, <2>1, <2>3 DEF TablesOK
    <3> QED
      BY <1>8, <3>1 DEF Reached
  <2> QED
    BY <2>2, <2>3
<1>9. ASSUME NEW f \in Event \ {e} PROVE Committed(f)' <=> Committed(f)
  <2>1. CASE AggregateOf[f] # a
    <3>1. effects'[AggregateOf[f]] = effects[AggregateOf[f]]
      BY <1>1, <1>2, <2>1, InboxAssumption DEF TablesOK
    <3> QED
      BY <3>1 DEF Committed
  <2>2. CASE AggregateOf[f] = a
    <3>1. effects'[a] = Append(effects[a], e)
      BY <1>1, <1>2 DEF TablesOK
    <3>2. \A i : i \in DOMAIN effects'[a] <=>
                   i \in DOMAIN effects[a] \/ i = Len(effects[a]) + 1
      BY <1>5, <3>1
    <3>3. \A i \in DOMAIN effects[a] : effects'[a][i] = effects[a][i]
      BY <1>5, <3>1
    <3>4. effects'[a][Len(effects[a]) + 1] = e
      BY <1>5, <3>1
    <3> QED
      BY <2>2, <3>2, <3>3, <3>4 DEF Committed
  <2> QED
    BY <2>1, <2>2
<1>10. ASSUME NEW f \in Event \ {e} PROVE RowInv(f)'
  BY <1>4, <1>8, <1>9, OtherRows
<1>11. RowInv(e)' /\ OnlyRow(e)
  <2>1. version'[a] = VersionOf[e] /\ lastEvent'[a] = e
    BY <1>1, <1>2 DEF TablesOK
  <2>2. OnlySupportedCommit(e)' /\ Reached(e)'
    BY <1>3, <2>1 DEF OnlySupportedCommit, Reached
  <2> QED
    BY <1>3, <2>2, ProcessedRow
<1> QED
  BY <1>7, <1>10, <1>11, EffectTracked DEF TableInv

(* Whatever comes of a row, it keeps the tables and touches that row only. *)
LEMMA ApplyPreserves ==
    ASSUME TableInv, NEW e \in Event, NEW row, NEW stored, RowOf(e, row, stored),
           lastId \in Nat, ApplyRecord(e, row, stored)
    PROVE  TableInv' /\ OnlyRow(e)
<1>1. CASE inbox' = inbox /\ inbox[e].status # "absent" /\ UNCHANGED deadLetter /\ NoEffect
  <2>1. TablesOK'
    BY <1>1 DEF TableInv, TablesOK, NoEffect
  <2>2. /\ VersionTracksEffects'
        /\ \A f \in Event : (Committed(f)' <=> Committed(f)) /\ (Reached(f)' <=> Reached(f))
    BY <1>1, NoEffectKeeps
  <2>3. \A f \in Event : RowInv(f)'
    BY <1>1, <2>2, OtherRows
  <2> QED
    BY <1>1, <2>1, <2>2, <2>3 DEF TableInv, OnlyRow
<1>2. TablesOK
  BY DEF TableInv
<1> QED
  BY <1>1, <1>2, ApplyShapes, FailurePreserves, ReceiptPreserves, EffectPreserves

-----------------------------------------------------------------------------
(* The invariant of the specification.                                     *)

(* The tables are empty at first.                                          *)
LEMMA InitInv == Init => IInv
<1> SUFFICES ASSUME Init PROVE IInv
  OBVIOUS
<1>1. /\ TablesOK /\ MemoryOK /\ BatchStaged
      /\ \A e \in Event : OpenIsDead(e) /\ RetryOK(e)
      /\ \A c \in Consumer : ReadingOK(c)
  BY DEF Init, TablesOK, MemoryOK, BatchStaged, RowType, LetterType, Absent, NotReading, Unlocked,
     OpenIsDead, RetryOK, ReadingOK
<1>2. \A e \in Event : ~Committed(e)
  BY InboxAssumption DEF Init, Committed
<1>3. VersionTracksEffects
  <2> SUFFICES ASSUME NEW a \in Aggregate
               PROVE  /\ version[a] = Len(effects[a])
                      /\ \A i \in DOMAIN effects[a] : /\ AggregateOf[effects[a][i]] = a
                                                     /\ VersionOf[effects[a][i]] = i
                      /\ lastEvent[a] = IF version[a] = 0 THEN NoEvent
                                                          ELSE effects[a][version[a]]
    BY DEF VersionTracksEffects
  <2>1. effects[a] = << >> /\ version[a] = 0 /\ lastEvent[a] = NoEvent
    BY DEF Init
  <2>2. version[a] = Len(effects[a])
    BY <2>1
  <2>3. \A i \in DOMAIN effects[a] : FALSE
    BY <2>1
  <2> QED
    BY <2>1, <2>2, <2>3
<1>4. ASSUME NEW e \in Event PROVE RowInv(e)
  BY <1>2, <1>4 DEF Init, Absent, RowInv, AbsentIsFresh, ProcessedReached, AttemptLeft,
       OnlySupportedCommit, CommittedRow, DeadIsOpen, Waiting, Settled
<1> QED
  BY <1>1, <1>3, <1>4 DEF IInv, TableInv

(* What transactions under way have read stays good while rows stay staged *)
(* and retries are only counted up.                                        *)
LEMMA ReadingsKept ==
    ASSUME IInv, TablesOK',
           \A e \in Event : /\ inbox[e].status # "absent" => inbox'[e].status # "absent"
                            /\ deadLetter[e].retries <= deadLetter'[e].retries,
           NEW c \in Consumer, reading'[c] \in {reading[c], NotReading}
    PROVE  ReadingOK(c)'
<1> SUFFICES ASSUME reading'[c] # NotReading PROVE ReadingOK(c)'
  BY DEF ReadingOK
<1> DEFINE e == reading[c].event
<1>1. reading'[c] = reading[c] /\ ReadingOK(c)
  BY DEF IInv
<1>2. /\ e \in Event /\ inbox[e].status # "absent"
      /\ reading[c].row.status \in Waiting
      /\ reading[c].row.attempts < MaxAttempts + deadLetter[e].retries
  BY <1>1 DEF ReadingOK
<1>3. /\ deadLetter[e].retries \in Nat /\ deadLetter'[e].retries \in Nat
      /\ reading[c].row.attempts \in Nat /\ MaxAttempts \in Nat
  BY <1>2, InboxAssumption DEF IInv, TableInv, TablesOK, LetterType, MemoryOK, RowType
<1>4. reading[c].row.attempts < MaxAttempts + deadLetter'[e].retries
  BY <1>2, <1>3
<1> QED
  BY <1>1, <1>2, <1>4 DEF ReadingOK

(* A transaction that applies a row leaves the retries under way alone.    *)
LEMMA RetriesKept ==
    ASSUME IInv, NEW e \in Event, OnlyRow(e), UNCHANGED retrying, NEW f \in Event
    PROVE  RetryOK(f)'
<1>1. RetryOK(f)
  BY DEF IInv
<1>2. CASE f # e
  BY <1>1, <1>2 DEF RetryOK, OnlyRow
<1>3. CASE f = e
  BY <1>1, <1>3 DEF RetryOK, OnlyRow
<1> QED
  BY <1>2, <1>3

(* A transaction that applies a row keeps all but the letters' account.    *)
LEMMA ApplyKeeps ==
    ASSUME IInv, NEW e \in Event, NEW row, NEW stored, RowOf(e, row, stored),
           ApplyRecord(e, row, stored), UNCHANGED retrying
    PROVE  /\ TableInv' /\ OnlyRow(e) /\ \A f \in Event : RetryOK(f)'
           /\ \A c \in Consumer : reading'[c] \in {reading[c], NotReading} => ReadingOK(c)'
           /\ \A f \in Event : inbox[f].status # "absent" => inbox'[f].status # "absent"
<1>1. TableInv' /\ OnlyRow(e)
  BY ApplyPreserves DEF IInv, MemoryOK
<1>2. \A f \in Event : RetryOK(f)'
  BY <1>1, RetriesKept
<1>3. \A f \in Event : /\ inbox[f].status # "absent" => inbox'[f].status # "absent"
                       /\ deadLetter[f].retries <= deadLetter'[f].retries
  <2>1. \A f \in Event : deadLetter[f].retries \in Nat
    BY DEF IInv, TableInv, TablesOK, LetterType
  <2> QED
    BY <1>1, <2>1 DEF OnlyRow
<1>4. TablesOK'
  BY <1>1 DEF TableInv
<1> QED
  BY <1>1, <1>2, <1>3, <1>4, ReadingsKept

(* What was read is read under the lock: a settled row is answered from    *)
(* its receipt.                                                            *)
LEMMA ApplyKeepsSettled ==
    ASSUME TableInv, lastId \in Nat, NEW e \in Event, NEW row, NEW stored,
           RowOf(e, row, stored), row = inbox[e] \/ inbox[e].status = "absent",
           ApplyRecord(e, row, stored), NEW f \in Event, inbox[f].status \in Settled
    PROVE  inbox'[f] = inbox[f]
<1>1. CASE f # e
  BY <1>1, ApplyPreserves DEF OnlyRow
<1>2. CASE f = e
  <2>1. inbox[e].status \in Settled /\ inbox[e].status # "absent"
    BY <1>2 DEF Settled
  <2>2. row = inbox[e] /\ row.status \in Answered /\ stored = inbox[e]
    BY <2>1 DEF RowOf, Settled, Answered
  <2>3. AnswerReceipt(e, row, stored)
    BY <2>2 DEF ApplyRecord, AnswerReceipt, RejectUnsupported, BlockBehindGap, SameVersion,
       Supersede, HandlerFails, HandlerSucceeds, Applicable
  <2> QED
    BY <1>2, <2>2, <2>3 DEF AnswerReceipt, TableInv, TablesOK
<1> QED
  BY <1>1, <1>2

(* With the row read under its lock, the letters' account stands as it is. *)
LEMMA LettersKept ==
    ASSUME IInv, NEW e \in Event, NEW row, NEW stored, RowOf(e, row, stored),
           row = inbox[e] \/ inbox[e].status = "absent",
           ApplyRecord(e, row, stored), OnlyRow(e), UNCHANGED overtaken, NEW f \in Event
    PROVE  OpenIsDead(f)'
<1>1. OpenIsDead(f) /\ TableInv /\ lastId \in Nat
  BY DEF IInv, MemoryOK
<1>2. inbox[f].status = "dead_letter" => inbox'[f] = inbox[f]
  BY <1>1, ApplyKeepsSettled DEF Settled
<1> QED
  BY <1>1, <1>2 DEF OpenIsDead, OnlyRow

(* Staging, the passing of time and an operator's retry touch one row and  *)
(* perhaps its dead letter, and commit no effect.                          *)
LEMMA StagePreserves ==
    ASSUME IInv, NEW e \in Event, Stage(e)
    PROVE  IInv'
<1>1. TablesOK /\ lastId \in Nat
  BY DEF IInv, TableInv, MemoryOK
<1>2. StagedRow \in RowType /\ MaxAttempts \in Nat /\ MaxAttempts > 0
  BY <1>1, InboxAssumption DEF StagedRow, RowType, Waiting
<1>3. /\ inbox' \in [Event -> RowType] /\ inbox'[e] = StagedRow
      /\ \A f \in Event \ {e} : inbox'[f] = inbox[f]
      /\ NoEffect /\ UNCHANGED <<deadLetter, reading, retrying, overtaken, batch>>
  BY <1>1, <1>2 DEF Stage, TablesOK, NoEffect
<1>4. TablesOK' /\ MemoryOK' /\ BatchStaged'
  BY <1>1, <1>3 DEF IInv, Stage, TablesOK, MemoryOK, BatchStaged, StagedRow
<1>5. /\ VersionTracksEffects'
      /\ \A f \in Event : (Committed(f)' <=> Committed(f)) /\ (Reached(f)' <=> Reached(f))
  BY <1>3, NoEffectKeeps DEF IInv
<1>6. ASSUME NEW f \in Event \ {e} PROVE RowInv(f)'
  BY <1>3, <1>5, OtherRows DEF IInv
<1>7. deadLetter[e].status = "none" /\ ~Committed(e) /\ deadLetter[e].retries \in Nat
  BY <1>1 DEF IInv, TableInv, RowInv, AbsentIsFresh, Stage, TablesOK, LetterType
<1>8. RowInv(e)'
  BY <1>2, <1>3, <1>5, <1>7 DEF RowInv, AbsentIsFresh, ProcessedReached, AttemptLeft,
       OnlySupportedCommit, CommittedRow, DeadIsOpen, StagedRow, Waiting, Settled
<1>9. \A f \in Event : OpenIsDead(f)' /\ RetryOK(f)'
  BY <1>3, <1>7 DEF IInv, OpenIsDead, RetryOK, StagedRow
<1>10. \A f \in Event : /\ inbox[f].status # "absent" => inbox'[f].status # "absent"
                        /\ deadLetter[f].retries <= deadLetter'[f].retries
  <2>1. \A f \in Event : deadLetter[f].retries \in Nat
    BY <1>1 DEF TablesOK, LetterType
  <2>2. \A f \in Event : inbox'[f].status # inbox[f].status => inbox'[f].status = "pending"
    BY <1>3 DEF StagedRow
  <2> QED
    BY <1>3, <2>1, <2>2
<1>11. \A c \in Consumer : ReadingOK(c)'
  BY <1>3, <1>4, <1>10, ReadingsKept
<1> QED
  BY <1>4, <1>5, <1>6, <1>8, <1>9, <1>11 DEF IInv, TableInv

(* A back-off that elapses changes no status.                              *)
LEMMA BackoffPreserves ==
    ASSUME IInv, NEW e \in Event, BackoffElapses(e)
    PROVE  IInv'
<1>1. TablesOK
  BY DEF IInv, TableInv
<1>2. /\ inbox' \in [Event -> RowType]
      /\ \A f \in Event : /\ inbox'[f].status = inbox[f].status
                          /\ inbox'[f].attempts = inbox[f].attempts
      /\ NoEffect /\ UNCHANGED <<deadLetter, reading, retrying, overtaken, batch>>
  BY <1>1 DEF BackoffElapses, TablesOK, NoEffect, RowType
<1>3. TablesOK' /\ MemoryOK' /\ BatchStaged'
  BY <1>1, <1>2 DEF IInv, BackoffElapses, TablesOK, MemoryOK, BatchStaged
<1>4. /\ VersionTracksEffects'
      /\ \A f \in Event : (Committed(f)' <=> Committed(f)) /\ (Reached(f)' <=> Reached(f))
  BY <1>2, NoEffectKeeps DEF IInv
<1>5. ASSUME NEW f \in Event PROVE RowInv(f)'
  BY <1>2, <1>4 DEF IInv, TableInv, RowInv, AbsentIsFresh, ProcessedReached,
     AttemptLeft, OnlySupportedCommit, CommittedRow, DeadIsOpen
<1>6. \A f \in Event : OpenIsDead(f)' /\ RetryOK(f)'
  BY <1>2 DEF IInv, OpenIsDead, RetryOK
<1>7. \A f \in Event : /\ inbox[f].status # "absent" => inbox'[f].status # "absent"
                       /\ deadLetter[f].retries <= deadLetter'[f].retries
  BY <1>1, <1>2 DEF TablesOK, LetterType
<1>8. \A c \in Consumer : ReadingOK(c)'
  BY <1>2, <1>3, <1>7, ReadingsKept
<1> QED
  BY <1>3, <1>4, <1>5, <1>6, <1>8 DEF IInv, TableInv

(* A retry reopens one row, or finds it open, and counts itself.           *)
LEMMA RetryPreserves ==
    ASSUME IInv, NEW e \in Event, FinishRetry(e)
    PROVE  IInv'
<1>1. TablesOK /\ inbox[e] \in RowType /\ deadLetter[e] \in LetterType
      /\ MaxAttempts \in Nat /\ retrying[e].held /\ RetryOK(e) /\ RowInv(e)
  BY InboxAssumption DEF IInv, TableInv, TablesOK, FinishRetry
<1>2. inbox[e].status # "absent"
  BY <1>1 DEF RetryOK, RowInv, AbsentIsFresh
<1> DEFINE row == [c \in DOMAIN inbox[e] |->
                     IF c \in retrying[e].sets THEN Retried[c] ELSE inbox[e][c]]
<1>3. /\ row \in RowType /\ row.attempts = inbox[e].attempts
      /\ row.status = IF "status" \in retrying[e].sets THEN "pending" ELSE inbox[e].status
  <2>1. DOMAIN inbox[e] = {"status", "attempts", "next", "id"}
    BY <1>1 DEF RowType
  <2>2. /\ "attempts" \notin retrying[e].sets /\ "id" \notin retrying[e].sets
    BY DEF IInv, MemoryOK
  <2>3. /\ row.status = IF "status" \in retrying[e].sets THEN "pending" ELSE inbox[e].status
        /\ row.next = IF "next" \in retrying[e].sets THEN "null" ELSE inbox[e].next
        /\ row.attempts = inbox[e].attempts /\ row.id = inbox[e].id
    BY <2>1, <2>2 DEF Retried
  <2>4. row = [status |-> row.status, attempts |-> row.attempts,
               next |-> row.next, id |-> row.id]
    BY <2>1
  <2> HIDE DEF row
  <2>5. /\ row.status \in {"absent"} \cup Waiting \cup Settled /\ row.attempts \in Nat
        /\ row.next \in {"null", "ahead", "passed"} /\ row.id \in Nat
    BY <1>1, <2>3 DEF RowType, Waiting
  <2>6. row \in RowType
    BY <2>4, <2>5 DEF RowType
  <2> QED
    BY <2>3, <2>6
<1>4. /\ inbox' = [inbox EXCEPT ![e] = row]
      /\ NoEffect /\ UNCHANGED <<lastId, batch, reading>>
      /\ overtaken' = overtaken \ {e}
      /\ retrying' = [retrying EXCEPT ![e] = Unlocked]
  BY DEF FinishRetry, NoEffect
<1> HIDE DEF row
<1>5. /\ inbox' \in [Event -> RowType] /\ inbox'[e] = row
      /\ \A f \in Event \ {e} : inbox'[f] = inbox[f]
  BY <1>1, <1>3, <1>4 DEF TablesOK
<1>6. /\ deadLetter' \in [Event -> LetterType]
      /\ deadLetter'[e].status = "retry_pending"
      /\ deadLetter'[e].retries = deadLetter[e].retries + 1
      /\ \A f \in Event \ {e} : deadLetter'[f] = deadLetter[f]
  BY <1>1 DEF FinishRetry, TablesOK, LetterType
<1>7. /\ retrying' \in [Event -> [held : BOOLEAN, sets : SUBSET {"status", "next"}]]
      /\ ~retrying'[e].held
      /\ \A f \in Event \ {e} : retrying'[f] = retrying[f]
  BY <1>4 DEF IInv, MemoryOK, Unlocked
<1>8. row.status \notin {"absent", "dead_letter"} /\ inbox[e].status # "absent"
  BY <1>1, <1>2, <1>3 DEF RetryOK
<1>9. TablesOK' /\ MemoryOK' /\ BatchStaged'
  BY <1>1, <1>4, <1>5, <1>6, <1>7, <1>8 DEF IInv, TablesOK, MemoryOK, BatchStaged, NoEffect
<1>10. /\ VersionTracksEffects'
       /\ \A f \in Event : (Committed(f)' <=> Committed(f)) /\ (Reached(f)' <=> Reached(f))
  BY <1>4, NoEffectKeeps DEF IInv
<1>11. ASSUME NEW f \in Event \ {e} PROVE RowInv(f)'
  BY <1>5, <1>6, <1>10, OtherRows DEF IInv
<1>12. RowInv(e)'
  <2>1. inbox[e].attempts <= MaxAttempts + deadLetter[e].retries
    BY <1>1, <1>2 DEF RowInv, AttemptLeft, RowType, LetterType
  <2>2. AttemptLeft(e)'
    BY <1>1, <1>3, <1>5, <1>6, <2>1 DEF AttemptLeft, Settled, RowType, LetterType
  <2>3. OnlySupportedCommit(e)'
    BY <1>1, <1>10 DEF RowInv, OnlySupportedCommit
  <2>4. row.status \in {"pending", inbox[e].status}
    BY <1>3
  <2>5. ProcessedReached(e)' /\ CommittedRow(e)'
    BY <1>1, <1>5, <1>6, <1>10, <2>4 DEF RowInv, ProcessedReached, CommittedRow
  <2> QED
    BY <1>5, <1>8, <2>2, <2>3, <2>5 DEF RowInv, AbsentIsFresh, DeadIsOpen
<1>13. \A f \in Event : OpenIsDead(f)' /\ RetryOK(f)'
  BY <1>4, <1>5, <1>6, <1>7 DEF IInv, OpenIsDead, RetryOK
<1>14. \A f \in Event : /\ inbox[f].status # "absent" => inbox'[f].status # "absent"
                        /\ deadLetter[f].retries <= deadLetter'[f].retries
  <2>1. \A f \in Event : deadLetter[f].retries \in Nat
    BY <1>1 DEF TablesOK, LetterType
  <2> QED
    BY <1>5, <1>6, <1>8, <2>1
<1>15. \A c \in Consumer : ReadingOK(c)'
  BY <1>4, <1>9, <1>14, ReadingsKept
<1> QED
  BY <1>9, <1>10, <1>11, <1>12, <1>13, <1>15 DEF IInv, TableInv

(* Reading a row, for a consume or for a retry, changes no table.          *)
LEMMA BeginsPreserve ==
    ASSUME IInv, NEW e \in Event,
           (\E c \in Consumer : BeginConsume(c, e)) \/ BeginRetry(e)
    PROVE  IInv'
<1>1. UNCHANGED <<inbox, lastId, version, lastEvent, deadLetter, effects, batch, overtaken>>
  BY DEF BeginConsume, BeginRetry, tables
<1>2. TableInv' /\ BatchStaged' /\ \A f \in Event : OpenIsDead(f)'
  BY <1>1, UnchangedTables DEF IInv, BatchStaged, OpenIsDead
<1>3. ASSUME NEW c \in Consumer, BeginConsume(c, e) PROVE IInv'
  <2>1. /\ inbox[e] \in RowType /\ inbox[e].status \in Waiting
        /\ inbox[e].attempts < MaxAttempts + deadLetter[e].retries
    BY <1>3 DEF IInv, TableInv, TablesOK, RowInv, AttemptLeft, BeginConsume
  <2> DEFINE r == [event |-> e, row |-> Seen(e)]
  <2>2. /\ r.event = e /\ r.row \in RowType /\ r.row.status = inbox[e].status
        /\ r.row.attempts = inbox[e].attempts
        /\ r \in [event : Event \cup {NoEvent}, row : RowType]
    BY <2>1 DEF Seen, RowType
  <2>3. reading' = [reading EXCEPT ![c] = r] /\ UNCHANGED retrying
    BY <1>3 DEF BeginConsume
  <2> HIDE DEF r
  <2>4. MemoryOK' /\ \A f \in Event : RetryOK(f)'
    BY <1>1, <2>2, <2>3 DEF IInv, MemoryOK, RetryOK
  <2>5. ASSUME NEW d \in Consumer PROVE ReadingOK(d)'
    <3>1. CASE d = c
      <4>1. reading'[d] = r
        BY <2>3, <3>1 DEF IInv, MemoryOK
      <4> QED
        BY <1>1, <2>1, <2>2, <4>1 DEF ReadingOK, Waiting
    <3>2. CASE d # c
      BY <1>1, <2>3, <3>2 DEF IInv, MemoryOK, ReadingOK
    <3> QED
      BY <3>1, <3>2
  <2> QED
    BY <1>2, <2>4, <2>5 DEF IInv
<1>4. CASE BeginRetry(e)
  <2> DEFINE r == [held |-> TRUE, sets |-> {c \in {"status", "next"} : inbox[e][c] # Retried[c]}]
  <2>1. r \in [held : BOOLEAN, sets : SUBSET {"status", "next"}]
    OBVIOUS
  <2>2. "status" \notin r.sets => inbox[e].status = "pending"
    BY DEF Retried
  <2>3. retrying' = [retrying EXCEPT ![e] = r] /\ UNCHANGED reading
    BY <1>4 DEF BeginRetry
  <2> HIDE DEF r
  <2>4. MemoryOK' /\ \A c \in Consumer : ReadingOK(c)'
    BY <1>1, <2>1, <2>3 DEF IInv, MemoryOK, ReadingOK
  <2>5. ASSUME NEW f \in Event PROVE RetryOK(f)'
    <3>1. CASE f = e
      <4>1. retrying'[f] = r
        BY <2>3, <3>1 DEF IInv, MemoryOK
      <4> QED
        BY <1>1, <1>4, <2>2, <3>1, <4>1 DEF RetryOK, BeginRetry
    <3>2. CASE f # e
      BY <1>1, <2>3, <3>2 DEF IInv, MemoryOK, RetryOK
    <3> QED
      BY <3>1, <3>2
  <2> QED
    BY <1>2, <2>4, <2>5 DEF IInv
<1> QED
  BY <1>3, <1>4

(* A consume that decides by what it read some time ago.                   *)
LEMMA FinishPreserves ==
    ASSUME IInv, NEW c \in Consumer, FinishConsume(c)
    PROVE  IInv'
<1> DEFINE e == reading[c].event
<1>1. /\ e \in Event /\ reading[c].row \in RowType
      /\ RowOf(e, reading[c].row, inbox[e]) /\ ApplyRecord(e, reading[c].row, inbox[e])
  BY DEF IInv, MemoryOK, ReadingOK, RowOf, FinishConsume
<1>2. /\ reading' = [reading EXCEPT ![c] = NotReading] /\ UNCHANGED <<lastId, batch, retrying>>
      /\ overtaken' = IF inbox[e].status = "dead_letter" /\ inbox'[e].status # "dead_letter"
                      THEN overtaken \cup {e} ELSE overtaken
  BY DEF FinishConsume
<1> HIDE DEF e
<1>3. /\ TableInv' /\ OnlyRow(e) /\ \A f \in Event : RetryOK(f)'
      /\ \A d \in Consumer : reading'[d] \in {reading[d], NotReading} => ReadingOK(d)'
      /\ \A f \in Event : inbox[f].status # "absent" => inbox'[f].status # "absent"
  BY <1>1, <1>2, ApplyKeeps
<1>4. \A d \in Consumer : reading'[d] \in {reading[d], NotReading}
  BY <1>2 DEF IInv, MemoryOK
<1>5. MemoryOK' /\ BatchStaged'
  <2>1. NotReading \in [event : Event \cup {NoEvent}, row : RowType]
    BY DEF NotReading, Absent, RowType
  <2>2. reading' \in [Consumer -> [event : Event \cup {NoEvent}, row : RowType]]
    BY <1>2, <2>1 DEF IInv, MemoryOK
  <2> QED
    BY <1>1, <1>2, <1>3, <2>2 DEF IInv, MemoryOK, BatchStaged
<1>6. ASSUME NEW f \in Event PROVE OpenIsDead(f)'
  <2>1. OpenIsDead(f)
    BY DEF IInv
  <2> QED
    BY <1>2, <1>3, <2>1 DEF OpenIsDead, OnlyRow
<1> QED
  BY <1>3, <1>4, <1>5, <1>6 DEF IInv

(* Every step keeps the invariant, action by action.                       *)
LEMMA NextInv == IInv /\ [Next]_vars => IInv'
<1> SUFFICES ASSUME IInv, [Next]_vars PROVE IInv'
  OBVIOUS
<1>1. ASSUME NEW e \in Event, ConsumeNew(e) PROVE IInv'
  <2>1. /\ ApplyRecord(e, StagedRow, StagedRow) /\ RowOf(e, StagedRow, StagedRow)
        /\ inbox[e].status = "absent" /\ lastId' = lastId + 1
        /\ UNCHANGED <<batch, reading, retrying, overtaken>>
    BY <1>1 DEF ConsumeNew, RowOf
  <2>2. /\ TableInv' /\ OnlyRow(e) /\ \A f \in Event : RetryOK(f)'
        /\ \A c \in Consumer : reading'[c] \in {reading[c], NotReading} => ReadingOK(c)'
        /\ \A f \in Event : inbox[f].status # "absent" => inbox'[f].status # "absent"
    BY <2>1, ApplyKeeps
  <2>3. \A f \in Event : OpenIsDead(f)'
    BY <2>1, <2>2, LettersKept
  <2>4. MemoryOK' /\ BatchStaged'
    BY <2>1, <2>2 DEF IInv, MemoryOK, BatchStaged
  <2> QED
    BY <2>1, <2>2, <2>3, <2>4 DEF IInv
<1>2. ASSUME NEW w \in Worker, SelectBatch(w) PROVE IInv'
  <2>1. UNCHANGED <<inbox, lastId, version, lastEvent, deadLetter, effects,
                    reading, retrying, overtaken>>
    BY <1>2 DEF SelectBatch, tables
  <2>2. TableInv'
    BY <2>1, UnchangedTables DEF IInv
  <2>3. batch' = [batch EXCEPT ![w] = FirstDue]
    BY <1>2 DEF SelectBatch
  <2>4. FirstDue \subseteq Due /\ FirstDue \in SUBSET Event
    BY DEF FirstDue, Due
  <2>5. \A e \in FirstDue : inbox[e].status # "absent"
    BY <2>4 DEF Due, Waiting
  <2>6. MemoryOK' /\ BatchStaged'
    BY <2>1, <2>3, <2>4, <2>5 DEF IInv, MemoryOK, BatchStaged
  <2> QED
    BY <2>1, <2>2, <2>6 DEF IInv, OpenIsDead, RetryOK, ReadingOK
<1>3. ASSUME NEW w \in Worker, NEW e \in Event, ProcessRecord(w, e) PROVE IInv'
  <2>1. /\ ApplyRecord(e, inbox[e], inbox[e]) /\ RowOf(e, inbox[e], inbox[e])
        /\ inbox[e].status # "absent"
        /\ UNCHANGED <<lastId, reading, retrying, overtaken>>
        /\ batch' = [batch EXCEPT ![w] = @ \ {e}]
    BY <1>3 DEF ProcessRecord, RowOf, IInv, BatchStaged
  <2>2. /\ TableInv' /\ OnlyRow(e) /\ \A f \in Event : RetryOK(f)'
        /\ \A c \in Consumer : reading'[c] \in {reading[c], NotReading} => ReadingOK(c)'
        /\ \A f \in Event : inbox[f].status # "absent" => inbox'[f].status # "absent"
    BY <2>1, ApplyKeeps
  <2>4. \A f \in Event : OpenIsDead(f)'
    BY <2>1, <2>2, LettersKept
  <2>5. MemoryOK' /\ BatchStaged'
    BY <2>1, <2>2 DEF IInv, MemoryOK, BatchStaged
  <2> QED
    BY <2>1, <2>2, <2>4, <2>5 DEF IInv
<1>4. ASSUME NEW w \in Worker, Crash(w) PROVE IInv'
  <2>1. UNCHANGED <<inbox, lastId, version, lastEvent, deadLetter, effects,
                    reading, retrying, overtaken>>
    BY <1>4 DEF Crash, tables
  <2>2. TableInv'
    BY <2>1, UnchangedTables DEF IInv
  <2>3. MemoryOK' /\ BatchStaged'
    BY <1>4, <2>1 DEF IInv, MemoryOK, BatchStaged, Crash
  <2> QED
    BY <2>1, <2>2, <2>3 DEF IInv, OpenIsDead, RetryOK, ReadingOK
<1>5. CASE UNCHANGED vars
  <2>1. TableInv'
    BY <1>5, UnchangedTables DEF IInv, vars, tables
  <2> QED
    BY <1>5, <2>1 DEF IInv, MemoryOK, BatchStaged, OpenIsDead, RetryOK, ReadingOK, vars, tables
<1> QED
  BY <1>1, <1>2, <1>3, <1>4, <1>5, StagePreserves, BackoffPreserves, RetryPreserves,
     BeginsPreserve, FinishPreserves DEF Next, WorkerStep

(* The strengthened invariant holds of every behaviour of the inbox.       *)
THEOREM Invariance == Spec => []IInv
BY InitInv, NextInv, PTL DEF Spec

-----------------------------------------------------------------------------
(* What the runs check, for every value of the constants.                  *)

(* Every table and every worker's batch keeps its type.                    *)
THEOREM TypeCorrect == Spec => []TypeOK
<1>1. IInv => TypeOK
  BY DEF IInv, TableInv, TablesOK, MemoryOK, TypeOK
<1> QED
  BY <1>1, Invariance, PTL

(* The stored aggregate version and last event describe the log exactly.   *)
THEOREM VersionsTrack == Spec => []VersionTracksEffects
<1>1. IInv => VersionTracksEffects
  BY DEF IInv, TableInv
<1> QED
  BY <1>1, Invariance, PTL

(* A processed row stands for a committed effect with its version.         *)
THEOREM ReceiptsAreHonest == Spec => []ReceiptIsHonest
<1>1. IInv => ReceiptIsHonest
  <2> SUFFICES ASSUME IInv, NEW e \in Event, inbox[e].status = "processed"
               PROVE  \E i \in DOMAIN effects[AggregateOf[e]] :
                         VersionOf[effects[AggregateOf[e]][i]] = VersionOf[e]
    BY DEF ReceiptIsHonest
  <2> DEFINE a == AggregateOf[e]
  <2>1. /\ a \in Aggregate /\ VersionOf[e] \in Nat /\ VersionOf[e] > 0
        /\ effects[a] \in Seq(Event) /\ version[a] = Len(effects[a])
    BY InboxAssumption DEF IInv, TableInv, TablesOK, VersionTracksEffects
  <2>2. VersionOf[e] <= version[a]
    BY <2>1 DEF IInv, TableInv, RowInv, ProcessedReached, Reached
  <2>3. VersionOf[e] \in DOMAIN effects[a]
    BY <2>1, <2>2
  <2>4. VersionOf[effects[a][VersionOf[e]]] = VersionOf[e]
    BY <2>1, <2>3 DEF IInv, TableInv, VersionTracksEffects
  <2> QED
    BY <2>3, <2>4
<1> QED
  BY <1>1, Invariance, PTL

(* An event whose effect committed is never reported as failed.            *)
THEOREM CommittedStays == Spec => []CommittedNeverFails
<1>1. IInv => CommittedNeverFails
  BY DEF IInv, TableInv, RowInv, CommittedRow, CommittedNeverFails
<1> QED
  BY <1>1, Invariance, PTL

(* A dead-lettered row's letter is open, and an open letter's row is dead- *)
(* lettered unless a stale consume wrote over it (_upsert_dead_letter,     *)
(* consume_incoming_event, retry_dead_letter).                             *)
THEOREM LettersAreVisible == Spec => []DeadLettersVisible
<1>1. IInv => DeadLettersVisible
  BY DEF IInv, TableInv, RowInv, DeadIsOpen, OpenIsDead, DeadLettersVisible
<1> QED
  BY <1>1, Invariance, PTL

(* The attempt budget, an operator's retries included, is never exceeded.  *)
THEOREM AttemptsAreBounded == Spec => []AttemptsBounded
<1>1. IInv => AttemptsBounded
  <2> SUFFICES ASSUME IInv, NEW e \in Event
               PROVE  /\ inbox[e].attempts <= MaxAttempts + deadLetter[e].retries
                      /\ inbox[e].attempts >= MaxAttempts /\ inbox[e].status \in Waiting
                            => deadLetter[e].status = "retry_pending"
    BY DEF AttemptsBounded
  <2>1. /\ inbox[e] \in RowType /\ deadLetter[e] \in LetterType /\ MaxAttempts \in Nat
        /\ AttemptLeft(e) /\ AbsentIsFresh(e)
    BY InboxAssumption DEF IInv, TableInv, TablesOK, RowInv
  <2> QED
    BY <2>1 DEF AttemptLeft, AbsentIsFresh, RowType, LetterType
<1> QED
  BY <1>1, Invariance, PTL

(* An applied row commits its event as AggregateLog has it, or nothing.    *)
LEMMA ApplyCommits ==
    ASSUME TableInv, NEW e \in Event, NEW row, NEW stored, ApplyRecord(e, row, stored)
    PROVE  Promise!Commit(e) \/ UNCHANGED effects
<1>1. CASE HandlerSucceeds(e, row, stored)
  BY <1>1, EffectGrows DEF Promise!Commit
<1> QED
  BY <1>1 DEF ApplyRecord, AnswerReceipt, RejectUnsupported, BlockBehindGap, SameVersion,
     Supersede, HandlerFails, NoEffect

(* The inbox implements AggregateLog: whatever is redelivered, reordered,  *)
(* retried or raced, effects commit in version order, each once            *)
(* (_apply_inbox_record).                                                  *)
THEOREM ImplementsPromise == Spec => KeepsPromise
<1>1. Init => Promise!Init
  BY DEF Init, Promise!Init
<1>2. IInv /\ [Next]_vars => [Promise!Next]_effects
  <2> SUFFICES ASSUME IInv, [Next]_vars
               PROVE  Promise!Next \/ UNCHANGED effects
    OBVIOUS
  <2> USE DEF Promise!Next
  <2>1. ASSUME NEW e \in Event, ConsumeNew(e) PROVE Promise!Next \/ UNCHANGED effects
    BY <2>1, ApplyCommits DEF IInv, ConsumeNew
  <2>2. ASSUME NEW w \in Worker, NEW e \in Event, ProcessRecord(w, e)
        PROVE  Promise!Next \/ UNCHANGED effects
    BY <2>2, ApplyCommits DEF IInv, ProcessRecord
  <2>3. ASSUME NEW c \in Consumer, FinishConsume(c) PROVE Promise!Next \/ UNCHANGED effects
    BY <2>3, ApplyCommits DEF IInv, ReadingOK, FinishConsume
  <2> QED
    BY <2>1, <2>2, <2>3 DEF Next, WorkerStep, Stage, SelectBatch, Crash, BackoffElapses,
       BeginConsume, BeginRetry, FinishRetry, vars, tables
<1> QED
  BY <1>1, <1>2, Invariance, PTL DEF Spec, KeepsPromise, Promise!Spec

(* Only an operator's retry re-opens a settled row, except that a consume  *)
(* at work on what the row was before may take it out of the dead letters  *)
(* (process_inbox_batch, consume_incoming_event, retry_dead_letter).       *)
THEOREM SettledStays == Spec => SettledUntilRetried
<1> DEFINE Excused(e) ==
               \/ deadLetter'[e].retries = deadLetter[e].retries + 1
               \/ /\ inbox[e].status = "dead_letter"
                  /\ \E c \in Consumer : /\ reading[c].event = e
                                         /\ reading[c].row.status # "dead_letter"
                                         /\ reading'[c] = NotReading
           Kept == \A e \in Event :
              inbox[e].status \in Settled /\ inbox'[e].status # inbox[e].status => Excused(e)
<1>1. IInv /\ [Next]_vars => [Kept]_vars
  <2> SUFFICES ASSUME IInv, Next, NEW f \in Event,
                      inbox[f].status \in Settled, inbox'[f].status # inbox[f].status
               PROVE  Excused(f)
    BY DEF vars, tables
  <2> HIDE DEF Excused
  <2>1. TableInv /\ lastId \in Nat /\ BatchStaged /\ TablesOK
    BY DEF IInv, MemoryOK, TableInv
  <2>2. ASSUME NEW e \in Event, ConsumeNew(e) PROVE FALSE
    <3>1. /\ ApplyRecord(e, StagedRow, StagedRow) /\ RowOf(e, StagedRow, StagedRow)
          /\ inbox[e].status = "absent"
      BY <2>2 DEF ConsumeNew, RowOf
    <3> QED
      BY <2>1, <3>1, ApplyKeepsSettled
  <2>3. ASSUME NEW w \in Worker, NEW e \in Event, ProcessRecord(w, e) PROVE FALSE
    <3>1. ApplyRecord(e, inbox[e], inbox[e]) /\ RowOf(e, inbox[e], inbox[e])
      BY <2>1, <2>3 DEF ProcessRecord, RowOf, BatchStaged
    <3> QED
      BY <2>1, <3>1, ApplyKeepsSettled
  <2>4. ASSUME NEW e \in Event, Stage(e) PROVE FALSE
    BY <2>1, <2>4 DEF Stage, TablesOK, Settled
  <2>5. ASSUME NEW e \in Event, BackoffElapses(e) PROVE FALSE
    BY <2>1, <2>5 DEF BackoffElapses, TablesOK, RowType
  <2>6. ASSUME NEW e \in Event, FinishRetry(e) PROVE Excused(f)
    <3>1. f = e
      BY <2>1, <2>6 DEF FinishRetry, TablesOK
    <3>2. deadLetter'[e].retries = deadLetter[e].retries + 1
      BY <2>1, <2>6 DEF FinishRetry, TablesOK, LetterType
    <3> QED
      BY <3>1, <3>2 DEF Excused
  <2>7. ASSUME NEW c \in Consumer, FinishConsume(c) PROVE Excused(f)
    <3> DEFINE e == reading[c].event
    <3>1. /\ e \in Event /\ RowOf(e, reading[c].row, inbox[e])
          /\ ApplyRecord(e, reading[c].row, inbox[e])
          /\ reading[c].row.status \in Waiting
      BY <2>7 DEF IInv, MemoryOK, ReadingOK, RowOf, FinishConsume
    <3>2. reading'[c] = NotReading
      BY <2>7 DEF FinishConsume, IInv, MemoryOK
    <3>3. OnlyRow(e)
      BY <2>1, <3>1, ApplyPreserves
    <3>4. f = e
      BY <3>3 DEF OnlyRow
    <3>5. inbox[f].status = "dead_letter"
      BY <3>3, <3>4 DEF OnlyRow, Settled
    <3> QED
      BY <3>1, <3>2, <3>4, <3>5 DEF Excused, Waiting
  <2>8. ASSUME NEW e \in Event, BeginRetry(e) \/ \E c \in Consumer : BeginConsume(c, e)
        PROVE  FALSE
    BY <2>8 DEF BeginRetry, BeginConsume, tables
  <2> QED
    BY <2>2, <2>3, <2>4, <2>5, <2>6, <2>7, <2>8
       DEF Next, WorkerStep, SelectBatch, Crash, tables
<1> QED
  BY <1>1, Invariance, PTL DEF Spec, SettledUntilRetried

-----------------------------------------------------------------------------
(***************************************************************************)
(* The continuity mode.  What it promises is inductive as it stands.       *)
(***************************************************************************)
WorkerType == [at : {"rest", "contact", "pull", "batch", "settle", "reconcile"},
               known : BOOLEAN, ready : BOOLEAN, dead : BOOLEAN,
               drained : BOOLEAN, sound : BOOLEAN, todo : SUBSET Record]

RequestType == [kind : {"view", "status", "reconcile"}, seen : StateType,
                dead : BOOLEAN, sound : BOOLEAN]

(* The mode tells the truth at first, when no letter is counted.           *)
LEMMA ModeStart == ModeInit => ModeTellsTruth
<1> SUFFICES ASSUME ModeInit PROVE ModeTellsTruth
  OBVIOUS
<1>1. state \in StateType /\ ~state.dead
  BY DEF ModeInit, StateType, Mode
<1>2. worker \in WorkerType /\ ~worker.known
  BY DEF ModeInit, AtRest, WorkerType
<1>3. restarts \in 0..MaxRestarts
  BY ContinuityAssumption DEF ModeInit
<1>4. ModeTypeOK
  BY <1>1, <1>2, <1>3 DEF ModeInit, ModeTypeOK, WorkerType
<1> QED
  BY <1>1, <1>2, <1>4 DEF ModeTellsTruth, AttentionShown, LiveHidesNothing

(* The row the worker writes.                                              *)
LEMMA Persisted ==
    ASSUME ModeTypeOK, NEW known \in BOOLEAN, NEW mode \in Mode, NEW dead \in BOOLEAN,
           NEW contact \in {"never", "fresh", "old"},
           Persist(known, mode, dead, contact)
    PROVE  /\ state' \in StateType /\ crossed' \in BOOLEAN
           /\ known => /\ state'.dead = dead /\ ~crossed'
                       /\ state'.mode = Refreshed(mode, dead)
           /\ ~known => state' = state /\ crossed' = crossed
<1>1. state \in StateType /\ crossed \in BOOLEAN
  BY DEF ModeTypeOK
<1>2. CASE known
  <2>1. /\ state' = [mode |-> Refreshed(mode, dead), dead |-> dead,
                     contact |-> contact]
        /\ crossed' = FALSE
    BY <1>2 DEF Persist
  <2>2. Refreshed(mode, dead) \in Mode
    BY DEF Refreshed, Mode
  <2>3. state' \in StateType
    BY <2>1, <2>2, Zenon DEF StateType
  <2> QED
    BY <1>2, <2>1, <2>3
<1>3. CASE ~known
  <2>1. state' = state /\ crossed' = crossed
    BY <1>3 DEF Persist
  <2> QED
    BY <1>1, <1>3, <2>1
<1> QED
  BY <1>2, <1>3

(* Steps of the worker that write the row.                                 *)
LEMMA ContactKeeps ==
    ASSUME ModeTellsTruth, Contact
    PROVE  ModeTellsTruth'
<1> USE DEF ModeTellsTruth
<1>1. worker \in WorkerType /\ state \in StateType
  BY DEF ModeTypeOK, WorkerType
<1>2. PICK known \in BOOLEAN, mode \in Mode, contact \in {"never", "fresh", "old"} :
        /\ Persist(known, mode, worker.dead, contact)
        /\ mode # "live"
        /\ worker' \in WorkerType /\ worker'.at = "pull" /\ worker'.known = known
  <2>1. CASE /\ Persist(TRUE, "synchronizing", worker.dead, "fresh")
             /\ worker' = [worker EXCEPT !.at = "pull", !.ready = TRUE,
                                         !.known = TRUE, !.dead = FALSE]
    <3>1. worker' \in WorkerType /\ worker'.at = "pull" /\ worker'.known = TRUE
      BY <1>1, <2>1 DEF WorkerType
    <3> QED
      BY <2>1, <3>1 DEF Mode
  <2>2. CASE /\ \/ Persist(worker.known, "offline_local", worker.dead, state.contact)
                \/ Persist(worker.known, "attention_required", worker.dead, state.contact)
             /\ worker' = [worker EXCEPT !.at = "pull", !.ready = FALSE, !.dead = FALSE]
    <3>1. worker' \in WorkerType /\ worker'.at = "pull" /\ worker'.known = worker.known
          /\ worker.known \in BOOLEAN
      BY <1>1, <2>2 DEF WorkerType
    <3>2. state.contact \in {"never", "fresh", "old"}
      BY <1>1 DEF StateType
    <3> QED
      BY <2>2, <3>1, <3>2 DEF Mode
  <2> QED
    BY <2>1, <2>2 DEF Contact
<1>3. worker.dead \in BOOLEAN
  BY <1>1 DEF WorkerType
<1>4. /\ state' \in StateType /\ crossed' \in BOOLEAN
      /\ known => /\ state'.dead = worker.dead /\ ~crossed'
                  /\ state'.mode = Refreshed(mode, worker.dead)
      /\ ~known => state' = state /\ crossed' = crossed
  BY <1>2, <1>3, Persisted
<1>5. UNCHANGED <<recordVars, link, sound, restarts, request>>
  BY DEF Contact
<1>6. ModeTypeOK'
  BY <1>2, <1>4, <1>5 DEF ModeTypeOK, WorkerType, recordVars
<1>7. AttentionShown'
  <2>1. CASE known
    BY <1>4, <2>1 DEF AttentionShown, Refreshed
  <2>2. CASE ~known
    <3>1. state' = state /\ crossed' = crossed
      BY <1>4, <2>2
    <3> QED
      BY <3>1 DEF AttentionShown
  <2> QED
    BY <2>1, <2>2
<1>8. LiveHidesNothing'
  BY <1>2, <1>4 DEF LiveHidesNothing, Refreshed
<1> QED
  BY <1>6, <1>7, <1>8

(* The end of a batch writes the row with what the batch has counted.      *)
LEMMA SettleKeeps ==
    ASSUME ModeTellsTruth, Settle
    PROVE  ModeTellsTruth'
<1> USE DEF ModeTellsTruth
<1>1. worker \in WorkerType
  BY DEF ModeTypeOK, WorkerType
<1>2. UNCHANGED <<recordVars, link, sound, restarts, request>>
  BY DEF Settle
<1>3. CASE /\ \/ Persist(TRUE, "attention_required", TRUE, "fresh")
              \/ Persist(TRUE, "synchronizing", FALSE, "fresh")
           /\ worker' = AtRest(TRUE)
  <2>1. /\ state' \in StateType /\ crossed' \in BOOLEAN /\ state'.mode # "live"
        /\ state'.dead => state'.mode = "attention_required"
    BY <1>3, Persisted DEF Refreshed, Mode
  <2>2. worker' \in WorkerType
    BY <1>3 DEF AtRest, WorkerType
  <2> QED
    BY <1>2, <2>1, <2>2 DEF ModeTypeOK, WorkerType, recordVars, AttentionShown, LiveHidesNothing
<1>4. CASE /\ worker' = [worker EXCEPT !.at = "reconcile", !.sound = sound]
           /\ UNCHANGED <<state, crossed>>
  <2>1. worker' \in WorkerType /\ worker'.at = "reconcile"
    BY <1>1, <1>4 DEF WorkerType, ModeTypeOK
  <2> QED
    BY <1>2, <1>4, <2>1 DEF ModeTypeOK, WorkerType, recordVars, AttentionShown, LiveHidesNothing
<1> QED
  BY <1>3, <1>4 DEF Settle

(* So does the end of a reconciliation.                                    *)
LEMMA EndReconcileKeeps ==
    ASSUME ModeTellsTruth, EndReconcile
    PROVE  ModeTellsTruth'
<1> USE DEF ModeTellsTruth
<1> DEFINE mode == Verdict(worker.sound)
<1>1. state.contact \in {"never", "fresh", "old"} /\ mode \in Mode /\ DeadLetters \in BOOLEAN
  BY DEF ModeTypeOK, StateType, Verdict, Mode, DeadLetters
<1>2. /\ state' \in StateType /\ crossed' \in BOOLEAN
      /\ state'.dead = DeadLetters /\ state'.mode = Refreshed(mode, DeadLetters)
  BY <1>1, Persisted DEF EndReconcile
<1>3. UNCHANGED <<recordVars, link, sound, restarts, request>> /\ worker' = AtRest(TRUE)
  BY DEF EndReconcile
<1>4. worker' \in WorkerType
  BY <1>3 DEF AtRest, WorkerType
<1> QED
  BY <1>2, <1>3, <1>4 DEF ModeTypeOK, WorkerType, recordVars, AttentionShown,
     LiveHidesNothing, Refreshed, DeadLetters

(* Steps of the worker that do not.                                        *)
LEMMA CycleKeeps ==
    ASSUME ModeTellsTruth,
           \/ BeginCycle \/ EndBatch \/ Restart
           \/ \E new \in SUBSET inbound : Pull(new)
           \/ \E r \in Record, outcome \in Outcome : Process(r, outcome)
    PROVE  ModeTellsTruth'
<1> USE DEF ModeTellsTruth
<1>1. worker \in WorkerType
  BY DEF ModeTypeOK, WorkerType
<1>2. CASE BeginCycle
  <2>1. /\ worker' \in WorkerType /\ worker'.at = "contact" /\ worker.at = "rest"
        /\ worker'.known = worker.known /\ worker'.ready = worker.ready
    BY <1>1, <1>2 DEF BeginCycle, WorkerType, DeadLetters
  <2>2. UNCHANGED <<recordVars, link, sound, state, restarts, request, crossed>>
    BY <1>2 DEF BeginCycle
  <2> QED
    BY <2>1, <2>2 DEF ModeTypeOK, WorkerType, recordVars, AttentionShown, LiveHidesNothing
<1>3. CASE EndBatch
  <2>1. /\ worker' \in WorkerType
        /\ worker'.at = "settle" \/ (worker'.at = "rest" /\ ~worker'.ready)
    BY <1>1, <1>3 DEF EndBatch, WorkerType, DeadLetters, AtRest
  <2>2. UNCHANGED <<recordVars, link, sound, state, restarts, request, crossed>>
    BY <1>3 DEF EndBatch
  <2> QED
    BY <2>1, <2>2 DEF ModeTypeOK, WorkerType, recordVars, AttentionShown, LiveHidesNothing
<1>4. CASE Restart
  <2>1. worker' \in WorkerType /\ ~worker'.known
    BY <1>4 DEF Restart, AtRest, WorkerType
  <2>2. restarts' \in 0..MaxRestarts
    BY <1>4, ContinuityAssumption DEF Restart, ModeTypeOK
  <2>3. UNCHANGED <<recordVars, link, sound, state, request, crossed>>
    BY <1>4 DEF Restart
  <2> QED
    BY <2>1, <2>2, <2>3 DEF ModeTypeOK, WorkerType, recordVars, AttentionShown, LiveHidesNothing
<1>5. ASSUME NEW new \in SUBSET inbound, Pull(new) PROVE ModeTellsTruth'
  <2> DEFINE todo == {r \in Pending \cup new : r \in inbound \/ worker.ready}
  <2>1. new \subseteq Record /\ todo \subseteq Record
    BY DEF ModeTypeOK, Pending
  <2>2. worker' \in WorkerType /\ worker'.at = "batch"
    BY <1>1, <1>5, <2>1 DEF Pull, WorkerType
  <2>3. queue' \in [Record -> {"absent", "pending", "done", "dead"}]
    BY <1>5 DEF Pull, ModeTypeOK
  <2>4. UNCHANGED <<inbound, letters, link, sound, state, restarts, request, crossed>>
    BY <1>5 DEF Pull
  <2> QED
    BY <2>2, <2>3, <2>4 DEF ModeTypeOK, WorkerType, AttentionShown, LiveHidesNothing
<1>6. ASSUME NEW r \in Record, NEW outcome \in Outcome, Process(r, outcome)
      PROVE  ModeTellsTruth'
  <2>1. worker' \in WorkerType /\ worker'.at = "batch"
    BY <1>1, <1>6 DEF Process, WorkerType
  <2>2. queue' \in [Record -> {"absent", "pending", "done", "dead"}]
    BY <1>6 DEF Process, ModeTypeOK, Outcome
  <2>3. letters' \subseteq Record
    BY <1>6 DEF Process, ModeTypeOK
  <2>4. UNCHANGED <<inbound, link, sound, state, restarts, request, crossed>>
    BY <1>6 DEF Process
  <2> QED
    BY <2>1, <2>2, <2>3, <2>4 DEF ModeTypeOK, WorkerType, AttentionShown, LiveHidesNothing
<1> QED
  BY <1>2, <1>3, <1>4, <1>5, <1>6

(* An operator reads the row.                                              *)
LEMMA LoadKeeps ==
    ASSUME ModeTellsTruth, NEW o \in Operator, NEW kind \in {"view", "status", "reconcile"},
           Load(o, kind)
    PROVE  ModeTellsTruth'
<1> USE DEF ModeTellsTruth
<1> DEFINE q == [kind |-> kind, seen |-> state,
                 dead |-> DeadLetters /\ kind # "status",
                 sound |-> sound \/ kind # "reconcile"]
<1>1. q \in RequestType
  BY DEF RequestType, ModeTypeOK, DeadLetters
<1>2. /\ request' = [request EXCEPT ![o] = q]
      /\ UNCHANGED <<recordVars, link, sound, state, worker, restarts, crossed>>
  BY DEF Load
<1> HIDE DEF q
<1>3. request' \in [Operator -> RequestType \cup {Idle}]
  BY <1>1, <1>2 DEF ModeTypeOK, RequestType
<1> QED
  BY <1>2, <1>3 DEF ModeTypeOK, RequestType, recordVars, AttentionShown, LiveHidesNothing

(* An operator's answer: if nothing has overtaken it, it leaves the mode   *)
(* and the count of letters it has read together.                          *)
LEMMA AnswerKeeps ==
    ASSUME ModeTellsTruth, NEW o \in Operator, Answer(o)
    PROVE  ModeTellsTruth'
<1> USE DEF ModeTellsTruth
<1> DEFINE q == request[o]
           modeWritten == \/ FirstMode(q) # q.seen.mode
                          \/ LastMode(q) # FirstMode(q)
           deadWritten == q.kind # "status" /\ q.dead # q.seen.dead
           mode == IF modeWritten THEN LastMode(q) ELSE state.mode
           dead == IF deadWritten THEN q.dead ELSE state.dead
<1>1. /\ q \in RequestType /\ q.kind \in {"view", "status", "reconcile"}
      /\ q.seen \in StateType /\ q.dead \in BOOLEAN /\ state \in StateType
  BY DEF Answer, ModeTypeOK, RequestType
<1>2. /\ state' = [mode |-> mode, dead |-> dead, contact |-> state.contact]
      /\ crossed' = \/ crossed \/ state # q.seen
                    \/ q.kind # "status" /\ q.dead # DeadLetters
      /\ request' = [request EXCEPT ![o] = Idle]
      /\ UNCHANGED <<recordVars, link, sound, worker, restarts>>
  BY DEF Answer
<1>3. LastMode(q) \in Mode
  BY <1>1 DEF LastMode, FirstMode, Aged, Refreshed, StateType, Mode
<1>4. mode \in Mode /\ dead \in BOOLEAN
  BY <1>1, <1>3 DEF StateType
<1>5. state' \in StateType /\ state'.mode = mode /\ state'.dead = dead
  BY <1>1, <1>2, <1>4 DEF StateType
<1>6. request' \in [Operator -> RequestType \cup {Idle}]
  BY <1>2 DEF ModeTypeOK, RequestType
<1>7. crossed' \in BOOLEAN
  BY <1>2 DEF ModeTypeOK, DeadLetters
<1>8. ModeTypeOK'
  BY <1>2, <1>5, <1>6, <1>7 DEF ModeTypeOK, RequestType, recordVars
<1>9. ~crossed' => /\ ~crossed /\ q.seen = state
                   /\ q.kind # "status" => q.dead = DeadLetters
  BY <1>2
<1>10. AttentionShown'
  <2> SUFFICES ASSUME ~crossed', dead PROVE mode = "attention_required"
    BY <1>5 DEF AttentionShown
  <2>1. q.kind = "status" => state.mode = "attention_required"
    BY <1>9 DEF AttentionShown
  <2>2. q.kind # "status" => q.dead
    BY <1>1, <1>9 DEF StateType
  <2> QED
    BY <1>1, <1>9, <2>1, <2>2 DEF LastMode, FirstMode, Aged, Refreshed
<1>11. LiveHidesNothing'
  <2> SUFFICES ASSUME /\ worker.known /\ ~crossed'
                      /\ \/ worker.at = "pull"
                         \/ worker.at \in {"rest", "contact"} /\ worker.ready,
                      mode = "live", letters # {}
               PROVE  FALSE
    BY <1>2, <1>5 DEF LiveHidesNothing, recordVars
  <2>1. state.mode # "live" /\ q.seen.mode # "live"
    BY <1>9 DEF LiveHidesNothing
  <2>2. q.kind # "status" => q.dead
    BY <1>9 DEF DeadLetters
  <2> QED
    BY <1>1, <2>1, <2>2 DEF LastMode, FirstMode, Aged, Refreshed
<1> QED
  BY <1>8, <1>10, <1>11

(* What happens around the worker.                                         *)
LEMMA SurroundingsKeep ==
    ASSUME ModeTellsTruth,
           \/ \E r \in Record : RetryLetter(r) \/ Enqueue(r)
           \/ \E answer \in {"up", "down", "refused"} : SetLink(answer)
           \/ SetBooks
           \/ ContactAges
    PROVE  ModeTellsTruth'
<1> USE DEF ModeTellsTruth
<1>1. ASSUME NEW r \in Record, RetryLetter(r) \/ Enqueue(r) PROVE ModeTellsTruth'
  BY <1>1 DEF RetryLetter, Enqueue, ModeTypeOK, AttentionShown, LiveHidesNothing
<1>2. ASSUME NEW answer \in {"up", "down", "refused"}, SetLink(answer) PROVE ModeTellsTruth'
  BY <1>2 DEF SetLink, ModeTypeOK, recordVars, AttentionShown, LiveHidesNothing
<1>3. CASE SetBooks
  BY <1>3 DEF SetBooks, ModeTypeOK, recordVars, AttentionShown, LiveHidesNothing
<1>4. CASE ContactAges
  <2>1. state' \in StateType /\ state'.mode = state.mode /\ state'.dead = state.dead
    BY <1>4 DEF ContactAges, ModeTypeOK, StateType
  <2> QED
    BY <1>4, <2>1 DEF ContactAges, ModeTypeOK, recordVars, AttentionShown, LiveHidesNothing
<1> QED
  BY <1>1, <1>2, <1>3, <1>4

(* Every step keeps it.                                                    *)
LEMMA ModeStep == ModeTellsTruth /\ [ModeNext]_modeVars => ModeTellsTruth'
<1> SUFFICES ASSUME ModeTellsTruth, [ModeNext]_modeVars PROVE ModeTellsTruth'
  OBVIOUS
<1>1. CASE ModeNext
  BY <1>1, ContactKeeps, SettleKeeps, EndReconcileKeeps, CycleKeeps, LoadKeeps,
     AnswerKeeps, SurroundingsKeep DEF ModeNext, CycleStep
<1>2. CASE UNCHANGED modeVars
  BY <1>2 DEF modeVars, recordVars, ModeTellsTruth, ModeTypeOK, AttentionShown,
     LiveHidesNothing
<1> QED
  BY <1>1, <1>2

(* The mode tells the truth about dead letters, for any number of rows,    *)
(* operators and restarts (run_once, refresh_state_metrics).               *)
THEOREM ModeAlwaysTellsTruth == ModeSpec => []ModeTellsTruth
BY ModeStart, ModeStep, PTL DEF ModeSpec

(* LettersHoldAttention asks no more than that there is a letter once,     *)
(* because none is ever resolved (queue_metrics, retry_dead_letter).       *)
THEOREM AttentionNeedsOneLetter ==
    ModeSpec => (LettersHoldAttention <=>
                   (<>[](worker.known) /\ <>(letters # {})
                      => <>[](state.mode = "attention_required")))
<1>1. [ModeNext]_modeVars => (letters # {} => (letters # {})')
  <2>1. ASSUME [ModeNext]_modeVars PROVE letters \subseteq letters'
    BY <2>1 DEF ModeNext, CycleStep, modeVars, recordVars, BeginCycle, Contact, Pull,
                Process, EndBatch, Settle, EndReconcile, Restart, Load, Answer,
                RetryLetter, Enqueue, SetLink, SetBooks, ContactAges, RowSettled
  <2> QED
    BY <2>1
<1> QED
  BY <1>1, PTL DEF ModeSpec, LettersHoldAttention
=============================================================================
