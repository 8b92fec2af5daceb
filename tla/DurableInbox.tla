---------------------------- MODULE DurableInbox ----------------------------
(***************************************************************************)
(* The Local Hub's durable inbox: sync/service.py, inbound half.           *)
(*                                                                         *)
(* Producers deliver events any number of times and in any order.  A       *)
(* delivery is first staged as a row of sync_inbox; workers select batches *)
(* of due rows and apply each row in a transaction of its own, which locks *)
(* the row and the aggregate's version.  A failing row backs off, is       *)
(* blocked behind a missing version, or ends as a dead letter that an      *)
(* operator may put back in the queue.                                     *)
(*                                                                         *)
(* One action is one database transaction, but two of them read a row      *)
(* before they lock it and decide on what they read: consume_incoming_     *)
(* event, whose select ... for update returns the object the session has   *)
(* already loaded, and retry_dead_letter, which locks only the letter.     *)
(* These are a begin and a finish.  A session writes a column only when it *)
(* is no longer what was read.  A transaction that aborts changes nothing  *)
(* and is no step; what a crash loses is the worker's in-memory batch.  Of *)
(* the clock, only whether next_attempt_at is null, ahead or passed is     *)
(* kept.  sync_checkpoints is left out: it is written on every success and *)
(* nothing in the program reads it.                                        *)
(***************************************************************************)
EXTENDS Naturals, Sequences, FiniteSets

CONSTANTS
    Event, Aggregate,
    AggregateOf, VersionOf,  \* of the envelope: aggregate and aggregate_version
    Unsupported,             \* events with another schema version or no handler
    Worker,                  \* processes that drain the inbox
    Consumer,                \* callers of consume_incoming_event
    NoEvent,                 \* the null last_event_id
    MaxAttempts,             \* settings.sync_max_attempts
    BatchLimit,              \* settings.sync_batch_size
    MaxManualRetries         \* bound of the model: retries of one dead letter

ASSUME InboxAssumption ==
    /\ AggregateOf \in [Event -> Aggregate]
    /\ VersionOf \in [Event -> Nat \ {0}]       \* schemas/sync.py: ge=1
    /\ MaxAttempts \in Nat \ {0}
    /\ NoEvent \notin Event

VARIABLES
    inbox,       \* sync_inbox: status, attempt_count, next_attempt_at, row id
    lastId,      \* the row id sequence of sync_inbox
    version,     \* sync_aggregate_versions.last_applied_version
    lastEvent,   \* sync_aggregate_versions.last_event_id
    deadLetter,  \* sync_dead_letters, inbound: status and retry_count
    batch,       \* in memory: the rows a worker selected and has not handled
    reading,     \* in memory: the row a consume has read and not yet locked
    retrying,    \* in memory: a retry under way, which holds the letter's lock
    effects,     \* history: the business effects that committed, per aggregate
    overtaken    \* history: dead letters whose row a stale consume wrote over

tables == <<inbox, lastId, version, lastEvent, deadLetter, effects>>

vars == <<tables, batch, reading, retrying, overtaken>>

Absent == [status |-> "absent", attempts |-> 0, next |-> "null", id |-> 0]

NotReading == [event |-> NoEvent, row |-> Absent]

Unlocked == [held |-> FALSE, sets |-> {}]

Waiting == {"pending", "retry", "blocked"}
Settled == {"processed", "dead_letter"}

RowType == [status : {"absent"} \cup Waiting \cup Settled,
            attempts : Nat, next : {"null", "ahead", "passed"}, id : Nat]

LetterType == [status : {"none", "open", "retry_pending"}, retries : Nat]

TypeOK ==
    /\ inbox \in [Event -> RowType]
    /\ lastId \in Nat
    /\ version \in [Aggregate -> Nat]
    /\ lastEvent \in [Aggregate -> Event \cup {NoEvent}]
    /\ deadLetter \in [Event -> LetterType]
    /\ batch \in [Worker -> SUBSET Event]
    /\ reading \in [Consumer -> [event : Event \cup {NoEvent}, row : RowType]]
    /\ retrying \in [Event -> [held : BOOLEAN, sets : SUBSET {"status", "next"}]]
    /\ overtaken \subseteq Event
    /\ effects \in [Aggregate -> Seq(Event)]

Init ==
    /\ inbox = [e \in Event |-> Absent]
    /\ lastId = 0
    /\ version = [a \in Aggregate |-> 0]
    /\ lastEvent = [a \in Aggregate |-> NoEvent]
    /\ deadLetter = [e \in Event |-> [status |-> "none", retries |-> 0]]
    /\ batch = [w \in Worker |-> {}]
    /\ reading = [c \in Consumer |-> NotReading]
    /\ retrying = [e \in Event |-> Unlocked]
    /\ effects = [a \in Aggregate |-> << >>]
    /\ overtaken = {}

-----------------------------------------------------------------------------
(* The pieces of _apply_inbox_record.  Each fixes inbox', deadLetter',     *)
(* version', lastEvent' and effects'.  `row' is e's row as the session has *)
(* it, `stored' the row in the table, which is locked: they differ when    *)
(* the session read it before it took the lock.                            *)

NoEffect == UNCHANGED <<version, lastEvent, effects>>

(* What a column holds after a flush.                                      *)
Flushed(seen, new, stored) == IF new = seen THEN stored ELSE new

(* The row is settled as processed; its dead letter, if any, is untouched. *)
MarkProcessed(e, row, stored) ==
    /\ inbox' = [inbox EXCEPT ![e] =
          [stored EXCEPT !.status = "processed",
                         !.next = Flushed(row.next, "null", @)]]
    /\ UNCHANGED deadLetter

(* _schedule_inbox_failure with _upsert_dead_letter: another attempt later *)
(* while the budget lasts, else a dead letter, inserted or re-opened.      *)
BackOff(e, row, stored, waitAs) ==
    /\ inbox' = [inbox EXCEPT ![e] =
          [stored EXCEPT !.status = Flushed(row.status, waitAs, @),
                         !.attempts = row.attempts + 1,
                         !.next = "ahead"]]
    /\ UNCHANGED deadLetter

(* A slip: the upsert inserts but never re-opens.                          *)
DeadLetterInsertOnly(e, row, stored) ==
    /\ ~retrying[e].held
    /\ inbox' = [inbox EXCEPT ![e] =
          [stored EXCEPT !.status = "dead_letter", !.attempts = row.attempts + 1,
                         !.next = Flushed(row.next, "null", @)]]
    /\ deadLetter' = IF deadLetter[e].status = "none"
                     THEN [deadLetter EXCEPT ![e].status = "open"]
                     ELSE deadLetter

(* The letter is read for update: a retry that holds it comes first.       *)
DeadLetter(e, row, stored) ==
    /\ ~retrying[e].held
    /\ inbox' = [inbox EXCEPT ![e] =
          [stored EXCEPT !.status = "dead_letter", !.attempts = row.attempts + 1,
                         !.next = Flushed(row.next, "null", @)]]
    /\ deadLetter' = [deadLetter EXCEPT ![e].status = "open"]

ScheduleFailure(e, row, stored, retryable, waitAs) ==
    IF ~retryable \/ row.attempts + 1 >= MaxAttempts
    THEN DeadLetter(e, row, stored)
    ELSE BackOff(e, row, stored, waitAs)

(* The statuses at which the record is only answered, never attempted.     *)
(* Slip: the second early return is missing, as it is in the outbox.       *)
AnsweredIfProcessed == {"processed"}

Answered == {"processed", "dead_letter"}

(* A row that is already settled is answered from its receipt.           *)
AnswerReceipt(e, row, stored) ==
    /\ row.status \in Answered
    /\ inbox' = [inbox EXCEPT ![e] = stored]
    /\ UNCHANGED deadLetter /\ NoEffect

RejectUnsupported(e, row, stored) ==
    /\ row.status \notin Answered
    /\ e \in Unsupported
    /\ ScheduleFailure(e, row, stored, FALSE, "retry") /\ NoEffect

Applicable(e, row) == row.status \notin Answered /\ e \notin Unsupported

(* Where the event stands relative to the locked aggregate version.  Two   *)
(* plausible slips first: a gap test that is one too lax, and a test for   *)
(* the current version that was forgotten.                                 *)
PositionLax(e) ==
    LET v == VersionOf[e]   current == version[AggregateOf[e]] IN
    CASE v > current + 2 -> "gap"
      [] v = current     -> "same"
      [] v < current     -> "older"
      [] OTHER           -> "next"

PositionForgetsSame(e) ==
    LET v == VersionOf[e]   current == version[AggregateOf[e]] IN
    CASE v > current + 1 -> "gap"
      [] v < current     -> "older"
      [] OTHER           -> "next"

Position(e) ==
    LET v == VersionOf[e]   current == version[AggregateOf[e]] IN
    CASE v > current + 1 -> "gap"
      [] v = current     -> "same"
      [] v < current     -> "older"
      [] OTHER           -> "next"

(* AggregateVersionGap: retryable, and the row is shown as blocked.      *)
BlockBehindGap(e, row, stored) ==
    /\ Applicable(e, row) /\ Position(e) = "gap"
    /\ ScheduleFailure(e, row, stored, TRUE, "blocked") /\ NoEffect

(* The version is the current one: the same event again, or a conflict.  *)
SameVersionTakesAny(e, row, stored) ==
    /\ Applicable(e, row) /\ Position(e) = "same"
    /\ ScheduleFailure(e, row, stored, FALSE, "retry") /\ NoEffect

SameVersion(e, row, stored) ==
    /\ Applicable(e, row) /\ Position(e) = "same"
    /\ IF lastEvent[AggregateOf[e]] = e
       THEN MarkProcessed(e, row, stored)
       ELSE ScheduleFailure(e, row, stored, FALSE, "retry")
    /\ NoEffect

Supersede(e, row, stored) ==
    /\ Applicable(e, row) /\ Position(e) = "older"
    /\ MarkProcessed(e, row, stored) /\ NoEffect

(* The handler raised: its savepoint is rolled back, the failure is kept.  *)
(* A SyncProcessingError says itself whether it is retryable, any other    *)
(* exception is retryable.                                                 *)
HandlerFails(e, row, stored, retryable) ==
    /\ Applicable(e, row) /\ Position(e) = "next"
    /\ ScheduleFailure(e, row, stored, retryable, "retry") /\ NoEffect

(* The handler returned: effect, version and receipt commit together.    *)
HandlerSucceeds(e, row, stored) ==
    LET a == AggregateOf[e] IN
    /\ Applicable(e, row) /\ Position(e) = "next"
    /\ MarkProcessed(e, row, stored)
    /\ effects' = [effects EXCEPT ![a] = Append(@, e)]
    /\ version' = [version EXCEPT ![a] = VersionOf[e]]
    /\ lastEvent' = [lastEvent EXCEPT ![a] = e]

ApplyRecord(e, row, stored) ==
    \/ AnswerReceipt(e, row, stored)
    \/ RejectUnsupported(e, row, stored)
    \/ BlockBehindGap(e, row, stored)
    \/ SameVersion(e, row, stored)
    \/ Supersede(e, row, stored)
    \/ \E retryable \in BOOLEAN : HandlerFails(e, row, stored, retryable)
    \/ HandlerSucceeds(e, row, stored)

-----------------------------------------------------------------------------
(* stage_inbox_event in a transaction of its own (the worker stages what   *)
(* it pulled).  A redelivery finds the row and changes nothing.            *)
StagedRow ==
    [status |-> "pending", attempts |-> 0, next |-> "null", id |-> lastId + 1]

StageAgain(e) ==
    /\ inbox[e].status \in {"absent", "processed"}
    /\ inbox' = [inbox EXCEPT ![e] = StagedRow]
    /\ lastId' = lastId + 1
    /\ UNCHANGED <<version, lastEvent, deadLetter, batch, reading, retrying,
                   effects, overtaken>>

Stage(e) ==
    /\ inbox[e].status = "absent"
    /\ inbox' = [inbox EXCEPT ![e] = StagedRow]
    /\ lastId' = lastId + 1
    /\ UNCHANGED <<version, lastEvent, deadLetter, batch, reading, retrying,
                   effects, overtaken>>

(* consume_incoming_event of an event without a row: stage and apply in    *)
(* one transaction.  Of two that insert the same event, one aborts.        *)
ConsumeNew(e) ==
    /\ inbox[e].status = "absent"
    /\ lastId' = lastId + 1
    /\ ApplyRecord(e, StagedRow, StagedRow)
    /\ UNCHANGED <<batch, reading, retrying, overtaken>>

(* What a session keeps of e's row.  Of a time it read, a flush asks only  *)
(* whether it was null.                                                    *)
Seen(e) == [inbox[e] EXCEPT !.next = IF @ = "null" THEN "null" ELSE "ahead"]

(* consume_incoming_event of an event with a row, whatever the row's       *)
(* back-off says: stage_inbox_event reads it without a lock, and that is   *)
(* what the transaction decides by once it has the lock.  A row read as    *)
(* settled is only answered.                                               *)
BeginConsume(c, e) ==
    /\ reading[c] = NotReading
    /\ inbox[e].status \in Waiting
    /\ reading' = [reading EXCEPT ![c] = [event |-> e, row |-> Seen(e)]]
    /\ UNCHANGED <<tables, batch, retrying, overtaken>>

FinishConsume(c) ==
    LET e == reading[c].event IN
    /\ reading[c] # NotReading
    /\ ApplyRecord(e, reading[c].row, inbox[e])
    /\ reading' = [reading EXCEPT ![c] = NotReading]
    /\ overtaken' = IF inbox[e].status = "dead_letter" /\ inbox'[e].status # "dead_letter"
                    THEN overtaken \cup {e}
                    ELSE overtaken
    /\ UNCHANGED <<lastId, batch, retrying>>

(* The rows process_inbox_batch asks for, and the first BatchLimit by id. *)
DueUnblocked == {e \in Event : inbox[e].status \in {"pending", "retry"} /\ inbox[e].next # "ahead"}
Due == {e \in Event : inbox[e].status \in Waiting /\ inbox[e].next # "ahead"}

FirstDue == {e \in Due : Cardinality({f \in Due : inbox[f].id < inbox[e].id})
                             < BatchLimit}

SelectBatch(w) ==
    /\ batch[w] = {}
    /\ Due # {}
    /\ batch' = [batch EXCEPT ![w] = FirstDue]
    /\ UNCHANGED <<tables, reading, retrying, overtaken>>

(* The next row of the batch, in id order.  The row is read, in a session  *)
(* of its own, under its lock; whether it is still due is not looked at.   *)
ProcessRecord(w, e) ==
    /\ e \in batch[w]
    /\ \A f \in batch[w] : inbox[e].id <= inbox[f].id
    /\ batch' = [batch EXCEPT ![w] = @ \ {e}]
    /\ ApplyRecord(e, inbox[e], inbox[e])
    /\ UNCHANGED <<lastId, reading, retrying, overtaken>>

(* The process dies, or an exception leaves the batch loop.              *)
Crash(w) ==
    /\ batch[w] # {}
    /\ batch' = [batch EXCEPT ![w] = {}]
    /\ UNCHANGED <<tables, reading, retrying, overtaken>>

(* next_attempt_at passes.                                               *)
BackoffElapses(e) ==
    /\ inbox[e].next = "ahead"
    /\ inbox' = [inbox EXCEPT ![e].next = "passed"]
    /\ UNCHANGED <<lastId, version, lastEvent, deadLetter, batch, reading,
                   retrying, effects, overtaken>>

(* retry_dead_letter, inbound: the letter is locked, the row is only read; *)
(* neither status is looked at, and attempt_count stays as it is.  What    *)
(* the row held when it was read decides which columns are written.        *)
Retried == [status |-> "pending", next |-> "null"]

BeginRetry(e) ==
    /\ deadLetter[e].status # "none"
    /\ deadLetter[e].retries < MaxManualRetries
    /\ ~retrying[e].held
    /\ retrying' = [retrying EXCEPT ![e] = [held |-> TRUE,
          sets |-> {c \in {"status", "next"} : inbox[e][c] # Retried[c]}]]
    /\ UNCHANGED <<tables, batch, reading, overtaken>>

FinishRetry(e) ==
    /\ retrying[e].held
    /\ inbox' = [inbox EXCEPT ![e] =
          [c \in DOMAIN @ |-> IF c \in retrying[e].sets THEN Retried[c] ELSE @[c]]]
    /\ deadLetter' = [deadLetter EXCEPT ![e] =
                        [status |-> "retry_pending", retries |-> @.retries + 1]]
    /\ retrying' = [retrying EXCEPT ![e] = Unlocked]
    /\ overtaken' = overtaken \ {e}
    /\ UNCHANGED <<lastId, version, lastEvent, batch, reading, effects>>

WorkerStep(w) == SelectBatch(w) \/ \E e \in Event : ProcessRecord(w, e)

Next ==
    \/ \E e \in Event : Stage(e)
    \/ \E e \in Event : ConsumeNew(e)
    \/ \E c \in Consumer : \/ \E e \in Event : BeginConsume(c, e)
                          \/ FinishConsume(c)
    \/ \E w \in Worker : WorkerStep(w)
    \/ \E w \in Worker : Crash(w)
    \/ \E e \in Event : BackoffElapses(e)
    \/ \E e \in Event : BeginRetry(e) \/ FinishRetry(e)

Spec == Init /\ [][Next]_vars

(* run_forever polls for ever, time passes and a retry that has taken its  *)
(* lock commits; nothing makes a producer deliver or an operator retry,    *)
(* and a worker may crash any number of times, but not for ever.           *)
Fairness ==
    /\ \A w \in Worker : WF_vars(WorkerStep(w))
    /\ <>[][\A w \in Worker : ~Crash(w)]_vars
    /\ \A e \in Event : /\ WF_vars(BackoffElapses(e))
                        /\ WF_vars(FinishRetry(e))

FairSpec == Spec /\ Fairness
-----------------------------------------------------------------------------
(* Properties.                                                             *)

Committed(e) == \E i \in DOMAIN effects[AggregateOf[e]] :
                    effects[AggregateOf[e]][i] = e

(* The abstract promise: whatever is redelivered, reordered, retried by    *)
(* hand or raced by two workers, the effects of _apply_inbox_record on an  *)
(* aggregate are its events in version order, without a gap, each once.    *)
Promise == INSTANCE AggregateLog WITH log <- effects
KeepsPromise == Promise!Spec

(* last_applied_version and last_event_id, which later deliveries are      *)
(* judged by, describe the log of effects exactly.                         *)
VersionTracksEffects ==
    \A a \in Aggregate :
        /\ version[a] = Len(effects[a])
        /\ \A i \in DOMAIN effects[a] : /\ AggregateOf[effects[a][i]] = a
                                        /\ VersionOf[effects[a][i]] = i
        /\ lastEvent[a] = IF version[a] = 0 THEN NoEvent
                                            ELSE effects[a][version[a]]

(* A receipt never lies: a row is only processed ("already_applied",       *)
(* "superseded" or applied) when an effect with its version has committed. *)
ReceiptIsHonest ==
    \A e \in Event : inbox[e].status = "processed" =>
        \E i \in DOMAIN effects[AggregateOf[e]] :
            VersionOf[effects[AggregateOf[e]][i]] = VersionOf[e]

(* An event whose effect committed is never reported as failed again: its  *)
(* row is processed, or an operator has put it back and it is pending.     *)
CommittedNeverFails ==
    \A e \in Event : Committed(e) =>
        \/ inbox[e].status = "processed"
        \/ inbox[e].status = "pending" /\ deadLetter[e].status = "retry_pending"

(* No failure is hidden: a dead-lettered row has an open dead letter, also *)
(* when a retried row fails once more, and whatever overlaps.  The letter  *)
(* is open only on such a row, unless a consume that had read the row      *)
(* before it was dead-lettered wrote over it: consume_incoming_event       *)
(* leaves that letter open until an operator retries it.                   *)
DeadLettersVisible ==
    \A e \in Event :
        /\ inbox[e].status = "dead_letter" => deadLetter[e].status = "open"
        /\ deadLetter[e].status = "open" => inbox[e].status = "dead_letter" \/ e \in overtaken

(* The hub gives up: the row never counts more than MaxAttempts automatic  *)
(* attempts and one for each time an operator asked.  (What a stale        *)
(* consume writes over is not counted: it may set the count back.)         *)
AttemptsBounded ==
    \A e \in Event :
        /\ inbox[e].attempts <= MaxAttempts + deadLetter[e].retries
        /\ inbox[e].attempts >= MaxAttempts /\ inbox[e].status \in Waiting
              => deadLetter[e].status = "retry_pending"

(* Redelivery, a crash or a second worker never re-opens a settled row:    *)
(* only an operator's retry does.  A consume that is still at work on what *)
(* the row was before can take it out of the dead letters, never back from *)
(* processed.                                                              *)
SettledUntilRetried ==
    [][\A e \in Event :
          inbox[e].status \in Settled /\ inbox'[e].status # inbox[e].status
             => \/ deadLetter'[e].retries = deadLetter[e].retries + 1
                \/ /\ inbox[e].status = "dead_letter"
                   /\ \E c \in Consumer : /\ reading[c].event = e
                                          /\ reading[c].row.status # "dead_letter"
                                          /\ reading'[c] = NotReading]_vars

(* Whatever was staged is processed or dead-lettered in the end, blocked   *)
(* rows and rows behind a full batch included: no row waits for ever.      *)
RowsSettle == \A e \in Event : []<>(inbox[e].status \notin Waiting)
=============================================================================
