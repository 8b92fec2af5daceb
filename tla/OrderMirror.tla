----------------------------- MODULE OrderMirror -----------------------------
(***************************************************************************)
(* One cloud order and its copy on the Local Hub: the hub's order and its  *)
(* transitions (services/cafe_staff_orders.py, cafe_billing.py), the       *)
(* outbox events that report them (sync/cafe_orders.py), the workers that  *)
(* push the outbox (process_outbox_batch in sync/service.py) and the       *)
(* cloud's mirror of the order (services/hc3_cloud_orders.py).             *)
(*                                                                         *)
(* A request to the cloud may be lost, its answer may be lost, and a       *)
(* request the hub has given up on may still be executed later.  The hub   *)
(* has a SYNC_DEVICE_ID, without which it reports no status at all.  All   *)
(* rows of the order fit in one batch.                                     *)
(***************************************************************************)
EXTENDS Naturals, Sequences

CONSTANTS Worker,      \* sync workers running on the hub
          MaxAttempts, \* setting sync_max_attempts
          MaxRows,     \* bound of the model: events reported
          MaxLost,     \* bound of the model: requests or answers lost
          MaxLate,     \* bound of the model: abandoned requests
          MaxCrashes   \* bound of the model: worker crashes

ASSUME AttemptsAssumption == MaxAttempts \in Nat \ {0}

(* VALID_TRANSITIONS: the targets staff may move an order to.            *)
ValidTransitions ==
    [placed         |-> {"accepted", "rejected", "cancelled"},
     accepted       |-> {"preparing", "cancelled"},
     preparing      |-> {"ready", "cancelled"},
     ready          |-> {"served"},
     served         |-> {"bill_requested"},
     bill_requested |-> {},
     billed         |-> {"closed"},
     closed         |-> {},
     rejected       |-> {},
     cancelled      |-> {}]

LocalStatus == DOMAIN ValidTransitions

Billable == {"accepted", "served", "bill_requested"}

Awaiting == "awaiting_cafe_confirmation"

(* SAFE_CLOUD_STATUSES: the statuses the cloud lets itself be told.      *)
SafeCloudStatuses ==
    {Awaiting, "accepted", "preparing", "ready", "served", "billed",
     "rejected", "closed"}

CloudStatus == LocalStatus \cup {Awaiting}

VARIABLES
    status,   \* hub database: CafeOrder.status, "none" before the import
    version,  \* hub database: CafeOrder.version, 0 before the import
    outbox,   \* hub database: SyncOutbox rows of the order, with the status
              \* of the row's SyncDeadLetter
    batch,    \* worker memory: the rows of the batch still to be processed
    late,     \* network: events given up on but not yet delivered
    mirror,   \* cloud database: cloud_orders.status
    recorded, \* cloud database: cloud_order_events, by version
    command,  \* cloud database: status of the order's sync command
    faults    \* history: how often each kind of fault has happened

order == <<status, version>>
cloud == <<mirror, recorded, command>>
vars == <<order, outbox, batch, late, cloud, faults>>

Row == 1 .. Len(outbox)

EventType ==
    [id : Nat, kind : {"submitted", "imported", "status_changed"},
     version : Nat, status : CloudStatus]

RowType ==
    [event : EventType,
     state : {"pending", "retry", "sent", "dead_letter"},
     attempts : 0 .. MaxAttempts,
     waiting : BOOLEAN,
     letter : {"none", "open", "retry_pending"}]

TypeOK ==
    /\ status \in LocalStatus \cup {"none"}
    /\ version \in Nat
    /\ outbox \in Seq(RowType)
    /\ batch \in [Worker -> SUBSET Nat]
    /\ late \subseteq EventType
    /\ mirror \in CloudStatus
    /\ recorded \in Seq(EventType)
    /\ command \in {"pending", "acknowledged"}
    /\ faults \in [lost : Nat, late : Nat, crashes : Nat]

(* create_cloud_order has stored the order, its first event and a command. *)
Submitted ==
    [id |-> 0, kind |-> "submitted", version |-> 1, status |-> Awaiting]

Init ==
    /\ status = "none"
    /\ version = 0
    /\ outbox = << >>
    /\ batch = [w \in Worker |-> {}]
    /\ late = {}
    /\ mirror = Awaiting
    /\ recorded = <<Submitted>>
    /\ command = "pending"
    /\ faults = [lost |-> 0, late |-> 0, crashes |-> 0]

Fault(kind, max) ==
    /\ faults[kind] < max
    /\ faults' = [faults EXCEPT ![kind] = @ + 1]

-----------------------------------------------------------------------------
(* The hub's order.                                                        *)

(* enqueue_outbox_event, in the transaction that changes the order.      *)
Enqueue(kind, v, s) ==
    outbox' = Append(outbox,
        [event |-> [id |-> Len(outbox) + 1, kind |-> kind, version |-> v,
                    status |-> s],
         state |-> "pending", attempts |-> 0, waiting |-> FALSE,
         letter |-> "none"])

(* import_cloud_cafe_order: the order is created as placed, in its first   *)
(* version, and the import is reported.                                    *)
Import ==
    /\ status = "none"
    /\ Len(outbox) < MaxRows
    /\ status' = "placed"
    /\ version' = 1
    /\ Enqueue("imported", 2, Awaiting)
    /\ UNCHANGED <<batch, late, cloud, faults>>

(* The version of a status snapshot: the cloud's first two versions are    *)
(* the submission and the import.  Slip: the order's own version.          *)
SnapshotVersionOwn(v) == IF v > 3 THEN v ELSE 3
SnapshotVersion(v) == IF v + 1 > 3 THEN v + 1 ELSE 3

(* transition_order: staff move the order on, and the move is reported.  *)
Transition(target) ==
    /\ status # "none"
    /\ target \in ValidTransitions[status]
    /\ Len(outbox) < MaxRows
    /\ status' = target
    /\ version' = version + 1
    /\ Enqueue("status_changed", SnapshotVersion(version'), target)
    /\ UNCHANGED <<batch, late, cloud, faults>>

(* _mark_billed: the order gets a new version and nothing is reported.   *)
MarkBilled ==
    /\ status \in Billable
    /\ status' = "billed"
    /\ version' = version + 1
    /\ UNCHANGED <<outbox, batch, late, cloud, faults>>

(* _close_source_if_settled: likewise, once the invoice is paid.         *)
CloseSettled ==
    /\ status = "billed"
    /\ status' = "closed"
    /\ version' = version + 1
    /\ UNCHANGED <<outbox, batch, late, cloud, faults>>

-----------------------------------------------------------------------------
(* The cloud: apply_local_sync_event.                                      *)

PriorVersion == recorded[Len(recorded)].version

Known(e) == \E k \in 1 .. Len(recorded) : recorded[k] = e

(* Which answer event e gets.  Slips: every version from the prior one on  *)
(* is taken; an event that is known or too old is a conflict.              *)
AnswerLax(e) ==
    IF Known(e) \/ e.version < PriorVersion THEN "duplicate"
    ELSE IF e.kind = "status_changed" /\ e.status \notin SafeCloudStatuses
    THEN "refused" ELSE "recorded"

AnswerStrict(e) ==
    IF e.version # PriorVersion + 1 THEN "conflict"
    ELSE IF e.kind = "status_changed" /\ e.status \notin SafeCloudStatuses
    THEN "refused" ELSE "recorded"

Answer(e) ==
    IF Known(e) \/ e.version <= PriorVersion THEN "duplicate"
    ELSE IF e.version > PriorVersion + 1 THEN "conflict"
    ELSE IF e.kind = "status_changed" /\ e.status \notin SafeCloudStatuses
    THEN "refused" ELSE "recorded"

Accepted(e) == Answer(e) \in {"recorded", "duplicate"}

(* What executing the request changes.  Reporting the import acknowledges  *)
(* the command the order came with.                                        *)
Execute(e) ==
    IF Answer(e) = "recorded"
    THEN /\ recorded' = Append(recorded, e)
         /\ mirror' = IF e.kind = "imported" THEN mirror ELSE e.status
         /\ command' = IF e.kind = "imported" THEN "acknowledged" ELSE command
    ELSE UNCHANGED cloud

(* A request the hub has given up on is executed after all.              *)
LateDelivery(e) ==
    /\ Execute(e)
    /\ late' = late \ {e}
    /\ UNCHANGED <<order, outbox, batch, faults>>

-----------------------------------------------------------------------------
(* The workers: process_outbox_batch.                                      *)

Due(i) == outbox[i].state \in {"pending", "retry"} /\ ~outbox[i].waiting

(* The ids of the due rows are read without a lock.                      *)
SelectBatch(w) ==
    /\ batch[w] = {}
    /\ \E i \in Row : Due(i)
    /\ batch' = [batch EXCEPT ![w] = {i \in Row : Due(i)}]
    /\ UNCHANGED <<order, outbox, late, cloud, faults>>

(* ... and processed in their order: row i is the next one of the batch. *)
Following(w, i) == i \in batch[w] /\ \A j \in batch[w] : i <= j

(* A locked row is passed over when it has been sent in the meantime; a    *)
(* row in the dead letters is not.  Slip: nothing is passed over.          *)
PassedOverNone(i) == FALSE
PassedOver(i) == outbox[i].state = "sent"

(* The batch goes on without row i.                                      *)
Advance(w, i) == batch' = [batch EXCEPT ![w] = @ \ {i}]

Sending(w, i) == Following(w, i) /\ ~PassedOver(i)

Skip(w, i) ==
    /\ Following(w, i)
    /\ PassedOver(i)
    /\ Advance(w, i)
    /\ UNCHANGED <<order, outbox, late, cloud, faults>>

(* Row i is written; its event never changes.                            *)
Write(i, state, attempts, waiting, letter) ==
    outbox' = [outbox EXCEPT ![i] =
        [event |-> outbox[i].event, state |-> state, attempts |-> attempts,
         waiting |-> waiting, letter |-> letter]]

MarkSent(i) == Write(i, "sent", outbox[i].attempts, FALSE, outbox[i].letter)

(* _schedule_outbox_failure and _upsert_dead_letter.  attempt_count is     *)
(* only compared with MaxAttempts, so it may stop growing there.           *)
ScheduleFailure(i, retryable) ==
    LET n == IF outbox[i].attempts < MaxAttempts THEN outbox[i].attempts + 1
                                                 ELSE MaxAttempts
    IN IF retryable /\ n < MaxAttempts
       THEN Write(i, "retry", n, TRUE, outbox[i].letter)
       ELSE Write(i, "dead_letter", n, FALSE, "open")

(* The event is delivered and answered: a 4xx answer is permanent.       *)
Send(w, i) ==
    /\ Sending(w, i)
    /\ Execute(outbox[i].event)
    /\ \/ Accepted(outbox[i].event) /\ MarkSent(i)
       \/ ~Accepted(outbox[i].event) /\ ScheduleFailure(i, FALSE)
    /\ Advance(w, i)
    /\ UNCHANGED <<order, late, faults>>

(* The request is lost, or the cloud answers that it is overloaded.      *)
RequestLost(w, i) ==
    /\ Sending(w, i)
    /\ Fault("lost", MaxLost)
    /\ ScheduleFailure(i, TRUE)
    /\ Advance(w, i)
    /\ UNCHANGED <<order, late, cloud>>

(* The request is executed and its answer is lost.                       *)
AnswerLost(w, i) ==
    /\ Sending(w, i)
    /\ Fault("lost", MaxLost)
    /\ Execute(outbox[i].event)
    /\ ScheduleFailure(i, TRUE)
    /\ Advance(w, i)
    /\ UNCHANGED <<order, late>>

(* The hub times out while the request is still under way.               *)
Abandoned(w, i) ==
    /\ Sending(w, i)
    /\ Fault("late", MaxLate)
    /\ late' = late \cup {outbox[i].event}
    /\ ScheduleFailure(i, TRUE)
    /\ Advance(w, i)
    /\ UNCHANGED <<order, cloud>>

(* The worker dies with row i in hand, before or after its request has     *)
(* been executed: what it would have written about the row is rolled back. *)
Crash(w, i) ==
    /\ Following(w, i)
    /\ Fault("crashes", MaxCrashes)
    /\ \/ ~PassedOver(i) /\ Execute(outbox[i].event)
       \/ UNCHANGED cloud
    /\ batch' = [batch EXCEPT ![w] = {}]
    /\ UNCHANGED <<order, outbox, late>>

(* next_attempt_at passes.                                               *)
BackoffElapses(i) ==
    /\ outbox[i].waiting
    /\ Write(i, outbox[i].state, outbox[i].attempts, FALSE, outbox[i].letter)
    /\ UNCHANGED <<order, batch, late, cloud, faults>>

(* An operator's retry_dead_letter: it asks neither whether the letter is  *)
(* still open nor what became of the row.  Slip: the row gets the letter's *)
(* status.                                                                 *)
RetryDeadLetterAsLetter(i) ==
    /\ outbox[i].letter # "none"
    /\ Write(i, "retry_pending", outbox[i].attempts, FALSE, "retry_pending")
    /\ UNCHANGED <<order, batch, late, cloud, faults>>

RetryDeadLetter(i) ==
    /\ outbox[i].letter # "none"
    /\ Write(i, "retry", outbox[i].attempts, FALSE, "retry_pending")
    /\ UNCHANGED <<order, batch, late, cloud, faults>>

Work(w) == SelectBatch(w) \/ \E i \in batch[w] : Skip(w, i) \/ Send(w, i)

Mishap(w, i) ==
    RequestLost(w, i) \/ AnswerLost(w, i) \/ Abandoned(w, i) \/ Crash(w, i)

Next ==
    \/ Import
    \/ \E target \in LocalStatus : Transition(target)
    \/ MarkBilled
    \/ CloseSettled
    \/ \E e \in late : LateDelivery(e)
    \/ \E w \in Worker : Work(w)
    \/ \E w \in Worker : \E i \in batch[w] : Mishap(w, i)
    \/ \E i \in Row : BackoffElapses(i) \/ RetryDeadLetter(i)

Spec == Init /\ [][Next]_vars

-----------------------------------------------------------------------------
(* Fairness: run_forever keeps pushing the outbox and time passes.  Staff  *)
(* owe the order no transition and the network owes no delivery.           *)

ElapsesFor(i) == i \in Row /\ BackoffElapses(i)

FairSpec ==
    /\ Spec
    /\ \A w \in Worker : WF_vars(Work(w))
    /\ \A i \in 1 .. MaxRows : WF_vars(ElapsesFor(i))

(* An operator who keeps retrying the dead letters that are open.        *)
RetriesOpen(i) ==
    i \in Row /\ outbox[i].letter = "open" /\ RetryDeadLetter(i)

AttendedSpec == FairSpec /\ \A i \in 1 .. MaxRows : WF_vars(RetriesOpen(i))

-----------------------------------------------------------------------------
(* Properties.                                                             *)

(* An event the hub has published reaches the cloud's event table or stays *)
(* visible: as a row that is still to be sent, or as an open dead letter.  *)
(* In particular no row counts as sent because the cloud took another      *)
(* event of the same version for it.  Once the import counts as sent, its  *)
(* command is acknowledged and will not be handed out again.               *)
NothingLost ==
    \A i \in Row :
        /\ \/ Known(outbox[i].event)
           \/ outbox[i].state \in {"pending", "retry"}
           \/ outbox[i].state = "dead_letter" /\ outbox[i].letter = "open"
        /\ outbox[i].state = "sent" /\ outbox[i].event.kind = "imported"
              => command = "acknowledged"

(* The cloud's copy follows the hub's: whatever is lost, late, repeated or *)
(* retried, the cloud reads the events in the order the hub published them *)
(* and shows a status the order really had, never an earlier one again.    *)
Feed == INSTANCE StatusFeed WITH
            Status <- CloudStatus,
            Initial <- Awaiting,
            published <- [i \in Row |-> outbox[i].event.status],
            read <- Len(recorded) - 1,
            shown <- mirror

FollowsFeed == Feed!Spec

(* Two workers with stale batches: a row that was sent stays sent, unless  *)
(* it has a dead letter that somebody retries.                             *)
SentStaysSent ==
    [][\A i \in Row :
          outbox[i].state = "sent" /\ outbox[i].letter = "none"
              => outbox'[i].state = "sent"]_vars

(* The order's latest status, in the cloud's words.                      *)
Expected == IF status \in {"none", "placed"} THEN Awaiting ELSE status

(* Every change of the order so far was reported, with a status the cloud  *)
(* accepts.                                                                *)
Reportable ==
    /\ \A i \in Row : outbox[i].event.status \in SafeCloudStatuses
    /\ version > 1 => outbox[Len(outbox)].event.version = version + 1

(* As long as only such changes happen, the cloud's copy catches up and    *)
(* every row gets sent (again and again, should somebody retry the dead    *)
(* letter of a row that was sent long ago).  It holds under AttendedSpec,  *)
(* where somebody attends to the dead letters.  HC4_CONTINUITY_RUNBOOK.md: *)
(* 62-63 promises it without: "Local outbox events are pushed; lost        *)
(* acknowledgements are safely retried. Retryable failures remain queued." *)
(* Under FairSpec it does not hold.                                        *)
CatchesUp ==
    []Reportable =>
        /\ <>[](mirror = Expected)
        /\ \A i \in 1 .. MaxRows : []<>(i \in Row => outbox[i].state = "sent")

(* HYBRID_CLOUD_CONTINUITY_IMPLEMENTATION_PHASES.md:145: "Push accepted,   *)
(* preparing, ready, served, billed, rejected, and closed states after     *)
(* local commit."  The code does not: billing and closing enqueue nothing. *)
ClosedIsPushed == (status = "closed") ~> (mirror = "closed")
=============================================================================
