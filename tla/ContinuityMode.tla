--------------------------- MODULE ContinuityMode ---------------------------
(***************************************************************************)
(* The continuity mode of one scope: the cycle of the Local Hub's worker   *)
(* (sync/worker.py), the state row and the reconciliation it writes        *)
(* (services/continuity.py), and the operators' requests that read and     *)
(* write the same row (routes/continuity.py, routes/sync_status.py).       *)
(*                                                                         *)
(* The worker locks the row before it reads it.  An operator's request     *)
(* loads the row without a lock and flushes the columns whose value it has *)
(* changed; its UPDATE waits while the worker reconciles.                  *)
(*                                                                         *)
(* Counts are abstracted to "none or some", a lapsed lease and an old      *)
(* heartbeat to one age, a back-off to another failed cycle, and the       *)
(* business checks of the reconciliation to whether they agree.            *)
(***************************************************************************)
EXTENDS Integers, FiniteSets

CONSTANTS Record,       \* rows of sync_inbox and sync_outbox
          Operator,
          Idle,         \* an operator with no request under way
          MaxRestarts   \* bound: restarts of the worker

ASSUME ContinuityAssumption == MaxRestarts \in Nat

VARIABLES
    inbound,  \* the rows that are of the inbox
    queue,    \* status of each row, pending for retry and blocked as well
    letters,  \* rows with a dead letter, which is never resolved
    link,     \* what the cloud answers a heartbeat and an acquire
    sound,    \* the business records agree with each other
    state,    \* continuity_states
    worker,   \* the cycle under way and what it has read
    restarts,
    request,  \* the operators' requests under way
    crossed   \* history: the last write was of a request that something
              \* had overtaken

recordVars == <<inbound, queue, letters>>
modeVars == <<recordVars, link, sound, state, worker, restarts, request,
              crossed>>

Mode == {"live", "offline_local", "synchronizing", "stale",
         "attention_required"}
StateType == [mode : Mode, dead : BOOLEAN, contact : {"never", "fresh", "old"}]

ModeTypeOK ==
    /\ inbound \subseteq Record
    /\ queue \in [Record -> {"absent", "pending", "done", "dead"}]
    /\ letters \subseteq Record
    /\ link \in {"up", "down", "refused"}
    /\ sound \in BOOLEAN
    /\ state \in StateType
    /\ worker \in [at : {"rest", "contact", "pull", "batch", "settle",
                         "reconcile"},
                   known : BOOLEAN, ready : BOOLEAN, dead : BOOLEAN,
                   drained : BOOLEAN, sound : BOOLEAN, todo : SUBSET Record]
    /\ restarts \in 0..MaxRestarts
    /\ request \in [Operator -> [kind : {"view", "status", "reconcile"},
                                 seen : StateType, dead : BOOLEAN,
                                 sound : BOOLEAN]
                                  \cup {Idle}]
    /\ crossed \in BOOLEAN

(* Between cycles: whether the last one reached the cloud.                 *)
AtRest(ready) == [at |-> "rest", known |-> ready, ready |-> ready,
                  dead |-> FALSE, drained |-> FALSE, sound |-> FALSE,
                  todo |-> {}]

ModeInit ==
    /\ inbound \in SUBSET Record
    /\ queue = [r \in Record |-> "absent"]
    /\ letters = {}
    /\ link = "up" /\ sound = TRUE
    /\ state = [mode |-> "synchronizing", dead |-> FALSE, contact |-> "never"]
    /\ worker = AtRest(FALSE)
    /\ restarts = 0
    /\ request = [o \in Operator |-> Idle]
    /\ crossed = FALSE

Pending == {r \in Record : queue[r] = "pending"}

(* A slip: a letter that waits for its manual retry no longer counts.      *)
DeadLettersSlip == \E r \in letters : queue[r] = "dead"

(* queue_metrics: a letter counts while it is open or retry_pending, and   *)
(* nothing ever makes it resolved.                                         *)
DeadLetters == letters # {}

(* A slip: the mode asked for wins over the dead letters.                  *)
RefreshedSlip(mode, dead) == mode

(* A slip: attention is never left.                                        *)
RefreshedSticky(mode, dead) ==
    IF dead \/ state.mode = "attention_required"
    THEN "attention_required" ELSE mode

(* refresh_state_metrics: dead letters force attention_required.           *)
Refreshed(mode, dead) == IF dead THEN "attention_required" ELSE mode

(* _persist_state, on a row that is locked.  A worker that has not reached *)
(* the cloud since it started takes itself for a writer of the whole group *)
(* and writes that scope's row.                                            *)
Persist(known, mode, dead, contact) ==
    IF known
    THEN /\ state' = [mode |-> Refreshed(mode, dead), dead |-> dead,
                      contact |-> contact]
         /\ crossed' = FALSE
    ELSE UNCHANGED <<state, crossed>>

-----------------------------------------------------------------------------
(* run_once.                                                               *)

BeginCycle ==
    /\ worker.at = "rest"
    /\ worker' = [worker EXCEPT !.at = "contact", !.dead = DeadLetters]
    /\ UNCHANGED <<recordVars, link, sound, state, restarts, request, crossed>>

(* _heartbeat_and_lease, with the metrics read before.                     *)
Contact ==
    /\ worker.at = "contact"
    /\ \/ /\ link = "up"
          /\ Persist(TRUE, "synchronizing", worker.dead, "fresh")
          /\ worker' = [worker EXCEPT !.at = "pull", !.ready = TRUE,
                                      !.known = TRUE, !.dead = FALSE]
       \/ /\ link = "down"
          /\ Persist(worker.known, "offline_local", worker.dead, state.contact)
          /\ worker' = [worker EXCEPT !.at = "pull", !.ready = FALSE,
                                      !.dead = FALSE]
       \/ /\ link = "refused"
          /\ Persist(worker.known, "attention_required", worker.dead,
                     state.contact)
          /\ worker' = [worker EXCEPT !.at = "pull", !.ready = FALSE,
                                      !.dead = FALSE]
    /\ UNCHANGED <<recordVars, link, sound, restarts, request>>

(* _pull_and_stage_commands; a pull that fails stages nothing.  Then the   *)
(* batches are fixed: the inbox's always, the outbox's if the cloud is     *)
(* ready.                                                                  *)
Pull(new) ==
    /\ worker.at = "pull"
    /\ \A r \in new : r \in inbound /\ queue[r] = "absent"
    /\ new # {} => worker.ready
    /\ queue' = [r \in Record |-> IF r \in new THEN "pending" ELSE queue[r]]
    /\ worker' = [worker EXCEPT !.at = "batch",
                    !.todo = {r \in Pending \cup new :
                                r \in inbound \/ worker.ready}]
    /\ UNCHANGED <<inbound, letters, link, sound, state, restarts, request,
                   crossed>>

(* One row of a batch: applied or sent, dead-lettered, or to be tried      *)
(* again, which its budget of attempts ends at last.                       *)
Process(r, outcome) ==
    /\ worker.at = "batch" /\ r \in worker.todo
    /\ queue' = [queue EXCEPT ![r] = outcome]
    /\ letters' = IF outcome = "dead" THEN letters \cup {r} ELSE letters
    /\ worker' = [worker EXCEPT !.todo = @ \ {r}]
    /\ UNCHANGED <<inbound, link, sound, state, restarts, request, crossed>>

(* The metrics after the batches.                                          *)
EndBatch ==
    /\ worker.at = "batch" /\ worker.todo = {}
    /\ worker' = IF worker.ready
                 THEN [worker EXCEPT !.at = "settle", !.dead = DeadLetters,
                                     !.drained = Pending = {}]
                 ELSE [AtRest(FALSE) EXCEPT !.known = worker.known]
    /\ UNCHANGED <<recordVars, link, sound, state, restarts, request, crossed>>

(* What those metrics call for: attention, another cycle, or               *)
(* _automatic_reconcile, which locks the row and reads the books.          *)
Settle ==
    /\ worker.at = "settle"
    /\ \/ /\ worker.dead
          /\ Persist(TRUE, "attention_required", TRUE, "fresh")
          /\ worker' = AtRest(TRUE)
       \/ /\ ~worker.dead /\ ~worker.drained
          /\ Persist(TRUE, "synchronizing", FALSE, "fresh")
          /\ worker' = AtRest(TRUE)
       \/ /\ ~worker.dead /\ worker.drained
          /\ worker' = [worker EXCEPT !.at = "reconcile", !.sound = sound]
          /\ UNCHANGED <<state, crossed>>
    /\ UNCHANGED <<recordVars, link, sound, restarts, request>>

(* run_reconciliation: clean if the books agreed and no letter is left;    *)
(* what is pending by now does not matter.                                 *)
Verdict(booksAgree) ==
    IF booksAgree /\ ~DeadLetters THEN "live" ELSE "attention_required"

EndReconcile ==
    /\ worker.at = "reconcile"
    /\ Persist(TRUE, Verdict(worker.sound), DeadLetters, state.contact)
    /\ worker' = AtRest(TRUE)
    /\ UNCHANGED <<recordVars, link, sound, restarts, request>>

(* The process is restarted: it forgets the scope the cloud told it.       *)
Restart ==
    /\ restarts < MaxRestarts
    /\ restarts' = restarts + 1
    /\ worker' = AtRest(FALSE)
    /\ UNCHANGED <<recordVars, link, sound, state, request, crossed>>

-----------------------------------------------------------------------------
(* The operators' requests.                                                *)

(* state_for_scope, then queue_metrics unless only the status is asked     *)
(* for, then the books of a reconciliation: read as one, written later.    *)
Load(o, kind) ==
    /\ request[o] = Idle
    /\ request' = [request EXCEPT ![o] =
                     [kind |-> kind, seen |-> state,
                      dead |-> DeadLetters /\ kind # "status",
                      sound |-> sound \/ kind # "reconcile"]]
    /\ UNCHANGED <<recordVars, link, sound, state, worker, restarts, crossed>>

(* A slip: what is stored is the age.                                      *)
AgedSlip(mode, contact) ==
    IF mode \in {"live", "synchronizing"} THEN contact ELSE mode

(* _apply_stale_state.                                                     *)
Aged(mode, contact) ==
    IF mode \in {"live", "synchronizing"} /\ contact # "fresh"
    THEN "stale" ELSE mode

(* The mode a request leaves in its row: first the one it flushes, then    *)
(* the one it commits.                                                     *)
FirstMode(q) ==
    CASE q.kind = "status" -> q.seen.mode
      [] q.kind = "view" -> Refreshed(q.seen.mode, q.dead)
      [] q.kind = "reconcile" ->
           IF q.sound /\ ~q.dead THEN "live" ELSE "attention_required"

LastMode(q) ==
    IF q.kind = "reconcile"
    THEN IF FirstMode(q) = "live" /\ q.seen.contact = "never"
         THEN "offline_local" ELSE FirstMode(q)
    ELSE Aged(FirstMode(q), q.seen.contact)

(* The flush and the commit.                                               *)
Answer(o) ==
    /\ request[o] # Idle
    /\ worker.at # "reconcile"
    /\ LET q == request[o]
           modeWritten == \/ FirstMode(q) # q.seen.mode
                          \/ LastMode(q) # FirstMode(q)
           deadWritten == q.kind # "status" /\ q.dead # q.seen.dead
       IN /\ state' = [mode |-> IF modeWritten THEN LastMode(q) ELSE state.mode,
                       dead |-> IF deadWritten THEN q.dead ELSE state.dead,
                       contact |-> state.contact]
          /\ crossed' = \/ crossed \/ state # q.seen
                        \/ q.kind # "status" /\ q.dead # DeadLetters
    /\ request' = [request EXCEPT ![o] = Idle]
    /\ UNCHANGED <<recordVars, link, sound, worker, restarts>>

(* retry_failed_sync, whatever became of the row since.                    *)
RetryLetter(r) ==
    /\ r \in letters
    /\ queue' = [queue EXCEPT ![r] = "pending"]
    /\ UNCHANGED <<inbound, letters, link, sound, state, worker, restarts,
                   request, crossed>>

-----------------------------------------------------------------------------
(* The surroundings.                                                       *)

(* A local transaction leaves an event for the cloud.                      *)
Enqueue(r) ==
    /\ r \notin inbound /\ queue[r] = "absent"
    /\ queue' = [queue EXCEPT ![r] = "pending"]
    /\ UNCHANGED <<inbound, letters, link, sound, state, worker, restarts,
                   request, crossed>>

SetLink(answer) ==
    /\ link # answer /\ link' = answer
    /\ UNCHANGED <<recordVars, sound, state, worker, restarts, request, crossed>>

(* An invoice, an order or a session falls out of step, or is put right.   *)
SetBooks ==
    /\ sound' = ~sound
    /\ UNCHANGED <<recordVars, link, state, worker, restarts, request, crossed>>

(* The heartbeat is older than continuity_stale_after_seconds, or the      *)
(* lease has lapsed.                                                       *)
ContactAges ==
    /\ state.contact = "fresh"
    /\ state' = [state EXCEPT !.contact = "old"]
    /\ UNCHANGED <<recordVars, link, sound, worker, restarts, request, crossed>>

-----------------------------------------------------------------------------
Outcome == {"done", "dead", "pending"}
RowSettled(r) == Process(r, "done") \/ Process(r, "dead")

CycleStep ==
    \/ BeginCycle \/ Contact \/ EndBatch \/ Settle \/ EndReconcile
    \/ \E new \in SUBSET inbound : Pull(new)
    \/ \E r \in Record, outcome \in Outcome : Process(r, outcome)

ModeNext ==
    \/ CycleStep
    \/ Restart
    \/ \E o \in Operator :
         \/ \E kind \in {"view", "status", "reconcile"} : Load(o, kind)
         \/ Answer(o)
    \/ \E r \in Record : RetryLetter(r)
    \/ \E r \in Record : Enqueue(r)
    \/ \E answer \in {"up", "down", "refused"} : SetLink(answer)
    \/ SetBooks
    \/ ContactAges

ModeSpec == ModeInit /\ [][ModeNext]_modeVars

(* run_forever keeps running cycles, and a row that is tried again and     *)
(* again is settled, by its budget of attempts if nothing else (see        *)
(* RowsSettle of DurableInbox).  Nothing else is obliged to happen.        *)
ModeFairSpec == /\ ModeSpec
                /\ WF_modeVars(CycleStep)
                /\ \A r \in Record : SF_modeVars(RowSettled(r))

-----------------------------------------------------------------------------
(* Properties.                                                             *)

(* Whenever the row counts dead letters it asks for attention, unless a    *)
(* request wrote it that the worker, or a new letter, had overtaken: the   *)
(* worker and the viewers never leave a count beside another mode          *)
(* (refresh_state_metrics, _persist_state).                                *)
AttentionShown ==
    state.dead /\ ~crossed => state.mode = "attention_required"

(* After its report of a cycle that reached the cloud, and after its       *)
(* contact in any cycle, the worker has not left the scope live beside a   *)
(* dead letter: only one that does not know its scope, or a request that   *)
(* was overtaken, can (run_once, reconcile).                               *)
LiveHidesNothing ==
    /\ worker.known /\ ~crossed
    /\ \/ worker.at = "pull"
       \/ worker.at \in {"rest", "contact"} /\ worker.ready
    => ~(state.mode = "live" /\ letters # {})

(* A dead letter is shown and stays shown: once one exists and the worker  *)
(* knows its scope, the mode ends up as attention_required for good,       *)
(* whatever requests crossed it, and a manual retry that succeeds does not *)
(* end it, because no letter is ever resolved (queue_metrics).  So it is   *)
(* enough that there is a letter once: AttentionNeedsOneLetter in          *)
(* DurableInboxProofs.                                                     *)
LettersHoldAttention ==
    <>[](worker.known /\ letters # {}) => <>[](state.mode = "attention_required")

(* The worker gets the scope back to live: if from some time on the cloud  *)
(* answers, the books agree and there is no letter, it reports live again  *)
(* and again, whatever stale or crossed requests wrote in between          *)
(* (run_once, _automatic_reconcile).                                       *)
LiveAgain ==
    <>[](link = "up" /\ sound /\ letters = {}) => []<>(state.mode = "live")

(* The mode tells the truth about dead letters, but for a request that   *)
(* something had overtaken: it asks for attention whenever the row counts*)
(* letters, and the worker leaves no letter under a live mode.           *)
ModeTellsTruth == ModeTypeOK /\ AttentionShown /\ LiveHidesNothing
=============================================================================
