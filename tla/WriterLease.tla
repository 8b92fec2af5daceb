----------------------------- MODULE WriterLease -----------------------------
(***************************************************************************)
(* The writer lease of one scope and the continuity references it fences:  *)
(* the cloud's lease row and reference queue (api/routes/hc4_cloud.py,     *)
(* cloud_gateway.py, hc3_cloud.py), the cycle of the hubs' sync workers    *)
(* (sync/worker.py) and the handler that records a reference on a hub      *)
(* (services/continuity.py).                                               *)
(*                                                                         *)
(* Requests may be lost, their answers may be lost, and a request the hub  *)
(* has given up on may still be executed later.  An answer that arrives is *)
(* used in the step in which the cloud gives it: a hub waits at most 15    *)
(* seconds for it, a lease lasts longer, and nobody reads a hub's memory   *)
(* in between.  Clocks are abstracted: `live' says whether the cloud sees  *)
(* lease_expires_at in its future, and a hub, whose clock may differ, may  *)
(* think either.  The worker never calls lease/renew, so it is left out.   *)
(* The hubs' configured scope is the one they are registered for.          *)
(***************************************************************************)
EXTENDS Naturals, FiniteSets

CONSTANTS Hub,        \* devices registered for the scope
          NoHub,      \* the owner of a lease nobody holds
          Reference,  \* continuity references devices may create
          MaxEpoch,   \* bound of the model: epochs the lease goes through
          MaxLost,    \* bound of the model: acquire answers that get lost
          MaxDrops,   \* bound of the model: requests that never arrive
          MaxLate,    \* bound of the model: abandoned requests executed late
          MaxRestarts \* bound of the model: worker restarts

ASSUME LeaseAssumption == NoHub \notin Hub

VARIABLES
    lease,      \* cloud: the writer_leases row; epoch 0 means no row
    created,    \* cloud: the epoch a reference was accepted under, or 0
    late,       \* network: acquire requests abandoned but not yet executed
    epoch,      \* worker memory: LocalSyncWorker.fencing_epoch
    phase,      \* worker memory: where run_once stands
    connected,  \* worker memory: cloud_ready of the latest heartbeat
    local,      \* hub database: ContinuityState.fencing_epoch
    staged,     \* hub database: reference commands waiting in the inbox
    recorded,   \* hub database: ContinuityTransactionReceipt rows
    refused,    \* hub database: references dead-lettered as stale
    granted,    \* history: the epochs the cloud has granted to each hub
    faults      \* history: how often each kind of fault has happened

cloud == <<lease, created>>
memory == <<epoch, phase, connected>>
database == <<local, staged, recorded, refused>>
vars == <<cloud, late, memory, database, granted, faults>>

FaultType == [lost : Nat, dropped : Nat, late : Nat, restarts : Nat]

TypeOK ==
    /\ lease \in [owner : Hub \cup {NoHub}, epoch : Nat, live : BOOLEAN]
    /\ created \in [Reference -> Nat]
    /\ late \subseteq [hub : Hub, claimed : Nat]
    /\ epoch \in [Hub -> Nat]
    /\ phase \in [Hub -> {"idle", "acquiring", "pull", "drain"}]
    /\ connected \in [Hub -> BOOLEAN]
    /\ local \in [Hub -> Nat]
    /\ staged \in [Hub -> SUBSET Reference]
    /\ recorded \in [Hub -> SUBSET Reference]
    /\ refused \in [Hub -> SUBSET Reference]
    /\ granted \in [Hub -> SUBSET Nat]
    /\ faults \in FaultType

Init ==
    /\ lease = [owner |-> NoHub, epoch |-> 0, live |-> FALSE]
    /\ created = [r \in Reference |-> 0]
    /\ late = {}
    /\ epoch = [h \in Hub |-> 0]
    /\ phase = [h \in Hub |-> "idle"]
    /\ connected = [h \in Hub |-> FALSE]
    /\ local = [h \in Hub |-> 0]
    /\ staged = [h \in Hub |-> {}]
    /\ recorded = [h \in Hub |-> {}]
    /\ refused = [h \in Hub |-> {}]
    /\ granted = [h \in Hub |-> {}]
    /\ faults = [lost |-> 0, dropped |-> 0, late |-> 0, restarts |-> 0]

Fault(kind, max) ==
    /\ faults[kind] < max
    /\ faults' = [faults EXCEPT ![kind] = @ + 1]

-----------------------------------------------------------------------------
(* The cloud.                                                              *)

(* What lease/acquire does with the locked row for hub h when it does not  *)
(* refuse.  Slip first: a takeover keeps the epoch.                        *)
GrantKeepsEpoch(h) ==
    LET n == IF lease.epoch = 0 THEN 1 ELSE lease.epoch IN
    /\ lease' = [owner |-> h, epoch |-> n, live |-> TRUE]
    /\ granted' = [granted EXCEPT ![h] = @ \cup {n}]

Grant(h) ==
    LET n == IF lease.live /\ lease.owner = h THEN lease.epoch
                                              ELSE lease.epoch + 1 IN
    /\ lease' = [owner |-> h, epoch |-> n, live |-> TRUE]
    /\ granted' = [granted EXCEPT ![h] = @ \cup {n}]

(* The two 409 answers of lease/acquire.  Slip: the first is forgotten.    *)
RefusedClaimOnly(h, claimed) ==
    lease.live /\ lease.owner = h /\ claimed \notin {0, lease.epoch}

Refused(h, claimed) ==
    lease.live /\ (lease.owner # h \/ claimed \notin {0, lease.epoch})

(* The heartbeat's 409: only a lease the device itself owns is looked at,  *)
(* expired or not.  Slip: a freshly started worker is not let through.     *)
HeartbeatRefusedZero(h) == lease.owner = h /\ epoch[h] # lease.epoch

HeartbeatRefused(h) == lease.owner = h /\ epoch[h] \notin {0, lease.epoch}

(* lease_expires_at passes.                                              *)
LeaseExpires ==
    /\ lease.live
    /\ lease.epoch < MaxEpoch
    /\ lease' = [lease EXCEPT !.live = FALSE]
    /\ UNCHANGED <<created, late, memory, database, granted, faults>>

(* A device of the scope creates a reference: its epoch must be the row's; *)
(* the row's owner and expiry are not looked at.  A replay of the same     *)
(* reference changes nothing.                                              *)
CreateReference(r) ==
    /\ created[r] = 0
    /\ lease.epoch > 0
    /\ created' = [created EXCEPT ![r] = lease.epoch]
    /\ UNCHANGED <<lease, late, memory, database, granted, faults>>

-----------------------------------------------------------------------------
(* The worker's cycle, run_once.                                           *)

(* _heartbeat_and_lease ends: _persist_state copies the worker's epoch,    *)
(* whatever it is, and the cycle goes on with or without the cloud.        *)
Conclude(h, n, ready) ==
    /\ epoch' = [epoch EXCEPT ![h] = n]
    /\ local' = [local EXCEPT ![h] = n]
    /\ connected' = [connected EXCEPT ![h] = ready]
    /\ phase' = [phase EXCEPT ![h] = IF ready THEN "pull" ELSE "drain"]
    /\ UNCHANGED <<staged, recorded, refused>>

(* The signed heartbeat is answered: refused for its epoch (attention      *)
(* required), with an own lease that the hub takes to be active, or with   *)
(* anything else, after which the hub asks for the lease.                  *)
Heartbeat(h) ==
    /\ phase[h] = "idle"
    /\ \/ HeartbeatRefused(h) /\ Conclude(h, epoch[h], FALSE)
       \/ ~HeartbeatRefused(h) /\ lease.owner = h /\ Conclude(h, lease.epoch, TRUE)
       \/ /\ ~HeartbeatRefused(h)
          /\ phase' = [phase EXCEPT ![h] = "acquiring"]
          /\ UNCHANGED <<epoch, connected, database>>
    /\ UNCHANGED <<cloud, late, granted, faults>>

(* The heartbeat, or its answer, is lost: offline_local.                 *)
HeartbeatLost(h) ==
    /\ phase[h] = "idle"
    /\ Fault("dropped", MaxDrops)
    /\ Conclude(h, epoch[h], FALSE)
    /\ UNCHANGED <<cloud, late, granted>>

(* lease/acquire is executed and its answer arrives.                     *)
Acquire(h) ==
    /\ phase[h] = "acquiring"
    /\ \/ /\ ~Refused(h, epoch[h])
          /\ Grant(h)
          /\ Conclude(h, lease'.epoch, TRUE)
       \/ /\ Refused(h, epoch[h])
          /\ Conclude(h, epoch[h], FALSE)
          /\ UNCHANGED <<lease, granted>>
    /\ UNCHANGED <<created, late, faults>>

(* lease/acquire is executed and its answer is lost.                     *)
AcquireUnanswered(h) ==
    /\ phase[h] = "acquiring"
    /\ ~Refused(h, epoch[h])
    /\ Fault("lost", MaxLost)
    /\ Grant(h)
    /\ Conclude(h, epoch[h], FALSE)
    /\ UNCHANGED <<created, late>>

(* The hub gives up on an acquire request the cloud has not executed yet.  *)
AcquireAbandoned(h) ==
    /\ phase[h] = "acquiring"
    /\ Fault("late", MaxLate)
    /\ late' = late \cup {[hub |-> h, claimed |-> epoch[h]]}
    /\ Conclude(h, epoch[h], FALSE)
    /\ UNCHANGED <<cloud, granted>>

(* ... and the cloud executes it after all.                              *)
LateAcquire(m) ==
    /\ late' = late \ {m}
    /\ \/ ~Refused(m.hub, m.claimed) /\ Grant(m.hub)
       \/ Refused(m.hub, m.claimed) /\ UNCHANGED <<lease, granted>>
    /\ UNCHANGED <<created, memory, database, faults>>

(* _pull_and_stage_commands: commands stay pending in the cloud, so what   *)
(* was staged before comes again and is recognised.  A failed pull stages  *)
(* nothing and the cycle goes on.                                          *)
Pull(h) ==
    /\ phase[h] = "pull"
    /\ \/ staged' = [staged EXCEPT ![h] =
              @ \cup ({r \in Reference : created[r] > 0}
                          \ (recorded[h] \cup refused[h]))]
       \/ UNCHANGED staged
    /\ phase' = [phase EXCEPT ![h] = "drain"]
    /\ UNCHANGED <<cloud, late, epoch, connected, local, recorded, refused,
                   granted, faults>>

(* process_inbox_batch hands a staged reference to its handler, which      *)
(* compares the reference's epoch with the stored one.  Slip: it does not. *)
CurrentHereUnchecked(h, r) == TRUE
CurrentHere(h, r) == created[r] = local[h]

ApplyReference(h, r) ==
    /\ phase[h] = "drain"
    /\ r \in staged[h]
    /\ staged' = [staged EXCEPT ![h] = @ \ {r}]
    /\ IF CurrentHere(h, r)
       THEN recorded' = [recorded EXCEPT ![h] = @ \cup {r}] /\ UNCHANGED refused
       ELSE refused' = [refused EXCEPT ![h] = @ \cup {r}] /\ UNCHANGED recorded
    /\ UNCHANGED <<cloud, late, memory, local, granted, faults>>

(* The batch is done; the final _persist_state or reconciliation stores    *)
(* the worker's epoch once more.                                           *)
EndCycle(h) ==
    /\ phase[h] = "drain"
    /\ staged[h] = {}
    /\ local' = [local EXCEPT ![h] = epoch[h]]
    /\ phase' = [phase EXCEPT ![h] = "idle"]
    /\ UNCHANGED <<cloud, late, epoch, connected, staged, recorded, refused,
                   granted, faults>>

(* An operator's retry_dead_letter puts a refused reference back; during a *)
(* batch that has no effect before the next one.                           *)
RetryRefused(h, r) ==
    /\ r \in refused[h]
    /\ phase[h] # "drain"
    /\ refused' = [refused EXCEPT ![h] = @ \ {r}]
    /\ staged' = [staged EXCEPT ![h] = @ \cup {r}]
    /\ UNCHANGED <<cloud, late, memory, local, recorded, granted, faults>>

(* The worker process is restarted: fencing_epoch starts at 0 again.       *)
(* Slip: it starts as None.                                                *)
RestartAtNone(h) ==
    /\ Fault("restarts", MaxRestarts)
    /\ epoch' = [epoch EXCEPT ![h] = NoHub]
    /\ phase' = [phase EXCEPT ![h] = "idle"]
    /\ connected' = [connected EXCEPT ![h] = FALSE]
    /\ UNCHANGED <<cloud, late, database, granted>>

Restart(h) ==
    /\ Fault("restarts", MaxRestarts)
    /\ epoch' = [epoch EXCEPT ![h] = 0]
    /\ phase' = [phase EXCEPT ![h] = "idle"]
    /\ connected' = [connected EXCEPT ![h] = FALSE]
    /\ UNCHANGED <<cloud, late, database, granted>>

Cycle(h) ==
    \/ Heartbeat(h)
    \/ Acquire(h)
    \/ Pull(h)
    \/ \E r \in Reference : ApplyReference(h, r)
    \/ EndCycle(h)

Next ==
    \/ LeaseExpires
    \/ \E r \in Reference : CreateReference(r)
    \/ \E m \in late : LateAcquire(m)
    \/ \E h \in Hub :
          \/ Cycle(h)
          \/ HeartbeatLost(h)
          \/ AcquireUnanswered(h)
          \/ AcquireAbandoned(h)
          \/ \E r \in Reference : RetryRefused(h, r)
          \/ Restart(h)

Spec == Init /\ [][Next]_vars

(* run_forever keeps running cycles; nothing else is obliged to happen.  *)
FairSpec == Spec /\ \A h \in Hub : WF_vars(Cycle(h))

-----------------------------------------------------------------------------
(* Properties.                                                             *)

(* Fencing: no hub is ahead of the cloud's row, and the hub at the row's   *)
(* epoch is the row's owner, whatever answers were lost, delayed or        *)
(* forgotten in a restart.  The stored epoch a reference is compared with  *)
(* obeys the same rule.                                                    *)
FencedOut ==
    \A h \in Hub : \A n \in {epoch[h], local[h]} :
        /\ n <= lease.epoch
        /\ n = lease.epoch /\ n > 0 => lease.owner = h

(* No two hubs ever work under the same fencing epoch, in memory or in     *)
(* their databases.                                                        *)
EpochsExclusive ==
    \A g, h \in Hub : g # h =>
        ({epoch[g], local[g]} \cap {epoch[h], local[h]}) \subseteq {0}

(* A continuity reference (an emergency payment, say) is recorded by at    *)
(* most one hub, although every device of the scope pulls its command.     *)
RecordedOnce ==
    \A r \in Reference : Cardinality({h \in Hub : r \in recorded[h]}) <= 1

(* An active lease changes hands only by running out, and the epoch grows  *)
(* with every new owner and never falls.                                   *)
TakeoverNeedsExpiry ==
    [][/\ lease'.epoch >= lease.epoch
       /\ lease'.owner # lease.owner =>
              ~lease.live /\ lease'.epoch > lease.epoch]_vars

(* A hub that keeps cycling gets through to the cloud again and again,     *)
(* unless another hub has the lease.                                       *)
Reconnects ==
    \A h \in Hub : []<>(connected[h] \/ lease.owner \notin {h, NoHub})
=============================================================================
