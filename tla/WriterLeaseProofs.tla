-------------------------- MODULE WriterLeaseProofs --------------------------
(***************************************************************************)
(* What is proved of WriterLease for every set of hubs and references and  *)
(* any number of faults: type correctness, fencing, exclusive epochs and   *)
(* that at most one hub records a reference.                               *)
(*                                                                         *)
(* None of these is inductive.  A hub's memory and its database may lag    *)
(* any number of epochs behind the lease, and what it recorded may be      *)
(* older still, so the invariant speaks of every epoch ever granted: the   *)
(* grants of different hubs are disjoint, none is above the lease, the     *)
(* lease's is its owner's, and all a hub knows was granted to it.          *)
(***************************************************************************)
EXTENDS WriterLease, FiniteSetTheorems, TLAPS

LeaseGranted ==
    /\ lease.epoch > 0 => lease.owner \in Hub /\ lease.epoch \in granted[lease.owner]
    /\ lease.live => lease.epoch > 0
    /\ lease.owner \in Hub => lease.epoch > 0

GrantsBelow == \A h \in Hub : \A n \in granted[h] : n > 0 /\ n <= lease.epoch

GrantsDisjoint == \A g, h \in Hub : g # h => granted[g] \cap granted[h] = {}

KnownWasGranted == \A h \in Hub : {epoch[h], local[h]} \subseteq granted[h] \cup {0}

OnlyCreated ==
    \A h \in Hub : \A r \in staged[h] \cup recorded[h] \cup refused[h] : created[r] > 0

RecordedUnderGrant == \A h \in Hub : \A r \in recorded[h] : created[r] \in granted[h]

IInv == /\ TypeOK /\ LeaseGranted /\ GrantsBelow /\ GrantsDisjoint
        /\ KnownWasGranted /\ OnlyCreated /\ RecordedUnderGrant

USE LeaseAssumption

-----------------------------------------------------------------------------
(* At first no lease is granted and no hub works.                          *)
LEMMA InitInv == Init => IInv
BY DEF Init, IInv, TypeOK, FaultType, LeaseGranted, GrantsBelow, GrantsDisjoint,
       KnownWasGranted, OnlyCreated, RecordedUnderGrant

(* A grant is a fresh epoch, or the owner's own once more.                 *)
LEMMA GrantStep ==
    ASSUME IInv, NEW h \in Hub, NEW c, ~Refused(h, c), Grant(h)
    PROVE  /\ lease' \in [owner : Hub \cup {NoHub}, epoch : Nat, live : BOOLEAN]
           /\ granted' \in [Hub -> SUBSET Nat]
           /\ lease'.owner = h /\ lease'.epoch \in granted'[h] /\ lease'.epoch > 0
           /\ lease'.epoch >= lease.epoch
           /\ granted'[h] = granted[h] \cup {lease'.epoch}
           /\ \A g \in Hub \ {h} : /\ granted'[g] = granted[g]
                                   /\ lease'.epoch \notin granted[g]
<1> DEFINE n == IF lease.live /\ lease.owner = h THEN lease.epoch ELSE lease.epoch + 1
<1>1. /\ lease \in [owner : Hub \cup {NoHub}, epoch : Nat, live : BOOLEAN]
      /\ granted \in [Hub -> SUBSET Nat]
  BY DEF IInv, TypeOK
<1>2. /\ n \in Nat /\ n > 0 /\ n >= lease.epoch
  BY <1>1 DEF IInv, LeaseGranted
<1>3. \A g \in Hub \ {h} : n \notin granted[g]
  <2>1. CASE lease.live /\ lease.owner = h
    BY <1>1, <2>1 DEF IInv, LeaseGranted, GrantsDisjoint
  <2>2. CASE ~(lease.live /\ lease.owner = h)
    BY <1>1, <2>2 DEF IInv, GrantsBelow
  <2> QED
    BY <2>1, <2>2
<1>4. /\ lease' = [owner |-> h, epoch |-> n, live |-> TRUE]
      /\ granted' = [granted EXCEPT ![h] = @ \cup {n}]
  BY DEF Grant
<1> HIDE DEF n
<1> QED
  BY <1>1, <1>2, <1>3, <1>4

(* After a grant the cloud's part of the invariant holds again, and what a *)
(* hub was granted it still is.                                            *)
LEMMA GrantKeeps ==
    ASSUME IInv, NEW h \in Hub, NEW c, ~Refused(h, c), Grant(h)
    PROVE  /\ LeaseGranted' /\ GrantsBelow' /\ GrantsDisjoint'
           /\ \A g \in Hub : granted[g] \subseteq granted'[g]
<1>1. /\ lease' \in [owner : Hub \cup {NoHub}, epoch : Nat, live : BOOLEAN]
      /\ granted' \in [Hub -> SUBSET Nat]
      /\ lease'.owner = h /\ lease'.epoch \in granted'[h] /\ lease'.epoch > 0
      /\ lease'.epoch >= lease.epoch
      /\ granted'[h] = granted[h] \cup {lease'.epoch}
      /\ \A g \in Hub \ {h} : /\ granted'[g] = granted[g]
                              /\ lease'.epoch \notin granted[g]
  BY GrantStep
<1>2. lease.epoch \in Nat /\ granted \in [Hub -> SUBSET Nat]
  BY DEF IInv, TypeOK
<1>3. LeaseGranted'
  BY <1>1 DEF LeaseGranted
<1>4. GrantsBelow'
  <2> SUFFICES ASSUME NEW g \in Hub, NEW n \in granted'[g]
               PROVE  n > 0 /\ n <= lease'.epoch
    BY DEF GrantsBelow
  <2>1. n = lease'.epoch \/ n \in granted[g]
    BY <1>1
  <2>2. n \in granted[g] => n > 0 /\ n <= lease.epoch /\ n \in Nat
    BY <1>2 DEF IInv, GrantsBelow
  <2> QED
    BY <1>1, <1>2, <2>1, <2>2
<1>5. GrantsDisjoint'
  BY <1>1 DEF IInv, GrantsDisjoint
<1> QED
  BY <1>1, <1>3, <1>4, <1>5

(* What _heartbeat_and_lease leaves on the hub.                            *)
LEMMA ConcludeKeeps ==
    ASSUME TypeOK, KnownWasGranted, OnlyCreated, RecordedUnderGrant,
           NEW h \in Hub, NEW n \in Nat, NEW ready \in BOOLEAN, Conclude(h, n, ready),
           created' = created, granted' \in [Hub -> SUBSET Nat],
           \A g \in Hub : granted[g] \subseteq granted'[g],
           n \in granted'[h] \cup {0}
    PROVE  /\ epoch' \in [Hub -> Nat] /\ local' \in [Hub -> Nat]
           /\ connected' \in [Hub -> BOOLEAN]
           /\ phase' \in [Hub -> {"idle", "acquiring", "pull", "drain"}]
           /\ UNCHANGED <<staged, recorded, refused>>
           /\ KnownWasGranted' /\ OnlyCreated' /\ RecordedUnderGrant'
<1>1. /\ epoch' = [epoch EXCEPT ![h] = n] /\ local' = [local EXCEPT ![h] = n]
      /\ UNCHANGED <<staged, recorded, refused>>
  BY DEF Conclude
<1>2. /\ epoch' \in [Hub -> Nat] /\ local' \in [Hub -> Nat]
      /\ epoch'[h] = n /\ local'[h] = n
      /\ \A g \in Hub \ {h} : epoch'[g] = epoch[g] /\ local'[g] = local[g]
  BY <1>1 DEF TypeOK
<1>3. /\ connected' \in [Hub -> BOOLEAN]
      /\ phase' \in [Hub -> {"idle", "acquiring", "pull", "drain"}]
  BY DEF Conclude, TypeOK
<1>4. KnownWasGranted'
  BY <1>2 DEF KnownWasGranted
<1>5. OnlyCreated' /\ RecordedUnderGrant'
  BY <1>1 DEF OnlyCreated, RecordedUnderGrant
<1> QED
  BY <1>1, <1>2, <1>3, <1>4, <1>5

(* Faults are counted by kind.                                             *)
LEMMA FaultKeeps ==
    ASSUME TypeOK, NEW kind \in {"lost", "dropped", "late", "restarts"}, NEW max,
           Fault(kind, max)
    PROVE  faults' \in FaultType
BY DEF TypeOK, Fault, FaultType

-----------------------------------------------------------------------------
(* Each action preserves the invariant.                                    *)

(* What an action that leaves the lease and the grants alone must show.    *)
CloudPart == LeaseGranted /\ GrantsBelow /\ GrantsDisjoint
HubPart == KnownWasGranted /\ OnlyCreated /\ RecordedUnderGrant

(* Steps that leave the lease row and the grants alone.                    *)
LEMMA CloudUnchanged ==
    ASSUME IInv, UNCHANGED <<lease, granted>>
    PROVE  CloudPart'
BY DEF IInv, CloudPart, LeaseGranted, GrantsBelow, GrantsDisjoint

(* Steps that leave the hubs alone: more grants do no harm.                *)
LEMMA HubsUnchanged ==
    ASSUME IInv, UNCHANGED <<created, epoch, local, staged, recorded, refused>>,
           \A g \in Hub : granted[g] \subseteq granted'[g]
    PROVE  HubPart'
BY DEF IInv, HubPart, KnownWasGranted, OnlyCreated, RecordedUnderGrant

(* A heartbeat, answered or not.                                           *)
LEMMA HeartbeatPreserves ==
    ASSUME IInv, NEW h \in Hub, Heartbeat(h) \/ HeartbeatLost(h)
    PROVE  IInv'
<1>1. UNCHANGED <<cloud, late, granted>> /\ faults' \in FaultType
  BY FaultKeeps DEF Heartbeat, HeartbeatLost, IInv, TypeOK
<1>2. CloudPart'
  BY <1>1, CloudUnchanged DEF cloud
<1>3. CASE \E n \in {epoch[h], lease.epoch} : \E ready \in BOOLEAN :
              Conclude(h, n, ready) /\ (n = epoch[h] \/ lease.owner = h)
  <2>1. PICK n \in {epoch[h], lease.epoch}, ready \in BOOLEAN :
            Conclude(h, n, ready) /\ (n = epoch[h] \/ lease.owner = h)
    BY <1>3
  <2>2. n \in Nat /\ n \in granted[h] \cup {0}
    BY <2>1 DEF IInv, TypeOK, KnownWasGranted, LeaseGranted
  <2> QED
    BY <1>1, <1>2, <2>1, <2>2, ConcludeKeeps DEF IInv, TypeOK, CloudPart, cloud
<1>4. CASE UNCHANGED <<epoch, connected, database>>
           /\ phase' = [phase EXCEPT ![h] = "acquiring"]
  <2>1. HubPart'
    BY <1>1, <1>4, HubsUnchanged DEF cloud, database
  <2>2. phase' \in [Hub -> {"idle", "acquiring", "pull", "drain"}]
    BY <1>4 DEF IInv, TypeOK
  <2> QED
    BY <1>1, <1>2, <1>4, <2>1, <2>2 DEF IInv, TypeOK, CloudPart, HubPart, cloud, database
<1> QED
  BY <1>3, <1>4 DEF Heartbeat, HeartbeatLost

(* An acquire, answered, unanswered or given up by its sender.             *)
LEMMA AcquirePreserves ==
    ASSUME IInv, NEW h \in Hub, Acquire(h) \/ AcquireUnanswered(h) \/ AcquireAbandoned(h)
    PROVE  IInv'
<1>1. created' = created /\ faults' \in FaultType
  BY FaultKeeps DEF Acquire, AcquireUnanswered, AcquireAbandoned, cloud, IInv, TypeOK
<1>2. late' \subseteq [hub : Hub, claimed : Nat]
  <2>1. [hub |-> h, claimed |-> epoch[h]] \in [hub : Hub, claimed : Nat]
    BY DEF IInv, TypeOK
  <2>2. late \subseteq [hub : Hub, claimed : Nat]
    BY DEF IInv, TypeOK
  <2> QED
    BY <2>1, <2>2 DEF Acquire, AcquireUnanswered, AcquireAbandoned
<1>3. TypeOK /\ HubPart /\ epoch[h] \in Nat /\ epoch[h] \in granted[h] \cup {0}
  BY DEF IInv, TypeOK, HubPart, KnownWasGranted
<1>4. CASE \E n \in {epoch[h], lease'.epoch} : \E ready \in BOOLEAN :
              ~Refused(h, epoch[h]) /\ Grant(h) /\ Conclude(h, n, ready)
  <2>1. PICK n \in {epoch[h], lease'.epoch}, ready \in BOOLEAN :
            ~Refused(h, epoch[h]) /\ Grant(h) /\ Conclude(h, n, ready)
    BY <1>4
  <2>2. /\ lease' \in [owner : Hub \cup {NoHub}, epoch : Nat, live : BOOLEAN]
        /\ granted' \in [Hub -> SUBSET Nat] /\ lease'.epoch \in granted'[h]
    BY <2>1, GrantStep
  <2>3. CloudPart' /\ \A g \in Hub : granted[g] \subseteq granted'[g]
    BY <2>1, GrantKeeps DEF CloudPart
  <2>4. n \in Nat /\ n \in granted'[h] \cup {0}
    BY <1>3, <2>1, <2>2, <2>3
  <2> QED
    BY <1>1, <1>2, <1>3, <2>1, <2>2, <2>3, <2>4, ConcludeKeeps
       DEF IInv, TypeOK, CloudPart, HubPart
<1>5. CASE UNCHANGED <<lease, granted>> /\ Conclude(h, epoch[h], FALSE)
  <2>1. CloudPart'
    BY <1>5, CloudUnchanged
  <2> QED
    BY <1>1, <1>2, <1>3, <1>5, <2>1, ConcludeKeeps DEF IInv, TypeOK, CloudPart, HubPart
<1>6. ASSUME Acquire(h) PROVE IInv'
  BY <1>4, <1>5, <1>6 DEF Acquire
<1>7. ASSUME AcquireUnanswered(h) PROVE IInv'
  BY <1>4, <1>7 DEF AcquireUnanswered
<1>8. ASSUME AcquireAbandoned(h) PROVE IInv'
  BY <1>5, <1>8 DEF AcquireAbandoned, cloud
<1> QED
  BY <1>6, <1>7, <1>8

(* An acquire carried out after its sender has given it up.                *)
LEMMA LatePreserves ==
    ASSUME IInv, NEW m \in late, LateAcquire(m)
    PROVE  IInv'
<1>1. m.hub \in Hub /\ late' \subseteq [hub : Hub, claimed : Nat]
      /\ UNCHANGED <<created, memory, database, faults>>
  BY DEF LateAcquire, IInv, TypeOK
<1>2. CASE ~Refused(m.hub, m.claimed) /\ Grant(m.hub)
  <2>1. /\ lease' \in [owner : Hub \cup {NoHub}, epoch : Nat, live : BOOLEAN]
        /\ granted' \in [Hub -> SUBSET Nat]
    BY <1>1, <1>2, GrantStep
  <2>2. CloudPart' /\ \A g \in Hub : granted[g] \subseteq granted'[g]
    BY <1>1, <1>2, GrantKeeps DEF CloudPart
  <2>3. HubPart'
    BY <1>1, <2>2, HubsUnchanged DEF memory, database
  <2> QED
    BY <1>1, <2>1, <2>2, <2>3 DEF IInv, TypeOK, CloudPart, HubPart, memory, database
<1>3. CASE UNCHANGED <<lease, granted>>
  <2>1. CloudPart' /\ HubPart'
    BY <1>1, <1>3, CloudUnchanged, HubsUnchanged DEF memory, database
  <2> QED
    BY <1>1, <1>3, <2>1 DEF IInv, TypeOK, CloudPart, HubPart, memory, database
<1> QED
  BY <1>2, <1>3 DEF LateAcquire

(* What the cloud does without a hub.                                      *)
LEMMA CloudPreserves ==
    ASSUME IInv, LeaseExpires \/ \E r \in Reference : CreateReference(r)
    PROVE  IInv'
<1>1. CASE LeaseExpires
  <2>1. /\ lease' \in [owner : Hub \cup {NoHub}, epoch : Nat, live : BOOLEAN]
        /\ lease'.owner = lease.owner /\ lease'.epoch = lease.epoch /\ ~lease'.live
        /\ UNCHANGED <<created, late, memory, database, granted, faults>>
    BY <1>1 DEF LeaseExpires, IInv, TypeOK
  <2>2. CloudPart'
    BY <2>1 DEF IInv, CloudPart, LeaseGranted, GrantsBelow, GrantsDisjoint
  <2>3. HubPart'
    BY <2>1, HubsUnchanged DEF memory, database
  <2> QED
    BY <2>1, <2>2, <2>3 DEF IInv, TypeOK, CloudPart, HubPart, memory, database
<1>2. ASSUME NEW r \in Reference, CreateReference(r) PROVE IInv'
  <2>1. /\ created' \in [Reference -> Nat] /\ created'[r] > 0 /\ created[r] = 0
        /\ \A s \in Reference \ {r} : created'[s] = created[s]
        /\ UNCHANGED <<lease, late, memory, database, granted, faults>>
    BY <1>2 DEF CreateReference, IInv, TypeOK
  <2>2. CloudPart'
    BY <2>1, CloudUnchanged
  <2>3. \A h \in Hub : r \notin staged[h] \cup recorded[h] \cup refused[h]
    BY <2>1 DEF IInv, OnlyCreated
  <2>4. HubPart'
    <3>1. KnownWasGranted'
      BY <2>1 DEF IInv, KnownWasGranted, memory, database
    <3>2. OnlyCreated'
      BY <2>1, <2>3 DEF IInv, OnlyCreated, TypeOK, database
    <3>3. RecordedUnderGrant'
      BY <2>1, <2>3 DEF IInv, RecordedUnderGrant, TypeOK, database
    <3> QED
      BY <3>1, <3>2, <3>3 DEF HubPart
  <2> QED
    BY <2>1, <2>2, <2>4 DEF IInv, TypeOK, CloudPart, HubPart, memory, database
<1> QED
  BY <1>1, <1>2

(* Pulling, applying, retrying, ending a cycle and restarting move         *)
(* references and epochs within one hub.                                   *)
LEMMA HubPreserves ==
    ASSUME IInv, NEW h \in Hub,
           \/ Pull(h) \/ EndCycle(h) \/ Restart(h)
           \/ \E r \in Reference : ApplyReference(h, r) \/ RetryRefused(h, r)
    PROVE  IInv'
<1>1. CASE Pull(h)
  <2>1. UNCHANGED <<cloud, late, epoch, connected, local, recorded, refused, granted, faults>>
        /\ phase' \in [Hub -> {"idle", "acquiring", "pull", "drain"}]
    BY <1>1 DEF Pull, IInv, TypeOK
  <2>2. /\ staged' \in [Hub -> SUBSET Reference]
        /\ \A g \in Hub : \A r \in staged'[g] : r \in staged[g] \/ created[r] > 0
    BY <1>1 DEF Pull, IInv, TypeOK
  <2>3. CloudPart'
    BY <2>1, CloudUnchanged DEF cloud
  <2>4. HubPart'
    BY <2>1, <2>2 DEF IInv, HubPart, KnownWasGranted, OnlyCreated, RecordedUnderGrant, cloud
  <2> QED
    BY <2>1, <2>2, <2>3, <2>4 DEF IInv, TypeOK, CloudPart, HubPart, cloud
<1>2. CASE EndCycle(h)
  <2>1. UNCHANGED <<cloud, late, epoch, connected, staged, recorded, refused, granted, faults>>
        /\ phase' \in [Hub -> {"idle", "acquiring", "pull", "drain"}]
        /\ local' = [local EXCEPT ![h] = epoch[h]] /\ local' \in [Hub -> Nat]
    BY <1>2 DEF EndCycle, IInv, TypeOK
  <2>2. CloudPart'
    BY <2>1, CloudUnchanged DEF cloud
  <2>3. HubPart'
    BY <2>1 DEF IInv, TypeOK, HubPart, KnownWasGranted, OnlyCreated, RecordedUnderGrant, cloud
  <2> QED
    BY <2>1, <2>2, <2>3 DEF IInv, TypeOK, CloudPart, HubPart, cloud
<1>3. CASE Restart(h)
  <2>1. /\ UNCHANGED <<cloud, late, database, granted>> /\ faults' \in FaultType
        /\ phase' \in [Hub -> {"idle", "acquiring", "pull", "drain"}]
        /\ epoch' = [epoch EXCEPT ![h] = 0] /\ epoch' \in [Hub -> Nat]
        /\ connected' \in [Hub -> BOOLEAN]
    BY <1>3, FaultKeeps DEF Restart, IInv, TypeOK
  <2>2. CloudPart'
    BY <2>1, CloudUnchanged DEF cloud
  <2>3. HubPart'
    BY <2>1 DEF IInv, TypeOK, HubPart, KnownWasGranted, OnlyCreated, RecordedUnderGrant,
                cloud, database
  <2> QED
    BY <2>1, <2>2, <2>3 DEF IInv, TypeOK, CloudPart, HubPart, cloud, database
<1>4. ASSUME NEW r \in Reference, ApplyReference(h, r) PROVE IInv'
  <2>1. /\ UNCHANGED <<cloud, late, memory, local, granted, faults>>
        /\ staged' \in [Hub -> SUBSET Reference]
        /\ recorded' \in [Hub -> SUBSET Reference]
        /\ refused' \in [Hub -> SUBSET Reference]
    BY <1>4 DEF ApplyReference, IInv, TypeOK
  <2>2. /\ r \in staged[h] /\ created[r] > 0
        /\ \A g \in Hub : staged'[g] \subseteq staged[g]
        /\ \A g \in Hub : refused'[g] \subseteq refused[g] \cup {r}
        /\ \A g \in Hub : recorded'[g] \subseteq recorded[g] \cup {r}
        /\ \A g \in Hub \ {h} : recorded'[g] = recorded[g]
        /\ CurrentHere(h, r) \/ recorded' = recorded
    BY <1>4 DEF ApplyReference, IInv, TypeOK, OnlyCreated
  <2>3. CloudPart'
    BY <2>1, CloudUnchanged DEF cloud
  <2>4. CurrentHere(h, r) => created[r] \in granted[h]
    BY <2>2 DEF CurrentHere, IInv, KnownWasGranted
  <2>5. HubPart'
    <3>1. KnownWasGranted'
      BY <2>1 DEF IInv, KnownWasGranted, memory
    <3>2. OnlyCreated'
      BY <2>1, <2>2 DEF IInv, OnlyCreated, cloud
    <3>3. RecordedUnderGrant'
      <4> SUFFICES ASSUME NEW g \in Hub, NEW s \in recorded'[g]
                   PROVE  created[s] \in granted[g]
        BY <2>1 DEF RecordedUnderGrant, cloud
      <4>1. CASE s \in recorded[g]
        BY <4>1 DEF IInv, RecordedUnderGrant
      <4>2. CASE s \notin recorded[g]
        BY <2>2, <2>4, <4>2
      <4> QED
        BY <4>1, <4>2
    <3> QED
      BY <3>1, <3>2, <3>3 DEF HubPart
  <2> QED
    BY <2>1, <2>3, <2>5 DEF IInv, TypeOK, CloudPart, HubPart, cloud, memory
<1>5. ASSUME NEW r \in Reference, RetryRefused(h, r) PROVE IInv'
  <2>1. /\ UNCHANGED <<cloud, late, memory, local, recorded, granted, faults>>
        /\ staged' \in [Hub -> SUBSET Reference]
        /\ refused' \in [Hub -> SUBSET Reference]
        /\ \A g \in Hub : staged'[g] \cup refused'[g] \subseteq staged[g] \cup refused[g]
    BY <1>5 DEF RetryRefused, IInv, TypeOK
  <2>2. CloudPart'
    BY <2>1, CloudUnchanged DEF cloud
  <2>3. HubPart'
    BY <2>1 DEF IInv, HubPart, KnownWasGranted, OnlyCreated, RecordedUnderGrant, cloud, memory
  <2> QED
    BY <2>1, <2>2, <2>3 DEF IInv, TypeOK, CloudPart, HubPart, cloud, memory
<1> QED
  BY <1>1, <1>2, <1>3, <1>4, <1>5

(* Every step keeps the invariant, action by action.                       *)
LEMMA NextInv == IInv /\ [Next]_vars => IInv'
<1> SUFFICES ASSUME IInv, [Next]_vars PROVE IInv'
  OBVIOUS
<1>1. CASE UNCHANGED vars
  BY <1>1 DEF vars, cloud, memory, database, IInv, TypeOK, LeaseGranted, GrantsBelow,
     GrantsDisjoint, KnownWasGranted, OnlyCreated, RecordedUnderGrant
<1>2. CASE Next
  BY <1>2, CloudPreserves, LatePreserves, HeartbeatPreserves, AcquirePreserves, HubPreserves
     DEF Next, Cycle
<1> QED
  BY <1>1, <1>2

(* The strengthened invariant holds of every behaviour.                    *)
THEOREM Invariance == Spec => []IInv
BY InitInv, NextInv, PTL DEF Spec

-----------------------------------------------------------------------------
(* What the runs check, for every set of hubs and any number of faults.    *)

(* Every row, message and register keeps its type.                         *)
THEOREM TypeCorrect == Spec => []TypeOK
<1>1. IInv => TypeOK
  BY DEF IInv
<1> QED
  BY <1>1, Invariance, PTL

(* A hub is never ahead of the lease row, and never level with it unless   *)
(* the row names the hub as its owner.                                     *)
THEOREM Fencing == Spec => []FencedOut
<1>1. IInv => FencedOut
  <2> SUFFICES ASSUME IInv, NEW h \in Hub, NEW n \in {epoch[h], local[h]}
               PROVE  n <= lease.epoch /\ (n = lease.epoch /\ n > 0 => lease.owner = h)
    BY DEF FencedOut
  <2>1. n \in granted[h] \cup {0} /\ n \in Nat /\ lease.epoch \in Nat
    BY DEF IInv, KnownWasGranted, TypeOK
  <2>2. n <= lease.epoch
    BY <2>1 DEF IInv, GrantsBelow
  <2>3. n = lease.epoch /\ n > 0 => lease.owner = h
    BY <2>1 DEF IInv, LeaseGranted, GrantsDisjoint
  <2> QED
    BY <2>2, <2>3
<1> QED
  BY <1>1, Invariance, PTL

(* Two hubs never work under the same epoch.                               *)
THEOREM Exclusion == Spec => []EpochsExclusive
<1>1. IInv => EpochsExclusive
  BY DEF IInv, KnownWasGranted, GrantsDisjoint, EpochsExclusive
<1> QED
  BY <1>1, Invariance, PTL

(* A continuity reference is recorded by at most one hub.                  *)
THEOREM RecordedByOne == Spec => []RecordedOnce
<1>1. IInv => RecordedOnce
  <2> SUFFICES ASSUME IInv, NEW r \in Reference
               PROVE  Cardinality({h \in Hub : r \in recorded[h]}) <= 1
    BY DEF RecordedOnce
  <2> DEFINE holders == {h \in Hub : r \in recorded[h]}
  <2>1. \A g, h \in holders : g = h
    BY DEF IInv, RecordedUnderGrant, GrantsDisjoint
  <2>2. CASE holders = {}
    BY <2>2, FS_EmptySet
  <2>3. CASE holders # {}
    <3>1. PICK h \in Hub : r \in recorded[h]
      BY <2>3
    <3>2. holders = {h}
      BY <2>1, <3>1
    <3>3. Cardinality(holders) = 1
      BY <3>2, FS_Singleton
    <3> QED
      BY <3>3
  <2> QED
    BY <2>2, <2>3
<1> QED
  BY <1>1, Invariance, PTL

(* The lease only changes hands when it has run out, with a fresh epoch.   *)
THEOREM Takeover == Spec => TakeoverNeedsExpiry
<1> DEFINE Fair == /\ lease'.epoch >= lease.epoch
                   /\ lease'.owner # lease.owner =>
                          ~lease.live /\ lease'.epoch > lease.epoch
<1>1. IInv /\ [Next]_vars => [Fair]_vars
  <2> SUFFICES ASSUME IInv, Next PROVE Fair
    BY DEF vars
  <2>1. /\ lease \in [owner : Hub \cup {NoHub}, epoch : Nat, live : BOOLEAN]
        /\ lease.epoch \in Nat
    BY DEF IInv, TypeOK
  <2>2. CASE lease' = lease
    BY <2>1, <2>2
  <2>3. CASE LeaseExpires
    BY <2>1, <2>3 DEF LeaseExpires
  <2>4. ASSUME NEW h \in Hub, NEW c, ~Refused(h, c), Grant(h) PROVE Fair
    BY <2>1, <2>4 DEF Refused, Grant
  <2>5. ASSUME NEW m \in late, LateAcquire(m) PROVE Fair
    <3>1. m.hub \in Hub
      BY DEF IInv, TypeOK
    <3> QED
      BY <2>2, <2>4, <2>5, <3>1 DEF LateAcquire
  <2>6. ASSUME NEW h \in Hub, Acquire(h) \/ AcquireUnanswered(h) PROVE Fair
    BY <2>2, <2>4, <2>6 DEF Acquire, AcquireUnanswered
  <2> QED
    BY <2>2, <2>3, <2>5, <2>6 DEF Next, Cycle, cloud, CreateReference, Heartbeat, Pull,
       ApplyReference, EndCycle, HeartbeatLost, AcquireAbandoned, RetryRefused, Restart
<1> QED
  BY <1>1, Invariance, PTL DEF Spec, TakeoverNeedsExpiry
=============================================================================
