-------------------------- MODULE OrderMirrorProofs --------------------------
(***************************************************************************)
(* What is proved of OrderMirror for every number of workers, rows and     *)
(* faults: type correctness, NothingLost, that OrderMirror implements      *)
(* StatusFeed, and that what was sent stays sent.                          *)
(*                                                                         *)
(* The argument: the versions of the outbox events grow strictly and event *)
(* i has at least version i + 1, while the cloud has recorded the versions *)
(* 1, 2, ... without a gap.  So the only event that can be recorded next   *)
(* is the outbox event after the recorded ones, and an event whose version *)
(* the cloud already has is the very event it has.                         *)
(***************************************************************************)
EXTENDS OrderMirror, SequenceTheorems, TLAPS

(* The hub's order and the events that report it.                        *)
OrderInv ==
    /\ status = "none" <=> version = 0
    /\ status = "none" => Len(outbox) = 0
    /\ status # "none" => Len(outbox) > 0

EventInv(i) ==
    LET e == outbox[i].event IN
    /\ e.id = i
    /\ e.version >= i + 1
    /\ e.version <= version + 1
    /\ IF i = 1 THEN e.kind = "imported" /\ e.version = 2 /\ e.status = Awaiting
                ELSE e.kind = "status_changed"
    /\ \A j \in Row : i < j => e.version < outbox[j].event.version

EventsInv == \A i \in Row : EventInv(i)

(* What the cloud has recorded is a prefix of what the hub published.    *)
RecordedInv ==
    /\ Len(recorded) > 0
    /\ recorded[1] = Submitted
    /\ Len(recorded) <= Len(outbox) + 1
    /\ \A k \in 1 .. Len(recorded) :
          /\ recorded[k].version = k
          /\ k > 1 => recorded[k] = outbox[k - 1].event

MirrorInv ==
    /\ mirror = recorded[Len(recorded)].status
    /\ Len(recorded) > 1 => command = "acknowledged"

(* Whatever travels or is about to is an event of the outbox.            *)
TravelInv ==
    /\ \A e \in late : \E i \in Row : e = outbox[i].event
    /\ \A w \in Worker : batch[w] \subseteq Row

IInv == /\ TypeOK /\ OrderInv /\ EventsInv /\ RecordedInv /\ MirrorInv
        /\ TravelInv /\ NothingLost

USE AttemptsAssumption

(* Nothing is published at first.                                          *)
LEMMA InitInv == Init => IInv
<1> SUFFICES ASSUME Init PROVE IInv
  OBVIOUS
<1>1. Submitted \in EventType
  BY DEF Submitted, EventType, CloudStatus
<1>2. outbox \in Seq(RowType) /\ Len(outbox) = 0
  BY DEF Init
<1>3. recorded \in Seq(EventType) /\ Len(recorded) = 1 /\ recorded[1] = Submitted
  BY <1>1 DEF Init
<1>4. TypeOK
  BY <1>2, <1>3 DEF Init, TypeOK, CloudStatus
<1>5. RecordedInv
  BY <1>2, <1>3 DEF RecordedInv, Submitted
<1>6. MirrorInv
  BY <1>3 DEF Init, MirrorInv, Submitted
<1>7. OrderInv /\ EventsInv /\ TravelInv /\ NothingLost
  BY <1>2 DEF Init, OrderInv, EventsInv, TravelInv, NothingLost, Row
<1> QED
  BY <1>4, <1>5, <1>6, <1>7 DEF IInv

-----------------------------------------------------------------------------
(* Shapes of steps.                                                        *)

(* The outbox keeps its rows and their events.                           *)
SameEvents ==
    /\ outbox' \in Seq(RowType)
    /\ Len(outbox') = Len(outbox)
    /\ \A j \in Row : outbox'[j].event = outbox[j].event

(* The cloud records the next event of the outbox.                       *)
RecordsNext ==
    LET n == Len(recorded) IN
    /\ n \in Row
    /\ recorded' = Append(recorded, outbox[n].event)
    /\ outbox[n].event.version = n + 1
    /\ mirror' = outbox[n].event.status
    /\ command' = "acknowledged"

CloudStep == UNCHANGED cloud \/ RecordsNext

(* The outbox gets one more row.                                         *)
Appends(v, k, s) ==
    LET n == Len(outbox) + 1 IN
    /\ outbox' \in Seq(RowType)
    /\ Len(outbox') = n
    /\ \A j \in Row : outbox'[j] = outbox[j]
    /\ outbox'[n].event = [id |-> n, kind |-> k, version |-> v, status |-> s]
    /\ outbox'[n].state = "pending" /\ outbox'[n].letter = "none"

(* The rows of the outbox and their events, typed.                         *)
LEMMA EventTyped == ASSUME TypeOK, NEW i \in Row
                    PROVE  outbox[i] \in RowType /\ outbox[i].event \in EventType
<1>1. outbox[i] \in RowType
  BY ElementOfSeq DEF TypeOK, Row
<1> QED
  BY <1>1 DEF RowType

(* Writing a row keeps its event and all other rows.                       *)
LEMMA WriteStep ==
    ASSUME TypeOK, NEW i \in Row,
           NEW st \in {"pending", "retry", "sent", "dead_letter"},
           NEW at \in 0 .. MaxAttempts, NEW wa \in BOOLEAN,
           NEW le \in {"none", "open", "retry_pending"},
           Write(i, st, at, wa, le)
    PROVE  /\ SameEvents
           /\ \A j \in Row \ {i} : outbox'[j] = outbox[j]
           /\ outbox'[i].state = st /\ outbox'[i].letter = le
<1> DEFINE r == [event |-> outbox[i].event, state |-> st, attempts |-> at,
                 waiting |-> wa, letter |-> le]
<1>1. r \in RowType
  BY EventTyped DEF RowType
<1>2. outbox \in Seq(RowType) /\ outbox' = [outbox EXCEPT ![i] = r]
  BY DEF TypeOK, Write
<1>3. r.event = outbox[i].event /\ r.state = st /\ r.letter = le
  OBVIOUS
<1> HIDE DEF r
<1>4. /\ outbox' \in Seq(RowType)
      /\ Len(outbox') = Len(outbox)
      /\ \A j \in 1 .. Len(outbox) : outbox'[j] = IF j = i THEN r ELSE outbox[j]
  BY <1>1, <1>2, ExceptSeq DEF Row
<1> QED
  BY <1>3, <1>4 DEF SameEvents, Row

(* A failed delivery changes its row's state and no event.                 *)
LEMMA FailureStep ==
    ASSUME TypeOK, NEW i \in Row, NEW retryable \in BOOLEAN,
           ScheduleFailure(i, retryable)
    PROVE  /\ SameEvents
           /\ \A j \in Row \ {i} : outbox'[j] = outbox[j]
           /\ \/ outbox'[i].state = "retry"
              \/ outbox'[i].state = "dead_letter" /\ outbox'[i].letter = "open"
<1> DEFINE n == IF outbox[i].attempts < MaxAttempts THEN outbox[i].attempts + 1
                                                     ELSE MaxAttempts
<1>1. n \in 0 .. MaxAttempts /\ outbox[i].letter \in {"none", "open", "retry_pending"}
  BY EventTyped DEF RowType
<1>2. \/ Write(i, "retry", n, TRUE, outbox[i].letter)
      \/ Write(i, "dead_letter", n, FALSE, "open")
  BY DEF ScheduleFailure
<1> HIDE DEF n
<1>3. CASE Write(i, "retry", n, TRUE, outbox[i].letter)
  BY <1>1, <1>3, WriteStep
<1>4. CASE Write(i, "dead_letter", n, FALSE, "open")
  BY <1>1, <1>4, WriteStep
<1> QED
  BY <1>2, <1>3, <1>4

(* So does one that was answered.                                          *)
LEMMA SentStep ==
    ASSUME TypeOK, NEW i \in Row, MarkSent(i)
    PROVE  /\ SameEvents
           /\ \A j \in Row \ {i} : outbox'[j] = outbox[j]
           /\ outbox'[i].state = "sent"
<1>1. /\ outbox[i].attempts \in 0 .. MaxAttempts
      /\ outbox[i].letter \in {"none", "open", "retry_pending"}
  BY EventTyped DEF RowType
<1>2. Write(i, "sent", outbox[i].attempts, FALSE, outbox[i].letter)
  BY DEF MarkSent
<1> QED
  BY <1>1, <1>2, WriteStep

(* A later event has a greater version.                                    *)
LEMMA Increasing ==
    ASSUME EventsInv, NEW i \in Row, NEW j \in Row, i < j
    PROVE  outbox[i].event.version < outbox[j].event.version
BY DEF EventsInv, EventInv

(* An event of the outbox whose version the cloud has is the one it has.   *)
LEMMA OldIsKnown ==
    ASSUME IInv, NEW i \in Row, outbox[i].event.version <= Len(recorded)
    PROVE  Known(outbox[i].event)
<1> DEFINE v == outbox[i].event.version
<1>1. v \in Nat /\ i \in Nat /\ Len(recorded) \in Nat /\ Len(outbox) \in Nat
  BY EventTyped DEF IInv, TypeOK, EventType, Row
<1>2. v >= i + 1
  BY DEF IInv, EventsInv, EventInv
<1>3. v \in 1 .. Len(recorded) /\ v > 1 /\ v - 1 \in Row
  BY <1>1, <1>2 DEF IInv, RecordedInv, Row
<1>4. recorded[v] = outbox[v - 1].event /\ outbox[v - 1].event.version = v
  BY <1>3 DEF IInv, RecordedInv
<1>5. i = v - 1
  <2>1. ~(i < v - 1)
    BY <1>1, <1>3, <1>4, Increasing DEF IInv
  <2>2. ~(v - 1 < i)
    BY <1>1, <1>3, <1>4, Increasing DEF IInv
  <2> QED
    BY <1>1, <1>3, <2>1, <2>2
<1> QED
  BY <1>3, <1>4, <1>5 DEF Known

(* Executing the request of an outbox event.                               *)
LEMMA ExecuteStep ==
    ASSUME IInv, NEW i \in Row, Execute(outbox[i].event)
    PROVE  /\ CloudStep
           /\ Accepted(outbox[i].event) =>
                  /\ \E k \in 1 .. Len(recorded') : recorded'[k] = outbox[i].event
                  /\ Len(recorded') > 1
<1> DEFINE e == outbox[i].event
           L == Len(recorded)
<1>1. e \in EventType /\ e.version \in Nat /\ L \in Nat /\ L > 0
      /\ recorded \in Seq(EventType) /\ Len(outbox) \in Nat
  BY EventTyped DEF IInv, TypeOK, EventType, RecordedInv
<1>2. PriorVersion = L
  BY <1>1 DEF PriorVersion, IInv, RecordedInv
<1>3. CASE Answer(e) = "recorded"
  <2>1. ~Known(e) /\ e.version = L + 1
    BY <1>1, <1>2, <1>3 DEF Answer
  <2>2. i = L
    <3>1. i \in Nat /\ i > 0 /\ i <= L
      BY <1>1, <2>1 DEF Row, IInv, EventsInv, EventInv
    <3>2. CASE i < L
      <4>1. L \in 1 .. Len(recorded) /\ L > 1 /\ L - 1 \in Row
        BY <1>1, <3>1, <3>2 DEF Row, IInv, RecordedInv
      <4>2. outbox[L - 1].event.version = L
        BY <4>1 DEF IInv, RecordedInv
      <4>3. i = L - 1 \/ i < L - 1
        BY <1>1, <3>1, <3>2
      <4> QED
        BY <1>1, <2>1, <4>1, <4>2, <4>3 DEF IInv, EventsInv, EventInv
    <3> QED
      BY <1>1, <3>1, <3>2
  <2>3. recorded' = Append(recorded, e)
        /\ mirror' = (IF e.kind = "imported" THEN mirror ELSE e.status)
        /\ command' = (IF e.kind = "imported" THEN "acknowledged" ELSE command)
    BY <1>3 DEF Execute
  <2>4. mirror' = e.status /\ command' = "acknowledged"
    <3>1. CASE i = 1
      <4>1. mirror = Awaiting
        BY <2>2, <3>1 DEF IInv, MirrorInv, RecordedInv, Submitted
      <4> QED
        BY <2>3, <3>1, <4>1 DEF IInv, EventsInv, EventInv
    <3>2. CASE i # 1
      <4>1. e.kind = "status_changed"
        BY <3>2 DEF IInv, EventsInv, EventInv
      <4>2. command = "acknowledged"
        BY <1>1, <2>2, <3>2 DEF IInv, MirrorInv
      <4> QED
        BY <2>3, <4>1, <4>2
    <3> QED
      BY <3>1, <3>2
  <2>5. RecordsNext
    BY <2>1, <2>2, <2>3, <2>4 DEF RecordsNext
  <2>6. Len(recorded') = L + 1 /\ recorded'[L + 1] = e
    BY <1>1, <2>3
  <2>7. \E k \in 1 .. Len(recorded') : recorded'[k] = e
    BY <1>1, <2>6
  <2> QED
    BY <1>1, <2>5, <2>6, <2>7 DEF CloudStep
<1>4. CASE Answer(e) # "recorded"
  <2>1. UNCHANGED cloud
    BY <1>4 DEF Execute
  <2>2. ASSUME Accepted(e) PROVE Known(e) /\ L > 1
    <3>1. Known(e) \/ e.version <= L
      BY <1>2, <1>4, <2>2 DEF Accepted, Answer
    <3>2. Known(e)
      BY <3>1, OldIsKnown
    <3>3. PICK k \in 1 .. L : recorded[k] = e
      BY <3>2 DEF Known
    <3>4. k # 1
      BY <3>3 DEF IInv, RecordedInv, EventsInv, EventInv, Submitted, Row
    <3> QED
      BY <1>1, <3>2, <3>3, <3>4
  <2> QED
    BY <2>1, <2>2 DEF CloudStep, cloud, Known
<1> QED
  BY <1>3, <1>4

-----------------------------------------------------------------------------
(* What the shapes of steps preserve.                                      *)

(* A step of the cloud adds to what it has recorded.                       *)
LEMMA CloudTyped ==
    ASSUME IInv, CloudStep
    PROVE  /\ recorded' \in Seq(EventType) /\ mirror' \in CloudStatus
           /\ command' \in {"pending", "acknowledged"}
           /\ Len(recorded') >= Len(recorded)
           /\ \A k \in 1 .. Len(recorded) : recorded'[k] = recorded[k]
<1>1. recorded \in Seq(EventType)
  BY DEF IInv, TypeOK
<1>2. CASE UNCHANGED cloud
  BY <1>1, <1>2 DEF IInv, TypeOK, cloud
<1>3. CASE RecordsNext
  <2> DEFINE e == outbox[Len(recorded)].event
  <2>1. e \in EventType /\ recorded' = Append(recorded, e) /\ mirror' = e.status
        /\ command' = "acknowledged"
    BY <1>3, EventTyped DEF RecordsNext, IInv
  <2>2. e.status \in CloudStatus
    BY <2>1 DEF EventType
  <2> HIDE DEF e
  <2> QED
    BY <1>1, <2>1, <2>2, AppendProperties
<1> QED
  BY <1>2, <1>3 DEF CloudStep

(* Row writes and executed requests keep the relation of hub and cloud.    *)
LEMMA SameEventsInv ==
    ASSUME IInv, SameEvents, CloudStep, UNCHANGED order
    PROVE  OrderInv' /\ EventsInv' /\ RecordedInv' /\ MirrorInv'
<1>1. OrderInv'
  BY DEF IInv, OrderInv, SameEvents, order
<1>2. EventsInv'
  <2> SUFFICES ASSUME NEW i \in Row PROVE EventInv(i)'
    BY DEF EventsInv, SameEvents, Row
  <2>1. EventInv(i) /\ Row' = Row /\ version' = version
    BY DEF IInv, EventsInv, SameEvents, Row, order
  <2>2. \A j \in Row : outbox'[j].event = outbox[j].event
    BY DEF SameEvents
  <2> QED
    BY <2>1, <2>2 DEF EventInv
<1>3. recorded \in Seq(EventType) /\ Len(recorded) \in Nat /\ Len(outbox) \in Nat
  BY DEF IInv, TypeOK
<1>4. RecordedInv' /\ MirrorInv'
  <2>1. CASE UNCHANGED cloud
    <3>1. RecordedInv'
      <4>1. ASSUME NEW k \in 1 .. Len(recorded), k > 1 PROVE outbox'[k - 1].event = recorded[k]
        BY <1>3, <4>1 DEF IInv, RecordedInv, SameEvents, Row
      <4> QED
        BY <2>1, <4>1 DEF IInv, RecordedInv, SameEvents, cloud
    <3> QED
      BY <2>1, <3>1 DEF IInv, MirrorInv, cloud
  <2>2. CASE RecordsNext
    <3> DEFINE L == Len(recorded)
               e == outbox[L].event
    <3>1. /\ L \in Row /\ e \in EventType /\ e.version = L + 1
          /\ recorded' = Append(recorded, e)
          /\ mirror' = e.status /\ command' = "acknowledged"
      BY <2>2, EventTyped DEF RecordsNext, IInv
    <3>2. /\ Len(recorded') = L + 1 /\ recorded'[L + 1] = e
          /\ \A k \in 1 .. L : recorded'[k] = recorded[k]
      <4> HIDE DEF e
      <4> QED
        BY <1>3, <3>1, AppendProperties
    <3>3. ASSUME NEW k \in 1 .. Len(recorded')
          PROVE  recorded'[k].version = k /\ (k > 1 => recorded'[k] = outbox'[k - 1].event)
      <4>1. CASE k = L + 1
        <5>1. k - 1 = L /\ L \in Row
          BY <1>3, <3>1, <4>1
        <5> QED
          BY <3>1, <3>2, <4>1, <5>1 DEF SameEvents
      <4>2. CASE k \in 1 .. L
        <5>1. recorded'[k] = recorded[k] /\ recorded[k].version = k
          BY <3>2, <4>2 DEF IInv, RecordedInv
        <5>2. ASSUME k > 1 PROVE recorded[k] = outbox[k - 1].event /\ k - 1 \in Row
          BY <1>3, <4>2, <5>2 DEF IInv, RecordedInv, Row
        <5> QED
          BY <5>1, <5>2 DEF SameEvents
      <4> QED
        BY <1>3, <3>2, <4>1, <4>2
    <3>4. RecordedInv'
      BY <1>3, <3>1, <3>2, <3>3 DEF IInv, RecordedInv, SameEvents, Row
    <3> QED
      BY <1>3, <3>1, <3>2, <3>4 DEF MirrorInv
  <2> QED
    BY <2>1, <2>2 DEF CloudStep
<1> QED
  BY <1>1, <1>2, <1>4

(* Messages under way carry events of the outbox.                          *)
LEMMA SameEventsTravel ==
    ASSUME IInv, SameEvents, NEW i \in Row,
           late' \subseteq late \cup {outbox[i].event},
           \A w \in Worker : batch'[w] \subseteq Row
    PROVE  TravelInv' /\ late' \subseteq EventType
<1>1. Row' = Row
  BY DEF SameEvents, Row
<1>2. ASSUME NEW e \in late' PROVE \E j \in Row : e = outbox'[j].event
  BY DEF IInv, TravelInv, SameEvents
<1>3. late' \subseteq EventType
  BY EventTyped DEF IInv, TypeOK
<1> QED
  BY <1>1, <1>2, <1>3 DEF TravelInv

(* A row whose event the cloud has, a queued one and an open letter stay   *)
(* so while the row is left alone and the cloud moves on.                  *)
RowSafe(i) ==
    /\ \/ Known(outbox[i].event)
       \/ outbox[i].state \in {"pending", "retry"}
       \/ outbox[i].state = "dead_letter" /\ outbox[i].letter = "open"
    /\ outbox[i].state = "sent" /\ outbox[i].event.kind = "imported"
          => command = "acknowledged"

(* What is known of a row stays true of it while the cloud only adds.      *)
LEMMA RowStaysSafe ==
    ASSUME IInv, CloudStep, NEW i \in Row, outbox'[i] = outbox[i]
    PROVE  RowSafe(i)'
<1>1. RowSafe(i)
  BY DEF IInv, NothingLost, RowSafe
<1>2. Known(outbox[i].event) => \E k \in 1 .. Len(recorded') : recorded'[k] = outbox[i].event
  <2>1. Len(recorded) \in Nat /\ Len(recorded') \in Nat
    BY CloudTyped DEF IInv, TypeOK
  <2> QED
    BY <2>1, CloudTyped DEF Known
<1>3. command = "acknowledged" => command' = "acknowledged"
  BY DEF CloudStep, RecordsNext, cloud
<1> QED
  BY <1>1, <1>2, <1>3 DEF RowSafe, Known

(* So it is enough to look at the one row that changes.                    *)
LEMMA NothingLostKept ==
    ASSUME IInv, CloudStep, SameEvents, NEW i \in Row,
           \A j \in Row \ {i} : outbox'[j] = outbox[j],
           RowSafe(i)'
    PROVE  NothingLost'
<1>1. \A j \in Row : RowSafe(j)'
  BY RowStaysSafe
<1>2. Row' = Row
  BY DEF SameEvents, Row
<1> QED
  BY <1>1, <1>2 DEF NothingLost, RowSafe

(* Reporting a change of the order.                                        *)
LEMMA EnqueueStep ==
    ASSUME TypeOK, NEW k \in {"imported", "status_changed"}, NEW v \in Nat,
           NEW s \in CloudStatus, Enqueue(k, v, s)
    PROVE  Appends(v, k, s)
<1> DEFINE n == Len(outbox) + 1
           e == [id |-> n, kind |-> k, version |-> v, status |-> s]
           r == [event |-> e, state |-> "pending", attempts |-> 0,
                 waiting |-> FALSE, letter |-> "none"]
<1>1. outbox \in Seq(RowType) /\ n \in Nat
  BY DEF TypeOK
<1>2. r \in RowType
  BY <1>1 DEF RowType, EventType
<1>3. outbox' = Append(outbox, r)
  BY DEF Enqueue
<1>4. r.event = e /\ r.state = "pending" /\ r.letter = "none"
  OBVIOUS
<1> HIDE DEF r
<1>5. /\ outbox' \in Seq(RowType) /\ Len(outbox') = n /\ outbox'[n] = r
      /\ \A j \in 1 .. Len(outbox) : outbox'[j] = outbox[j]
  BY <1>1, <1>2, <1>3, AppendProperties
<1> QED
  BY <1>4, <1>5 DEF Appends, Row

(* A change of the order publishes one event, of a version above all       *)
(* before it.                                                              *)
LEMMA AppendsInv ==
    ASSUME IInv, NEW k, NEW v \in Nat, NEW s, Appends(v, k, s),
           UNCHANGED cloud, UNCHANGED <<batch, late>>,
           status' # "none", version' \in Nat, version' >= version, version' > 0,
           v >= Len(outbox) + 2, v <= version' + 1,
           Len(outbox) > 0 => v > version + 1 /\ k = "status_changed",
           Len(outbox) = 0 => k = "imported" /\ v = 2 /\ s = Awaiting
    PROVE  OrderInv' /\ EventsInv' /\ RecordedInv' /\ MirrorInv' /\ TravelInv'
           /\ NothingLost'
<1>0. PICK n \in Nat : n = Len(outbox) + 1
  BY DEF IInv, TypeOK
<1>1. /\ Len(outbox) \in Nat /\ version \in Nat /\ n \in Row'
      /\ Row' = Row \cup {n} /\ n \notin Row /\ \A j \in Row : j < n /\ j \in Nat
  BY <1>0 DEF IInv, TypeOK, Appends, Row
<1>2. \A j \in Row : outbox'[j] = outbox[j]
  BY DEF Appends
<1>3. /\ outbox'[n].event.id = n /\ outbox'[n].event.kind = k
      /\ outbox'[n].event.version = v /\ outbox'[n].event.status = s
      /\ outbox'[n].state = "pending"
  BY <1>0 DEF Appends
<1>4. OrderInv'
  BY <1>1 DEF OrderInv, Appends
<1>5. EventsInv'
  <2>1. ASSUME NEW i \in Row PROVE EventInv(i)'
    <3>1. EventInv(i) /\ outbox[i].event.version \in Nat
      BY EventTyped DEF IInv, EventsInv, EventType
    <3>2. outbox[i].event.version < v
      BY <1>1, <3>1 DEF EventInv, Row
    <3>3. outbox[i].event.version <= version' + 1
      BY <1>1, <3>1 DEF EventInv
    <3>4. ASSUME NEW j \in Row', i < j
          PROVE  outbox'[i].event.version < outbox'[j].event.version
      BY <1>1, <1>2, <1>3, <3>1, <3>2, <3>4 DEF EventInv
    <3> QED
      BY <1>2, <3>1, <3>3, <3>4 DEF EventInv
  <2>2. EventInv(n)'
    <3>1. ASSUME NEW j \in Row' PROVE ~(n < j)
      BY <1>1
    <3>2. n = 1 <=> Len(outbox) = 0
      BY <1>0, <1>1
    <3> QED
      BY <1>0, <1>1, <1>3, <3>1, <3>2 DEF EventInv
  <2> QED
    BY <1>1, <2>1, <2>2 DEF EventsInv
<1>6. RecordedInv' /\ MirrorInv'
  <2>1. recorded' = recorded /\ mirror' = mirror /\ command' = command
    BY DEF cloud
  <2>2. ASSUME NEW k2 \in 1 .. Len(recorded), k2 > 1
        PROVE  recorded[k2] = outbox'[k2 - 1].event
    <3>1. k2 - 1 \in Row
      BY <1>1, <2>2 DEF IInv, TypeOK, RecordedInv, Row
    <3> QED
      BY <1>2, <2>2, <3>1 DEF IInv, RecordedInv
  <2>3. Len(recorded) <= Len(outbox') + 1 /\ Len(recorded) \in Nat
    BY <1>1 DEF IInv, TypeOK, RecordedInv, Appends
  <2> QED
    BY <2>1, <2>2, <2>3 DEF IInv, RecordedInv, MirrorInv
<1>7. TravelInv'
  <2>1. ASSUME NEW e \in late' PROVE \E j \in Row' : e = outbox'[j].event
    BY <1>1, <1>2 DEF IInv, TravelInv
  <2> QED
    BY <1>1, <2>1 DEF IInv, TravelInv
<1>8. NothingLost'
  <2>1. CloudStep
    BY DEF CloudStep
  <2>2. \A j \in Row : RowSafe(j)'
    BY <1>2, <2>1, RowStaysSafe
  <2>3. RowSafe(n)'
    BY <1>3 DEF RowSafe
  <2> QED
    BY <1>1, <2>2, <2>3 DEF NothingLost, RowSafe
<1> QED
  BY <1>4, <1>5, <1>6, <1>7, <1>8

(* A new version of the order that nothing reports.                        *)
LEMMA UnreportedStep ==
    ASSUME IInv, status # "none", status' \in LocalStatus, version' = version + 1,
           UNCHANGED <<outbox, batch, late, cloud, faults>>
    PROVE  IInv'
<1>1. version \in Nat /\ version' \in Nat /\ version' > 0
  BY DEF IInv, TypeOK
<1>2. "none" \notin LocalStatus
  BY DEF LocalStatus, ValidTransitions
<1>3. TypeOK'
  BY <1>1 DEF IInv, TypeOK, cloud
<1>4. OrderInv'
  BY <1>1, <1>2 DEF IInv, OrderInv
<1>5. EventsInv'
  <2> SUFFICES ASSUME NEW i \in Row PROVE EventInv(i)'
    BY DEF EventsInv, Row
  <2>1. EventInv(i) /\ outbox[i].event.version \in Nat
    BY EventTyped DEF IInv, EventsInv, EventType
  <2>2. outbox[i].event.version <= version' + 1
    BY <1>1, <2>1 DEF EventInv
  <2> QED
    BY <2>1, <2>2 DEF EventInv, Row
<1>6. RecordedInv' /\ MirrorInv' /\ TravelInv'
  BY DEF IInv, RecordedInv, MirrorInv, TravelInv, Row, cloud
<1>7. NothingLost'
  BY DEF IInv, NothingLost, Known, Row, cloud
<1> QED
  BY <1>3, <1>4, <1>5, <1>6, <1>7 DEF IInv

(* Every other step: at most one row is written, the cloud may record the  *)
(* next event, and at most one event more is under way.                    *)
LEMMA SyncStep ==
    ASSUME IInv, SameEvents, CloudStep, UNCHANGED order, NEW i \in Row,
           \A j \in Row \ {i} : outbox'[j] = outbox[j],
           RowSafe(i)',
           late' \subseteq late \cup {outbox[i].event},
           batch' \in [Worker -> SUBSET Nat],
           \A w \in Worker : batch'[w] \subseteq Row,
           faults' \in [lost : Nat, late : Nat, crashes : Nat]
    PROVE  IInv'
<1>1. TypeOK'
  BY CloudTyped, SameEventsTravel DEF IInv, TypeOK, SameEvents, order
<1> QED
  BY <1>1, SameEventsInv, SameEventsTravel, NothingLostKept DEF IInv

(* Faults are counted by kind.                                             *)
LEMMA FaultTyped ==
    ASSUME TypeOK, NEW kind \in {"lost", "late", "crashes"}, NEW max, Fault(kind, max)
    PROVE  faults' \in [lost : Nat, late : Nat, crashes : Nat]
<1>1. faults \in [lost : Nat, late : Nat, crashes : Nat] /\ faults[kind] \in Nat
  BY DEF TypeOK
<1> QED
  BY <1>1 DEF Fault

(* A batch that shrinks.                                                   *)
LEMMA BatchShrinks ==
    ASSUME IInv, NEW w \in Worker, NEW S \in SUBSET batch[w],
           batch' = [batch EXCEPT ![w] = S]
    PROVE  /\ batch' \in [Worker -> SUBSET Nat]
           /\ \A v \in Worker : batch'[v] \subseteq Row
BY DEF IInv, TypeOK, TravelInv

(* A worker takes a row off its batch.                                     *)
LEMMA Advances ==
    ASSUME IInv, NEW w \in Worker, NEW i, Advance(w, i)
    PROVE  /\ batch' \in [Worker -> SUBSET Nat]
           /\ \A v \in Worker : batch'[v] \subseteq Row
BY DEF IInv, TypeOK, TravelInv, Advance

(* Steps that leave the outbox alone.                                      *)
LEMMA OutboxKept ==
    ASSUME IInv, UNCHANGED outbox
    PROVE  SameEvents /\ \A j \in Row : outbox'[j] = outbox[j]
BY DEF IInv, TypeOK, SameEvents

(* A row that is queued again or an open dead letter is safe.              *)
LEMMA FailedIsSafe ==
    ASSUME NEW i, \/ outbox'[i].state = "retry"
                  \/ outbox'[i].state = "dead_letter" /\ outbox'[i].letter = "open"
    PROVE  RowSafe(i)'
BY DEF RowSafe

-----------------------------------------------------------------------------
(* The actions.                                                            *)

(* The import publishes the first event.                                   *)
LEMMA ImportInv == ASSUME IInv, Import PROVE IInv'
<1>1. version = 0 /\ Len(outbox) = 0
  BY DEF IInv, OrderInv, Import
<1>2. Appends(2, "imported", Awaiting)
  BY EnqueueStep DEF Import, IInv, CloudStatus
<1>3. OrderInv' /\ EventsInv' /\ RecordedInv' /\ MirrorInv' /\ TravelInv' /\ NothingLost'
  BY <1>1, <1>2, AppendsInv DEF Import
<1>4. TypeOK'
  BY <1>2 DEF IInv, TypeOK, Import, Appends, LocalStatus, ValidTransitions, cloud
<1> QED
  BY <1>3, <1>4 DEF IInv

(* A transition publishes the next one.                                    *)
LEMMA TransitionInv ==
    ASSUME IInv, NEW target \in LocalStatus, Transition(target) PROVE IInv'
<1> DEFINE n == Len(outbox)
           v == SnapshotVersion(version + 1)
<1>1. /\ n \in Nat /\ n > 0 /\ n \in Row /\ version \in Nat /\ version > 0
      /\ version' = version + 1 /\ status' = target
  BY DEF IInv, TypeOK, OrderInv, Transition, Row
<1>2. v = version + 2
  BY <1>1 DEF SnapshotVersion
<1>3. n <= version
  <2>1. /\ outbox[n].event.version \in Nat
        /\ outbox[n].event.version >= n + 1
        /\ outbox[n].event.version <= version + 1
    BY <1>1, EventTyped DEF IInv, EventsInv, EventInv, EventType
  <2> QED
    BY <1>1, <2>1
<1>4. target # "none"
  BY DEF LocalStatus, ValidTransitions
<1>5. Appends(v, "status_changed", target)
  BY <1>1, <1>2, EnqueueStep DEF Transition, IInv, CloudStatus
<1>6. OrderInv' /\ EventsInv' /\ RecordedInv' /\ MirrorInv' /\ TravelInv' /\ NothingLost'
  <2>1. UNCHANGED cloud /\ UNCHANGED <<batch, late>>
    BY DEF Transition
  <2> HIDE DEF v
  <2> QED
    BY <1>1, <1>2, <1>3, <1>4, <1>5, <2>1, AppendsInv
<1>7. TypeOK'
  BY <1>1, <1>5 DEF IInv, TypeOK, Transition, Appends, cloud
<1> QED
  BY <1>6, <1>7 DEF IInv

(* A request carried out after its sender has given it up.                 *)
LEMMA LateDeliveryInv == ASSUME IInv, NEW e \in late, LateDelivery(e) PROVE IInv'
<1>1. PICK i \in Row : e = outbox[i].event
  BY DEF IInv, TravelInv
<1>2. CloudStep
  BY <1>1, ExecuteStep DEF LateDelivery
<1>3. SameEvents /\ \A j \in Row : outbox'[j] = outbox[j]
  BY OutboxKept DEF LateDelivery
<1>4. RowSafe(i)'
  BY <1>2, <1>3, RowStaysSafe
<1> QED
  BY <1>1, <1>2, <1>3, <1>4, SyncStep DEF LateDelivery, IInv, TypeOK, TravelInv

(* A worker selects a batch.                                               *)
LEMMA SelectBatchInv == ASSUME IInv, NEW w \in Worker, SelectBatch(w) PROVE IInv'
<1>1. PICK i \in Row : Due(i)
  BY DEF SelectBatch
<1>2. CloudStep /\ SameEvents /\ \A j \in Row : outbox'[j] = outbox[j]
  BY OutboxKept DEF SelectBatch, CloudStep
<1>3. RowSafe(i)'
  BY <1>2, RowStaysSafe
<1>4. batch' \in [Worker -> SUBSET Nat] /\ \A v \in Worker : batch'[v] \subseteq Row
  BY DEF IInv, TypeOK, TravelInv, SelectBatch, Row
<1> QED
  BY <1>2, <1>3, <1>4, SyncStep DEF SelectBatch, IInv, TypeOK

(* A worker skips a row that is not due any more.                          *)
LEMMA SkipInv ==
    ASSUME IInv, NEW w \in Worker, NEW i \in batch[w], Skip(w, i) PROVE IInv'
<1>1. i \in Row
  BY DEF IInv, TravelInv
<1>2. CloudStep /\ SameEvents /\ \A j \in Row : outbox'[j] = outbox[j]
  BY OutboxKept DEF Skip, CloudStep
<1>3. RowSafe(i)'
  BY <1>1, <1>2, RowStaysSafe
<1> QED
  BY <1>1, <1>2, <1>3, Advances, SyncStep DEF Skip, IInv, TypeOK

(* A worker sends a row and has its answer.                                *)
LEMMA SendInv ==
    ASSUME IInv, NEW w \in Worker, NEW i \in batch[w], Send(w, i) PROVE IInv'
<1>1. i \in Row
  BY DEF IInv, TravelInv
<1>2. CloudStep
  BY <1>1, ExecuteStep DEF Send
<1>3. CASE Accepted(outbox[i].event) /\ MarkSent(i)
  <2>1. /\ SameEvents /\ \A j \in Row \ {i} : outbox'[j] = outbox[j]
        /\ outbox'[i].event = outbox[i].event
    BY <1>1, <1>3, SentStep DEF IInv, SameEvents
  <2>2. \E k \in 1 .. Len(recorded') : recorded'[k] = outbox[i].event
    BY <1>1, <1>3, ExecuteStep DEF Send
  <2>3. command' = "acknowledged"
    <3>1. Len(recorded') > 1
      BY <1>1, <1>3, ExecuteStep DEF Send
    <3> QED
      BY <1>2, <2>1, <3>1, SameEventsInv DEF MirrorInv, Send
  <2>4. RowSafe(i)'
    BY <2>1, <2>2, <2>3 DEF RowSafe, Known
  <2> QED
    BY <1>1, <1>2, <2>1, <2>4, Advances, SyncStep DEF Send, IInv, TypeOK
<1>4. CASE ScheduleFailure(i, FALSE)
  <2>1. /\ SameEvents /\ \A j \in Row \ {i} : outbox'[j] = outbox[j]
        /\ RowSafe(i)'
    BY <1>1, <1>4, FailureStep, FailedIsSafe DEF IInv
  <2> QED
    BY <1>1, <1>2, <2>1, Advances, SyncStep DEF Send, IInv, TypeOK
<1> QED
  BY <1>3, <1>4 DEF Send

(* A worker sends a row and has none.                                      *)
LEMMA MishapInv ==
    ASSUME IInv, NEW w \in Worker, NEW i \in batch[w], Mishap(w, i) PROVE IInv'
<1>1. i \in Row
  BY DEF IInv, TravelInv
<1>2. ASSUME ScheduleFailure(i, TRUE)
      PROVE  /\ SameEvents /\ \A j \in Row \ {i} : outbox'[j] = outbox[j]
             /\ RowSafe(i)'
  BY <1>1, <1>2, FailureStep, FailedIsSafe DEF IInv
<1>3. CASE RequestLost(w, i)
  <2>1. CloudStep /\ faults' \in [lost : Nat, late : Nat, crashes : Nat]
    BY <1>3, FaultTyped DEF RequestLost, CloudStep, IInv
  <2> QED
    BY <1>1, <1>2, <1>3, <2>1, Advances, SyncStep DEF RequestLost
<1>4. CASE AnswerLost(w, i)
  <2>1. CloudStep /\ faults' \in [lost : Nat, late : Nat, crashes : Nat]
    BY <1>1, <1>4, FaultTyped, ExecuteStep DEF AnswerLost, IInv
  <2> QED
    BY <1>1, <1>2, <1>4, <2>1, Advances, SyncStep DEF AnswerLost
<1>5. CASE Abandoned(w, i)
  <2>1. CloudStep /\ faults' \in [lost : Nat, late : Nat, crashes : Nat]
    BY <1>5, FaultTyped DEF Abandoned, CloudStep, IInv
  <2> QED
    BY <1>1, <1>2, <1>5, <2>1, Advances, SyncStep DEF Abandoned
<1>6. CASE Crash(w, i)
  <2>1. CloudStep
    BY <1>1, <1>6, ExecuteStep DEF Crash, CloudStep
  <2>2. SameEvents /\ \A j \in Row : outbox'[j] = outbox[j]
    BY <1>6, OutboxKept DEF Crash
  <2>3. RowSafe(i)'
    BY <1>1, <2>1, <2>2, RowStaysSafe
  <2>4. /\ batch' \in [Worker -> SUBSET Nat] /\ \A v \in Worker : batch'[v] \subseteq Row
        /\ faults' \in [lost : Nat, late : Nat, crashes : Nat]
    BY <1>6, BatchShrinks, FaultTyped DEF Crash, IInv
  <2> QED
    BY <1>1, <1>6, <2>1, <2>2, <2>3, <2>4, SyncStep DEF Crash
<1> QED
  BY <1>3, <1>4, <1>5, <1>6 DEF Mishap

(* A back-off elapses.                                                     *)
LEMMA BackoffInv == ASSUME IInv, NEW i \in Row, BackoffElapses(i) PROVE IInv'
<1>1. /\ outbox[i].state \in {"pending", "retry", "sent", "dead_letter"}
      /\ outbox[i].attempts \in 0 .. MaxAttempts
      /\ outbox[i].letter \in {"none", "open", "retry_pending"}
  BY EventTyped DEF IInv, RowType
<1>2. /\ SameEvents /\ \A j \in Row \ {i} : outbox'[j] = outbox[j]
      /\ outbox'[i].state = outbox[i].state /\ outbox'[i].letter = outbox[i].letter
      /\ outbox'[i].event = outbox[i].event
  <2>1. TypeOK /\ Write(i, outbox[i].state, outbox[i].attempts, FALSE, outbox[i].letter)
    BY DEF IInv, BackoffElapses
  <2>2. /\ SameEvents /\ \A j \in Row \ {i} : outbox'[j] = outbox[j]
        /\ outbox'[i].state = outbox[i].state /\ outbox'[i].letter = outbox[i].letter
    BY <1>1, <2>1, WriteStep
  <2> QED
    BY <2>2 DEF SameEvents
<1>3. CloudStep /\ UNCHANGED cloud
  BY DEF CloudStep, BackoffElapses
<1>4. RowSafe(i)'
  BY <1>2, <1>3 DEF IInv, NothingLost, RowSafe, Known, cloud
<1> QED
  BY <1>2, <1>3, <1>4, SyncStep DEF BackoffElapses, IInv, TypeOK, TravelInv

(* An operator retries a dead letter.                                      *)
LEMMA RetryInv == ASSUME IInv, NEW i \in Row, RetryDeadLetter(i) PROVE IInv'
<1>1. outbox[i].attempts \in 0 .. MaxAttempts
  BY EventTyped DEF IInv, RowType
<1>2. /\ SameEvents /\ \A j \in Row \ {i} : outbox'[j] = outbox[j]
      /\ outbox'[i].state = "retry"
  BY <1>1, WriteStep DEF RetryDeadLetter, IInv
<1>3. CloudStep
  BY DEF CloudStep, RetryDeadLetter
<1>4. RowSafe(i)'
  BY <1>2, FailedIsSafe
<1> QED
  BY <1>2, <1>3, <1>4, SyncStep DEF RetryDeadLetter, IInv, TypeOK, TravelInv

(* Every step keeps the invariant, action by action.                       *)
LEMMA NextInv == ASSUME IInv, [Next]_vars PROVE IInv'
<1>1. CASE Import
  BY <1>1, ImportInv
<1>2. CASE \E target \in LocalStatus : Transition(target)
  BY <1>2, TransitionInv
<1>3. CASE MarkBilled
  <2>1. status # "none" /\ status' \in LocalStatus
    BY <1>3 DEF MarkBilled, Billable, LocalStatus, ValidTransitions
  <2> QED
    BY <1>3, <2>1, UnreportedStep DEF MarkBilled
<1>4. CASE CloseSettled
  <2>1. status # "none" /\ status' \in LocalStatus
    BY <1>4 DEF CloseSettled, LocalStatus, ValidTransitions
  <2> QED
    BY <1>4, <2>1, UnreportedStep DEF CloseSettled
<1>5. CASE \E e \in late : LateDelivery(e)
  BY <1>5, LateDeliveryInv
<1>6. CASE \E w \in Worker : Work(w)
  BY <1>6, SelectBatchInv, SkipInv, SendInv DEF Work
<1>7. CASE \E w \in Worker : \E i \in batch[w] : Mishap(w, i)
  BY <1>7, MishapInv
<1>8. CASE \E i \in Row : BackoffElapses(i) \/ RetryDeadLetter(i)
  BY <1>8, BackoffInv, RetryInv
<1>9. CASE UNCHANGED vars
  <2>1. UNCHANGED order /\ UNCHANGED cloud /\ UNCHANGED <<outbox, batch, late, faults>>
    BY <1>9 DEF vars, order, cloud
  <2>2. SameEvents /\ CloudStep
    BY <2>1, OutboxKept DEF CloudStep
  <2>3. TypeOK' /\ TravelInv'
    BY <2>1 DEF IInv, TypeOK, TravelInv, Row, order, cloud
  <2>4. NothingLost'
    BY <2>1 DEF IInv, NothingLost, Known, Row, cloud
  <2> QED
    BY <2>1, <2>2, <2>3, <2>4, SameEventsInv DEF IInv
<1> QED
  BY <1>1, <1>2, <1>3, <1>4, <1>5, <1>6, <1>7, <1>8, <1>9 DEF Next

-----------------------------------------------------------------------------
(* The inductive invariant holds in every reachable state.                 *)
THEOREM Invariance == Spec => []IInv
BY InitInv, NextInv, PTL DEF Spec

(* Type correctness of the hub's rows, the workers' memory and the cloud.  *)
THEOREM TypeCorrect == Spec => []TypeOK
<1>1. IInv => TypeOK
  BY DEF IInv
<1> QED
  BY <1>1, Invariance, PTL

(* No event of an order is lost between the hub's outbox and the cloud's   *)
(* event table, and no row counts as sent on account of another event.     *)
THEOREM EventsAreNotLost == Spec => []NothingLost
<1>1. IInv => NothingLost
  BY DEF IInv
<1> QED
  BY <1>1, Invariance, PTL

-----------------------------------------------------------------------------
(* Refinement: a step publishes one event, or the cloud reads the next one *)
(* or nothing.                                                             *)

(* For the feed, a change of the order appends an event and leaves the     *)
(* cloud alone,                                                            *)
LEMMA ReportStep ==
    ASSUME IInv, Import \/ \E target \in LocalStatus : Transition(target)
    PROVE  /\ UNCHANGED cloud
           /\ \E v, k, s : s \in CloudStatus /\ Appends(v, k, s)
<1>1. CASE Import
  <2>1. Awaiting \in CloudStatus
    BY DEF CloudStatus
  <2>2. Appends(2, "imported", Awaiting)
    BY <1>1, <2>1, EnqueueStep DEF Import, IInv
  <2> QED
    BY <1>1, <2>1, <2>2 DEF Import
<1>2. ASSUME NEW target \in LocalStatus, Transition(target)
      PROVE  UNCHANGED cloud /\ \E v, k, s : s \in CloudStatus /\ Appends(v, k, s)
  <2>1. target \in CloudStatus /\ SnapshotVersion(version') \in Nat
    BY <1>2 DEF CloudStatus, SnapshotVersion, Transition, IInv, TypeOK
  <2>2. Appends(SnapshotVersion(version'), "status_changed", target)
    BY <1>2, <2>1, EnqueueStep DEF Transition, IInv
  <2> QED
    BY <1>2, <2>1, <2>2 DEF Transition
<1> QED
  BY <1>1, <1>2

(* while a worker's step leaves the events alone,                          *)
LEMMA WorkShape ==
    ASSUME IInv, NEW w \in Worker, Work(w) \/ \E i \in batch[w] : Mishap(w, i)
    PROVE  SameEvents /\ CloudStep
<1>1. CASE SelectBatch(w)
  BY <1>1, OutboxKept DEF SelectBatch, CloudStep
<1>2. ASSUME NEW i \in batch[w], Skip(w, i) PROVE SameEvents /\ CloudStep
  BY <1>2, OutboxKept DEF Skip, CloudStep
<1>3. ASSUME NEW i \in batch[w], Send(w, i) PROVE SameEvents /\ CloudStep
  <2>1. i \in Row
    BY DEF IInv, TravelInv
  <2>2. CloudStep
    BY <1>3, <2>1, ExecuteStep DEF Send
  <2>3. SameEvents
    BY <1>3, <2>1, SentStep, FailureStep DEF Send, IInv
  <2> QED
    BY <2>2, <2>3
<1>4. ASSUME NEW i \in batch[w], Mishap(w, i) PROVE SameEvents /\ CloudStep
  <2>1. i \in Row
    BY DEF IInv, TravelInv
  <2>2. CloudStep
    BY <1>4, <2>1, ExecuteStep DEF Mishap, RequestLost, AnswerLost, Abandoned, Crash, CloudStep
  <2>3. ScheduleFailure(i, TRUE) \/ UNCHANGED outbox
    BY <1>4 DEF Mishap, RequestLost, AnswerLost, Abandoned, Crash
  <2>4. SameEvents
    BY <2>1, <2>3, FailureStep, OutboxKept DEF IInv
  <2> QED
    BY <2>2, <2>4
<1> QED
  BY <1>1, <1>2, <1>3, <1>4 DEF Work

(* and every step is one of the two.                                       *)
LEMMA StepShape ==
    ASSUME IInv, [Next]_vars
    PROVE  \/ SameEvents /\ CloudStep
           \/ /\ UNCHANGED cloud
              /\ \E v, k, s : s \in CloudStatus /\ Appends(v, k, s)
<1>1. CASE Import \/ \E target \in LocalStatus : Transition(target)
  BY <1>1, ReportStep
<1>2. CASE MarkBilled \/ CloseSettled \/ UNCHANGED vars
  BY <1>2, OutboxKept DEF MarkBilled, CloseSettled, vars, CloudStep
<1>3. CASE \E e \in late : LateDelivery(e)
  <2>1. PICK e \in late : LateDelivery(e)
    BY <1>3
  <2>2. PICK i \in Row : e = outbox[i].event
    BY DEF IInv, TravelInv
  <2> QED
    BY <2>1, <2>2, ExecuteStep, OutboxKept DEF LateDelivery
<1>4. CASE \/ \E w \in Worker : Work(w)
           \/ \E w \in Worker : \E i \in batch[w] : Mishap(w, i)
  BY <1>4, WorkShape
<1>5. ASSUME NEW i \in Row, BackoffElapses(i) \/ RetryDeadLetter(i)
      PROVE  SameEvents /\ CloudStep
  <2>1. /\ outbox[i].state \in {"pending", "retry", "sent", "dead_letter"}
        /\ outbox[i].attempts \in 0 .. MaxAttempts
        /\ outbox[i].letter \in {"none", "open", "retry_pending"}
    BY EventTyped DEF IInv, RowType
  <2>2. SameEvents
    BY <1>5, <2>1, WriteStep DEF BackoffElapses, RetryDeadLetter, IInv
  <2> QED
    BY <1>5, <2>2 DEF BackoffElapses, RetryDeadLetter, CloudStep
<1> QED
  BY <1>1, <1>2, <1>3, <1>4, <1>5 DEF Next

Published == [i \in Row |-> outbox[i].event.status]

(* What is published is the sequence of the outbox's statuses.             *)
LEMMA PublishedIsSeq ==
    ASSUME IInv
    PROVE  /\ Published \in Seq(CloudStatus) /\ Len(Published) = Len(outbox)
           /\ \A i \in Row : Published[i] = outbox[i].event.status
<1>1. \A i \in Row : outbox[i].event.status \in CloudStatus
  BY EventTyped DEF IInv, EventType
<1>2. Len(outbox) \in Nat
  BY DEF IInv, TypeOK
<1> QED
  BY <1>1, <1>2 DEF Published, Row

(* Every step is a step of the feed, or none.                              *)
LEMMA FeedStep ==
    ASSUME IInv, IInv', [Next]_vars
    PROVE  [Feed!Next]_(Feed!vars)
<1> DEFINE L == Len(recorded)
<1>1. L \in Nat /\ L > 0 /\ Len(outbox) \in Nat /\ recorded \in Seq(EventType)
  BY DEF IInv, TypeOK, RecordedInv
<1>2. CASE SameEvents /\ CloudStep
  <2>1. Published' = Published
    BY <1>2 DEF Published, SameEvents, Row
  <2>2. CASE UNCHANGED cloud
    BY <2>1, <2>2 DEF Feed!vars, Published, cloud
  <2>3. CASE RecordsNext
    <3> DEFINE e == outbox[L].event
    <3>1. L \in Row /\ recorded' = Append(recorded, e) /\ mirror' = e.status /\ e \in EventType
      BY <2>3, EventTyped DEF RecordsNext, IInv
    <3>2. Len(recorded') = L + 1
      <4> HIDE DEF e
      <4> QED
        BY <1>1, <3>1, AppendProperties
    <3>3. /\ L - 1 < Len(Published)
          /\ Len(recorded') - 1 = (L - 1) + 1
          /\ mirror' = Published[(L - 1) + 1]
      BY <1>1, <3>1, <3>2, PublishedIsSeq DEF Row
    <3>4. Feed!Read
      BY <2>1, <3>3 DEF Feed!Read, Published
    <3> QED
      BY <3>4 DEF Feed!Next
  <2> QED
    BY <1>2, <2>2, <2>3 DEF CloudStep
<1>3. CASE UNCHANGED cloud /\ \E v, k, s : s \in CloudStatus /\ Appends(v, k, s)
  <2>1. PICK v, k, s : s \in CloudStatus /\ Appends(v, k, s)
    BY <1>3
  <2>2. /\ Published \in Seq(CloudStatus) /\ Published' \in Seq(CloudStatus)
        /\ Len(Published') = Len(Published) + 1
        /\ Len(Published) = Len(outbox)
    <3>1. Published' \in Seq(CloudStatus) /\ Len(Published') = Len(outbox')
      <4>1. outbox' \in Seq(RowType) /\ Len(outbox') \in Nat
        BY DEF IInv, TypeOK
      <4>2. ASSUME NEW i \in Row' PROVE outbox'[i].event.status \in CloudStatus
        <5>1. outbox'[i] \in RowType
          BY <4>1, ElementOfSeq DEF Row
        <5> QED
          BY <5>1 DEF RowType, EventType
      <4>3. Row' = 1 .. Len(outbox') /\ Published' = [i \in 1 .. Len(outbox') |-> outbox'[i].event.status]
        BY DEF Published, Row
      <4> QED
        BY <4>1, <4>2, <4>3
    <3> QED
      BY <2>1, <3>1, PublishedIsSeq DEF Appends
  <2>3. ASSUME NEW i \in 1 .. Len(Published')
        PROVE  Published'[i] = Append(Published, s)[i]
    <3>1. i \in Row' /\ Published'[i] = outbox'[i].event.status
      BY <2>1, <2>2 DEF Published, Row, Appends
    <3>2. CASE i \in Row
      BY <1>1, <2>1, <2>2, <3>1, <3>2, AppendProperties, PublishedIsSeq DEF Appends, Row
    <3>3. CASE i = Len(outbox) + 1
      BY <2>1, <2>2, <3>1, <3>3, AppendProperties DEF Appends
    <3> QED
      BY <1>1, <2>2, <3>2, <3>3 DEF Row
  <2>4. Published' = Append(Published, s)
    <3>1. Append(Published, s) \in Seq(CloudStatus)
          /\ Len(Append(Published, s)) = Len(Published')
      BY <2>1, <2>2, AppendProperties
    <3> QED
      BY <2>2, <2>3, <3>1, SeqEqual
  <2>5. Feed!Publish(s)
    BY <1>3, <2>4 DEF Feed!Publish, Published, cloud
  <2> QED
    BY <2>1, <2>5 DEF Feed!Next
<1> QED
  BY <1>2, <1>3, StepShape

(* The feed is empty at first.                                             *)
LEMMA FeedInit == Init => Feed!Init
<1> SUFFICES ASSUME Init PROVE Feed!Init
  OBVIOUS
<1>1. Len(outbox) = 0 /\ Row = {}
  BY DEF Init, Row
<1>2. Published = << >>
  BY <1>1 DEF Published
<1>3. Len(recorded) = 1 /\ mirror = Awaiting
  BY DEF Init
<1> QED
  BY <1>2, <1>3 DEF Feed!Init, Published

(* The cloud's copy follows the hub's order event by event: OrderMirror    *)
(* implements StatusFeed.                                                  *)
THEOREM ImplementsFeed == Spec => FollowsFeed
BY FeedInit, FeedStep, Invariance, PTL DEF Spec, FollowsFeed, Feed!Spec

(* No worker ever touches a row that was sent and is not retried.          *)
LEMMA SentKept ==
    ASSUME IInv, [Next]_vars, NEW i \in Row,
           outbox[i].state = "sent", outbox[i].letter = "none"
    PROVE  outbox'[i].state = "sent"
<1>1. CASE Import \/ \E target \in LocalStatus : Transition(target)
  BY <1>1, ReportStep DEF Appends
<1>2. ASSUME NEW w \in Worker, NEW j \in batch[w], Send(w, j) \/ Mishap(w, j)
      PROVE  outbox'[i].state = "sent"
  <2>1. j \in Row
    BY DEF IInv, TravelInv
  <2>2. UNCHANGED outbox \/ ~PassedOver(j)
    BY <1>2 DEF Send, Mishap, RequestLost, AnswerLost, Abandoned, Crash, Sending
  <2>3. UNCHANGED outbox \/ MarkSent(j) \/ ScheduleFailure(j, TRUE) \/ ScheduleFailure(j, FALSE)
    BY <1>2 DEF Send, Mishap, RequestLost, AnswerLost, Abandoned, Crash
  <2>4. UNCHANGED outbox \/ outbox'[i] = outbox[i]
    BY <2>1, <2>2, <2>3, SentStep, FailureStep DEF PassedOver, IInv
  <2> QED
    BY <2>4
<1>3. ASSUME NEW j \in Row, BackoffElapses(j) PROVE outbox'[i].state = "sent"
  <2>1. /\ outbox[j].state \in {"pending", "retry", "sent", "dead_letter"}
        /\ outbox[j].attempts \in 0 .. MaxAttempts
        /\ outbox[j].letter \in {"none", "open", "retry_pending"}
    BY EventTyped DEF IInv, RowType
  <2> QED
    BY <1>3, <2>1, WriteStep DEF BackoffElapses, IInv
<1>4. ASSUME NEW j \in Row, RetryDeadLetter(j) PROVE outbox'[i].state = "sent"
  <2>1. outbox[j].attempts \in 0 .. MaxAttempts /\ j # i
    BY <1>4, EventTyped DEF IInv, RowType, RetryDeadLetter
  <2>2. outbox'[i] = outbox[i]
    BY <1>4, <2>1, WriteStep DEF RetryDeadLetter, IInv
  <2> QED
    BY <2>2
<1>5. ASSUME UNCHANGED outbox PROVE outbox'[i].state = "sent"
  BY <1>5
<1> QED
  BY <1>1, <1>2, <1>3, <1>4, <1>5
     DEF Next, MarkBilled, CloseSettled, LateDelivery, Work, SelectBatch, Skip, vars

(* Two workers with stale batches never undo or repeat what was sent.      *)
THEOREM SentStays == Spec => SentStaysSent
<1>1. IInv /\ [Next]_vars =>
        [\A i \in Row : outbox[i].state = "sent" /\ outbox[i].letter = "none"
            => outbox'[i].state = "sent"]_vars
  BY SentKept
<1> QED
  BY <1>1, Invariance, PTL DEF Spec, SentStaysSent
=============================================================================
