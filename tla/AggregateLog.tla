---------------------------- MODULE AggregateLog ----------------------------
(***************************************************************************)
(* What the Local Hub promises for inbound synchronization, with no queue, *)
(* retry or worker in sight: every aggregate has a log of business         *)
(* effects, and the only thing that ever happens is that the event with    *)
(* the next version is appended to its own aggregate's log.  "At most once *)
(* per event", "no gap" and "never out of order" are all consequences.     *)
(***************************************************************************)
EXTENDS Naturals, Sequences

CONSTANTS Event,        \* the events that may be delivered
          Aggregate,    \* the (aggregate_type, aggregate_id) pairs
          AggregateOf,  \* the aggregate of an event
          VersionOf     \* its aggregate_version

VARIABLE log            \* log[a]: the committed effects of aggregate a

Init == log = [a \in Aggregate |-> << >>]

(* The effect of e is committed: e carries the next version.             *)
Commit(e) ==
    LET a == AggregateOf[e] IN
    /\ VersionOf[e] = Len(log[a]) + 1
    /\ log' = [log EXCEPT ![a] = Append(@, e)]

Next == \E e \in Event : Commit(e)

Spec == Init /\ [][Next]_log
=============================================================================
