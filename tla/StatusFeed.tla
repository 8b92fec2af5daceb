----------------------------- MODULE StatusFeed -----------------------------
(***************************************************************************)
(* What a cloud customer is promised about an order the cafe works on: the *)
(* cloud's copy reads the events the Local Hub publishes about the order   *)
(* one by one, each exactly once and in the order of publication, and what *)
(* it shows is the status of the latest one it has read.                   *)
(***************************************************************************)
EXTENDS Naturals, Sequences

CONSTANTS Status,   \* the statuses an event can carry
          Initial   \* what the cloud shows before it has read anything

VARIABLES published,  \* the events of the order, in order of publication
          read,       \* how many of them the cloud has read
          shown       \* the status the cloud shows

vars == <<published, read, shown>>

Init ==
    /\ published = << >>
    /\ read = 0
    /\ shown = Initial

Publish(s) ==
    /\ published' = Append(published, s)
    /\ UNCHANGED <<read, shown>>

Read ==
    /\ read < Len(published)
    /\ read' = read + 1
    /\ shown' = published[read + 1]
    /\ UNCHANGED published

Next == Read \/ \E s \in Status : Publish(s)

Spec == Init /\ [][Next]_vars
=============================================================================
