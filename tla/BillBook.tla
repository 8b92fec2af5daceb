------------------------------ MODULE BillBook ------------------------------
(***************************************************************************)
(* What an owner is promised about bills: an item is charged on at most    *)
(* one bill, a bill that has been written is never rewritten, and it is    *)
(* settled at most once.                                                   *)
(***************************************************************************)
CONSTANTS Bill,  \* at most one bill for each source
          Item   \* what can be charged

VARIABLES charged,  \* the items on each bill; none if it is not written
          settled   \* the bills that have been paid in full

vars == <<charged, settled>>

Init ==
    /\ charged = [b \in Bill |-> {}]
    /\ settled = {}

Uncharged == Item \ UNION {charged[b] : b \in Bill}

Charge(b, items) ==
    /\ charged[b] = {}
    /\ items # {}
    /\ items \subseteq Uncharged
    /\ charged' = [charged EXCEPT ![b] = items]

Write(b, items) == Charge(b, items) /\ settled' \in {settled, settled \cup {b}}

Settle(b) ==
    /\ charged[b] # {}
    /\ b \notin settled
    /\ settled' = settled \cup {b}
    /\ UNCHANGED charged

Next ==
    \E b \in Bill :
        \/ Settle(b)
        \/ \E items \in SUBSET Item : Write(b, items)

Spec == Init /\ [][Next]_vars
=============================================================================
