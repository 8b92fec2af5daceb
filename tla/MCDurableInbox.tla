--------------------------- MODULE MCDurableInbox ---------------------------
(* The events DurableInbox is checked with.  Each cfg picks a set Event of *)
(* them: versions one, two and three of one aggregate, a rival for version *)
(* one, and an event of another aggregate that no handler is registered    *)
(* for.  The rivals are alike, so a run that has both may exchange them.   *)
EXTENDS DurableInbox, TLC

CONSTANTS e1, e2, e3, rival1, unknown, order, other

MCAggregateOf == [e \in Event |-> IF e = unknown THEN other ELSE order]
MCVersionOf == [e \in Event |-> CASE e = e3 -> 3 [] e = e2 -> 2 [] OTHER -> 1]
MCUnsupported == Event \cap {unknown}
Rivals == Permutations({e1, rival1})
=============================================================================
