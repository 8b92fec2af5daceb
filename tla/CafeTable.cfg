\* Two visits, two orders, two requests under way at once, bills
\* paid in up to two parts: safety.
SPECIFICATION Spec
CONSTANTS
    Session = {s1, s2}
    Order = {o1, o2}
    Request = {r1, r2}
    GrandTotal = 2
    NoSession = NoSession
    Idle = Idle
SYMMETRY MCSymmetry
INVARIANTS
    OneActiveSession
    BillsReconcile
PROPERTIES
    ChargesStand
    KeepsBook
\* When both visits are over and both orders are placed, nothing need happen.
CHECK_DEADLOCK FALSE
