------------------------------ MODULE CafeTable ------------------------------
(***************************************************************************)
(* One cafe table: the sessions of its successive visits, the orders and   *)
(* bill requests of guests and staff, billing, payment and closing         *)
(* (services/cafe.py, public_cafe.py, public_cafe_entry.py,                *)
(* public_cafe_ordering.py, cafe_order_engine.py, cafe_staff_orders.py,    *)
(* cafe_bill_request.py, cafe_billing.py, invoices.py).                    *)
(*                                                                         *)
(* A request that locks its rows in the statement that first reads them is *)
(* one step: what it decides on is still true when it commits.  Four       *)
(* requests are two steps, because they decide on a row they read without  *)
(* a lock: an order (the session is locked later, but a locking select of  *)
(* an object the ORM session already holds does not refresh it), a guest's *)
(* bill request (likewise), closing by staff and a payment by the retail   *)
(* route (no lock at all).  `pending' is what such a request has read.  A  *)
(* bill is two steps because the clerk reviews a quote first.              *)
(*                                                                         *)
(* All lines of an order move together and are billed together, so an      *)
(* order stands for its lines.  Every bill comes to the same total, and    *)
(* may be paid in parts.  Of an invoice's amounts paid_amount is kept: the *)
(* balance is written with it, and decides.                                *)
(***************************************************************************)
EXTENDS Integers

CONSTANTS Session,   \* visits to the table: table_sessions rows
          Order,     \* orders, each with its own idempotency key
          Request,   \* requests and clerks at work at the same time
          GrandTotal, \* invoices.grand_total of a bill
          NoSession, \* an order that is not placed, or not billed
          Idle       \* a request slot nobody uses

ASSUME TableAssumption == NoSession \notin Session /\ GrandTotal \in Nat \ {0}

VARIABLES
    session, \* table_sessions: status and version; "none" before the visit
    order,   \* cafe_orders: status, session, and the session whose invoice
             \* charges it (billed_invoice_id)
    invoice, \* invoices: the active one of each session, its paid_amount and
             \* the sum of its invoice_payments rows
    pending, \* what the requests under way have read
    mixed    \* history: invoices whose paid_amount a payment wrote that had
             \* read another one

vars == <<session, order, invoice, pending, mixed>>

Active == {"open", "bill_requested", "billed"}
Ended == {"closed", "cancelled"}

(* VALID_TRANSITIONS as far as the routes offer them for dine-in orders. *)
ValidTransitions ==
    [placed    |-> {"accepted", "rejected", "cancelled"},
     accepted  |-> {"preparing", "cancelled"},
     preparing |-> {"ready", "cancelled"},
     ready     |-> {"served"}]

OrderStatus == {"none", "placed", "accepted", "preparing", "ready", "served",
                "bill_requested", "billed", "closed", "rejected", "cancelled"}

EligibleOrderStatuses == {"accepted", "served", "bill_requested"}

(* What a request has read of a visit: the version of its session, or the  *)
(* paid_amount of its invoice.                                             *)
PendingType == [kind : {"order", "guest_bill", "close", "bill", "payment"},
                session : Session, read : Nat]

InvoiceType == [status : {"none", "issued"}, paid : Nat, rows : Nat]

TypeOK ==
    /\ session \in [Session -> [status : Active \cup Ended \cup {"none"},
                                version : Nat]]
    /\ order \in [Order -> [status : OrderStatus,
                            session : Session \cup {NoSession},
                            bill : Session \cup {NoSession}]]
    /\ invoice \in [Session -> InvoiceType]
    /\ pending \in [Request -> PendingType \cup {Idle}]
    /\ mixed \subseteq Session

Init ==
    /\ session = [s \in Session |-> [status |-> "none", version |-> 0]]
    /\ order = [o \in Order |-> [status |-> "none", session |-> NoSession,
                                 bill |-> NoSession]]
    /\ invoice = [s \in Session |-> [status |-> "none", paid |-> 0, rows |-> 0]]
    /\ pending = [r \in Request |-> Idle]
    /\ mixed = {}

(* A slip: an index that forgets billed sessions.                          *)
TableFreeForSlip(s) ==
    \A t \in Session \ {s} : session[t].status \notin {"open", "bill_requested"}

(* The unique index uq_table_sessions_one_active_per_table lets s become   *)
(* active.                                                                 *)
TableFreeFor(s) == \A t \in Session \ {s} : session[t].status \notin Active

SetSession(s, status, version) ==
    session' = [session EXCEPT ![s] = [status |-> status, version |-> version]]

(* Orders of s that a bill may charge: _quote_from_rows.  The status of    *)
(* the lines follows that of their order.                                  *)
Eligible(s) ==
    {o \in Order : /\ order[o].session = s
                   /\ order[o].bill = NoSession
                   /\ order[o].status \in EligibleOrderStatuses}

Charged(s) == {o \in Order : order[o].bill = s}

SetStatus(orders, status) ==
    order' = [o \in Order |->
                IF o \in orders THEN [order[o] EXCEPT !.status = status]
                                ELSE order[o]]

Begin(r, kind, s, read) ==
    /\ pending[r] = Idle
    /\ pending' = [pending EXCEPT ![r] =
                     [kind |-> kind, session |-> s, read |-> read]]
    /\ UNCHANGED <<session, order, invoice, mixed>>

Underway(r, kind) == pending[r] # Idle /\ pending[r].kind = kind

Finish(r) == pending' = [pending EXCEPT ![r] = Idle]

-----------------------------------------------------------------------------
(* A guest scans the code of a table without an active session, or staff   *)
(* seat a party.  The index decides between two who do so at once.         *)
OpenTableSession(s) ==
    /\ session[s].status = "none"
    /\ TableFreeFor(s)
    /\ SetSession(s, "open", 1)
    /\ UNCHANGED <<order, invoice, pending, mixed>>

(* require_guest_context with require_open, or _session_for_staff_order:   *)
(* the request has seen an open session.                                   *)
BeginOrder(r, s) ==
    /\ session[s].status = "open"
    /\ Begin(r, "order", s, session[s].version)

(* create_order_snapshot: takes the lock, looks at the status read before, *)
(* inserts.  An order whose key is taken is replayed or refused.           *)
PlaceOrder(r, o) ==
    /\ Underway(r, "order")
    /\ order[o].status = "none"
    /\ order' = [order EXCEPT ![o] = [status |-> "placed",
                                      session |-> pending[r].session,
                                      bill |-> NoSession]]
    /\ Finish(r)
    /\ UNCHANGED <<session, invoice, mixed>>

(* request_public_bill, up to the lock.  A request that has read another   *)
(* status than open changes nothing.                                       *)
BeginGuestBill(r, s) ==
    /\ session[s].status = "open"
    /\ Begin(r, "guest_bill", s, session[s].version)

(* request_public_bill, from the lock on: writes what follows from the     *)
(* status and version read before, unless the index objects.               *)
RequestPublicBill(r) ==
    /\ Underway(r, "guest_bill")
    /\ LET s == pending[r].session
       IN  IF TableFreeFor(s)
           THEN SetSession(s, "bill_requested", pending[r].read + 1)
           ELSE UNCHANGED session
    /\ Finish(r)
    /\ UNCHANGED <<order, invoice, mixed>>

(* close_table_session, which checks the status and the expected version   *)
(* of a row it does not lock.                                              *)
BeginClose(r, s) ==
    /\ session[s].status \in Active
    /\ Begin(r, "close", s, session[s].version)

CloseTableSession(r, status) ==
    /\ Underway(r, "close")
    /\ status \in Ended
    /\ SetSession(pending[r].session, status, pending[r].read + 1)
    /\ Finish(r)
    /\ UNCHANGED <<order, invoice, mixed>>

(* A slip: a cancellation that does not look at the order's status.        *)
TransitionOrderSlip(o, target) ==
    /\ order[o].status # "none"
    /\ \/ target = "cancelled"
       \/ /\ order[o].status \in DOMAIN ValidTransitions
          /\ target \in ValidTransitions[order[o].status]
    /\ SetStatus({o}, target)
    /\ UNCHANGED <<session, invoice, pending, mixed>>

(* transition_order.  The order's version check makes it one step.         *)
TransitionOrder(o, target) ==
    /\ order[o].status \in DOMAIN ValidTransitions
    /\ target \in ValidTransitions[order[o].status]
    /\ SetStatus({o}, target)
    /\ UNCHANGED <<session, invoice, pending, mixed>>

(* request_table_session_bill, by staff: session and orders are locked.    *)
RequestTableSessionBill(s) ==
    LET active == {o \in Order : /\ order[o].session = s
                                 /\ order[o].status \notin
                                      {"rejected", "cancelled", "closed"}}
    IN  /\ session[s].status = "open"
        /\ active # {}
        /\ \A o \in active : order[o].status = "served"
        /\ SetStatus(active, "bill_requested")
        /\ SetSession(s, "bill_requested", session[s].version + 1)
        /\ UNCHANGED <<invoice, pending, mixed>>

(* quote_table_session: what the clerk reviews.  The billing page offers   *)
(* no checkout of an empty quote.                                          *)
BeginBill(r, s) ==
    /\ Eligible(s) # {}
    /\ Begin(r, "bill", s, session[s].version)

(* What is still due, by paid_amount.                                      *)
Balance(s) == GrandTotal - invoice[s].paid

(* _mark_billed and, if the payments cover the bill,                       *)
(* _close_source_if_settled.                                               *)
Charge(s, orders, paid) ==
    order' = [o \in Order |->
                IF o \in orders
                THEN [order[o] EXCEPT !.bill = s,
                                      !.status = IF paid = GrandTotal
                                                 THEN "closed" ELSE "billed"]
                ELSE order[o]]

IssueInvoice(s, paid) ==
    invoice' = [invoice EXCEPT ![s] =
                  [status |-> "issued", paid |-> paid, rows |-> paid]]

(* A slip: no look for an active invoice of the session.                   *)
BillTableSessionSlip(r, paid) ==
    /\ Underway(r, "bill")
    /\ LET s == pending[r].session
       IN  /\ session[s].status \in {"open", "bill_requested"}
           /\ session[s].version = pending[r].read
           /\ Eligible(s) # {}
           /\ Charge(s, Eligible(s), paid)
           /\ IssueInvoice(s, paid)
           /\ SetSession(s, IF paid = GrandTotal THEN "closed" ELSE "billed",
                         session[s].version + 1)
    /\ Finish(r)
    /\ UNCHANGED mixed

(* _bill for a table session: session, orders and lines are locked, and    *)
(* the session has the version that was quoted.  A customer may leave part *)
(* of the bill due, or all of it.                                          *)
BillTableSession(r, paid) ==
    /\ Underway(r, "bill")
    /\ LET s == pending[r].session
       IN  /\ session[s].status \in {"open", "bill_requested"}
           /\ session[s].version = pending[r].read
           /\ invoice[s].status = "none"
           /\ Eligible(s) # {}
           /\ Charge(s, Eligible(s), paid)
           /\ IssueInvoice(s, paid)
           /\ IF paid = GrandTotal
              THEN SetSession(s, "closed", session[s].version + 2)
              ELSE SetSession(s, "billed", session[s].version + 1)
    /\ Finish(r)
    /\ UNCHANGED mixed

(* A request that is refused or given up.                                *)
GiveUp(r) ==
    /\ pending[r] # Idle
    /\ Finish(r)
    /\ UNCHANGED <<session, order, invoice, mixed>>

(* A payment of an amount: its row, and paid_amount from what was read.    *)
Pay(s, read, amount) ==
    invoice' = [invoice EXCEPT ![s] =
                  [status |-> invoice[s].status, paid |-> read + amount,
                   rows |-> invoice[s].rows + amount]]

(* A slip: a part payment closes the visit.                                *)
CollectInvoicePaymentInPart(s, amount) ==
    /\ invoice[s].status = "issued" /\ amount \in 1..Balance(s)
    /\ Pay(s, invoice[s].paid, amount)
    /\ SetStatus({o \in Charged(s) : order[o].status = "billed"}, "closed")
    /\ SetSession(s, "closed", session[s].version + 1)
    /\ UNCHANGED <<pending, mixed>>

(* collect_invoice_payment, which locks the invoice, the session and its   *)
(* orders, and closes what the last part settles.                          *)
CollectInvoicePayment(s, amount) ==
    /\ invoice[s].status = "issued" /\ amount \in 1..Balance(s)
    /\ Pay(s, invoice[s].paid, amount)
    /\ IF amount = Balance(s)
       THEN /\ SetStatus({o \in Charged(s) : order[o].status = "billed"}, "closed")
            /\ SetSession(s, "closed", session[s].version + 1)
       ELSE UNCHANGED <<session, order>>
    /\ UNCHANGED <<pending, mixed>>

(* add_invoice_payment, the retail route, which knows no tables and locks  *)
(* nothing: it reads an invoice with a balance ...                         *)
BeginInvoicePayment(r, s) ==
    /\ invoice[s].status = "issued" /\ Balance(s) > 0
    /\ Begin(r, "payment", s, invoice[s].paid)

(* ... and writes what follows from what it has read, over a settlement    *)
(* that closed the visit too.                                              *)
AddInvoicePayment(r, amount) ==
    /\ Underway(r, "payment")
    /\ LET s == pending[r].session   read == pending[r].read
       IN  /\ amount \in 1..(GrandTotal - read)
           /\ Pay(s, read, amount)
           /\ mixed' = IF invoice[s].paid = read THEN mixed ELSE mixed \cup {s}
    /\ Finish(r)
    /\ UNCHANGED <<session, order>>

Next ==
    \/ \E s \in Session :
         \/ OpenTableSession(s)
         \/ RequestTableSessionBill(s)
         \/ \E amount \in 1..GrandTotal : CollectInvoicePayment(s, amount)
    \/ \E r \in Request, s \in Session :
         \/ BeginOrder(r, s)
         \/ BeginGuestBill(r, s)
         \/ BeginClose(r, s)
         \/ BeginBill(r, s)
         \/ BeginInvoicePayment(r, s)
    \/ \E r \in Request :
         \/ \E o \in Order : PlaceOrder(r, o)
         \/ RequestPublicBill(r)
         \/ \E status \in Ended : CloseTableSession(r, status)
         \/ \E paid \in 0..GrandTotal : BillTableSession(r, paid)
         \/ \E amount \in 1..GrandTotal : AddInvoicePayment(r, amount)
         \/ GiveUp(r)
    \/ \E o \in Order, target \in OrderStatus : TransitionOrder(o, target)

Spec == Init /\ [][Next]_vars

-----------------------------------------------------------------------------
(* MV-FR-030: whatever stale write revives a session, the table never has  *)
(* two active ones.                                                        *)
OneActiveSession ==
    \A s, t \in Session :
        session[s].status \in Active /\ session[t].status \in Active => s = t

(* An order is billed or closed exactly if it is on an invoice, that of    *)
(* its own session, and closed only if the payments received cover it.     *)
OrderReconciles(o) ==
    /\ order[o].status \in {"billed", "closed"} <=> order[o].bill # NoSession
    /\ order[o].bill # NoSession => order[o].bill = order[o].session
    /\ order[o].status = "closed" => invoice[order[o].bill].rows >= GrandTotal

(* A session is billed only if it has an invoice, an invoice charges       *)
(* something, and nothing is received without one.  paid_amount never      *)
(* claims more than was received, and less only where the unlocked retail  *)
(* route wrote from what was no longer so: that may show a closed visit's  *)
(* invoice as partly paid and have it paid twice, and nothing else does.   *)
InvoiceReconciles(s) ==
    /\ session[s].status = "billed" => invoice[s].status = "issued"
    /\ invoice[s].status = "issued" <=> Charged(s) # {}
    /\ invoice[s].status = "none" => invoice[s].rows = 0
    /\ invoice[s].paid <= GrandTotal /\ invoice[s].paid <= invoice[s].rows
    /\ s \notin mixed => invoice[s].paid = invoice[s].rows

(* What a reconciliation compares, whatever overlaps: orders against the   *)
(* invoices that charge them, and these against the payments received.     *)
BillsReconcile ==
    /\ \A o \in Order : OrderReconciles(o)
    /\ \A s \in Session : InvoiceReconciles(s)

(* Once charged, an order is only ever closed, by what settles its         *)
(* invoice: neither the kitchen nor a late request or payment touches it.  *)
ChargesStand ==
    [][\A o \in Order : order[o].bill # NoSession /\ order'[o] # order[o] =>
          /\ order'[o] = [order[o] EXCEPT !.status = "closed"]
          /\ invoice'[order[o].bill].paid = GrandTotal]_vars

(* The bills that the payments received cover.                             *)
Settled == {s \in Session : invoice[s].rows >= GrandTotal}

(* The owner's promise: every order is charged at most once, bills stand,  *)
(* and a bill that payments have covered stays covered, whatever its       *)
(* paid_amount is set back to.                                             *)
Book == INSTANCE BillBook
          WITH Bill <- Session, Item <- Order,
               charged <- [s \in Session |-> Charged(s)],
               settled <- Settled

KeepsBook == Book!Spec

-----------------------------------------------------------------------------
(* Two things the documents promise and the code does not keep.            *)

(* MV-FR-035: no request of a guest or of staff reopens a session that has *)
(* ended.                                                                  *)
EndedStaysEnded ==
    [][\A s \in Session : session[s].status \in Ended
          => session'[s].status \in Ended]_vars

(* A session with an invoice is closed only once the invoice is settled. *)
ClosedMeansSettled ==
    \A s \in Session : session[s].status = "closed" /\ invoice[s].status = "issued"
                         => Balance(s) = 0
=============================================================================
