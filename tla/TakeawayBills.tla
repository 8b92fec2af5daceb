---------------------------- MODULE TakeawayBills ----------------------------
(***************************************************************************)
(* Takeaway and counter orders, which have no table session: taking them,  *)
(* preparing them, billing them and collecting what is due                 *)
(* (services/cafe_staff_orders.py, services/cafe_billing.py), beside the   *)
(* retail route that collects on any invoice (services/invoices.py).       *)
(*                                                                         *)
(* A bill is a request with an Idempotency-Key.  It looks for the key      *)
(* without a lock, then locks the order and the branch's invoice counter   *)
(* and keeps both to the end, so it is three steps.  A collection at the   *)
(* cafe locks the invoice first and is one step.  The retail route locks   *)
(* nothing and is two.                                                     *)
(*                                                                         *)
(* An order has one line, of one product that is kept in stock.            *)
(***************************************************************************)
EXTENDS Integers, FiniteSets, Functions

CONSTANTS Takeaway,     \* orders
          BranchOf,     \* the branch of each order
          AmountOf,     \* grand_total of its bill
          OnAccount,    \* orders billed to the customer, the rest to nobody
          BillRequest,  \* requests to bill an order
          OrderOf, BillKey, Offer, \* the order, the key, the payment of each
          Cashier,      \* collections under way at the retail counter
          Allowance,    \* the customer's credit_limit
          Shelf,        \* bound: quantity_on_hand of the product at the start
          Nobody        \* no request; a cashier at rest

ASSUME TakeawayAssumption ==
    /\ AmountOf \in [Takeaway -> Nat \ {0}] /\ OnAccount \subseteq Takeaway
    /\ BillRequest \subseteq DOMAIN OrderOf
    /\ \A b \in BillRequest : /\ OrderOf[b] \in Takeaway
                              /\ Offer[b] \in 0..AmountOf[OrderOf[b]]
    /\ IsFiniteSet(Takeaway) /\ {Nobody, "refused"} \cap Takeaway = {}
    /\ Nobody \notin BillRequest
    /\ Allowance \in Nat /\ Shelf \in Nat

VARIABLES
    takeaway, \* cafe_orders: status and version
    bill,     \* its invoice: the request that made it (billing_idempotency_-
              \* key_hash, billing_request_hash), paid_amount, the sum of its
              \* payment rows, what the ledger was credited with
    request,  \* the requests: how far they are, expected_version, the answer
    till,     \* the invoice a cashier has read, and its paid_amount
    shelf,    \* quantity_on_hand
    mixed     \* history: orders on whose invoice the retail route collected

takeawayVars == <<takeaway, bill, request, till, shelf, mixed>>

(* VALID_TRANSITIONS as far as the routes offer them for these orders.     *)
TakeawayMoves ==
    [placed    |-> {"accepted", "rejected", "cancelled"},
     accepted  |-> {"preparing", "cancelled"},
     preparing |-> {"ready", "cancelled"},
     ready     |-> {"served"},
     served    |-> {"bill_requested"}]

TakeawayStatus == {"none", "placed", "accepted", "preparing", "ready",
                   "served", "bill_requested", "billed", "closed",
                   "rejected", "cancelled"}

BillRecord == [by : BillRequest \cup {Nobody}, paid : Nat, rows : Nat,
               credit : Nat]

TakeawayTypeOK ==
    /\ takeaway \in [Takeaway -> [status : TakeawayStatus, version : Nat]]
    /\ bill \in [Takeaway -> BillRecord]
    /\ request \in [BillRequest ->
                      [at : {"new", "quoted", "looked", "numbered", "answered"},
                       version : Nat,
                       answer : Takeaway \cup {Nobody, "refused"}]]
    /\ till \in [Cashier -> [invoice : Takeaway, paid : Nat] \cup {Nobody}]
    /\ shelf \in Nat
    /\ mixed \subseteq Takeaway

TakeawayInit ==
    /\ takeaway = [o \in Takeaway |-> [status |-> "none", version |-> 0]]
    /\ bill = [o \in Takeaway |-> [by |-> Nobody, paid |-> 0, rows |-> 0,
                                   credit |-> 0]]
    /\ request = [b \in BillRequest |-> [at |-> "new", version |-> 0,
                                         answer |-> Nobody]]
    /\ till = [c \in Cashier |-> Nobody]
    /\ shelf \in 1..Shelf
    /\ mixed = {}

Billed == {o \in Takeaway : bill[o].by # Nobody}

(* Requests that hold their locks: they have a number and are not done.    *)
Numbered == {b \in BillRequest : request[b].at = "numbered"}

Locked(o) == \E b \in Numbered : OrderOf[b] = o

Move(o, status, steps) ==
    takeaway' = [takeaway EXCEPT ![o] =
                   [status |-> status, version |-> @.version + steps]]

Advance(b, at, version) ==
    request' = [request EXCEPT ![b].at = at, ![b].version = version]

Reply(b, answer) ==
    request' = [request EXCEPT ![b].at = "answered", ![b].answer = answer]

-----------------------------------------------------------------------------
(* create_staff_order for an order without a session.                      *)
PlaceTakeaway(o) ==
    /\ takeaway[o].status = "none"
    /\ Move(o, "placed", 1)
    /\ UNCHANGED <<bill, request, till, shelf, mixed>>

(* transition_order waits for the lock and compares versions.              *)
MoveTakeaway(o, target) ==
    /\ ~Locked(o)
    /\ takeaway[o].status \in DOMAIN TakeawayMoves
    /\ target \in TakeawayMoves[takeaway[o].status]
    /\ Move(o, target, 1)
    /\ UNCHANGED <<bill, request, till, shelf, mixed>>

(* The line of an order may be charged: _quote_from_rows.                  *)
Chargeable(o) ==
    takeaway[o].status \in {"accepted", "served", "bill_requested"}

(* quote_standalone_order, reviewed by a clerk.                            *)
QuoteTakeaway(b) ==
    /\ request[b].at = "new" /\ Chargeable(OrderOf[b])
    /\ Advance(b, "quoted", takeaway[OrderOf[b]].version)
    /\ UNCHANGED <<takeaway, bill, till, shelf, mixed>>

(* A request is sent again: same key, same payload.                        *)
ResendBill(b, c) ==
    /\ request[b].at = "new" /\ request[c].at # "new"
    /\ BillKey[b] = BillKey[c] /\ OrderOf[b] = OrderOf[c] /\ Offer[b] = Offer[c]
    /\ Advance(b, "quoted", request[c].version)
    /\ UNCHANGED <<takeaway, bill, till, shelf, mixed>>

(* Bills that hold the key of a request.                                   *)
WithKey(b) == {o \in Billed : BillKey[bill[o].by] = BillKey[b]}

(* _existing_idempotent_invoice compares the hash of the payload, which is *)
(* the customer and the payments, and the source; not the version that was *)
(* quoted, so that a request quoted anew is still a replay.                *)
SameBill(b, o) == o = OrderOf[b] /\ Offer[b] = Offer[bill[o].by]

(* _bill up to its locks: the key, then an invoice of the order.           *)
LookUpBill(b) ==
    /\ request[b].at = "quoted"
    /\ \/ \E o \in WithKey(b) :
            Reply(b, IF SameBill(b, o) THEN o ELSE "refused")
       \/ /\ WithKey(b) = {} /\ OrderOf[b] \in Billed
          /\ Reply(b, "refused")
       \/ /\ WithKey(b) = {} /\ OrderOf[b] \notin Billed
          /\ Advance(b, "looked", request[b].version)
    /\ UNCHANGED <<takeaway, bill, till, shelf, mixed>>

(* A slip: the counter is read without a lock.                             *)
CounterHeldSlip(b) == FALSE

(* generate_next_invoice_number: another bill of the branch has the lock.  *)
CounterHeld(b) ==
    \E c \in Numbered : BranchOf[OrderOf[c]] = BranchOf[OrderOf[b]]

(* What the customer owes for an order by the ledger, and for them all.    *)
Owes(o) ==
    IF o \in Billed \cap OnAccount
    THEN AmountOf[o] - Offer[bill[o].by] - bill[o].credit ELSE 0

Owed == SumFunctionOnSet([o \in Takeaway |-> Owes(o)], Takeaway)

(* _issue_financial_effects: nobody owes anything without an account, and  *)
(* the customer no more than the limit.                                    *)
Affordable(b) ==
    LET due == AmountOf[OrderOf[b]] - Offer[b]
    IN due > 0 => OrderOf[b] \in OnAccount /\ Owed + due <= Allowance

(* _bill from the lock on the order to the last check before the stock.    *)
LockAndNumber(b) ==
    LET o == OrderOf[b]
    IN /\ request[b].at = "looked" /\ ~Locked(o) /\ ~CounterHeld(b)
       /\ \/ /\ Chargeable(o) /\ takeaway[o].version = request[b].version
             /\ Affordable(b)
             /\ Advance(b, "numbered", request[b].version)
          \/ /\ \/ ~Chargeable(o) \/ takeaway[o].version # request[b].version
                \/ ~Affordable(b)
             /\ Reply(b, "refused")
       /\ UNCHANGED <<takeaway, bill, till, shelf, mixed>>

(* A slip: any payment settles.                                            *)
SettlesSlip(o, paid) == paid > 0

(* _close_source_if_settled.                                               *)
Settles(o, paid) == paid >= AmountOf[o]

(* A slip: no unique constraint on the key.                                *)
KeyFreeSlip(b) == TRUE

(* uq_invoices_company_billing_idempotency.                                *)
KeyFree(b) == WithKey(b) = {}

(* A slip: the product is not looked at.                                   *)
InStockSlip == TRUE

(* _apply_stock_and_sale.                                                  *)
InStock == shelf > 0

(* The rest of _bill: stock under its lock, invoice, payment row, ledger,  *)
(* order.  If the key is taken, or the stock is short, all is rolled back. *)
CommitBill(b) ==
    LET o == OrderOf[b]
    IN /\ request[b].at = "numbered"
       /\ \/ /\ KeyFree(b) /\ InStock
             /\ bill' = [bill EXCEPT ![o] = [by |-> b, paid |-> Offer[b],
                                             rows |-> Offer[b], credit |-> 0]]
             /\ shelf' = shelf - 1
             /\ IF Settles(o, Offer[b]) THEN Move(o, "closed", 2)
                                        ELSE Move(o, "billed", 1)
             /\ Reply(b, o)
          \/ /\ ~KeyFree(b) \/ ~InStock
             /\ Reply(b, "refused")
             /\ UNCHANGED <<takeaway, bill, shelf>>
       /\ UNCHANGED <<till, mixed>>

(* The rows a payment adds, and what it leaves in paid_amount.             *)
Paid(o, amount, before) ==
    bill' = [bill EXCEPT ![o] =
               [by |-> @.by, paid |-> before + amount, rows |-> @.rows + amount,
                credit |-> IF o \in OnAccount THEN @.credit + amount
                                              ELSE @.credit]]

(* A slip: any amount up to the total.                                     *)
OpenBalanceSlip(o) == 1..AmountOf[o]

(* Amounts up to the balance.                                              *)
OpenBalance(o) == 1..(AmountOf[o] - bill[o].paid)

(* collect_invoice_payment.                                                *)
CollectTakeaway(o, amount) ==
    /\ o \in Billed /\ bill[o].paid < AmountOf[o] /\ amount \in OpenBalance(o)
    /\ Paid(o, amount, bill[o].paid)
    /\ IF Settles(o, bill[o].paid + amount) /\ takeaway[o].status = "billed"
       THEN Move(o, "closed", 1)
       ELSE UNCHANGED takeaway
    /\ UNCHANGED <<request, till, shelf, mixed>>

(* add_invoice_payment reads an invoice with a balance.                    *)
ReadAtTill(c, o) ==
    /\ till[c] = Nobody /\ o \in Billed /\ bill[o].paid < AmountOf[o]
    /\ till' = [till EXCEPT ![c] = [invoice |-> o, paid |-> bill[o].paid]]
    /\ UNCHANGED <<takeaway, bill, request, shelf, mixed>>

(* ... and writes what follows from it.  It knows no cafe orders.          *)
CollectAtTill(c, amount) ==
    /\ till[c] # Nobody
    /\ LET o == till[c].invoice
       IN /\ amount \in 1..(AmountOf[o] - till[c].paid)
          /\ Paid(o, amount, till[c].paid)
          /\ mixed' = mixed \cup {o}
    /\ till' = [till EXCEPT ![c] = Nobody]
    /\ UNCHANGED <<takeaway, request, shelf>>

TakeawayNext ==
    \/ \E o \in Takeaway :
         \/ PlaceTakeaway(o)
         \/ \E target \in TakeawayStatus : MoveTakeaway(o, target)
         \/ \E amount \in 1..AmountOf[o] : CollectTakeaway(o, amount)
         \/ \E c \in Cashier : ReadAtTill(c, o)
         \/ \E c \in Cashier, amount \in 1..AmountOf[o] : CollectAtTill(c, amount)
    \/ \E b \in BillRequest :
         \/ QuoteTakeaway(b) \/ LookUpBill(b) \/ LockAndNumber(b)
         \/ CommitBill(b)
         \/ \E c \in BillRequest : ResendBill(b, c)

TakeawaySpec == TakeawayInit /\ [][TakeawayNext]_takeawayVars

-----------------------------------------------------------------------------
(* Keys: one invoice per key, and a request that is answered with an       *)
(* invoice gets that of its own order, key and payment, however requests   *)
(* with one key overlap and whatever each of them was quoted (_bill).      *)
KeysAnswerTheirBill ==
    /\ \A o, p \in Billed : BillKey[bill[o].by] = BillKey[bill[p].by] => o = p
    /\ \A b \in BillRequest : request[b].answer \in Takeaway =>
         LET o == request[b].answer
         IN /\ o = OrderOf[b] /\ o \in Billed
            /\ BillKey[bill[o].by] = BillKey[b] /\ Offer[bill[o].by] = Offer[b]

(* An order is closed only when payment rows cover its bill, whatever the  *)
(* retail route has overwritten in paid_amount; and it is billed or closed *)
(* exactly if it has an invoice (_close_source_if_settled).                *)
ClosedIsPaidFor ==
    \A o \in Takeaway :
      /\ takeaway[o].status \in {"billed", "closed"} <=> o \in Billed
      /\ takeaway[o].status = "closed" => bill[o].rows >= AmountOf[o]

(* Where only the cafe collects, its lock keeps the books exact:           *)
(* paid_amount is the sum of the rows, never beyond the total, and the     *)
(* order is closed as soon as they meet (collect_invoice_payment).         *)
CafeCollectsExactly ==
    \A o \in Billed \ mixed :
      /\ bill[o].paid = bill[o].rows /\ bill[o].rows <= AmountOf[o]
      /\ takeaway[o].status = "closed" <=> bill[o].rows = AmountOf[o]

(* The counter's lock covers the credit check: bills of one branch, at     *)
(* whatever moment they are issued, never take the customer over the limit *)
(* (_create_invoice_and_items before _issue_financial_effects).            *)
CreditKept ==
    (\A o, p \in Takeaway : BranchOf[o] = BranchOf[p]) => Owed <= Allowance

(* The bills of takeaway orders, by whatever keys, cashiers and routes: one*)
(* for each key, closed when paid for, exact where only the cafe collects,*)
(* and within the customer's credit.                                     *)
TakeawayBooks ==
    /\ TakeawayTypeOK
    /\ KeysAnswerTheirBill /\ ClosedIsPaidFor
    /\ CafeCollectsExactly /\ CreditKept
=============================================================================
