---------------------------- MODULE RetailCounter ----------------------------
(***************************************************************************)
(* The retail counter: draft invoices, their issue, collection and         *)
(* cancellation, the stock they take and the customer accounts they debit  *)
(* (services/invoices.py, services/customers.py).                          *)
(*                                                                         *)
(* Invoices and customers are read without a lock, so those requests are   *)
(* two steps: what `pending' holds was true when it was read.  Only the    *)
(* stock row is locked, from the check of an issue to its commit, so an    *)
(* issue is three steps: read, check under the lock, commit.  An update    *)
(* writes the columns that differ from what was read, and no others.       *)
(*                                                                         *)
(* An invoice has one line of quantity one, of a product that is kept in   *)
(* stock or of a service.  Its total is a constant of the invoice.         *)
(***************************************************************************)
EXTENDS Integers, FiniteSets, Functions

CONSTANTS Invoice, Customer, Request,
          Product,      \* products kept in stock
          Service,      \* the item of an invoice that takes no stock
          Walkin,       \* the buyer of an invoice without a customer
          Idle,         \* a request slot nobody uses
          Buyer,        \* the customer of each invoice, or Walkin
          Item,         \* what each invoice sells
          Total,        \* grand_total
          StartingStock,
          CreditLimit,
          MaxOpening,   \* bound: opening balances a manager enters, and what
                        \* the ledger may hold of them
          MaxReceipts   \* bound: money received on account

ASSUME CounterAssumption ==
    /\ IsFiniteSet(Invoice)
    /\ Walkin \notin Customer /\ Service \notin Product
    /\ Buyer \in [Invoice -> Customer \cup {Walkin}]
    /\ Item \in [Invoice -> Product \cup {Service}]
    /\ Total \in [Invoice -> Nat \ {0}]
    /\ StartingStock \in Nat /\ CreditLimit \in Nat
    /\ MaxOpening \in Nat /\ MaxReceipts \in Nat

VARIABLES
    invoice, \* status and paid_amount; balance_due is the rest of the total
    books,   \* what an invoice left elsewhere: its sale row, the payment rows,
             \* and its debit and credits in the customer's ledger
    stock,   \* quantity_on_hand
    account, \* customers: is_active, opening_balance; ledger entries that are
             \* not an invoice's: openings and receipts on account
    pending  \* what the requests under way have read

vars == <<invoice, books, stock, account, pending>>

Collectable == {"credit", "partial_paid", "paid"}
InvoiceStatus == {"none", "draft", "cancelled"} \cup Collectable

InvoiceRequest == [kind : {"issue", "checkout", "reserved", "cancel", "collect"},
                   invoice : Invoice, status : InvoiceStatus, paid : Nat,
                   seen : Int]
AccountRequest == [kind : {"opening"}, customer : Customer, opening : Nat]

TypeOK ==
    /\ invoice \in [Invoice -> [status : InvoiceStatus, paid : Nat]]
    /\ books \in [Invoice -> [sold : BOOLEAN, rows : Nat, debit : Nat,
                              credit : Nat]]
    /\ stock \in [Product -> Nat]
    /\ account \in [Customer -> [active : BOOLEAN, opening : Nat,
                                 openings : Int, receipts : Nat]]
    /\ pending \in [Request -> InvoiceRequest \cup AccountRequest \cup {Idle}]

Init ==
    /\ invoice = [i \in Invoice |-> [status |-> "none", paid |-> 0]]
    /\ books = [i \in Invoice |-> [sold |-> FALSE, rows |-> 0, debit |-> 0,
                                   credit |-> 0]]
    /\ stock = [p \in Product |-> StartingStock]
    /\ account = [c \in Customer |-> [active |-> TRUE, opening |-> 0,
                                      openings |-> 0, receipts |-> 0]]
    /\ pending = [r \in Request |-> Idle]

Underway(r, kind) == pending[r] # Idle /\ pending[r].kind = kind
Finish(r) == pending' = [pending EXCEPT ![r] = Idle]

Begin(r, kind, i, paid, seen) ==
    /\ pending' = [pending EXCEPT ![r] =
                     [kind |-> kind, invoice |-> i,
                      status |-> invoice[i].status, paid |-> paid,
                      seen |-> seen]]
    /\ UNCHANGED <<invoice, books, stock, account>>

(* The buyer may be billed: validate_branch_customer.                      *)
Billable(i) == Buyer[i] # Walkin => account[Buyer[i]].active

(* What the invoices of c still owe by the ledger.                         *)
InvoiceDebt(c) ==
    SumFunctionOnSet([i \in Invoice |-> books[i].debit - books[i].credit],
                     {i \in Invoice : Buyer[i] = c})

(* calculate_customer_outstanding.                                         *)
Outstanding(c) ==
    InvoiceDebt(c) + account[c].openings - account[c].receipts

(* Only a customer may owe, and only within the limit:                     *)
(* issue_invoice_record and validate_customer_credit_limit.                *)
WithinLimit(i, due) ==
    due > 0 => /\ Buyer[i] # Walkin
               /\ account[Buyer[i]].active
               /\ Outstanding(Buyer[i]) + due <= CreditLimit

(* A slip: the stock row is read without a lock.                           *)
StockHeldForSlip(i) == Item[i] # Service => stock[Item[i]] >= 1

(* validate_stock_for_invoice: the row is locked, nobody else holds it,    *)
(* and it has enough.                                                      *)
StockHeldFor(i) ==
    Item[i] # Service =>
        /\ \A q \in Request :
             Underway(q, "reserved") => Item[pending[q].invoice] # Item[i]
        /\ stock[Item[i]] >= 1

(* generate_next_invoice_number locks the counter of the branch until the  *)
(* transaction ends: one checkout at a time, and no draft beside it.       *)
CounterFree ==
    \A q \in Request :
        /\ ~Underway(q, "checkout")
        /\ Underway(q, "reserved") => pending[q].status # "none"

(* A slip: the sale number is not unique.                                  *)
NumberUnusedSlip(i) == TRUE

(* create_sales_compatibility_record: the sale number names the invoice    *)
(* and is unique, so a second issue of an invoice is rolled back.          *)
NumberUnused(i) == ~books[i].sold

(* invoice_status_for_payment.                                             *)
StatusForPayment(i, paid) ==
    IF paid >= Total[i] THEN "paid"
    ELSE IF paid > 0 THEN "partial_paid" ELSE "credit"

-----------------------------------------------------------------------------
(* create_invoice: draft, number and lines in one transaction.             *)
CreateInvoice(i) ==
    /\ invoice[i].status = "none"
    /\ Billable(i) /\ CounterFree
    /\ invoice' = [invoice EXCEPT ![i].status = "draft"]
    /\ UNCHANGED <<books, stock, account, pending>>

(* issue_invoice reads a draft.                                            *)
BeginIssue(r, i) ==
    /\ pending[r] = Idle /\ invoice[i].status = "draft"
    /\ Begin(r, "issue", i, 0, 0)

(* pos_checkout: the draft it creates is seen by nobody else before the    *)
(* commit.                                                                 *)
BeginCheckout(r, i) ==
    /\ pending[r] = Idle /\ invoice[i].status = "none"
    /\ Billable(i) /\ CounterFree
    /\ Begin(r, "checkout", i, 0, 0)

(* issue_invoice_record up to its writes: the stock, the payments that     *)
(* come with the issue, the customer's limit.                              *)
ReserveStock(r, paid) ==
    /\ Underway(r, "issue") \/ Underway(r, "checkout")
    /\ LET i == pending[r].invoice IN
         /\ StockHeldFor(i)
         /\ paid <= Total[i]
         /\ WithinLimit(i, Total[i] - paid)
         /\ pending' = [pending EXCEPT ![r] =
              [kind |-> "reserved", invoice |-> i,
               status |-> pending[r].status, paid |-> paid,
               seen |-> IF Buyer[i] = Walkin THEN 0
                        ELSE InvoiceDebt(Buyer[i])]]
    /\ UNCHANGED <<invoice, books, stock, account>>

(* issue_invoice_record, the writes and the commit.                        *)
CommitIssue(r) ==
    /\ Underway(r, "reserved")
    /\ LET i == pending[r].invoice
           paid == pending[r].paid
       IN /\ NumberUnused(i)
          /\ invoice' = [invoice EXCEPT ![i] =
                 [status |-> StatusForPayment(i, paid), paid |-> paid]]
          /\ books' = [books EXCEPT ![i] =
                 [sold |-> TRUE, rows |-> @.rows + paid,
                  debit |-> @.debit +
                      IF Buyer[i] = Walkin THEN 0 ELSE Total[i] - paid,
                  credit |-> @.credit]]
          /\ stock' = [p \in Product |->
                 IF p = Item[i] THEN stock[p] - 1 ELSE stock[p]]
    /\ Finish(r)
    /\ UNCHANGED account

(* cancel_invoice reads a draft.                                           *)
BeginCancel(r, i) ==
    /\ pending[r] = Idle /\ invoice[i].status = "draft"
    /\ Begin(r, "cancel", i, 0, 0)

(* ... and writes its status, whatever it has become.                      *)
CommitCancel(r) ==
    /\ Underway(r, "cancel")
    /\ invoice' = [invoice EXCEPT ![pending[r].invoice].status = "cancelled"]
    /\ Finish(r)
    /\ UNCHANGED <<books, stock, account>>

(* add_invoice_payment reads an invoice with a balance.                    *)
BeginCollect(r, i) ==
    /\ pending[r] = Idle
    /\ invoice[i].status \in Collectable /\ invoice[i].paid < Total[i]
    /\ Begin(r, "collect", i, invoice[i].paid, 0)

(* A slip: any amount up to the total is taken.                            *)
AmountsDueSlip(r) == 1..Total[pending[r].invoice]

(* Amounts that do not exceed the balance the request has read.            *)
AmountsDue(r) == 1..(Total[pending[r].invoice] - pending[r].paid)

(* A slip: the ledger is credited with the balance instead of the payment. *)
CreditedSlip(i, paid, amount) ==
    IF Buyer[i] = Walkin THEN 0 ELSE Total[i] - paid

(* add_customer_ledger_entry for a payment.                                *)
Credited(i, paid, amount) == IF Buyer[i] = Walkin THEN 0 ELSE amount

(* add_invoice_payment, the rest: a payment row, the new paid amount, the  *)
(* status if it differs from the one that was read, a ledger credit.       *)
CommitCollect(r, amount) ==
    /\ Underway(r, "collect")
    /\ amount \in AmountsDue(r)
    /\ LET i == pending[r].invoice
           paid == pending[r].paid + amount
           status == StatusForPayment(i, paid)
       IN /\ invoice' = [invoice EXCEPT ![i] =
                 [status |-> IF status = pending[r].status THEN @.status
                             ELSE status,
                  paid |-> paid]]
          /\ books' = [books EXCEPT ![i] =
                 [sold |-> @.sold, rows |-> @.rows + amount,
                  debit |-> @.debit,
                  credit |-> @.credit + Credited(i, pending[r].paid, amount)]]
    /\ Finish(r)
    /\ UNCHANGED <<stock, account>>

(* record_customer_payment: a receipt on account, whatever is owed.        *)
RecordCustomerPayment(c) ==
    /\ account[c].active /\ account[c].receipts < MaxReceipts
    /\ account' = [account EXCEPT ![c].receipts = @ + 1]
    /\ UNCHANGED <<invoice, books, stock, pending>>

(* update_customer reads the opening balance.                              *)
BeginUpdateCustomer(r, c) ==
    /\ pending[r] = Idle
    /\ pending' = [pending EXCEPT ![r] =
                     [kind |-> "opening", customer |-> c,
                      opening |-> account[c].opening]]
    /\ UNCHANGED <<invoice, books, stock, account>>

(* ... and enters the difference from what it has read in the ledger.      *)
CommitUpdateCustomer(r, opening, active) ==
    /\ Underway(r, "opening")
    /\ LET c == pending[r].customer
           delta == opening - pending[r].opening
       IN /\ account[c].openings + delta \in -MaxOpening..MaxOpening
          /\ account' = [account EXCEPT ![c] =
                 [active |-> active,
                  opening |-> IF delta = 0 THEN @.opening ELSE opening,
                  openings |-> @.openings + delta,
                  receipts |-> @.receipts]]
    /\ Finish(r)
    /\ UNCHANGED <<invoice, books, stock>>

(* deactivate_customer.                                                    *)
DeactivateCustomer(c) ==
    /\ account[c].active
    /\ account' = [account EXCEPT ![c].active = FALSE]
    /\ UNCHANGED <<invoice, books, stock, pending>>

(* A request that is refused, or breaks off: its transaction is rolled     *)
(* back.                                                                   *)
GiveUp(r) ==
    /\ pending[r] # Idle
    /\ Finish(r)
    /\ UNCHANGED <<invoice, books, stock, account>>

Next ==
    \/ \E i \in Invoice : CreateInvoice(i)
    \/ \E r \in Request, i \in Invoice :
         \/ BeginIssue(r, i) \/ BeginCheckout(r, i)
         \/ BeginCancel(r, i) \/ BeginCollect(r, i)
    \/ \E r \in Request, i \in Invoice : \E paid \in 0..Total[i] :
         pending[r] # Idle /\ ReserveStock(r, paid)
    \/ \E r \in Request : CommitIssue(r) \/ CommitCancel(r) \/ GiveUp(r)
    \/ \E r \in Request, i \in Invoice : \E amount \in 1..Total[i] :
         CommitCollect(r, amount)
    \/ \E c \in Customer : RecordCustomerPayment(c) \/ DeactivateCustomer(c)
    \/ \E r \in Request, c \in Customer : BeginUpdateCustomer(r, c)
    \/ \E r \in Request, opening \in 0..MaxOpening, active \in BOOLEAN :
         CommitUpdateCustomer(r, opening, active)

Spec == Init /\ [][Next]_vars

-----------------------------------------------------------------------------
Sold == {i \in Invoice : books[i].sold}

(* Stock is taken exactly once for each sale row and never oversold, also  *)
(* when two clerks issue the same draft, or one cancels what the other     *)
(* issues.                                                                 *)
StockAccountsForSales ==
    \A p \in Product :
        /\ stock[p] = StartingStock - Cardinality({i \in Sold : Item[i] = p})
        /\ stock[p] >= 0

(* The ledger follows the money and not the invoice row: whatever two      *)
(* collections overwrite in paid_amount, a customer owes for an invoice    *)
(* its total less every payment row; a walk-in owes nothing and has paid.  *)
LedgerFollowsMoney ==
    \A i \in Invoice :
        LET due == books[i].debit - books[i].credit IN
        IF ~books[i].sold THEN due = 0 /\ books[i].rows = 0
        ELSE IF Buyer[i] = Walkin THEN due = 0 /\ books[i].rows = Total[i]
        ELSE due = Total[i] - books[i].rows

(* A lost update can only lose: the invoice row never claims more money    *)
(* than its payment rows hold, nor more than its total.                    *)
RowNeverOverstates ==
    \A i \in Invoice : /\ invoice[i].paid <= books[i].rows
                       /\ invoice[i].paid <= Total[i]

(* The credit check stays true until the commit where the stock lock       *)
(* covers it: if all invoices of a customer sell one stocked product, none *)
(* of them adds to what the check has seen while another is being issued.  *)
CreditCheckHolds ==
    \A r \in Request : Underway(r, "reserved") =>
        LET i == pending[r].invoice IN
        (/\ Buyer[i] # Walkin /\ Item[i] # Service
         /\ \A j \in Invoice : Buyer[j] = Buyer[i] => Item[j] = Item[i])
        => InvoiceDebt(Buyer[i]) <= pending[r].seen

(* An invoice is issued once, although the status DRAFT is read without a  *)
(* lock: its sale row stays, its debit is never changed, and a walk-in's   *)
(* invoice, paid when it is issued, takes no further payment row.          *)
IssuedOnce ==
    [][\A i \in Sold :
         /\ books'[i].sold /\ books'[i].debit = books[i].debit
         /\ Buyer[i] = Walkin => books'[i] = books[i]]_vars

(* The books of the counter, whatever two clerks do with one invoice: stock*)
(* and ledger account for every sale and every payment, the invoice row  *)
(* does not overstate them, and the credit check is still true when it   *)
(* counts.                                                               *)
CounterBooks ==
    /\ TypeOK
    /\ StockAccountsForSales /\ LedgerFollowsMoney
    /\ RowNeverOverstates /\ CreditCheckHolds
=============================================================================
