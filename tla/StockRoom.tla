------------------------------ MODULE StockRoom ------------------------------
(***************************************************************************)
(* The stock of one branch: purchase orders from draft to receipt, sales,  *)
(* and manual adjustments (services/purchase_orders.py, sales.py,          *)
(* inventory.py, and the stock half of a cafe bill).                       *)
(*                                                                         *)
(* A purchase order is locked by the statement that reads it, and so are   *)
(* the inventory rows of receipts and sales: those requests are one step.  *)
(* A manual adjustment reads the level without a lock and writes an        *)
(* absolute value later, so it is two steps.  An UPDATE writes the columns *)
(* that changed: the adjustment touches on_hand, never on_order.           *)
(***************************************************************************)
EXTENDS Integers, FiniteSets, Functions

CONSTANTS Order,       \* purchase orders
          Product, Request,
          Idle,        \* a request slot nobody uses
          NoRow,       \* an adjustment found no inventory row
          Stocked,     \* products with an inventory row from the start
          MaxQuantity  \* bound, by product: the quantity of a line, a sale or
                       \* an adjustment, a level, and the sum of movements

ASSUME StockAssumption ==
    /\ IsFiniteSet(Order) /\ Stocked \subseteq Product
    /\ MaxQuantity \in [Product -> Nat \ {0}]
    /\ NoRow \notin Int

VARIABLES
    po,         \* purchase_orders: status, and the quantities of the lines
    onHand,     \* inventory.quantity_on_hand
    onOrder,    \* inventory.quantity_on_order
    rows,       \* products that have an inventory row
    moved,      \* the sum of the stock_movements of each product
    pending,    \* what the adjustments under way have read
    overwritten \* history: products whose level an adjustment replaced
                \* without having read it

vars == <<po, onHand, onOrder, rows, moved, pending, overwritten>>

PurchaseOrderStatus == {"none", "draft", "pending_approval", "approved",
                        "ordered", "partially_received", "received",
                        "cancelled"}
OPEN_ORDER_STATUSES == {"draft", "pending_approval", "approved", "ordered",
                        "partially_received"}
AtSupplier == {"ordered", "partially_received"}

(* Whole quantities; the code has two decimals.                            *)
Quantities ==
    {items \in [Product -> UNION {0..MaxQuantity[p] : p \in Product}] :
       \A p \in Product : items[p] <= MaxQuantity[p]}
NoItems == [p \in Product |-> 0]

TypeOK ==
    /\ po \in [Order -> [status : PurchaseOrderStatus,
                         ordered : Quantities, received : Quantities]]
    /\ onHand \in [Product -> Nat]
    /\ onOrder \in [Product -> Nat]
    /\ rows \subseteq Product
    /\ moved \in [Product -> Int]
    /\ pending \in [Request -> [product : Product, read : Nat \cup {NoRow}]
                                 \cup {Idle}]
    /\ overwritten \subseteq Product

Init ==
    /\ po = [o \in Order |-> [status |-> "none", ordered |-> NoItems,
                              received |-> NoItems]]
    /\ onHand = [p \in Product |-> 0]
    /\ onOrder = [p \in Product |-> 0]
    /\ rows = Stocked
    /\ moved = [p \in Product |-> 0]
    /\ pending = [r \in Request |-> Idle]
    /\ overwritten = {}

stockVars == <<onHand, onOrder, rows, moved, overwritten>>

SetStatus(o, status) ==
    /\ po' = [po EXCEPT ![o].status = status]
    /\ UNCHANGED <<stockVars, pending>>

(* A draft with the lines of set_purchase_order_items.                     *)
Drafted(items) == [status |-> "draft", ordered |-> items, received |-> NoItems]

(* remaining_quantity.                                                     *)
Remaining(o, p) == po[o].ordered[p] - po[o].received[p]

Least(a, b) == IF a < b THEN a ELSE b

(* A slip: the whole order is taken off on_order, received lines included. *)
WithdrawnSlip(o) == po[o].ordered

(* What update_quantity_on_order takes off when the order is cancelled.    *)
Withdrawn(o) == [p \in Product |-> Remaining(o, p)]

(* get_or_create_inventory locks the row of a product or inserts it.       *)
WithRows(products) == rows \cup products

(* The levels keep within the bound.                                       *)
Bounded(level) ==
    \A p \in Product : level[p] \in -MaxQuantity[p]..MaxQuantity[p]

-----------------------------------------------------------------------------
(* create_purchase_order.                                                  *)
CreatePurchaseOrder(o, items) ==
    /\ po[o].status = "none" /\ items # NoItems
    /\ po' = [po EXCEPT ![o] = Drafted(items)]
    /\ UNCHANGED <<stockVars, pending>>

(* create_purchase_orders_from_recommendations also asks for an inventory  *)
(* row of each product.                                                    *)
CreateFromRecommendations(o, items) ==
    /\ \A p \in Product : items[p] > 0 => p \in rows
    /\ CreatePurchaseOrder(o, items)

(* A slip: an order that waits for approval can be edited.                 *)
EditableSlip(o) == po[o].status \in {"draft", "pending_approval"}

(* Only draft purchase orders can be edited.                               *)
Editable(o) == po[o].status = "draft"

(* update_purchase_order replaces the lines: set_purchase_order_items.     *)
UpdatePurchaseOrder(o, items) ==
    /\ Editable(o) /\ items # NoItems
    /\ po' = [po EXCEPT ![o] = Drafted(items)]
    /\ UNCHANGED <<stockVars, pending>>

(* submit_purchase_order and approve_purchase_order.                       *)
SubmitPurchaseOrder(o) ==
    po[o].status = "draft" /\ SetStatus(o, "pending_approval")

ApprovePurchaseOrder(o) ==
    po[o].status = "pending_approval" /\ SetStatus(o, "approved")

(* mark_purchase_order_ordered: update_quantity_on_order, direction 1.     *)
MarkOrdered(o) ==
    /\ po[o].status = "approved"
    /\ po' = [po EXCEPT ![o].status = "ordered"]
    /\ onOrder' = [p \in Product |-> onOrder[p] + Remaining(o, p)]
    /\ rows' = WithRows({p \in Product : Remaining(o, p) > 0})
    /\ UNCHANGED <<onHand, moved, pending, overwritten>>

(* cancel_purchase_order: what had not arrived is no longer on order.      *)
CancelPurchaseOrder(o) ==
    /\ po[o].status \in OPEN_ORDER_STATUSES
    /\ po' = [po EXCEPT ![o].status = "cancelled"]
    /\ onOrder' = IF po[o].status \in AtSupplier
                  THEN [p \in Product |->
                          onOrder[p] - Least(onOrder[p], Withdrawn(o)[p])]
                  ELSE onOrder
    /\ UNCHANGED <<onHand, rows, moved, pending, overwritten>>

(* A slip: any quantity of the order may arrive at once.                   *)
ReceivableSlip(o, items) ==
    \A p \in Product : items[p] <= po[o].ordered[p]

(* No line receives more than what remains of it.                          *)
Receivable(o, items) == \A p \in Product : items[p] <= Remaining(o, p)

(* receive_purchase_order: on_hand and movement up, on_order down, and the *)
(* status by what remains.                                                 *)
ReceivePurchaseOrder(o, items) ==
    LET received == [p \in Product |-> po[o].received[p] + items[p]]
    IN
    /\ po[o].status \in AtSupplier
    /\ items # NoItems /\ Receivable(o, items)
    /\ onHand' = [p \in Product |-> onHand[p] + items[p]]
    /\ moved' = [p \in Product |-> moved[p] + items[p]]
    /\ Bounded(onHand') /\ Bounded(moved')
    /\ onOrder' = [p \in Product |-> onOrder[p] - Least(onOrder[p], items[p])]
    /\ po' = [po EXCEPT ![o] =
           [status |-> IF \A p \in Product : received[p] >= po[o].ordered[p]
                       THEN "received" ELSE "partially_received",
            ordered |-> po[o].ordered, received |-> received]]
    /\ UNCHANGED <<rows, pending, overwritten>>

(* A slip: the level is not compared with what is sold.                    *)
EnoughSlip(p, quantity) == p \in rows

(* The locked row has what is asked for.                                   *)
Enough(p, quantity) == p \in rows /\ onHand[p] >= quantity

(* create_sale, and the stock half of an invoice or a cafe bill.           *)
Sell(p, quantity) ==
    /\ Enough(p, quantity)
    /\ onHand' = [onHand EXCEPT ![p] = @ - quantity]
    /\ moved' = [moved EXCEPT ![p] = @ - quantity]
    /\ Bounded(moved')
    /\ UNCHANGED <<po, onOrder, rows, pending, overwritten>>

(* apply_stock_adjustment reads the level without a lock.                  *)
BeginAdjustment(r, p) ==
    /\ pending[r] = Idle
    /\ pending' = [pending EXCEPT ![r] =
           [product |-> p, read |-> IF p \in rows THEN onHand[p] ELSE NoRow]]
    /\ UNCHANGED <<po, stockVars>>

(* ... and writes what it makes of it.  If it found no row it inserts one, *)
(* which fails when another request has done so since.                     *)
CommitAdjustment(r, change) ==
    LET p == pending[r].product
        old == IF pending[r].read = NoRow THEN 0 ELSE pending[r].read
    IN
    /\ pending[r] # Idle
    /\ pending[r].read = NoRow => p \notin rows
    /\ old + change >= 0
    /\ onHand' = [onHand EXCEPT ![p] = old + change]
    /\ moved' = [moved EXCEPT ![p] = @ + change]
    /\ Bounded(onHand') /\ Bounded(moved')
    /\ rows' = rows \cup {p}
    /\ overwritten' = overwritten \cup (IF onHand[p] = old THEN {} ELSE {p})
    /\ pending' = [pending EXCEPT ![r] = Idle]
    /\ UNCHANGED <<po, onOrder>>

(* An adjustment that is refused, or breaks off.                           *)
GiveUp(r) ==
    /\ pending[r] # Idle
    /\ pending' = [pending EXCEPT ![r] = Idle]
    /\ UNCHANGED <<po, stockVars>>

Next ==
    \/ \E o \in Order, items \in Quantities :
         \/ CreatePurchaseOrder(o, items)
         \/ CreateFromRecommendations(o, items)
         \/ UpdatePurchaseOrder(o, items)
         \/ ReceivePurchaseOrder(o, items)
    \/ \E o \in Order : \/ SubmitPurchaseOrder(o) \/ ApprovePurchaseOrder(o)
                        \/ MarkOrdered(o) \/ CancelPurchaseOrder(o)
    \/ \E p \in Product : \E quantity \in 1..MaxQuantity[p] : Sell(p, quantity)
    \/ \E r \in Request, p \in Product : BeginAdjustment(r, p)
    \/ \E r \in Request : pending[r] # Idle /\
         LET most == MaxQuantity[pending[r].product]
         IN  \E change \in (-most..most) \ {0} : CommitAdjustment(r, change)
    \/ \E r \in Request : GiveUp(r)

Spec == Init /\ [][Next]_vars

-----------------------------------------------------------------------------
(* What the supplier of an order still owes of a product.                  *)
Owing(o, p) == IF po[o].status \in AtSupplier THEN Remaining(o, p) ELSE 0

(* on_order is what suppliers still owe: the remaining quantities of the   *)
(* orders placed with them, whatever was edited, cancelled, received in    *)
(* part or adjusted meanwhile; the clipping at zero never bites.           *)
OnOrderIsOwed ==
    \A p \in Product :
        onOrder[p] = SumFunctionOnSet([o \in Order |-> Owing(o, p)], Order)

(* A level is the sum of its movements unless an adjustment has replaced a *)
(* level it had not read: receipts, sales and cancellations lose nothing,  *)
(* and no level is negative.                                               *)
MovementsExplainLevel ==
    \A p \in Product : /\ onHand[p] >= 0
                       /\ p \notin overwritten => onHand[p] = moved[p]

(* An order is received when nothing remains, and never takes in more.     *)
ReceivedInFull ==
    \A o \in Order :
        /\ \A p \in Product : Remaining(o, p) >= 0
        /\ po[o].status = "received" <=>
             (/\ po[o].ordered # NoItems /\ po[o].status # "cancelled"
              /\ \A p \in Product : Remaining(o, p) = 0)

(* What is submitted is what is approved, ordered and received: the lines  *)
(* of an order do not change after the draft, what has arrived stays, and  *)
(* an order that has ended does not come back.                             *)
ApprovedAsSubmitted ==
    [][\A o \in Order : po[o].status \notin {"none", "draft"} =>
         /\ po'[o].ordered = po[o].ordered
         /\ \A p \in Product : po'[o].received[p] >= po[o].received[p]
         /\ po[o].status \in {"received", "cancelled"} => po'[o] = po[o]]_vars

(* The stock of a branch is explained: what is on order is owed, what is *)
(* there has been moved there, and orders take in what was ordered, to the*)
(* end as it was submitted.                                              *)
StockExplained ==
    /\ [](TypeOK /\ OnOrderIsOwed /\ MovementsExplainLevel /\ ReceivedInFull)
    /\ ApprovedAsSubmitted
=============================================================================
