-------------------------- MODULE BackOfficeProofs --------------------------
(*************************************************************************)
(* What is proved of stock and purchase orders, the tax profile, invoice *)
(* numbers and the reorder advice, for every value of their constants.   *)
(*************************************************************************)
EXTENDS StockRoom, TaxOperation, InvoiceNumbers, ReorderAdvice,
        SumLemmas

-----------------------------------------------------------------------------
(*************************************************************************)
(* Stock.  What is on order is a sum over the orders, and every step     *)
(* changes one summand.  The conjunction of the invariants is inductive. *)
(*************************************************************************)

(* The steps of the orders' lines, as an action property.                  *)
SubmittedStep ==
    \A o \in Order : po[o].status \notin {"none", "draft"} =>
         /\ po'[o].ordered = po[o].ordered
         /\ \A p \in Product : po'[o].received[p] >= po[o].received[p]
         /\ po[o].status \in {"received", "cancelled"} => po'[o] = po[o]

StockIInv == TypeOK /\ OnOrderIsOwed /\ MovementsExplainLevel /\ ReceivedInFull

OrderRow == [status : PurchaseOrderStatus, ordered : Quantities, received : Quantities]

Owings(p) == [o \in Order |-> Owing(o, p)]

(* Quantities, spelled out.                                              *)
LEMMA QuantitiesAre ==
    ASSUME NEW q
    PROVE  q \in Quantities <=> /\ q \in [Product -> Nat]
                                /\ \A p \in Product : q[p] <= MaxQuantity[p]
<1>1. ASSUME q \in Quantities
      PROVE  q \in [Product -> Nat] /\ \A p \in Product : q[p] <= MaxQuantity[p]
  BY <1>1, StockAssumption DEF Quantities
<1>2. ASSUME q \in [Product -> Nat], \A p \in Product : q[p] <= MaxQuantity[p]
      PROVE  q \in Quantities
  <2>1. \A p \in Product : q[p] \in 0..MaxQuantity[p]
    BY <1>2, StockAssumption
  <2>2. q \in [Product -> UNION {0..MaxQuantity[p] : p \in Product}]
    BY <1>2, <2>1
  <2> QED
    BY <1>2, <2>2 DEF Quantities
<1> QED
  BY <1>1, <1>2

(* What an order has and lacks are natural numbers.                        *)
LEMMA OrderLines ==
    ASSUME TypeOK, ReceivedInFull, NEW o \in Order
    PROVE  /\ po[o] \in OrderRow
           /\ \A p \in Product : /\ po[o].ordered[p] \in Nat /\ po[o].received[p] \in Nat
                                 /\ po[o].ordered[p] <= MaxQuantity[p]
                                 /\ Remaining(o, p) \in Nat
                                 /\ Remaining(o, p) = po[o].ordered[p] - po[o].received[p]
                                 /\ Owing(o, p) \in Nat
<1>1. po[o] \in OrderRow
  BY DEF TypeOK, OrderRow
<1>2. ASSUME NEW p \in Product
      PROVE  po[o].ordered[p] \in Nat /\ po[o].received[p] \in Nat
             /\ po[o].ordered[p] <= MaxQuantity[p]
  BY <1>1, QuantitiesAre DEF OrderRow
<1>3. ASSUME NEW p \in Product
      PROVE  Remaining(o, p) \in Nat
  BY <1>2 DEF Remaining, ReceivedInFull
<1> QED
  BY <1>1, <1>2, <1>3 DEF Remaining, Owing

(* A step that changes one order changes what is owed by that order.       *)
LEMMA OwedByOne ==
    ASSUME StockIInv, TypeOK', ReceivedInFull', NEW o \in Order,
           \A q \in Order \ {o} : po'[q] = po[q]
    PROVE  \A p \in Product :
             SumFunctionOnSet(Owings(p)', Order) = onOrder[p] - Owing(o, p) + Owing(o, p)'
<1> SUFFICES ASSUME NEW p \in Product
             PROVE  SumFunctionOnSet(Owings(p)', Order)
                      = onOrder[p] - Owing(o, p) + Owing(o, p)'
  OBVIOUS
<1>1. \A q \in Order : Owings(p)[q] = Owing(q, p) /\ Owings(p)'[q] = Owing(q, p)'
  BY DEF Owings
<1>2. \A q \in Order : Owing(q, p) \in Int
  BY OrderLines DEF StockIInv
<1>3. \A q \in Order : Owing(q, p)' \in Int
  <2>1. ReceivedInFull' /\ TypeOK'
    OBVIOUS
  <2>2. ASSUME NEW q \in Order
        PROVE  po'[q].ordered[p] \in Nat /\ po'[q].received[p] \in Nat
    <3>1. po'[q].ordered \in Quantities /\ po'[q].received \in Quantities
      BY DEF TypeOK
    <3> QED
      BY <3>1, QuantitiesAre
  <2> QED
    BY <2>2 DEF Owing, Remaining
<1>4. \A q \in Order \ {o} : Owing(q, p)' = Owing(q, p)
  BY DEF Owing, Remaining
<1>5. onOrder[p] = SumFunctionOnSet(Owings(p), Order)
  BY DEF StockIInv, OnOrderIsOwed, Owings
<1> HIDE DEF Owings
<1>6. SumFunctionOnSet(Owings(p)', Order)
        = SumFunctionOnSet(Owings(p), Order) - Owings(p)[o] + Owings(p)'[o]
  BY <1>1, <1>2, <1>3, <1>4, StockAssumption, SumOneChanges
<1> QED
  BY <1>1, <1>5, <1>6

(* on_order covers what each single order lacks.                           *)
LEMMA OwedCovers ==
    ASSUME StockIInv, NEW o \in Order, NEW p \in Product
    PROVE  Owing(o, p) <= onOrder[p] /\ onOrder[p] \in Nat
<1>1. \A q \in Order : Owings(p)[q] \in Nat /\ Owings(p)[q] = Owing(q, p)
  BY OrderLines DEF StockIInv, Owings
<1>2. onOrder[p] = SumFunctionOnSet(Owings(p), Order)
  BY DEF StockIInv, OnOrderIsOwed, Owings
<1> HIDE DEF Owings
<1> QED
  BY <1>1, <1>2, StockAssumption, SumBounds

(* Lines that are quantities make an order.                              *)
LEMMA LinesGiveAnOrder ==
    ASSUME NEW items \in Quantities, items # NoItems
    PROVE  \E p \in Product : items[p] > 0
<1>1. \A p \in Product : items[p] \in Nat
  BY QuantitiesAre
<1>2. items = [p \in Product |-> items[p]]
  BY DEF Quantities
<1> QED
  BY <1>1, <1>2 DEF NoItems

(* Lines are put on a draft.                                               *)
LEMMA DraftKeeps ==
    ASSUME StockIInv, NEW o \in Order, NEW items \in Quantities, items # NoItems,
           po[o].status \in {"none", "draft"},
           po' = [po EXCEPT ![o] = Drafted(items)], UNCHANGED <<stockVars, pending>>
    PROVE  StockIInv' /\ SubmittedStep
<1>1. NoItems \in Quantities /\ \A p \in Product : NoItems[p] = 0
  BY QuantitiesAre, StockAssumption DEF NoItems
<1>2. Drafted(items) \in OrderRow
  BY <1>1 DEF Drafted, OrderRow, PurchaseOrderStatus
<1>3. po' \in [Order -> OrderRow] /\ po'[o] = Drafted(items)
      /\ \A q \in Order \ {o} : po'[q] = po[q]
  BY <1>2 DEF StockIInv, TypeOK, OrderRow
<1>4. TypeOK'
  BY <1>3 DEF StockIInv, TypeOK, OrderRow, stockVars
<1>5. ReceivedInFull'
  <2>1. \A p \in Product : items[p] \in Nat
    BY QuantitiesAre
  <2>2. PICK p \in Product : items[p] > 0
    BY LinesGiveAnOrder
  <2>3. ASSUME NEW q \in Product
        PROVE  Remaining(o, q)' = items[q]
    BY <1>1, <1>3, <2>1 DEF Remaining, Drafted
  <2>4. po'[o].status # "received" /\ po'[o].status = "draft"
    BY <1>3 DEF Drafted
  <2>5. ASSUME NEW q \in Order \ {o}, NEW r \in Product
        PROVE  Remaining(q, r)' = Remaining(q, r)
    BY <1>3 DEF Remaining
  <2> QED
    BY <1>3, <2>1, <2>2, <2>3, <2>4, <2>5 DEF StockIInv, ReceivedInFull
<1>6. OnOrderIsOwed'
  <2>1. ASSUME NEW p \in Product
        PROVE  Owing(o, p) = 0 /\ Owing(o, p)' = 0
    BY <1>3 DEF Owing, AtSupplier, Drafted
  <2>2. \A p \in Product : onOrder[p] \in Nat /\ onOrder'[p] = onOrder[p]
    BY DEF StockIInv, TypeOK, stockVars
  <2> QED
    BY <1>3, <1>4, <1>5, <2>1, <2>2, OwedByOne DEF OnOrderIsOwed, Owings
<1>7. SubmittedStep
  BY <1>3, OrderLines DEF StockIInv, SubmittedStep
<1> QED
  BY <1>4, <1>5, <1>6, <1>7
     DEF StockIInv, MovementsExplainLevel, stockVars

(* An order that is not at the supplier gets another such status.          *)
LEMMA SetStatusKeeps ==
    ASSUME StockIInv, NEW o \in Order, NEW status \in {"pending_approval", "approved"},
           po[o].status \in {"draft", "pending_approval"}, SetStatus(o, status)
    PROVE  StockIInv' /\ SubmittedStep
<1>1. [po[o] EXCEPT !.status = status] \in OrderRow
  BY DEF StockIInv, TypeOK, OrderRow, PurchaseOrderStatus
<1>2. /\ po' \in [Order -> OrderRow] /\ po'[o].status = status
      /\ po'[o].ordered = po[o].ordered /\ po'[o].received = po[o].received
      /\ \A q \in Order \ {o} : po'[q] = po[q]
  BY <1>1 DEF StockIInv, TypeOK, OrderRow, SetStatus
<1>3. TypeOK'
  BY <1>2 DEF StockIInv, TypeOK, OrderRow, SetStatus, stockVars
<1>4. ASSUME NEW q \in Order, NEW p \in Product
      PROVE  Remaining(q, p)' = Remaining(q, p)
  BY <1>2 DEF Remaining
<1>5. ReceivedInFull'
  BY <1>2, <1>4 DEF StockIInv, ReceivedInFull
<1>6. OnOrderIsOwed'
  <2>1. ASSUME NEW p \in Product
        PROVE  Owing(o, p) = 0 /\ Owing(o, p)' = 0
    BY <1>2 DEF Owing, AtSupplier
  <2>2. \A p \in Product : onOrder[p] \in Nat /\ onOrder'[p] = onOrder[p]
    BY DEF StockIInv, TypeOK, SetStatus, stockVars
  <2> QED
    BY <1>2, <1>3, <1>5, <2>1, <2>2, OwedByOne DEF OnOrderIsOwed, Owings
<1>7. SubmittedStep
  BY <1>2, OrderLines DEF StockIInv, SubmittedStep
<1> QED
  BY <1>3, <1>5, <1>6, <1>7
     DEF StockIInv, MovementsExplainLevel, SetStatus, stockVars

(* MarkOrdered keeps the invariant.                                      *)
LEMMA MarkOrderedKeeps ==
    ASSUME StockIInv, NEW o \in Order, MarkOrdered(o)
    PROVE  StockIInv' /\ SubmittedStep
<1>1. [po[o] EXCEPT !.status = "ordered"] \in OrderRow
  BY DEF StockIInv, TypeOK, OrderRow, PurchaseOrderStatus
<1>2. /\ po' \in [Order -> OrderRow] /\ po'[o].status = "ordered"
      /\ po'[o].ordered = po[o].ordered /\ po'[o].received = po[o].received
      /\ \A q \in Order \ {o} : po'[q] = po[q]
  BY <1>1 DEF StockIInv, TypeOK, OrderRow, MarkOrdered
<1>3. \A p \in Product : Remaining(o, p) \in Nat /\ onOrder[p] \in Nat
  BY OrderLines DEF StockIInv, TypeOK
<1>4. onOrder' \in [Product -> Nat]
      /\ \A p \in Product : onOrder'[p] = onOrder[p] + Remaining(o, p)
  BY <1>3 DEF MarkOrdered
<1>5. TypeOK'
  BY <1>2, <1>4 DEF StockIInv, TypeOK, OrderRow, MarkOrdered, WithRows
<1>6. ASSUME NEW q \in Order, NEW p \in Product
      PROVE  Remaining(q, p)' = Remaining(q, p)
  BY <1>2 DEF Remaining
<1>7. ReceivedInFull'
  BY <1>2, <1>6 DEF StockIInv, ReceivedInFull, MarkOrdered
<1>8. OnOrderIsOwed'
  <2>1. ASSUME NEW p \in Product
        PROVE  Owing(o, p) = 0 /\ Owing(o, p)' = Remaining(o, p)
    BY <1>2, <1>6 DEF Owing, AtSupplier, MarkOrdered
  <2>2. ASSUME NEW p \in Product
        PROVE  onOrder'[p] = SumFunctionOnSet(Owings(p)', Order)
    <3>1. SumFunctionOnSet(Owings(p)', Order) = onOrder[p] - Owing(o, p) + Owing(o, p)'
      BY <1>2, <1>5, <1>7, OwedByOne
    <3> QED
      BY <1>3, <1>4, <2>1, <3>1
  <2> QED
    BY <2>2 DEF OnOrderIsOwed, Owings
<1>9. SubmittedStep
  BY <1>2, OrderLines DEF StockIInv, SubmittedStep, MarkOrdered
<1> QED
  BY <1>5, <1>7, <1>8, <1>9 DEF StockIInv, MovementsExplainLevel, MarkOrdered

(* Cancel keeps the invariant.                                           *)
LEMMA CancelKeeps ==
    ASSUME StockIInv, NEW o \in Order, CancelPurchaseOrder(o)
    PROVE  StockIInv' /\ SubmittedStep
<1>1. [po[o] EXCEPT !.status = "cancelled"] \in OrderRow
  BY DEF StockIInv, TypeOK, OrderRow, PurchaseOrderStatus
<1>2. /\ po' \in [Order -> OrderRow] /\ po'[o].status = "cancelled"
      /\ po'[o].ordered = po[o].ordered /\ po'[o].received = po[o].received
      /\ \A q \in Order \ {o} : po'[q] = po[q]
  BY <1>1 DEF StockIInv, TypeOK, OrderRow, CancelPurchaseOrder
<1>3. \A p \in Product : Remaining(o, p) \in Nat /\ onOrder[p] \in Nat
                         /\ Owing(o, p) <= onOrder[p] /\ Owing(o, p) \in Nat
  BY OrderLines, OwedCovers DEF StockIInv, TypeOK
<1>4. onOrder' \in [Product -> Nat]
      /\ \A p \in Product : onOrder'[p] = onOrder[p] - Owing(o, p)
  <2>1. CASE po[o].status \in AtSupplier
    <3>1. \A p \in Product : Owing(o, p) = Remaining(o, p)
      BY <2>1 DEF Owing
    <3>2. onOrder' = [p \in Product |-> onOrder[p] - Least(onOrder[p], Withdrawn(o)[p])]
      BY <2>1 DEF CancelPurchaseOrder
    <3>3. \A p \in Product : Least(onOrder[p], Withdrawn(o)[p]) = Owing(o, p)
      BY <1>3, <3>1 DEF Least, Withdrawn
    <3> QED
      BY <1>3, <3>2, <3>3
  <2>2. CASE po[o].status \notin AtSupplier
    BY <1>3, <2>2 DEF Owing, CancelPurchaseOrder, StockIInv, TypeOK
  <2> QED
    BY <2>1, <2>2
<1>5. TypeOK'
  BY <1>2, <1>4 DEF StockIInv, TypeOK, OrderRow, CancelPurchaseOrder
<1>6. ASSUME NEW q \in Order, NEW p \in Product
      PROVE  Remaining(q, p)' = Remaining(q, p)
  BY <1>2 DEF Remaining
<1>7. ReceivedInFull'
  BY <1>2, <1>6 DEF StockIInv, ReceivedInFull
<1>8. OnOrderIsOwed'
  <2>1. ASSUME NEW p \in Product
        PROVE  Owing(o, p)' = 0
    BY <1>2 DEF Owing, AtSupplier
  <2> QED
    BY <1>2, <1>3, <1>4, <1>5, <1>7, <2>1, OwedByOne DEF OnOrderIsOwed, Owings
<1>9. SubmittedStep
  BY <1>2, OrderLines
     DEF StockIInv, SubmittedStep, CancelPurchaseOrder, OPEN_ORDER_STATUSES
<1> QED
  BY <1>5, <1>7, <1>8, <1>9 DEF StockIInv, MovementsExplainLevel, CancelPurchaseOrder

(* Receive keeps the invariant.                                          *)
LEMMA ReceiveKeeps ==
    ASSUME StockIInv, NEW o \in Order, NEW items \in Quantities,
           ReceivePurchaseOrder(o, items)
    PROVE  StockIInv' /\ SubmittedStep
<1> DEFINE received == [p \in Product |-> po[o].received[p] + items[p]]
           all == \A p \in Product : received[p] >= po[o].ordered[p]
           row == [status |-> IF all THEN "received" ELSE "partially_received",
                   ordered |-> po[o].ordered, received |-> received]
<1>1. \A p \in Product :
        /\ items[p] \in Nat /\ items[p] <= Remaining(o, p)
        /\ po[o].ordered[p] \in Nat /\ po[o].received[p] \in Nat
        /\ po[o].ordered[p] <= MaxQuantity[p] /\ MaxQuantity[p] \in Nat
        /\ Remaining(o, p) = po[o].ordered[p] - po[o].received[p]
        /\ onOrder[p] \in Nat /\ Remaining(o, p) <= onOrder[p]
  <2>1. \A p \in Product : Owing(o, p) = Remaining(o, p)
    BY DEF ReceivePurchaseOrder, Owing
  <2> QED
    BY <2>1, QuantitiesAre, OrderLines, OwedCovers, StockAssumption
       DEF StockIInv, ReceivePurchaseOrder, Receivable
<1>2. /\ po' = [po EXCEPT ![o] = row] /\ po[o].status \in AtSupplier
      /\ onOrder' = [p \in Product |-> onOrder[p] - Least(onOrder[p], items[p])]
      /\ onHand' = [p \in Product |-> onHand[p] + items[p]]
      /\ moved' = [p \in Product |-> moved[p] + items[p]]
      /\ UNCHANGED <<rows, pending, overwritten>>
  BY DEF ReceivePurchaseOrder
<1>3. received \in Quantities
  <2>1. \A p \in Product : received[p] \in Nat /\ received[p] <= MaxQuantity[p]
    BY <1>1
  <2>2. received \in [Product -> Nat]
    BY <2>1
  <2> HIDE DEF received
  <2> QED
    BY <2>1, <2>2, QuantitiesAre
<1>4. row \in OrderRow /\ row.ordered = po[o].ordered /\ row.received = received
  <2> HIDE DEF received
  <2>1. po[o].ordered \in Quantities
    BY DEF StockIInv, TypeOK
  <2> QED
    BY <1>3, <2>1 DEF OrderRow, PurchaseOrderStatus
<1>5. all <=> \A p \in Product : po[o].ordered[p] - received[p] = 0
  BY <1>1
<1>6. row.status = "received" <=> all
  OBVIOUS
<1>7. row.status \in AtSupplier \/ (row.status = "received" /\ all)
  BY DEF AtSupplier
<1>8. row.status # "cancelled"
  OBVIOUS
<1>9. \A p \in Product : received[p] = po[o].received[p] + items[p]
  OBVIOUS
<1> HIDE DEF row, received, all
<1>10. po' \in [Order -> OrderRow] /\ po'[o] = row
       /\ \A q \in Order \ {o} : po'[q] = po[q]
  BY <1>2, <1>4 DEF StockIInv, TypeOK, OrderRow
<1>11. \A p \in Product : /\ Remaining(o, p)' = Remaining(o, p) - items[p]
                          /\ Remaining(o, p)' = po[o].ordered[p] - received[p]
                          /\ Remaining(o, p)' \in Nat
  BY <1>1, <1>4, <1>9, <1>10 DEF Remaining
<1>12. onOrder' \in [Product -> Nat]
       /\ \A p \in Product : onOrder'[p] = onOrder[p] - items[p]
  <2>1. \A p \in Product : Least(onOrder[p], items[p]) = items[p]
    BY <1>1 DEF Least
  <2> QED
    BY <1>1, <1>2, <2>1
<1>13. /\ onHand' \in [Product -> Nat] /\ moved' \in [Product -> Int]
       /\ \A p \in Product : onHand'[p] = onHand[p] + items[p]
                             /\ moved'[p] = moved[p] + items[p]
  BY <1>1, <1>2 DEF StockIInv, TypeOK
<1>14. TypeOK'
  BY <1>2, <1>10, <1>12, <1>13 DEF StockIInv, TypeOK, OrderRow
<1>15. ReceivedInFull'
  <2>1. po[o].ordered # NoItems
    <3>1. PICK p \in Product : items[p] > 0
      BY LinesGiveAnOrder DEF ReceivePurchaseOrder
    <3>2. po[o].ordered[p] > 0
      BY <1>1, <3>1
    <3> QED
      BY <3>2 DEF NoItems
  <2>2. \A q \in Order \ {o}, p \in Product : Remaining(q, p)' = Remaining(q, p)
    BY <1>10 DEF Remaining
  <2>3. all <=> \A p \in Product : Remaining(o, p)' = 0
    BY <1>5, <1>11
  <2>4. po'[o].status = "received" <=>
             (/\ po'[o].ordered # NoItems /\ po'[o].status # "cancelled"
              /\ \A p \in Product : Remaining(o, p)' = 0)
    BY <1>4, <1>6, <1>8, <1>10, <2>1, <2>3
  <2>5. ASSUME NEW q \in Order
        PROVE  /\ \A p \in Product : Remaining(q, p)' >= 0
               /\ po'[q].status = "received" <=>
                    (/\ po'[q].ordered # NoItems /\ po'[q].status # "cancelled"
                     /\ \A p \in Product : Remaining(q, p)' = 0)
    <3>1. CASE q = o
      BY <1>11, <2>4, <3>1
    <3>2. CASE q # o
      BY <1>10, <2>2, <3>2 DEF StockIInv, ReceivedInFull
    <3> QED
      BY <3>1, <3>2
  <2> QED
    BY <2>5 DEF ReceivedInFull
<1>16. OnOrderIsOwed'
  <2>1. ASSUME NEW p \in Product
        PROVE  Owing(o, p) = Remaining(o, p) /\ Owing(o, p)' = Remaining(o, p) - items[p]
    <3>1. Owing(o, p) = Remaining(o, p)
      BY <1>2 DEF Owing
    <3>2. CASE row.status \in AtSupplier
      BY <1>10, <1>11, <3>1, <3>2 DEF Owing
    <3>3. CASE row.status = "received" /\ all
      <4>1. Remaining(o, p)' = 0
        BY <1>5, <1>11, <3>3
      <4>2. Owing(o, p)' = 0
        BY <1>10, <3>3 DEF Owing, AtSupplier
      <4> QED
        BY <1>11, <3>1, <4>1, <4>2
    <3> QED
      BY <1>7, <3>2, <3>3
  <2>2. ASSUME NEW p \in Product
        PROVE  onOrder'[p] = SumFunctionOnSet(Owings(p)', Order)
    <3>1. SumFunctionOnSet(Owings(p)', Order) = onOrder[p] - Owing(o, p) + Owing(o, p)'
      BY <1>10, <1>14, <1>15, OwedByOne
    <3>2. Remaining(o, p) \in Int /\ items[p] \in Int /\ onOrder[p] \in Int
      BY <1>1
    <3> QED
      BY <1>12, <2>1, <3>1, <3>2
  <2> QED
    BY <2>2 DEF OnOrderIsOwed, Owings
<1>17. MovementsExplainLevel'
  BY <1>1, <1>2, <1>13 DEF StockIInv, TypeOK, MovementsExplainLevel
<1>18. SubmittedStep
  <2>1. po[o].status \notin {"received", "cancelled"}
    BY <1>2 DEF AtSupplier
  <2>2. \A q \in Order, p \in Product : po[q].received[p] \in Nat
    BY OrderLines DEF StockIInv
  <2> QED
    BY <1>1, <1>4, <1>9, <1>10, <2>1, <2>2 DEF SubmittedStep
<1> QED
  BY <1>14, <1>15, <1>16, <1>17, <1>18 DEF StockIInv

(* What touches no order keeps what is said of orders.                     *)
LEMMA OrdersAlone ==
    ASSUME StockIInv, TypeOK', UNCHANGED <<po, onOrder>>
    PROVE  OnOrderIsOwed' /\ ReceivedInFull' /\ SubmittedStep
<1>1. OnOrderIsOwed' /\ ReceivedInFull'
  BY DEF StockIInv, OnOrderIsOwed, Owing, ReceivedInFull, Remaining
<1>2. SubmittedStep
  BY OrderLines DEF StockIInv, SubmittedStep
<1> QED
  BY <1>1, <1>2

(* Sell keeps the invariant.                                             *)
LEMMA SellKeeps ==
    ASSUME StockIInv, NEW p \in Product, NEW quantity \in 1..MaxQuantity[p],
           Sell(p, quantity)
    PROVE  StockIInv' /\ SubmittedStep
<1>1. quantity \in Nat /\ onHand[p] >= quantity
  BY StockAssumption DEF Sell, Enough
<1>2. TypeOK'
  BY <1>1 DEF StockIInv, TypeOK, Sell
<1>3. MovementsExplainLevel'
  BY <1>1 DEF StockIInv, TypeOK, MovementsExplainLevel, Sell
<1> QED
  BY <1>2, <1>3, OrdersAlone DEF StockIInv, Sell

(* BeginAdjustment keeps the invariant.                                  *)
LEMMA BeginAdjustmentKeeps ==
    ASSUME StockIInv, NEW r \in Request, NEW p \in Product, BeginAdjustment(r, p)
    PROVE  StockIInv' /\ SubmittedStep
<1> DEFINE a == [product |-> p, read |-> IF p \in rows THEN onHand[p] ELSE NoRow]
<1>1. a \in [product : Product, read : Nat \cup {NoRow}]
  BY DEF StockIInv, TypeOK
<1>2. pending' = [pending EXCEPT ![r] = a] /\ UNCHANGED <<po, stockVars>>
  BY DEF BeginAdjustment
<1>3. TypeOK'
  BY <1>1, <1>2 DEF StockIInv, TypeOK, stockVars
<1> QED
  BY <1>2, <1>3, OrdersAlone DEF StockIInv, MovementsExplainLevel, stockVars

(* CommitAdjustment keeps the invariant.                                 *)
LEMMA CommitAdjustmentKeeps ==
    ASSUME StockIInv, NEW r \in Request, pending[r] # Idle,
           NEW change \in Int, CommitAdjustment(r, change)
    PROVE  StockIInv' /\ SubmittedStep
<1> DEFINE p == pending[r].product
           old == IF pending[r].read = NoRow THEN 0 ELSE pending[r].read
<1>1. p \in Product /\ old \in Nat /\ old + change \in Nat
  BY DEF StockIInv, TypeOK, CommitAdjustment
<1>2. /\ onHand' = [onHand EXCEPT ![p] = old + change]
      /\ moved' = [moved EXCEPT ![p] = @ + change]
      /\ rows' = rows \cup {p}
      /\ overwritten' = overwritten \cup (IF onHand[p] = old THEN {} ELSE {p})
      /\ pending' = [pending EXCEPT ![r] = Idle]
      /\ UNCHANGED <<po, onOrder>>
  BY DEF CommitAdjustment
<1> HIDE DEF p, old
<1>3. TypeOK'
  BY <1>1, <1>2 DEF StockIInv, TypeOK
<1>4. MovementsExplainLevel'
  BY <1>1, <1>2 DEF StockIInv, TypeOK, MovementsExplainLevel
<1> QED
  BY <1>2, <1>3, <1>4, OrdersAlone DEF StockIInv

(* Every step keeps the invariant, action by action.                     *)
LEMMA StockStep ==
    ASSUME StockIInv, [Next]_vars
    PROVE  StockIInv' /\ SubmittedStep
<1>1. ASSUME NEW o \in Order, NEW items \in Quantities,
             \/ CreatePurchaseOrder(o, items) \/ CreateFromRecommendations(o, items)
             \/ UpdatePurchaseOrder(o, items)
      PROVE  StockIInv' /\ SubmittedStep
  BY <1>1, DraftKeeps
     DEF CreatePurchaseOrder, CreateFromRecommendations, UpdatePurchaseOrder, Editable
<1>2. ASSUME NEW o \in Order, SubmitPurchaseOrder(o) \/ ApprovePurchaseOrder(o)
      PROVE  StockIInv' /\ SubmittedStep
  BY <1>2, SetStatusKeeps DEF SubmitPurchaseOrder, ApprovePurchaseOrder
<1>3. ASSUME NEW r \in Request, pending[r] # Idle,
             \E change \in (-MaxQuantity[pending[r].product]
                              ..MaxQuantity[pending[r].product]) \ {0} :
                CommitAdjustment(r, change)
      PROVE  StockIInv' /\ SubmittedStep
  BY <1>3, CommitAdjustmentKeeps
<1>4. ASSUME NEW r \in Request, GiveUp(r)
      PROVE  StockIInv' /\ SubmittedStep
  <2>1. TypeOK'
    BY <1>4 DEF StockIInv, TypeOK, GiveUp, stockVars
  <2> QED
    BY <1>4, <2>1, OrdersAlone DEF StockIInv, MovementsExplainLevel, GiveUp, stockVars
<1>5. CASE UNCHANGED vars
  <2>1. TypeOK'
    BY <1>5 DEF StockIInv, TypeOK, vars
  <2> QED
    BY <1>5, <2>1, OrdersAlone DEF StockIInv, MovementsExplainLevel, vars
<1> QED
  BY <1>1, <1>2, <1>3, <1>4, <1>5, MarkOrderedKeeps, CancelKeeps, ReceiveKeeps,
     SellKeeps, BeginAdjustmentKeeps DEF Next

(* The invariant holds at first.                                         *)
LEMMA StockStart == Init => StockIInv
<1> SUFFICES ASSUME Init PROVE StockIInv
  OBVIOUS
<1>1. NoItems \in Quantities /\ \A p \in Product : NoItems[p] = 0
  BY QuantitiesAre, StockAssumption DEF NoItems
<1> DEFINE row == [status |-> "none", ordered |-> NoItems, received |-> NoItems]
<1>2. row \in OrderRow
  BY <1>1 DEF OrderRow, PurchaseOrderStatus
<1>3. po = [o \in Order |-> row]
  BY DEF Init
<1>4. \A o \in Order : po[o] = row
  BY <1>3
<1>5. TypeOK
  BY <1>2, <1>3, StockAssumption DEF Init, TypeOK, OrderRow
<1>6. ReceivedInFull
  BY <1>1, <1>4 DEF ReceivedInFull, Remaining
<1>7. OnOrderIsOwed
  <2>1. ASSUME NEW p \in Product
        PROVE  SumFunctionOnSet(Owings(p), Order) = 0
    <3>1. \A o \in Order : Owings(p)[o] = 0
      BY <1>4 DEF Owings, Owing, AtSupplier
    <3> QED
      BY <3>1, StockAssumption, SumOfZeros
  <2> QED
    BY <2>1 DEF Init, OnOrderIsOwed, Owings
<1> QED
  BY <1>5, <1>6, <1>7 DEF Init, StockIInv, MovementsExplainLevel

(* Levels are explained by movements, what is on order is owed by        *)
(* submitted orders, and submitted orders keep their lines, for any      *)
(* products and orders (receive_purchase_order, create_sale,             *)
(* adjust_inventory).                                                    *)
THEOREM StockIsExplained == Spec => StockExplained
<1>1. StockIInv /\ [Next]_vars => StockIInv' /\ [SubmittedStep]_vars
  BY StockStep
<1>2. StockIInv => TypeOK /\ OnOrderIsOwed /\ MovementsExplainLevel /\ ReceivedInFull
  BY DEF StockIInv
<1>3. Spec => []StockIInv
  BY <1>1, StockStart, PTL DEF Spec
<1>4. Spec => [][SubmittedStep]_vars
  BY <1>1, <1>3, PTL DEF Spec
<1>5. Spec => ApprovedAsSubmitted
  BY <1>4, PTL DEF ApprovedAsSubmitted, SubmittedStep
<1> QED
  BY <1>2, <1>3, <1>5, PTL DEF StockExplained

-----------------------------------------------------------------------------
(*************************************************************************)
(* Tax operation.  While no two saves have crossed, a save that read     *)
(* sound settings writes sound ones, so what is proved of the profile is *)
(* proved of the saves under way with it.                                *)
(*************************************************************************)

(* A venture with an activation date is registered, with a registration.   *)
Sound(p) == p.effective # Undated => p.status = "registered" /\ p.active # {}

(* Settings that were sound when they were read are written sound.         *)
SavesSound == \A a \in Admin : saving[a] # NoSave =>
    (Sound(saving[a].read) => Sound(saving[a].want))

TaxIInv == TaxTypeOK /\ SavesSound /\ (~crossed => Sound(profile))

(* BeginSave keeps the invariant.                                        *)
LEMMA BeginSaveKeeps ==
    ASSUME TaxIInv, NEW a \in Admin, NEW want \in ProfileType,
           Sound(profile) => Sound(want), BeginSave(a, want)
    PROVE  TaxIInv'
<1> DEFINE s == [read |-> profile, want |-> want]
<1>1. saving' = [saving EXCEPT ![a] = s] /\ UNCHANGED <<today, profile, crossed>>
  BY DEF BeginSave
<1>2. s \in [read : ProfileType, want : ProfileType]
  BY DEF TaxIInv, TaxTypeOK
<1>3. TaxTypeOK'
  BY <1>1, <1>2 DEF TaxIInv, TaxTypeOK
<1>4. SavesSound'
  BY <1>1 DEF TaxIInv, TaxTypeOK, SavesSound
<1> QED
  BY <1>1, <1>3, <1>4 DEF TaxIInv

(* Each of the settings requests begins a save that keeps soundness.     *)
LEMMA SettingsBegin ==
    ASSUME TaxIInv, NEW a \in Admin,
           \/ BeginUnregister(a)
           \/ \E active \in SUBSET Registration : BeginRegister(a, active)
           \/ \E day \in Day : BeginActivate(a, day)
    PROVE  TaxIInv'
<1>1. profile \in ProfileType
  BY DEF TaxIInv, TaxTypeOK
<1>2. CASE BeginUnregister(a)
  <2>1. Unregistered(profile) \in ProfileType /\ Sound(Unregistered(profile))
    BY DEF Unregistered, ProfileType, TaxMode, Sound
  <2> QED
    BY <1>2, <2>1, BeginSaveKeeps DEF BeginUnregister
<1>3. ASSUME NEW active \in SUBSET Registration, BeginRegister(a, active)
      PROVE  TaxIInv'
  <2> DEFINE w == [status |-> "registered", mode |-> profile.mode,
                   effective |-> profile.effective, active |-> active]
  <2>1. w \in ProfileType
    BY <1>1 DEF ProfileType
  <2>2. Sound(profile) => Sound(w)
    BY <1>3 DEF BeginRegister, Sound
  <2> QED
    BY <1>3, <2>1, <2>2, BeginSaveKeeps DEF BeginRegister
<1>4. ASSUME NEW day \in Day, BeginActivate(a, day)
      PROVE  TaxIInv'
  <2> DEFINE w == [status |-> profile.status, mode |-> "gst",
                   effective |-> day, active |-> profile.active]
  <2>1. w \in ProfileType
    BY <1>1 DEF ProfileType, TaxMode
  <2>2. Sound(w)
    BY <1>4 DEF BeginActivate, Prerequisites, Sound
  <2> QED
    BY <1>4, <2>1, <2>2, BeginSaveKeeps DEF BeginActivate
<1> QED
  BY <1>2, <1>3, <1>4

(* A save that crossed nothing writes what it wants.                       *)
LEMMA MergeAlone ==
    ASSUME NEW want \in ProfileType, profile \in ProfileType
    PROVE  Merge(profile, want) = want
<1>1. (profile.active \ (profile.active \ want.active))
         \cup (want.active \ profile.active) = want.active
  OBVIOUS
<1> QED
  BY <1>1 DEF Merge, ProfileType

(* A merged profile is a profile.                                        *)
LEMMA MergeType ==
    ASSUME NEW read \in ProfileType, NEW want \in ProfileType,
           profile \in ProfileType
    PROVE  Merge(read, want) \in ProfileType
<1>1. Merge(read, want).status \in {"registered", "unregistered"}
      /\ Merge(read, want).mode \in TaxMode
      /\ Merge(read, want).effective \in Day \cup {Undated}
      /\ Merge(read, want).active \in SUBSET Registration
  BY DEF Merge, ProfileType
<1> QED
  BY <1>1 DEF Merge, ProfileType

(* Save keeps the invariant.                                             *)
LEMMA SaveKeeps ==
    ASSUME TaxIInv, NEW a \in Admin, Save(a)
    PROVE  TaxIInv'
<1>1. /\ saving[a] # NoSave /\ saving[a].read \in ProfileType
      /\ saving[a].want \in ProfileType /\ profile \in ProfileType
  BY DEF TaxIInv, TaxTypeOK, Save
<1>2. /\ profile' = Merge(saving[a].read, saving[a].want)
      /\ crossed' = (crossed \/ profile # saving[a].read)
      /\ saving' = [saving EXCEPT ![a] = NoSave] /\ today' = today
  BY DEF Save
<1>3. TaxTypeOK'
  <2>1. profile' \in ProfileType
    BY <1>1, <1>2, MergeType
  <2>2. crossed' \in BOOLEAN
    BY <1>2 DEF TaxIInv, TaxTypeOK
  <2> QED
    BY <1>2, <2>1, <2>2 DEF TaxIInv, TaxTypeOK
<1>4. SavesSound'
  BY <1>2 DEF TaxIInv, TaxTypeOK, SavesSound
<1>5. ASSUME ~crossed' PROVE Sound(profile')
  <2>1. ~crossed /\ profile = saving[a].read
    BY <1>2, <1>5
  <2>2. profile' = saving[a].want
    BY <1>1, <1>2, <2>1, MergeAlone
  <2> QED
    BY <1>1, <2>1, <2>2 DEF TaxIInv, SavesSound
<1> QED
  BY <1>3, <1>4, <1>5 DEF TaxIInv, Sound

(* Every step keeps the invariant, action by action.                     *)
LEMMA TaxStep ==
    ASSUME TaxIInv, [TaxNext]_taxVars
    PROVE  TaxIInv'
<1>1. CASE NextDay
  BY <1>1, TaxAssumption DEF TaxIInv, TaxTypeOK, SavesSound, Sound, NextDay, Day
<1>2. ASSUME NEW a \in Admin, GiveUpSave(a)
      PROVE  TaxIInv'
  BY <1>2 DEF TaxIInv, TaxTypeOK, SavesSound, Sound, GiveUpSave
<1>3. ASSUME NEW mode \in TaxMode, UpsertBusinessProfile(mode)
      PROVE  TaxIInv'
  BY <1>3 DEF TaxIInv, TaxTypeOK, SavesSound, Sound, UpsertBusinessProfile, ProfileType
<1>4. CASE UNCHANGED taxVars
  BY <1>4 DEF TaxIInv, TaxTypeOK, SavesSound, Sound, taxVars
<1> QED
  BY <1>1, <1>2, <1>3, <1>4, SettingsBegin, SaveKeeps DEF TaxNext

(* A venture with an activation date is registered, and active           *)
(* registrations back it, unless two administrators' saves crossed       *)
(* (update_tax_profile).                                                 *)
THEOREM TaxAlwaysHolds == TaxSpec => []TaxHolds
<1>1. TaxInit => TaxIInv
  <2> SUFFICES ASSUME TaxInit PROVE TaxIInv
    OBVIOUS
  <2>1. profile \in ProfileType /\ Sound(profile)
    BY DEF TaxInit, ProfileType, TaxMode, Sound
  <2>2. TaxTypeOK
    <3>1. today \in Day
      BY TaxAssumption DEF TaxInit, Day
    <3>2. /\ saving \in [Admin -> [read : ProfileType, want : ProfileType]
                                     \cup {NoSave}]
          /\ crossed \in BOOLEAN
      BY DEF TaxInit
    <3> QED
      BY <2>1, <3>1, <3>2 DEF TaxTypeOK
  <2>3. SavesSound
    BY DEF TaxInit, SavesSound
  <2> QED
    BY <2>1, <2>2, <2>3 DEF TaxIInv
<1>2. TaxIInv => TaxHolds
  BY DEF TaxIInv, TaxHolds, GstNeedsRegistration, GstActiveFor, Sound
<1> QED
  BY <1>1, <1>2, TaxStep, PTL DEF TaxSpec

-----------------------------------------------------------------------------
(*************************************************************************)
(* Invoice numbers.  That a sequence leaves no gap needs to know what    *)
(* the locks are good for: two drafts never hold one row, and the label  *)
(* and the counter a draft has read are still those of the row.          *)
(*************************************************************************)

Drafts(c) == drafting[c] # NoDraft

(* A draft holds its rows and its invoice alone, and what it has read is   *)
(* still there.                                                            *)
DraftHolds ==
    \A c \in Clerk : Drafts(c) =>
      /\ drafting[c].sequence \in drafting[c].seen
      /\ drafting[c].label = sequence[drafting[c].sequence].label
      /\ drafting[c].next = sequence[drafting[c].sequence].next
      /\ number[drafting[c].invoice] = NoDraft
      /\ \A d \in Clerk \ {c} : Drafts(d) =>
           /\ drafting[d].invoice # drafting[c].invoice
           /\ drafting[d].seen \cap drafting[c].seen = {}

(* A sequence has had the label it has, and counts upwards from its first  *)
(* number until a form changes that.                                       *)
RowsHold ==
    \A s \in Sequence :
      /\ sequence[s].label \in worn[s]
      /\ s \notin edited => FirstRow[s].next <= sequence[s].next

NumbersIInv == NumbersTypeOK /\ DraftHolds /\ RowsHold /\ NumbersConsecutive

(* The numbers used when one invoice gets its number.                      *)
LEMMA UsedGrows ==
    ASSUME NEW i \in Invoice, NEW n, number \in [Invoice -> Numbers \cup {NoDraft}],
           number[i] = NoDraft, n # NoDraft,
           number' = [number EXCEPT ![i] = n]
    PROVE  Used' = Used \cup {n}
BY DEF Used

(* The columns of a sequence, spelled out.                                 *)
LEMMA RowColumns ==
    ASSUME NEW row \in SequenceRow
    PROVE  row.label \in Label /\ row.next \in 1..(MaxNumber + 1)
BY DEF SequenceRow

(* The invariant holds at first.                                         *)
LEMMA NumbersStart == NumbersInit => NumbersIInv
<1> SUFFICES ASSUME NumbersInit PROVE NumbersIInv
  OBVIOUS
<1>1. \A s \in Sequence : /\ FirstRow[s] \in SequenceRow
                          /\ FirstRow[s].label \in Label
                          /\ FirstRow[s].next \in 1..(MaxNumber + 1)
  BY RowColumns, NumbersAssumption
<1>2. NumbersTypeOK
  BY <1>1, NumbersAssumption DEF NumbersInit, NumbersTypeOK
<1>3. DraftHolds
  BY DEF NumbersInit, DraftHolds, Drafts
<1>4. RowsHold
  BY <1>1, NumbersAssumption DEF NumbersInit, RowsHold
<1>5. Used = {}
  BY DEF NumbersInit, Used
<1>6. \A s \in Sequence : FirstRow[s].next..(sequence[s].next - 1) = {}
  BY <1>1, NumbersAssumption DEF NumbersInit
<1>7. NumbersConsecutive
  BY <1>5, <1>6 DEF NumbersConsecutive
<1> QED
  BY <1>2, <1>3, <1>4, <1>7 DEF NumbersIInv

(* TakeNumber keeps the invariant.                                       *)
LEMMA TakeNumberKeeps ==
    ASSUME NumbersIInv, NEW c \in Clerk, NEW i \in Invoice,
           NEW type \in InvoiceType, NEW branch \in Branch,
           NEW seen \in SUBSET Sequence, TakeNumber(c, i, type, branch, seen)
    PROVE  NumbersIInv'
<1>1. PICK s \in seen :
        /\ sequence[s].next <= MaxNumber
        /\ drafting' = [drafting EXCEPT ![c] =
              [invoice |-> i, sequence |-> s, seen |-> seen,
               label |-> sequence[s].label, next |-> sequence[s].next]]
  BY DEF TakeNumber
<1> DEFINE d == [invoice |-> i, sequence |-> s, seen |-> seen,
                 label |-> sequence[s].label, next |-> sequence[s].next]
<1>2. /\ s \in Sequence /\ sequence[s].label \in Label
      /\ sequence[s].next \in 1..(MaxNumber + 1)
  BY RowColumns DEF NumbersIInv, NumbersTypeOK
<1>3. sequence[s].next \in 1..MaxNumber
  BY <1>1, <1>2, NumbersAssumption
<1>4. d \in Draft
  BY <1>2, <1>3 DEF Draft
<1>5. drafting' = [drafting EXCEPT ![c] = d]
      /\ UNCHANGED <<sequence, number, edited, worn, edits>>
  BY <1>1 DEF TakeNumber
<1>6. /\ d.invoice = i /\ d.sequence = s /\ d.seen = seen
      /\ d.label = sequence[s].label /\ d.next = sequence[s].next
  OBVIOUS
<1> HIDE DEF d
<1>7. NumbersTypeOK'
  BY <1>4, <1>5 DEF NumbersIInv, NumbersTypeOK
<1>8. DraftHolds'
  <2>1. \A e \in Clerk : e # c => drafting'[e] = drafting[e]
    BY <1>5 DEF NumbersIInv, NumbersTypeOK
  <2>2. drafting'[c] = d /\ number[i] = NoDraft /\ s \in seen
    BY <1>1, <1>5 DEF NumbersIInv, NumbersTypeOK, TakeNumber
  <2>3. \A e \in Clerk : Drafts(e) => /\ drafting[e].invoice # i
                                      /\ drafting[e].seen \cap seen = {}
    BY DEF TakeNumber, RowFree, Drafts
  <2> QED
    BY <2>1, <2>2, <2>3, <1>5, <1>6 DEF NumbersIInv, DraftHolds, Drafts
<1>9. RowsHold'
  BY <1>5 DEF NumbersIInv, RowsHold
<1>10. NumbersConsecutive'
  BY <1>5 DEF NumbersIInv, NumbersConsecutive, CountsAlone, Used
<1> QED
  BY <1>7, <1>8, <1>9, <1>10 DEF NumbersIInv

(* CreateDraft keeps the invariant.                                      *)
LEMMA CreateDraftKeeps ==
    ASSUME NumbersIInv, NEW c \in Clerk, CreateDraft(c)
    PROVE  NumbersIInv'
<1> DEFINE i == drafting[c].invoice
           s == drafting[c].sequence
           l == drafting[c].label
           n == drafting[c].next
           x == NumberText[l][n]
<1>1. /\ Drafts(c) /\ i \in Invoice /\ s \in Sequence /\ n \in 1..MaxNumber
      /\ l \in Label
  BY DEF NumbersIInv, NumbersTypeOK, Drafts, Draft, CreateDraft
<1>2. /\ l = sequence[s].label /\ n = sequence[s].next /\ number[i] = NoDraft
      /\ s \in drafting[c].seen
  BY <1>1 DEF NumbersIInv, DraftHolds
<1>3. /\ number' = [number EXCEPT ![i] = x]
      /\ sequence' = [sequence EXCEPT ![s].next = n + 1]
      /\ drafting' = [drafting EXCEPT ![c] = NoDraft]
      /\ edited' = edited /\ worn' = worn /\ edits' = edits
  BY DEF CreateDraft, CounterAfter, NumberOf
<1>4. x \in Numbers /\ x # NoDraft /\ x \in Texts[l]
  BY <1>1, NumbersAssumption DEF Numbers, Texts
<1>5. n + 1 \in 1..(MaxNumber + 1)
  BY <1>1, NumbersAssumption
<1>6. \A t \in Sequence : /\ sequence'[t].label = sequence[t].label
                          /\ t # s => sequence'[t] = sequence[t]
  BY <1>1, <1>3 DEF NumbersIInv, NumbersTypeOK, SequenceRow
<1>7. sequence'[s].next = n + 1
  BY <1>1, <1>3 DEF NumbersIInv, NumbersTypeOK, SequenceRow
<1>8. NumbersTypeOK'
  <2>1. [sequence[s] EXCEPT !.next = n + 1] \in SequenceRow
    <3> DEFINE m == n + 1
    <3>1. m \in 1..(MaxNumber + 1) /\ sequence[s] \in SequenceRow
      BY <1>1, <1>5 DEF NumbersIInv, NumbersTypeOK
    <3> HIDE DEF m
    <3>2. [sequence[s] EXCEPT !.next = m] \in SequenceRow
      BY <3>1 DEF SequenceRow
    <3> QED
      BY <3>2 DEF m
  <2>2. sequence' \in [Sequence -> SequenceRow]
    BY <2>1, <1>1, <1>3 DEF NumbersIInv, NumbersTypeOK
  <2>3. number' \in [Invoice -> Numbers \cup {NoDraft}]
    BY <1>1, <1>3, <1>4 DEF NumbersIInv, NumbersTypeOK
  <2>4. drafting' \in [Clerk -> Draft \cup {NoDraft}]
    BY <1>3 DEF NumbersIInv, NumbersTypeOK
  <2> QED
    BY <2>2, <2>3, <2>4, <1>3 DEF NumbersIInv, NumbersTypeOK
<1>9. DraftHolds'
  <2>1. \A d \in Clerk : Drafts(d)' => d # c /\ drafting'[d] = drafting[d] /\ Drafts(d)
    BY <1>3 DEF NumbersIInv, NumbersTypeOK, Drafts
  <2>2. \A d \in Clerk : Drafts(d)' =>
          /\ drafting[d].sequence \in Sequence /\ drafting[d].sequence # s
          /\ drafting[d].invoice \in Invoice /\ drafting[d].invoice # i
    BY <2>1, <1>1, <1>2 DEF NumbersIInv, NumbersTypeOK, DraftHolds, Drafts, Draft
  <2>3. \A d \in Clerk : Drafts(d)' =>
          /\ number'[drafting[d].invoice] = number[drafting[d].invoice]
          /\ sequence'[drafting[d].sequence] = sequence[drafting[d].sequence]
    BY <2>2, <1>3, <1>6 DEF NumbersIInv, NumbersTypeOK
  <2> QED
    BY <2>1, <2>3 DEF NumbersIInv, DraftHolds
<1>10. RowsHold'
  <2>1. n \in Int /\ (s \notin edited => FirstRow[s].next <= n)
    BY <1>1, <1>2 DEF NumbersIInv, RowsHold
  <2>2. FirstRow[s].next \in Int
    BY <1>1, RowColumns, NumbersAssumption
  <2>3. s \notin edited => FirstRow[s].next <= sequence'[s].next
    BY <2>1, <2>2, <1>7
  <2>4. \A t \in Sequence : t \notin edited => FirstRow[t].next <= sequence'[t].next
    BY <2>3, <1>6 DEF NumbersIInv, RowsHold
  <2>5. \A t \in Sequence : sequence'[t].label \in worn[t]
    BY <1>6 DEF NumbersIInv, RowsHold
  <2> QED
    BY <2>4, <2>5, <1>3 DEF RowsHold
<1>11. Used' = Used \cup {x}
  BY <1>1, <1>2, <1>3, <1>4, UsedGrows DEF NumbersIInv, NumbersTypeOK
<1>12. ASSUME NEW t \in Sequence, CountsAlone(t)'
       PROVE  Used' \cap Texts[sequence'[t].label]
                = {NumberText[sequence'[t].label][m] :
                     m \in FirstRow[t].next..(sequence'[t].next - 1)}
  <2>1. CountsAlone(t)
    BY <1>12, <1>3, <1>6 DEF CountsAlone
  <2>2. Used \cap Texts[sequence[t].label]
          = {NumberText[sequence[t].label][m] :
               m \in FirstRow[t].next..(sequence[t].next - 1)}
    BY <2>1 DEF NumbersIInv, NumbersConsecutive
  <2>3. CASE t = s
    <3>1. FirstRow[s].next \in Int /\ FirstRow[s].next <= n /\ n \in Int
      BY <1>1, <1>2, <2>1, <2>3, RowColumns, NumbersAssumption
         DEF NumbersIInv, RowsHold, CountsAlone
    <3> DEFINE a == FirstRow[s].next
    <3>2. a..(n + 1 - 1) = (a..(n - 1)) \cup {n}
      BY <3>1
    <3>3. Used \cap Texts[l] = {NumberText[l][m] : m \in a..(n - 1)}
      BY <2>2, <2>3, <1>2
    <3>4. Used' \cap Texts[l] = {NumberText[l][m] : m \in a..(n - 1)} \cup {x}
      BY <3>3, <1>4, <1>11
    <3>5. {NumberText[l][m] : m \in a..(n + 1 - 1)}
            = {NumberText[l][m] : m \in a..(n - 1)} \cup {x}
      BY <3>2
    <3>6. sequence'[t].label = l /\ sequence'[t].next = n + 1
      BY <2>3, <1>1, <1>2, <1>6, <1>7
    <3>7. Used' \cap Texts[l] = {NumberText[l][m] : m \in a..(n + 1 - 1)}
      BY <3>4, <3>5
    <3> DEFINE I == FirstRow[t].next..(sequence'[t].next - 1)
               L == sequence'[t].label
    <3>8. I = a..(n + 1 - 1) /\ L = l
      <4>1. FirstRow[t].next = a
        BY <2>3
      <4> DEFINE top == sequence'[t].next
      <4>2. top = n + 1 /\ n \in Int /\ a \in Int
        BY <3>1, <3>6
      <4> HIDE DEF top, n, a
      <4>3. FirstRow[t].next..(top - 1) = a..(n + 1 - 1)
        BY <4>1, <4>2
      <4> QED
        BY <4>3, <3>6 DEF top
    <3> HIDE DEF I, L, l, n, s, a
    <3>9. Used' \cap Texts[L] = {NumberText[L][m] : m \in I}
      BY <3>7, <3>8
    <3> QED
      BY <3>9 DEF I, L
  <2>4. CASE t # s
    <3>1. x \notin Texts[sequence[t].label]
      BY <1>1, <1>2, <1>4, <2>1, <2>4 DEF NumbersIInv, RowsHold, CountsAlone
    <3>2. sequence'[t] = sequence[t]
      BY <1>6, <2>4
    <3> QED
      BY <1>11, <2>2, <3>1, <3>2
  <2> QED
    BY <2>3, <2>4
<1>13. NumbersConsecutive'
  BY <1>12 DEF NumbersConsecutive
<1> QED
  BY <1>8, <1>9, <1>10, <1>13 DEF NumbersIInv

(* RollBackDraft keeps the invariant.                                    *)
LEMMA RollBackDraftKeeps ==
    ASSUME NumbersIInv, NEW c \in Clerk, RollBackDraft(c)
    PROVE  NumbersIInv'
<1>1. NumbersTypeOK'
  BY DEF NumbersIInv, NumbersTypeOK, RollBackDraft
<1>2. DraftHolds'
  BY DEF NumbersIInv, NumbersTypeOK, DraftHolds, Drafts, RollBackDraft
<1>3. RowsHold'
  BY DEF NumbersIInv, RowsHold, RollBackDraft
<1>4. NumbersConsecutive'
  BY DEF NumbersIInv, NumbersConsecutive, CountsAlone, Used, RollBackDraft
<1> QED
  BY <1>1, <1>2, <1>3, <1>4 DEF NumbersIInv

(* UpdateInvoiceSequence keeps the invariant.                            *)
LEMMA UpdateInvoiceSequenceKeeps ==
    ASSUME NumbersIInv, NEW s \in Sequence, NEW row \in SequenceRow,
           UpdateInvoiceSequence(s, row)
    PROVE  NumbersIInv'
<1>1. /\ sequence' = [sequence EXCEPT ![s] = row]
      /\ worn' = [worn EXCEPT ![s] = worn[s] \cup {row.label}]
      /\ edits' = edits + 1 /\ edits < MaxEdits
      /\ UNCHANGED <<number, drafting>>
  BY DEF UpdateInvoiceSequence
<1>2. \A t \in Sequence : t # s => sequence'[t] = sequence[t] /\ worn'[t] = worn[t]
  BY <1>1 DEF NumbersIInv, NumbersTypeOK
<1>3. sequence'[s] = row /\ worn'[s] = worn[s] \cup {row.label}
  BY <1>1 DEF NumbersIInv, NumbersTypeOK
<1>4. /\ edited \subseteq edited' /\ edited' \subseteq Sequence
      /\ s \notin edited' => /\ row.next = sequence[s].next
                             /\ row.label = sequence[s].label
  BY DEF UpdateInvoiceSequence, NumbersIInv, NumbersTypeOK
<1>5. NumbersTypeOK'
  <2>1. sequence' \in [Sequence -> SequenceRow]
    BY <1>1 DEF NumbersIInv, NumbersTypeOK
  <2>2. worn' \in [Sequence -> SUBSET Label]
    BY <1>1, RowColumns DEF NumbersIInv, NumbersTypeOK
  <2>3. edits' \in 0..MaxEdits
    BY <1>1, NumbersAssumption DEF NumbersIInv, NumbersTypeOK
  <2> QED
    BY <2>1, <2>2, <2>3, <1>1, <1>4 DEF NumbersIInv, NumbersTypeOK
<1>6. DraftHolds'
  <2>1. \A d \in Clerk : Drafts(d) => /\ drafting[d].sequence \in Sequence
                                      /\ drafting[d].sequence # s
    BY DEF NumbersIInv, NumbersTypeOK, DraftHolds, Drafts, Draft,
           UpdateInvoiceSequence, RowFree
  <2> QED
    BY <2>1, <1>1, <1>2 DEF NumbersIInv, DraftHolds, Drafts
<1>7. RowsHold'
  BY <1>2, <1>3, <1>4 DEF NumbersIInv, RowsHold
<1>8. ASSUME NEW t \in Sequence, CountsAlone(t)'
      PROVE  /\ sequence'[t].label = sequence[t].label
             /\ sequence'[t].next = sequence[t].next
             /\ CountsAlone(t)
  <2>1. /\ sequence'[t].label = sequence[t].label
        /\ sequence'[t].next = sequence[t].next
    BY <1>2, <1>3, <1>4, <1>8 DEF CountsAlone
  <2>2. \A u \in Sequence : worn[u] \subseteq worn'[u]
    BY <1>2, <1>3
  <2> QED
    BY <2>1, <2>2, <1>4, <1>8 DEF CountsAlone
<1>9. Used' = Used
  BY <1>1 DEF Used
<1>10. NumbersConsecutive'
  BY <1>8, <1>9 DEF NumbersIInv, NumbersConsecutive
<1> QED
  BY <1>5, <1>6, <1>7, <1>10 DEF NumbersIInv

(* Every step keeps the invariant, action by action.                     *)
LEMMA NumbersStep == NumbersIInv /\ [NumbersNext]_numberVars => NumbersIInv'
<1> SUFFICES ASSUME NumbersIInv, [NumbersNext]_numberVars PROVE NumbersIInv'
  OBVIOUS
<1>1. CASE UNCHANGED numberVars
  <2>1. NumbersTypeOK'
    BY <1>1 DEF numberVars, NumbersIInv, NumbersTypeOK
  <2>2. DraftHolds' /\ RowsHold'
    BY <1>1 DEF numberVars, NumbersIInv, DraftHolds, Drafts, RowsHold
  <2>3. NumbersConsecutive'
    BY <1>1 DEF numberVars, NumbersIInv, NumbersConsecutive, CountsAlone, Used
  <2> QED
    BY <2>1, <2>2, <2>3 DEF NumbersIInv
<1> QED
  BY <1>1, TakeNumberKeeps, CreateDraftKeeps, RollBackDraftKeeps,
     UpdateInvoiceSequenceKeeps DEF NumbersNext

(* What a draft holds is free: it is the number after those used.          *)
LEMMA HeldNumberIsFree == NumbersIInv => NumberStaysFree
<1> SUFFICES ASSUME NumbersIInv, NEW c \in Clerk, Drafts(c),
                    CountsAlone(drafting[c].sequence)
             PROVE  Unused(NumberOf(drafting[c]))
  BY DEF NumberStaysFree, Drafts
<1> DEFINE s == drafting[c].sequence
           l == drafting[c].label
           n == drafting[c].next
           a == FirstRow[s].next
<1>1. s \in Sequence /\ n \in 1..MaxNumber /\ l \in Label
  BY DEF NumbersIInv, NumbersTypeOK, Drafts, Draft
<1>2. n = sequence[s].next /\ l = sequence[s].label
  BY DEF NumbersIInv, DraftHolds
<1>3. Used \cap Texts[l] = {NumberText[l][m] : m \in a..(n - 1)}
  BY <1>1, <1>2 DEF NumbersIInv, NumbersConsecutive
<1>4. a \in 1..(MaxNumber + 1)
  BY <1>1, RowColumns, NumbersAssumption
<1>5. \A m \in a..(n - 1) : m \in 1..MaxNumber /\ m # n
  BY <1>1, <1>4, NumbersAssumption
<1>6. \A m \in a..(n - 1) : NumberText[l][m] # NumberText[l][n]
  BY <1>1, <1>5, NumbersAssumption
<1>7. NumberText[l][n] \in Texts[l]
  BY <1>1 DEF Texts
<1>8. NumberText[l][n] \notin Used
  BY <1>3, <1>6, <1>7
<1> QED
  BY <1>8 DEF Unused, NumberOf

(* Invoice numbers are consecutive and a number held stays free, for any   *)
(* clerks, invoices, sequences, labels and branches, whatever the admins'  *)
(* forms write.                                                            *)
THEOREM NumbersAlwaysHold == NumbersSpec => []NumbersHold
<1>1. NumbersIInv => NumbersHold
  BY HeldNumberIsFree DEF NumbersIInv, NumbersHold
<1> QED
  BY <1>1, NumbersStart, NumbersStep, PTL DEF NumbersSpec

-----------------------------------------------------------------------------
(*************************************************************************)
(* Reorder advice.  Rounded quotients are compared through what they are *)
(* multiples of: a quotient is at least every number that fits in it.    *)
(*************************************************************************)

ShelfType ==
    /\ shelf \in ShelfKind \cup {NoShelf}
    /\ stock \in Nat
    /\ sold \in [1..Lookback -> Nat]

(* Multiplication keeps the order of natural numbers.                      *)
LEMMA ProductGrows ==
    ASSUME NEW x \in Nat, NEW y \in Nat, NEW z \in Nat, x <= y
    PROVE  x * z <= y * z /\ x * z \in Nat /\ y * z \in Nat
<1> DEFINE k == y - x
<1>1. k \in Nat /\ y = x + k
  OBVIOUS
<1> HIDE DEF k
<1>2. y * z = x * z + k * z
  BY <1>1
<1>3. k * z \in Nat /\ x * z \in Nat
  BY <1>1
<1> QED
  BY <1>2, <1>3

(* What a rounded quotient is.                                             *)
LEMMA RoundedIs ==
    ASSUME NEW n \in Nat, NEW d \in Nat, d > 0
    PROVE  /\ Rounded(n, d) \in Nat
           /\ (2 * d) * Rounded(n, d) <= 2 * n + d
           /\ 2 * n + d < (2 * d) * Rounded(n, d) + 2 * d
<1> DEFINE a == 2 * n + d
           b == 2 * d
<1>1. a \in Nat /\ b \in Nat /\ b > 0
  OBVIOUS
<1> HIDE DEF a, b
<1>2. a \div b \in Nat /\ b * (a \div b) <= a /\ a < b * (a \div b) + b
  BY <1>1
<1> QED
  BY <1>2 DEF a, b, Rounded

(* It is at least any number that fits in it, and grows with the dividend  *)
(* and shrinks with the divisor.                                           *)
LEMMA RoundedAtLeast ==
    ASSUME NEW n \in Nat, NEW d \in Nat, d > 0, NEW q \in Nat,
           (2 * d) * q <= 2 * n + d
    PROVE  q <= Rounded(n, d)
<1> DEFINE r == Rounded(n, d)
           b == 2 * d
<1>1. r \in Nat /\ b \in Nat /\ 2 * n + d < b * r + b
  BY RoundedIs
<1>2. SUFFICES ASSUME r + 1 <= q PROVE FALSE
  BY <1>1
<1>3. b * q <= 2 * n + d
  OBVIOUS
<1> HIDE DEF r, b
<1>4. (r + 1) * b <= q * b /\ (r + 1) * b \in Nat /\ q * b \in Nat
  BY <1>1, <1>2, ProductGrows
<1>5. (r + 1) * b = b * r + b /\ q * b = b * q
  BY <1>1
<1>6. b * r \in Nat /\ b * q \in Nat
  BY <1>1
<1> QED
  BY <1>1, <1>3, <1>4, <1>5, <1>6

(* A rounded quotient grows with what is divided and shrinks with the    *)
(* divisor.                                                              *)
LEMMA RoundedMonotone ==
    ASSUME NEW n \in Nat, NEW m \in Nat, m <= n, NEW d \in Nat, NEW e \in Nat, d > 0, d <= e
    PROVE  Rounded(m, e) <= Rounded(n, d)
<1> DEFINE r == Rounded(n, d)
           s == Rounded(m, e)
<1>1. r \in Nat /\ 2 * n + d < (2 * d) * r + 2 * d
  BY RoundedIs
<1>2. s \in Nat /\ (2 * e) * s <= 2 * m + e
  BY RoundedIs
<1> HIDE DEF r, s
<1>3. SUFFICES ASSUME r + 1 <= s PROVE FALSE
  BY <1>1, <1>2 DEF r, s
<1>4. (r + 1) * (2 * e) <= s * (2 * e)
  BY <1>1, <1>2, <1>3, ProductGrows
<1>5. d * (2 * r + 1) <= e * (2 * r + 1)
  BY <1>1, ProductGrows
<1>6. (r + 1) * (2 * e) = e * (2 * r + 1) + e /\ s * (2 * e) = (2 * e) * s
      /\ d * (2 * r + 1) + d = (2 * d) * r + 2 * d
  BY <1>1, <1>2
<1>7. e * (2 * r + 1) \in Nat /\ d * (2 * r + 1) \in Nat /\ (2 * e) * s \in Nat
      /\ (2 * d) * r \in Nat
  BY <1>1, <1>2, ProductGrows
<1> QED
  BY <1>1, <1>2, <1>4, <1>5, <1>6, <1>7

(* A day's sales are a number.                                           *)
LEMMA AverageType ==
    ASSUME NEW sales \in [1..Lookback -> Nat]
    PROVE  /\ SumFunctionOnSet(sales, 1..Lookback) \in Nat
           /\ Average(sales) \in Nat
<1>1. Lookback \in Nat /\ Lookback > 0
  BY AdviceAssumption
<1>2. IsFiniteSet(1..Lookback)
  BY <1>1, FS_Interval
<1>3. SumFunctionOnSet(sales, 1..Lookback) \in Nat
  BY <1>2, SumBounds
<1> QED
  BY <1>1, <1>3, RoundedIs DEF Average

(* The invariant holds at first.                                         *)
LEMMA ShelfStart == ShelfInit => ShelfType
BY DEF ShelfInit, ShelfType

(* Every step keeps the invariant, action by action.                     *)
LEMMA ShelfStep == ShelfType /\ [ShelfNext]_shelfVars => ShelfType'
<1> SUFFICES ASSUME ShelfType, [ShelfNext]_shelfVars PROVE ShelfType'
  OBVIOUS
<1> USE DEF ShelfType
<1>1. ASSUME NEW kind \in ShelfKind, NEW level \in Packs, Stock(kind, level)
      PROVE  ShelfType'
  BY <1>1, AdviceAssumption DEF Stock
<1>2. ASSUME NEW q \in Packs, SellPack(q) PROVE ShelfType'
  <2>1. q \in Nat
    BY AdviceAssumption
  <2>2. sold' \in [1..Lookback -> Nat]
    <3>1. 1 \in 1..Lookback
      BY AdviceAssumption
    <3>2. sold[1] + q \in Nat /\ sold \in [1..Lookback -> Nat]
      BY <2>1, <3>1
    <3>3. sold' = [sold EXCEPT ![1] = sold[1] + q]
      BY <1>2 DEF SellPack
    <3> QED
      BY <3>2, <3>3
  <2> QED
    BY <1>2, <2>1, <2>2 DEF SellPack
<1>3. ASSUME NEW q \in Packs, Deliver(q) PROVE ShelfType'
  BY <1>3, AdviceAssumption DEF Deliver
<1>4. CASE WindowMoves
  <2>1. \A d \in 1..Lookback : d # 1 => d - 1 \in 1..Lookback
    BY AdviceAssumption
  <2>2. \A d \in 1..Lookback : (IF d = 1 THEN 0 ELSE sold[d - 1]) \in Nat
    BY <2>1
  <2>3. sold' = [d \in 1..Lookback |-> IF d = 1 THEN 0 ELSE sold[d - 1]]
        /\ UNCHANGED <<shelf, stock>>
    BY <1>4 DEF WindowMoves
  <2>4. sold' \in [1..Lookback -> Nat]
    BY <2>2, <2>3, Zenon
  <2> QED
    BY <2>3, <2>4
<1>5. CASE UNCHANGED shelfVars
  BY <1>5 DEF shelfVars
<1> QED
  BY <1>1, <1>2, <1>3, <1>4, <1>5 DEF ShelfNext

(* The suggested quantity ends the alarm: the rounded days of stock      *)
(* exceed the lead time by the half that was rounded.                    *)
LEMMA SuggestionIsEnough == ShelfType => SuggestionSuffices
<1> DEFINE average == Average(sold)
           after == stock + Suggested(shelf, stock, average)
           demand == average * shelf.lead
<1> SUFFICES ASSUME ShelfType, shelf # NoShelf,
                    4 * shelf.target > 5 * shelf.threshold,
                    200 * shelf.target > average
             PROVE  /\ Priority(shelf, after, average) = "low"
                    /\ Suggested(shelf, after, average) = 0
  BY DEF SuggestionSuffices
<1>1. /\ shelf.target \in Nat /\ shelf.threshold \in Nat /\ shelf.lead \in Nat
      /\ stock \in Nat /\ average \in Nat
  BY AdviceAssumption, AverageType DEF ShelfType
<1> HIDE DEF average
<1>2. demand \in Nat
  BY <1>1, ProductGrows
<1>3. after \in Nat /\ after >= shelf.target + demand
  BY <1>1, <1>2 DEF Suggested
<1>4. Suggested(shelf, after, average) = 0
  BY <1>1, <1>2, <1>3 DEF Suggested
<1> HIDE DEF after
<1>5. after > 0 /\ after > shelf.threshold /\ ~(4 * after <= 5 * shelf.threshold)
  <2> HIDE DEF demand
  <2> QED
    BY <1>1, <1>2, <1>3
<1>6. ~RunsOut(shelf, after, average)
  <2> SUFFICES ASSUME average > 0
               PROVE  shelf.lead * 100 + 1 <= Rounded(after * 100, average)
    <3>1. average > 0 => Rounded(after * 100, average) \in Nat
      BY <1>1, <1>3, RoundedIs
    <3> QED
      BY <1>1, <3>1 DEF RunsOut
  <2>1. (2 * average) * (shelf.lead * 100 + 1) = 200 * demand + 2 * average
    BY <1>1
  <2> HIDE DEF demand
  <2>2. 200 * demand + 2 * average <= 2 * (after * 100) + average
    BY <1>1, <1>2, <1>3
  <2>3. after * 100 \in Nat /\ shelf.lead * 100 + 1 \in Nat
    BY <1>1, <1>3
  <2> QED
    BY <1>1, <2>1, <2>2, <2>3, RoundedAtLeast
<1>7. Priority(shelf, after, average) = "low"
  <2>1. ~(after <= 0) /\ ~(after <= shelf.threshold)
    BY <1>1, <1>3, <1>5
  <2> QED
    BY <1>5, <1>6, <2>1, Zenon DEF Priority
<1> QED
  BY <1>4, <1>7

(* More urgent: less stock and more sales.                                 *)
LEMMA UrgencyGrows ==
    ASSUME NEW kind \in ShelfKind, NEW level \in Nat, NEW lower \in Nat, lower <= level,
           NEW average \in Nat, NEW higher \in Nat, average <= higher
    PROVE  PRIORITY_ORDER[Priority(kind, lower, higher)]
             <= PRIORITY_ORDER[Priority(kind, level, average)]
<1>1. kind.threshold \in Nat /\ kind.lead \in Nat
  BY AdviceAssumption
<1>2. RunsOut(kind, level, average) => RunsOut(kind, lower, higher)
  <2> SUFFICES ASSUME average > 0, Rounded(level * 100, average) <= kind.lead * 100
               PROVE  higher > 0 /\ Rounded(lower * 100, higher) <= kind.lead * 100
    BY DEF RunsOut
  <2>1. level * 100 \in Nat /\ lower * 100 \in Nat /\ lower * 100 <= level * 100
    OBVIOUS
  <2>2. Rounded(lower * 100, higher) <= Rounded(level * 100, average)
    BY <2>1, RoundedMonotone
  <2>3. higher > 0
    OBVIOUS
  <2>4. Rounded(lower * 100, higher) \in Nat /\ Rounded(level * 100, average) \in Nat
    BY <2>1, <2>3, RoundedIs
  <2> QED
    BY <1>1, <2>2, <2>3, <2>4
<1>3. /\ PRIORITY_ORDER["critical"] = 0 /\ PRIORITY_ORDER["high"] = 1
      /\ PRIORITY_ORDER["medium"] = 2 /\ PRIORITY_ORDER["low"] = 3
  BY DEF PRIORITY_ORDER
<1> DEFINE C == lower <= 0 \/ RunsOut(kind, lower, higher)
           H == lower <= kind.threshold
           M == kind.threshold > 0 /\ 4 * lower <= 5 * kind.threshold
           c == level <= 0 \/ RunsOut(kind, level, average)
           h == level <= kind.threshold
           m == kind.threshold > 0 /\ 4 * level <= 5 * kind.threshold
<1>4. (c => C) /\ (h => H) /\ (m => M)
  BY <1>1, <1>2
<1>5. /\ Priority(kind, lower, higher) =
           IF C THEN "critical" ELSE IF H THEN "high" ELSE IF M THEN "medium" ELSE "low"
      /\ Priority(kind, level, average) =
           IF c THEN "critical" ELSE IF h THEN "high" ELSE IF m THEN "medium" ELSE "low"
  BY DEF Priority
<1> HIDE DEF C, H, M, c, h, m
<1> QED
  BY <1>3, <1>4, <1>5

(* A sale lowers the stock and raises the average.                       *)
LEMMA SaleIsUrgent ==
    ShelfType /\ [ShelfNext]_shelfVars =>
      [shelf # NoShelf /\ stock' < stock =>
         PRIORITY_ORDER[Priority(shelf, stock', Average(sold'))]
           <= PRIORITY_ORDER[Priority(shelf, stock, Average(sold))]]_shelfVars
<1> SUFFICES ASSUME ShelfType, ShelfNext, shelf # NoShelf, stock' < stock
             PROVE  PRIORITY_ORDER[Priority(shelf, stock', Average(sold'))]
                      <= PRIORITY_ORDER[Priority(shelf, stock, Average(sold))]
  OBVIOUS
<1>1. stock \in Nat /\ sold \in [1..Lookback -> Nat] /\ shelf \in ShelfKind
  BY DEF ShelfType
<1>2. PICK q \in Packs : SellPack(q)
  BY <1>1, AdviceAssumption DEF ShelfNext, Stock, Deliver, WindowMoves
<1>3. q \in Nat
  BY AdviceAssumption
<1>4. ShelfType'
  BY ShelfStep
<1>5. stock' \in Nat /\ sold' \in [1..Lookback -> Nat]
  BY <1>4 DEF ShelfType
<1>6. \A d \in 1..Lookback : sold[d] \in Int /\ sold'[d] \in Int /\ sold[d] <= sold'[d]
  BY <1>1, <1>2, <1>3 DEF SellPack
<1>7. Lookback \in Nat /\ Lookback > 0 /\ IsFiniteSet(1..Lookback)
  BY AdviceAssumption, FS_Interval
<1> DEFINE before == SumFunctionOnSet(sold, 1..Lookback)
           now == SumFunctionOnSet(sold', 1..Lookback)
<1>8. before \in Nat /\ now \in Nat /\ Average(sold) \in Nat /\ Average(sold') \in Nat
  BY <1>1, <1>5, AverageType
<1>9. before <= now
  BY <1>6, <1>7, SumMonotone
<1>10. Average(sold) = Rounded(before, Lookback) /\ Average(sold') = Rounded(now, Lookback)
  BY DEF Average
<1> HIDE DEF before, now
<1>11. Rounded(before, Lookback) <= Rounded(now, Lookback)
  <2>1. /\ Rounded(before, Lookback) \in Nat
        /\ (2 * Lookback) * Rounded(before, Lookback) <= 2 * before + Lookback
    BY <1>7, <1>8, RoundedIs
  <2>2. (2 * Lookback) * Rounded(before, Lookback) \in Nat
    BY <1>7, <2>1, ProductGrows
  <2>3. (2 * Lookback) * Rounded(before, Lookback) <= 2 * now + Lookback
    BY <1>7, <1>8, <1>9, <2>1, <2>2
  <2> QED
    BY <1>7, <1>8, <2>1, <2>3, RoundedAtLeast
<1>12. Average(sold) <= Average(sold') /\ stock' <= stock
  BY <1>1, <1>5, <1>10, <1>11
<1> QED
  BY <1>1, <1>5, <1>8, <1>12, UrgencyGrows

(* The advice is safe to follow for any product, any look-back and any   *)
(* sales: what is suggested suffices, and a sale never makes a product   *)
(* less urgent (recommendation_from_row, assign_priority).               *)
THEOREM AdviceAlwaysHolds == ShelfSpec => AdviceHolds
<1>1. ShelfSpec => []ShelfType
  BY ShelfStart, ShelfStep, PTL DEF ShelfSpec
<1>2. ShelfSpec => []SuggestionSuffices
  BY <1>1, SuggestionIsEnough, PTL
<1>3. ShelfSpec => SaleNeverCalms
  BY <1>1, SaleIsUrgent, PTL DEF ShelfSpec, SaleNeverCalms
<1> QED
  BY <1>2, <1>3 DEF AdviceHolds
=============================================================================
