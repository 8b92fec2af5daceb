--------------------------- MODULE CafeTableProofs ---------------------------
(***************************************************************************)
(* What is proved of CafeTable for any number of visits, orders and        *)
(* requests under way: type correctness, one active session, that orders   *)
(* and invoices reconcile, that charges stand, and that the table keeps    *)
(* the owner's BillBook.                                                   *)
(*                                                                         *)
(* The conjunction IInv of the three invariants is inductive once it says  *)
(* what a retail payment under way may count on: that it has read no more  *)
(* than was received.  A stale request writes nothing but a session's      *)
(* status and version, or an invoice's paid_amount.  What is charged is    *)
(* protected not by these, which such a write may turn back, but by the    *)
(* order's own status and by the payment rows, which are only added to.    *)
(***************************************************************************)
EXTENDS CafeTable, TLAPS

(* A payment under way has read an invoice, and no more than was received. *)
PaymentsRead ==
    \A r \in Request :
        pending[r] # Idle /\ pending[r].kind = "payment" =>
            /\ invoice[pending[r].session].status = "issued"
            /\ pending[r].read <= invoice[pending[r].session].rows

IInv == TypeOK /\ OneActiveSession /\ BillsReconcile /\ PaymentsRead

SessionType == [status : Active \cup Ended \cup {"none"}, version : Nat]

OrderType == [status : OrderStatus, session : Session \cup {NoSession},
              bill : Session \cup {NoSession}]

USE TableAssumption

(* There is no visit, order or bill at first.                              *)
LEMMA InitInv == ASSUME Init PROVE IInv
<1>1. TypeOK /\ OneActiveSession
  BY SMT DEF Init, TypeOK, OneActiveSession, OrderStatus, Active, Ended, InvoiceType
<1>2. BillsReconcile
  BY SMT DEF Init, BillsReconcile, OrderReconciles, InvoiceReconciles, Charged
<1>3. PaymentsRead
  BY DEF Init, PaymentsRead
<1> QED
  BY <1>1, <1>2, <1>3 DEF IInv

-----------------------------------------------------------------------------
(* What the helpers write is well typed.                                 *)
LEMMA SessionTyped ==
    ASSUME TypeOK, NEW s \in Session, NEW st \in Active \cup Ended, NEW n \in Nat,
           SetSession(s, st, n)
    PROVE  /\ session' \in [Session -> SessionType]
           /\ session'[s].status = st
           /\ \A t \in Session \ {s} : session'[t] = session[t]
BY DEF TypeOK, SetSession, SessionType

(* A change of status leaves an order its session and its bill.            *)
LEMMA StatusTyped ==
    ASSUME TypeOK, NEW O \in SUBSET Order, NEW st \in OrderStatus, SetStatus(O, st)
    PROVE  /\ order' \in [Order -> OrderType]
           /\ \A o \in Order : /\ order'[o].bill = order[o].bill
                               /\ order'[o].session = order[o].session
           /\ \A o \in O : order'[o].status = st
           /\ \A o \in Order \ O : order'[o] = order[o]
<1>1. \A o \in Order : order[o] \in OrderType
  BY DEF TypeOK, OrderType
<1>2. \A o \in Order : [order[o] EXCEPT !.status = st] \in OrderType
  BY <1>1 DEF OrderType
<1> QED
  BY <1>1, <1>2 DEF SetStatus, OrderType

(* A charge gives orders their bill and leaves the others as they are.     *)
LEMMA ChargeTyped ==
    ASSUME TypeOK, NEW O \in SUBSET Order, NEW s \in Session, NEW paid \in Nat,
           Charge(s, O, paid)
    PROVE  /\ order' \in [Order -> OrderType]
           /\ \A o \in Order : order'[o].session = order[o].session
           /\ \A o \in O : /\ order'[o].bill = s
                           /\ order'[o].status = IF paid = GrandTotal THEN "closed" ELSE "billed"
           /\ \A o \in Order \ O : order'[o] = order[o]
<1> DEFINE e(o) == [order[o] EXCEPT !.bill = s,
                                    !.status = IF paid = GrandTotal
                                               THEN "closed" ELSE "billed"]
<1>1. \A o \in Order : order[o] \in OrderType
  BY DEF TypeOK, OrderType
<1>2. \A o \in Order : /\ e(o) \in OrderType
                       /\ e(o).bill = s
                       /\ e(o).session = order[o].session
                       /\ e(o).status = IF paid = GrandTotal
                                        THEN "closed" ELSE "billed"
  BY <1>1 DEF OrderType, OrderStatus
<1>3. order' = [o \in Order |-> IF o \in O THEN e(o) ELSE order[o]]
  BY DEF Charge
<1> HIDE DEF e
<1> QED
  BY <1>1, <1>2, <1>3

(* A request that ends.                                                    *)
LEMMA PendingTyped ==
    ASSUME TypeOK, NEW r \in Request, Finish(r)
    PROVE  pending' \in [Request -> PendingType \cup {Idle}]
BY DEF TypeOK, Finish

(* What a request under way has read.                                      *)
LEMMA UnderwayTyped ==
    ASSUME TypeOK, NEW r \in Request, NEW k, Underway(r, k)
    PROVE  pending[r] \in PendingType /\ pending[r].session \in Session
             /\ pending[r].read \in Nat /\ pending[r].kind = k
BY DEF TypeOK, Underway, PendingType

(* A payment adds its row, and its amount to the paid_amount it read.      *)
LEMMA PaymentTyped ==
    ASSUME TypeOK, NEW s \in Session, NEW n \in Nat, NEW amount \in Nat,
           Pay(s, n, amount)
    PROVE  /\ invoice' \in [Session -> InvoiceType]
           /\ invoice'[s].status = invoice[s].status
           /\ invoice'[s].paid = n + amount
           /\ invoice'[s].rows = invoice[s].rows + amount
           /\ \A t \in Session \ {s} : invoice'[t] = invoice[t]
<1> DEFINE i == [status |-> invoice[s].status, paid |-> n + amount,
                 rows |-> invoice[s].rows + amount]
<1>1. invoice[s] \in InvoiceType /\ invoice \in [Session -> InvoiceType]
  BY DEF TypeOK
<1>2. i \in InvoiceType
  BY <1>1 DEF InvoiceType
<1>3. invoice' = [invoice EXCEPT ![s] = i]
  BY <1>1 DEF Pay, InvoiceType
<1>4. /\ i.status = invoice[s].status /\ i.paid = n + amount
      /\ i.rows = invoice[s].rows + amount
  OBVIOUS
<1> HIDE DEF i
<1> QED
  BY <1>1, <1>2, <1>3, <1>4

(* What the payments under way have read stays so: invoices are not taken  *)
(* back, nor the payments received.                                        *)
LEMMA ReadsKept ==
    ASSUME PaymentsRead, TypeOK, TypeOK',
           \A s \in Session : invoice[s].status = "issued" =>
               invoice'[s].status = "issued" /\ invoice[s].rows <= invoice'[s].rows,
           \A r \in Request : pending'[r] \in {pending[r], Idle}
    PROVE  PaymentsRead'
<1> SUFFICES ASSUME NEW r \in Request, pending'[r] # Idle,
                    pending'[r].kind = "payment"
             PROVE  /\ invoice'[pending'[r].session].status = "issued"
                    /\ pending'[r].read <= invoice'[pending'[r].session].rows
  BY DEF PaymentsRead
<1>1. pending'[r] = pending[r]
  OBVIOUS
<1>2. pending[r].session \in Session /\ pending[r].read \in Nat
  BY <1>1 DEF TypeOK, PendingType
<1>3. /\ invoice[pending[r].session].status = "issued"
      /\ pending[r].read <= invoice[pending[r].session].rows
  BY <1>1 DEF PaymentsRead
<1>4. /\ invoice[pending[r].session].rows \in Nat
      /\ invoice'[pending[r].session].rows \in Nat
  BY <1>2 DEF TypeOK, InvoiceType
<1> QED
  BY <1>1, <1>2, <1>3, <1>4

(* The same where nothing happens to the invoices.                         *)
LEMMA ReadsIdle ==
    ASSUME IInv, TypeOK', UNCHANGED invoice,
           \/ UNCHANGED pending
           \/ \E r \in Request : Finish(r)
    PROVE  PaymentsRead'
<1>1. \A r \in Request : pending'[r] \in {pending[r], Idle}
  BY DEF Finish, IInv, TypeOK
<1>2. \A s \in Session : invoice[s].rows <= invoice'[s].rows
  BY DEF IInv, TypeOK, InvoiceType
<1> QED
  BY <1>1, <1>2, ReadsKept DEF IInv

(* A request that begins touches nothing else.                             *)
LEMMA BeginTyped ==
    ASSUME TypeOK, NEW r \in Request, NEW s \in Session, NEW n \in Nat,
           NEW k \in {"order", "guest_bill", "close", "bill", "payment"},
           Begin(r, k, s, n)
    PROVE  TypeOK' /\ UNCHANGED <<session, order, invoice, mixed>>
<1>2. [kind |-> k, session |-> s, read |-> n] \in PendingType
  BY DEF PendingType
<1>3. pending' \in [Request -> PendingType \cup {Idle}]
  BY <1>2 DEF TypeOK, Begin
<1> QED
  BY <1>3 DEF TypeOK, Begin

(* No transition leads to or out of a charged status.                      *)
LEMMA Vocabulary ==
    /\ Active \cap Ended = {} /\ "none" \notin Active \cup Ended
    /\ \A st \in DOMAIN ValidTransitions :
         /\ ValidTransitions[st] \subseteq OrderStatus \ {"none", "billed", "closed"}
         /\ st \notin {"billed", "closed"}
    /\ DOMAIN ValidTransitions = {"placed", "accepted", "preparing", "ready"}
BY DEF Active, Ended, ValidTransitions, OrderStatus

-----------------------------------------------------------------------------
(* A request that reads; a payment reads an invoice, and its paid_amount.  *)
LEMMA BeginInv ==
    ASSUME IInv, NEW r \in Request, NEW s \in Session, NEW n \in Nat,
           NEW k \in {"order", "guest_bill", "close", "bill", "payment"},
           k = "payment" => invoice[s].status = "issued" /\ n = invoice[s].paid,
           Begin(r, k, s, n)
    PROVE  IInv'
<1>1. TypeOK' /\ UNCHANGED <<session, order, invoice, mixed>>
  BY BeginTyped DEF IInv
<1>2. BillsReconcile' /\ OneActiveSession'
  BY <1>1 DEF IInv, OneActiveSession, BillsReconcile, OrderReconciles,
              InvoiceReconciles, Charged
<1> DEFINE p == [kind |-> k, session |-> s, read |-> n]
<1>3. pending' = [pending EXCEPT ![r] = p]
  BY DEF Begin
<1>4. p.kind = k /\ p.session = s /\ p.read = n
  OBVIOUS
<1> HIDE DEF p
<1>5. /\ pending'[r] = p
      /\ \A q \in Request \ {r} : pending'[q] = pending[q]
  BY <1>3 DEF IInv, TypeOK
<1>6. invoice[s].paid <= invoice[s].rows
  BY DEF IInv, BillsReconcile, InvoiceReconciles
<1>7. PaymentsRead'
  BY <1>1, <1>4, <1>5, <1>6 DEF IInv, PaymentsRead
<1> QED
  BY <1>1, <1>2, <1>7 DEF IInv

(* Steps that change requests only.                                        *)
LEMMA IdleInv ==
    ASSUME IInv, UNCHANGED <<session, order, invoice, mixed>>,
           \/ UNCHANGED pending
           \/ \E r \in Request : Finish(r)
    PROVE  IInv'
<1>1. pending' \in [Request -> PendingType \cup {Idle}]
  BY PendingTyped DEF IInv, TypeOK
<1>2. TypeOK' /\ OneActiveSession'
  BY <1>1 DEF IInv, TypeOK, OneActiveSession
<1>3. BillsReconcile'
  BY DEF IInv, BillsReconcile, OrderReconciles, InvoiceReconciles, Charged
<1>4. PaymentsRead'
  BY <1>2, ReadsIdle
<1> QED
  BY <1>2, <1>3, <1>4 DEF IInv

(* A session that gets no status it may not have keeps the orders' part,   *)
(* and the table's if s was active before or no other session is.          *)
LEMMA SessionInv ==
    ASSUME IInv, NEW s \in Session, NEW st \in Active \cup Ended, NEW n \in Nat,
           SetSession(s, st, n), UNCHANGED <<order, invoice, mixed>>,
           \/ UNCHANGED pending
           \/ \E r \in Request : Finish(r),
           st # "billed",
           st \in Active => TableFreeFor(s)
    PROVE  IInv'
<1>1. /\ session' \in [Session -> SessionType]
      /\ session'[s].status = st
      /\ \A t \in Session \ {s} : session'[t] = session[t]
  BY SessionTyped DEF IInv
<1>0. pending' \in [Request -> PendingType \cup {Idle}]
  BY PendingTyped DEF IInv, TypeOK
<1>2. TypeOK'
  BY <1>0, <1>1 DEF IInv, TypeOK, SessionType
<1>3. OneActiveSession'
  BY <1>1 DEF IInv, OneActiveSession, TableFreeFor
<1>4. BillsReconcile'
  BY <1>1 DEF IInv, BillsReconcile, OrderReconciles, InvoiceReconciles, Charged
<1>5. PaymentsRead'
  BY <1>2, ReadsIdle
<1> QED
  BY <1>2, <1>3, <1>4, <1>5 DEF IInv

(* A table is opened only when no session on it is active.                 *)
LEMMA OpenInv == ASSUME IInv, NEW s \in Session, OpenTableSession(s) PROVE IInv'
<1>1. "open" \in Active \cup Ended /\ 1 \in Nat
  BY DEF Active
<1> QED
  BY <1>1, SessionInv DEF OpenTableSession

(* A guest asks for the bill, by what was read before.                     *)
LEMMA PublicBillInv == ASSUME IInv, NEW r \in Request, RequestPublicBill(r) PROVE IInv'
<1> DEFINE s == pending[r].session
<1>1. s \in Session /\ pending[r].read + 1 \in Nat
  BY UnderwayTyped DEF RequestPublicBill, IInv
<1>2. Finish(r) /\ UNCHANGED <<order, invoice, mixed>>
  BY DEF RequestPublicBill
<1>3. "bill_requested" \in Active
  BY DEF Active
<1>4. CASE TableFreeFor(s)
  BY <1>1, <1>2, <1>3, <1>4, SessionInv DEF RequestPublicBill
<1>5. CASE ~TableFreeFor(s)
  <2>1. UNCHANGED <<session, order, invoice, mixed>>
    BY <1>5 DEF RequestPublicBill
  <2> QED
    BY <1>2, <2>1, IdleInv
<1> QED
  BY <1>4, <1>5

(* A session is closed or cancelled, by what was read before.              *)
LEMMA CloseInv ==
    ASSUME IInv, NEW r \in Request, NEW st \in Ended, CloseTableSession(r, st)
    PROVE  IInv'
<1>1. pending[r].session \in Session /\ pending[r].read + 1 \in Nat
  BY UnderwayTyped DEF CloseTableSession, IInv
<1>2. Finish(r) /\ UNCHANGED <<order, invoice, mixed>>
  BY DEF CloseTableSession
<1>3. st \notin Active /\ st # "billed"
  BY Vocabulary DEF Active
<1> QED
  BY <1>1, <1>2, <1>3, SessionInv DEF CloseTableSession

-----------------------------------------------------------------------------
(* Orders that are not charged take a status that no charged order has.    *)
LEMMA StatusInv ==
    ASSUME IInv, NEW O \in SUBSET Order, NEW st \in OrderStatus \ {"billed", "closed"},
           SetStatus(O, st), UNCHANGED invoice,
           \A o \in O : order[o].status \notin {"billed", "closed"}
    PROVE  /\ order' \in [Order -> OrderType]
           /\ \A o \in Order : OrderReconciles(o)'
           /\ \A t \in Session : Charged(t)' = Charged(t)
<1>1. /\ order' \in [Order -> OrderType]
      /\ \A o \in Order : /\ order'[o].bill = order[o].bill
                          /\ order'[o].session = order[o].session
      /\ \A o \in O : order'[o].status = st
      /\ \A o \in Order \ O : order'[o] = order[o]
  BY StatusTyped DEF IInv
<1>2. \A t \in Session : Charged(t)' = Charged(t)
  BY <1>1 DEF Charged
<1> QED
  BY <1>1, <1>2 DEF IInv, BillsReconcile, OrderReconciles

(* A transition of an order.                                               *)
LEMMA TransitionInv ==
    ASSUME IInv, NEW o \in Order, NEW target \in OrderStatus, TransitionOrder(o, target)
    PROVE  IInv'
<1>1. /\ target \in OrderStatus \ {"billed", "closed"}
      /\ order[o].status \notin {"billed", "closed"}
  BY Vocabulary DEF TransitionOrder
<1>2. SetStatus({o}, target) /\ UNCHANGED <<session, invoice, pending, mixed>>
  BY DEF TransitionOrder
<1>3. /\ order' \in [Order -> OrderType]
      /\ \A p \in Order : OrderReconciles(p)'
      /\ \A t \in Session : Charged(t)' = Charged(t)
  BY <1>1, <1>2, StatusInv
<1>4. TypeOK' /\ OneActiveSession'
  BY <1>2, <1>3 DEF IInv, TypeOK, OrderType, OneActiveSession
<1>5. BillsReconcile'
  BY <1>2, <1>3 DEF IInv, BillsReconcile, InvoiceReconciles
<1>6. PaymentsRead'
  BY <1>2, <1>4, ReadsIdle
<1> QED
  BY <1>4, <1>5, <1>6 DEF IInv

(* The staff ask for the bill.                                             *)
LEMMA TableBillInv ==
    ASSUME IInv, NEW s \in Session, RequestTableSessionBill(s) PROVE IInv'
<1> DEFINE O == {o \in Order : /\ order[o].session = s
                               /\ order[o].status \notin
                                    {"rejected", "cancelled", "closed"}}
<1>1. /\ \A o \in O : order[o].status = "served"
      /\ SetStatus(O, "bill_requested")
      /\ SetSession(s, "bill_requested", session[s].version + 1)
      /\ session[s].status = "open"
      /\ UNCHANGED <<invoice, pending, mixed>>
  BY DEF RequestTableSessionBill
<1>2. O \in SUBSET Order
  OBVIOUS
<1>3. \A o \in O : order[o].status \notin {"billed", "closed"}
  BY <1>1
<1> HIDE DEF O
<1>4. "bill_requested" \in OrderStatus \ {"billed", "closed"}
        /\ "bill_requested" \in Active /\ "open" \in Active
  BY DEF OrderStatus, Active
<1>5. /\ order' \in [Order -> OrderType]
      /\ \A p \in Order : OrderReconciles(p)'
      /\ \A t \in Session : Charged(t)' = Charged(t)
  BY <1>1, <1>2, <1>3, <1>4, StatusInv
<1>6. session[s].version + 1 \in Nat
  BY DEF IInv, TypeOK
<1>7. /\ session' \in [Session -> SessionType]
      /\ session'[s].status = "bill_requested"
      /\ \A t \in Session \ {s} : session'[t] = session[t]
  BY <1>1, <1>4, <1>6, SessionTyped DEF IInv
<1>8. TypeOK'
  BY <1>1, <1>5, <1>7 DEF IInv, TypeOK, OrderType, SessionType
<1>9. OneActiveSession'
  BY <1>1, <1>4, <1>7 DEF IInv, OneActiveSession
<1>10. BillsReconcile'
  BY <1>1, <1>5, <1>7 DEF IInv, BillsReconcile, InvoiceReconciles
<1>11. PaymentsRead'
  BY <1>1, <1>8, ReadsIdle
<1> QED
  BY <1>8, <1>9, <1>10, <1>11 DEF IInv

(* An order is placed, in a session that was read before.                  *)
LEMMA PlaceInv ==
    ASSUME IInv, NEW r \in Request, NEW o \in Order, PlaceOrder(r, o) PROVE IInv'
<1> DEFINE row == [status |-> "placed", session |-> pending[r].session,
                   bill |-> NoSession]
<1>1. pending[r].session \in Session
  BY UnderwayTyped DEF PlaceOrder, IInv
<1>2. pending' \in [Request -> PendingType \cup {Idle}]
  BY PendingTyped DEF PlaceOrder, IInv
<1>3. row \in OrderType /\ row.status = "placed" /\ row.bill = NoSession
  BY <1>1 DEF OrderType, OrderStatus
<1>4. /\ order' = [order EXCEPT ![o] = row] /\ Finish(r)
      /\ UNCHANGED <<session, invoice, mixed>>
  BY DEF PlaceOrder
<1> HIDE DEF row
<1>5. /\ order' \in [Order -> OrderType]
      /\ order'[o] = row
      /\ \A p \in Order \ {o} : order'[p] = order[p]
  BY <1>3, <1>4 DEF IInv, TypeOK, OrderType
<1>6. order[o].bill = NoSession
  BY DEF PlaceOrder, IInv, BillsReconcile, OrderReconciles
<1>7. \A t \in Session : Charged(t)' = Charged(t)
  BY <1>3, <1>5, <1>6 DEF Charged
<1>8. TypeOK'
  BY <1>2, <1>4, <1>5 DEF IInv, TypeOK, OrderType
<1>9. BillsReconcile'
  BY <1>3, <1>4, <1>5, <1>7
     DEF IInv, BillsReconcile, OrderReconciles, InvoiceReconciles
<1>10. PaymentsRead'
  BY <1>4, <1>8, ReadsIdle
<1> QED
  BY <1>4, <1>8, <1>9, <1>10 DEF IInv, OneActiveSession

-----------------------------------------------------------------------------
(* What a bill writes: it charges uncharged orders on an unwritten invoice *)
(* and touches nothing else.                                               *)
LEMMA BillStep ==
    ASSUME IInv, NEW r \in Request, NEW paid \in 0..GrandTotal, BillTableSession(r, paid),
           NEW s, s = pending[r].session
    PROVE  /\ s \in Session /\ invoice[s].status = "none" /\ Charged(s) = {}
           /\ session[s].status \in Active
           /\ Eligible(s) # {}
           /\ \A o \in Eligible(s) : order[o].bill = NoSession
           /\ order' \in [Order -> OrderType]
           /\ \A o \in Order : order'[o].session = order[o].session
           /\ \A o \in Eligible(s) :
                /\ order'[o].bill = s
                /\ order'[o].status = IF paid = GrandTotal THEN "closed" ELSE "billed"
           /\ \A o \in Order \ Eligible(s) : order'[o] = order[o]
           /\ IssueInvoice(s, paid)
           /\ Charged(s)' = Eligible(s)
           /\ \A t \in Session \ {s} : Charged(t)' = Charged(t)
<1>1. s \in Session
  BY UnderwayTyped DEF BillTableSession, IInv
<1>2. /\ invoice[s].status = "none"
      /\ session[s].status \in Active
      /\ Eligible(s) # {}
      /\ Charge(s, Eligible(s), paid)
      /\ IssueInvoice(s, paid)
  BY DEF BillTableSession, Active
<1>3. Charged(s) = {}
  BY <1>1, <1>2 DEF IInv, BillsReconcile, InvoiceReconciles
<1>9. paid \in Nat
  OBVIOUS
<1>4. \A o \in Eligible(s) : order[o].bill = NoSession
  BY DEF Eligible
<1>5. Eligible(s) \in SUBSET Order
  BY DEF Eligible
<1>6. /\ order' \in [Order -> OrderType]
      /\ \A o \in Order : order'[o].session = order[o].session
      /\ \A o \in Eligible(s) :
           /\ order'[o].bill = s
           /\ order'[o].status = IF paid = GrandTotal THEN "closed" ELSE "billed"
      /\ \A o \in Order \ Eligible(s) : order'[o] = order[o]
  BY <1>1, <1>2, <1>5, <1>9, ChargeTyped DEF IInv
<1> DEFINE E == Eligible(s)
<1> HIDE DEF E
<1>7. Charged(s)' = E
  BY <1>3, <1>5, <1>6 DEF Charged, E
<1>8. \A t \in Session \ {s} : Charged(t)' = Charged(t)
  BY <1>1, <1>4, <1>5, <1>6 DEF Charged
<1> QED
  BY <1>1, <1>2, <1>3, <1>4, <1>6, <1>7, <1>8 DEF E

(* A session is billed, by what was read before.                           *)
LEMMA BillInv ==
    ASSUME IInv, NEW r \in Request, NEW paid \in 0..GrandTotal, BillTableSession(r, paid)
    PROVE  IInv'
<1>0. PICK s \in Session : s = pending[r].session
  BY UnderwayTyped DEF BillTableSession, IInv
<1> DEFINE E == Eligible(s)
<1>1. /\ s \in Session /\ invoice[s].status = "none" /\ Charged(s) = {}
      /\ session[s].status \in Active
      /\ E # {}
      /\ order' \in [Order -> OrderType]
      /\ \A o \in Order : order'[o].session = order[o].session
      /\ \A o \in E : /\ order'[o].bill = s
                      /\ order'[o].status = IF paid = GrandTotal THEN "closed" ELSE "billed"
      /\ \A o \in Order \ E : order'[o] = order[o]
      /\ IssueInvoice(s, paid)
      /\ Charged(s)' = E
      /\ \A t \in Session \ {s} : Charged(t)' = Charged(t)
  BY <1>0, BillStep
<1>2. \A o \in E : order[o].session = s
  BY DEF Eligible
<1>3. pending' \in [Request -> PendingType \cup {Idle}]
  BY PendingTyped DEF BillTableSession, IInv
<1>4. session[s].version + 1 \in Nat /\ session[s].version + 2 \in Nat
  BY <1>1 DEF IInv, TypeOK
<1>5. "closed" \in Active \cup Ended /\ "billed" \in Active \cup Ended
  BY DEF Active, Ended
<1>6. /\ \/ SetSession(s, "closed", session[s].version + 2)
         \/ SetSession(s, "billed", session[s].version + 1)
      /\ Finish(r) /\ UNCHANGED mixed
  BY <1>0 DEF BillTableSession
<1> HIDE DEF E
<1>7. /\ session' \in [Session -> SessionType]
      /\ session'[s].status \in {"closed", "billed"}
      /\ \A t \in Session \ {s} : session'[t] = session[t]
  BY <1>1, <1>4, <1>5, <1>6, SessionTyped DEF IInv
<1> DEFINE i == [status |-> "issued", paid |-> paid, rows |-> paid]
<1>12. /\ i \in InvoiceType /\ i.status = "issued" /\ i.paid = paid /\ i.rows = paid
       /\ paid <= GrandTotal
  BY DEF InvoiceType
<1>13. invoice' = [invoice EXCEPT ![s] = i]
  BY <1>1 DEF IssueInvoice
<1> HIDE DEF i
<1>8. /\ invoice' \in [Session -> InvoiceType]
      /\ invoice'[s] = i
      /\ \A t \in Session \ {s} : invoice'[t] = invoice[t]
  BY <1>1, <1>12, <1>13 DEF IInv, TypeOK
<1>9. TypeOK'
  BY <1>1, <1>3, <1>6, <1>7, <1>8 DEF IInv, TypeOK, OrderType, SessionType
<1>10. OneActiveSession'
  BY <1>1, <1>7 DEF IInv, OneActiveSession
<1>11. BillsReconcile'
  <2>1. ASSUME NEW o \in E PROVE OrderReconciles(o)'
    BY <1>1, <1>2, <1>8, <1>12 DEF E, Eligible, OrderReconciles
  <2>2. ASSUME NEW o \in Order \ E PROVE OrderReconciles(o)'
    <3>1. order[o].bill # s
      BY <1>1 DEF Charged
    <3>2. order[o].bill \in Session \cup {NoSession}
      BY DEF IInv, TypeOK
    <3> QED
      BY <1>1, <1>8, <3>1, <3>2 DEF IInv, BillsReconcile, OrderReconciles
  <2>3. ASSUME NEW t \in Session PROVE InvoiceReconciles(t)'
    <3>1. CASE t = s
      BY <1>1, <1>8, <1>12, <3>1 DEF InvoiceReconciles
    <3>2. CASE t # s
      <4>1. Charged(t)' = Charged(t) /\ session'[t] = session[t] /\ invoice'[t] = invoice[t]
        BY <1>1, <1>7, <1>8, <3>2
      <4> QED
        BY <1>6, <4>1 DEF IInv, BillsReconcile, InvoiceReconciles
    <3> QED
      BY <3>1, <3>2
  <2> QED
    BY <2>1, <2>2, <2>3 DEF BillsReconcile
<1>14. PaymentsRead'
  <2>1. \A t \in Session : invoice[t].status = "issued" =>
            invoice'[t].status = "issued" /\ invoice[t].rows <= invoice'[t].rows
    BY <1>1, <1>8 DEF IInv, TypeOK, InvoiceType
  <2>2. \A q \in Request : pending'[q] \in {pending[q], Idle}
    BY <1>6 DEF Finish, IInv, TypeOK
  <2> QED
    BY <1>9, <2>1, <2>2, ReadsKept DEF IInv
<1> QED
  BY <1>9, <1>10, <1>11, <1>14 DEF IInv

-----------------------------------------------------------------------------
(* What a payment leaves in the invoice: it has received more, and claims  *)
(* no more than the total, nor than it received.                           *)
LEMMA PaymentStep ==
    ASSUME IInv, NEW s \in Session, NEW n \in Nat, NEW amount \in 1..(GrandTotal - n),
           invoice[s].status = "issued", n <= invoice[s].rows, Pay(s, n, amount)
    PROVE  /\ invoice' \in [Session -> InvoiceType]
           /\ invoice'[s].status = "issued"
           /\ invoice'[s].paid = n + amount /\ n + amount <= GrandTotal
           /\ invoice'[s].rows = invoice[s].rows + amount
           /\ invoice'[s].paid <= invoice'[s].rows
           /\ \A t \in Session \ {s} : invoice'[t] = invoice[t]
           /\ \A t \in Session : /\ invoice'[t].status = invoice[t].status
                                 /\ invoice[t].rows <= invoice'[t].rows
<1>1. amount \in Nat /\ n + amount <= GrandTotal
  OBVIOUS
<1>2. /\ invoice' \in [Session -> InvoiceType]
      /\ invoice'[s].status = invoice[s].status
      /\ invoice'[s].paid = n + amount
      /\ invoice'[s].rows = invoice[s].rows + amount
      /\ \A t \in Session \ {s} : invoice'[t] = invoice[t]
  BY <1>1, PaymentTyped DEF IInv
<1>3. \A t \in Session : invoice[t].rows \in Nat
  BY DEF IInv, TypeOK, InvoiceType
<1>4. n + amount <= invoice[s].rows + amount
  BY <1>1, <1>3
<1>5. \A t \in Session : /\ invoice'[t].status = invoice[t].status
                         /\ invoice[t].rows <= invoice'[t].rows
  BY <1>1, <1>2, <1>3
<1> QED
  BY <1>1, <1>2, <1>4, <1>5

(* A bill is collected; what settles it closes the visit.                  *)
LEMMA CollectInv ==
    ASSUME IInv, NEW s \in Session, NEW amount \in 1..GrandTotal,
           CollectInvoicePayment(s, amount)
    PROVE  IInv'
<1> DEFINE O == {o \in Charged(s) : order[o].status = "billed"}
           n == invoice[s].paid
<1>1. /\ invoice[s].status = "issued" /\ amount \in 1..(GrandTotal - n)
      /\ Pay(s, n, amount)
      /\ \/ /\ amount = GrandTotal - n /\ SetStatus(O, "closed")
            /\ SetSession(s, "closed", session[s].version + 1)
         \/ UNCHANGED <<session, order>>
      /\ UNCHANGED <<pending, mixed>>
  BY DEF CollectInvoicePayment, Balance
<1>2. O \in SUBSET Order /\ \A o \in O : order[o].bill = s
  BY DEF Charged
<1>3. /\ n \in Nat /\ n <= invoice[s].rows /\ invoice[s].rows \in Nat
      /\ s \notin mixed => n = invoice[s].rows
  BY DEF IInv, TypeOK, InvoiceType, BillsReconcile, InvoiceReconciles
<1> HIDE DEF O, n
<1>4. "closed" \in OrderStatus /\ "closed" \in Ended
        /\ "closed" \in Active \cup Ended /\ "closed" \notin Active
  BY DEF OrderStatus, Active, Ended
<1>5. session[s].version + 1 \in Nat
  BY DEF IInv, TypeOK
<1>6. /\ order' \in [Order -> OrderType]
      /\ \A o \in Order : /\ order'[o].bill = order[o].bill
                          /\ order'[o].session = order[o].session
      /\ \A o \in O : \/ order'[o].status = "closed" /\ amount = GrandTotal - n
                      \/ order'[o] = order[o]
      /\ \A o \in Order \ O : order'[o] = order[o]
  <2>1. CASE SetStatus(O, "closed") /\ amount = GrandTotal - n
    BY <1>2, <1>4, <2>1, StatusTyped DEF IInv
  <2>2. CASE UNCHANGED order
    BY <1>2, <2>2 DEF IInv, TypeOK, OrderType
  <2> QED
    BY <1>1, <2>1, <2>2
<1>7. /\ session' \in [Session -> SessionType]
      /\ session'[s].status \in {"closed", session[s].status}
      /\ \A t \in Session \ {s} : session'[t] = session[t]
  <2>1. CASE SetSession(s, "closed", session[s].version + 1)
    BY <1>4, <1>5, <2>1, SessionTyped DEF IInv
  <2>2. CASE UNCHANGED session
    BY <2>2 DEF IInv, TypeOK, SessionType
  <2> QED
    BY <1>1, <2>1, <2>2
<1>8. /\ invoice' \in [Session -> InvoiceType]
      /\ invoice'[s].status = "issued"
      /\ invoice'[s].paid = n + amount /\ n + amount <= GrandTotal
      /\ invoice'[s].rows = invoice[s].rows + amount
      /\ invoice'[s].paid <= invoice'[s].rows
      /\ \A t \in Session \ {s} : invoice'[t] = invoice[t]
      /\ \A t \in Session : /\ invoice'[t].status = invoice[t].status
                            /\ invoice[t].rows <= invoice'[t].rows
  BY <1>1, <1>3, PaymentStep
<1>9. TypeOK'
  BY <1>1, <1>6, <1>7, <1>8 DEF IInv, TypeOK, OrderType, SessionType
<1>10. OneActiveSession'
  BY <1>4, <1>7 DEF IInv, OneActiveSession
<1>11. \A t \in Session : Charged(t)' = Charged(t)
  BY <1>6 DEF Charged
<1>12. \A t \in Session : invoice[t].rows \in Nat /\ invoice'[t].rows \in Nat
  BY <1>8 DEF IInv, TypeOK, InvoiceType
<1>13. BillsReconcile'
  <2>1. ASSUME NEW o \in Order PROVE OrderReconciles(o)'
    <3>1. order[o].bill \in Session \cup {NoSession} /\ OrderReconciles(o)
      BY DEF IInv, TypeOK, BillsReconcile
    <3>2. CASE order'[o] = order[o]
      <4>1. order[o].status = "closed" => order[o].bill \in Session
        BY <3>1 DEF OrderReconciles
      <4> QED
        BY <1>8, <1>12, <3>1, <3>2, <4>1 DEF OrderReconciles
    <3>3. CASE o \in O /\ order'[o].status = "closed" /\ amount = GrandTotal - n
      <4>1. invoice'[s].rows >= GrandTotal
        BY <1>3, <1>8, <1>12, <3>3
      <4> QED
        BY <1>2, <1>6, <3>1, <3>3, <4>1 DEF OrderReconciles
    <3> QED
      BY <1>6, <3>2, <3>3
  <2>2. ASSUME NEW t \in Session PROVE InvoiceReconciles(t)'
    <3>1. CASE t = s
      <4>1. s \notin mixed => invoice'[s].paid = invoice'[s].rows
        BY <1>3, <1>8
      <4>2. Charged(s) # {}
        BY <1>1 DEF IInv, BillsReconcile, InvoiceReconciles
      <4> QED
        BY <1>1, <1>8, <1>11, <3>1, <4>1, <4>2 DEF InvoiceReconciles
    <3>2. CASE t # s
      BY <1>1, <1>7, <1>8, <1>11, <3>2 DEF IInv, BillsReconcile, InvoiceReconciles
    <3> QED
      BY <3>1, <3>2
  <2> QED
    BY <2>1, <2>2 DEF BillsReconcile
<1>14. PaymentsRead'
  BY <1>1, <1>8, <1>9, ReadsKept DEF IInv
<1> QED
  BY <1>9, <1>10, <1>13, <1>14 DEF IInv

(* A bill is paid by the retail route, from what was read before.          *)
LEMMA PaymentInv ==
    ASSUME IInv, NEW r \in Request, NEW amount \in 1..GrandTotal,
           AddInvoicePayment(r, amount)
    PROVE  IInv'
<1>0. PICK s \in Session, n \in Nat : s = pending[r].session /\ n = pending[r].read
  BY UnderwayTyped DEF AddInvoicePayment, IInv
<1>1. /\ amount \in 1..(GrandTotal - n) /\ Pay(s, n, amount)
      /\ mixed' = IF invoice[s].paid = n THEN mixed ELSE mixed \cup {s}
      /\ Finish(r)
      /\ UNCHANGED <<session, order>>
  BY <1>0 DEF AddInvoicePayment
<1>2. invoice[s].status = "issued" /\ n <= invoice[s].rows
  BY <1>0 DEF AddInvoicePayment, Underway, IInv, PaymentsRead
<1>3. /\ invoice' \in [Session -> InvoiceType]
      /\ invoice'[s].status = "issued"
      /\ invoice'[s].paid = n + amount /\ n + amount <= GrandTotal
      /\ invoice'[s].rows = invoice[s].rows + amount
      /\ invoice'[s].paid <= invoice'[s].rows
      /\ \A t \in Session \ {s} : invoice'[t] = invoice[t]
      /\ \A t \in Session : /\ invoice'[t].status = invoice[t].status
                            /\ invoice[t].rows <= invoice'[t].rows
  BY <1>1, <1>2, PaymentStep
<1>4. pending' \in [Request -> PendingType \cup {Idle}] /\ mixed' \subseteq Session
  BY <1>1, PendingTyped DEF IInv, TypeOK
<1>5. TypeOK' /\ OneActiveSession'
  BY <1>1, <1>3, <1>4 DEF IInv, TypeOK, OneActiveSession
<1>6. \A t \in Session : Charged(t)' = Charged(t)
  BY <1>1 DEF Charged
<1>7. \A t \in Session : invoice[t].rows \in Nat /\ invoice'[t].rows \in Nat
  BY <1>3 DEF IInv, TypeOK, InvoiceType
<1>8. ASSUME NEW o \in Order PROVE OrderReconciles(o)'
  <2>1. order[o].bill \in Session \cup {NoSession} /\ OrderReconciles(o)
    BY DEF IInv, TypeOK, BillsReconcile
  <2>2. order[o].status = "closed" => order[o].bill \in Session
    BY <2>1 DEF OrderReconciles
  <2> QED
    BY <1>1, <1>3, <1>7, <2>1, <2>2 DEF OrderReconciles
<1>9. ASSUME NEW t \in Session PROVE InvoiceReconciles(t)'
  <2>1. CASE t = s
    <3>1. s \notin mixed' => invoice'[s].paid = invoice'[s].rows
      BY <1>1, <1>3 DEF IInv, BillsReconcile, InvoiceReconciles
    <3>2. Charged(s) # {}
      BY <1>2 DEF IInv, BillsReconcile, InvoiceReconciles
    <3> QED
      BY <1>1, <1>3, <1>6, <2>1, <3>1, <3>2 DEF InvoiceReconciles
  <2>2. CASE t # s
    <3>1. t \notin mixed' => t \notin mixed
      BY <1>1
    <3> QED
      BY <1>1, <1>3, <1>6, <2>2, <3>1 DEF IInv, BillsReconcile, InvoiceReconciles
  <2> QED
    BY <2>1, <2>2
<1>10. PaymentsRead'
  <2>1. \A q \in Request : pending'[q] \in {pending[q], Idle}
    BY <1>1 DEF Finish, IInv, TypeOK
  <2> QED
    BY <1>3, <1>5, <2>1, ReadsKept DEF IInv
<1> QED
  BY <1>5, <1>8, <1>9, <1>10 DEF IInv, BillsReconcile

(* Every step keeps the invariant, action by action.                       *)
LEMMA NextInv == ASSUME IInv, [Next]_vars PROVE IInv'
<1>1. ASSUME NEW s \in Session,
             \/ OpenTableSession(s) \/ RequestTableSessionBill(s)
             \/ \E amount \in 1..GrandTotal : CollectInvoicePayment(s, amount)
      PROVE  IInv'
  BY <1>1, OpenInv, TableBillInv, CollectInv
<1>2. ASSUME NEW r \in Request, NEW s \in Session,
             \/ BeginOrder(r, s) \/ BeginGuestBill(r, s)
             \/ BeginClose(r, s) \/ BeginBill(r, s) \/ BeginInvoicePayment(r, s)
      PROVE  IInv'
  <2>1. session[s].version \in Nat /\ invoice[s].paid \in Nat
    BY DEF IInv, TypeOK, InvoiceType
  <2>2. CASE BeginInvoicePayment(r, s)
    BY <2>1, <2>2, BeginInv DEF BeginInvoicePayment
  <2>3. CASE ~BeginInvoicePayment(r, s)
    <3>1. \E k \in {"order", "guest_bill", "close", "bill"} :
             Begin(r, k, s, session[s].version)
      BY <1>2, <2>3 DEF BeginOrder, BeginGuestBill, BeginClose, BeginBill
    <3> QED
      BY <2>1, <3>1, BeginInv
  <2> QED
    BY <2>2, <2>3
<1>3. ASSUME NEW r \in Request, GiveUp(r) PROVE IInv'
  BY <1>3, IdleInv DEF GiveUp
<1>4. ASSUME NEW r \in Request,
             \/ \E o \in Order : PlaceOrder(r, o)
             \/ RequestPublicBill(r)
             \/ \E st \in Ended : CloseTableSession(r, st)
             \/ \E paid \in 0..GrandTotal : BillTableSession(r, paid)
             \/ \E amount \in 1..GrandTotal : AddInvoicePayment(r, amount)
      PROVE  IInv'
  BY <1>4, PlaceInv, PublicBillInv, CloseInv, BillInv, PaymentInv
<1>5. ASSUME NEW o \in Order, NEW target \in OrderStatus, TransitionOrder(o, target)
      PROVE  IInv'
  BY <1>5, TransitionInv
<1>6. CASE UNCHANGED vars
  BY <1>6, IdleInv DEF vars
<1> QED
  BY <1>1, <1>2, <1>3, <1>4, <1>5, <1>6 DEF Next

(* The invariant holds in every reachable state of the table, whatever its *)
(* requests have read before they write (cafe_billing, cafe, public_cafe). *)
THEOREM Invariance == Spec => []IInv
BY InitInv, NextInv, PTL DEF Spec

(* States and updates have the shape the code gives them.                *)
THEOREM TypeCorrect == Spec => []TypeOK
BY Invariance, PTL DEF IInv

(* However many stale writes revive a session, no table has two at once.   *)
THEOREM OneActive == Spec => []OneActiveSession
BY Invariance, PTL DEF IInv

(* Orders, invoices and sessions agree in every reachable state.           *)
THEOREM Reconciles == Spec => []BillsReconcile
BY Invariance, PTL DEF IInv

-----------------------------------------------------------------------------
(* What a step may do to the orders: nothing, something to uncharged ones  *)
(* only, or close charged ones whose invoice it settles.                   *)
LEMMA OrderStep ==
    ASSUME IInv, [Next]_vars, NEW o \in Order, order[o].bill # NoSession
    PROVE  \/ order'[o] = order[o]
           \/ /\ order'[o] = [order[o] EXCEPT !.status = "closed"]
              /\ invoice'[order[o].bill].paid = GrandTotal
<1>1. order[o].status \in {"billed", "closed"}
  BY DEF IInv, BillsReconcile, OrderReconciles
<1>2. ASSUME NEW s \in Session, NEW amount \in 1..GrandTotal,
             CollectInvoicePayment(s, amount)
      PROVE  \/ order'[o] = order[o]
             \/ /\ order'[o] = [order[o] EXCEPT !.status = "closed"]
                /\ invoice'[order[o].bill].paid = GrandTotal
  <2> DEFINE O == {p \in Charged(s) : order[p].status = "billed"}
  <2>1. CASE amount # Balance(s)
    BY <1>2, <2>1 DEF CollectInvoicePayment
  <2>2. CASE amount = Balance(s)
    <3>1. order'[o] = IF o \in O THEN [order[o] EXCEPT !.status = "closed"] ELSE order[o]
      BY <1>2, <2>2 DEF CollectInvoicePayment, SetStatus
    <3>2. invoice[s].paid \in Nat /\ amount \in Nat
      BY DEF IInv, TypeOK, InvoiceType
    <3>3. invoice'[s].paid = invoice[s].paid + amount
      BY <1>2, <3>2, PaymentTyped DEF CollectInvoicePayment, IInv
    <3>4. invoice'[s].paid = GrandTotal
      BY <2>2, <3>2, <3>3 DEF Balance
    <3>5. o \in O => order[o].bill = s
      BY DEF Charged
    <3> HIDE DEF O
    <3> QED
      BY <3>1, <3>4, <3>5
  <2> QED
    BY <2>1, <2>2
<1>3. ASSUME NEW r \in Request, NEW p \in Order, PlaceOrder(r, p)
      PROVE  order'[o] = order[o]
  BY <1>1, <1>3 DEF PlaceOrder, IInv, TypeOK
<1>4. ASSUME NEW r \in Request, NEW paid \in 0..GrandTotal, BillTableSession(r, paid)
      PROVE  order'[o] = order[o]
  <2>1. PICK s \in Session : s = pending[r].session
    BY <1>4, UnderwayTyped DEF BillTableSession, IInv
  <2>2. o \notin Eligible(s)
    BY DEF Eligible
  <2> QED
    BY <1>4, <2>1, <2>2, BillStep
<1>5. ASSUME NEW p \in Order, NEW target \in OrderStatus, TransitionOrder(p, target)
      PROVE  order'[o] = order[o]
  <2>1. p # o
    BY <1>1, <1>5, Vocabulary DEF TransitionOrder
  <2> QED
    BY <1>5, <2>1 DEF TransitionOrder, SetStatus
<1>6. ASSUME NEW s \in Session, RequestTableSessionBill(s)
      PROVE  order'[o] = order[o]
  <2> DEFINE O == {p \in Order : /\ order[p].session = s
                                 /\ order[p].status \notin
                                      {"rejected", "cancelled", "closed"}}
  <2>1. (\A p \in O : order[p].status = "served") /\ SetStatus(O, "bill_requested")
    BY <1>6 DEF RequestTableSessionBill
  <2>2. o \notin O
    BY <1>1, <2>1
  <2> HIDE DEF O
  <2> QED
    BY <2>1, <2>2 DEF SetStatus
<1>7. ASSUME UNCHANGED order PROVE order'[o] = order[o]
  BY <1>7
<1> QED
  BY <1>2, <1>3, <1>4, <1>5, <1>6, <1>7
     DEF Next, vars, OpenTableSession, AddInvoicePayment, BeginOrder, BeginGuestBill,
         BeginClose, BeginBill, BeginInvoicePayment, Begin, RequestPublicBill, CloseTableSession, GiveUp

(* Nothing but its settlement ever touches an order that was charged.      *)
THEOREM ChargesAreFinal == Spec => ChargesStand
<1>1. IInv /\ [Next]_vars =>
        [\A o \in Order : order[o].bill # NoSession /\ order'[o] # order[o] =>
            /\ order'[o] = [order[o] EXCEPT !.status = "closed"]
            /\ invoice'[order[o].bill].paid = GrandTotal]_vars
  BY OrderStep
<1> QED
  BY <1>1, Invariance, PTL DEF Spec, ChargesStand

-----------------------------------------------------------------------------

(* The book is empty at first.                                             *)
LEMMA BookInit == Init => Book!Init
BY DEF Init, Book!Init, Charged, Settled

(* A step that charges and settles nothing is no step of the book.         *)
LEMMA BookIdle ==
    ASSUME \A s \in Session : Charged(s)' = Charged(s), UNCHANGED invoice
    PROVE  UNCHANGED Book!vars
BY DEF Book!vars, Settled

(* A payment settles a bill of the book, or does nothing to it.            *)
LEMMA BookSettle ==
    ASSUME IInv, NEW s \in Session, NEW n \in Nat, NEW amount \in Nat,
           invoice[s].status = "issued", Pay(s, n, amount),
           \A t \in Session : Charged(t)' = Charged(t)
    PROVE  Book!Next \/ UNCHANGED Book!vars
<1>1. Charged(s) # {}
  BY DEF IInv, BillsReconcile, InvoiceReconciles
<1>2. /\ invoice'[s].rows = invoice[s].rows + amount
      /\ \A t \in Session \ {s} : invoice'[t] = invoice[t]
  BY PaymentTyped DEF IInv
<1>3. invoice[s].rows \in Nat
  BY DEF IInv, TypeOK, InvoiceType
<1>4. invoice[s].rows >= GrandTotal => invoice'[s].rows >= GrandTotal
  BY <1>2, <1>3
<1>5. [t \in Session |-> Charged(t)]' = [t \in Session |-> Charged(t)]
  OBVIOUS
<1>6. CASE s \in Settled \/ invoice'[s].rows < GrandTotal
  <2>1. Settled' = Settled
    BY <1>2, <1>3, <1>4, <1>6 DEF Settled
  <2> QED
    BY <1>5, <2>1 DEF Book!vars
<1>7. CASE s \notin Settled /\ ~(invoice'[s].rows < GrandTotal)
  <2>1. invoice'[s].rows >= GrandTotal
    BY <1>2, <1>3, <1>7
  <2>2. Settled' = Settled \cup {s}
    BY <1>2, <2>1 DEF Settled
  <2> QED
    BY <1>1, <1>5, <1>7, <2>2 DEF Book!Next, Book!Settle
<1> QED
  BY <1>6, <1>7

(* A bill charges orders that no other bill has.                           *)
LEMMA BookCharge ==
    ASSUME IInv, NEW r \in Request, NEW paid \in 0..GrandTotal, BillTableSession(r, paid)
    PROVE  Book!Next
<1>0. PICK s \in Session : s = pending[r].session
  BY UnderwayTyped DEF BillTableSession, IInv
<1>1. PICK E \in SUBSET Order : E = Eligible(s)
  BY DEF Eligible
<1>2. /\ invoice[s].status = "none" /\ Charged(s) = {} /\ E # {}
      /\ \A o \in E : order[o].bill = NoSession
      /\ IssueInvoice(s, paid)
      /\ Charged(s)' = E
      /\ \A t \in Session \ {s} : Charged(t)' = Charged(t)
  BY <1>0, <1>1, BillStep
<1>3. E \subseteq Book!Uncharged
  <2>1. ASSUME NEW o \in E, NEW t \in Session PROVE o \notin Charged(t)
    BY <1>2 DEF Charged
  <2> QED
    BY <2>1 DEF Book!Uncharged
<1>4. [t \in Session |-> Charged(t)]'
        = [[t \in Session |-> Charged(t)] EXCEPT ![s] = E]
  <2>1. [t \in Session |-> Charged(t)'] = [t \in Session |-> IF t = s THEN E ELSE Charged(t)]
    BY <1>2
  <2> QED
    BY <2>1
<1>5. Settled' \in {Settled, Settled \cup {s}}
  <2>1. \A t \in Session \ {s} : invoice'[t] = invoice[t]
    BY <1>2 DEF IssueInvoice, IInv, TypeOK
  <2>2. s \notin Settled
    BY <1>2 DEF Settled, IInv, BillsReconcile, InvoiceReconciles
  <2> QED
    BY <2>1, <2>2 DEF Settled
<1>6. Book!Write(s, E)
  BY <1>2, <1>3, <1>4, <1>5 DEF Book!Write, Book!Charge
<1> QED
  BY <1>6 DEF Book!Next

(* Every step is a step of the book, or none.                              *)
LEMMA BookStep == ASSUME IInv, [Next]_vars PROVE [Book!Next]_(Book!vars)
<1>1. ASSUME NEW s \in Session, NEW amount \in 1..GrandTotal,
             CollectInvoicePayment(s, amount)
      PROVE  Book!Next \/ UNCHANGED Book!vars
  <2>1. /\ invoice[s].status = "issued" /\ Pay(s, invoice[s].paid, amount)
        /\ invoice[s].paid \in Nat
    BY <1>1 DEF CollectInvoicePayment, IInv, TypeOK, InvoiceType
  <2>2. \A o \in Order : order'[o].bill = order[o].bill
    <3>1. {p \in Charged(s) : order[p].status = "billed"} \in SUBSET Order
      BY DEF Charged
    <3>2. "closed" \in OrderStatus
      BY DEF OrderStatus
    <3> QED
      BY <1>1, <3>1, <3>2, StatusTyped DEF CollectInvoicePayment, IInv
  <2>3. \A t \in Session : Charged(t)' = Charged(t)
    BY <2>2 DEF Charged
  <2> QED
    BY <2>1, <2>3, BookSettle
<1>7. ASSUME NEW r \in Request, NEW amount \in 1..GrandTotal,
             AddInvoicePayment(r, amount)
      PROVE  Book!Next \/ UNCHANGED Book!vars
  <2>0. PICK s \in Session, n \in Nat : s = pending[r].session /\ n = pending[r].read
    BY <1>7, UnderwayTyped DEF AddInvoicePayment, IInv
  <2>1. invoice[s].status = "issued" /\ Pay(s, n, amount)
    BY <1>7, <2>0 DEF AddInvoicePayment, Underway, IInv, PaymentsRead
  <2>2. \A t \in Session : Charged(t)' = Charged(t)
    BY <1>7 DEF AddInvoicePayment, Charged
  <2> QED
    BY <2>1, <2>2, BookSettle
<1>2. ASSUME NEW r \in Request, NEW paid \in 0..GrandTotal, BillTableSession(r, paid)
      PROVE  Book!Next
  BY <1>2, BookCharge
<1>3. ASSUME NEW r \in Request, NEW o \in Order, PlaceOrder(r, o)
      PROVE  UNCHANGED Book!vars
  <2>1. order[o].bill = NoSession
    BY <1>3 DEF PlaceOrder, IInv, BillsReconcile, OrderReconciles
  <2>2. \A p \in Order : order'[p].bill = order[p].bill
    BY <1>3, <2>1 DEF PlaceOrder, IInv, TypeOK
  <2>3. \A t \in Session : Charged(t)' = Charged(t)
    BY <2>2 DEF Charged
  <2> QED
    BY <1>3, <2>3, BookIdle DEF PlaceOrder
<1>4. ASSUME NEW o \in Order, NEW target \in OrderStatus, TransitionOrder(o, target)
      PROVE  UNCHANGED Book!vars
  <2>1. SetStatus({o}, target) /\ {o} \in SUBSET Order
    BY <1>4 DEF TransitionOrder
  <2>2. \A p \in Order : order'[p].bill = order[p].bill
    BY <2>1, StatusTyped DEF IInv
  <2>3. \A t \in Session : Charged(t)' = Charged(t)
    BY <2>2 DEF Charged
  <2> QED
    BY <1>4, <2>3, BookIdle DEF TransitionOrder
<1>5. ASSUME NEW s \in Session, RequestTableSessionBill(s)
      PROVE  UNCHANGED Book!vars
  <2>1. PICK O \in SUBSET Order : SetStatus(O, "bill_requested")
    BY <1>5 DEF RequestTableSessionBill
  <2>2. "bill_requested" \in OrderStatus
    BY DEF OrderStatus
  <2>3. \A t \in Session : Charged(t)' = Charged(t)
    BY <2>1, <2>2, StatusTyped DEF Charged, IInv
  <2> QED
    BY <1>5, <2>3, BookIdle DEF RequestTableSessionBill
<1>6. ASSUME UNCHANGED <<order, invoice>> PROVE UNCHANGED Book!vars
  BY <1>6, BookIdle DEF Charged
<1> QED
  BY <1>1, <1>2, <1>3, <1>4, <1>5, <1>6, <1>7
     DEF Next, vars, OpenTableSession, BeginOrder, BeginGuestBill, BeginClose,
         BeginBill, BeginInvoicePayment, Begin, RequestPublicBill, CloseTableSession, GiveUp

(* The owner's promise holds whatever the guests' and clerks' requests     *)
(* have read: CafeTable implements BillBook.                               *)
THEOREM ImplementsBook == Spec => KeepsBook
BY BookInit, BookStep, Invariance, PTL DEF Spec, KeepsBook, Book!Spec
=============================================================================
