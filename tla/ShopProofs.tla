----------------------------- MODULE ShopProofs -----------------------------
(*************************************************************************)
(* What is proved of the retail counter, takeaway bills, the arithmetic  *)
(* of an invoice and the product catalog, for every value of their       *)
(* constants.                                                            *)
(*************************************************************************)
EXTENDS RetailCounter, TakeawayBills, BillMath, ProductCatalog,
        SumLemmas

-----------------------------------------------------------------------------
(*************************************************************************)
(* The retail counter.  A request keeps what it read before it waited    *)
(* for a lock.  The invariant says what of that is still true when it    *)
(* goes on: paid amounts only grow, a stock row it holds is its own, and *)
(* a credit check stays good where that lock covers all invoices of the  *)
(* buyer.                                                                *)
(*************************************************************************)

(* What the invoices of c still owe, told of the books.                    *)
Debt(bk, c) ==
    SumFunctionOnSet([i \in Invoice |-> bk[i].debit - bk[i].credit],
                     {i \in Invoice : Buyer[i] = c})

(* Where all invoices of the buyer sell one stocked product the lock on    *)
(* that product covers the credit check.                                   *)
Covered(i) ==
    /\ Buyer[i] # Walkin /\ Item[i] # Service
    /\ \A j \in Invoice : Buyer[j] = Buyer[i] => Item[j] = Item[i]

(* What a request under way may rely on, whatever others have committed.   *)
RequestHolds(q, bk, st) ==
    /\ q.kind = "collect" =>
         /\ bk[q.invoice].sold /\ Buyer[q.invoice] # Walkin
         /\ q.paid <= bk[q.invoice].rows
    /\ q.kind = "reserved" =>
         /\ q.paid <= Total[q.invoice]
         /\ Buyer[q.invoice] = Walkin => q.paid = Total[q.invoice]
         /\ Item[q.invoice] # Service => st[Item[q.invoice]] >= 1
         /\ Covered(q.invoice) => Debt(bk, Buyer[q.invoice]) <= q.seen

RequestsHold(pend, bk, st) ==
    \A r \in Request : pend[r] # Idle => RequestHolds(pend[r], bk, st)

(* The stock row of a product is locked by one request.                    *)
LocksApart(pend) ==
    \A q, r \in Request :
      /\ pend[q] # Idle /\ pend[q].kind = "reserved"
      /\ pend[r] # Idle /\ pend[r].kind = "reserved"
      /\ Item[pend[q].invoice] # Service
      /\ Item[pend[q].invoice] = Item[pend[r].invoice]
      => q = r

(* An invoice and what it has left elsewhere.                              *)
InvoiceHolds(i, row, book) ==
    /\ row.status \in Collectable => book.sold
    /\ row.status \in {"none", "draft"} => ~book.sold
    /\ row.paid <= book.rows /\ row.paid <= Total[i]
    /\ ~book.sold => book.debit = book.credit /\ book.rows = 0
    /\ book.sold /\ Buyer[i] = Walkin =>
         book.debit = book.credit /\ book.rows = Total[i] /\ row.paid = Total[i]
    /\ book.sold /\ Buyer[i] # Walkin =>
         book.debit - book.credit = Total[i] - book.rows

CounterIInv ==
    /\ TypeOK
    /\ \A i \in Invoice : InvoiceHolds(i, invoice[i], books[i])
    /\ StockAccountsForSales
    /\ RequestsHold(pending, books, stock)
    /\ LocksApart(pending)

Book == [sold : BOOLEAN, rows : Nat, debit : Nat, credit : Nat]

(* The invariant gives the properties of the books.                      *)
LEMMA CounterImplied == CounterIInv => CounterBooks
<1> SUFFICES ASSUME CounterIInv PROVE CounterBooks
  OBVIOUS
<1> USE DEF CounterIInv
<1>1. LedgerFollowsMoney
  <2> SUFFICES ASSUME NEW i \in Invoice
               PROVE  LET due == books[i].debit - books[i].credit IN
                      IF ~books[i].sold THEN due = 0 /\ books[i].rows = 0
                      ELSE IF Buyer[i] = Walkin THEN due = 0 /\ books[i].rows = Total[i]
                      ELSE due = Total[i] - books[i].rows
    BY DEF LedgerFollowsMoney
  <2>1. books[i].debit \in Nat /\ books[i].credit \in Nat
    BY DEF TypeOK
  <2> QED
    BY <2>1 DEF InvoiceHolds
<1>2. RowNeverOverstates
  BY DEF RowNeverOverstates, InvoiceHolds
<1>3. CreditCheckHolds
  BY DEF CreditCheckHolds, RequestsHold, RequestHolds, Covered, Underway, InvoiceDebt, Debt
<1> QED
  BY <1>1, <1>2, <1>3 DEF CounterBooks

(* The invariant holds at first.                                         *)
LEMMA CounterStart == Init => CounterIInv
<1> SUFFICES ASSUME Init PROVE CounterIInv
  OBVIOUS
<1>1. TypeOK
  <2>1. invoice \in [Invoice -> [status : InvoiceStatus, paid : Nat]]
    BY DEF Init, InvoiceStatus
  <2>2. books \in [Invoice -> Book]
    BY DEF Init, Book
  <2>3. stock \in [Product -> Nat]
    BY CounterAssumption DEF Init
  <2>4. account \in [Customer -> [active : BOOLEAN, opening : Nat,
                                  openings : Int, receipts : Nat]]
    BY DEF Init
  <2>5. pending \in [Request -> InvoiceRequest \cup AccountRequest \cup {Idle}]
    BY DEF Init
  <2> QED
    BY <2>1, <2>2, <2>3, <2>4, <2>5 DEF TypeOK, Book
<1>2. \A i \in Invoice : InvoiceHolds(i, invoice[i], books[i])
  BY CounterAssumption DEF Init, InvoiceHolds, Collectable
<1>3. StockAccountsForSales
  <2>1. \A p \in Product : {i \in Sold : Item[i] = p} = {}
    BY DEF Init, Sold
  <2>2. Cardinality({}) = 0
    BY FS_EmptySet
  <2>3. StartingStock \in Nat /\ \A p \in Product : stock[p] = StartingStock
    BY CounterAssumption DEF Init
  <2> QED
    BY <2>1, <2>2, <2>3 DEF StockAccountsForSales
<1>4. RequestsHold(pending, books, stock) /\ LocksApart(pending)
  BY DEF Init, RequestsHold, LocksApart
<1> QED
  BY <1>1, <1>2, <1>3, <1>4 DEF CounterIInv

(* A request that only reads, or ends without writing.                     *)
LEMMA OnlyPending ==
    ASSUME CounterIInv, NEW r \in Request,
           NEW q \in InvoiceRequest \cup AccountRequest \cup {Idle},
           pending' = [pending EXCEPT ![r] = q],
           q # Idle => /\ RequestHolds(q, books, stock)
                       /\ q.kind = "reserved" =>
                            \A p \in Request :
                              /\ pending[p] # Idle /\ pending[p].kind = "reserved"
                              /\ Item[q.invoice] # Service
                              => Item[pending[p].invoice] # Item[q.invoice],
           UNCHANGED <<invoice, books, stock>>,
           account' \in [Customer -> [active : BOOLEAN, opening : Nat,
                                      openings : Int, receipts : Nat]]
    PROVE  CounterIInv'
<1> USE DEF CounterIInv
<1>1. TypeOK'
  BY DEF TypeOK
<1>2. \A p \in Request : pending'[p] = IF p = r THEN q ELSE pending[p]
  BY DEF TypeOK
<1>3. RequestsHold(pending, books, stock)'
  BY <1>2 DEF RequestsHold
<1>4. LocksApart(pending)'
  BY <1>2 DEF LocksApart
<1>5. StockAccountsForSales'
  BY DEF StockAccountsForSales, Sold
<1> QED
  BY <1>1, <1>3, <1>4, <1>5

(* Requests that are not at all bound to what they have read.              *)
LEMMA BeginKeeps ==
    ASSUME CounterIInv, NEW r \in Request, NEW i \in Invoice,
           \/ BeginIssue(r, i) \/ BeginCheckout(r, i)
           \/ BeginCancel(r, i) \/ BeginCollect(r, i)
    PROVE  CounterIInv'
<1> USE DEF CounterIInv
<1>1. PICK kind \in {"issue", "checkout", "cancel", "collect"}, paid \in {0, invoice[i].paid} :
        /\ Begin(r, kind, i, paid, 0)
        /\ kind = "collect" => /\ invoice[i].status \in Collectable
                               /\ invoice[i].paid < Total[i] /\ paid = invoice[i].paid
  BY DEF BeginIssue, BeginCheckout, BeginCancel, BeginCollect
<1> DEFINE q == [kind |-> kind, invoice |-> i, status |-> invoice[i].status,
                 paid |-> paid, seen |-> 0]
<1>2. invoice[i].status \in InvoiceStatus /\ invoice[i].paid \in Nat /\ books[i].rows \in Nat
  BY DEF TypeOK
<1>3. q \in InvoiceRequest
  BY <1>1, <1>2 DEF InvoiceRequest
<1>4. RequestHolds(q, books, stock) /\ q.kind # "reserved"
  <2>1. Total[i] \in Nat
    BY CounterAssumption
  <2> QED
    BY <1>1, <1>2, <2>1 DEF RequestHolds, InvoiceHolds
<1>5. pending' = [pending EXCEPT ![r] = q] /\ UNCHANGED <<invoice, books, stock, account>>
  BY <1>1 DEF Begin
<1> HIDE DEF q
<1> QED
  BY <1>3, <1>4, <1>5, OnlyPending DEF TypeOK

(* A debt is a number.                                                   *)
LEMMA DebtIsInt ==
    ASSUME TypeOK, NEW c
    PROVE  Debt(books, c) \in Int
<1> DEFINE f == [i \in Invoice |-> books[i].debit - books[i].credit]
           S == {i \in Invoice : Buyer[i] = c}
<1>1. \A i \in S : f[i] \in Int
  BY DEF TypeOK
<1>2. IsFiniteSet(S)
  BY CounterAssumption, FS_Subset
<1> QED
  BY <1>1, <1>2, SumWithout DEF Debt

(* ReserveStock keeps the invariant.                                     *)
LEMMA ReserveStockKeeps ==
    ASSUME CounterIInv, NEW r \in Request, NEW i \in Invoice, NEW paid \in 0..Total[i],
           pending[r] # Idle, ReserveStock(r, paid)
    PROVE  CounterIInv'
<1> USE DEF CounterIInv
<1> DEFINE j == pending[r].invoice
           q == [kind |-> "reserved", invoice |-> j,
                 status |-> pending[r].status, paid |-> paid,
                 seen |-> IF Buyer[j] = Walkin THEN 0 ELSE InvoiceDebt(Buyer[j])]
<1>1. pending[r] \in InvoiceRequest
  BY DEF ReserveStock, Underway, TypeOK, AccountRequest
<1>2. j \in Invoice /\ pending[r].status \in InvoiceStatus
  BY <1>1 DEF InvoiceRequest
<1>3. Total[j] \in Nat /\ Total[i] \in Nat /\ paid \in Nat
  BY <1>2, CounterAssumption
<1>4. InvoiceDebt(Buyer[j]) \in Int /\ InvoiceDebt(Buyer[j]) = Debt(books, Buyer[j])
  BY DebtIsInt DEF InvoiceDebt, Debt
<1>5. q \in InvoiceRequest
  BY <1>2, <1>3, <1>4 DEF InvoiceRequest
<1>6. /\ StockHeldFor(j) /\ paid <= Total[j] /\ WithinLimit(j, Total[j] - paid)
      /\ pending' = [pending EXCEPT ![r] = q]
      /\ UNCHANGED <<invoice, books, stock, account>>
  BY DEF ReserveStock
<1>7. RequestHolds(q, books, stock)
  <2>1. Buyer[j] = Walkin => paid = Total[j]
    BY <1>3, <1>6 DEF WithinLimit
  <2>2. Item[j] # Service => stock[Item[j]] >= 1
    BY <1>6 DEF StockHeldFor
  <2>3. Covered(j) => Debt(books, Buyer[j]) <= q.seen
    BY <1>4 DEF Covered
  <2> QED
    BY <1>6, <2>1, <2>2, <2>3 DEF RequestHolds
<1>8. \A p \in Request :
        /\ pending[p] # Idle /\ pending[p].kind = "reserved"
        /\ Item[j] # Service
        => Item[pending[p].invoice] # Item[j]
  BY <1>6 DEF StockHeldFor, Underway
<1>9. q.invoice = j
  OBVIOUS
<1> HIDE DEF q
<1> QED
  BY <1>5, <1>6, <1>7, <1>8, <1>9, OnlyPending DEF TypeOK

(* If no invoice of a buyer owes more, the buyer does not.                 *)
LEMMA DebtFrame ==
    ASSUME TypeOK, TypeOK', NEW c,
           \A i \in Invoice : Buyer[i] = c =>
             books'[i].debit - books'[i].credit <= books[i].debit - books[i].credit
    PROVE  Debt(books', c) <= Debt(books, c)
<1> DEFINE f == [i \in Invoice |-> books[i].debit - books[i].credit]
           g == [i \in Invoice |-> books'[i].debit - books'[i].credit]
           S == {i \in Invoice : Buyer[i] = c}
<1>1. \A i \in S : g[i] \in Int /\ f[i] \in Int /\ g[i] <= f[i]
  BY DEF TypeOK
<1>2. IsFiniteSet(S)
  BY CounterAssumption, FS_Subset
<1> HIDE DEF f, g
<1>3. SumFunctionOnSet(g, S) <= SumFunctionOnSet(f, S)
  BY <1>1, <1>2, SumMonotone
<1> QED
  BY <1>3 DEF Debt, f, g

(* The requests that stay are not upset by a step that takes no stock they *)
(* have locked and adds to no debt they have checked.                      *)
LEMMA OthersHold ==
    ASSUME CounterIInv, TypeOK', NEW r \in Request, Finish(r),
           \A i \in Invoice : /\ books[i].sold => books'[i].sold
                              /\ books[i].sold => books[i].rows <= books'[i].rows,
           \A p \in Request \ {r} :
             pending[p] # Idle /\ pending[p].kind = "reserved" =>
               LET j == pending[p].invoice IN
               /\ Item[j] # Service => stock'[Item[j]] = stock[Item[j]]
               /\ Covered(j) =>
                    \A i \in Invoice : Buyer[i] = Buyer[j] =>
                      books'[i].debit - books'[i].credit <= books[i].debit - books[i].credit
    PROVE  RequestsHold(pending, books, stock)' /\ LocksApart(pending)'
<1> USE DEF CounterIInv
<1>1. \A p \in Request : pending'[p] # Idle => p # r /\ pending'[p] = pending[p]
  BY DEF Finish, TypeOK
<1>2. LocksApart(pending)'
  BY <1>1 DEF LocksApart
<1>3. ASSUME NEW p \in Request, pending'[p] # Idle
      PROVE  RequestHolds(pending[p], books', stock')
  <2> DEFINE q == pending[p]
             j == q.invoice
  <2>1. p # r /\ q # Idle /\ RequestHolds(q, books, stock)
    BY <1>1, <1>3 DEF RequestsHold
  <2>2. CASE q.kind = "collect"
    <3>1. q \in InvoiceRequest /\ j \in Invoice
      BY <2>1, <2>2 DEF TypeOK, InvoiceRequest, AccountRequest
    <3>2. q.paid \in Nat /\ books[j].rows \in Nat /\ books'[j].rows \in Nat
      BY <3>1 DEF TypeOK, InvoiceRequest
    <3>3. books[j].sold /\ q.paid <= books[j].rows /\ Buyer[j] # Walkin
      BY <2>1, <2>2 DEF RequestHolds
    <3>4. books'[j].sold /\ q.paid <= books'[j].rows
      BY <3>1, <3>2, <3>3
    <3> QED
      BY <2>2, <3>3, <3>4 DEF RequestHolds
  <2>3. CASE q.kind = "reserved"
    <3>1. q \in InvoiceRequest /\ j \in Invoice
      BY <2>1, <2>3 DEF TypeOK, InvoiceRequest, AccountRequest
    <3>2. Covered(j) => Debt(books', Buyer[j]) <= q.seen
      <4> SUFFICES ASSUME Covered(j) PROVE Debt(books', Buyer[j]) <= q.seen
        OBVIOUS
      <4>1. Debt(books, Buyer[j]) <= q.seen
        BY <2>1, <2>3 DEF RequestHolds
      <4>2. Debt(books', Buyer[j]) <= Debt(books, Buyer[j])
        BY <2>1, <2>3, DebtFrame
      <4>3. Debt(books, Buyer[j]) \in Int /\ q.seen \in Int
        BY <3>1, DebtIsInt DEF InvoiceRequest
      <4>4. Debt(books', Buyer[j]) \in Int
        <5> DEFINE f == [i \in Invoice |-> books'[i].debit - books'[i].credit]
                   S == {i \in Invoice : Buyer[i] = Buyer[j]}
        <5>1. \A i \in S : f[i] \in Int
          BY DEF TypeOK
        <5>2. IsFiniteSet(S)
          BY CounterAssumption, FS_Subset
        <5> QED
          BY <5>1, <5>2, SumWithout DEF Debt
      <4> QED
        BY <4>1, <4>2, <4>3, <4>4
    <3>3. Item[j] # Service => stock'[Item[j]] >= 1
      BY <2>1, <2>3 DEF RequestHolds
    <3> QED
      BY <2>1, <2>3, <3>2, <3>3 DEF RequestHolds
  <2> QED
    BY <2>2, <2>3 DEF RequestHolds
<1> QED
  BY <1>1, <1>2, <1>3 DEF RequestsHold

(* The commit of an issue: one more sale, one piece less of its product,   *)
(* and a debit for what is not paid at once.                               *)
LEMMA CommitIssueKeeps ==
    ASSUME CounterIInv, NEW r \in Request, CommitIssue(r)
    PROVE  CounterIInv'
<1> USE DEF CounterIInv
<1> DEFINE q == pending[r]
           i == q.invoice
           paid == q.paid
           debt == IF Buyer[i] = Walkin THEN 0 ELSE Total[i] - paid
           row == [status |-> StatusForPayment(i, paid), paid |-> paid]
           book == [sold |-> TRUE, rows |-> books[i].rows + paid,
                    debit |-> books[i].debit + debt, credit |-> books[i].credit]
<1>1. /\ q # Idle /\ q.kind = "reserved" /\ ~books[i].sold
      /\ invoice' = [invoice EXCEPT ![i] = row]
      /\ books' = [books EXCEPT ![i] = book]
      /\ stock' = [p \in Product |-> IF p = Item[i] THEN stock[p] - 1 ELSE stock[p]]
      /\ Finish(r) /\ account' = account
  BY DEF CommitIssue, Underway, NumberUnused
<1>2. q \in InvoiceRequest /\ i \in Invoice /\ paid \in Nat
  BY <1>1 DEF TypeOK, InvoiceRequest, AccountRequest
<1>3. /\ paid <= Total[i] /\ Total[i] \in Nat /\ Total[i] > 0
      /\ Buyer[i] = Walkin => paid = Total[i]
      /\ Item[i] # Service => stock[Item[i]] >= 1
  BY <1>1, <1>2, CounterAssumption DEF RequestsHold, RequestHolds
<1>4. debt \in Nat
  BY <1>2, <1>3
<1>5. books[i] \in Book /\ books[i].rows = 0 /\ books[i].debit = books[i].credit
  BY <1>1, <1>2 DEF TypeOK, Book, InvoiceHolds
<1>6. book \in Book /\ book.sold /\ book.rows = paid
      /\ book.debit - book.credit = debt /\ book.debit \in Nat /\ book.credit \in Nat
  BY <1>2, <1>4, <1>5 DEF Book
<1>7. /\ row \in [status : InvoiceStatus, paid : Nat] /\ row.paid = paid
      /\ row.status \in Collectable /\ row.status \notin {"none", "draft"}
  BY <1>2 DEF InvoiceStatus, Collectable, StatusForPayment
<1>8. InvoiceHolds(i, row, book)
  BY <1>2, <1>3, <1>6, <1>7 DEF InvoiceHolds
<1> HIDE DEF row, book, debt
<1>9. TypeOK'
  <2>1. stock' \in [Product -> Nat]
    <3>1. \A p \in Product : (p = Item[i] => stock[p] >= 1) /\ stock[p] \in Nat
      BY <1>3, CounterAssumption DEF TypeOK
    <3> QED
      BY <1>1, <3>1
  <2>2. pending' \in [Request -> InvoiceRequest \cup AccountRequest \cup {Idle}]
    BY <1>1 DEF TypeOK, Finish
  <2>3. books' \in [Invoice -> Book] /\ invoice' \in [Invoice -> [status : InvoiceStatus, paid : Nat]]
    BY <1>1, <1>2, <1>6, <1>7 DEF TypeOK, Book
  <2> QED
    BY <1>1, <2>1, <2>2, <2>3 DEF TypeOK, Book
<1>10. \A j \in Invoice : InvoiceHolds(j, invoice'[j], books'[j])
  BY <1>1, <1>2, <1>8 DEF TypeOK
<1>11. StockAccountsForSales'
  <2> SUFFICES ASSUME NEW p \in Product
               PROVE  stock'[p] = StartingStock - Cardinality({j \in Sold' : Item[j] = p})
                      /\ stock'[p] >= 0
    BY DEF StockAccountsForSales
  <2> DEFINE S == {j \in Sold : Item[j] = p}
  <2>1. Sold' = Sold \cup {i} /\ i \notin Sold
    BY <1>1, <1>2, <1>6 DEF Sold, TypeOK
  <2>2. IsFiniteSet(S) /\ S \subseteq Invoice /\ i \notin S
    BY <2>1, CounterAssumption, FS_Subset DEF Sold
  <2>3. stock[p] = StartingStock - Cardinality(S) /\ stock[p] \in Nat
    BY DEF StockAccountsForSales, TypeOK
  <2>4. Cardinality(S) \in Nat /\ StartingStock \in Nat
    BY <2>2, FS_CardinalityType, CounterAssumption
  <2>5. CASE p = Item[i]
    <3>1. {j \in Sold' : Item[j] = p} = S \cup {i}
      BY <2>1, <2>5
    <3>2. Cardinality(S \cup {i}) = Cardinality(S) + 1
      BY <2>2, FS_AddElement
    <3>3. stock'[p] = stock[p] - 1 /\ stock[p] >= 1
      BY <1>1, <1>3, <2>5, CounterAssumption
    <3>4. stock[p] - 1 = StartingStock - (Cardinality(S) + 1)
      BY <2>3, <2>4
    <3>5. stock[p] - 1 >= 0
      BY <2>3, <3>3
    <3> QED
      BY <3>1, <3>2, <3>3, <3>4, <3>5
  <2>6. CASE p # Item[i]
    <3>1. {j \in Sold' : Item[j] = p} = S
      BY <2>1, <2>6
    <3>2. stock'[p] = stock[p]
      BY <1>1, <2>6
    <3>3. stock[p] >= 0
      BY <2>3
    <3> QED
      BY <2>3, <3>1, <3>2, <3>3
  <2> QED
    BY <2>5, <2>6
<1>12. RequestsHold(pending, books, stock)' /\ LocksApart(pending)'
  <2>1. \A j \in Invoice : /\ books[j].sold => books'[j].sold
                           /\ books[j].sold => books[j].rows <= books'[j].rows
    BY <1>1, <1>2, <1>6 DEF TypeOK
  <2>2. ASSUME NEW p \in Request \ {r}, pending[p] # Idle, pending[p].kind = "reserved"
        PROVE  LET j == pending[p].invoice IN
               /\ Item[j] # Service => stock'[Item[j]] = stock[Item[j]]
               /\ Covered(j) =>
                    \A k \in Invoice : Buyer[k] = Buyer[j] =>
                      books'[k].debit - books'[k].credit <= books[k].debit - books[k].credit
    <3> DEFINE j == pending[p].invoice
    <3>1. j \in Invoice
      BY <2>2 DEF TypeOK, InvoiceRequest, AccountRequest
    <3>2. Item[j] # Service => Item[i] # Item[j] /\ Item[j] \in Product
      BY <1>1, <2>2, <3>1, CounterAssumption DEF LocksApart
    <3>3. Covered(j) => Buyer[i] # Buyer[j]
      BY <1>2, <3>2 DEF Covered
    <3>4. \A k \in Invoice : k # i => books'[k] = books[k]
      BY <1>1 DEF TypeOK
    <3>5. \A k \in Invoice : books[k].debit - books[k].credit \in Int
      BY DEF TypeOK
    <3> QED
      BY <1>1, <3>2, <3>3, <3>4, <3>5
  <2> QED
    BY <1>1, <1>9, <2>1, <2>2, OthersHold
<1> QED
  BY <1>9, <1>10, <1>11, <1>12

(* The commit of a collection: a payment row and a credit.                 *)
LEMMA CommitCollectKeeps ==
    ASSUME CounterIInv, NEW r \in Request, NEW x \in Invoice,
           NEW amount \in 1..Total[x], CommitCollect(r, amount)
    PROVE  CounterIInv'
<1> USE DEF CounterIInv
<1> DEFINE q == pending[r]
           i == q.invoice
           paid == q.paid + amount
           status == StatusForPayment(i, paid)
           row == [status |-> IF status = q.status THEN invoice[i].status ELSE status,
                   paid |-> paid]
           book == [sold |-> books[i].sold, rows |-> books[i].rows + amount,
                    debit |-> books[i].debit,
                    credit |-> books[i].credit + Credited(i, q.paid, amount)]
<1>1. /\ q # Idle /\ q.kind = "collect" /\ amount \in 1..(Total[i] - q.paid)
      /\ invoice' = [invoice EXCEPT ![i] = row]
      /\ books' = [books EXCEPT ![i] = book]
      /\ Finish(r) /\ UNCHANGED <<stock, account>>
  BY DEF CommitCollect, Underway, AmountsDue
<1>2. q \in InvoiceRequest /\ i \in Invoice /\ q.paid \in Nat /\ Total[i] \in Nat
  BY <1>1, CounterAssumption DEF TypeOK, InvoiceRequest, AccountRequest
<1>3. books[i].sold /\ Buyer[i] # Walkin /\ q.paid <= books[i].rows
  BY <1>1 DEF RequestsHold, RequestHolds
<1>4. amount \in Nat /\ paid \in Nat /\ paid <= Total[i]
  BY <1>1, <1>2
<1>5. books[i] \in Book /\ InvoiceHolds(i, invoice[i], books[i])
      /\ invoice[i].status \in InvoiceStatus
  BY <1>2 DEF TypeOK, Book
<1>6. /\ book.sold /\ book.rows = books[i].rows + amount /\ book \in Book
      /\ book.debit = books[i].debit /\ book.credit = books[i].credit + amount
  BY <1>3, <1>4, <1>5 DEF Book, Credited
<1>7. /\ row \in [status : InvoiceStatus, paid : Nat] /\ row.paid = paid
      /\ row.status \notin {"none", "draft"}
  BY <1>3, <1>4, <1>5 DEF InvoiceStatus, Collectable, StatusForPayment, InvoiceHolds
<1>8. InvoiceHolds(i, row, book)
  <2>1. books[i].debit \in Nat /\ books[i].credit \in Nat /\ books[i].rows \in Nat
    BY <1>5 DEF Book
  <2>2. books[i].debit - books[i].credit = Total[i] - books[i].rows
    BY <1>3, <1>5 DEF InvoiceHolds
  <2> HIDE DEF row, book, paid
  <2>3. book.debit - book.credit = Total[i] - book.rows
    BY <1>2, <1>4, <1>6, <2>1, <2>2
  <2>4. row.paid <= book.rows
    BY <1>2, <1>3, <1>4, <1>6, <1>7, <2>1 DEF paid
  <2> QED
    BY <1>3, <1>4, <1>6, <1>7, <2>3, <2>4 DEF InvoiceHolds
<1> HIDE DEF row, book
<1>9. TypeOK'
  <2>1. pending' \in [Request -> InvoiceRequest \cup AccountRequest \cup {Idle}]
    BY <1>1 DEF TypeOK, Finish
  <2>2. books' \in [Invoice -> Book] /\ invoice' \in [Invoice -> [status : InvoiceStatus, paid : Nat]]
    BY <1>1, <1>2, <1>6, <1>7 DEF TypeOK, Book
  <2> QED
    BY <1>1, <2>1, <2>2 DEF TypeOK, Book
<1>10. \A j \in Invoice : InvoiceHolds(j, invoice'[j], books'[j])
  BY <1>1, <1>2, <1>8 DEF TypeOK
<1>11. \A j \in Invoice : books'[j] = IF j = i THEN book ELSE books[j]
  BY <1>1 DEF TypeOK
<1>12. StockAccountsForSales'
  <2>1. Sold' = Sold
    BY <1>3, <1>6, <1>11 DEF Sold
  <2> QED
    BY <1>1, <2>1 DEF StockAccountsForSales
<1>13. RequestsHold(pending, books, stock)' /\ LocksApart(pending)'
  <2>1. \A j \in Invoice :
          /\ books[j].sold => books'[j].sold
          /\ books[j].sold => books[j].rows <= books'[j].rows
          /\ books'[j].debit - books'[j].credit <= books[j].debit - books[j].credit
    <3> SUFFICES ASSUME NEW j \in Invoice
                 PROVE  /\ books[j].sold => books'[j].sold
                        /\ books[j].rows <= books'[j].rows
                        /\ books'[j].debit - books'[j].credit
                             <= books[j].debit - books[j].credit
      OBVIOUS
    <3>1. books[j].rows \in Nat /\ books[j].debit \in Nat /\ books[j].credit \in Nat
      BY DEF TypeOK
    <3> QED
      BY <1>4, <1>6, <1>11, <3>1
  <2> QED
    BY <1>1, <1>9, <2>1, OthersHold
<1> QED
  BY <1>9, <1>10, <1>12, <1>13

(* A cancellation writes the status, whatever it has become.               *)
LEMMA StatusKeeps ==
    ASSUME CounterIInv, NEW i \in Invoice, NEW status \in {"draft", "cancelled"},
           status = "draft" => ~books[i].sold,
           invoice' = [invoice EXCEPT ![i].status = status],
           UNCHANGED <<books, stock, account>>,
           \/ pending' = pending
           \/ \E r \in Request : Finish(r)
    PROVE  CounterIInv'
<1> USE DEF CounterIInv
<1> DEFINE row == [invoice[i] EXCEPT !.status = status]
<1>1. invoice[i] \in [status : InvoiceStatus, paid : Nat]
  BY DEF TypeOK
<1>2. row \in [status : InvoiceStatus, paid : Nat] /\ row.paid = invoice[i].paid /\ row.status = status
  BY <1>1 DEF InvoiceStatus
<1>3. invoice' = [invoice EXCEPT ![i] = row]
  OBVIOUS
<1> HIDE DEF row
<1>4. TypeOK'
  <2>1. invoice' \in [Invoice -> [status : InvoiceStatus, paid : Nat]]
    BY <1>2, <1>3 DEF TypeOK
  <2>2. pending' \in [Request -> InvoiceRequest \cup AccountRequest \cup {Idle}]
    BY DEF TypeOK, Finish
  <2> QED
    BY <2>1, <2>2 DEF TypeOK
<1>5. InvoiceHolds(i, row, books[i])
  BY <1>2 DEF InvoiceHolds, Collectable
<1>6. \A j \in Invoice : InvoiceHolds(j, invoice'[j], books'[j])
  BY <1>3, <1>5 DEF TypeOK
<1>7. StockAccountsForSales'
  BY DEF StockAccountsForSales, Sold
<1>8. \A p \in Request : pending'[p] # Idle => pending'[p] = pending[p]
  BY DEF Finish, TypeOK
<1>9. RequestsHold(pending, books, stock)' /\ LocksApart(pending)'
  BY <1>8 DEF RequestsHold, LocksApart
<1> QED
  BY <1>4, <1>6, <1>7, <1>9

(* CreateInvoice keeps the invariant.                                    *)
LEMMA CreateInvoiceKeeps ==
    ASSUME CounterIInv, NEW i \in Invoice, CreateInvoice(i)
    PROVE  CounterIInv'
<1>1. ~books[i].sold
  BY DEF CounterIInv, InvoiceHolds, CreateInvoice
<1> QED
  BY <1>1, StatusKeeps DEF CreateInvoice

(* CommitCancel keeps the invariant.                                     *)
LEMMA CommitCancelKeeps ==
    ASSUME CounterIInv, NEW r \in Request, CommitCancel(r)
    PROVE  CounterIInv'
<1>1. pending[r].invoice \in Invoice
  BY DEF CommitCancel, Underway, CounterIInv, TypeOK, InvoiceRequest, AccountRequest
<1> QED
  BY <1>1, StatusKeeps DEF CommitCancel

(* The customers' own account is of no concern to the invoices.            *)
LEMMA AccountKeeps ==
    ASSUME CounterIInv,
           \/ \E c \in Customer : RecordCustomerPayment(c) \/ DeactivateCustomer(c)
           \/ \E r \in Request, c \in Customer : BeginUpdateCustomer(r, c)
           \/ \E r \in Request, opening \in 0..MaxOpening, active \in BOOLEAN :
                CommitUpdateCustomer(r, opening, active)
           \/ \E r \in Request : GiveUp(r)
    PROVE  CounterIInv'
<1> USE DEF CounterIInv
<1> DEFINE Accounts == [Customer -> [active : BOOLEAN, opening : Nat,
                                     openings : Int, receipts : Nat]]
<1>1. ASSUME NEW c \in Customer, RecordCustomerPayment(c) \/ DeactivateCustomer(c)
      PROVE  CounterIInv'
  <2>1. PICK row : /\ account' = [account EXCEPT ![c] = row]
                   /\ \/ row = [account[c] EXCEPT !.receipts = account[c].receipts + 1]
                      \/ row = [account[c] EXCEPT !.active = FALSE]
                   /\ UNCHANGED <<invoice, books, stock, pending>>
    BY <1>1 DEF RecordCustomerPayment, DeactivateCustomer
  <2>2. row \in [active : BOOLEAN, opening : Nat, openings : Int, receipts : Nat]
    <3>1. account[c] \in [active : BOOLEAN, opening : Nat, openings : Int, receipts : Nat]
      BY DEF TypeOK
    <3>2. CASE row = [account[c] EXCEPT !.receipts = account[c].receipts + 1]
      BY <3>1, <3>2
    <3>3. CASE row = [account[c] EXCEPT !.active = FALSE]
      BY <3>1, <3>3, Zenon
    <3> QED
      BY <2>1, <3>2, <3>3
  <2>3. account' \in Accounts
    BY <2>1, <2>2 DEF TypeOK
  <2>4. TypeOK'
    BY <2>1, <2>3 DEF TypeOK
  <2> QED
    BY <2>1, <2>4 DEF StockAccountsForSales, Sold
<1>2. ASSUME NEW r \in Request, NEW c \in Customer, BeginUpdateCustomer(r, c)
      PROVE  CounterIInv'
  <2> DEFINE q == [kind |-> "opening", customer |-> c, opening |-> account[c].opening]
  <2>1. q \in AccountRequest /\ q.kind = "opening"
    BY DEF AccountRequest, TypeOK
  <2>2. RequestHolds(q, books, stock)
    BY <2>1 DEF RequestHolds
  <2>3. pending' = [pending EXCEPT ![r] = q] /\ UNCHANGED <<invoice, books, stock, account>>
    BY <1>2 DEF BeginUpdateCustomer
  <2> HIDE DEF q
  <2> QED
    BY <2>1, <2>2, <2>3, OnlyPending DEF TypeOK
<1>3. ASSUME NEW r \in Request, NEW opening \in 0..MaxOpening, NEW active \in BOOLEAN,
             CommitUpdateCustomer(r, opening, active)
      PROVE  CounterIInv'
  <2> DEFINE c == pending[r].customer
             delta == opening - pending[r].opening
             row == [active |-> active,
                     opening |-> IF delta = 0 THEN account[c].opening ELSE opening,
                     openings |-> account[c].openings + delta,
                     receipts |-> account[c].receipts]
  <2>1. pending[r] \in AccountRequest
    BY <1>3 DEF CommitUpdateCustomer, Underway, TypeOK, InvoiceRequest
  <2>2. c \in Customer /\ pending[r].opening \in Nat /\ opening \in Nat
    BY <2>1, CounterAssumption DEF AccountRequest
  <2>3. row \in [active : BOOLEAN, opening : Nat, openings : Int, receipts : Nat]
    BY <2>2 DEF TypeOK
  <2>4. account' = [account EXCEPT ![c] = row]
    BY <1>3 DEF CommitUpdateCustomer
  <2> HIDE DEF row
  <2>5. account' \in Accounts
    BY <2>2, <2>3, <2>4 DEF TypeOK
  <2>6. pending' = [pending EXCEPT ![r] = Idle] /\ UNCHANGED <<invoice, books, stock>>
    BY <1>3 DEF CommitUpdateCustomer, Finish
  <2> QED
    BY <2>5, <2>6, OnlyPending
<1>4. ASSUME NEW r \in Request, GiveUp(r)
      PROVE  CounterIInv'
  BY <1>4, OnlyPending DEF GiveUp, Finish, TypeOK
<1> QED
  BY <1>1, <1>2, <1>3, <1>4

(* Every step keeps the invariant, action by action.                     *)
LEMMA CounterStep == CounterIInv /\ [Next]_vars => CounterIInv'
<1> SUFFICES ASSUME CounterIInv, [Next]_vars PROVE CounterIInv'
  OBVIOUS
<1>1. CASE Next
  <2>1. CASE \E i \in Invoice : CreateInvoice(i)
    BY <2>1, CreateInvoiceKeeps
  <2>2. CASE \E r \in Request, i \in Invoice :
               \/ BeginIssue(r, i) \/ BeginCheckout(r, i)
               \/ BeginCancel(r, i) \/ BeginCollect(r, i)
    BY <2>2, BeginKeeps
  <2>3. CASE \E r \in Request, i \in Invoice : \E paid \in 0..Total[i] :
               pending[r] # Idle /\ ReserveStock(r, paid)
    BY <2>3, ReserveStockKeeps
  <2>4. CASE \E r \in Request : CommitIssue(r) \/ CommitCancel(r)
    BY <2>4, CommitIssueKeeps, CommitCancelKeeps
  <2>5. CASE \E r \in Request, i \in Invoice : \E amount \in 1..Total[i] :
               CommitCollect(r, amount)
    BY <2>5, CommitCollectKeeps
  <2> QED
    BY <1>1, <2>1, <2>2, <2>3, <2>4, <2>5, AccountKeeps DEF Next
<1>2. CASE UNCHANGED vars
  BY <1>2 DEF vars, CounterIInv, TypeOK, StockAccountsForSales, Sold
<1> QED
  BY <1>1, <1>2

(* The step of the invoices that are sold.                                 *)
SoldStep ==
    \A i \in Sold :
         /\ books'[i].sold /\ books'[i].debit = books[i].debit
         /\ Buyer[i] = Walkin => books'[i] = books[i]

(* A step sells an invoice at most once.                                 *)
LEMMA SoldStays ==
    ASSUME CounterIInv, Next
    PROVE  SoldStep
<1> USE DEF CounterIInv
<1>1. CASE UNCHANGED books
  BY <1>1 DEF SoldStep, Sold
<1>2. ASSUME NEW r \in Request, CommitIssue(r) PROVE SoldStep
  BY <1>2 DEF CommitIssue, NumberUnused, SoldStep, Sold, TypeOK
<1>3. ASSUME NEW r \in Request, NEW i \in Invoice, NEW amount \in 1..Total[i],
             CommitCollect(r, amount)
      PROVE  SoldStep
  <2>1. books[pending[r].invoice].sold /\ Buyer[pending[r].invoice] # Walkin
    BY <1>3 DEF CommitCollect, Underway, RequestsHold, RequestHolds
  <2> QED
    BY <1>3, <2>1 DEF CommitCollect, SoldStep, Sold, TypeOK
<1> QED
  BY <1>1, <1>2, <1>3 DEF Next, CreateInvoice, BeginIssue, BeginCheckout, BeginCancel,
     BeginCollect, Begin, ReserveStock, CommitCancel, GiveUp, RecordCustomerPayment,
     DeactivateCustomer, BeginUpdateCustomer, CommitUpdateCustomer

(* The counter's books hold for any number of requests, invoices,        *)
(* customers and products: payments, ledger, stock and the credit limit  *)
(* (issue_invoice, add_payment, cancel_invoice).                         *)
THEOREM CounterBooksHold == Spec => []CounterBooks
BY CounterStart, CounterStep, CounterImplied, PTL DEF Spec

(* No invoice is issued twice or goes back to a draft, and none that is  *)
(* settled is reopened by a request that had read it before              *)
(* (issue_invoice).                                                      *)
THEOREM InvoicesIssuedOnce == Spec => IssuedOnce
<1>1. CounterIInv /\ [Next]_vars => [SoldStep]_vars
  BY SoldStays
<1> QED
  BY <1>1, CounterStart, CounterStep, PTL DEF Spec, IssuedOnce, SoldStep

-----------------------------------------------------------------------------
(*************************************************************************)
(* Takeaway bills.  A bill is made by one request, under the locks on    *)
(* its order and on the counter of its branch.  The credit limit         *)
(* survives because the second lock lets one bill of the branch be made  *)
(* at a time, so the sum of the debts and that one bill stay within it.  *)
(*************************************************************************)

(* What the customer owes for order o, told of its bill, and for them all. *)
OwesOn(o, bl) ==
    IF bl.by # Nobody /\ o \in OnAccount
    THEN AmountOf[o] - Offer[bl.by] - bl.credit ELSE 0

OwedBy(bills) ==
    SumFunctionOnSet([o \in Takeaway |-> OwesOn(o, bills[o])], Takeaway)

OneBranch == \A o, p \in Takeaway : BranchOf[o] = BranchOf[p]

(* An order and its bill: the status follows the money.                    *)
OrderHolds(o, row, bl, mx) ==
    /\ row.status \in {"billed", "closed"} <=> bl.by # Nobody
    /\ row.status = "closed" => bl.rows >= AmountOf[o]
    /\ bl.by # Nobody => bl.paid <= bl.rows
    /\ bl.by # Nobody /\ o \notin mx =>
         /\ bl.paid = bl.rows /\ bl.rows <= AmountOf[o]
         /\ row.status = "closed" <=> bl.rows = AmountOf[o]

OrdersHold(orders, bills, mx) ==
    \A o \in Takeaway : OrderHolds(o, orders[o], bills[o], mx)

(* A bill was made by a request for its order, which has been answered; no *)
(* two bills hold one key.                                                 *)
BillsHold(bills, req) ==
    /\ \A o \in Takeaway : bills[o].by # Nobody =>
         OrderOf[bills[o].by] = o /\ req[bills[o].by].at = "answered"
    /\ \A o, p \in Takeaway :
         /\ bills[o].by # Nobody /\ bills[p].by # Nobody
         /\ BillKey[bills[o].by] = BillKey[bills[p].by]
         => o = p

(* A request: what it is answered with is its own, and the order it has    *)
(* locked is not billed.                                                   *)
BillingHolds(b, req, orders, bills) ==
    /\ req[b].at # "answered" => req[b].answer \notin Takeaway
    /\ req[b].answer \in Takeaway =>
         LET o == OrderOf[b] IN
         /\ req[b].answer = o /\ bills[o].by # Nobody
         /\ BillKey[bills[o].by] = BillKey[b] /\ Offer[bills[o].by] = Offer[b]
    /\ req[b].at = "numbered" =>
         orders[OrderOf[b]].status \in {"accepted", "served", "bill_requested"}

BillingsHold(req, orders, bills) ==
    \A b \in BillRequest : BillingHolds(b, req, orders, bills)

(* The locks: on the order, and on the counter of its branch.              *)
CountersApart(req) ==
    \A b, c \in BillRequest :
      /\ req[b].at = "numbered" /\ req[c].at = "numbered"
      /\ BranchOf[OrderOf[b]] = BranchOf[OrderOf[c]]
      => b = c

(* A cashier's invoice, and the amount read, which its rows now cover.     *)
TillsHold(tl, bills) ==
    \A c \in Cashier : tl[c] # Nobody =>
      /\ bills[tl[c].invoice].by # Nobody
      /\ tl[c].paid <= bills[tl[c].invoice].rows

(* In one branch, the debt and the one bill being made stay in the limit.  *)
CreditHolds(bills, req) ==
    OneBranch =>
      /\ OwedBy(bills) <= Allowance
      /\ \A b \in BillRequest : req[b].at = "numbered" =>
           LET due == AmountOf[OrderOf[b]] - Offer[b]
           IN due > 0 => OwedBy(bills) + due <= Allowance

TakeawayIInv ==
    /\ TakeawayTypeOK
    /\ OrdersHold(takeaway, bill, mixed)
    /\ BillsHold(bill, request)
    /\ BillingsHold(request, takeaway, bill)
    /\ CountersApart(request)
    /\ TillsHold(till, bill)
    /\ CreditHolds(bill, request)

BillingRow == [at : {"new", "quoted", "looked", "numbered", "answered"},
               version : Nat, answer : Takeaway \cup {Nobody, "refused"}]
TakeawayRow == [status : TakeawayStatus, version : Nat]

(* What is owed, told of the bills.                                      *)
LEMMA OwedIsOwedBy == Owed = OwedBy(bill)
<1>1. \A o \in Takeaway : Owes(o) = OwesOn(o, bill[o])
  BY DEF Owes, OwesOn, Billed
<1>2. [o \in Takeaway |-> Owes(o)] = [o \in Takeaway |-> OwesOn(o, bill[o])]
  BY <1>1
<1> QED
  BY <1>2 DEF Owed, OwedBy

(* What an order owes is a number.                                       *)
LEMMA OwesTypes ==
    ASSUME NEW bills \in [Takeaway -> BillRecord], NEW o \in Takeaway,
           bills[o].by # Nobody => OrderOf[bills[o].by] = o
    PROVE  OwesOn(o, bills[o]) \in Int
<1>1. CASE bills[o].by # Nobody
  <2>1. bills[o].by \in BillRequest /\ bills[o].credit \in Nat
    BY <1>1 DEF BillRecord
  <2>2. AmountOf[o] \in Int /\ Offer[bills[o].by] \in 0..AmountOf[o]
    BY <1>1, <2>1, TakeawayAssumption
  <2>3. AmountOf[o] - Offer[bills[o].by] - bills[o].credit \in Int
    BY <2>1, <2>2
  <2> QED
    BY <2>3 DEF OwesOn
<1>2. CASE bills[o].by = Nobody
  BY <1>2 DEF OwesOn
<1> QED
  BY <1>1, <1>2

(* A step on one bill changes the debt by what it changes there.           *)
LEMMA OwedChanges ==
    ASSUME NEW bills \in [Takeaway -> BillRecord],
           NEW after \in [Takeaway -> BillRecord],
           \A p \in Takeaway : bills[p].by # Nobody => OrderOf[bills[p].by] = p,
           \A p \in Takeaway : after[p].by # Nobody => OrderOf[after[p].by] = p,
           NEW o \in Takeaway, \A p \in Takeaway \ {o} : after[p] = bills[p]
    PROVE  /\ OwedBy(bills) \in Int /\ OwedBy(after) \in Int
           /\ OwedBy(after) = OwedBy(bills) - OwesOn(o, bills[o]) + OwesOn(o, after[o])
<1> DEFINE f == [p \in Takeaway |-> OwesOn(p, bills[p])]
           g == [p \in Takeaway |-> OwesOn(p, after[p])]
<1>1. \A p \in Takeaway : f[p] \in Int /\ g[p] \in Int
  BY OwesTypes
<1>2. \A p \in Takeaway \ {o} : f[p] = g[p]
  OBVIOUS
<1>3. f[o] = OwesOn(o, bills[o]) /\ g[o] = OwesOn(o, after[o])
  OBVIOUS
<1>4. OwedBy(bills) = SumFunctionOnSet(f, Takeaway) /\ OwedBy(after) = SumFunctionOnSet(g, Takeaway)
  BY DEF OwedBy
<1> HIDE DEF f, g
<1> QED
  BY <1>1, <1>2, <1>3, <1>4, SumOneChanges, TakeawayAssumption

(* The invariant gives the takeaway's properties.                        *)
LEMMA TakeawayImplied == TakeawayIInv => TakeawayBooks
<1> SUFFICES ASSUME TakeawayIInv PROVE TakeawayBooks
  OBVIOUS
<1> USE DEF TakeawayIInv
<1>1. KeysAnswerTheirBill
  BY DEF KeysAnswerTheirBill, Billed, BillsHold, BillingsHold, BillingHolds
<1>2. ClosedIsPaidFor
  BY DEF ClosedIsPaidFor, OrdersHold, OrderHolds, Billed
<1>3. CafeCollectsExactly
  BY DEF CafeCollectsExactly, OrdersHold, OrderHolds, Billed
<1>4. CreditKept
  BY OwedIsOwedBy DEF CreditKept, CreditHolds, OneBranch
<1> QED
  BY <1>1, <1>2, <1>3, <1>4 DEF TakeawayBooks

(* The invariant holds at first.                                         *)
LEMMA TakeawayStart == TakeawayInit => TakeawayIInv
<1> SUFFICES ASSUME TakeawayInit PROVE TakeawayIInv
  OBVIOUS
<1> USE DEF TakeawayInit
<1>1. TakeawayTypeOK
  <2>1. takeaway \in [Takeaway -> TakeawayRow]
    BY DEF TakeawayRow, TakeawayStatus
  <2>2. bill \in [Takeaway -> BillRecord]
    BY DEF BillRecord
  <2>3. request \in [BillRequest -> BillingRow]
    BY DEF BillingRow
  <2>4. till \in [Cashier -> [invoice : Takeaway, paid : Nat] \cup {Nobody}]
    OBVIOUS
  <2>5. shelf \in Nat /\ mixed \subseteq Takeaway
    BY TakeawayAssumption
  <2> QED
    BY <2>1, <2>2, <2>3, <2>4, <2>5 DEF TakeawayTypeOK, TakeawayRow, BillingRow
<1>2. OrdersHold(takeaway, bill, mixed)
  BY DEF OrdersHold, OrderHolds
<1>3. BillsHold(bill, request) /\ CountersApart(request) /\ TillsHold(till, bill)
  BY DEF BillsHold, CountersApart, TillsHold
<1>4. BillingsHold(request, takeaway, bill)
  BY TakeawayAssumption DEF BillingsHold, BillingHolds
<1>5. CreditHolds(bill, request)
  <2>1. OwedBy(bill) = 0
    <3> DEFINE f == [o \in Takeaway |-> OwesOn(o, bill[o])]
    <3>1. \A o \in Takeaway : f[o] = 0
      BY DEF OwesOn
    <3> HIDE DEF f
    <3>2. SumFunctionOnSet(f, Takeaway) = 0
      BY <3>1, SumOfZeros, TakeawayAssumption
    <3> QED
      BY <3>2 DEF OwedBy, f
  <2> QED
    BY <2>1, TakeawayAssumption DEF CreditHolds
<1> QED
  BY <1>1, <1>2, <1>3, <1>4, <1>5 DEF TakeawayIInv

(* An order moves that is not billed and that no bill has locked.          *)
LEMMA OrderMoveKeeps ==
    ASSUME TakeawayIInv, NEW o \in Takeaway, NEW status \in TakeawayStatus,
           takeaway[o].status \notin {"billed", "closed"},
           status \notin {"billed", "closed"},
           \A b \in BillRequest : request[b].at = "numbered" => OrderOf[b] # o,
           Move(o, status, 1), UNCHANGED <<bill, request, till, shelf, mixed>>
    PROVE  TakeawayIInv'
<1> USE DEF TakeawayIInv
<1> DEFINE row == [status |-> status, version |-> takeaway[o].version + 1]
<1>1. takeaway' = [takeaway EXCEPT ![o] = row]
  BY DEF Move
<1>2. row \in TakeawayRow /\ row.status = status
  BY DEF TakeawayRow, TakeawayTypeOK
<1> HIDE DEF row
<1>3. TakeawayTypeOK'
  BY <1>1, <1>2 DEF TakeawayTypeOK, TakeawayRow
<1>4. \A p \in Takeaway : takeaway'[p] = IF p = o THEN row ELSE takeaway[p]
  BY <1>1 DEF TakeawayTypeOK
<1>5. OrdersHold(takeaway, bill, mixed)'
  BY <1>2, <1>4 DEF OrdersHold, OrderHolds
<1>6. BillingsHold(request, takeaway, bill)'
  BY <1>4, TakeawayAssumption DEF BillingsHold, BillingHolds
<1> QED
  BY <1>3, <1>5, <1>6

(* PlaceTakeaway keeps the invariant.                                    *)
LEMMA PlaceTakeawayKeeps ==
    ASSUME TakeawayIInv, NEW o \in Takeaway, PlaceTakeaway(o)
    PROVE  TakeawayIInv'
<1>1. \A b \in BillRequest : request[b].at = "numbered" => OrderOf[b] # o
  BY DEF PlaceTakeaway, TakeawayIInv, BillingsHold, BillingHolds
<1>2. "placed" \in TakeawayStatus
  BY DEF TakeawayStatus
<1> QED
  BY <1>1, <1>2, OrderMoveKeeps DEF PlaceTakeaway

(* MoveTakeaway keeps the invariant.                                     *)
LEMMA MoveTakeawayKeeps ==
    ASSUME TakeawayIInv, NEW o \in Takeaway, NEW target \in TakeawayStatus,
           MoveTakeaway(o, target)
    PROVE  TakeawayIInv'
<1>1. /\ takeaway[o].status \notin {"billed", "closed"}
      /\ target \notin {"billed", "closed"}
  BY DEF MoveTakeaway, TakeawayMoves
<1>2. \A b \in BillRequest : request[b].at = "numbered" => OrderOf[b] # o
  BY DEF MoveTakeaway, Locked, Numbered
<1> QED
  BY <1>1, <1>2, OrderMoveKeeps DEF MoveTakeaway

(* A request goes a step on without locks.                                 *)
LEMMA BillingKeeps ==
    ASSUME TakeawayIInv, NEW b \in BillRequest, NEW q \in BillingRow,
           request[b].at \notin {"numbered", "answered"},
           request' = [request EXCEPT ![b] = q],
           UNCHANGED <<takeaway, bill, till, shelf, mixed>>,
           q.at # "answered" => q.answer \notin Takeaway,
           q.answer \in Takeaway =>
             LET o == OrderOf[b] IN
             /\ q.answer = o /\ bill[o].by # Nobody
             /\ BillKey[bill[o].by] = BillKey[b] /\ Offer[bill[o].by] = Offer[b],
           q.at = "numbered" =>
             /\ takeaway[OrderOf[b]].status \in {"accepted", "served", "bill_requested"}
             /\ \A c \in BillRequest : request[c].at = "numbered" =>
                  BranchOf[OrderOf[c]] # BranchOf[OrderOf[b]]
             /\ OneBranch =>
                  LET due == AmountOf[OrderOf[b]] - Offer[b]
                  IN due > 0 => OwedBy(bill) + due <= Allowance
    PROVE  TakeawayIInv'
<1> USE DEF TakeawayIInv
<1>1. \A c \in BillRequest : request'[c] = IF c = b THEN q ELSE request[c]
  BY DEF TakeawayTypeOK
<1>2. TakeawayTypeOK'
  BY DEF TakeawayTypeOK, BillingRow
<1>3. OrderOf[b] \in Takeaway
  BY TakeawayAssumption
<1>4. \A o \in Takeaway : bill[o].by # Nobody => bill[o].by \in BillRequest /\ bill[o].by # b
  BY DEF BillsHold, TakeawayTypeOK, BillRecord
<1>5. BillsHold(bill, request)'
  BY <1>1, <1>4 DEF BillsHold
<1>6. BillingsHold(request, takeaway, bill)'
  <2> SUFFICES ASSUME NEW c \in BillRequest
               PROVE  BillingHolds(c, request', takeaway, bill)
    BY DEF BillingsHold
  <2>1. OrderOf[c] \in Takeaway
    BY TakeawayAssumption
  <2>2. CASE c = b
    BY <1>1, <1>3, <1>4, <2>2 DEF BillingHolds
  <2>3. CASE c # b
    BY <1>1, <1>4, <2>1, <2>3 DEF BillingsHold, BillingHolds
  <2> QED
    BY <2>2, <2>3
<1>7. CountersApart(request)'
  BY <1>1 DEF CountersApart
<1>8. CreditHolds(bill, request)'
  BY <1>1 DEF CreditHolds
<1> QED
  BY <1>2, <1>5, <1>6, <1>7, <1>8

(* Quote keeps the invariant.                                            *)
LEMMA QuoteKeeps ==
    ASSUME TakeawayIInv, NEW b \in BillRequest,
           \/ QuoteTakeaway(b)
           \/ \E c \in BillRequest : ResendBill(b, c)
    PROVE  TakeawayIInv'
<1>1. PICK v \in Nat : /\ request[b].at = "new" /\ Advance(b, "quoted", v)
                       /\ UNCHANGED <<takeaway, bill, till, shelf, mixed>>
  <2>1. CASE QuoteTakeaway(b)
    <3>1. takeaway[OrderOf[b]].version \in Nat
      BY TakeawayAssumption DEF TakeawayIInv, TakeawayTypeOK
    <3> QED
      BY <2>1, <3>1 DEF QuoteTakeaway
  <2>2. CASE \E c \in BillRequest : ResendBill(b, c)
    BY <2>2 DEF ResendBill, TakeawayIInv, TakeawayTypeOK
  <2> QED
    BY <2>1, <2>2
<1> DEFINE q == [request[b] EXCEPT !.at = "quoted", !.version = v]
<1>2. request[b] \in BillingRow
  BY DEF TakeawayIInv, TakeawayTypeOK, BillingRow
<1>3. q \in BillingRow /\ q.at = "quoted" /\ q.answer = request[b].answer
  BY <1>2 DEF BillingRow
<1>4. request' = [request EXCEPT ![b] = q]
  BY <1>1, <1>2 DEF Advance, TakeawayIInv, TakeawayTypeOK
<1>5. q.answer \notin Takeaway
  BY <1>1, <1>3 DEF TakeawayIInv, BillingsHold, BillingHolds
<1> HIDE DEF q
<1> QED
  BY <1>1, <1>3, <1>4, <1>5, BillingKeeps

(* LookUpBill keeps the invariant.                                       *)
LEMMA LookUpBillKeeps ==
    ASSUME TakeawayIInv, NEW b \in BillRequest, LookUpBill(b)
    PROVE  TakeawayIInv'
<1> USE DEF TakeawayIInv
<1>1. request[b] \in BillingRow /\ request[b].at = "quoted" /\ request[b].answer \notin Takeaway
  BY DEF LookUpBill, TakeawayTypeOK, BillingRow, BillingsHold, BillingHolds
<1>2. PICK at \in {"answered", "looked"}, answer \in Takeaway \cup {Nobody, "refused"} :
        /\ request' = [request EXCEPT ![b].at = at, ![b].answer = answer]
        /\ at = "looked" => answer \notin Takeaway
        /\ answer \in Takeaway => answer \in WithKey(b) /\ SameBill(b, answer)
  <2>1. CASE \E o \in WithKey(b) : Reply(b, IF SameBill(b, o) THEN o ELSE "refused")
    <3>1. PICK o \in WithKey(b) : Reply(b, IF SameBill(b, o) THEN o ELSE "refused")
      BY <2>1
    <3>2. o \in Takeaway
      BY DEF WithKey, Billed
    <3> QED
      BY <3>1, <3>2, TakeawayAssumption DEF Reply
  <2>2. CASE Reply(b, "refused")
    BY <2>2, TakeawayAssumption DEF Reply
  <2>3. CASE Advance(b, "looked", request[b].version)
    <3>1. [request[b] EXCEPT !.at = "looked", !.version = request[b].version]
            = [request[b] EXCEPT !.at = "looked", !.answer = request[b].answer]
      BY <1>1 DEF BillingRow
    <3>2. request' = [request EXCEPT ![b].at = "looked", ![b].answer = request[b].answer]
      BY <2>3, <3>1 DEF Advance, TakeawayTypeOK
    <3> QED
      BY <1>1, <3>2 DEF BillingRow
  <2> QED
    BY <2>1, <2>2, <2>3 DEF LookUpBill
<1> DEFINE q == [request[b] EXCEPT !.at = at, !.answer = answer]
<1>3. q \in BillingRow /\ q.at = at /\ q.answer = answer
  BY <1>1, <1>2 DEF BillingRow
<1>4. request' = [request EXCEPT ![b] = q]
  BY <1>1, <1>2 DEF TakeawayTypeOK
<1>5. answer \in Takeaway =>
        LET o == OrderOf[b] IN
        /\ answer = o /\ bill[o].by # Nobody
        /\ BillKey[bill[o].by] = BillKey[b] /\ Offer[bill[o].by] = Offer[b]
  BY <1>2 DEF WithKey, SameBill, Billed
<1>6. at = "looked" => answer \notin Takeaway
  BY <1>2
<1>7. UNCHANGED <<takeaway, bill, till, shelf, mixed>>
  BY DEF LookUpBill
<1> HIDE DEF q
<1> QED
  BY <1>1, <1>2, <1>3, <1>4, <1>5, <1>6, <1>7, BillingKeeps

(* LockAndNumber keeps the invariant.                                    *)
LEMMA LockAndNumberKeeps ==
    ASSUME TakeawayIInv, NEW b \in BillRequest, LockAndNumber(b)
    PROVE  TakeawayIInv'
<1> USE DEF TakeawayIInv
<1> DEFINE o == OrderOf[b]
<1>1. request[b] \in BillingRow /\ request[b].at = "looked" /\ request[b].answer \notin Takeaway
  BY DEF LockAndNumber, TakeawayTypeOK, BillingRow, BillingsHold, BillingHolds
<1>2. UNCHANGED <<takeaway, bill, till, shelf, mixed>>
  BY DEF LockAndNumber
<1>3. CASE Chargeable(o) /\ Affordable(b) /\ Advance(b, "numbered", request[b].version)
  <2> DEFINE q == [request[b] EXCEPT !.at = "numbered", !.version = request[b].version]
  <2>1. q \in BillingRow /\ q.at = "numbered" /\ q.answer = request[b].answer
    BY <1>1 DEF BillingRow
  <2>2. request' = [request EXCEPT ![b] = q]
    BY <1>1, <1>3 DEF Advance, TakeawayTypeOK
  <2>3. takeaway[o].status \in {"accepted", "served", "bill_requested"}
    BY <1>3 DEF Chargeable
  <2>4. \A c \in BillRequest : request[c].at = "numbered" =>
          BranchOf[OrderOf[c]] # BranchOf[o]
    BY DEF LockAndNumber, CounterHeld, Numbered
  <2>5. LET due == AmountOf[o] - Offer[b]
        IN due > 0 => OwedBy(bill) + due <= Allowance
    BY <1>3, OwedIsOwedBy DEF Affordable
  <2> HIDE DEF q
  <2> QED
    BY <1>1, <1>2, <2>1, <2>2, <2>3, <2>4, <2>5, BillingKeeps
<1>4. CASE Reply(b, "refused")
  <2> DEFINE q == [request[b] EXCEPT !.at = "answered", !.answer = "refused"]
  <2>1. q \in BillingRow /\ q.at = "answered" /\ q.answer = "refused"
    BY <1>1 DEF BillingRow
  <2>2. request' = [request EXCEPT ![b] = q]
    BY <1>1, <1>4 DEF Reply, TakeawayTypeOK
  <2>3. q.answer \notin Takeaway
    BY <2>1, TakeawayAssumption
  <2> HIDE DEF q
  <2> QED
    BY <1>1, <1>2, <2>1, <2>2, <2>3, BillingKeeps
<1> QED
  BY <1>3, <1>4 DEF LockAndNumber

(* A request with its locks is refused: a key is taken, or the stock is    *)
(* short.                                                                  *)
LEMMA RefusedKeeps ==
    ASSUME TakeawayIInv, NEW b \in BillRequest, request[b].at = "numbered",
           Reply(b, "refused"), UNCHANGED <<takeaway, bill, shelf, till, mixed>>
    PROVE  TakeawayIInv'
<1> USE DEF TakeawayIInv
<1> DEFINE q == [request[b] EXCEPT !.at = "answered", !.answer = "refused"]
<1>1. request[b] \in BillingRow
  BY DEF TakeawayTypeOK, BillingRow
<1>2. /\ q \in BillingRow /\ q.at = "answered" /\ q.answer = "refused"
      /\ q.answer \notin Takeaway /\ q.version = request[b].version
  BY <1>1, TakeawayAssumption DEF BillingRow
<1>3. request' = [request EXCEPT ![b] = q]
  BY <1>1 DEF Reply, TakeawayTypeOK
<1> HIDE DEF q
<1>4. \A c \in BillRequest : request'[c] = IF c = b THEN q ELSE request[c]
  BY <1>3 DEF TakeawayTypeOK
<1>5. TakeawayTypeOK'
  BY <1>2, <1>3 DEF TakeawayTypeOK, BillingRow
<1>6. \A o \in Takeaway : bill[o].by # Nobody => bill[o].by \in BillRequest
  BY DEF TakeawayTypeOK, BillRecord
<1>7. BillsHold(bill, request)'
  BY <1>2, <1>4, <1>6 DEF BillsHold
<1>8. BillingsHold(request, takeaway, bill)'
  <2> SUFFICES ASSUME NEW c \in BillRequest
               PROVE  BillingHolds(c, request', takeaway, bill)
    BY DEF BillingsHold
  <2>1. OrderOf[c] \in Takeaway
    BY TakeawayAssumption
  <2> QED
    BY <1>2, <1>4, <1>6, <2>1 DEF BillingsHold, BillingHolds
<1>9. CountersApart(request)' /\ CreditHolds(bill, request)'
  BY <1>2, <1>4 DEF CountersApart, CreditHolds
<1> QED
  BY <1>5, <1>7, <1>8, <1>9

(* The commit of a bill.                                                   *)
LEMMA CommitBillKeeps ==
    ASSUME TakeawayIInv, NEW b \in BillRequest, CommitBill(b)
    PROVE  TakeawayIInv'
<1> USE DEF TakeawayIInv
<1> DEFINE o == OrderOf[b]
           bl == [by |-> b, paid |-> Offer[b], rows |-> Offer[b], credit |-> 0]
           q == [request[b] EXCEPT !.at = "answered", !.answer = o]
           closes == Settles(o, Offer[b])
           row == [status |-> IF closes THEN "closed" ELSE "billed",
                   version |-> takeaway[o].version + IF closes THEN 2 ELSE 1]
<1>1. CASE Reply(b, "refused") /\ UNCHANGED <<takeaway, bill, shelf>>
  BY <1>1, RefusedKeeps DEF CommitBill
<1>2. CASE /\ KeyFree(b) /\ InStock
           /\ bill' = [bill EXCEPT ![o] = bl]
           /\ shelf' = shelf - 1
           /\ IF Settles(o, Offer[b]) THEN Move(o, "closed", 2)
                                      ELSE Move(o, "billed", 1)
           /\ Reply(b, o)
  <2>1. /\ o \in Takeaway /\ b # Nobody /\ AmountOf[o] \in Nat \ {0}
        /\ Offer[b] \in Nat /\ Offer[b] <= AmountOf[o] /\ Nobody \notin BillRequest
    BY TakeawayAssumption
  <2>2. request[b].at = "numbered" /\ UNCHANGED <<till, mixed>>
    BY DEF CommitBill
  <2>3. takeaway[o].status \in {"accepted", "served", "bill_requested"}
    BY <2>2 DEF BillingsHold, BillingHolds
  <2>4. bill[o].by = Nobody
    BY <2>1, <2>3 DEF OrdersHold, OrderHolds
  <2>5. bl \in BillRecord /\ bl.by = b /\ bl.paid = Offer[b] /\ bl.rows = Offer[b] /\ bl.credit = 0
    BY <2>1 DEF BillRecord
  <2>6. request[b] \in BillingRow
    BY DEF TakeawayTypeOK, BillingRow
  <2>7. q \in BillingRow /\ q.at = "answered" /\ q.answer = o /\ q.version = request[b].version
    BY <2>1, <2>6 DEF BillingRow
  <2>8. request' = [request EXCEPT ![b] = q]
    BY <1>2, <2>6 DEF Reply, TakeawayTypeOK
  <2>9. row \in TakeawayRow /\ (row.status = "closed" <=> Offer[b] >= AmountOf[o])
        /\ row.status \in {"billed", "closed"}
    BY <2>1 DEF TakeawayRow, TakeawayTypeOK, TakeawayStatus, Settles
  <2>10. takeaway' = [takeaway EXCEPT ![o] = row]
    BY <1>2 DEF Move
  <2> HIDE DEF bl, q, row
  <2>11. /\ \A c \in BillRequest : request'[c] = IF c = b THEN q ELSE request[c]
         /\ \A p \in Takeaway : bill'[p] = IF p = o THEN bl ELSE bill[p]
         /\ \A p \in Takeaway : takeaway'[p] = IF p = o THEN row ELSE takeaway[p]
    BY <1>2, <2>8, <2>10 DEF TakeawayTypeOK
  <2>12. TakeawayTypeOK'
    <3>1. shelf' \in Nat
      BY <1>2 DEF InStock, TakeawayTypeOK
    <3>2. takeaway' \in [Takeaway -> TakeawayRow]
      BY <2>9, <2>10 DEF TakeawayTypeOK, TakeawayRow
    <3>3. bill' \in [Takeaway -> BillRecord]
      BY <1>2, <2>5 DEF TakeawayTypeOK
    <3>4. request' \in [BillRequest -> BillingRow]
      BY <2>7, <2>8 DEF TakeawayTypeOK, BillingRow
    <3> QED
      BY <2>2, <3>1, <3>2, <3>3, <3>4 DEF TakeawayTypeOK, TakeawayRow, BillingRow
  <2>13. OrdersHold(takeaway, bill, mixed)'
    <3>1. OrderHolds(o, row, bl, mixed)
      BY <2>1, <2>5, <2>9 DEF OrderHolds
    <3> QED
      BY <2>2, <2>11, <3>1 DEF OrdersHold
  <2>14. \A p \in Takeaway : bill[p].by # Nobody => bill[p].by \in BillRequest \ {b}
    BY <2>2 DEF TakeawayTypeOK, BillRecord, BillsHold
  <2>15. BillsHold(bill, request)'
    <3>1. \A p \in Takeaway : bill'[p].by # Nobody =>
            OrderOf[bill'[p].by] = p /\ request'[bill'[p].by].at = "answered"
      BY <2>1, <2>5, <2>7, <2>11, <2>14 DEF BillsHold
    <3>2. \A p \in Takeaway : bill[p].by # Nobody => BillKey[bill[p].by] # BillKey[b]
      BY <1>2 DEF KeyFree, WithKey, Billed
    <3>3. \A p, r \in Takeaway :
            /\ bill'[p].by # Nobody /\ bill'[r].by # Nobody
            /\ BillKey[bill'[p].by] = BillKey[bill'[r].by]
            => p = r
      BY <2>5, <2>11, <3>2 DEF BillsHold
    <3> QED
      BY <3>1, <3>3 DEF BillsHold
  <2>16. BillingsHold(request, takeaway, bill)'
    <3> SUFFICES ASSUME NEW c \in BillRequest
                 PROVE  BillingHolds(c, request', takeaway', bill')
      BY DEF BillingsHold
    <3>1. OrderOf[c] \in Takeaway /\ BillingHolds(c, request, takeaway, bill)
      BY TakeawayAssumption DEF BillingsHold
    <3>2. CASE c = b
      BY <2>1, <2>5, <2>7, <2>11, <3>2 DEF BillingHolds
    <3>3. CASE c # b
      <4>1. request'[c] = request[c]
        BY <2>11, <3>3
      <4>2. request[c].answer \in Takeaway => OrderOf[c] # o
        BY <2>4, <3>1 DEF BillingHolds
      <4>3. request[c].at = "numbered" => OrderOf[c] # o
        BY <2>2, <3>3 DEF CountersApart
      <4> QED
        BY <2>11, <2>14, <3>1, <4>1, <4>2, <4>3 DEF BillingHolds
    <3> QED
      BY <3>2, <3>3
  <2>17. CountersApart(request)'
    BY <2>7, <2>11 DEF CountersApart
  <2>18. TillsHold(till, bill)'
    BY <2>2, <2>4, <2>11 DEF TillsHold, TakeawayTypeOK
  <2>19. CreditHolds(bill, request)'
    <3> SUFFICES ASSUME OneBranch
                 PROVE  /\ OwedBy(bill') <= Allowance
                        /\ \A c \in BillRequest : request'[c].at # "numbered"
      BY DEF CreditHolds
    <3>1. \A c \in BillRequest : request'[c].at # "numbered"
      BY <2>2, <2>7, <2>11, TakeawayAssumption DEF OneBranch, CountersApart
    <3>2. /\ OwedBy(bill) \in Int /\ OwedBy(bill') \in Int
          /\ OwedBy(bill') = OwedBy(bill) - OwesOn(o, bill[o]) + OwesOn(o, bill'[o])
      <4>1. /\ \A p \in Takeaway : bill[p].by # Nobody => OrderOf[bill[p].by] = p
            /\ \A p \in Takeaway : bill'[p].by # Nobody => OrderOf[bill'[p].by] = p
        BY <2>15 DEF BillsHold
      <4>2. bill \in [Takeaway -> BillRecord] /\ bill' \in [Takeaway -> BillRecord]
        BY <2>12 DEF TakeawayTypeOK
      <4>3. \A p \in Takeaway \ {o} : bill'[p] = bill[p]
        BY <2>11
      <4> QED
        BY <2>1, <4>1, <4>2, <4>3, OwedChanges
    <3>3. OwesOn(o, bill[o]) = 0
      BY <2>4 DEF OwesOn
    <3>4. OwesOn(o, bill'[o]) \in {0, AmountOf[o] - Offer[b]}
      BY <2>1, <2>5, <2>11 DEF OwesOn
    <3>5. OwedBy(bill) <= Allowance
          /\ (AmountOf[o] - Offer[b] > 0 => OwedBy(bill) + (AmountOf[o] - Offer[b]) <= Allowance)
      BY <2>2 DEF CreditHolds
    <3>6. Allowance \in Int
      BY TakeawayAssumption
    <3> QED
      BY <2>1, <3>1, <3>2, <3>3, <3>4, <3>5, <3>6
  <2> QED
    BY <2>12, <2>13, <2>15, <2>16, <2>17, <2>18, <2>19
<1> QED
  BY <1>1, <1>2 DEF CommitBill

(* A collection, by either route: rows and, on account, the credit grow by *)
(* the amount, and what the customer owes can only shrink.                 *)
LEMMA CollectKeeps ==
    ASSUME TakeawayIInv, NEW o \in Takeaway, NEW amount \in Nat, NEW before \in Nat,
           bill[o].by # Nobody, before <= bill[o].rows, Paid(o, amount, before),
           NEW row \in TakeawayRow, takeaway' = [takeaway EXCEPT ![o] = row],
           row.status \in {"billed", "closed"},
           row.status = "closed" => bill[o].rows + amount >= AmountOf[o],
           o \notin mixed' =>
             /\ before = bill[o].rows /\ bill[o].rows + amount <= AmountOf[o]
             /\ row.status = "closed" <=> bill[o].rows + amount = AmountOf[o],
           mixed \subseteq mixed', mixed' \subseteq mixed \cup {o},
           till' \in [Cashier -> [invoice : Takeaway, paid : Nat] \cup {Nobody}],
           \A c \in Cashier : till'[c] # Nobody => till'[c] = till[c],
           UNCHANGED <<request, shelf>>
    PROVE  TakeawayIInv'
<1> USE DEF TakeawayIInv
<1> DEFINE credit == IF o \in OnAccount THEN bill[o].credit + amount ELSE bill[o].credit
           bl == [by |-> bill[o].by, paid |-> before + amount,
                  rows |-> bill[o].rows + amount, credit |-> credit]
<1>1. bill' = [bill EXCEPT ![o] = bl]
  BY DEF Paid
<1>2. bill[o] \in BillRecord
  BY DEF TakeawayTypeOK
<1>3. /\ bl \in BillRecord /\ bl.by = bill[o].by /\ bl.paid = before + amount
      /\ bl.rows = bill[o].rows + amount /\ bl.credit = credit
  BY <1>2 DEF BillRecord
<1>4. bill[o].rows \in Nat /\ bill[o].credit \in Nat /\ AmountOf[o] \in Nat
  BY <1>2, TakeawayAssumption DEF BillRecord
<1> HIDE DEF bl
<1>5. /\ \A p \in Takeaway : bill'[p] = IF p = o THEN bl ELSE bill[p]
      /\ \A p \in Takeaway : takeaway'[p] = IF p = o THEN row ELSE takeaway[p]
  BY <1>1 DEF TakeawayTypeOK
<1>6. TakeawayTypeOK'
  <2>1. takeaway' \in [Takeaway -> TakeawayRow]
    BY DEF TakeawayTypeOK, TakeawayRow
  <2>2. bill' \in [Takeaway -> BillRecord]
    BY <1>1, <1>3 DEF TakeawayTypeOK
  <2>3. mixed' \subseteq Takeaway
    BY DEF TakeawayTypeOK
  <2> QED
    BY <2>1, <2>2, <2>3 DEF TakeawayTypeOK, TakeawayRow
<1>7. OrderHolds(o, row, bl, mixed')
  BY <1>3, <1>4 DEF OrderHolds
<1>8. OrdersHold(takeaway, bill, mixed)'
  <2> SUFFICES ASSUME NEW p \in Takeaway, p # o
               PROVE  OrderHolds(p, takeaway[p], bill[p], mixed')
    BY <1>5, <1>7 DEF OrdersHold
  <2>1. OrderHolds(p, takeaway[p], bill[p], mixed) /\ (p \in mixed' <=> p \in mixed)
    BY DEF OrdersHold
  <2> QED
    BY <2>1 DEF OrderHolds
<1>9. BillsHold(bill, request)'
  BY <1>3, <1>5 DEF BillsHold
<1>10. BillingsHold(request, takeaway, bill)'
  <2> SUFFICES ASSUME NEW b \in BillRequest
               PROVE  BillingHolds(b, request, takeaway', bill')
    BY DEF BillingsHold
  <2>1. OrderOf[b] \in Takeaway /\ BillingHolds(b, request, takeaway, bill)
    BY TakeawayAssumption DEF BillingsHold
  <2>2. takeaway[o].status \in {"billed", "closed"}
    BY DEF OrdersHold, OrderHolds
  <2>3. request[b].at = "numbered" => OrderOf[b] # o
    BY <2>1, <2>2 DEF BillingHolds
  <2> QED
    BY <1>3, <1>5, <2>1, <2>3 DEF BillingHolds
<1>11. TillsHold(till, bill)'
  <2> SUFFICES ASSUME NEW c \in Cashier, till'[c] # Nobody
               PROVE  /\ bill'[till[c].invoice].by # Nobody
                      /\ till[c].paid <= bill'[till[c].invoice].rows
    BY DEF TillsHold
  <2>1. till[c] # Nobody /\ till[c] \in [invoice : Takeaway, paid : Nat]
    BY DEF TakeawayTypeOK
  <2>2. /\ bill[till[c].invoice].by # Nobody
        /\ till[c].paid <= bill[till[c].invoice].rows
        /\ till[c].paid \in Nat /\ till[c].invoice \in Takeaway
    BY <2>1 DEF TillsHold
  <2> QED
    BY <1>3, <1>4, <1>5, <2>2
<1>12. CreditHolds(bill, request)'
  <2>1. /\ OwedBy(bill) \in Int /\ OwedBy(bill') \in Int
        /\ OwedBy(bill') = OwedBy(bill) - OwesOn(o, bill[o]) + OwesOn(o, bill'[o])
    <3>1. /\ \A p \in Takeaway : bill[p].by # Nobody => OrderOf[bill[p].by] = p
          /\ \A p \in Takeaway : bill'[p].by # Nobody => OrderOf[bill'[p].by] = p
      BY <1>9 DEF BillsHold
    <3>2. bill \in [Takeaway -> BillRecord] /\ bill' \in [Takeaway -> BillRecord]
      BY <1>6 DEF TakeawayTypeOK
    <3>3. \A p \in Takeaway \ {o} : bill'[p] = bill[p]
      BY <1>5
    <3> QED
      BY <3>1, <3>2, <3>3, OwedChanges
  <2>2. OwesOn(o, bill[o]) \in Int /\ OwesOn(o, bill'[o]) \in Int
    BY <1>6, <1>9, OwesTypes DEF BillsHold, TakeawayTypeOK
  <2>3. bill[o].by \in BillRequest /\ Offer[bill[o].by] \in Int
    BY <1>2, TakeawayAssumption DEF BillRecord
  <2>4. OwesOn(o, bill'[o]) <= OwesOn(o, bill[o])
    BY <1>3, <1>4, <1>5, <2>3 DEF OwesOn
  <2>5. OwedBy(bill') <= OwedBy(bill)
    BY <2>1, <2>2, <2>4
  <2>6. Allowance \in Int /\ \A b \in BillRequest : AmountOf[OrderOf[b]] - Offer[b] \in Int
    BY TakeawayAssumption
  <2> HIDE DEF TakeawayIInv
  <2>7. CreditHolds(bill, request)
    BY DEF TakeawayIInv
  <2> QED
    BY <2>1, <2>5, <2>6, <2>7 DEF CreditHolds
<1> QED
  BY <1>6, <1>8, <1>9, <1>10, <1>11, <1>12

(* CollectTakeaway keeps the invariant.                                  *)
LEMMA CollectTakeawayKeeps ==
    ASSUME TakeawayIInv, NEW o \in Takeaway, NEW amount \in 1..AmountOf[o],
           CollectTakeaway(o, amount)
    PROVE  TakeawayIInv'
<1> USE DEF TakeawayIInv
<1> DEFINE closes == Settles(o, bill[o].paid + amount) /\ takeaway[o].status = "billed"
           row == IF closes THEN [status |-> "closed", version |-> takeaway[o].version + 1]
                  ELSE takeaway[o]
<1>1. /\ bill[o].by # Nobody /\ bill[o] \in BillRecord /\ takeaway[o] \in TakeawayRow
      /\ AmountOf[o] \in Nat
  BY TakeawayAssumption DEF CollectTakeaway, Billed, TakeawayTypeOK, TakeawayRow
<1>2. /\ bill[o].paid \in Nat /\ bill[o].rows \in Nat /\ amount \in Nat
      /\ bill[o].paid < AmountOf[o] /\ bill[o].paid + amount <= AmountOf[o]
  BY <1>1 DEF BillRecord, CollectTakeaway, OpenBalance
<1>3. /\ OrderHolds(o, takeaway[o], bill[o], mixed)
      /\ takeaway[o].status \in {"billed", "closed"} /\ bill[o].paid <= bill[o].rows
  BY <1>1 DEF OrdersHold, OrderHolds
<1>4. row \in TakeawayRow /\ row.status \in {"billed", "closed"}
      /\ (row.status = "closed" <=> closes \/ takeaway[o].status = "closed")
  BY <1>1, <1>3 DEF TakeawayRow, TakeawayStatus
<1>5. takeaway' = [takeaway EXCEPT ![o] = row]
  BY DEF CollectTakeaway, Move, TakeawayTypeOK
<1>6. row.status = "closed" => bill[o].rows + amount >= AmountOf[o]
  BY <1>1, <1>2, <1>3, <1>4 DEF OrderHolds, Settles
<1>7. o \notin mixed =>
             /\ bill[o].paid = bill[o].rows /\ bill[o].rows + amount <= AmountOf[o]
             /\ row.status = "closed" <=> bill[o].rows + amount = AmountOf[o]
  BY <1>1, <1>2, <1>3, <1>4 DEF OrderHolds, Settles
<1>8. /\ Paid(o, amount, bill[o].paid) /\ UNCHANGED <<request, till, shelf, mixed>>
  BY DEF CollectTakeaway
<1>9. till' \in [Cashier -> [invoice : Takeaway, paid : Nat] \cup {Nobody}]
  BY <1>8 DEF TakeawayTypeOK
<1> HIDE DEF row, TakeawayIInv
<1> QED
  BY <1>1, <1>2, <1>3, <1>4, <1>5, <1>6, <1>7, <1>8, <1>9, CollectKeeps

(* CollectAtTill keeps the invariant.                                    *)
LEMMA CollectAtTillKeeps ==
    ASSUME TakeawayIInv, NEW c \in Cashier, NEW x \in Takeaway,
           NEW amount \in 1..AmountOf[x], CollectAtTill(c, amount)
    PROVE  TakeawayIInv'
<1> USE DEF TakeawayIInv
<1> DEFINE o == till[c].invoice
           row == takeaway[o]
<1>1. /\ till[c] \in [invoice : Takeaway, paid : Nat] /\ o \in Takeaway
      /\ till[c].paid \in Nat /\ amount \in Nat
  BY TakeawayAssumption DEF CollectAtTill, TakeawayTypeOK
<1>2. bill[o].by # Nobody /\ till[c].paid <= bill[o].rows
  BY DEF TillsHold, CollectAtTill
<1>3. /\ OrderHolds(o, row, bill[o], mixed) /\ row.status \in {"billed", "closed"}
      /\ row \in TakeawayRow /\ bill[o].rows \in Nat /\ AmountOf[o] \in Nat
  BY <1>1, <1>2, TakeawayAssumption DEF OrdersHold, OrderHolds, TakeawayTypeOK, TakeawayRow, BillRecord
<1>4. /\ Paid(o, amount, till[c].paid) /\ mixed' = mixed \cup {o}
      /\ till' = [till EXCEPT ![c] = Nobody]
      /\ UNCHANGED <<takeaway, request, shelf>>
  BY DEF CollectAtTill
<1>5. takeaway' = [takeaway EXCEPT ![o] = row]
  BY <1>4 DEF TakeawayTypeOK
<1>6. row.status = "closed" => bill[o].rows + amount >= AmountOf[o]
  BY <1>1, <1>3 DEF OrderHolds
<1>7. /\ till' \in [Cashier -> [invoice : Takeaway, paid : Nat] \cup {Nobody}]
      /\ \A d \in Cashier : till'[d] # Nobody => till'[d] = till[d]
  BY <1>4 DEF TakeawayTypeOK
<1>8. o \in mixed' /\ mixed \subseteq mixed' /\ mixed' \subseteq mixed \cup {o}
  BY <1>4
<1>9. UNCHANGED <<request, shelf>>
  BY <1>4
<1> HIDE DEF row, TakeawayIInv, o
<1> QED
  BY <1>1, <1>2, <1>3, <1>4, <1>5, <1>6, <1>7, <1>8, <1>9, CollectKeeps

(* ReadAtTill keeps the invariant.                                       *)
LEMMA ReadAtTillKeeps ==
    ASSUME TakeawayIInv, NEW c \in Cashier, NEW o \in Takeaway, ReadAtTill(c, o)
    PROVE  TakeawayIInv'
<1> USE DEF TakeawayIInv
<1> DEFINE t == [invoice |-> o, paid |-> bill[o].paid]
<1>1. bill[o].by # Nobody /\ bill[o].paid \in Nat /\ bill[o].paid <= bill[o].rows
  BY DEF ReadAtTill, Billed, TakeawayTypeOK, BillRecord, OrdersHold, OrderHolds
<1>2. t \in [invoice : Takeaway, paid : Nat] /\ t.invoice = o /\ t.paid = bill[o].paid
  BY <1>1
<1>3. till' = [till EXCEPT ![c] = t] /\ UNCHANGED <<takeaway, bill, request, shelf, mixed>>
  BY DEF ReadAtTill
<1> HIDE DEF t
<1>4. TakeawayTypeOK'
  BY <1>2, <1>3 DEF TakeawayTypeOK
<1>5. TillsHold(till, bill)'
  BY <1>1, <1>2, <1>3 DEF TillsHold, TakeawayTypeOK
<1> QED
  BY <1>3, <1>4, <1>5

(* Every step keeps the invariant, action by action.                     *)
LEMMA TakeawayStep == TakeawayIInv /\ [TakeawayNext]_takeawayVars => TakeawayIInv'
<1> SUFFICES ASSUME TakeawayIInv, [TakeawayNext]_takeawayVars PROVE TakeawayIInv'
  OBVIOUS
<1>1. CASE TakeawayNext
  <2>1. ASSUME NEW o \in Takeaway,
               \/ PlaceTakeaway(o)
               \/ \E target \in TakeawayStatus : MoveTakeaway(o, target)
               \/ \E amount \in 1..AmountOf[o] : CollectTakeaway(o, amount)
               \/ \E c \in Cashier : ReadAtTill(c, o)
               \/ \E c \in Cashier, amount \in 1..AmountOf[o] : CollectAtTill(c, amount)
        PROVE  TakeawayIInv'
    BY <2>1, PlaceTakeawayKeeps, MoveTakeawayKeeps, CollectTakeawayKeeps,
       ReadAtTillKeeps, CollectAtTillKeeps
  <2>2. ASSUME NEW b \in BillRequest,
               \/ QuoteTakeaway(b) \/ LookUpBill(b) \/ LockAndNumber(b)
               \/ CommitBill(b)
               \/ \E c \in BillRequest : ResendBill(b, c)
        PROVE  TakeawayIInv'
    BY <2>2, QuoteKeeps, LookUpBillKeeps, LockAndNumberKeeps, CommitBillKeeps
  <2> QED
    BY <1>1, <2>1, <2>2 DEF TakeawayNext
<1>2. CASE UNCHANGED takeawayVars
  BY <1>2 DEF takeawayVars, TakeawayIInv, TakeawayTypeOK
<1> QED
  BY <1>1, <1>2

(* Each takeaway order is billed once, its money adds up and credit      *)
(* stays within the limit, for any requests, cashiers, keys and branches *)
(* (create_takeaway_bill, record_payment).                               *)
THEOREM TakeawayBooksHold == TakeawaySpec => []TakeawayBooks
BY TakeawayStart, TakeawayStep, TakeawayImplied, PTL DEF TakeawaySpec

-----------------------------------------------------------------------------
(*************************************************************************)
(* Arithmetic of an invoice.  The totals run along with the lines, and   *)
(* each line adds to its tax rows what it adds to the totals, kind by    *)
(* kind.                                                                 *)
(*************************************************************************)

TaxKinds == {"cgst", "sgst", "igst", "cess"}

Line == [gross : Nat, discount : Nat, taxable : Nat, rate : Nat, cgst : Nat,
         sgst : Nat, igst : Nat, cess : Nat, total : Nat]

TaxRow == [line : Nat, kind : TaxKinds, amount : Nat]

(* What is true of every line: its total is its parts, and it bears either *)
(* two halves of the tax or the whole.                                     *)
LineOK(l) ==
    /\ l \in Line
    /\ l.taxable = l.gross - l.discount
    /\ l.total = l.taxable + l.cgst + l.sgst + l.igst + l.cess
    /\ l.sgst = l.cgst
    /\ \/ l.cgst = 0 /\ l.igst = WholeTax(l.taxable, l.rate)
       \/ l.igst = 0 /\ l.cgst = HalfTax(l.taxable, l.rate)

LineTotals(ls) == SumFunctionOnSet([n \in DOMAIN ls |-> ls[n].total], DOMAIN ls)

RowsOfKind(rows, kind) == {row \in rows : row.kind = kind}
RowTotals(rows, kind) ==
    SumFunctionOnSet([row \in rows |-> row.amount], RowsOfKind(rows, kind))

BillTypes ==
    /\ draft \in DraftBill \cup {NoBill}
    /\ lines \in Seq(Line) /\ \A n \in 1..Len(lines) : LineOK(lines[n])
    /\ taxRows \in SUBSET TaxRow /\ IsFiniteSet(taxRows)
    /\ \A row \in taxRows : row.line <= Len(lines)
    /\ draft = NoBill => lines = <<>> /\ taxRows = {}

(* The running totals, while the loop is under way.                        *)
RunningTotals ==
    draft # NoBill =>
      /\ draft.totals.taxable = draft.totals.subtotal - draft.totals.discount
      /\ GrandTotal(draft.totals) = LineTotals(lines)
      /\ \A kind \in TaxKinds : draft.totals[kind] = RowTotals(taxRows, kind)
      /\ draft.told \subseteq {draft.seller} =>
           ~InterState(draft) /\ draft.totals.igst = 0

BillIInv == BillTypes /\ RunningTotals

(* The two rounded halves of a tax are within a paisa of the whole.        *)
LEMMA HalvesNearWhole ==
    ASSUME NEW m \in Nat
    PROVE  2 * HalfUp(m, 20000) - HalfUp(m, 10000) \in -1..1
<1> DEFINE h == (2 * m + 20000) \div 40000
           w == (2 * m + 10000) \div 20000
<1>1. h \in Nat /\ 40000 * h <= 2 * m + 20000 /\ 2 * m + 20000 < 40000 * h + 40000
  OBVIOUS
<1>2. w \in Nat /\ 20000 * w <= 2 * m + 10000 /\ 2 * m + 10000 < 20000 * w + 20000
  OBVIOUS
<1>3. HalfUp(m, 20000) = h /\ HalfUp(m, 10000) = w
  BY DEF HalfUp
<1> HIDE DEF h, w
<1>4. 2 * h - w >= -1 /\ 2 * h - w <= 1
  BY <1>1, <1>2
<1> QED
  BY <1>1, <1>2, <1>3, <1>4

(* Rounding a natural number gives one, and nothing rounds to nothing.   *)
LEMMA RoundedAmounts ==
    ASSUME NEW m \in Nat
    PROVE  /\ HalfUp(m, 100) \in Nat /\ HalfUp(m, 10000) \in Nat
           /\ HalfUp(m, 20000) \in Nat
           /\ m = 0 => HalfUp(m, 10000) = 0 /\ HalfUp(m, 20000) = 0
BY DEF HalfUp

(* Products of natural numbers.                                          *)
LEMMA ProductsAreNat == \A a, b \in Nat : a * b \in Nat /\ a * 0 = 0
OBVIOUS

(* The two halves a line bears are within a paisa of the whole.            *)
LEMMA SplitOfLine ==
    ASSUME NEW l, LineOK(l)
    PROVE  l.igst = 0 => (l.cgst + l.sgst) - WholeTax(l.taxable, l.rate) \in -1..1
<1> DEFINE m == l.taxable * l.rate
<1>1. l.taxable \in Nat /\ l.rate \in Nat /\ l.cgst \in Nat /\ l.sgst = l.cgst
  BY DEF LineOK, Line
<1>2. m \in Nat
  BY <1>1, ProductsAreNat
<1>3. WholeTax(l.taxable, l.rate) = HalfUp(m, 10000)
      /\ HalfTax(l.taxable, l.rate) = HalfUp(m, 20000)
  BY DEF WholeTax, HalfTax
<1>4. \/ l.cgst = 0 /\ (l.igst = 0 => HalfUp(m, 10000) = 0)
      \/ l.cgst = HalfUp(m, 20000)
  BY <1>3 DEF LineOK
<1>5. 2 * HalfUp(m, 20000) - HalfUp(m, 10000) \in -1..1
      /\ HalfUp(m, 20000) \in Nat /\ HalfUp(m, 10000) \in Nat
  BY <1>2, HalvesNearWhole, RoundedAmounts
<1> HIDE DEF m
<1>6. l.igst = 0 => (l.cgst + l.sgst) - HalfUp(m, 10000) \in -1..1
  BY <1>1, <1>4, <1>5
<1> QED
  BY <1>3, <1>6

(* The invariant gives the four properties.                              *)
LEMMA BillImplies == BillIInv => BillAddsUp
<1> SUFFICES ASSUME BillIInv PROVE BillAddsUp
  OBVIOUS
<1>1. DraftAddsUp
  BY DEF BillIInv, BillTypes, RunningTotals, DraftAddsUp, GrandTotal, LineTotals,
     DraftBill, Totals
<1>2. TaxRowsAddUp
  BY DEF BillIInv, RunningTotals, TaxRowsAddUp, RowTotals, RowsOfKind, TaxKinds
<1>3. SplitTaxWithinPaisa
  <2>1. \A n \in DOMAIN lines : LineOK(lines[n])
    BY DEF BillIInv, BillTypes
  <2>2. ASSUME NEW n \in DOMAIN lines
        PROVE  lines[n].igst = 0 =>
                 (lines[n].cgst + lines[n].sgst)
                   - WholeTax(lines[n].taxable, lines[n].rate) \in -1..1
    <3>1. LineOK(lines[n])
      BY <2>1
    <3> QED
      BY <3>1, SplitOfLine
  <2> QED
    BY <2>2 DEF SplitTaxWithinPaisa
<1>4. WalkInPaysLocal
  BY DEF BillIInv, RunningTotals, WalkInPaysLocal
<1> QED
  BY <1>1, <1>2, <1>3, <1>4 DEF BillAddsUp

(* The first code that is given is one of them.                            *)
LEMMA FirstOfTwo ==
    ASSUME NEW a \in Codes, NEW b \in Codes, NEW c \in Codes
    PROVE  /\ FirstOf(<<a, b, c>>) \in {a, b, c}
           /\ FirstOf(<<a, b, c>>) \in Codes
<1> DEFINE s == <<a, b, c>>
           given == {i \in DOMAIN s : s[i] # NoCode}
           m == CHOOSE i \in given : \A j \in given : i <= j
<1>1. DOMAIN s = {1, 2, 3} /\ s[1] = a /\ s[2] = b /\ s[3] = c
  OBVIOUS
<1>2. CASE given = {}
  BY <1>1, <1>2 DEF FirstOf
<1>3. CASE given # {}
  <2>1. given \subseteq {1, 2, 3}
    BY <1>1
  <2>2. \E i \in given : \A j \in given : i <= j
    <3>1. CASE 1 \in given
      BY <2>1, <3>1
    <3>2. CASE 1 \notin given /\ 2 \in given
      BY <2>1, <3>2
    <3>3. CASE 1 \notin given /\ 2 \notin given
      BY <1>3, <2>1, <3>3
    <3> QED
      BY <3>1, <3>2, <3>3
  <2>3. m \in {1, 2, 3}
    BY <2>1, <2>2
  <2>4. FirstOf(s) = s[m]
    BY <1>3 DEF FirstOf
  <2> HIDE DEF m
  <2> QED
    BY <1>1, <2>3, <2>4
<1> QED
  BY <1>2, <1>3

(* The invariant holds at first.                                         *)
LEMMA BillStart == BillInit => BillIInv
BY FS_EmptySet DEF BillInit, BillIInv, BillTypes, RunningTotals

(* OpenDraft keeps the invariant.                                        *)
LEMMA OpenDraftKeeps ==
    ASSUME BillIInv, NEW type \in {"gst", "non_gst"},
           NEW ofBranch \in Codes, NEW ofPrimary \in Codes, NEW ofProfile \in Codes,
           NEW ofCustomer \in Codes, NEW named \in Codes,
           OpenDraft(type, ofBranch, ofPrimary, ofProfile, ofCustomer, named)
    PROVE  BillIInv'
<1> DEFINE seller == SellerCode(ofBranch, ofPrimary, ofProfile)
           place == PlaceCode(named, ofCustomer, seller)
           told == {named, ofCustomer} \ {NoCode}
           b == [type |-> type, seller |-> seller, place |-> place,
                 told |-> told, totals |-> NoTotals]
<1>1. draft = NoBill /\ draft' = b /\ lines' = lines /\ taxRows' = taxRows
  BY DEF OpenDraft
<1>2. lines = <<>> /\ taxRows = {}
  BY <1>1 DEF BillIInv, BillTypes
<1>3. seller \in Codes
  BY FirstOfTwo DEF SellerCode
<1>4. place \in {named, ofCustomer, seller} /\ place \in Codes
  BY <1>3, FirstOfTwo DEF PlaceCode
<1>5. told \in SUBSET StateCode
  BY DEF Codes
<1>6. told \subseteq {seller} => place \in {seller, NoCode}
  BY <1>4
<1>7. NoTotals \in Totals
  BY DEF NoTotals, Totals
<1> HIDE DEF seller, place, told
<1>8. /\ b \in DraftBill /\ b.told = told /\ b.seller = seller /\ b.place = place
      /\ b.totals = NoTotals
  BY <1>3, <1>4, <1>5, <1>7 DEF DraftBill
<1>9. told \subseteq {seller} => ~InterState(b)
  BY <1>6, <1>8 DEF InterState
<1> HIDE DEF b
<1>10. BillTypes'
  BY <1>1, <1>2, <1>8, BillAssumption DEF BillIInv, BillTypes
<1>11. LineTotals(<<>>) = 0
  <2>1. DOMAIN <<>> = {}
    OBVIOUS
  <2> QED
    BY <2>1, SumPicks, FS_EmptySet DEF LineTotals
<1>12. \A kind \in TaxKinds : RowTotals({}, kind) = 0
  <2>1. \A kind : RowsOfKind({}, kind) = {}
    BY DEF RowsOfKind
  <2> QED
    BY <2>1, SumPicks, FS_EmptySet DEF RowTotals
<1>13. \A kind \in TaxKinds : NoTotals[kind] = 0
  BY DEF TaxKinds, NoTotals
<1>14. GrandTotal(NoTotals) = 0 /\ NoTotals.taxable = NoTotals.subtotal - NoTotals.discount
       /\ NoTotals.igst = 0
  BY DEF GrandTotal, NoTotals
<1> HIDE DEF NoTotals
<1>15. RunningTotals'
  BY <1>1, <1>2, <1>8, <1>9, <1>11, <1>12, <1>13, <1>14 DEF RunningTotals
<1> QED
  BY <1>10, <1>15 DEF BillIInv

(* calculate_line gives a line that is as every line is.                   *)
LEMMA LineShape ==
    ASSUME NEW b \in DraftBill, NEW price \in Nat, NEW quantity \in Nat, NEW discount \in Nat,
           NEW gst \in Nat, NEW cess \in Nat,
           discount <= CalculateLine(b, price, quantity, discount, gst, cess).gross
    PROVE  LET l == CalculateLine(b, price, quantity, discount, gst, cess)
           IN /\ LineOK(l)
              /\ ~InterState(b) => l.igst = 0
              /\ b.type # "gst" => l.cgst = 0 /\ l.igst = 0 /\ l.cess = 0
<1> DEFINE gross == HalfUp(price * quantity, 100)
           taxable == gross - discount
           rate == IF b.type = "gst" THEN gst ELSE 0
           igst == IF InterState(b) THEN WholeTax(taxable, rate) ELSE 0
           half == IF InterState(b) THEN 0 ELSE HalfTax(taxable, rate)
           extra == IF b.type = "gst" THEN WholeTax(taxable, cess) ELSE 0
           total == taxable + 2 * half + igst + extra
           l == [gross |-> gross, discount |-> discount, taxable |-> taxable,
                 rate |-> rate, cgst |-> half, sgst |-> half, igst |-> igst,
                 cess |-> extra, total |-> total]
<1>1. l = CalculateLine(b, price, quantity, discount, gst, cess)
  BY DEF CalculateLine
<1>2. l.gross = gross
  OBVIOUS
<1>3. gross \in Nat
  BY ProductsAreNat, RoundedAmounts
<1>4. taxable \in Nat
  <2>1. discount <= gross
    BY <1>1, <1>2
  <2> HIDE DEF gross
  <2> QED
    BY <1>3, <2>1
<1> HIDE DEF gross
<1>5. rate \in Nat /\ (b.type # "gst" => rate = 0)
  OBVIOUS
<1> HIDE DEF rate
<1> HIDE DEF taxable
<1>6. /\ WholeTax(taxable, rate) \in Nat /\ HalfTax(taxable, rate) \in Nat
      /\ WholeTax(taxable, cess) \in Nat
      /\ rate = 0 => WholeTax(taxable, rate) = 0 /\ HalfTax(taxable, rate) = 0
  <2>1. taxable * rate \in Nat /\ taxable * cess \in Nat /\ taxable * 0 = 0
    BY <1>4, <1>5, ProductsAreNat
  <2> QED
    BY <2>1, RoundedAmounts DEF WholeTax, HalfTax
<1>7. /\ igst \in Nat /\ half \in Nat /\ extra \in Nat
      /\ ~InterState(b) => igst = 0
      /\ b.type # "gst" => half = 0 /\ igst = 0 /\ extra = 0
      /\ \/ half = 0 /\ igst = WholeTax(taxable, rate)
         \/ igst = 0 /\ half = HalfTax(taxable, rate)
  BY <1>5, <1>6
<1>8. taxable = gross - discount
  BY DEF taxable
<1> HIDE DEF igst, half, extra
<1>9. total \in Nat /\ total = taxable + half + half + igst + extra
  BY <1>4, <1>7
<1> HIDE DEF total
<1>10. /\ l \in Line /\ l.gross = gross /\ l.discount = discount /\ l.taxable = taxable
       /\ l.rate = rate /\ l.cgst = half /\ l.sgst = half /\ l.igst = igst
       /\ l.cess = extra /\ l.total = total
  BY <1>3, <1>4, <1>5, <1>7, <1>9 DEF Line
<1> HIDE DEF l
<1> QED
  BY <1>1, <1>7, <1>8, <1>9, <1>10 DEF LineOK

(* The rows of a line: one of a kind at most, for what the line bears of   *)
(* that kind, and none only if it bears nothing.                           *)
LEMMA NewTaxRows ==
    ASSUME NEW b \in DraftBill, NEW n \in Nat, NEW l, LineOK(l), NEW cess \in Nat,
           b.type # "gst" => l.cgst = 0 /\ l.igst = 0 /\ l.cess = 0
    PROVE  LET R == ItemTaxRows(b, n, l, cess)
           IN /\ R \in SUBSET TaxRow /\ IsFiniteSet(R)
              /\ \A row \in R : row.line = n
              /\ \A kind \in TaxKinds :
                   \/ l[kind] = 0 /\ RowsOfKind(R, kind) = {}
                   \/ \E row \in R : RowsOfKind(R, kind) = {row} /\ row.amount = l[kind]
<1> DEFINE R == ItemTaxRows(b, n, l, cess)
           row(kind, amount) == [line |-> n, kind |-> kind, amount |-> amount]
<1>1. /\ l.cgst \in Nat /\ l.sgst = l.cgst /\ l.igst \in Nat /\ l.cess \in Nat
      /\ l.cgst = 0 \/ l.igst = 0
  BY DEF LineOK, Line
<1>2. \A kind \in TaxKinds, amount \in Nat :
        /\ row(kind, amount) \in TaxRow /\ row(kind, amount).line = n
        /\ row(kind, amount).kind = kind /\ row(kind, amount).amount = amount
  BY DEF TaxRow
<1>3. \/ R = {} /\ l.cgst = 0 /\ l.igst = 0 /\ l.cess = 0
      \/ R = {row("igst", l.igst)} /\ l.cgst = 0 /\ l.cess = 0
      \/ R = {row("igst", l.igst), row("cess", l.cess)} /\ l.cgst = 0
      \/ R = {row("cgst", l.cgst), row("sgst", l.sgst)} /\ l.igst = 0 /\ l.cess = 0
      \/ R = {row("cgst", l.cgst), row("sgst", l.sgst), row("cess", l.cess)} /\ l.igst = 0
  <2>1. CASE b.type # "gst"
    BY <2>1 DEF ItemTaxRows
  <2>2. CASE b.type = "gst"
    <3> DEFINE C == CessRow(n, l, cess)
               M == IF l.igst > 0 \/ (l.cgst = 0 /\ l.sgst = 0)
                    THEN {row("igst", l.igst)}
                    ELSE {row("cgst", l.cgst), row("sgst", l.sgst)}
    <3>1. R = C \cup M
      BY <2>2 DEF ItemTaxRows
    <3>2. (C = {} /\ l.cess = 0) \/ C = {row("cess", l.cess)}
      BY <1>1 DEF CessRow
    <3>3. \/ M = {row("igst", l.igst)} /\ l.cgst = 0
          \/ M = {row("cgst", l.cgst), row("sgst", l.sgst)} /\ l.igst = 0
      BY <1>1
    <3> HIDE DEF C, M, R, row
    <3> QED
      BY <3>1, <3>2, <3>3
  <2> QED
    BY <2>1, <2>2
<1> HIDE DEF R, row
<1>4. "cgst" \in TaxKinds /\ "sgst" \in TaxKinds /\ "igst" \in TaxKinds /\ "cess" \in TaxKinds
  BY DEF TaxKinds
<1>5. R \in SUBSET TaxRow /\ \A x \in R : x.line = n
  BY <1>1, <1>2, <1>3, <1>4
<1>6. IsFiniteSet(R)
  <2>1. ASSUME NEW x, NEW y, NEW z
        PROVE  IsFiniteSet({x}) /\ IsFiniteSet({x, y}) /\ IsFiniteSet({x, y, z})
    <3>1. IsFiniteSet({x})
      BY FS_Singleton
    <3>2. IsFiniteSet({x} \cup {y})
      BY <3>1, FS_AddElement
    <3>3. {x} \cup {y} = {x, y}
      OBVIOUS
    <3>4. IsFiniteSet({x, y} \cup {z})
      BY <3>2, <3>3, FS_AddElement
    <3>5. {x, y} \cup {z} = {x, y, z}
      OBVIOUS
    <3> QED
      BY <3>1, <3>2, <3>3, <3>4, <3>5
  <2>2. IsFiniteSet({})
    BY FS_EmptySet
  <2>3. CASE R = {}
    BY <2>2, <2>3
  <2>4. CASE R = {row("igst", l.igst)}
    BY <2>1, <2>4
  <2>5. CASE R = {row("igst", l.igst), row("cess", l.cess)}
    BY <2>1, <2>5
  <2>6. CASE R = {row("cgst", l.cgst), row("sgst", l.sgst)}
    BY <2>1, <2>6
  <2>7. CASE R = {row("cgst", l.cgst), row("sgst", l.sgst), row("cess", l.cess)}
    BY <2>1, <2>7
  <2> QED
    BY <1>3, <2>3, <2>4, <2>5, <2>6, <2>7
<1> DEFINE Told(kind, amount) ==
             \/ amount = 0 /\ RowsOfKind(R, kind) = {}
             \/ \E x \in R : RowsOfKind(R, kind) = {x} /\ x.amount = amount
<1>7. Told("cgst", l.cgst)
  BY <1>1, <1>2, <1>3, <1>4 DEF RowsOfKind
<1>8. Told("sgst", l.sgst)
  BY <1>1, <1>2, <1>3, <1>4 DEF RowsOfKind
<1>9. Told("igst", l.igst)
  BY <1>1, <1>2, <1>3, <1>4 DEF RowsOfKind
<1>10. Told("cess", l.cess)
  BY <1>1, <1>2, <1>3, <1>4 DEF RowsOfKind
<1>11. \A kind \in TaxKinds : Told(kind, l[kind])
  BY <1>7, <1>8, <1>9, <1>10 DEF TaxKinds
<1> QED
  BY <1>5, <1>6, <1>11 DEF R

(* A sum with one element more.                                            *)
LEMMA SumExtended ==
    ASSUME NEW f, NEW g, NEW S, IsFiniteSet(S), NEW x, x \notin S,
           \A y \in S : f[y] \in Int /\ g[y] = f[y], g[x] \in Int
    PROVE  SumFunctionOnSet(g, S \cup {x}) = SumFunctionOnSet(f, S) + g[x]
<1> DEFINE T == S \cup {x}
<1>1. IsFiniteSet(T) /\ T \ {x} = S /\ x \in T /\ \A y \in T : g[y] \in Int
  BY FS_AddElement
<1>2. SumFunctionOnSet(g, T) = g[x] + SumFunctionOnSet(g, S)
  BY <1>1, SumWithout
<1>3. SumFunctionOnSet(f, S) = SumFunctionOnSet(g, S)
  BY SumCongruence
<1>4. SumFunctionOnSet(f, S) \in Int
  BY SumWithout
<1> QED
  BY <1>2, <1>3, <1>4

(* The lines add up to one line more.                                      *)
LEMMA LineAdded ==
    ASSUME NEW ls \in Seq(Line), NEW l \in Line
    PROVE  /\ LineTotals(Append(ls, l)) = LineTotals(ls) + l.total
           /\ LineTotals(ls) \in Int
<1> DEFINE n == Len(ls)
           ms == Append(ls, l)
           f == [i \in DOMAIN ls |-> ls[i].total]
           g == [i \in DOMAIN ms |-> ms[i].total]
<1>1. /\ n \in Nat /\ DOMAIN ls = 1..n /\ ms \in Seq(Line) /\ Len(ms) = n + 1
      /\ ms[n + 1] = l /\ \A i \in 1..n : ms[i] = ls[i] /\ ls[i] \in Line
  OBVIOUS
<1>2. DOMAIN ms = 1..(n + 1)
  BY <1>1
<1> HIDE DEF ms
<1>3. DOMAIN ms = DOMAIN ls \cup {n + 1} /\ n + 1 \notin DOMAIN ls
  BY <1>1, <1>2
<1>4. \A i \in DOMAIN ls : f[i] \in Int /\ g[i] = f[i]
  <2> SUFFICES ASSUME NEW i \in DOMAIN ls PROVE f[i] \in Int /\ g[i] = f[i]
    OBVIOUS
  <2>1. i \in 1..n /\ ls[i] \in Line /\ ms[i] = ls[i]
    BY <1>1
  <2>2. f[i] = ls[i].total /\ g[i] = ms[i].total
    BY <1>3
  <2>3. ls[i].total \in Nat
    BY <2>1 DEF Line
  <2> HIDE DEF f, g, n
  <2> QED
    BY <2>1, <2>2, <2>3
<1>5. g[n + 1] = l.total /\ l.total \in Int
  BY <1>1, <1>3 DEF Line
<1>6. IsFiniteSet(DOMAIN ls)
  BY <1>1, FS_Interval
<1>7. LineTotals(ls) = SumFunctionOnSet(f, DOMAIN ls)
      /\ LineTotals(ms) = SumFunctionOnSet(g, DOMAIN ls \cup {n + 1})
  BY <1>3 DEF LineTotals
<1> HIDE DEF f, g, n
<1>8. SumFunctionOnSet(g, DOMAIN ls \cup {n + 1}) = SumFunctionOnSet(f, DOMAIN ls) + l.total
  BY <1>3, <1>4, <1>5, <1>6, SumExtended
<1>9. SumFunctionOnSet(f, DOMAIN ls) \in Int
  BY <1>4, <1>6, SumWithout
<1> QED
  BY <1>7, <1>8, <1>9 DEF ms

(* The rows of a kind add up to the amount of a line more.                 *)
LEMMA RowsAdded ==
    ASSUME NEW rows \in SUBSET TaxRow, NEW R \in SUBSET TaxRow, IsFiniteSet(rows),
           rows \cap R = {}, NEW kind \in TaxKinds, NEW amount \in Nat,
           \/ amount = 0 /\ RowsOfKind(R, kind) = {}
           \/ \E row \in R : RowsOfKind(R, kind) = {row} /\ row.amount = amount
    PROVE  /\ RowTotals(rows \cup R, kind) = RowTotals(rows, kind) + amount
           /\ RowTotals(rows, kind) \in Int
<1> DEFINE S == RowsOfKind(rows, kind)
           T == RowsOfKind(rows \cup R, kind)
           f == [row \in rows |-> row.amount]
           g == [row \in rows \cup R |-> row.amount]
<1>1. T = S \cup RowsOfKind(R, kind) /\ S \subseteq rows
  BY DEF RowsOfKind
<1>2. IsFiniteSet(S)
  BY <1>1, FS_Subset
<1>3. \A row \in S : f[row] \in Int /\ g[row] = f[row]
  BY <1>1 DEF TaxRow
<1>4. RowTotals(rows, kind) = SumFunctionOnSet(f, S)
      /\ RowTotals(rows \cup R, kind) = SumFunctionOnSet(g, T)
  BY DEF RowTotals
<1>5. SumFunctionOnSet(f, S) \in Int
  BY <1>2, <1>3, SumWithout
<1>6. CASE amount = 0 /\ RowsOfKind(R, kind) = {}
  <2>1. T = S
    BY <1>1, <1>6
  <2> HIDE DEF f, g, S, T
  <2>2. SumFunctionOnSet(f, S) = SumFunctionOnSet(g, S)
    BY <1>2, <1>3, SumCongruence
  <2> QED
    BY <1>4, <1>5, <1>6, <2>1, <2>2
<1>7. CASE \E row \in R : RowsOfKind(R, kind) = {row} /\ row.amount = amount
  <2>1. PICK row \in R : RowsOfKind(R, kind) = {row} /\ row.amount = amount
    BY <1>7
  <2>2. T = S \cup {row} /\ row \notin S /\ g[row] = amount
    BY <1>1, <2>1
  <2> HIDE DEF f, g, S, T
  <2>3. SumFunctionOnSet(g, S \cup {row}) = SumFunctionOnSet(f, S) + g[row]
    BY <1>2, <1>3, <2>2, SumExtended
  <2> QED
    BY <1>4, <1>5, <2>2, <2>3
<1> QED
  BY <1>6, <1>7

(* AddLine keeps the invariant.                                          *)
LEMMA AddLineKeeps ==
    ASSUME BillIInv, NEW price \in Nat, NEW quantity \in Nat, NEW discount \in Nat,
           NEW gst \in Nat, NEW cess \in Nat,
           AddLine(price, quantity, discount, gst, cess)
    PROVE  BillIInv'
<1> DEFINE l == CalculateLine(draft, price, quantity, discount, gst, cess)
           n == Len(lines) + 1
           R == ItemTaxRows(draft, n, l, cess)
           t == draft.totals
           u == Accumulate(t, l)
<1>1. /\ draft # NoBill /\ discount <= l.gross
      /\ draft' = [draft EXCEPT !.totals = u]
      /\ lines' = Append(lines, l) /\ taxRows' = taxRows \cup R
  BY DEF AddLine
<1>2. draft \in DraftBill
  BY <1>1 DEF BillIInv, BillTypes
<1>3. /\ LineOK(l) /\ (~InterState(draft) => l.igst = 0)
      /\ draft.type # "gst" => l.cgst = 0 /\ l.igst = 0 /\ l.cess = 0
  BY <1>1, <1>2, LineShape
<1>4. n \in Nat /\ Len(lines) \in Nat
  BY DEF BillIInv, BillTypes
<1> HIDE DEF l, n
<1>5. /\ R \in SUBSET TaxRow /\ IsFiniteSet(R) /\ \A row \in R : row.line = n
      /\ \A kind \in TaxKinds :
           \/ l[kind] = 0 /\ RowsOfKind(R, kind) = {}
           \/ \E row \in R : RowsOfKind(R, kind) = {row} /\ row.amount = l[kind]
  BY <1>2, <1>3, <1>4, NewTaxRows
<1> HIDE DEF R
<1>6. /\ t \in Totals /\ l \in Line
      /\ t.taxable = t.subtotal - t.discount
      /\ GrandTotal(t) = LineTotals(lines)
      /\ \A kind \in TaxKinds : t[kind] = RowTotals(taxRows, kind)
      /\ draft.told \subseteq {draft.seller} => ~InterState(draft) /\ t.igst = 0
  BY <1>1, <1>2, <1>3 DEF BillIInv, RunningTotals, DraftBill, LineOK
<1> HIDE DEF t
<1>7. /\ u \in Totals /\ u.taxable = u.subtotal - u.discount
      /\ GrandTotal(u) = GrandTotal(t) + l.total
      /\ u.igst = t.igst + l.igst
  <2>1. /\ l.gross \in Nat /\ l.discount \in Nat /\ l.taxable \in Nat /\ l.cgst \in Nat
        /\ l.sgst \in Nat /\ l.igst \in Nat /\ l.cess \in Nat
        /\ l.taxable = l.gross - l.discount
        /\ l.total = l.taxable + l.cgst + l.sgst + l.igst + l.cess
    BY <1>3 DEF LineOK, Line
  <2>2. /\ t.subtotal \in Int /\ t.discount \in Int /\ t.taxable \in Int /\ t.cgst \in Int
        /\ t.sgst \in Int /\ t.igst \in Int /\ t.cess \in Int
    BY <1>6 DEF Totals
  <2>3. /\ u.subtotal = t.subtotal + l.gross /\ u.discount = t.discount + l.discount
        /\ u.taxable = t.taxable + l.taxable /\ u.cgst = t.cgst + l.cgst
        /\ u.sgst = t.sgst + l.sgst /\ u.igst = t.igst + l.igst
        /\ u.cess = t.cess + l.cess
    BY DEF Accumulate
  <2>4. u \in Totals
    BY <2>1, <2>2 DEF Accumulate, Totals
  <2> HIDE DEF u
  <2> QED
    BY <1>6, <2>1, <2>2, <2>3, <2>4 DEF GrandTotal
<1>8. \A kind \in TaxKinds : /\ u[kind] = t[kind] + l[kind]
                             /\ l[kind] \in Nat
  BY <1>6 DEF Accumulate, TaxKinds, Line
<1> HIDE DEF u
<1>9. /\ draft' \in DraftBill /\ draft'.totals = u /\ draft'.told = draft.told
      /\ draft'.seller = draft.seller /\ draft'.place = draft.place
  BY <1>1, <1>2, <1>7 DEF DraftBill
<1>10. InterState(draft)' = InterState(draft)
  BY <1>9 DEF InterState
<1>11. lines \in Seq(Line) /\ \A i \in 1..Len(lines) : LineOK(lines[i])
  BY DEF BillIInv, BillTypes
<1>12. /\ lines' \in Seq(Line) /\ Len(lines') = n
       /\ \A i \in 1..Len(lines') : LineOK(lines'[i])
  <2>1. /\ lines' \in Seq(Line) /\ Len(lines') = n /\ lines'[n] = l
        /\ \A i \in 1..Len(lines) : lines'[i] = lines[i]
    BY <1>1, <1>6, <1>11 DEF n
  <2>2. \A i \in 1..n : i \in 1..Len(lines) \/ i = n
    BY <1>4 DEF n
  <2> QED
    BY <1>3, <1>11, <2>1, <2>2
<1>13. /\ taxRows \in SUBSET TaxRow /\ IsFiniteSet(taxRows)
       /\ \A row \in taxRows : row.line <= Len(lines)
  BY DEF BillIInv, BillTypes
<1>14. taxRows \cap R = {}
  BY <1>4, <1>5, <1>13 DEF n
<1>15. taxRows' \in SUBSET TaxRow /\ IsFiniteSet(taxRows')
       /\ \A row \in taxRows' : row.line <= n
  <2>1. IsFiniteSet(taxRows \cup R)
    BY <1>5, <1>13, FS_Union
  <2>2. \A row \in taxRows : row.line <= n
    BY <1>4, <1>13 DEF n, TaxRow
  <2>3. \A row \in R : row.line <= n
    BY <1>4, <1>5
  <2> QED
    BY <1>1, <1>5, <1>13, <2>1, <2>2, <2>3
<1>16. BillTypes'
  BY <1>9, <1>12, <1>15, BillAssumption DEF BillTypes
<1>17. GrandTotal(u) = LineTotals(lines')
  BY <1>1, <1>6, <1>7, <1>11, LineAdded
<1>18. ASSUME NEW kind \in TaxKinds PROVE u[kind] = RowTotals(taxRows', kind)
  <2>1. /\ u[kind] = t[kind] + l[kind] /\ l[kind] \in Nat
        /\ t[kind] = RowTotals(taxRows, kind)
    BY <1>6, <1>8
  <2>2. \/ l[kind] = 0 /\ RowsOfKind(R, kind) = {}
        \/ \E row \in R : RowsOfKind(R, kind) = {row} /\ row.amount = l[kind]
    BY <1>5
  <2>3. RowTotals(taxRows \cup R, kind) = RowTotals(taxRows, kind) + l[kind]
    <3> DEFINE amount == l[kind]
    <3>1. /\ amount \in Nat
          /\ \/ amount = 0 /\ RowsOfKind(R, kind) = {}
             \/ \E row \in R : RowsOfKind(R, kind) = {row} /\ row.amount = amount
      BY <2>1, <2>2
    <3> HIDE DEF amount
    <3>2. RowTotals(taxRows \cup R, kind) = RowTotals(taxRows, kind) + amount
      <4>1. taxRows \in SUBSET TaxRow /\ IsFiniteSet(taxRows) /\ R \in SUBSET TaxRow
        BY <1>5, <1>13
      <4> QED
        BY <1>14, <3>1, <4>1, RowsAdded
    <3> QED
      BY <3>2 DEF amount
  <2> QED
    BY <1>1, <2>1, <2>3
<1>19. draft'.told \subseteq {draft'.seller} => ~InterState(draft)' /\ u.igst = 0
  BY <1>3, <1>6, <1>7, <1>9, <1>10
<1>20. RunningTotals'
  BY <1>7, <1>9, <1>17, <1>18, <1>19 DEF RunningTotals
<1> QED
  BY <1>16, <1>20 DEF BillIInv

(* Every step keeps the invariant, action by action.                     *)
LEMMA BillStep == BillIInv /\ [BillNext]_billVars => BillIInv'
<1> SUFFICES ASSUME BillIInv, [BillNext]_billVars PROVE BillIInv'
  OBVIOUS
<1>1. CASE BillNext
  <2>1. UnitPrice \subseteq Nat /\ LineQuantity \subseteq Nat /\ LineDiscount \subseteq Nat
        /\ GstRate \subseteq Nat /\ CessRate \subseteq Nat
    BY BillAssumption
  <2> QED
    BY <1>1, <2>1, OpenDraftKeeps, AddLineKeeps DEF BillNext
<1>2. CASE UNCHANGED billVars
  BY <1>2 DEF billVars, BillIInv, BillTypes, RunningTotals, InterState
<1> QED
  BY <1>1, <1>2

(* A bill adds up whatever its prices, quantities, discounts and rates:  *)
(* its totals, its tax rows, and its tax on either side of a state       *)
(* border (calculate_line, add_item_tax_rows, quote_invoice).            *)
THEOREM BillAlwaysAddsUp == BillSpec => []BillAddsUp
<1>1. BillSpec => []BillIInv
  BY BillStart, BillStep, PTL DEF BillSpec
<1> QED
  BY <1>1, BillImplies, PTL

-----------------------------------------------------------------------------
(*************************************************************************)
(* The product catalog.  An edit that nothing has overlapped is still    *)
(* what the tables call for: the rows of its product are the ones it     *)
(* looked at, so its one change to them leaves the product with its code *)
(* and no other.                                                         *)
(*************************************************************************)

CodeText == Barcode \cup {NoBarcode}
ProductRow == [code : CodeText, cost : Nat, price : Nat]
CodeRow == [of : Article \cup {NoArticle}, code : CodeText]

(* The shape of the two tables and of the price history.                   *)
CatalogTypeOK ==
    /\ article \in [Article -> ProductRow \cup {NoArticle}]
    /\ codeRows \in Seq(CodeRow)
    /\ trail \in [Article -> [cost : Nat, price : Nat] \cup {NoArticle}]
    /\ editing = [e \in Editing |-> editing[e]]
    /\ overlapped \subseteq Article

(* A row without a product has no code, one with a product has a code and  *)
(* the product exists.                                                     *)
RowsOwned(articles, rows) ==
    \A r \in DOMAIN rows :
      /\ rows[r].of = NoArticle => rows[r].code = NoBarcode
      /\ rows[r].of # NoArticle =>
           rows[r].code # NoBarcode /\ articles[rows[r].of] # NoArticle

(* What a change writes has the column's type.                             *)
ChangeOK(change) ==
    /\ DOMAIN change \subseteq {"code", "cost", "price"}
    /\ "code" \in DOMAIN change => change["code"] \in CodeText
    /\ "cost" \in DOMAIN change => change["cost"] \in Nat
    /\ "price" \in DOMAIN change => change["price"] \in Nat

(* What a request under way will write, whatever else has been committed.  *)
EditHolds(edit, articles, rows) ==
    /\ edit.of \in Article /\ edit.code \in CodeText /\ ChangeOK(edit.change)
    /\ edit.rows.kind \in {"none", "insert", "update", "delete"}
    /\ edit.rows.kind \in {"update", "delete"} =>
         /\ edit.rows.row \in DOMAIN rows
         /\ rows[edit.rows.row].of \in {edit.of, NoArticle}
    /\ edit.rows.kind \in {"insert", "update"} => edit.code # NoBarcode
    /\ edit.rows.kind = "delete" => edit.code = NoBarcode
    /\ articles[edit.of] = NoArticle =>
         edit.change \in ProductRow /\ edit.change.code = edit.code

(* The rows of product a among rows.                                       *)
RowsIn(rows, a) == {r \in DOMAIN rows : rows[r].of = a}

(* An edit nothing has overlapped is still what the tables call for: it    *)
(* leaves its code in the column, and in the one row of its product.       *)
EditFresh(edit, articles, rows) ==
    LET own == RowsIn(rows, edit.of)
    IN
    /\ IF "code" \in DOMAIN edit.change
       THEN edit.change["code"] = edit.code
       ELSE articles[edit.of] # NoArticle /\ articles[edit.of].code = edit.code
    /\ edit.rows.kind = "insert" => own = {}
    /\ edit.rows.kind \in {"update", "delete"} => edit.rows.row \in own
    /\ edit.rows.kind = "none" =>
         \/ own = {} /\ edit.code = NoBarcode
         \/ \E r \in own : rows[r].code = edit.code

EditsOK(edits, articles, rows, crossed) ==
    \A e \in Editing : edits[e] # NoEdit =>
      /\ EditHolds(edits[e], articles, rows)
      /\ edits[e].of \notin crossed => EditFresh(edits[e], articles, rows)

(* Edits of a product nothing has overlapped are alone.                    *)
EditsAlone(edits, crossed) ==
    \A d, e \in Editing :
      edits[d] # NoEdit /\ edits[e] # NoEdit /\ edits[d].of = edits[e].of
        => d = e \/ edits[e].of \in crossed

(* RowsMatchColumn for one product, told of the tables as arguments.       *)
Matches(a, articles, rows) ==
    IF articles[a] = NoArticle THEN RowsIn(rows, a) = {}
    ELSE {rows[r].code : r \in RowsIn(rows, a)} = {articles[a].code} \ {NoBarcode}

Matched(articles, rows, crossed) ==
    \A a \in Article : a \notin crossed => Matches(a, articles, rows)

CatalogIInv ==
    /\ CatalogTypeOK
    /\ UniqueCodes(article, codeRows)
    /\ RowsOwned(article, codeRows)
    /\ EditsOK(editing, article, codeRows, overlapped)
    /\ EditsAlone(editing, overlapped)
    /\ \A a \in overlapped : article[a] # NoArticle
    /\ Matched(article, codeRows, overlapped)
    /\ TrailTellsPrices

(* The invariant gives the catalog's properties.                         *)
LEMMA CatalogImplied == CatalogIInv => CatalogAgrees
<1> SUFFICES ASSUME CatalogIInv PROVE CatalogAgrees
  OBVIOUS
<1> USE DEF CatalogIInv
<1>1. RowsMatchColumn
  BY DEF RowsMatchColumn, Matched, Matches, RowsIn, RowsOf
<1>2. CodeNamesOneProduct
  <2> SUFFICES ASSUME NEW a \in Article, NEW r \in DOMAIN codeRows,
                      article[a] # NoArticle, article[a].code # NoBarcode,
                      codeRows[r].code = article[a].code,
                      codeRows[r].of # a
               PROVE  {a, codeRows[r].of} \subseteq overlapped
    BY DEF CodeNamesOneProduct
  <2> DEFINE b == codeRows[r].of
  <2>1. b \in Article /\ article[b] # NoArticle
    <3>1. codeRows[r] \in CodeRow
      BY DEF CatalogTypeOK
    <3>2. b # NoArticle /\ article[b] # NoArticle
      BY DEF RowsOwned
    <3> QED
      BY <3>1, <3>2 DEF CodeRow
  <2>2. a \in overlapped
    <3> SUFFICES ASSUME a \notin overlapped PROVE FALSE
      OBVIOUS
    <3>1. article[a].code \in {codeRows[q].code : q \in RowsOf(a)}
      BY <1>1 DEF RowsMatchColumn
    <3>2. PICK q \in DOMAIN codeRows : codeRows[q].of = a
                                    /\ codeRows[q].code = article[a].code
      BY <3>1 DEF RowsOf
    <3> QED
      BY <3>2 DEF UniqueCodes
  <2>3. b \in overlapped
    <3> SUFFICES ASSUME b \notin overlapped PROVE FALSE
      OBVIOUS
    <3>1. codeRows[r].code \in {codeRows[q].code : q \in RowsOf(b)}
      BY DEF RowsOf
    <3>2. codeRows[r].code = article[b].code
      BY <1>1, <2>1, <3>1 DEF RowsMatchColumn
    <3> QED
      BY <2>1, <3>2 DEF UniqueCodes
  <2> QED
    BY <2>2, <2>3
<1> QED
  BY <1>1, <1>2 DEF CatalogAgrees

(* The invariant holds at first.                                         *)
LEMMA CatalogStart == CatalogInit => CatalogIInv
<1> SUFFICES ASSUME CatalogInit PROVE CatalogIInv
  OBVIOUS
<1> USE DEF CatalogInit
<1>1. CatalogTypeOK
  BY DEF CatalogTypeOK
<1>2. UniqueCodes(article, codeRows) /\ RowsOwned(article, codeRows)
  BY DEF UniqueCodes, RowsOwned
<1>3. EditsOK(editing, article, codeRows, overlapped) /\ EditsAlone(editing, overlapped)
  BY DEF EditsOK, EditsAlone
<1>4. Matched(article, codeRows, overlapped)
  BY DEF Matched, Matches, RowsIn
<1>5. TrailTellsPrices
  BY DEF TrailTellsPrices
<1> QED
  BY <1>1, <1>2, <1>3, <1>4, <1>5 DEF CatalogIInv

(* What is left when a request ends without writing.                       *)
LEMMA GiveUpArticleKeeps ==
    ASSUME CatalogIInv, NEW e \in Editing, GiveUpArticle(e)
    PROVE  CatalogIInv'
<1> USE DEF CatalogIInv, GiveUpArticle
<1>1. CatalogTypeOK'
  BY DEF CatalogTypeOK
<1>2. UniqueCodes(article, codeRows)' /\ RowsOwned(article, codeRows)'
  BY DEF UniqueCodes, RowsOwned
<1>3. EditsOK(editing, article, codeRows, overlapped)'
  BY DEF EditsOK, CatalogTypeOK
<1>4. EditsAlone(editing, overlapped)'
  BY DEF EditsAlone, CatalogTypeOK
<1>5. Matched(article, codeRows, overlapped)' /\ TrailTellsPrices'
  BY DEF TrailTellsPrices
<1> QED
  BY <1>1, <1>2, <1>3, <1>4, <1>5

(* BeginCreate keeps the invariant.                                      *)
LEMMA BeginCreateKeeps ==
    ASSUME CatalogIInv, NEW e \in Editing, NEW a \in Article, NEW new \in Form,
           BeginCreate(e, a, new)
    PROVE  CatalogIInv'
<1> DEFINE edit == [of |-> a, change |-> new, code |-> new.code,
                    rows |-> RowEdit(a, 0, new.code)]
<1> USE DEF CatalogIInv
<1>1. /\ editing' = [editing EXCEPT ![e] = edit]
      /\ UNCHANGED <<article, codeRows, trail, overlapped>>
      /\ article[a] = NoArticle
      /\ \A d \in Editing : editing[d] # NoEdit => editing[d].of # a
  BY DEF BeginCreate
<1>2. new \in ProductRow /\ DOMAIN new = {"code", "cost", "price"}
  BY CatalogAssumption DEF ProductRow, CodeText
<1>3. RowsIn(codeRows, a) = {} /\ a \notin overlapped
  BY <1>1 DEF Matched, Matches
<1>4. EditHolds(edit, article, codeRows)
  BY <1>1, <1>2 DEF EditHolds, ChangeOK, ProductRow, RowEdit
<1>5. EditFresh(edit, article, codeRows)
  BY <1>1, <1>2, <1>3 DEF EditFresh, RowEdit
<1>6. edit.of = a
  OBVIOUS
<1> HIDE DEF edit
<1>7. CatalogTypeOK'
  BY <1>1 DEF CatalogTypeOK
<1>8. EditsOK(editing, article, codeRows, overlapped)'
  BY <1>1, <1>4, <1>5, <1>6 DEF EditsOK, CatalogTypeOK
<1>9. EditsAlone(editing, overlapped)'
  BY <1>1, <1>6 DEF EditsAlone, CatalogTypeOK
<1>10. UniqueCodes(article, codeRows)' /\ RowsOwned(article, codeRows)'
  BY <1>1 DEF UniqueCodes, RowsOwned
<1> QED
  BY <1>1, <1>7, <1>8, <1>9, <1>10 DEF TrailTellsPrices

(* BeginUpdate keeps the invariant.                                      *)
LEMMA BeginUpdateKeeps ==
    ASSUME CatalogIInv, NEW e \in Editing, NEW a \in Article, NEW new \in Form,
           NEW row \in {0} \cup DOMAIN codeRows,
           BeginUpdate(e, a, row, new)
    PROVE  CatalogIInv'
<1> DEFINE change == Changes(article[a], new)
           edit == [of |-> a, change |-> change, code |-> new.code,
                    rows |-> RowEdit(a, row, new.code)]
<1> USE DEF CatalogIInv
<1>1. /\ editing' = [editing EXCEPT ![e] = edit]
      /\ UNCHANGED <<article, codeRows, trail>>
      /\ article[a] # NoArticle /\ editing[e] = NoEdit
      /\ IF RowsOf(a) = {} THEN row = 0 ELSE row \in RowsOf(a)
      /\ overlapped \subseteq overlapped' /\ overlapped' \subseteq overlapped \cup {a}
      /\ \A d \in Editing : editing[d] # NoEdit /\ editing[d].of = a => a \in overlapped'
  BY DEF BeginUpdate
<1>2. new \in ProductRow /\ DOMAIN new = {"code", "cost", "price"}
  BY CatalogAssumption DEF ProductRow, CodeText
<1>3. /\ DOMAIN change = {d \in {"code", "cost", "price"} : new[d] # article[a][d]}
      /\ \A c \in DOMAIN change : change[c] = new[c]
  BY <1>2 DEF Changes
<1> HIDE DEF change
<1>4. article[a] \in ProductRow
  BY <1>1 DEF CatalogTypeOK
<1>5. ChangeOK(change)
  BY <1>2, <1>3 DEF ChangeOK, ProductRow
<1>6. 0 \notin DOMAIN codeRows
  BY DEF CatalogTypeOK
<1>7. EditHolds(edit, article, codeRows)
  BY <1>1, <1>2, <1>5, <1>6 DEF EditHolds, ProductRow, RowEdit, RowsOf
<1>8. EditFresh(edit, article, codeRows)
  <2>1. IF "code" \in DOMAIN change THEN change["code"] = new.code
        ELSE article[a] # NoArticle /\ article[a].code = new.code
    BY <1>1, <1>3
  <2>2. RowsOf(a) = RowsIn(codeRows, a)
    BY DEF RowsOf, RowsIn
  <2> QED
    BY <1>1, <1>6, <2>1, <2>2 DEF EditFresh, RowEdit, RowsOf
<1>9. edit.of = a
  OBVIOUS
<1> HIDE DEF edit
<1>10. CatalogTypeOK'
  BY <1>1 DEF CatalogTypeOK
<1>11. EditsOK(editing, article, codeRows, overlapped)'
  BY <1>1, <1>7, <1>8, <1>9 DEF EditsOK, CatalogTypeOK
<1>12. EditsAlone(editing, overlapped)'
  BY <1>1, <1>9 DEF EditsAlone, CatalogTypeOK
<1>13. UniqueCodes(article, codeRows)' /\ RowsOwned(article, codeRows)'
  BY <1>1 DEF UniqueCodes, RowsOwned
<1>14. Matched(article, codeRows, overlapped)'
  BY <1>1 DEF Matched
<1>15. \A b \in overlapped' : article'[b] # NoArticle
  BY <1>1
<1>16. TrailTellsPrices'
  BY <1>1 DEF TrailTellsPrices
<1> QED
  BY <1>10, <1>11, <1>12, <1>13, <1>14, <1>15, <1>16

(* The rows of products other than a stay as they are.                     *)
OthersStay(a, old, new) ==
    \A b \in Article \ {a} :
      /\ RowsIn(new, b) = RowsIn(old, b)
      /\ \A r \in RowsIn(old, b) : new[r] = old[r]

(* No row disappears, one without a product stays without, and one of      *)
(* product a passes to no other.                                           *)
RowsLast(a, old, new) ==
    /\ DOMAIN old \subseteq DOMAIN new
    /\ \A r \in DOMAIN old :
         /\ old[r].of = a => new[r].of \in {a, NoArticle}
         /\ old[r].of = NoArticle => new[r].of = NoArticle

(* ProductRow a's own rows become what the edit says.                         *)
OwnRows(edit, old, new) ==
    LET before == RowsIn(old, edit.of)
        after == RowsIn(new, edit.of)
    IN
    /\ edit.rows.kind = "none" => new = old
    /\ edit.rows.kind = "insert" =>
         after = before \cup {Len(old) + 1} /\ new[Len(old) + 1].code = edit.code
    /\ edit.rows.kind = "update" =>
         after = before /\ new[edit.rows.row].code = edit.code
    /\ edit.rows.kind = "delete" => after = before \ {edit.rows.row}

(* Each row is an old one, or the one the edit writes, or a deleted one.   *)
RowsFrom(edit, old, new) ==
    \A r \in DOMAIN new :
      \/ r \in DOMAIN old /\ new[r] = old[r]
      \/ new[r] = [of |-> edit.of, code |-> edit.code] /\ edit.code # NoBarcode
      \/ new[r] = [of |-> NoArticle, code |-> NoBarcode]

(* What writing one row does to a sequence of rows.                        *)
LEMMA RowWritten ==
    ASSUME NEW T, NEW s \in Seq(T), NEW i \in DOMAIN s, NEW x \in T,
           NEW t, t = [s EXCEPT ![i] = x]
    PROVE  /\ t \in Seq(T) /\ DOMAIN t = DOMAIN s /\ t[i] = x
           /\ \A j \in DOMAIN s \ {i} : t[j] = s[j]
OBVIOUS

(* What a commit does to the rows: those of other products stay, and its   *)
(* own are what the edit says.                                             *)
LEMMA RowsAfterCommit ==
    ASSUME CatalogIInv, NEW e \in Editing, CommitArticle(e)
    PROVE  /\ codeRows' \in Seq(CodeRow)
           /\ OthersStay(editing[e].of, codeRows, codeRows')
           /\ RowsLast(editing[e].of, codeRows, codeRows')
           /\ OwnRows(editing[e], codeRows, codeRows')
           /\ RowsFrom(editing[e], codeRows, codeRows')
<1> DEFINE edit == editing[e]
           a == edit.of
           row == edit.rows.row
           mine == [of |-> a, code |-> edit.code]
           gone == [of |-> NoArticle, code |-> NoBarcode]
           end == Len(codeRows) + 1
<1> USE DEF OthersStay, RowsLast, OwnRows, RowsFrom, RowsIn
<1>1. EditHolds(edit, article, codeRows) /\ codeRows \in Seq(CodeRow)
  BY DEF CatalogIInv, EditsOK, CommitArticle, CatalogTypeOK
<1>2. /\ a \in Article /\ edit.code \in CodeText
      /\ edit.rows.kind \in {"none", "insert", "update", "delete"}
      /\ edit.rows.kind \in {"update", "delete"} => row \in DOMAIN codeRows
      /\ edit.rows.kind = "delete" => codeRows[row].of \in {a, NoArticle}
      /\ edit.rows.kind \in {"insert", "update"} => edit.code # NoBarcode
  BY <1>1 DEF EditHolds
<1>3. /\ edit.rows.kind = "update" => codeRows[row].of = a
      /\ edit.rows.kind = "insert" => codeRows' = Append(codeRows, mine)
      /\ edit.rows.kind = "update" => codeRows' = [codeRows EXCEPT ![row] = mine]
      /\ edit.rows.kind = "delete" => codeRows' = [codeRows EXCEPT ![row] = gone]
      /\ edit.rows.kind = "none" => codeRows' = codeRows
  BY DEF CommitArticle, RowsAfter
<1>4. mine \in CodeRow /\ mine.of = a /\ mine.code = edit.code
  BY <1>2 DEF CodeRow
<1>5. gone \in CodeRow /\ gone.of = NoArticle /\ gone.code = NoBarcode
  BY DEF CodeRow, CodeText
<1>6. NoArticle \notin Article
  BY CatalogAssumption
<1>7. DOMAIN codeRows = 1..Len(codeRows) /\ Len(codeRows) \in Nat
  BY <1>1
<1>8. CASE edit.rows.kind = "insert"
  <2> HIDE DEF mine
  <2>1. /\ codeRows' \in Seq(CodeRow)
        /\ DOMAIN codeRows' = DOMAIN codeRows \cup {end}
        /\ codeRows'[end] = mine
        /\ \A r \in DOMAIN codeRows : codeRows'[r] = codeRows[r]
    BY <1>1, <1>3, <1>4, <1>7, <1>8
  <2>2. end \notin DOMAIN codeRows
    BY <1>7
  <2> HIDE DEF end
  <2>3. OthersStay(a, codeRows, codeRows')
    BY <1>4, <2>1, <2>2
  <2>4. RowsLast(a, codeRows, codeRows')
    BY <1>4, <2>1, <2>2
  <2>5. RowsIn(codeRows', a) = RowsIn(codeRows, a) \cup {end}
    BY <1>4, <2>1, <2>2
  <2>6. OwnRows(edit, codeRows, codeRows')
    BY <1>4, <1>8, <2>1, <2>5 DEF end
  <2>7. RowsFrom(edit, codeRows, codeRows')
    BY <1>2, <1>8, <2>1 DEF mine
  <2> QED
    BY <2>1, <2>3, <2>4, <2>6, <2>7
<1>9. CASE edit.rows.kind = "update"
  <2> HIDE DEF mine
  <2>1. /\ codeRows' \in Seq(CodeRow)
        /\ DOMAIN codeRows' = DOMAIN codeRows
        /\ codeRows'[row] = mine
        /\ \A r \in DOMAIN codeRows \ {row} : codeRows'[r] = codeRows[r]
    BY <1>1, <1>2, <1>3, <1>4, <1>9, RowWritten
  <2>2. row \in DOMAIN codeRows /\ codeRows[row].of = a
    BY <1>2, <1>3, <1>9
  <2>3. OthersStay(a, codeRows, codeRows')
    BY <1>4, <2>1, <2>2
  <2>4. RowsLast(a, codeRows, codeRows')
    BY <1>2, <1>4, <1>6, <2>1, <2>2
  <2>5. RowsIn(codeRows', a) = RowsIn(codeRows, a)
    BY <1>4, <2>1, <2>2
  <2>6. OwnRows(edit, codeRows, codeRows')
    BY <1>4, <1>9, <2>1, <2>5
  <2>7. RowsFrom(edit, codeRows, codeRows')
    BY <1>2, <1>9, <2>1 DEF mine
  <2> QED
    BY <2>1, <2>3, <2>4, <2>6, <2>7
<1>10. CASE edit.rows.kind = "delete"
  <2> HIDE DEF gone
  <2>1. /\ codeRows' \in Seq(CodeRow)
        /\ DOMAIN codeRows' = DOMAIN codeRows
        /\ codeRows'[row] = gone
        /\ \A r \in DOMAIN codeRows \ {row} : codeRows'[r] = codeRows[r]
    BY <1>1, <1>2, <1>3, <1>5, <1>10, RowWritten
  <2>2. row \in DOMAIN codeRows /\ codeRows[row].of \in {a, NoArticle}
    BY <1>2, <1>10
  <2>3. OthersStay(a, codeRows, codeRows')
    BY <1>5, <1>6, <2>1, <2>2
  <2>4. RowsLast(a, codeRows, codeRows')
    BY <1>5, <2>1, <2>2
  <2>5. RowsIn(codeRows', a) = RowsIn(codeRows, a) \ {row}
    BY <1>2, <1>5, <1>6, <2>1, <2>2
  <2>6. OwnRows(edit, codeRows, codeRows')
    BY <1>10, <2>5
  <2>7. RowsFrom(edit, codeRows, codeRows')
    BY <2>1 DEF gone
  <2> QED
    BY <2>1, <2>3, <2>4, <2>6, <2>7
<1>11. CASE edit.rows.kind = "none"
  BY <1>1, <1>3, <1>11
<1> QED
  BY <1>2, <1>8, <1>9, <1>10, <1>11

(* The commit.  Only its own product's edits and rows can be upset by it,  *)
(* and those only if edits of it have overlapped.                          *)
LEMMA CommitArticleKeeps ==
    ASSUME CatalogIInv, NEW e \in Editing, CommitArticle(e)
    PROVE  CatalogIInv'
<1> DEFINE edit == editing[e]
           a == edit.of
           change == edit.change
           old == IF article[a] = NoArticle THEN change ELSE article[a]
           saved == Saved(old, change)
           told == IF article[a] = NoArticle
                   THEN [cost |-> change.cost, price |-> change.price]
                   ELSE Recorded(a, change)
<1> USE DEF CatalogIInv
<1>1. /\ editing[e] # NoEdit
      /\ article' = [article EXCEPT ![a] = saved]
      /\ trail' = [trail EXCEPT ![a] = told]
      /\ editing' = [editing EXCEPT ![e] = NoEdit]
      /\ overlapped' = overlapped
      /\ UniqueCodes(article, codeRows)'
  BY DEF CommitArticle
<1>2. /\ codeRows' \in Seq(CodeRow)
      /\ OthersStay(a, codeRows, codeRows')
      /\ RowsLast(a, codeRows, codeRows')
      /\ OwnRows(edit, codeRows, codeRows')
      /\ RowsFrom(edit, codeRows, codeRows')
  BY RowsAfterCommit
<1>3. /\ EditHolds(edit, article, codeRows)
      /\ a \notin overlapped => EditFresh(edit, article, codeRows)
  BY <1>1 DEF EditsOK
<1>4. a \in Article /\ edit.code \in CodeText /\ ChangeOK(change)
      /\ (article[a] = NoArticle => change \in ProductRow /\ change.code = edit.code)
  BY <1>3 DEF EditHolds
<1>5. old \in ProductRow /\ NoArticle \notin ProductRow
  <2>1. article[a] \in ProductRow \cup {NoArticle}
    BY <1>4 DEF CatalogTypeOK
  <2> QED
    BY <1>4, <2>1, CatalogAssumption DEF ProductRow, CodeText
<1>6. /\ saved.code = IF "code" \in DOMAIN change THEN change["code"] ELSE old.code
      /\ saved.cost = IF "cost" \in DOMAIN change THEN change["cost"] ELSE old.cost
      /\ saved.price = IF "price" \in DOMAIN change THEN change["price"] ELSE old.price
      /\ saved \in ProductRow
  BY <1>4, <1>5 DEF Saved, ChangeOK, ProductRow
<1>7. told \in [cost : Nat, price : Nat] /\ told.cost = saved.cost /\ told.price = saved.price
  <2>1. CASE article[a] = NoArticle
    BY <1>4, <1>5, <1>6, <2>1 DEF ProductRow
  <2>2. CASE article[a] # NoArticle
    <3>1. trail[a].cost = article[a].cost /\ trail[a].price = article[a].price
      BY <1>4, <2>2 DEF TrailTellsPrices
    <3>2. /\ told = [c \in {"cost", "price"} |->
                      IF c \in DOMAIN change THEN change[c] ELSE trail[a][c]]
      BY <2>2 DEF Recorded
    <3>3. told["cost"] = saved.cost /\ told["price"] = saved.price
      BY <1>6, <2>2, <3>1, <3>2
    <3>4. saved.cost \in Nat /\ saved.price \in Nat
      BY <1>6 DEF ProductRow
    <3> HIDE DEF saved
    <3> QED
      BY <3>2, <3>3, <3>4
  <2> QED
    BY <2>1, <2>2
<1> HIDE DEF saved, told
<1>8. saved # NoArticle
  BY <1>5, <1>6
<1>9. /\ article'[a] = saved
      /\ \A b \in Article \ {a} : article'[b] = article[b]
      /\ \A b \in Article : article[b] # NoArticle => article'[b] # NoArticle
  BY <1>1, <1>4, <1>8 DEF CatalogTypeOK
<1>10. CatalogTypeOK'
  BY <1>1, <1>2, <1>4, <1>6, <1>7 DEF CatalogTypeOK
<1>11. RowsOwned(article, codeRows)'
  <2> SUFFICES ASSUME NEW r \in DOMAIN codeRows'
               PROVE  /\ codeRows'[r].of = NoArticle => codeRows'[r].code = NoBarcode
                      /\ codeRows'[r].of # NoArticle =>
                           /\ codeRows'[r].code # NoBarcode
                           /\ article'[codeRows'[r].of] # NoArticle
    BY DEF RowsOwned
  <2>1. CASE r \in DOMAIN codeRows /\ codeRows'[r] = codeRows[r]
    <3>1. codeRows[r] \in CodeRow
      BY <2>1 DEF CatalogTypeOK
    <3> QED
      BY <1>9, <2>1, <3>1 DEF RowsOwned, CodeRow
  <2>2. CASE codeRows'[r] = [of |-> a, code |-> edit.code] /\ edit.code # NoBarcode
    BY <1>4, <1>8, <1>9, <2>2, CatalogAssumption
  <2>3. CASE codeRows'[r] = [of |-> NoArticle, code |-> NoBarcode]
    BY <2>3
  <2> QED
    BY <1>2, <2>1, <2>2, <2>3 DEF RowsFrom
<1>12. EditsOK(editing, article, codeRows, overlapped)'
  <2> SUFFICES ASSUME NEW d \in Editing, editing'[d] # NoEdit
               PROVE  /\ EditHolds(editing[d], article, codeRows)'
                      /\ editing'[d].of \notin overlapped' =>
                           EditFresh(editing[d], article, codeRows)'
    BY DEF EditsOK
  <2> DEFINE other == editing[d]
  <2>1. editing'[d] = other /\ other # NoEdit /\ d # e
    BY <1>1 DEF CatalogTypeOK
  <2>2. /\ EditHolds(other, article, codeRows)
        /\ other.of \notin overlapped => EditFresh(other, article, codeRows)
    BY <2>1 DEF EditsOK
  <2> HIDE DEF other
  <2>3. EditHolds(other, article', codeRows')
    <3>1. other.of \in Article
      BY <2>2 DEF EditHolds
    <3>2. other.rows.kind \in {"update", "delete"} =>
            /\ other.rows.row \in DOMAIN codeRows'
            /\ codeRows'[other.rows.row].of \in {other.of, NoArticle}
      <4> SUFFICES ASSUME other.rows.kind \in {"update", "delete"}
                   PROVE  /\ other.rows.row \in DOMAIN codeRows'
                          /\ codeRows'[other.rows.row].of \in {other.of, NoArticle}
        OBVIOUS
      <4>1. /\ other.rows.row \in DOMAIN codeRows
            /\ codeRows[other.rows.row].of \in {other.of, NoArticle}
        BY <2>2 DEF EditHolds
      <4>2. CASE other.of = a
        BY <1>2, <4>1, <4>2 DEF RowsLast
      <4>3. CASE other.of # a /\ codeRows[other.rows.row].of = other.of
        BY <1>2, <3>1, <4>1, <4>3 DEF OthersStay, RowsLast, RowsIn
      <4>4. CASE other.of # a /\ codeRows[other.rows.row].of = NoArticle
        BY <1>2, <4>1, <4>4 DEF RowsLast
      <4> QED
        BY <4>1, <4>2, <4>3, <4>4
    <3> QED
      BY <1>9, <2>2, <3>1, <3>2 DEF EditHolds
  <2>4. ASSUME other.of \notin overlapped PROVE EditFresh(other, article', codeRows')
    <3>1. other.of # a /\ other.of \in Article
      BY <1>1, <2>1, <2>2, <2>4 DEF EditsAlone, EditHolds, other
    <3>2. /\ RowsIn(codeRows', other.of) = RowsIn(codeRows, other.of)
          /\ \A r \in RowsIn(codeRows, other.of) : codeRows'[r] = codeRows[r]
          /\ article'[other.of] = article[other.of]
      BY <1>2, <1>9, <3>1 DEF OthersStay
    <3> QED
      BY <2>2, <2>4, <3>2 DEF EditFresh
  <2> QED
    BY <1>1, <2>1, <2>3, <2>4
<1>13. EditsAlone(editing, overlapped)'
  BY <1>1 DEF EditsAlone, CatalogTypeOK
<1>14. \A b \in overlapped' : article'[b] # NoArticle
  BY <1>1, <1>9, <1>10 DEF CatalogTypeOK
<1>15. Matched(article, codeRows, overlapped)'
  <2> SUFFICES ASSUME NEW b \in Article, b \notin overlapped
               PROVE  Matches(b, article', codeRows')
    BY <1>1 DEF Matched
  <2>1. Matches(b, article, codeRows)
    BY DEF Matched
  <2>2. CASE b # a
    <3>1. /\ RowsIn(codeRows', b) = RowsIn(codeRows, b)
          /\ \A r \in RowsIn(codeRows, b) : codeRows'[r] = codeRows[r]
          /\ article'[b] = article[b]
      BY <1>2, <1>9, <2>2 DEF OthersStay
    <3> QED
      BY <2>1, <3>1 DEF Matches
  <2>3. CASE b = a
    <3> DEFINE own == RowsIn(codeRows, a)
               own2 == RowsIn(codeRows', a)
    <3>1. EditFresh(edit, article, codeRows)
      BY <1>3, <2>3
    <3>2. article'[a] # NoArticle /\ article'[a].code = edit.code
      BY <1>6, <1>8, <1>9, <3>1 DEF EditFresh, saved
    <3>3. \A r, q \in own : r = q
      <4>1. \A r \in own : codeRows[r].code # NoBarcode
        BY <1>4, CatalogAssumption DEF RowsOwned, RowsIn
      <4>2. \A r \in own : article[a] # NoArticle /\ codeRows[r].code = article[a].code
        BY <2>1, <2>3 DEF Matches
      <4> QED
        BY <4>1, <4>2 DEF UniqueCodes, RowsIn
    <3>4. {codeRows'[r].code : r \in own2} = {edit.code} \ {NoBarcode}
      <4>1. CASE edit.rows.kind = "insert"
        BY <1>2, <1>3, <3>1, <4>1 DEF OwnRows, EditFresh, EditHolds
      <4>2. CASE edit.rows.kind = "update"
        BY <1>2, <1>3, <3>1, <3>3, <4>2 DEF OwnRows, EditFresh, EditHolds
      <4>3. CASE edit.rows.kind = "delete"
        BY <1>2, <1>3, <3>1, <3>3, <4>3 DEF OwnRows, EditFresh, EditHolds
      <4>4. CASE edit.rows.kind = "none"
        <5>1. codeRows' = codeRows
          BY <1>2, <4>4 DEF OwnRows
        <5>2. \A r \in own : codeRows[r].code # NoBarcode
          BY <1>4, CatalogAssumption DEF RowsOwned, RowsIn
        <5> QED
          BY <3>1, <3>3, <4>4, <5>1, <5>2 DEF EditFresh
      <4> QED
        BY <1>3, <4>1, <4>2, <4>3, <4>4 DEF EditHolds
    <3> QED
      BY <2>3, <3>2, <3>4 DEF Matches
  <2> QED
    BY <2>2, <2>3
<1>16. TrailTellsPrices'
  <2>1. trail'[a] = told /\ \A b \in Article \ {a} : trail'[b] = trail[b]
    BY <1>1, <1>4 DEF CatalogTypeOK
  <2> QED
    BY <1>7, <1>9, <2>1 DEF TrailTellsPrices
<1> QED
  BY <1>1, <1>10, <1>11, <1>12, <1>13, <1>14, <1>15, <1>16

(* Every step keeps the invariant, action by action.                     *)
LEMMA CatalogStep == CatalogIInv /\ [CatalogNext]_catalogVars => CatalogIInv'
<1> SUFFICES ASSUME CatalogIInv, [CatalogNext]_catalogVars PROVE CatalogIInv'
  OBVIOUS
<1>1. CASE CatalogNext
  BY <1>1, BeginCreateKeeps, BeginUpdateKeeps, CommitArticleKeeps, GiveUpArticleKeeps
  DEF CatalogNext
<1>2. CASE UNCHANGED catalogVars
  BY <1>2 DEF catalogVars, CatalogIInv, CatalogTypeOK, UniqueCodes, RowsOwned,
              EditsOK, EditsAlone, Matched, TrailTellsPrices
<1> QED
  BY <1>1, <1>2

(* Barcodes, the barcode column and the price history agree for any      *)
(* number of edits under way, but for products that two of them wrote at *)
(* once (update_product, sync_primary_barcode).                          *)
THEOREM CatalogAlwaysAgrees == CatalogSpec => []CatalogAgrees
BY CatalogStart, CatalogStep, CatalogImplied, PTL DEF CatalogSpec
=============================================================================
