---------------------------- MODULE MCBackOffice ----------------------------
(***************************************************************************)
(* The back office of a venture: stock and purchase orders, the tax        *)
(* operation, invoice numbers, and the advice on what to reorder.  Each is *)
(* explored while the others rest where they started.                      *)
(***************************************************************************)
EXTENDS StockRoom, TaxOperation, InvoiceNumbers, ReorderAdvice, TLC

CONSTANTS p1, p2, g1, g2, n1, b1

MCStocked == {p1}
MCMaxQuantity == p1 :> 2 @@ p2 :> 1

MCRow(label, type, branch) ==
    [label |-> label, type |-> type, branch |-> branch, next |-> 1, active |-> TRUE]

MCFirstRow == g1 :> MCRow("G", "gst_invoice", b1)
           @@ g2 :> MCRow("H", "gst_invoice", CompanyWide)
           @@ n1 :> MCRow("H", "non_gst_invoice", CompanyWide)

(* A prefix and a counter, as the text of both would tell them apart.      *)
MCNumberText == [l \in Label |-> [n \in 1..MaxNumber |-> <<l, n>>]]

MCShelfKind == [threshold : {0, 200}, target : {200, 300}, lead : {0, 2}]

OfficeInit == Init /\ TaxInit /\ NumbersInit /\ ShelfInit

OfficeNext ==
    \/ /\ TaxInit /\ NumbersInit /\ ShelfInit
       /\ Next
       /\ UNCHANGED <<taxVars, numberVars, shelfVars>>
    \/ /\ Init /\ NumbersInit /\ ShelfInit
       /\ TaxNext
       /\ UNCHANGED <<vars, numberVars, shelfVars>>
    \/ /\ Init /\ TaxInit /\ ShelfInit
       /\ NumbersNext
       /\ UNCHANGED <<vars, taxVars, shelfVars>>
    \/ /\ Init /\ TaxInit /\ NumbersInit
       /\ ShelfNext
       /\ UNCHANGED <<vars, taxVars, numberVars>>

OfficeSpec ==
    OfficeInit /\ [][OfficeNext]_<<vars, taxVars, numberVars, shelfVars>>

(* Purchase orders, clerks and invoices are interchangeable.               *)
MCSymmetry == Permutations(Order) \cup Permutations(Clerk) \cup Permutations(Invoice)
=============================================================================
