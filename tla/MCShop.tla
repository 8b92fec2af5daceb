------------------------------- MODULE MCShop -------------------------------
(***************************************************************************)
(* What is sold and paid at a branch: retail invoices, takeaway bills, the *)
(* arithmetic of a bill, and the catalogue with its barcodes and prices.   *)
(* Each is explored while the others rest where they started.              *)
(***************************************************************************)
EXTENDS RetailCounter, TakeawayBills, BillMath, ProductCatalog, TLC

CONSTANTS i1, i2, i3, cu1, p1, t1, t2, x1, x2, y1, y2, b1, b2

(* i1 and i2 are the customer's, i3 is a walk-in's.                        *)
MCBuyer == i1 :> cu1 @@ i2 :> cu1 @@ i3 :> Walkin
MCItem == i1 :> p1 @@ i2 :> p1 @@ i3 :> Service
MCTotal == i1 :> 2 @@ i2 :> 1 @@ i3 :> 1

(* Two bills with one key for one order, a bill of the other order with    *)
(* its own key, and one that reuses the first.                             *)
MCBranchOf == t1 :> "b" @@ t2 :> "b"
MCAmountOf == t1 :> 2 @@ t2 :> 2
MCOrderOf == x1 :> t1 @@ x2 :> t1 @@ y1 :> t2 @@ y2 :> t2
MCBillKey == x1 :> "k" @@ x2 :> "k" @@ y1 :> "l" @@ y2 :> "k"
MCOffer == x1 :> 1 @@ x2 :> 1 @@ y1 :> 0 @@ y2 :> 2

(* Forms that ask for no code, or for one; the first also for another cost. *)
MCForm == {[code |-> NoBarcode, cost |-> 1, price |-> 1],
           [code |-> b1, cost |-> 2, price |-> 1],
           [code |-> b2, cost |-> 1, price |-> 1]}

ShopInit == Init /\ TakeawayInit /\ BillInit /\ CatalogInit

(* One of the stocks takeaway may start with is enough for the others.     *)
TakeawayRests == TakeawayInit /\ shelf = Shelf

ShopNext ==
    \/ /\ TakeawayRests /\ BillInit /\ CatalogInit
       /\ Next /\ UNCHANGED <<takeawayVars, billVars, catalogVars>>
    \/ /\ Init /\ BillInit /\ CatalogInit
       /\ TakeawayNext /\ UNCHANGED <<vars, billVars, catalogVars>>
    \/ /\ Init /\ TakeawayRests /\ CatalogInit
       /\ BillNext /\ UNCHANGED <<vars, takeawayVars, catalogVars>>
    \/ /\ Init /\ TakeawayRests /\ BillInit
       /\ CatalogNext /\ UNCHANGED <<vars, takeawayVars, billVars>>

ShopSpec ==
    ShopInit /\ [][ShopNext]_<<vars, takeawayVars, billVars, catalogVars>>

(* Retail requests are interchangeable, and so are the two rival bills.     *)
MCSymmetry == Permutations(Request) \cup Permutations({x1, x2})
=============================================================================
