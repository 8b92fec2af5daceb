---------------------------- MODULE ReorderAdvice ----------------------------
(***************************************************************************)
(* What to reorder (services/reorder.py): the advice is worked out afresh  *)
(* from the stock of a product and its sales in a window of days.          *)
(*                                                                         *)
(* Quantities and days are in hundredths, as the code rounds them.         *)
(***************************************************************************)
EXTENDS Integers, FiniteSets, Functions

CONSTANTS Lookback,  \* lookback_days
          ShelfKind, \* products: reorder_threshold, target_stock_level, and
                     \* lead_time_days of the supplier
          NoShelf,   \* no product chosen yet
          Packs,     \* quantities of a sale or a delivery
          MaxStock   \* bound: quantity_on_hand, and the sales of a day

ASSUME AdviceAssumption ==
    /\ Lookback \in Nat \ {0} /\ MaxStock \in Nat
    /\ Packs \subseteq Nat \ {0}
    /\ ShelfKind \subseteq [threshold : Nat, target : Nat, lead : Nat]
    /\ NoShelf \notin ShelfKind

VARIABLES
    shelf, \* the product
    stock, \* inventory.quantity_on_hand
    sold   \* sale_items of each of the last days, today first

shelfVars == <<shelf, stock, sold>>

ShelfInit ==
    /\ shelf = NoShelf /\ stock = 0
    /\ sold = [d \in 1..Lookback |-> 0]

Rounded(n, d) == (2 * n + d) \div (2 * d)

(* A slip: the average is taken over the days that saw a sale.             *)
AverageSlip(sales) ==
    LET days == {d \in 1..Lookback : sales[d] > 0}
    IN IF days = {} THEN 0
       ELSE Rounded(SumFunctionOnSet(sales, days), Cardinality(days))

(* load_sales_velocity: the total of the window over lookback_days.        *)
Average(sales) == Rounded(SumFunctionOnSet(sales, 1..Lookback), Lookback)

(* calculate_days_until_stockout compared with the lead time; a product    *)
(* that does not sell lasts for ever.                                      *)
RunsOut(kind, level, average) ==
    average > 0 /\ Rounded(level * 100, average) <= kind.lead * 100

(* assign_priority, the most urgent first; near_threshold is 1.25 times    *)
(* the threshold.                                                          *)
Priority(kind, level, average) ==
    IF level <= 0 \/ RunsOut(kind, level, average) THEN "critical"
    ELSE IF level <= kind.threshold THEN "high"
    ELSE IF kind.threshold > 0 /\ 4 * level <= 5 * kind.threshold
    THEN "medium" ELSE "low"

(* PRIORITY_ORDER.                                                         *)
PRIORITY_ORDER == [critical |-> 0, high |-> 1, medium |-> 2, low |-> 3]

(* A slip: the demand of one day stands for that of the lead time.         *)
SuggestedSlip(kind, level, average) ==
    LET gross == kind.target - level + average
    IN IF gross > 0 THEN gross ELSE 0

(* recommendation_from_row: what to order.                                 *)
Suggested(kind, level, average) ==
    LET gross == kind.target - level + average * kind.lead
    IN IF gross > 0 THEN gross ELSE 0

-----------------------------------------------------------------------------
(* A product is put on the shelf.                                          *)
Stock(kind, level) ==
    /\ shelf = NoShelf
    /\ shelf' = kind /\ stock' = level
    /\ UNCHANGED sold

(* A sale of today: create_sale.                                           *)
SellPack(q) ==
    /\ shelf # NoShelf /\ q <= stock /\ sold[1] + q <= MaxStock
    /\ stock' = stock - q
    /\ sold' = [sold EXCEPT ![1] = @ + q]
    /\ UNCHANGED shelf

(* A delivery.                                                             *)
Deliver(q) ==
    /\ shelf # NoShelf /\ stock + q <= MaxStock
    /\ stock' = stock + q
    /\ UNCHANGED <<shelf, sold>>

(* Midnight: date_bounds move on by a day.                                 *)
WindowMoves ==
    /\ shelf # NoShelf
    /\ sold' = [d \in 1..Lookback |-> IF d = 1 THEN 0 ELSE sold[d - 1]]
    /\ UNCHANGED <<shelf, stock>>

ShelfNext ==
    \/ \E kind \in ShelfKind, level \in Packs : Stock(kind, level)
    \/ \E q \in Packs : SellPack(q) \/ Deliver(q)
    \/ WindowMoves

ShelfSpec == ShelfInit /\ [][ShelfNext]_shelfVars

-----------------------------------------------------------------------------
(* A sale never calms the alarm: it lowers the stock and raises the        *)
(* average, and with both rounded the priority is as urgent as before.     *)
(* Only a delivery or the passing of days makes a product less urgent.     *)
SaleNeverCalms ==
    [][shelf # NoShelf /\ stock' < stock =>
         PRIORITY_ORDER[Priority(shelf, stock', Average(sold'))]
           <= PRIORITY_ORDER[Priority(shelf, stock, Average(sold))]]_shelfVars

(* Once the suggested quantity has arrived the product is no longer on the *)
(* list of alarms, and nothing more is suggested, when its target is above *)
(* the level at which it counts as low and above half a hundredth of a     *)
(* day's sales.  (A target that is not leaves it there for ever.)          *)
SuggestionSuffices ==
    shelf # NoShelf =>
      LET average == Average(sold)
          after == stock + Suggested(shelf, stock, average)
      IN 4 * shelf.target > 5 * shelf.threshold /\ 200 * shelf.target > average
           => /\ Priority(shelf, after, average) = "low"
              /\ Suggested(shelf, after, average) = 0

(* The advice is safe to follow: what it suggests suffices, and a sale   *)
(* never makes it calmer.                                                *)
AdviceHolds == []SuggestionSuffices /\ SaleNeverCalms
=============================================================================
