------------------------------ MODULE BillMath ------------------------------
(***************************************************************************)
(* The arithmetic of an invoice: where its tax goes, what each line comes  *)
(* to, and the totals a draft stores (services/invoices.py).               *)
(*                                                                         *)
(* Money is in paise, quantities in hundredths, rates in hundredths of a   *)
(* percent: the two decimals the code quantizes to.                        *)
(***************************************************************************)
EXTENDS Integers, Sequences, FiniteSets, Functions

CONSTANTS StateCode,
          NoCode,      \* a state code that is not given
          NoBill,      \* nothing is being drafted
          UnitPrice, LineQuantity, LineDiscount,
          GstRate, CessRate,
          MaxLines     \* bound: lines of a bill

Codes == StateCode \cup {NoCode}

(* The running totals, and the invoice as far as it is drafted.            *)
Totals == [subtotal : Int, discount : Int, taxable : Int,
           cgst : Int, sgst : Int, igst : Int, cess : Int]
DraftBill == [type : {"gst", "non_gst"}, seller : Codes, place : Codes,
              told : SUBSET StateCode, totals : Totals]

ASSUME BillAssumption ==
    /\ NoCode \notin StateCode /\ NoBill \notin DraftBill
    /\ UnitPrice \cup LineQuantity \cup LineDiscount \subseteq Nat
    /\ GstRate \cup CessRate \subseteq Nat
    /\ MaxLines \in Nat \ {0}

VARIABLES
    draft,  \* the invoice being drafted: its type, the state codes that
            \* matter, and its totals
    lines,  \* invoice_items
    taxRows \* invoice_taxes

billVars == <<draft, lines, taxRows>>

BillInit == draft = NoBill /\ lines = <<>> /\ taxRows = {}

(* ROUND_HALF_UP of n / d.                                                 *)
HalfUp(n, d) == (2 * n + d) \div (2 * d)

(* The first of several codes that is given.                               *)
FirstOf(codes) ==
    LET given == {i \in DOMAIN codes : codes[i] # NoCode}
    IN IF given = {} THEN NoCode
       ELSE codes[CHOOSE i \in given : \A j \in given : i <= j]

(* get_branch_state: the branch's active registration, the primary active  *)
(* one, the business profile.  A registration always has a code.           *)
SellerCode(ofBranch, ofPrimary, ofProfile) ==
    FirstOf(<<ofBranch, ofPrimary, ofProfile>>)

(* A slip: a bill that names no place is taxed as if sold elsewhere.       *)
PlaceCodeSlip(named, ofCustomer, seller) ==
    IF FirstOf(<<named, ofCustomer>>) # NoCode
    THEN FirstOf(<<named, ofCustomer>>)
    ELSE CHOOSE c \in StateCode : c # seller

(* normalize_place_of_supply: the payload's, the customer's, the seller's. *)
PlaceCode(named, ofCustomer, seller) ==
    FirstOf(<<named, ofCustomer, seller>>)

InterState(b) ==
    b.seller # NoCode /\ b.place # NoCode /\ b.seller # b.place

(* A slip: the half rate is rounded before it is applied.                  *)
HalfTaxSlip(taxable, rate) == HalfUp(taxable * HalfUp(rate, 2), 10000)

(* CGST or SGST of an amount at half the rate.                             *)
HalfTax(taxable, rate) == HalfUp(taxable * rate, 20000)

WholeTax(taxable, rate) == HalfUp(taxable * rate, 10000)

(* calculate_line; the rates are those of a GST invoice.                   *)
CalculateLine(b, price, quantity, discount, gst, cess) ==
    LET gross == HalfUp(price * quantity, 100)
        taxable == gross - discount
        rate == IF b.type = "gst" THEN gst ELSE 0
        igst == IF InterState(b) THEN WholeTax(taxable, rate) ELSE 0
        half == IF InterState(b) THEN 0 ELSE HalfTax(taxable, rate)
        extra == IF b.type = "gst" THEN WholeTax(taxable, cess) ELSE 0
    IN [gross |-> gross, discount |-> discount, taxable |-> taxable,
        rate |-> rate, cgst |-> half, sgst |-> half, igst |-> igst,
        cess |-> extra, total |-> taxable + 2 * half + igst + extra]

(* A slip: cess gets its row only on a line that bears GST as well.        *)
CessRowSlip(n, line, cess) ==
    IF line.cess > 0 /\ line.rate > 0
    THEN {[line |-> n, kind |-> "cess", amount |-> line.cess]} ELSE {}

(* The third row of add_item_tax_rows.                                     *)
CessRow(n, line, cess) ==
    IF cess > 0 \/ line.cess > 0
    THEN {[line |-> n, kind |-> "cess", amount |-> line.cess]} ELSE {}

(* add_item_tax_rows: halves that both came to nothing are one IGST row.   *)
ItemTaxRows(b, n, line, cess) ==
    IF b.type # "gst" THEN {}
    ELSE CessRow(n, line, cess) \cup
         IF line.igst > 0 \/ (line.cgst = 0 /\ line.sgst = 0)
         THEN {[line |-> n, kind |-> "igst", amount |-> line.igst]}
         ELSE {[line |-> n, kind |-> "cgst", amount |-> line.cgst],
               [line |-> n, kind |-> "sgst", amount |-> line.sgst]}

(* A slip: the subtotal is taken after the discount.                       *)
AccumulateSlip(totals, line) ==
    [subtotal |-> totals.subtotal + line.taxable,
     discount |-> totals.discount + line.discount,
     taxable |-> totals.taxable + line.taxable,
     cgst |-> totals.cgst + line.cgst, sgst |-> totals.sgst + line.sgst,
     igst |-> totals.igst + line.igst, cess |-> totals.cess + line.cess]

(* What the loop over the lines adds to each running total.                *)
Accumulate(totals, line) ==
    [subtotal |-> totals.subtotal + line.gross,
     discount |-> totals.discount + line.discount,
     taxable |-> totals.taxable + line.taxable,
     cgst |-> totals.cgst + line.cgst, sgst |-> totals.sgst + line.sgst,
     igst |-> totals.igst + line.igst, cess |-> totals.cess + line.cess]

NoTotals == [subtotal |-> 0, discount |-> 0, taxable |-> 0,
             cgst |-> 0, sgst |-> 0, igst |-> 0, cess |-> 0]

(* grand_total of quote and draft: from the totals, not from the lines.    *)
GrandTotal(t) == t.taxable + t.cgst + t.sgst + t.igst + t.cess

-----------------------------------------------------------------------------
(* The draft begins: the type is given, the codes are looked up.           *)
OpenDraft(type, ofBranch, ofPrimary, ofProfile, ofCustomer, named) ==
    LET seller == SellerCode(ofBranch, ofPrimary, ofProfile)
    IN
    /\ draft = NoBill
    /\ draft' = [type |-> type, seller |-> seller,
                place |-> PlaceCode(named, ofCustomer, seller),
                told |-> {named, ofCustomer} \ {NoCode}, totals |-> NoTotals]
    /\ UNCHANGED <<lines, taxRows>>

(* One turn of the loop: the line is refused if its discount exceeds it.   *)
AddLine(price, quantity, discount, gst, cess) ==
    LET line == CalculateLine(draft, price, quantity, discount, gst, cess)
    IN
    /\ draft # NoBill /\ Len(lines) < MaxLines
    /\ discount <= line.gross
    /\ draft' = [draft EXCEPT !.totals = Accumulate(draft.totals, line)]
    /\ lines' = Append(lines, line)
    /\ taxRows' = taxRows \cup ItemTaxRows(draft, Len(lines) + 1, line, cess)

BillNext ==
    \/ \E type \in {"gst", "non_gst"},
          ofBranch, ofPrimary, ofProfile, ofCustomer, named \in Codes :
         OpenDraft(type, ofBranch, ofPrimary, ofProfile, ofCustomer, named)
    \/ \E price \in UnitPrice, quantity \in LineQuantity,
          discount \in LineDiscount, gst \in GstRate, cess \in CessRate :
         AddLine(price, quantity, discount, gst, cess)

BillSpec == BillInit /\ [][BillNext]_billVars

-----------------------------------------------------------------------------
(* The totals of a draft, rounded line by line, agree with each other and  *)
(* with the lines a customer can add up: what is charged is the subtotal   *)
(* less the discounts plus the taxes, and it is the sum of the lines.      *)
DraftAddsUp ==
    draft # NoBill =>
      LET t == draft.totals
      IN /\ GrandTotal(t) = t.subtotal - t.discount
                              + t.cgst + t.sgst + t.igst + t.cess
         /\ GrandTotal(t) = SumFunctionOnSet(
                [n \in DOMAIN lines |-> lines[n].total], DOMAIN lines)

(* The tax rows, from which the tax is reported, add up to the totals of   *)
(* the invoice, kind by kind.                                              *)
TaxRowsAddUp ==
    draft # NoBill =>
      \A kind \in {"cgst", "sgst", "igst", "cess"} :
        draft.totals[kind] = SumFunctionOnSet(
            [row \in taxRows |-> row.amount],
            {row \in taxRows : row.kind = kind})

(* Selling within the state or across its border costs the same to within  *)
(* one paisa a line: the two rounded halves are that close to the whole.   *)
SplitTaxWithinPaisa ==
    \A n \in DOMAIN lines :
        LET split == lines[n].cgst + lines[n].sgst
            whole == WholeTax(lines[n].taxable, lines[n].rate)
        IN lines[n].igst = 0 => split - whole \in -1..1

(* A bill on which neither payload nor customer names a state other than   *)
(* the seller's carries no IGST, wherever the seller's state came from.    *)
WalkInPaysLocal ==
    draft # NoBill /\ draft.told \subseteq {draft.seller} =>
        draft.totals.igst = 0

(* A bill adds up: its totals, its tax rows, and its tax wherever the sale*)
(* is said to take place.                                                *)
BillAddsUp ==
    DraftAddsUp /\ TaxRowsAddUp /\ SplitTaxWithinPaisa /\ WalkInPaysLocal
=============================================================================
