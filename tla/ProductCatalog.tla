--------------------------- MODULE ProductCatalog ---------------------------
(***************************************************************************)
(* The barcode and the prices of products (api/routes/products.py,         *)
(* services/barcodes.py).  A barcode is kept twice, in a column of the     *)
(* product and in a row of product_barcodes; each table has a unique index *)
(* of its own, none spans both.                                            *)
(*                                                                         *)
(* An edit reads without a lock and commits later; its reads are taken     *)
(* together.  It writes the columns whose value differs from what it read. *)
(***************************************************************************)
EXTENDS Integers, Sequences

CONSTANTS Article,   \* products
          Barcode, NoBarcode,
          Form,      \* what may be asked for: a code, a unit cost and a
                     \* selling price
          Editing,   \* requests that may be under way
          NoEdit,    \* a request slot nobody uses
          NoArticle, \* a product not created yet; the owner of a deleted row
          MaxRows    \* bound: product_barcodes rows ever inserted

ASSUME CatalogAssumption ==
    /\ NoBarcode \notin Barcode /\ MaxRows \in Nat
    /\ Form \subseteq [code : Barcode \cup {NoBarcode}, cost : Nat, price : Nat]
    /\ NoArticle \notin Article
    /\ NoArticle \notin [code : Barcode \cup {NoBarcode}, cost : Nat, price : Nat]

VARIABLES
    article,  \* products: primary_barcode, unit_cost, selling_price
    codeRows, \* product_barcodes: the product and the code of each row
    trail,    \* product_price_history, read as the new value in the latest
              \* entry that changes the column
    editing,  \* what the requests under way will write
    overlapped \* history: products two edits of which have overlapped

catalogVars == <<article, codeRows, trail, editing, overlapped>>

CatalogInit ==
    /\ article = [a \in Article |-> NoArticle]
    /\ codeRows = <<>>
    /\ trail = [a \in Article |-> NoArticle]
    /\ editing = [e \in Editing |-> NoEdit]
    /\ overlapped = {}

RowsOf(a) == {r \in DOMAIN codeRows : codeRows[r].of = a}

(* normalize_barcode maps what is typed to a code, blanks to none.         *)
(* ensure_barcode_available: neither column nor row of another product.    *)
Available(a, code) ==
    code = NoBarcode \/
      /\ \A b \in Article \ {a} : article[b] # NoArticle
                                     => article[b].code # code
      /\ \A r \in DOMAIN codeRows : codeRows[r].code = code
                                       => codeRows[r].of = a

(* A slip: an existing row keeps its code.                                 *)
RowEditSlip(a, row, code) ==
    IF row = 0
    THEN [kind |-> IF code = NoBarcode THEN "none" ELSE "insert", row |-> 0]
    ELSE [kind |-> IF code = NoBarcode THEN "delete" ELSE "none", row |-> row]

(* sync_primary_barcode, with the row the query returned (0 for none).     *)
RowEdit(a, row, code) ==
    IF row = 0
    THEN [kind |-> IF code = NoBarcode THEN "none" ELSE "insert", row |-> 0]
    ELSE [kind |-> IF code = NoBarcode THEN "delete"
                   ELSE IF codeRows[row].code = code THEN "none" ELSE "update",
          row |-> row]

(* The rows once the edit is flushed.                                      *)
RowsAfter(edit) ==
    LET of == edit.of
        code == edit.code
    IN CASE edit.rows.kind = "insert" ->
              Append(codeRows, [of |-> of, code |-> code])
         [] edit.rows.kind = "update" ->
              [codeRows EXCEPT ![edit.rows.row] = [of |-> of, code |-> code]]
         [] edit.rows.kind = "delete" ->
              [codeRows EXCEPT ![edit.rows.row] =
                   [of |-> NoArticle, code |-> NoBarcode]]
         [] OTHER -> codeRows

(* A slip: the checks are trusted, and nothing refuses a second use.       *)
UniqueCodesSlip(articles, rows) == TRUE

(* uq_products_company_primary_barcode, uq_product_barcodes_company_barcode*)
UniqueCodes(articles, rows) ==
    /\ \A a, b \in Article :
         a # b /\ articles[a] # NoArticle /\ articles[b] # NoArticle
           => articles[a].code = NoBarcode \/ articles[a].code # articles[b].code
    /\ \A r, q \in DOMAIN rows :
         r # q => rows[r].code = NoBarcode \/ rows[r].code # rows[q].code

(* A slip: only a new selling price makes an entry.                        *)
RecordedSlip(a, change) ==
    [c \in {"cost", "price"} |->
       IF {c, "price"} \subseteq DOMAIN change THEN change[c] ELSE trail[a][c]]

(* add_price_history, if a price has changed.                              *)
Recorded(a, change) ==
    [c \in {"cost", "price"} |->
       IF c \in DOMAIN change THEN change[c] ELSE trail[a][c]]

(* The columns that have changed.                                          *)
Changes(old, new) ==
    [c \in {d \in DOMAIN new : new[d] # old[d]} |-> new[c]]

(* The row with the columns of an UPDATE written over it.                  *)
Saved(old, change) ==
    LET Of(c) == IF c \in DOMAIN change THEN change[c] ELSE old[c]
    IN [code |-> Of("code"), cost |-> Of("cost"), price |-> Of("price")]

-----------------------------------------------------------------------------
(* create_product: the checks, and the new row.                            *)
BeginCreate(e, a, new) ==
    /\ editing[e] = NoEdit /\ article[a] = NoArticle
    /\ \A d \in Editing : editing[d] # NoEdit => editing[d].of # a
    /\ Available(a, new.code)
    /\ editing' = [editing EXCEPT ![e] =
           [of |-> a, change |-> new, code |-> new.code,
            rows |-> RowEdit(a, 0, new.code)]]
    /\ UNCHANGED <<article, codeRows, trail, overlapped>>

(* update_product: with several primary rows the query returns any.        *)
BeginUpdate(e, a, row, new) ==
    /\ editing[e] = NoEdit /\ article[a] # NoArticle
    /\ IF RowsOf(a) = {} THEN row = 0 ELSE row \in RowsOf(a)
    /\ Available(a, new.code)
    /\ editing' = [editing EXCEPT ![e] =
           [of |-> a, change |-> Changes(article[a], new), code |-> new.code,
            rows |-> RowEdit(a, row, new.code)]]
    /\ overlapped' = overlapped \cup
           (IF \E d \in Editing : editing[d] # NoEdit /\ editing[d].of = a
            THEN {a} ELSE {})
    /\ UNCHANGED <<article, codeRows, trail>>

(* The commit of either.  It fails if the row it would update is gone, or  *)
(* an index refuses it; deleting a row that is gone does nothing.          *)
CommitArticle(e) ==
    LET edit == editing[e]
        a == edit.of
        old == IF article[a] = NoArticle THEN edit.change ELSE article[a]
    IN
    /\ edit # NoEdit
    /\ edit.rows.kind = "update" => codeRows[edit.rows.row].of = a
    /\ Len(RowsAfter(edit)) <= MaxRows
    /\ article' = [article EXCEPT ![a] = Saved(old, edit.change)]
    /\ codeRows' = RowsAfter(edit)
    /\ UniqueCodes(article', codeRows')
    /\ trail' = [trail EXCEPT ![a] =
           IF article[a] = NoArticle
           THEN [cost |-> edit.change.cost, price |-> edit.change.price]
           ELSE Recorded(a, edit.change)]
    /\ editing' = [editing EXCEPT ![e] = NoEdit]
    /\ UNCHANGED overlapped

(* A request that is refused, or breaks off.                               *)
GiveUpArticle(e) ==
    /\ editing[e] # NoEdit
    /\ editing' = [editing EXCEPT ![e] = NoEdit]
    /\ UNCHANGED <<article, codeRows, trail, overlapped>>

CatalogNext ==
    \/ \E e \in Editing, a \in Article, new \in Form :
         \/ BeginCreate(e, a, new)
         \/ \E row \in {0} \cup DOMAIN codeRows :
              BeginUpdate(e, a, row, new)
    \/ \E e \in Editing : CommitArticle(e) \/ GiveUpArticle(e)

CatalogSpec == CatalogInit /\ [][CatalogNext]_catalogVars

-----------------------------------------------------------------------------
(* A scanned code names one product: no code stands in the column of one   *)
(* and in a row of another, though the two indexes do not know each other  *)
(* and the checks look before a rival commits, unless edits have           *)
(* overlapped on both products.  (Then it can: an edit that left a row as  *)
(* it was brings back the code in the column after the row is gone, and    *)
(* the other product holds that code in a row its column does not show.)   *)
CodeNamesOneProduct ==
    \A a \in Article, r \in DOMAIN codeRows :
        article[a] # NoArticle /\ article[a].code # NoBarcode
          /\ codeRows[r].code = article[a].code
        => codeRows[r].of = a \/ {a, codeRows[r].of} \subseteq overlapped

(* Column and row tell the same: a product with a code has that row and no *)
(* other, one without has none, unless two edits of it have overlapped     *)
(* (two that both found no row insert two).                                *)
RowsMatchColumn ==
    \A a \in Article : article[a] # NoArticle /\ a \notin overlapped =>
        {codeRows[r].code : r \in RowsOf(a)} = {article[a].code} \ {NoBarcode}

(* The price history leads to the present prices whatever edits overlap:   *)
(* an edit writes a price when, and only when, its entry shows a change.   *)
TrailTellsPrices ==
    \A a \in Article : article[a] # NoArticle =>
        /\ trail[a].cost = article[a].cost
        /\ trail[a].price = article[a].price

(* What the catalogue keeps twice agrees: the codes in their two tables, *)
(* and the prices with their history.                                    *)
CatalogAgrees == CodeNamesOneProduct /\ RowsMatchColumn /\ TrailTellsPrices
=============================================================================
