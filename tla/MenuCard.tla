------------------------------ MODULE MenuCard ------------------------------
(***************************************************************************)
(* A menu item and the categories it may stand in (services/cafe.py): the  *)
(* forms the staff load and send back, the switch that marks the item sold *)
(* out, and the category's own form, which carries no version.             *)
(*                                                                         *)
(* An edit checks the version of its form against a row it does not lock,  *)
(* and its commit writes only the columns that differ from that row.       *)
(***************************************************************************)
EXTENDS Integers

CONSTANTS Editor,        \* edits under way
          Shop,          \* branches
          Everywhere,    \* branch_id NULL: the whole company
          Category,      \* the categories of the card
          FirstCategory, \* where the item stands first
          NoForm,        \* nothing loaded; no edit
          MaxCardVersion, MaxMoves \* bounds: item versions, edits of a category

ASSUME CardAssumption ==
    /\ Everywhere \notin Shop /\ FirstCategory \in Category
    /\ MaxCardVersion \in Nat \ {0} /\ MaxMoves \in Nat

VARIABLES
    category, \* menu_categories.branch_id
    item,     \* menu_items: branch_id, category_id, available, version
    form,     \* the item as each editor's screen shows it
    edit,     \* the edits: the version they have read, the columns they will
              \* write, and the place they have checked (a switch checks none)
    moves,    \* history: edits of each category's branch
    vetted,   \* history: the place checked by the last form committed, and the
              \* edits of its category before that check
    collided  \* history: two edits have made the same version of the item

cardVars == <<category, item, form, edit, moves, vetted, collided>>

Span == Shop \cup {Everywhere}
ItemType == [branch : Span, category : Category, available : BOOLEAN,
             version : 1..MaxCardVersion]
PlaceType == [branch : Span, category : Category, moves : 0..MaxMoves]

ASSUME NoFormAssumption == NoForm \notin PlaceType

(* The row with the columns of an UPDATE written over it.                  *)
Changed(columns) ==
    LET Of(c) == IF c \in DOMAIN columns THEN columns[c] ELSE item[c]
    IN [branch |-> Of("branch"), category |-> Of("category"),
        available |-> Of("available"), version |-> Of("version")]

CardTypeOK ==
    /\ category \in [Category -> Span]
    /\ item \in ItemType
    /\ form \in [Editor -> ItemType \cup {NoForm}]
    /\ \A e \in Editor : edit[e] # NoForm =>
         /\ edit[e].version \in 1..MaxCardVersion
         /\ Changed(edit[e].columns) \in ItemType
         /\ edit[e].place \in PlaceType \cup {NoForm}
    /\ moves \in [Category -> 0..MaxMoves]
    /\ vetted \in PlaceType
    /\ collided \in BOOLEAN

CardInit ==
    /\ category = [c \in Category |-> Everywhere]
    /\ item = [branch |-> Everywhere, category |-> FirstCategory,
               available |-> TRUE, version |-> 1]
    /\ form = [e \in Editor |-> NoForm] /\ edit = [e \in Editor |-> NoForm]
    /\ moves = [c \in Category |-> 0] /\ collided = FALSE
    /\ vetted = [branch |-> Everywhere, category |-> FirstCategory, moves |-> 0]

(* A slip: a company-wide item may stand in a branch's category.           *)
FitsSlip(branch, c) ==
    category[c] # Everywhere /\ branch # Everywhere => branch = category[c]

(* _validate_menu_references.                                              *)
Fits(branch, c) == category[c] # Everywhere => branch = category[c]

(* A slip: the version of the form is not compared.                        *)
FormCurrentSlip(e) == TRUE

(* _check_version; the screens always send the version they show.          *)
FormCurrent(e) == form[e].version = item.version

(* The columns the UPDATE of an item changed to i holds.                   *)
CardColumns(i) == [c \in {c \in DOMAIN i : i[c] # item[c]} |-> i[c]]

LoadForm(e) ==
    /\ form[e] # item /\ edit[e] = NoForm
    /\ form' = [form EXCEPT ![e] = item]
    /\ UNCHANGED <<category, item, edit, moves, vetted, collided>>

(* update_menu_item sends the whole form, with any of its fields changed,  *)
(* and checks the place the form gives the item.                           *)
BeginUpdate(e, branch, c, available) ==
    /\ form[e] # NoForm /\ edit[e] = NoForm
    /\ item.version < MaxCardVersion /\ FormCurrent(e) /\ Fits(branch, c)
    /\ edit' = [edit EXCEPT ![e] =
           [version |-> item.version,
            place |-> [branch |-> branch, category |-> c, moves |-> moves[c]],
            columns |-> CardColumns([branch |-> branch, category |-> c,
                                     available |-> available,
                                     version |-> item.version + 1])]]
    /\ UNCHANGED <<category, item, form, moves, vetted, collided>>

(* update_menu_item_availability switches one field.                       *)
BeginSwitch(e, available) ==
    /\ form[e] # NoForm /\ edit[e] = NoForm
    /\ item.version < MaxCardVersion /\ FormCurrent(e)
    /\ edit' = [edit EXCEPT ![e] =
           [version |-> item.version, place |-> NoForm, columns |->
              CardColumns([item EXCEPT !.available = available, !.version = item.version + 1])]]
    /\ UNCHANGED <<category, item, form, moves, vetted, collided>>

CommitItem(e) ==
    /\ edit[e] # NoForm
    /\ item' = Changed(edit[e].columns)
    /\ collided' = (collided \/ edit[e].version # item.version)
    /\ vetted' = IF edit[e].place = NoForm THEN vetted ELSE edit[e].place
    /\ edit' = [edit EXCEPT ![e] = NoForm]
    /\ form' = [form EXCEPT ![e] = NoForm]
    /\ UNCHANGED <<category, moves>>

(* update_menu_category checks the branch, not the items in the category.  *)
UpdateMenuCategory(c, branch) ==
    /\ branch # category[c] /\ moves[c] < MaxMoves
    /\ category' = [category EXCEPT ![c] = branch]
    /\ moves' = [moves EXCEPT ![c] = moves[c] + 1]
    /\ UNCHANGED <<item, form, edit, vetted, collided>>

CardNext ==
    \/ \E e \in Editor :
         \/ LoadForm(e) \/ CommitItem(e)
         \/ \E b \in Span, c \in Category, a \in BOOLEAN : BeginUpdate(e, b, c, a)
         \/ \E a \in BOOLEAN : BeginSwitch(e, a)
    \/ \E c \in Category, b \in Span : UpdateMenuCategory(c, b)

CardSpec == CardInit /\ [][CardNext]_cardVars

-----------------------------------------------------------------------------
(* An item stands where the last form put it that was checked, unless two  *)
(* edits have overlapped and each has moved it its own way, one to another *)
(* branch, say, and one to another category.                               *)
PlacedAsChecked ==
    collided \/ (item.branch = vetted.branch /\ item.category = vetted.category)

(* An item that stands as it was checked is in a category of its own       *)
(* branch or of the company, unless that category was edited since.        *)
(* (update_menu_category does not look at the items it strands.)           *)
StrandedByCategoryOnly ==
    item.branch = vetted.branch /\ item.category = vetted.category
      => \/ category[item.category] \in {Everywhere, item.branch}
         \/ vetted.moves < moves[item.category]

(* An item that was marked sold out comes back only by an editor whose     *)
(* screen showed it sold out: a form loaded before the switch is refused,  *)
(* and one sent at the same moment leaves the column alone.  (Two edits at *)
(* the same moment can give two contents one version; a form of the first  *)
(* is then taken for the second.)                                          *)
SoldOutStays ==
    [][~item.available /\ item'.available /\ ~collided
         => \E e \in Editor : edit[e] # NoForm /\ edit'[e] = NoForm
                              /\ form[e] # NoForm /\ ~form[e].available]_cardVars

(* The card stays as the staff have seen it: an item where it was checked, *)
(* in a category that suits it, and sold out until somebody who knows puts *)
(* it back.                                                                *)
CardHolds ==
    [](CardTypeOK /\ PlacedAsChecked /\ StrandedByCategoryOnly) /\ SoldOutStays
=============================================================================
