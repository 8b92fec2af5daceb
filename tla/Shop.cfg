\* Retail: two invoices of one product and one of a service, two requests at
\* once.  Takeaway: two orders and four bills, one retail cashier.  Bill: two
\* lines.  Catalogue: two products, two codes, two edits at once.
SPECIFICATION ShopSpec
CONSTANTS
    i1 = i1
    i2 = i2
    i3 = i3
    cu1 = cu1
    p1 = p1
    t1 = t1
    t2 = t2
    x1 = x1
    x2 = x2
    y1 = y1
    y2 = y2
    b1 = b1
    b2 = b2
    Invoice = {i1, i2, i3}
    Customer = {cu1}
    Request = {r1, r2}
    Product = {p1}
    Service = Service
    Walkin = Walkin
    Idle = Idle
    Buyer <- MCBuyer
    Item <- MCItem
    Total <- MCTotal
    StartingStock = 1
    CreditLimit = 2
    MaxOpening = 1
    MaxReceipts = 1
    StateCode = {ka, tn}
    NoCode = NoCode
    NoBill = NoBill
    UnitPrice = {333, 10000}
    LineQuantity = {33, 1000}
    LineDiscount = {0, 110}
    GstRate = {0, 25, 1800}
    CessRate = {0, 1200}
    MaxLines = 2
    Takeaway = {t1, t2}
    BranchOf <- MCBranchOf
    AmountOf <- MCAmountOf
    OnAccount = {t1, t2}
    BillRequest = {x1, x2, y1, y2}
    OrderOf <- MCOrderOf
    BillKey <- MCBillKey
    Offer <- MCOffer
    Cashier = {c1}
    Allowance = 2
    Shelf = 2
    Nobody = Nobody
    Article = {ar1, ar2}
    Barcode = {b1, b2}
    NoBarcode = NoBarcode
    Form <- MCForm
    Editing = {e1, e2}
    NoEdit = NoEdit
    NoArticle = NoArticle
    MaxRows = 3
SYMMETRY MCSymmetry
INVARIANTS
    CounterBooks
    TakeawayBooks
    BillAddsUp
    CatalogAgrees
PROPERTIES
    IssuedOnce
CHECK_DEADLOCK FALSE
