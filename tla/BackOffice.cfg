\* Stock: two orders of two products, one of them new to the branch, and one
\* adjustment at a time beside them.  Tax: two saves at once, two
\* registrations, one midnight.  Numbers: two invoices, two clerks, two forms, a
\* branch sequence, a company sequence of the same type, and one of the other
\* type with the label of the company's.  Reorder: eight kinds of product, three days.
SPECIFICATION OfficeSpec
CONSTANTS
    p1 = p1
    p2 = p2
    g1 = g1
    g2 = g2
    n1 = n1
    b1 = b1
    Order = {o1, o2}
    Product = {p1, p2}
    Request = {r1}
    Idle = Idle
    NoRow = NoRow
    Stocked <- MCStocked
    MaxQuantity <- MCMaxQuantity
    Admin = {a1, a2}
    Registration = {x1, x2}
    Primary = x1
    NoSave = NoSave
    Undated = Undated
    LastDay = 2
    Invoice = {i1, i2}
    Clerk = {c1, c2}
    Sequence = {g1, g2, n1}
    Branch = {b1}
    CompanyWide = CompanyWide
    Label = {"G", "H"}
    NumberText <- MCNumberText
    FirstRow <- MCFirstRow
    NoDraft = NoDraft
    MaxNumber = 2
    MaxEdits = 2
    Lookback = 3
    ShelfKind <- MCShelfKind
    NoShelf = NoShelf
    Packs = {100, 250}
    MaxStock = 500
SYMMETRY MCSymmetry
INVARIANTS
    TaxHolds
    NumbersHold
PROPERTIES
    StockExplained
    AdviceHolds
CHECK_DEADLOCK FALSE
