\* One table in two branches; three hits on a bucket; two calls, two copies;
\* one account, two companies; one item in two categories.
SPECIFICATION DoorsSpec
CONSTANTS
    Waiter = {w1, w2}
    Phone = {p1}
    north = north
    south = south
    bay = bay
    c1 = c1
    c2 = c2
    Place = {north, south}
    Home = north
    Resting = Resting
    MaxCodes = 2
    MaxVisits = 1
    MaxEdits = 2
    Hit = {h1, h2, h3}
    Limit = 2
    Window = 2
    LastTick = 5
    NoBucket = NoBucket
    Away = Away
    Call = {k1, k2}
    Copy = {d1, d2}
    Skew = 2
    Delay = 1
    LastTime = 6
    Idle = Idle
    Company = {c1, c2}
    Branch = {north, south, bay}
    CompanyOf <- MCCompanyOf
    Token = {t1}
    Desk = {e1, e2}
    FirstCompany = c1
    None = None
    Nowhere = Nowhere
    MaxRevisions = 2
    Editor = {m1, m2}
    Shop = {north}
    Everywhere = Everywhere
    Category = {hot, cold}
    FirstCategory = hot
    hot = hot
    NoForm = NoForm
    MaxCardVersion = 3
    MaxMoves = 1
SYMMETRY MCSymmetry
INVARIANTS
    TableHolds
    SignedHolds
    AccountHolds
PROPERTIES
    LimitHolds
    CardHolds
CHECK_DEADLOCK FALSE
