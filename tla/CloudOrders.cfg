SPECIFICATION FairSpec
CONSTANTS
    a1 = a1
    a2 = a2
    a3 = a3
    b1 = b1
    Publication = {1, 2}
    Attempt = {a1, a2, b1}
    KeyOf <- MCKeyOf
    ContentOf <- MCContentOf
    Reference = {r1}
    Price = {10, 20}
    Nothing = Nothing
    BatchSize = 2
INVARIANTS
    AsAgreed
PROPERTIES
    OrdersArrive
CHECK_DEADLOCK FALSE
