SPECIFICATION Spec
CONSTANTS
    Prices = {0, 2, 5, 10, 130}
    Quantities = {0, 1, 3}
    Discounts = {0, 4, 10, 35}
    Differences = {0, 4, 10, 11, 30}
    MaxItems = 2
    Limit = 38
INVARIANTS
    TypeOK
    RefusedIsTiny
    StoredAddsUp
    CentsAreExact
CHECK_DEADLOCK FALSE
