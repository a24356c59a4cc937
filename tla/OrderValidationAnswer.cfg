SPECIFICATION Spec
CONSTANTS
    Prices = {10, 130}
    Quantities = {0, 1, 3}
    Discounts = {0, 10}
    Differences = {0, 10, 11, 30}
    MaxItems = 2
    Limit = 38
INVARIANTS
    RejectedIs422
CHECK_DEADLOCK FALSE
