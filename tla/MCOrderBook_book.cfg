CONSTANTS
    Owners = {a, b}
    Prices = {1, 2, 3}
    Quantities = {1, 2}
    MaxOrders = 4
SPECIFICATION Spec
SYMMETRY OwnerSymmetry
INVARIANTS NeverCrossed LevelTotals
PROPERTY PriceTimePriority
CHECK_DEADLOCK FALSE
