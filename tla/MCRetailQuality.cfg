SPECIFICATION BatchSpec
CHECK_DEADLOCK FALSE
CONSTANTS
    Null = Null
    OrderCounts <- MCOrderCounts
    MaxLines = 2
    MaxQuantity = 2
    Products = 4
    Stores = 2
    MaxEdits = 2
    Unchecked = FALSE
INVARIANTS
    FaultSignalled
    RulesAgree
    RowOrderIrrelevant
