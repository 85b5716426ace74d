SPECIFICATION Spec
CONSTANTS
    Table <- MCTable
    RowIdsOf <- MCRowIdsOf
    ValuesOf <- NullValuesOf
    Plans <- NullPlans
    Batches <- MCBatches
VIEW StateOfView
INVARIANTS ViewIsQuery
CHECK_DEADLOCK FALSE
