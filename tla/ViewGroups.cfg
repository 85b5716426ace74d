SPECIFICATION Spec
CONSTANTS
    Table <- MCTable
    RowIdsOf <- MCRowIdsOf
    ValuesOf <- MCValuesOf
    Plans <- GroupPlans
    Batches <- MCBatches
VIEW StateOfView
PROPERTIES OldGroupDeleted
CHECK_DEADLOCK FALSE
