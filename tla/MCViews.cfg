SPECIFICATION Spec
CONSTANTS
    Table <- MCTable
    RowIdsOf <- MCRowIdsOf
    ValuesOf <- MCValuesOf
    Plans <- MCPlans
    Batches <- MCBatches
VIEW StateOfView
INVARIANTS TypeOK BucketsExact MatchCountsExact ViewIsQuery
PROPERTIES DeltasExact
CHECK_DEADLOCK FALSE
