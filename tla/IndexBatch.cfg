SPECIFICATION IndexesSpec
CONSTANTS
  Key <- MCKey
  RowsOf <- MCRowsOf
  Order = 3
  MaxBatch = 2
  BatchesAnywhere = TRUE
INVARIANT Reachable
