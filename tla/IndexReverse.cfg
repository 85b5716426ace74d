SPECIFICATION IndexesSpec
CONSTANTS
  Key <- MCKey
  RowsOf <- MCRowsOf
  Order = 3
  MaxBatch = 2
  BatchesAnywhere = FALSE
INVARIANT ReverseFromIncluded
