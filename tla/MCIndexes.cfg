SPECIFICATION IndexesSpec
CONSTANTS
  Key <- MCKey
  RowsOf <- MCRowsOf
  Order = 3
  MaxBatch = 3
  BatchesAnywhere = FALSE
INVARIANTS TypeOK WellFormed Reachable ForwardRangesExact ReverseRangesExact
PROPERTIES TreeImplementsIndex HashImplementsIndex
