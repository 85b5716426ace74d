CONSTANTS
  a = a
  b = b
  RowId <- MCRowId
  Content <- MCContent
  MaxBulk = 2
SPECIFICATION Spec
INVARIANTS TypeOK SlotMapExact ScanInIdOrder
PROPERTY UntouchedRowsSurvive
