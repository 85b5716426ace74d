CONSTANTS
  pk = pk
  c1 = c1
  c2 = c2
  t1 = t1
  RowId <- MCRowId
  Content <- MCContent
  Pk <- MCPk
  Sec <- MCSec
  Unique = {}
  Gin = {}
  Keys <- MCKeys
  MaxBatch = 1
  Tx <- MCTx
  MaxVersion = 2
  MaxEntries = 3
  Contested = {2}
SPECIFICATION Spec
INVARIANTS TypeOK DiffIsNet
PROPERTIES RollbackRestores LostOnlyToStolenKeys
