CONSTANTS
  pk = pk
  byEmail = byEmail
  byGroup = byGroup
  byName = byName
  byDoc = byDoc
  c1 = c1
  c2 = c2
  c3 = c3
  c4 = c4
  c5 = c5
  RowId <- MCRowId
  Content <- MCContent
  Pk <- MCPk
  Sec <- MCSec
  Unique <- MCUnique
  Gin <- MCGin
  Keys <- MCKeys
  MaxBatch = 2
SPECIFICATION Spec
INVARIANTS TypeOK IndexesExact KeysStayUnique
PROPERTY ImplementsTable
