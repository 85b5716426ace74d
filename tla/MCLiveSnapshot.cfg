CONSTANTS
  in = in
  alt = alt
  out = out
  p = p
  q = q
  d = d
  Gone = Gone
  RowId <- MCRowId
  Content <- MCInOut
  Match <- MCSelectOne
  Patched = {p}
  Requeried = {q}
  Traced = {}
  Usage <- AllUsage
  MaxDeltas = 2
  MaxQueued = 1
  MaxHandles = 1
SPECIFICATION LiveSpec
INVARIANTS TypeOK StaleRowsAreDue ClientsAgree
PROPERTY EventuallyTold
CHECK_DEADLOCK FALSE
