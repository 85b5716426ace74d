CONSTANTS
  in = in
  alt = alt
  out = out
  p = p
  q = q
  d = d
  Gone = Gone
  RowId <- MCRowId
  Content <- MCInOut
  Match <- MCSelectOne
  Patched = {p}
  Requeried = {}
  Traced = {}
  Usage = {}
  MaxDeltas = 2
  MaxQueued = 1
  MaxHandles = 1
SPECIFICATION Spec
PROPERTY RollbackNotifies
CHECK_DEADLOCK FALSE
