CONSTANTS
  in = in
  alt = alt
  out = out
  p = p
  q = q
  d = d
  Gone = Gone
  RowId <- MCRowId
  Content <- MCInOut
  Match <- MCSelectOne
  Patched = {}
  Requeried = {}
  Traced = {d}
  Usage = {"early_trace"}
  MaxDeltas = 2
  MaxQueued = 1
  MaxHandles = 1
SPECIFICATION Spec
INVARIANT ClientsAgree
CHECK_DEADLOCK FALSE
