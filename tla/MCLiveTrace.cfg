CONSTANTS
  in = in
  alt = alt
  out = out
  p = p
  q = q
  d = d
  Gone = Gone
  RowId <- MCRowId
  Content <- MCContent
  Match <- MCMatch
  Patched = {}
  Requeried = {}
  Traced = {d}
  Usage = {}
  MaxDeltas = 3
  MaxQueued = 2
  MaxHandles = 1
SPECIFICATION LiveSpec
INVARIANTS DeltasComplete ClientsAgree FlushOnItsWay
CHECK_DEADLOCK FALSE
