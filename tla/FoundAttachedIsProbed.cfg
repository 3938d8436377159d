CONSTANTS
  p1 = p1
  p2 = p2
  client = client
  client2 = client2
  wrapper = wrapper
  Pids <- MCPids
  Images <- MCImages
  Matched <- MCMatched
  GoTLS <- MCGoTLS
  Gone = Gone
  MaxExecs = 2
  MaxQueue = 4
SPECIFICATION Spec
INVARIANT AttachedIsProbed
CHECK_DEADLOCK FALSE
