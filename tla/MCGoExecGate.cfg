CONSTANTS
  p1 = p1
  p2 = p2
  client = client
  client2 = client2
  wrapper = wrapper
  Pids <- MCPids
  Images <- MCImages
  Matched <- MCMatched
  GoTLS <- MCGoTLS
  Gone = Gone
  MaxExecs = 3
  MaxQueue = 2
SPECIFICATION FairSpec
INVARIANTS TypeOK NotLeftStopped FirstImageIsProbed
PROPERTIES AlwaysResumed HeldWhileAttached
CHECK_DEADLOCK FALSE
