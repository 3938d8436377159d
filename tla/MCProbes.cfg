CONSTANTS
  t1 = t1
  t2 = t2
  conn1 = conn1
  conn2 = conn2
  Threads <- MCThreads
  Fns <- OpenSSLFns
  MapOf <- OpenSSLMaps
  Unconditional <- Handshakes
  Conditional <- Commands
  Conns <- MCConns
  Copies = 2
  MaxPayload = 1
  Lengths <- MCLengths
  Results <- MCResults
  MaxDepth <- MCDepth
  Crowded <- FullForOne
  Nothing = Nothing
SPECIFICATION Spec
SYMMETRY Symmetric
INVARIANTS EventsAreTrue OneEventPerCall CallIsReported NoStalePending
