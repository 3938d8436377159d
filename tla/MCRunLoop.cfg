CONSTANTS
  process = process
  openssl = openssl
  opensslApp = opensslApp
  Pumps <- MCPumps
  Optional <- MCOptional
  Loaders <- MCLoaders
  ChanCap <- MCChanCap
  ErrCap = 3
  MaxReads <- MCMaxReads
SPECIFICATION FairSpec
INVARIANTS TypeOK ErrChNeverBlocks DrainDeliversAll
PROPERTIES StopsOnCancel FailureEndsRun PumpsEnd Implements
