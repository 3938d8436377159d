CONSTANTS
  Locking <- LockingCalls
  Listings <- SampleListings
  MaxSignals = 2
SPECIFICATION FairSpec
INVARIANTS TypeOK LeftAsFound CallsAreSound NothingLeaks LockIsReturned
PROPERTIES EndsUnlessLocked
