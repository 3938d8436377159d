CONSTANTS
  Locking <- LockingCalls
  Listings <- SampleListings
  MaxSignals = 2
SPECIFICATION Spec
INVARIANTS MetadataSurvives
