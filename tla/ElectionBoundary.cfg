CONSTANTS
  MaxSeqno = 6
  ElectionIDs <- MCIDs
  Chains <- MCChains
  MaxBoundarySearch = 3
SPECIFICATION Spec
INVARIANTS
  TypeOK
  NearestWhenReliable
  NotFoundIsTrue
PROPERTIES
  Terminates
  ImplementsPromise
CHECK_DEADLOCK FALSE
