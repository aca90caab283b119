CONSTANTS
  a = a
  b = b
  A = A
  B = B
  MaxSeqno = 1
  ElectionIDs = {10, 11}
  Chains <- MCChains
  MaxBoundarySearch = 1
  Utime <- MCUtime
  Callers = {a, b}
  Keys <- MCKeys
  Requests = {A, B}
  RequestOf <- MCRequestOf
  Capacity = 1
SPECIFICATION Spec
INVARIANTS
  TypeOK
  ErrorsAreNotKept
PROPERTIES
  ImplementsDirectReads
  EveryReadReturns
