CONSTANTS
  N = 2
  Sessions = {s1, s2}
  Kinds = {"lookup", "pinned", "fallback"}
  Holdings <- MCHoldings
  RetryAttempts = 2
  MaxFlaps = 1
  CounterRange = 2
  s1 = s1
  s2 = s2
SPECIFICATION Spec
INVARIANTS
  TypeOK
  NeverAskedTwice
  ArchiveReached
PROPERTIES
  Ends
