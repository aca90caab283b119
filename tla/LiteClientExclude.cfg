CONSTANTS
  N = 2
  Sessions = {s1}
  Kinds = {"lookup"}
  Holdings <- MCHoldings
  RetryAttempts = 2
  MaxFlaps = 0
  CounterRange = 2
  s1 = s1
SPECIFICATION Spec
INVARIANTS
  ExcludesTheRightServer
