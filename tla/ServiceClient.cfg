CONSTANTS
  Requests = {r1, r2}
  Configs = {v1, v2}
  TTL = 2
  MaxTime = 5
  Empty = Empty
  Down = Down
  Stalled = Stalled
  r1 = r1
  r2 = r2
  v1 = v1
  v2 = v2
SPECIFICATION ServiceSpec
INVARIANTS
  ServiceTypeOK
  AlwaysAUsableClient
PROPERTIES
  RefreshFetchesAnew
  EveryRequestServed
