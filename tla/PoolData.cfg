CONSTANTS
  r1 = r1
  r2 = r2
  v1 = v1
  v2 = v2
  p = p
  q = q
  early = early
  late = late
  Requests = {r1, r2}
  Validators = {v1, v2}
  Addresses = {p, q}
  Contents = {early, late}
  MaxBlock = 4
  Histories <- MCHistories
  Accounts <- MCAccounts
SPECIFICATION PoolSpec
INVARIANTS
  PoolTypeOK
  ServesItsElections
  StakeIsTheRounds
  AgreesWithItsBlock
SYMMETRY Requesters
