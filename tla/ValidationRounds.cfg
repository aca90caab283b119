CONSTANTS
  MaxSeqno = 18
  ElectionIDs <- MCIDs
  Chains <- MCFewChains
  MaxBoundarySearch = 2
  Utime <- MCUtime
  Until <- MCUntil
  Skews <- MCSkews
  Times <- MCTimes
  Uint32Range = 32
SPECIFICATION Spec
INVARIANTS
  TypeOK
  BlocksHoldTheRound
  PrevIsAdjacent
PROPERTIES
  RefusedOnlyAtTheStart
CHECK_DEADLOCK FALSE
