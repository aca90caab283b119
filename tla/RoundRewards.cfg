CONSTANTS
  MaxSeqno = 18
  ElectionIDs <- MCIDs
  Chains <- MCChains
  MaxBoundarySearch = 2
  Utime <- MCUtime
  Until <- MCUntil
  Skews <- MCSkews
  Times <- MCTimes
  Uint32Range = 32
SPECIFICATION Spec
INVARIANTS
  TypeOK
  AnswerIsWhole
  AnswerIsOneRound
  NeighboursAreAdjacent
PROPERTIES
  RefusedForAReason
CHECK_DEADLOCK FALSE
