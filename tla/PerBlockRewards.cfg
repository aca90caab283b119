CONSTANTS
  MaxSeqno = 18
  ElectionIDs <- MCIDs
  Chains <- MCFewChains
  MaxBoundarySearch = 2
  Utime <- MCUtime
  Until <- MCUntil
  Skews <- MCSkews
  Times <- MCTimes
  Uint32Range = 32
  MaxWalk = 3
SPECIFICATION Spec
INVARIANTS
  TypeOK
  RewardIsTheBlocks
  PrevIsPrevious
PROPERTIES
  FailsForAReason
CHECK_DEADLOCK FALSE
