SPECIFICATION FairLinkSpec
CONSTANTS
  Gaps = {1, 2}
  WINDOW = 2
  STALL = 1
  SOFT_COOLDOWN = 3
  BOARD_COOLDOWN = 4
  LOCK_LIMIT = 2
  FROZEN_LIMIT = 2
  IGNITION_LINE = FALSE
  MAX_FAULTS = 1
PROPERTIES
  ParkedCarIsLeftAlone
  StarvationEnds
  WrongLockEnds
  FrozenCoreIsReset
