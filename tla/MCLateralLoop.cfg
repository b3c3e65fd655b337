SPECIFICATION FairLoopSpec
CONSTANTS
  MaxTorque = 6
  MaxRateUp = 2
  MaxRateDown = 1
  MaxRtDelta = 6
  DriverAllowance = 0
  DriverMultiplier = 1
  MaxSampleVals = 1
  DriverTorques <- MCDriverTorques
  Torques <- MCTorques
  RtClocked = FALSE
  STEER_MAX = 3
  STEER_DELTA_UP = 2
  STEER_DELTA_DOWN = 1
  STEER_DRIVER_ALLOWANCE = 0
  PollPeriod = 2
  LinkFaults = {"send", "poll", "reset"}
  MAX_LOST = 2
INVARIANTS
  StallIsBounded
PROPERTIES
  RejectionHasCause
  DemandIsReached
