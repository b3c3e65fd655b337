SPECIFICATION SteerSpec
CONSTANTS
  MaxTorque = 6
  MaxRateUp = 2
  MaxRateDown = 1
  MaxRtDelta = 4
  DriverAllowance = 1
  DriverMultiplier = 1
  MaxSampleVals = 2
  DriverTorques <- MCDriverTorques
  Torques <- MCTorques
  RtClocked = TRUE
INVARIANTS
  ZeroAlwaysPasses
  DriverOverrules
PROPERTIES
  AcceptedSlew
