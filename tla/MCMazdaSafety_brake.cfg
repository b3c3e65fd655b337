SPECIFICATION SafetySpec
CONSTANTS
  Build = "MADS_BRAKE"
  RxFrames <- MCRxFrames
  HostFrames <- MCHostFrames
  LagCap = 1
PROPERTIES
  LateralSurvivesBrake
