SPECIFICATION FairBoardSpec
CONSTANTS
  Build = "MADS_BRAKE"
  RxFrames <- MCForeignFrames
  HostFrames <- MCHostFrames
  LagCap = 1
  TickClocked = FALSE
  Requests <- AllRequests
PROPERTIES
  HostLossDisarms
