SPECIFICATION ForeignLkasSpec
CONSTANTS
  Build = "STOCK"
  RxFrames <- MCForeignFrames
  HostFrames <- MCHostFrames
  LagCap = 1
  TickClocked = TRUE
  Requests <- AllRequests
INVARIANTS
  CarModeNeedsHeartbeat
  UnusedControlsExpire
PROPERTIES
  HostLossDisarms
  ForeignLkasNoticed
