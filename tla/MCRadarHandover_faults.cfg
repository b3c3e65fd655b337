SPECIFICATION FairHandoverSpec
CONSTANTS
  Echoes = {TRUE, FALSE}
  OtherTraffic = FALSE
  LinkFaults = TRUE
  RadarFaults = {"raises", "refuses", "returns", "no_return"}
  MaxResuppress = 3
INVARIANTS
  NoGap
PROPERTIES
  MuteNeedsAcc
  MuteFailsOpen
  TwoWritersEnd
