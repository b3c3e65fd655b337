SPECIFICATION HandoverSpec
CONSTANTS
  Echoes = {TRUE}
  OtherTraffic = FALSE
  LinkFaults = FALSE
  RadarFaults = {"returns"}
  MaxResuppress = 3
PROPERTIES
  HaltLeavesRadar
