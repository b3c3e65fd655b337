SPECIFICATION FairTxSpec
CONSTANTS
  HostFrames = {"lkas", "corrupt"}
  CamFrames = {"fwd"}
  FwdFrames = {"fwd"}
  BadFrames = {"corrupt"}
  NoFrame = "none"
  FIFO_SIZE = 3
  MIN_SLOTS = 2
  Boards = {"F407", "F446"}
INVARIANTS
  ModeChangeEmptiesRings
  NoSilentStall
  EndpointReopens
  HostFramesFit
PROPERTIES
  RingIsFifo
  QueueMoves
