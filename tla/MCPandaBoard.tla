---------------------------- MODULE MCPandaBoard ---------------------------
(* TLC instances of PandaBoard.  The safety model has its own runs over every *)
(* frame; here the frames are the ones that arm, disarm and age the board.    *)
EXTENDS PandaBoard

Frame(addr, bus, bits) == [addr |-> addr, bus |-> bus, bits |-> bits]
Host(addr, bus, cmd)   == [addr |-> addr, bus |-> bus, cmd |-> cmd]

AllRequests  == {"0xdc", "0xf3", "0xf8", "0xe7", "0xd8"}

\* Every checked message, so that no message lags unless it is late; cruise is on
\* or off and the engine runs.
MCFreshFrames ==
  {Frame("CRZ_CTRL", 0, b) : b \in {{}, {"main", "active"}}} \cup
  {Frame("ENGINE_DATA", 0, {"running"})} \cup
  {Frame(a, 0, {}) : a \in {"STEER_TORQUE", "PEDALS", "CRZ_BTNS"}}

\* The same, the camera's LKAS frame, and a foreign one on the car's bus.
MCForeignFrames == MCFreshFrames \cup {Frame("LKAS", b, {}) : b \in {0, 2}}

MCHostFrames == {Host("LKAS", 0, "limited")}
=============================================================================
