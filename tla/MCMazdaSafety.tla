--------------------------- MODULE MCMazdaSafety ---------------------------
(* TLC instances of MazdaSafety.                                            *)
EXTENDS MazdaSafety

Frame(addr, bus, bits) == [addr |-> addr, bus |-> bus, bits |-> bits]
Host(addr, bus, cmd)   == [addr |-> addr, bus |-> bus, cmd |-> cmd]

\* Every value of the bits that the hooks read in the frames of the car.
MCCarFrames ==
  {Frame("ENGINE_DATA", 0, b) : b \in SUBSET {"moving", "gas"}} \cup
  {Frame("CRZ_CTRL", 0, b)    : b \in SUBSET {"main", "active"}} \cup
  {Frame("CRZ_BTNS", 0, b)    : b \in SUBSET {"cancel", "res", "set_m"}} \cup
  {Frame("PEDALS", 0, b)      : b \in SUBSET {"brake", "acc_off", "active"}} \cup
  {Frame("STEER_TORQUE", 0, {})}

\* The camera's frames, the radar's, the same addresses on the wrong bus, and
\* a foreign LKAS frame on the car's bus.
MCOtherFrames ==
  {Frame("LKAS", b, {}) : b \in Bus} \cup
  {Frame("LKAS_HUD", 2, {}), Frame("PEDALS", 2, {"brake"}),
   Frame("CRZ_BTNS", 1, {"res"})}

MCRxFrames == MCCarFrames \cup MCOtherFrames

MCHostFrames ==
  {Host("LKAS", 0, c)      : c \in {"zero", "limited", "excess"}} \cup
  {Host("CRZ_INFO", 0, c)  : c \in {"idle", "command", "excess"}} \cup
  {Host("CRZ_CTRL", 0, c)  : c \in {"active", "inactive"}} \cup
  {Host("RADAR_UDS", 0, c) : c \in {"session", "data"}} \cup
  {Host("CRZ_BTNS", 0, c)  : c \in {"cancel", "command"}} \cup
  {Host("CRZ_INFO", 2, "excess"), Host("LKAS", 1, "limited")}
=============================================================================
