----------------------------- MODULE MCLongHold -----------------------------
(* TLC instance of LongHold: the frame counts keep their order, and the car    *)
(* reports every speed range that CarController tells apart, the entry speed   *)
(* itself included.                                                            *)
EXTENDS LongHold

MCEventSets == {{}, {"enable", "preEnable"}, {"softDisable"}, {"overrideLongitudinal"}}

Report(s, speed, g, r) == [standstill |-> s, v |-> speed, gas |-> g, res |-> r]
MCInputs ==
  {Report(TRUE, 0, g, r) : g \in BOOLEAN, r \in BOOLEAN} \cup {Report(TRUE, 2, FALSE, FALSE)}
  \cup {Report(FALSE, speed, g, FALSE) : speed \in {7, 11}, g \in BOOLEAN}
  \cup {Report(FALSE, 10, FALSE, FALSE)}
MCHoldBrake == -1024
MCHoldLatched == -1
MCNearStop == -750
MCRequests == {-1200, 1200}
=============================================================================
