--------------------------- MODULE MCSteerTorque ---------------------------
(* TLC instances of SteerTorque.  The limits are scaled down; the driver can  *)
(* push the limit of one direction below zero, which the real sensor cannot.  *)
EXTENDS SteerTorque

MCTorques == -7..7
MCDriverTorques == {-9, -5, 0, 5}
=============================================================================
