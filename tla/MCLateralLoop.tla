--------------------------- MODULE MCLateralLoop ---------------------------
(* TLC instances of LateralLoop.  The limits are scaled down with their order  *)
(* kept: the sender ramps up as fast as the panda allows and down more slowly, *)
(* and no driver torque brings the panda's limit below STEER_MAX.              *)
EXTENDS LateralLoop

MCTorques == -5..5
MCDriverTorques == {-2, 0, 2}
=============================================================================
