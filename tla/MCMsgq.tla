------------------------------- MODULE MCMsgq -------------------------------
(* TLC instance of Msgq: messages of one and two words in the smallest buffer *)
(* the assertion of msgq_msg_send allows, so that two or three messages make  *)
(* a lap; one slot, so that a subscriber that starts again evicts itself.     *)
EXTENDS Msgq
=============================================================================
