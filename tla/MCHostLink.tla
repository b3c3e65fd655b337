----------------------------- MODULE MCHostLink -----------------------------
(* TLC instance of HostLink: a window of two seconds and cooldowns of three   *)
(* and four keep the order of the code's 5, 10 and 15, and calls come one or  *)
(* two seconds apart, so that windows are exact or late.                      *)
EXTENDS HostLink
=============================================================================
