----------------------------- MODULE MCCanTxQueue -----------------------------
(* TLC instance of CanTxQueue: rings of three slots, so that two frames fill  *)
(* one and the pointers wrap at once; one good and one bad frame of the host  *)
(* and one forwarded frame, which is enough to tell the order on bus 0.  On    *)
(* bus 2 the frame of the host is not told from a forwarded one.              *)
EXTENDS CanTxQueue
===============================================================================
