--------------------------- MODULE MCFrameDelivery ---------------------------
(* FrameDelivery on small instances: enough frames for one in flight, one  *)
(* pending and one that replaces it.                                       *)
EXTENDS FrameDelivery, TLC
=============================================================================
