-------------------------- MODULE MCControllerServer --------------------------
(* ControllerServer with three sockets: one seated, one that waits for the *)
(* seat past the token check, one that comes during the shutdown.          *)
EXTENDS ControllerServer, TLC
=============================================================================
