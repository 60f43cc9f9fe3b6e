-------------------------- MODULE MCControllerClient --------------------------
(* ControllerClient with one button, sequence numbers that wrap after two or *)
(* three, and connections enough for one to be lost, a second to be refused  *)
(* or ended, and a third to come after it.                                   *)
EXTENDS ControllerClient, TLC
===============================================================================
