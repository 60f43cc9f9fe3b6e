---------------------------- MODULE MCRemoteInput ----------------------------
(* RemoteInput on a small instance: two connection identifiers, so that an *)
(* event can name a connection that is not current; a channel of one       *)
(* command, so that it is full whenever a command waits and a timed-out    *)
(* call can fill it; generations up to two, so that a second controller    *)
(* plays and a third connection overflows; one button, pressed or not.     *)
EXTENDS RemoteInput
=============================================================================
