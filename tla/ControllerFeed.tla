---------------------------- MODULE ControllerFeed ----------------------------
(***************************************************************************)
(* What the controller server promises to the sink it publishes to: one    *)
(* controller at a time, each announced once, heard only in between, and   *)
(* taken back exactly once before the next one is announced.               *)
(***************************************************************************)
CONSTANTS Socket, None

VARIABLES
  holder,    \* the announced controller
  finished   \* those taken back

vars == <<holder, finished>>

Init == holder = None /\ finished = {}

Connected(s) ==
  /\ holder = None
  /\ s \notin finished
  /\ holder' = s
  /\ UNCHANGED finished

Disconnected ==
  /\ holder # None
  /\ finished' = finished \cup {holder}
  /\ holder' = None

\* A message of the holder changes nothing here.
Next == (\E s \in Socket : Connected(s)) \/ Disconnected

Spec == Init /\ [][Next]_vars
=============================================================================
