--------------------------- MODULE MCRemoteSession ---------------------------
(* RemoteSession with two callers, so that an end waits for a start or for *)
(* another end and subscriptions overtake each other.                      *)
EXTENDS RemoteSession, TLC
Symmetry == Permutations(Caller) \cup Permutations(Observer)
              \cup Permutations(Connection)
=============================================================================
