SPECIFICATION Spec
CONSTANTS
  Caller = {m1, m2}
  Observer = {o1, o2}
  Connection = {c1, c2}
  MaxEpoch = 4
  MaxRevision = 6
  None = None
SYMMETRY Symmetry
INVARIANTS OpenSocketIsShown IdlePhaseIsTrue EndedSessionIsOver ObserverConverges
