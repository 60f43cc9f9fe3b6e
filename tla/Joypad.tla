------------------------------- MODULE Joypad -------------------------------
(* The buttons of the emulator core (crates/gb-core/src/joypad.rs): the     *)
(* matrix that unites the input sources, and the register P1, whose four    *)
(* lines show the rows that the game selected.  A line is low when a button *)
(* of a selected row is held; a line that falls requests the interrupt.     *)

CONSTANTS
  Source,     \* where input comes from: keyboard, remote
  Row, Line   \* a button sits in a row (directions, actions) on a line

Buttons == SUBSET (Row \X Line)

JoypadState == [selected : SUBSET Row, state : Buttons, low : SUBSET Line]

InitialJoypad == [selected |-> {}, state |-> {}, low |-> {}]

\* InputMatrix::effective.
Effective(inputs) == UNION {inputs[s] : s \in Source}

LowLines(selected, state) ==
  {l \in Line : \E r \in selected : <<r, l>> \in state}

Update(j, selected, state) ==
  [selected |-> selected, state |-> state, low |-> LowLines(selected, state)]

WriteSelect(j, selected) == Update(j, selected, j.state)

SetState(j, state) == Update(j, j.selected, state)

\* Some line fell from before to after.
Fell(before, after) == after.low \ before.low # {}
=============================================================================
