------------------------------ MODULE RemotePad ------------------------------
(***************************************************************************)
(* What the emulator promises the player about remote controllers: the     *)
(* remote buttons of the game belong to at most one connection, are shaped *)
(* by that connection alone, are all released when it is let go, and a     *)
(* connection that was let go never plays again.                           *)
(***************************************************************************)
EXTENDS Naturals

CONSTANTS
  Button,         \* joypad buttons
  MaxGeneration   \* the largest generation number

Generation == 1 .. MaxGeneration

VARIABLES
  holder,    \* the generation whose buttons the game sees, 0 for nobody
  pad,       \* the remote buttons the game is to see pressed
  released   \* the latest generation let go

vars == <<holder, pad, released>>

Init ==
  /\ holder = 0
  /\ pad = {}
  /\ released = 0

\* A connection takes the free pad; every earlier one was let go.
Attach ==
  /\ holder = 0
  /\ holder' = released + 1
  /\ holder' \in Generation
  /\ UNCHANGED <<pad, released>>

\* The holder changes its buttons.
Play ==
  /\ holder # 0
  /\ pad' \in SUBSET Button
  /\ UNCHANGED <<holder, released>>

\* Everything up to a generation is let go, the holder included.
Release ==
  /\ released' \in Generation
  /\ released' > released
  /\ holder <= released'
  /\ holder' = 0
  /\ pad' = {}

Next == Attach \/ Play \/ Release

Spec == Init /\ [][Next]_vars
=============================================================================
