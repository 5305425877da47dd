--------------------------- MODULE MCWaitingRoom ---------------------------
(***************************************************************************)
(* WaitingRoom for TLC: visitors and requests have no order, so the safety *)
(* runs identify the states that differ in their names only.  A flood puts *)
(* its fans in line in an order, and goes without symmetry.                *)
(***************************************************************************)
EXTENDS WaitingRoom, TLC

CONSTANTS fan1, fan2, fan3

NoFans == <<>>
TwoFans == <<fan1, fan2>>
ThreeFans == <<fan1, fan2, fan3>>

Symmetry == Permutations(Visitors) \union Permutations(Requests)
=============================================================================
