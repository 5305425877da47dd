----------------------------- MODULE MCSeatMap -----------------------------
(***************************************************************************)
(* SeatMap for TLC, with two letters: the rows of the stand are A, B, AA,  *)
(* AB, BA, BB and AAA.                                                     *)
(***************************************************************************)
EXTENDS SeatMap

Stand == <<[code |-> "101", rows |-> 7, seats_per_row |-> 1],
           [code |-> "VIP", rows |-> 1, seats_per_row |-> 2]>>

OneSeat == {[section |-> "VIP", row |-> <<0>>, number |-> 1]}
=============================================================================
