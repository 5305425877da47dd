----------------------------- MODULE SeatLedger -----------------------------
(***************************************************************************)
(* What the sale of assigned seats promises, without locks, calls or       *)
(* clocks: a hold takes all of its seats or none, and from there they are  *)
(* either all sold to that hold or all given back.  SeatInventory is shown *)
(* to implement this module.                                               *)
(***************************************************************************)
CONSTANTS Stock,   \* the seats of the match
          Holds,   \* the holds that may ever be taken
          Wanted,  \* Wanted[h]: the seats hold h is for
          Key,     \* Key[h]: the idempotency key of the call that takes h
          None     \* no owner

VARIABLES owner,   \* owner[s]: the hold that has seat s, or None
          sold,    \* the seats that are sold
          status   \* status[h]: the hold's row, "NONE" before it is written

vars == <<owner, sold, status>>

Init == /\ owner = [s \in Stock |-> None]
        /\ sold = {}
        /\ status = [h \in Holds |-> "NONE"]

(* A hold is all or nothing, over seats nobody has, once per key. *)
Take(h) == /\ status[h] = "NONE"
           /\ \A g \in Holds : Key[g] = Key[h] => status[g] = "NONE"
           /\ Wanted[h] \subseteq {s \in Stock : owner[s] = None}
           /\ owner' = [s \in Stock |-> IF s \in Wanted[h] THEN h ELSE owner[s]]
           /\ status' = [status EXCEPT ![h] = "ACTIVE"]
           /\ UNCHANGED sold

Sell(h) == /\ status[h] = "ACTIVE"
           /\ sold' = sold \union Wanted[h]
           /\ status' = [status EXCEPT ![h] = "CONFIRMED"]
           /\ UNCHANGED owner

(* One worker pass may give back the seats of several holds at once. *)
GiveBack(H) ==
  /\ \A h \in H : status[h] = "ACTIVE"
  /\ owner' = [s \in Stock |-> IF owner[s] \in H THEN None ELSE owner[s]]
  /\ status' = [h \in Holds |-> IF h \in H THEN "EXPIRED" ELSE status[h]]
  /\ UNCHANGED sold

Next == \/ \E h \in Holds : Take(h) \/ Sell(h)
        \/ \E H \in SUBSET Holds : GiveBack(H)

Spec == Init /\ [][Next]_vars
=============================================================================
