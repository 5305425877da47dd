---------------------------- MODULE Reservation ----------------------------
(***************************************************************************)
(* What the checkout can see of a reservation, a hold of assigned seats or *)
(* a general admission reservation: it is made, it runs out, a confirm     *)
(* finds it ACTIVE and sells it with its commit, a worker pass finds it    *)
(* lapsed and not paid for and expires it with its commit.                 *)
(*                                                                         *)
(* Checkout is built from these steps; SeatInventory and GaInventory are   *)
(* shown to implement them, so that the saga is checked against what the   *)
(* inventory really does.                                                  *)
(***************************************************************************)
CONSTANTS Reservations,  \* holds and general admission reservations
          Assigned,      \* those that are holds of assigned seats
          Calls,         \* the calls that confirm
          None           \* no reservation

VARIABLES inv,         \* status of each reservation, "NONE" before it is made
          lapsed,      \* those that have run out
          paid,        \* those with a captured payment
          looked,      \* those a pass has locked and found not to be paid for
          confirming   \* the reservation a call has found ACTIVE, or None

vars == <<inv, lapsed, paid, looked, confirming>>

Init == /\ inv = [r \in Reservations |-> "NONE"]
        /\ lapsed = {} /\ paid = {} /\ looked = {}
        /\ confirming = [c \in Calls |-> None]

Make(r) == /\ inv[r] = "NONE" /\ inv' = [inv EXCEPT ![r] = "ACTIVE"]
           /\ UNCHANGED <<lapsed, paid, looked, confirming>>

Pay(r) == /\ inv[r] \in {"ACTIVE", "EXPIRED"} /\ paid' = paid \union {r}
          /\ UNCHANGED <<inv, lapsed, looked, confirming>>

(* The steps below read paid, and leave it alone. *)

Lapse(r) == /\ r \notin lapsed /\ lapsed' = lapsed \union {r}
            /\ UNCHANGED <<inv, looked, confirming>>

(* confirm_assigned takes the rows of the seats, confirm_ga only looks. *)
SeatsTaken(r) == r \in Assigned /\ \E c \in Calls : confirming[c] = r

Find(c, r) == /\ inv[r] = "ACTIVE" /\ ~SeatsTaken(r)
              /\ confirming' = [confirming EXCEPT ![c] = r]
              /\ UNCHANGED <<inv, lapsed, looked>>

(* Bug: nobody waits for the row. *)
BugNoRowLock(r) == TRUE
RowIsFree(r) == r \notin looked

(* The status is written by the commit, to a row that a worker may have     *)
(* locked, and whatever has become of it since.                             *)
Sell(c) == /\ confirming[c] # None /\ RowIsFree(confirming[c])
           /\ inv' = [inv EXCEPT ![confirming[c]] = "CONFIRMED"]
           /\ confirming' = [confirming EXCEPT ![c] = None]
           /\ UNCHANGED <<lapsed, looked>>

GiveUp(c) == /\ confirming[c] # None
             /\ confirming' = [confirming EXCEPT ![c] = None]
             /\ UNCHANGED <<inv, lapsed, looked>>

Look(r) == /\ inv[r] = "ACTIVE" /\ r \in lapsed \ looked /\ r \notin paid
           /\ looked' = looked \union {r}
           /\ UNCHANGED <<inv, lapsed, confirming>>

(* A pass lets go of what it has looked at, and has expired some of it. *)
EndPass(L, E) ==
  /\ L \subseteq looked /\ E \subseteq L /\ \A r \in E : ~SeatsTaken(r)
  /\ inv' = [r \in Reservations |-> IF r \in E THEN "EXPIRED" ELSE inv[r]]
  /\ looked' = looked \ L
  /\ UNCHANGED <<lapsed, confirming>>

Step == \/ \E r \in Reservations : Lapse(r) \/ Look(r)
        \/ \E c \in Calls : Sell(c) \/ GiveUp(c) \/ \E r \in Reservations : Find(c, r)
        \/ \E L \in SUBSET looked : \E E \in SUBSET L : EndPass(L, E)

Next == \/ \E r \in Reservations : Make(r) \/ Pay(r)
        \/ Step /\ UNCHANGED paid

Spec == Init /\ [][Next]_vars
=============================================================================
