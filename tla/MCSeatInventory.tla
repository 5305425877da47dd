-------------------------- MODULE MCSeatInventory --------------------------
(***************************************************************************)
(* Small instances of SeatInventory for TLC.  SeatInventoryProofs has its  *)
(* inductive invariant.                                                    *)
(***************************************************************************)
EXTENDS SeatInventoryProofs, TLC

Call(k, client, ids, payer) ==
  [key |-> k, session |-> client, seats |-> ids, pays |-> payer]

(* Two shoppers want the same pair of seats; the first one pays. *)
ReqRace == 1 :> Call("k1", "alice", {1, 2}, TRUE)
             @@ 2 :> Call("k2", "bob", {1, 2}, FALSE)

(* Two holds of a seat each, in the other order than their seats, so that   *)
(* one pass may free both; and a retry of the second for both the seats.    *)
(* Alice may pay, with luck before her hold has run out.                    *)
ReqBatch == 1 :> Call("k1", "alice", {2}, TRUE)
              @@ 2 :> Call("k2", "bob", {1}, FALSE)
              @@ 3 :> Call("k2", "bob", {1, 2}, FALSE)

(* A retry with its key while the first call runs, for another seat; the    *)
(* same key from another session; and seat 3, which does not exist.         *)
ReqKeys == 1 :> Call("k1", "alice", {1}, TRUE)
             @@ 2 :> Call("k1", "alice", {2}, FALSE)
             @@ 3 :> Call("k1", "bob", {1, 2, 3}, FALSE)

(* Two holds of a seat each; the first is paid for. *)
ReqApart == 1 :> Call("k1", "alice", {1}, TRUE)
              @@ 2 :> Call("k2", "bob", {2}, FALSE)
=============================================================================
