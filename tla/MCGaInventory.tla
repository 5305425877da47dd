--------------------------- MODULE MCGaInventory ---------------------------
(***************************************************************************)
(* Small instances of GaInventory for TLC.                                 *)
(***************************************************************************)
EXTENDS GaInventory, TLC

Call(k, client, n, payer) == [key |-> k, session |-> client, quantity |-> n, pays |-> payer]

(* Three places.  Alice clicks twice, first for one place and then for two, *)
(* and pays for the first; Carol and Dave want one each and never pay; Bob  *)
(* uses Alice's key and wants more places than a call may ask for.          *)
ReqSale == 1 :> Call("k1", "alice", 1, TRUE) @@ 2 :> Call("k1", "alice", 2, FALSE)
             @@ 3 :> Call("k3", "carol", 1, FALSE) @@ 4 :> Call("k4", "dave", 1, FALSE)
             @@ 5 :> Call("k1", "bob", 3, FALSE)

(* Three shoppers who race for the same three places; only Alice pays. *)
ReqReturn == 1 :> Call("k1", "alice", 1, TRUE) @@ 3 :> Call("k3", "carol", 1, FALSE)
               @@ 4 :> Call("k4", "dave", 1, FALSE)

(* Two shoppers after all the places. *)
ReqAll == 1 :> Call("k1", "alice", 2, TRUE) @@ 2 :> Call("k2", "bob", 2, TRUE)
=============================================================================
