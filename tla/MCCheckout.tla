----------------------------- MODULE MCCheckout -----------------------------
(***************************************************************************)
(* Small instances of Checkout for TLC.                                    *)
(***************************************************************************)
EXTENDS Checkout, TLC

Call(k, client, r) == [key |-> k, session |-> client, res |-> r]

(* Alice checks out a hold, retries with her key, and tries once more from  *)
(* a second tab; then a stranger uses her key.                              *)
ReqTabs == 1 :> Call("k1", "alice", "hold") @@ 2 :> Call("k1", "alice", "hold")
             @@ 3 :> Call("k2", "alice", "hold") @@ 4 :> Call("k1", "bob", "hold")

(* Two tries for a hold and two for a GA reservation. *)
ReqBoth == 1 :> Call("k1", "alice", "hold") @@ 2 :> Call("k1", "alice", "hold")
             @@ 3 :> Call("k3", "bob", "ga") @@ 4 :> Call("k3", "bob", "ga")

(* Three tries, one after the other or at once. *)
ReqRetry(r) == [c \in 1..3 |-> Call("k1", "alice", r)]
ReqRetryHold == ReqRetry("hold")
ReqRetryGa == ReqRetry("ga")

OwnerBoth == "hold" :> "alice" @@ "ga" :> "bob"
OwnerAlice == "hold" :> "alice" @@ "ga" :> "alice"
=============================================================================
