---------------------------- MODULE CheckoutProofs ----------------------------
(***************************************************************************)
(* Proofs about Checkout for any calls, keys, clients and reservations,    *)
(* and any number of faults: what holds however the calls overlap, and     *)
(* then what holds for clients that do not overlap their own calls.        *)
(***************************************************************************)
EXTENDS Checkout, TLAPS

-----------------------------------------------------------------------------
(* What holds however the calls overlap                                     *)

AtWork == {"ensure", "payment", "charge", "decline", "capture", "settle", "finalize",
           "commit", "rollback", "refund", "compensate"}

(* A call works on an order that has its key, its own or an earlier one.    *)
CallInv(c) ==
  /\ pc[c] \in {"idle", "quote", "order"} => orders[c] = "NONE" /\ my[c] = None
  /\ pc[c] \in AtWork => my[c] # None
  /\ my[c] # None => orders[my[c]] # "NONE" /\ SameKey(my[c], c)

(* The unique indexes, and that payments, charges and tickets have orders. *)
OrderInv ==
  /\ \A b, c \in Calls :
       orders[b] # "NONE" /\ orders[c] # "NONE" /\ OrderConflict(b, c) => b = c
  /\ \A o \in Calls : orders[o] = "NONE" =>
       payments[o] = "NONE" /\ charges[o] = "none" /\ tickets[o] = 0

(* Whoever is about to sell a hold is alone with it, and it is there to be  *)
(* sold: the seats keep other confirms and the worker away.                 *)
CommitInv(c) ==
  pc[c] = "commit" /\ MyRes(c) \in Assigned =>
    /\ inv[MyRes(c)] = "ACTIVE"
    /\ \A b \in Calls \ {c} : pc[b] = "commit" => MyRes(b) # MyRes(c)

LookedInv == \A r \in looked : inv[r] = "ACTIVE"

IInv == /\ TypeOK
        /\ \A c \in Calls : CallInv(c)
        /\ OrderInv
        /\ HoldIsSoldOnce
        /\ \A c \in Calls : CommitInv(c)
        /\ LookedInv

-----------------------------------------------------------------------------
(* The steps of Reservation in the terms of the saga                        *)

LEMMA SeatsTakenIs ==
  ASSUME NEW r \in Reservations
  PROVE  Stock!SeatsTaken(r) <=>
           r \in Assigned /\ \E c \in Calls : pc[c] = "commit" /\ MyRes(c) = r
BY CheckoutAssumption DEF Stock!SeatsTaken

LEMMA ResIs == \A c \in Calls : Res(c) \in Reservations
BY CheckoutAssumption DEF Res

LEMMA SellIs ==
  ASSUME TypeOK, NEW c \in Calls, CallInv(c), CommitSale(c)
  PROVE  /\ MyRes(c) \in Reservations \ looked
         /\ inv' = [inv EXCEPT ![MyRes(c)] = "CONFIRMED"]
         /\ UNCHANGED <<lapsed, looked>>
<1>1. pc[c] = "commit" /\ my[c] \in Calls
  BY DEF CommitSale, CallInv, TypeOK, AtWork
<1>2. MyRes(c) \in Reservations
  BY <1>1, ResIs DEF MyRes
<1> QED BY <1>1, <1>2 DEF CommitSale, Stock!Sell, Stock!RowIsFree

LEMMA EndPassIs ==
  ASSUME NEW r \in Reservations, WorkerExpires(r) \/ WorkerGivesUp(r)
  PROVE  /\ r \in looked /\ looked' = looked \ {r} /\ UNCHANGED lapsed
         /\ \/ inv' = [q \in Reservations |-> inv[q]]
            \/ /\ inv' = [q \in Reservations |-> IF q = r THEN "EXPIRED" ELSE inv[q]]
               /\ ~Stock!SeatsTaken(r)
<1>1. CASE WorkerExpires(r)
  BY <1>1 DEF WorkerExpires, Stock!EndPass
<1>2. CASE WorkerGivesUp(r)
  BY <1>2 DEF WorkerGivesUp, Stock!EndPass
<1> QED BY <1>1, <1>2

LEMMA ConfirmIs ==
  ASSUME TypeOK, NEW c \in Calls, CallInv(c), Confirm(c)
  PROVE  /\ pc[c] = "finalize" /\ UNCHANGED <<inv, lapsed, looked, my>>
         /\ MyRes(c) \in Reservations /\ ~Stock!SeatsTaken(MyRes(c))
         /\ \/ pc' = [pc EXCEPT ![c] = "commit"] /\ inv[MyRes(c)] = "ACTIVE"
            \/ pc' = [pc EXCEPT ![c] = "rollback"] /\ inv[MyRes(c)] # "ACTIVE"
<1>1. pc[c] = "finalize" /\ my[c] \in Calls
  BY DEF Confirm, CallInv, TypeOK, AtWork
<1>2. MyRes(c) \in Reservations
  BY <1>1, ResIs DEF MyRes
<1> QED BY <1>1, <1>2 DEF Confirm, Stock!Find, Goto, inventory

-----------------------------------------------------------------------------
(* Type correctness                                                         *)

Pcs == Ended \union {"idle", "quote", "order"} \union AtWork

LEMMA TypeInit == Init => TypeOK
BY CheckoutAssumption DEF Init, TypeOK, Final, Ended

LEMMA TypeStep ==
  ASSUME IInv, NEW c \in Calls, LookupOrder(c) \/ Step(c) PROVE TypeOK'
<1> USE CheckoutAssumption DEF rows, psp, inventory, call
<1>o. TypeOK /\ CallInv(c)
  BY DEF IInv
<1>p. ASSUME NEW where \in Pcs, Goto(c, where) PROVE pc' \in [Calls -> Pcs]
  BY <1>o, <1>p DEF TypeOK, Goto, Pcs, AtWork
<1>q. pc' \in [Calls -> Pcs] => pc' \in
        [Calls -> Ended \union
                {"idle", "quote", "order", "ensure", "payment", "charge", "decline",
                 "capture", "settle", "finalize", "commit", "rollback", "refund",
                 "compensate"}]
  BY DEF Pcs, AtWork
<1>w. pc[c] \in AtWork => my[c] \in Calls
  BY <1>o DEF CallInv, TypeOK
<1>t. ASSUME Begin(c) \/ EndTx(c) \/ UNCHANGED tx PROVE tx' \subseteq Calls
  BY <1>o, <1>t DEF Begin, EndTx, TypeOK
<1>1. CASE LookupOrder(c)
  <2>1. pc' \in [Calls -> Pcs]
    BY <1>1, <1>p DEF LookupOrder, Pcs, Ended, AtWork
  <2>2. my' \in [Calls -> Calls \union {None}]
    BY <1>o, <1>1 DEF LookupOrder, TypeOK
  <2>3. told' \in [Calls -> Final \union {"NONE", "PAYMENT_PENDING"}]
    BY <1>o, <1>1 DEF LookupOrder, Tell, TypeOK
  <2>4. tx' \subseteq Calls
    BY <1>1, <1>t DEF LookupOrder
  <2> QED BY <1>o, <1>q, <1>1, <2>1, <2>2, <2>3, <2>4 DEF LookupOrder, TypeOK
<1>2. CASE Quote(c)
  <2>1. pc' \in [Calls -> Pcs] /\ tx' \subseteq Calls
    BY <1>2, <1>p, <1>t DEF Quote, Pcs, Ended, AtWork
  <2> QED BY <1>o, <1>q, <1>2, <2>1 DEF Quote, TypeOK
<1>3. CASE InsertOrder(c)
  <2>1. pc' \in [Calls -> Pcs] /\ tx' \subseteq Calls
    BY <1>3, <1>p, <1>t DEF InsertOrder, Pcs, Ended, AtWork
  <2>2. orders' \in [Calls -> Final \union {"NONE", "PAYMENT_PENDING"}]
    BY <1>o, <1>3 DEF InsertOrder, TypeOK
  <2>3. my' \in [Calls -> Calls \union {None}]
    BY <1>o, <1>3 DEF InsertOrder, TypeOK
  <2> QED BY <1>o, <1>q, <1>3, <2>1, <2>2, <2>3 DEF InsertOrder, TypeOK
<1>4. CASE ReadPayment(c)
  <2>1. pc' \in [Calls -> Pcs] /\ tx' \subseteq Calls
    BY <1>4, <1>p, <1>t DEF ReadPayment, Pcs, Ended, AtWork
  <2>2. my[c] \in Calls
    BY <1>4, <1>w DEF ReadPayment, AtWork
  <2>3. paySeen' \in [Calls -> {"NONE", "PENDING", "CAPTURED", "FAILED", "REFUNDED"}]
    BY <1>o, <1>4, <2>2 DEF ReadPayment, See, TypeOK
  <2> QED BY <1>o, <1>q, <1>4, <2>1, <2>3 DEF ReadPayment, TypeOK
<1>5. CASE InsertPayment(c)
  <2>1. pc' \in [Calls -> Pcs] /\ tx' \subseteq Calls
    BY <1>5, <1>p, <1>t DEF InsertPayment, Pcs, Ended, AtWork
  <2>2. payments' \in [Calls -> {"NONE", "PENDING", "CAPTURED", "FAILED", "REFUNDED"}]
    BY <1>o, <1>5 DEF InsertPayment, TypeOK
  <2>3. paySeen' \in [Calls -> {"NONE", "PENDING", "CAPTURED", "FAILED", "REFUNDED"}]
    BY <1>o, <1>5 DEF InsertPayment, See, TypeOK
  <2> QED BY <1>o, <1>q, <1>5, <2>1, <2>2, <2>3 DEF InsertPayment, TypeOK
<1>6. CASE Charge(c)
  <2>1. pc' \in [Calls -> Pcs] /\ tx' \subseteq Calls
    BY <1>6, <1>p, <1>t DEF Charge, Pcs, Ended, AtWork
  <2>2. my[c] \in Calls
    BY <1>6, <1>w DEF Charge, AtWork
  <2>3. charges' \in [Calls -> {"none", "ok", "declined"}]
    BY <1>o, <1>6, <2>2 DEF Charge, PspAnswer, TypeOK
  <2>4. faults' \in 0..MaxFaults
    BY <1>o, <1>6 DEF Charge, TypeOK
  <2> QED BY <1>o, <1>q, <1>6, <2>1, <2>3, <2>4 DEF Charge, TypeOK
<1>7. CASE CommitDecline(c)
  <2>1. pc' \in [Calls -> Pcs] /\ tx' \subseteq Calls
    BY <1>7, <1>p, <1>t DEF CommitDecline, Pcs, Ended, AtWork
  <2>2. /\ payments' \in [Calls -> {"NONE", "PENDING", "CAPTURED", "FAILED", "REFUNDED"}]
        /\ orders' \in [Calls -> Final \union {"NONE", "PAYMENT_PENDING"}]
        /\ told' \in [Calls -> Final \union {"NONE", "PAYMENT_PENDING"}]
    BY <1>o, <1>7 DEF CommitDecline, Tell, TypeOK, Final
  <2> QED BY <1>o, <1>q, <1>7, <2>1, <2>2 DEF CommitDecline, TypeOK
<1>8. CASE CommitCapture(c)
  <2>1. pc' \in [Calls -> Pcs] /\ tx' \subseteq Calls
    BY <1>8, <1>p, <1>t DEF CommitCapture, Pcs, Ended, AtWork
  <2>2. /\ payments' \in [Calls -> {"NONE", "PENDING", "CAPTURED", "FAILED", "REFUNDED"}]
        /\ paySeen' \in [Calls -> {"NONE", "PENDING", "CAPTURED", "FAILED", "REFUNDED"}]
    BY <1>o, <1>8 DEF CommitCapture, See, TypeOK
  <2> QED BY <1>o, <1>q, <1>8, <2>1, <2>2 DEF CommitCapture, TypeOK
<1>9. CASE Settle(c)
  <2>1. pc' \in [Calls -> Pcs] /\ tx' \subseteq Calls
    BY <1>9, <1>p, <1>t DEF Settle, Pcs, Ended, AtWork
  <2>2. told' \in [Calls -> Final \union {"NONE", "PAYMENT_PENDING"}]
    BY <1>o, <1>9 DEF Settle, Tell, TypeOK
  <2> QED BY <1>o, <1>q, <1>9, <2>1, <2>2 DEF Settle, TypeOK
<1>10. CASE Confirm(c)
  <2>1. pc' \in [Calls -> Pcs] /\ tx' \subseteq Calls
    BY <1>10, <1>p, <1>t DEF Confirm, Pcs, Ended, AtWork
  <2>2. UNCHANGED <<inv, lapsed, looked, my>>
    BY <1>10, <1>o, ConfirmIs
  <2> QED BY <1>o, <1>q, <1>10, <2>1, <2>2 DEF Confirm, TypeOK
<1>11. CASE CommitSale(c)
  <2>1. pc' \in [Calls -> Pcs] /\ tx' \subseteq Calls
    BY <1>11, <1>p, <1>t DEF CommitSale, Pcs, Ended, AtWork
  <2>2. /\ inv' \in [Reservations -> {"ACTIVE", "CONFIRMED", "EXPIRED"}]
        /\ UNCHANGED <<lapsed, looked>>
    BY <1>o, <1>11, SellIs DEF TypeOK
  <2>3. /\ orders' \in [Calls -> Final \union {"NONE", "PAYMENT_PENDING"}]
        /\ told' \in [Calls -> Final \union {"NONE", "PAYMENT_PENDING"}]
    BY <1>o, <1>11 DEF CommitSale, Tell, TypeOK, Final
  <2>4. my[c] \in Calls
    BY <1>11, <1>w DEF CommitSale, AtWork
  <2>5. tickets' \in [Calls -> Nat]
    BY <1>o, <1>11, <2>4 DEF CommitSale, TypeOK
  <2> QED BY <1>o, <1>q, <1>11, <2>1, <2>2, <2>3, <2>5 DEF CommitSale, TypeOK
<1>12. CASE Rollback(c)
  <2>1. pc' \in [Calls -> Pcs] /\ tx' \subseteq Calls
    BY <1>12, <1>p, <1>t DEF Rollback, Pcs, Ended, AtWork
  <2> QED BY <1>o, <1>q, <1>12, <2>1 DEF Rollback, TypeOK
<1>13. CASE Refund(c)
  <2>1. pc' \in [Calls -> Pcs]
    BY <1>13, <1>p DEF Refund, Pcs, Ended, AtWork
  <2>2. my[c] \in Calls
    BY <1>13, <1>w DEF Refund, AtWork
  <2>3. refunds' \subseteq Calls
    BY <1>o, <1>13, <2>2 DEF Refund, TypeOK
  <2> QED BY <1>o, <1>q, <1>13, <2>1, <2>3 DEF Refund, TypeOK
<1>14. CASE Compensate(c)
  <2>1. pc' \in [Calls -> Pcs]
    BY <1>14, <1>p DEF Compensate, Pcs, Ended, AtWork
  <2>2. /\ payments' \in [Calls -> {"NONE", "PENDING", "CAPTURED", "FAILED", "REFUNDED"}]
        /\ orders' \in [Calls -> Final \union {"NONE", "PAYMENT_PENDING"}]
        /\ told' \in [Calls -> Final \union {"NONE", "PAYMENT_PENDING"}]
    BY <1>o, <1>14 DEF Compensate, Tell, TypeOK, Final
  <2>3. my[c] \in Calls
    BY <1>14, <1>w DEF Compensate, AtWork
  <2>4. alerts' \in [Calls -> Nat]
    BY <1>o, <1>14, <2>3 DEF Compensate, TypeOK
  <2> QED BY <1>o, <1>q, <1>14, <2>1, <2>2, <2>4 DEF Compensate, TypeOK
<1> QED BY <1>1, <1>2, <1>3, <1>4, <1>5, <1>6, <1>7, <1>8, <1>9, <1>10, <1>11, <1>12,
           <1>13, <1>14 DEF Step

LEMMA TypeAround ==
  ASSUME IInv,
         \/ \E c \in Calls : Fault(c) \/ DeadlockVictim(c)
         \/ \E r \in Reservations :
              Lapse(r) \/ WorkerLooks(r) \/ WorkerExpires(r) \/ WorkerGivesUp(r)
         \/ UNCHANGED vars
  PROVE  TypeOK'
<1> USE CheckoutAssumption DEF rows, psp, inventory, call
<1>o. TypeOK
  BY DEF IInv
<1>1. ASSUME NEW c \in Calls, FailCall(c), faults' \in 0..MaxFaults PROVE TypeOK'
  <2>1. /\ pc' = [pc EXCEPT ![c] = "error"] /\ tx' = tx \ {c}
        /\ UNCHANGED <<rows, psp, inventory, call, paySeen>>
    BY <1>1 DEF FailCall, Goto, EndTx
  <2> QED BY <1>o, <1>1, <2>1 DEF TypeOK, Ended
<1>2. ASSUME NEW c \in Calls, Fault(c) \/ DeadlockVictim(c) PROVE TypeOK'
  BY <1>o, <1>1, <1>2 DEF Fault, DeadlockVictim, TypeOK
<1>3. ASSUME NEW r \in Reservations, Lapse(r) PROVE TypeOK'
  BY <1>o, <1>3 DEF Lapse, Stock!Lapse, Elsewhere, TypeOK
<1>4. ASSUME NEW r \in Reservations, WorkerLooks(r) PROVE TypeOK'
  BY <1>o, <1>4 DEF WorkerLooks, Stock!Look, Elsewhere, TypeOK
<1>5. ASSUME NEW r \in Reservations, WorkerExpires(r) \/ WorkerGivesUp(r) PROVE TypeOK'
  <2>1. inv' \in [Reservations -> {"ACTIVE", "CONFIRMED", "EXPIRED"}]
    BY <1>o, <1>5, EndPassIs DEF TypeOK
  <2>2. looked' \subseteq Reservations /\ UNCHANGED lapsed
    BY <1>o, <1>5, EndPassIs DEF TypeOK
  <2> QED BY <1>o, <1>5, <2>1, <2>2 DEF WorkerExpires, WorkerGivesUp, Elsewhere, TypeOK
<1>6. CASE UNCHANGED vars
  BY <1>o, <1>6 DEF vars, TypeOK
<1> QED BY <1>2, <1>3, <1>4, <1>5, <1>6

LEMMA TypeNext == IInv /\ [Next]_vars => TypeOK'
BY TypeStep, TypeAround DEF Next

-----------------------------------------------------------------------------
(* Calls and orders                                                         *)

(* A step of a call other than the lookup and the insert keeps its order,   *)
(* and no other call notices.                                               *)
LEMMA CallGoesOn ==
  ASSUME IInv, TypeOK', NEW c \in Calls, NEW where \in Ended \union AtWork,
         Goto(c, where), UNCHANGED my,
         pc[c] \in AtWork \/ where \in Ended,
         \A o \in Calls : orders'[o] = "NONE" <=> orders[o] = "NONE",
         \A o \in Calls \ {my[c]} : /\ payments'[o] = payments[o]
                                    /\ charges'[o] = charges[o]
                                    /\ tickets'[o] = tickets[o]
  PROVE  (\A b \in Calls : CallInv(b)') /\ OrderInv'
<1> USE CheckoutAssumption
<1>1. /\ pc'[c] = where /\ \A b \in Calls \ {c} : pc'[b] = pc[b]
  BY DEF IInv, TypeOK, Goto
<1>2. ASSUME NEW b \in Calls PROVE CallInv(b)'
  BY <1>1 DEF IInv, TypeOK, CallInv, AtWork, Ended, SameKey
<1>3. \A o \in Calls : orders[o] = "NONE" => o \in Calls \ {my[c]}
  BY DEF IInv, CallInv
<1>4. OrderInv'
  BY <1>3 DEF IInv, OrderInv, OrderConflict, SameKey
<1> QED BY <1>2, <1>4

LEMMA CallStep ==
  ASSUME IInv, TypeOK', NEW c \in Calls, LookupOrder(c) \/ Step(c)
  PROVE  (\A b \in Calls : CallInv(b)') /\ OrderInv'
<1> USE CheckoutAssumption DEF rows, psp, inventory, call
<1> DEFINE P == (\A b \in Calls : CallInv(b)') /\ OrderInv'
<1>o. TypeOK /\ CallInv(c) /\ OrderInv
  BY DEF IInv
<1>w. pc[c] \in AtWork => my[c] \in Calls /\ orders[my[c]] # "NONE"
  BY <1>o DEF CallInv, TypeOK
<1>1. CASE LookupOrder(c)
  <2>1. CASE UNCHANGED call
    <3>1. PICK where \in {"quote", "refused"} : Goto(c, where)
      BY <1>1, <2>1, <1>o DEF LookupOrder, Goto, TypeOK, CallInv
    <3>2. pc'[c] = where /\ \A b \in Calls \ {c} : pc'[b] = pc[b]
      BY <1>o, <3>1 DEF Goto, TypeOK
    <3>3. pc[c] = "idle" /\ UNCHANGED <<orders, payments, charges, tickets>>
      BY <1>1 DEF LookupOrder
    <3>4. \A b \in Calls : CallInv(b)'
      BY <2>1, <3>2, <3>3 DEF IInv, CallInv, AtWork, SameKey
    <3> QED BY <1>o, <3>3, <3>4 DEF OrderInv
  <2>2. CASE ~UNCHANGED call
    <3>1. PICK b \in Calls :
            /\ SameKey(b, c) /\ orders[b] # "NONE"
            /\ my' = [my EXCEPT ![c] = b]
            /\ Goto(c, "returned") \/ Goto(c, "ensure")
      BY <1>1, <2>2 DEF LookupOrder
    <3>2. /\ pc'[c] \in {"returned", "ensure"} /\ my'[c] = b
          /\ \A d \in Calls \ {c} : pc'[d] = pc[d] /\ my'[d] = my[d]
      BY <1>o, <3>1 DEF Goto, TypeOK
    <3>3. UNCHANGED <<orders, payments, charges, tickets>>
      BY <1>1 DEF LookupOrder
    <3>4. \A d \in Calls : CallInv(d)'
      BY <3>1, <3>2, <3>3 DEF IInv, CallInv, AtWork, SameKey
    <3> QED BY <1>o, <3>3, <3>4 DEF OrderInv
  <2> QED BY <2>1, <2>2
<1>2. CASE Quote(c)
  <2>1. CASE Goto(c, "order")
    <3>1. pc'[c] = "order" /\ \A b \in Calls \ {c} : pc'[b] = pc[b]
      BY <1>o, <2>1 DEF Goto, TypeOK
    <3>2. pc[c] = "quote" /\ UNCHANGED <<orders, payments, charges, tickets, my>>
      BY <1>2 DEF Quote
    <3>3. \A b \in Calls : CallInv(b)'
      BY <3>1, <3>2 DEF IInv, CallInv, AtWork, SameKey
    <3> QED BY <1>o, <3>2, <3>3 DEF OrderInv
  <2>2. CASE Goto(c, "refused")
    BY <1>2, <2>2, CallGoesOn DEF Quote, Ended
  <2> QED BY <1>2, <2>1, <2>2 DEF Quote
<1>3. CASE InsertOrder(c)
  <2>1. CASE Goto(c, "error") /\ UNCHANGED <<orders, my>>
    BY <1>3, <2>1, CallGoesOn DEF InsertOrder, Ended
  <2>2. CASE /\ \A b \in Calls : OrderConflict(b, c) => orders[b] = "NONE"
             /\ orders' = [orders EXCEPT ![c] = "PAYMENT_PENDING"]
             /\ my' = [my EXCEPT ![c] = c] /\ Goto(c, "ensure")
    <3>1. /\ pc'[c] = "ensure" /\ my'[c] = c /\ orders'[c] = "PAYMENT_PENDING"
          /\ \A b \in Calls \ {c} : pc'[b] = pc[b] /\ my'[b] = my[b] /\ orders'[b] = orders[b]
      BY <1>o, <2>2 DEF Goto, TypeOK
    <3>2. UNCHANGED <<payments, charges, tickets>>
      BY <1>3 DEF InsertOrder
    <3>3. \A b \in Calls : CallInv(b)'
      BY <3>1 DEF IInv, CallInv, AtWork, SameKey, TypeOK
    <3>4. OrderInv'
      BY <1>o, <2>2, <3>1, <3>2 DEF OrderInv, OrderConflict, SameKey, Res
    <3> QED BY <3>3, <3>4
  <2> QED BY <1>3, <2>1, <2>2 DEF InsertOrder
<1>4. CASE ReadPayment(c)
  <2>1. PICK where \in {"payment", "charge", "settle"} : Goto(c, where)
    BY <1>4 DEF ReadPayment
  <2> QED BY <1>4, <2>1, CallGoesOn DEF ReadPayment, AtWork
<1>5. CASE InsertPayment(c)
  <2>1. PICK where \in {"charge", "error"} : Goto(c, where)
    BY <1>5 DEF InsertPayment
  <2>2. \A o \in Calls \ {my[c]} : payments'[o] = payments[o]
    BY <1>o, <1>5 DEF InsertPayment, TypeOK
  <2> QED BY <1>5, <2>1, <2>2, CallGoesOn DEF InsertPayment, AtWork, Ended
<1>6. CASE Charge(c)
  <2>1. PICK where \in {"capture", "decline", "error"} : Goto(c, where)
    BY <1>6 DEF Charge
  <2>2. \A o \in Calls \ {my[c]} : charges'[o] = charges[o]
    BY <1>o, <1>6 DEF Charge, TypeOK
  <2> QED BY <1>6, <2>1, <2>2, CallGoesOn DEF Charge, AtWork, Ended
<1>7. CASE CommitDecline(c)
  <2>1. /\ \A o \in Calls \ {my[c]} : payments'[o] = payments[o]
        /\ \A o \in Calls : orders'[o] = "NONE" <=> orders[o] = "NONE"
    BY <1>o, <1>7, <1>w DEF CommitDecline, TypeOK, AtWork
  <2> QED BY <1>7, <2>1, CallGoesOn DEF CommitDecline, Ended
<1>8. CASE CommitCapture(c)
  <2>1. \A o \in Calls \ {my[c]} : payments'[o] = payments[o]
    BY <1>o, <1>8 DEF CommitCapture, TypeOK
  <2> QED BY <1>8, <2>1, CallGoesOn DEF CommitCapture, AtWork
<1>9. CASE Settle(c)
  BY <1>9, CallGoesOn DEF Settle, AtWork, Ended
<1>10. CASE Confirm(c)
  <2>1. /\ UNCHANGED my /\ pc[c] = "finalize"
        /\ \E where \in {"commit", "rollback"} : Goto(c, where)
    BY <1>10, <1>o, ConfirmIs DEF Goto
  <2> QED BY <1>10, <2>1, CallGoesOn DEF Confirm, AtWork
<1>11. CASE CommitSale(c)
  <2>1. /\ \A o \in Calls \ {my[c]} : tickets'[o] = tickets[o]
        /\ \A o \in Calls : orders'[o] = "NONE" <=> orders[o] = "NONE"
    BY <1>o, <1>11, <1>w DEF CommitSale, TypeOK, AtWork
  <2> QED BY <1>11, <2>1, CallGoesOn DEF CommitSale, Ended
<1>12. CASE Rollback(c)
  BY <1>12, CallGoesOn DEF Rollback, AtWork, Ended
<1>13. CASE Refund(c)
  BY <1>13, CallGoesOn DEF Refund, AtWork
<1>14. CASE Compensate(c)
  <2>1. /\ \A o \in Calls \ {my[c]} : payments'[o] = payments[o]
        /\ \A o \in Calls : orders'[o] = "NONE" <=> orders[o] = "NONE"
    BY <1>o, <1>14, <1>w DEF Compensate, TypeOK, AtWork
  <2> QED BY <1>14, <2>1, CallGoesOn DEF Compensate, Ended
<1> QED BY <1>1, <1>2, <1>3, <1>4, <1>5, <1>6, <1>7, <1>8, <1>9, <1>10, <1>11, <1>12,
           <1>13, <1>14 DEF Step

LEMMA CallNext ==
  ASSUME IInv, TypeOK', [Next]_vars
  PROVE  (\A b \in Calls : CallInv(b)') /\ OrderInv'
<1> USE DEF rows, psp, inventory, call
<1>1. ASSUME NEW c \in Calls, LookupOrder(c) \/ Step(c)
      PROVE  (\A b \in Calls : CallInv(b)') /\ OrderInv'
  BY <1>1, CallStep
<1>2. ASSUME NEW c \in Calls, Fault(c) \/ DeadlockVictim(c)
      PROVE  (\A b \in Calls : CallInv(b)') /\ OrderInv'
  BY <1>2, CallGoesOn DEF Fault, DeadlockVictim, FailCall, Ended
<1>3. ASSUME \/ UNCHANGED vars
             \/ \E r \in Reservations :
                  Lapse(r) \/ WorkerLooks(r) \/ WorkerExpires(r) \/ WorkerGivesUp(r)
      PROVE  (\A b \in Calls : CallInv(b)') /\ OrderInv'
  <2>1. UNCHANGED <<pc, my, orders, payments, charges, tickets>>
    BY <1>3 DEF Lapse, WorkerLooks, WorkerExpires, WorkerGivesUp, Elsewhere, vars
  <2> QED BY <2>1 DEF IInv, CallInv, OrderInv, SameKey
<1> QED BY <1>1, <1>2, <1>3 DEF Next

-----------------------------------------------------------------------------
(* The sale                                                                 *)

(* Steps that neither sell nor bring a call to its commit. *)
LEMMA NoSale ==
  ASSUME IInv, UNCHANGED <<inv, tickets>>,
         \A c \in Calls : pc'[c] = "commit" => pc[c] = "commit" /\ my'[c] = my[c]
  PROVE  HoldIsSoldOnce' /\ \A c \in Calls : CommitInv(c)'
<1>1. HoldIsSoldOnce'
  BY DEF IInv, HoldIsSoldOnce, Res
<1>2. ASSUME NEW c \in Calls PROVE CommitInv(c)'
  BY DEF IInv, CommitInv, MyRes, Res
<1> QED BY <1>1, <1>2

(* The confirm that takes the seats finds nobody else about to commit. *)
LEMMA SaleConfirm ==
  ASSUME IInv, NEW c \in Calls, Confirm(c)
  PROVE  HoldIsSoldOnce' /\ \A b \in Calls : CommitInv(b)'
<1>1. /\ pc[c] = "finalize" /\ UNCHANGED <<inv, my, tickets>>
      /\ MyRes(c) \in Reservations /\ ~Stock!SeatsTaken(MyRes(c))
      /\ \/ pc' = [pc EXCEPT ![c] = "commit"] /\ inv[MyRes(c)] = "ACTIVE"
         \/ pc' = [pc EXCEPT ![c] = "rollback"]
  BY ConfirmIs DEF Confirm, rows, IInv
<1>2. HoldIsSoldOnce'
  BY <1>1 DEF IInv, HoldIsSoldOnce, Res
<1>3. \A b \in Calls : MyRes(b)' = MyRes(b)
  BY <1>1 DEF MyRes, Res
<1>4. MyRes(c) \in Assigned => \A b \in Calls : pc[b] = "commit" => MyRes(b) # MyRes(c)
  BY <1>1, SeatsTakenIs
<1>5. \A b \in Calls \ {c} : pc'[b] = pc[b]
  BY <1>1 DEF IInv, TypeOK
<1>6. pc'[c] = "commit" => inv[MyRes(c)] = "ACTIVE"
  BY <1>1 DEF IInv, TypeOK
<1>7. ASSUME NEW b \in Calls PROVE CommitInv(b)'
  <2>1. CASE b = c
    BY <1>1, <1>3, <1>4, <1>5, <1>6, <2>1 DEF CommitInv
  <2>2. CASE b # c
    BY <1>1, <1>3, <1>4, <1>5, <2>2 DEF IInv, CommitInv
  <2> QED BY <2>1, <2>2
<1> QED BY <1>2, <1>7

(* The commit sells what no order has a ticket for yet. *)
LEMMA SaleCommit ==
  ASSUME IInv, NEW c \in Calls, CommitSale(c)
  PROVE  /\ HoldIsSoldOnce' /\ LookedInv'
         /\ \A b \in Calls : CommitInv(b)'
<1> DEFINE o == my[c]
<1>1. /\ MyRes(c) \in Reservations \ looked /\ UNCHANGED <<looked, my>>
      /\ inv' = [inv EXCEPT ![MyRes(c)] = "CONFIRMED"]
  BY SellIs DEF IInv, CommitSale
<1>2. pc[c] = "commit" /\ o \in Calls /\ Res(o) = MyRes(c)
  BY DEF CommitSale, IInv, CallInv, TypeOK, AtWork, MyRes
<1>3. /\ inv'[Res(o)] = "CONFIRMED"
      /\ \A r \in Reservations \ {Res(o)} : inv'[r] = inv[r]
  BY <1>1, <1>2 DEF IInv, TypeOK
<1>4. /\ tickets'[o] = tickets[o] + 1
      /\ \A p \in Calls \ {o} : tickets'[p] = tickets[p]
  BY <1>2 DEF CommitSale, IInv, TypeOK
<1>5. pc'[c] = "returned" /\ \A b \in Calls \ {c} : pc'[b] = pc[b]
  BY DEF CommitSale, Goto, IInv, TypeOK
<1>6. HoldIsSoldOnce'
  <2> SUFFICES ASSUME NEW r \in Assigned
               PROVE  IF inv'[r] = "CONFIRMED"
                      THEN \E q \in Calls : /\ Res(q) = r /\ tickets'[q] = 1
                             /\ \A p \in Calls \ {q} : Res(p) = r => tickets'[p] = 0
                      ELSE \A q \in Calls : Res(q) = r => tickets'[q] = 0
    BY DEF HoldIsSoldOnce, Res
  <2>1. r \in Reservations
    BY CheckoutAssumption
  <2>2. CASE r = Res(o)
    <3>1. \A q \in Calls : Res(q) = r => tickets[q] = 0
      BY <1>2, <2>2 DEF IInv, CommitInv, HoldIsSoldOnce
    <3> QED BY <1>2, <1>3, <1>4, <2>2, <3>1
  <2>3. CASE r # Res(o)
    <3>1. inv'[r] = inv[r] /\ \A q \in Calls : Res(q) = r => tickets'[q] = tickets[q]
      BY <1>3, <1>4, <2>1, <2>3
    <3> QED BY <3>1 DEF IInv, HoldIsSoldOnce
  <2> QED BY <2>2, <2>3
<1>7. LookedInv'
  BY <1>1 DEF IInv, LookedInv, TypeOK
<1>8. \A b \in Calls : MyRes(b)' = MyRes(b)
  BY <1>1 DEF MyRes, Res
<1>9. ASSUME NEW b \in Calls, pc'[b] = "commit", MyRes(b) \in Assigned
      PROVE  /\ inv'[MyRes(b)] = "ACTIVE"
             /\ \A d \in Calls \ {b} : pc'[d] = "commit" => MyRes(d) # MyRes(b)
  <2>1. b # c /\ pc[b] = "commit"
    BY <1>5, <1>9
  <2>2. /\ inv[MyRes(b)] = "ACTIVE" /\ MyRes(b) # MyRes(c)
        /\ \A d \in Calls \ {b} : pc[d] = "commit" => MyRes(d) # MyRes(b)
    BY <1>2, <1>9, <2>1 DEF IInv, CommitInv
  <2>3. MyRes(b) \in Reservations
    BY <1>9, CheckoutAssumption
  <2> QED BY <1>2, <1>3, <1>5, <2>2, <2>3
<1> QED BY <1>6, <1>7, <1>8, <1>9 DEF CommitInv

(* The pass expires only what it has found ACTIVE, and waits for the seats. *)
LEMMA SaleExpiry ==
  ASSUME IInv, NEW r \in Reservations, WorkerExpires(r) \/ WorkerGivesUp(r)
  PROVE  /\ HoldIsSoldOnce' /\ LookedInv'
         /\ \A b \in Calls : CommitInv(b)'
<1>1. /\ r \in looked /\ looked' = looked \ {r} /\ inv[r] = "ACTIVE"
      /\ UNCHANGED <<pc, my, tickets>>
  BY EndPassIs DEF WorkerExpires, WorkerGivesUp, Elsewhere, IInv, LookedInv, rows, call
<1>2. \A q \in Reservations \ {r} : inv'[q] = inv[q]
  BY EndPassIs
<1>3. inv'[r] = "ACTIVE" \/ (inv'[r] = "EXPIRED" /\ ~Stock!SeatsTaken(r))
  <2>1. CASE inv' = [q \in Reservations |-> inv[q]]
    BY <1>1, <2>1
  <2>2. CASE /\ inv' = [q \in Reservations |-> IF q = r THEN "EXPIRED" ELSE inv[q]]
             /\ ~Stock!SeatsTaken(r)
    <3>1. inv'[r] = "EXPIRED"
      BY <2>2
    <3> QED BY <2>2, <3>1
  <2> QED BY <2>1, <2>2, EndPassIs
<1>4. ASSUME NEW q \in Reservations PROVE inv'[q] = "CONFIRMED" <=> inv[q] = "CONFIRMED"
  BY <1>1, <1>2, <1>3
<1>5. HoldIsSoldOnce'
  BY <1>1, <1>4, CheckoutAssumption DEF IInv, HoldIsSoldOnce, Res
<1>6. LookedInv'
  BY <1>1, <1>2 DEF IInv, LookedInv, TypeOK
<1>7. ASSUME NEW b \in Calls PROVE CommitInv(b)'
  <2>1. \A d \in Calls : MyRes(d)' = MyRes(d)
    BY <1>1 DEF MyRes, Res
  <2>2. ASSUME pc[b] = "commit", MyRes(b) \in Assigned PROVE inv'[MyRes(b)] = "ACTIVE"
    <3>1. MyRes(b) \in Reservations /\ Stock!SeatsTaken(MyRes(b))
      BY <2>2, SeatsTakenIs, CheckoutAssumption
    <3>2. inv[MyRes(b)] = "ACTIVE"
      BY <2>2 DEF IInv, CommitInv
    <3> QED BY <1>2, <1>3, <3>1, <3>2
  <2> QED BY <1>1, <2>1, <2>2 DEF IInv, CommitInv
<1> QED BY <1>5, <1>6, <1>7

LEMMA SaleNext ==
  ASSUME IInv, TypeOK', [Next]_vars
  PROVE  /\ HoldIsSoldOnce' /\ LookedInv'
         /\ \A c \in Calls : CommitInv(c)'
<1> USE DEF rows, psp, inventory, call
<1>q. ASSUME UNCHANGED <<inv, looked, tickets>>,
             \A c \in Calls : pc'[c] = "commit" => pc[c] = "commit" /\ my'[c] = my[c]
      PROVE  /\ HoldIsSoldOnce' /\ LookedInv'
             /\ \A c \in Calls : CommitInv(c)'
  <2>1. LookedInv'
    BY <1>q DEF IInv, LookedInv
  <2> QED BY <1>q, <2>1, NoSale
<1>g. ASSUME NEW c \in Calls, NEW where \in Pcs \ {"commit"}, Goto(c, where),
             UNCHANGED <<inv, looked, tickets>>,
             \A b \in Calls \ {c} : my'[b] = my[b]
      PROVE  /\ HoldIsSoldOnce' /\ LookedInv'
             /\ \A b \in Calls : CommitInv(b)'
  <2>1. pc'[c] # "commit" /\ \A b \in Calls \ {c} : pc'[b] = pc[b]
    BY <1>g DEF Goto, IInv, TypeOK
  <2> QED BY <1>q, <1>g, <2>1
<1> DEFINE P == /\ HoldIsSoldOnce' /\ LookedInv'
                /\ \A b \in Calls : CommitInv(b)'
<1>1. ASSUME NEW c \in Calls, LookupOrder(c) PROVE P
  <2>1. PICK where \in {"quote", "refused", "returned", "ensure"} : Goto(c, where)
    BY <1>1 DEF LookupOrder
  <2>2. \A b \in Calls \ {c} : my'[b] = my[b]
    BY <1>1 DEF LookupOrder, IInv, TypeOK
  <2> QED BY <1>1, <1>g, <2>1, <2>2 DEF LookupOrder, Pcs, Ended, AtWork
<1>2. ASSUME NEW c \in Calls, Quote(c) PROVE P
  BY <1>2, <1>g DEF Quote, Pcs, Ended
<1>3. ASSUME NEW c \in Calls, InsertOrder(c) PROVE P
  <2>1. \A b \in Calls \ {c} : my'[b] = my[b]
    BY <1>3 DEF InsertOrder, IInv, TypeOK
  <2> QED BY <1>3, <1>g, <2>1 DEF InsertOrder, Pcs, Ended, AtWork
<1>4. ASSUME NEW c \in Calls, ReadPayment(c) PROVE P
  <2>1. PICK where \in {"payment", "charge", "settle"} : Goto(c, where)
    BY <1>4 DEF ReadPayment
  <2> QED BY <1>4, <1>g, <2>1 DEF ReadPayment, Pcs, AtWork
<1>5. ASSUME NEW c \in Calls, InsertPayment(c) PROVE P
  BY <1>5, <1>g DEF InsertPayment, Pcs, Ended, AtWork
<1>6. ASSUME NEW c \in Calls, Charge(c) PROVE P
  <2>1. PICK where \in {"capture", "decline", "error"} : Goto(c, where)
    BY <1>6 DEF Charge
  <2> QED BY <1>6, <1>g, <2>1 DEF Charge, Pcs, Ended, AtWork
<1>7. ASSUME NEW c \in Calls, CommitDecline(c) \/ CommitCapture(c) PROVE P
  BY <1>7, <1>g DEF CommitDecline, CommitCapture, Pcs, Ended, AtWork
<1>8. ASSUME NEW c \in Calls, Settle(c) \/ Rollback(c) PROVE P
  BY <1>8, <1>g DEF Settle, Rollback, Pcs, Ended, AtWork
<1>9. ASSUME NEW c \in Calls, Refund(c) \/ Compensate(c) PROVE P
  BY <1>9, <1>g DEF Refund, Compensate, Pcs, Ended, AtWork
<1>10. ASSUME NEW c \in Calls, Confirm(c) PROVE P
  <2>1. LookedInv'
    BY <1>10, ConfirmIs DEF IInv, LookedInv
  <2> QED BY <1>10, <2>1, SaleConfirm
<1>11. ASSUME NEW c \in Calls, CommitSale(c) PROVE P
  BY <1>11, SaleCommit
<1>12. ASSUME NEW c \in Calls, Fault(c) \/ DeadlockVictim(c) PROVE P
  BY <1>12, <1>g DEF Fault, DeadlockVictim, FailCall, Pcs, Ended
<1>13. ASSUME NEW r \in Reservations, Lapse(r) \/ WorkerLooks(r) PROVE P
  <2>1. UNCHANGED <<inv, tickets, pc, my>>
    BY <1>13 DEF Lapse, WorkerLooks, Stock!Lapse, Stock!Look, Elsewhere
  <2>2. LookedInv'
    BY <1>13 DEF Lapse, WorkerLooks, Stock!Lapse, Stock!Look, IInv, LookedInv
  <2> QED BY <2>1, <2>2, NoSale
<1>14. ASSUME NEW r \in Reservations, WorkerExpires(r) \/ WorkerGivesUp(r) PROVE P
  BY <1>14, SaleExpiry
<1>15. CASE UNCHANGED vars
  BY <1>15, <1>q DEF vars
<1> QED BY <1>1, <1>2, <1>3, <1>4, <1>5, <1>6, <1>7, <1>8, <1>9, <1>10, <1>11, <1>12,
           <1>13, <1>14, <1>15 DEF Next, Step

LEMMA InitInv == Init => IInv
<1> SUFFICES ASSUME Init PROVE IInv
  OBVIOUS
<1>1. TypeOK
  BY TypeInit
<1>2. \A c \in Calls : CallInv(c) /\ CommitInv(c)
  BY DEF Init, CallInv, CommitInv, AtWork
<1>3. OrderInv /\ LookedInv
  BY DEF Init, OrderInv, LookedInv
<1>4. HoldIsSoldOnce
  BY CheckoutAssumption DEF Init, HoldIsSoldOnce
<1> QED BY <1>1, <1>2, <1>3, <1>4 DEF IInv

LEMMA NextInv == IInv /\ [Next]_vars => IInv'
BY TypeNext, CallNext, SaleNext DEF IInv

(* The inductive invariant holds in every behaviour of the calls, the       *)
(* provider, the worker and the faults.                                     *)
THEOREM Invariance == Spec => []IInv
BY InitInv, NextInv, PTL DEF Spec

(* Every row has a status of the schema, and every call is at a place that  *)
(* checkout/service.py has.                                                 *)
THEOREM TypeCorrect == Spec => []TypeOK
<1>1. IInv => TypeOK
  BY DEF IInv
<1> QED BY <1>1, Invariance, PTL

(* The provider charges a reservation once: its key is the order's, and the *)
(* unique index lets one order have the reservation.                        *)
THEOREM ChargedOnce == Spec => []NoDoubleCharge
<1>1. IInv => NoDoubleCharge
  BY DEF IInv, OrderInv, OrderConflict, NoDoubleCharge
<1> QED BY <1>1, Invariance, PTL

(* However many tabs and retries overlap, a hold of seats is sold by one    *)
(* commit and gives one ticket: confirm_assigned locks the seats it sells.  *)
THEOREM SoldOnce == Spec => []HoldIsSoldOnce
<1>1. IInv => HoldIsSoldOnce
  BY DEF IInv
<1> QED BY <1>1, Invariance, PTL

-----------------------------------------------------------------------------
(* The money, however the calls overlap, in the code as it is: rollback()   *)
(* expires the payment, and no call comes to the refund.                    *)

MoneyInv ==
  /\ refunds = {}
  /\ \A c \in Calls : /\ pc[c] \notin {"refund", "compensate"}
                      /\ pc[c] = "decline" => charges[my[c]] = "declined"
  /\ \A o \in Calls : /\ orders[o] # "COMPENSATED"
                      /\ orders[o] = "PAYMENT_FAILED" => charges[o] = "declined"
                      /\ orders[o] = "CONFIRMED" => tickets[o] > 0

LEMMA NextMoney ==
  ASSUME RollbackExpires, IInv, MoneyInv, [Next]_vars PROVE MoneyInv'
<1> USE DEF rows, psp, inventory, call
<1>o. TypeOK /\ \A c \in Calls : pc[c] \in AtWork => my[c] \in Calls
  BY DEF IInv, CallInv, TypeOK
<1>k. ASSUME UNCHANGED <<orders, tickets, psp>>,
             \A c \in Calls : pc'[c] \in {"decline", "refund", "compensate"} =>
                                pc'[c] = pc[c] /\ my'[c] = my[c]
      PROVE  MoneyInv'
  BY <1>k DEF MoneyInv
<1>g. ASSUME NEW c \in Calls, NEW where \in Pcs \ {"decline", "refund", "compensate"},
             Goto(c, where), UNCHANGED <<orders, tickets, psp>>,
             \A b \in Calls \ {c} : my'[b] = my[b]
      PROVE  MoneyInv'
  <2>1. pc'[c] = where /\ \A b \in Calls \ {c} : pc'[b] = pc[b]
    BY <1>g, <1>o DEF Goto, TypeOK
  <2> QED BY <1>k, <1>g, <2>1
<1>1. ASSUME NEW c \in Calls, LookupOrder(c) PROVE MoneyInv'
  <2>1. PICK where \in {"quote", "refused", "returned", "ensure"} : Goto(c, where)
    BY <1>1 DEF LookupOrder
  <2>2. \A b \in Calls \ {c} : my'[b] = my[b]
    BY <1>1, <1>o DEF LookupOrder, TypeOK
  <2> QED BY <1>1, <1>g, <2>1, <2>2 DEF LookupOrder, Pcs, Ended, AtWork
<1>2. ASSUME NEW c \in Calls, Quote(c) \/ Rollback(c) PROVE MoneyInv'
  BY <1>2, <1>g DEF Quote, Rollback, Pcs, Ended, AtWork
<1>3. ASSUME NEW c \in Calls, InsertOrder(c) PROVE MoneyInv'
  <2>1. \A b \in Calls :
          /\ pc'[b] \notin {"refund", "compensate"}
          /\ pc'[b] = "decline" => pc[b] = "decline" /\ my'[b] = my[b]
    BY <1>3, <1>o DEF InsertOrder, Goto, TypeOK, MoneyInv
  <2>2. \A o \in Calls : orders'[o] = orders[o] \/ orders'[o] = "PAYMENT_PENDING"
    BY <1>3, <1>o DEF InsertOrder, TypeOK
  <2>3. UNCHANGED <<tickets, psp>>
    BY <1>3 DEF InsertOrder
  <2> QED BY <2>1, <2>2, <2>3 DEF MoneyInv
<1>4. ASSUME NEW c \in Calls, ReadPayment(c) PROVE MoneyInv'
  <2>1. PICK where \in {"payment", "charge", "settle"} : Goto(c, where)
    BY <1>4 DEF ReadPayment
  <2> QED BY <1>4, <1>g, <2>1 DEF ReadPayment, Pcs, AtWork
<1>5. ASSUME NEW c \in Calls, InsertPayment(c) PROVE MoneyInv'
  BY <1>5, <1>g DEF InsertPayment, Pcs, Ended, AtWork
<1>6. ASSUME NEW c \in Calls, Charge(c) PROVE MoneyInv'
  <2>1. PICK answer \in PspAnswer(my[c]) :
          /\ charges' = [charges EXCEPT ![my[c]] = answer]
          /\ \/ Goto(c, IF answer = "ok" THEN "capture" ELSE "decline")
             \/ Goto(c, "error")
    BY <1>6 DEF Charge
  <2>2. my[c] \in Calls /\ answer \in {"ok", "declined"}
    BY <1>6, <1>o, <2>1 DEF Charge, AtWork, PspAnswer, TypeOK
  <2>3. \A o \in Calls : charges[o] = "declined" => charges'[o] = "declined"
    BY <1>o, <2>1, <2>2 DEF PspAnswer, TypeOK
  <2>4. \A b \in Calls \ {c} : pc'[b] = pc[b]
    BY <1>o, <2>1 DEF Goto, TypeOK
  <2>5. /\ pc'[c] \in {"capture", "decline", "error"}
        /\ pc'[c] = "decline" => charges'[my[c]] = "declined"
    BY <1>o, <2>1, <2>2 DEF Goto, TypeOK
  <2>6. \A b \in Calls : pc[b] = "decline" => my[b] \in Calls
    BY <1>o DEF AtWork
  <2> QED BY <1>6, <2>3, <2>4, <2>5, <2>6 DEF Charge, MoneyInv
<1>7. ASSUME NEW c \in Calls, CommitDecline(c) PROVE MoneyInv'
  <2>1. \A o \in Calls : orders'[o] = IF o = my[c] THEN "PAYMENT_FAILED" ELSE orders[o]
    BY <1>7, <1>o DEF CommitDecline, TypeOK
  <2>2. \A b \in Calls : pc'[b] = IF b = c THEN "declined" ELSE pc[b]
    BY <1>7, <1>o DEF CommitDecline, Goto, TypeOK
  <2> QED BY <1>7, <2>1, <2>2 DEF CommitDecline, MoneyInv
<1>8. ASSUME NEW c \in Calls, CommitCapture(c) \/ Settle(c) PROVE MoneyInv'
  BY <1>8, <1>g DEF CommitCapture, Settle, Pcs, Ended, AtWork
<1>9. ASSUME NEW c \in Calls, Refund(c) \/ Compensate(c) PROVE MoneyInv'
  BY <1>9 DEF Refund, Compensate, MoneyInv
<1>10. ASSUME NEW c \in Calls, Confirm(c) PROVE MoneyInv'
  <2>1. PICK where \in {"commit", "rollback"} : Goto(c, where)
    BY <1>10 DEF Confirm
  <2>2. UNCHANGED <<my, orders, tickets, psp>>
    BY <1>10 DEF Confirm
  <2> QED BY <1>g, <2>1, <2>2 DEF Pcs, AtWork
<1>11. ASSUME NEW c \in Calls, CommitSale(c) PROVE MoneyInv'
  <2>1. my[c] \in Calls
    BY <1>11, <1>o DEF CommitSale, AtWork
  <2>2. \A o \in Calls :
          /\ orders'[o] = IF o = my[c] THEN "CONFIRMED" ELSE orders[o]
          /\ tickets'[o] = IF o = my[c] THEN tickets[o] + 1 ELSE tickets[o]
    BY <1>11, <1>o DEF CommitSale, TypeOK
  <2>3. \A b \in Calls : pc'[b] = IF b = c THEN "returned" ELSE pc[b]
    BY <1>11, <1>o DEF CommitSale, Goto, TypeOK
  <2>4. UNCHANGED <<psp, my>>
    BY <1>11 DEF CommitSale
  <2>5. \A o \in Calls : tickets[o] \in Nat
    BY <1>o DEF TypeOK
  <2>6. \A o \in Calls : orders'[o] = "CONFIRMED" => tickets'[o] > 0
    BY <2>2, <2>5 DEF MoneyInv
  <2> QED BY <2>1, <2>2, <2>3, <2>4, <2>6 DEF MoneyInv
<1>12. ASSUME NEW c \in Calls, Fault(c) \/ DeadlockVictim(c) PROVE MoneyInv'
  BY <1>12, <1>g DEF Fault, DeadlockVictim, FailCall, Pcs, Ended
<1>13. ASSUME NEW r \in Reservations,
              Lapse(r) \/ WorkerLooks(r) \/ WorkerExpires(r) \/ WorkerGivesUp(r)
       PROVE  MoneyInv'
  BY <1>13, <1>k DEF Lapse, WorkerLooks, WorkerExpires, WorkerGivesUp, Elsewhere
<1>14. CASE UNCHANGED vars
  BY <1>14, <1>k DEF vars
<1> QED BY <1>1, <1>2, <1>3, <1>4, <1>5, <1>6, <1>7, <1>8, <1>9, <1>10, <1>11, <1>12,
           <1>13, <1>14 DEF Next, Step

(* However many retries overlap: a charge that went through on an order     *)
(* that is final has brought a ticket, as service.py runs today.            *)
THEOREM MoneyAsTheCodeIs == RollbackExpires /\ Spec => []MoneyIsAccountedFor
<1> SUFFICES ASSUME RollbackExpires PROVE Spec => []MoneyIsAccountedFor
  OBVIOUS
<1>1. Init => MoneyInv
  BY DEF Init, MoneyInv
<1>2. IInv /\ MoneyInv /\ [Next]_vars => MoneyInv'
  BY NextMoney
<1>3. MoneyInv => MoneyIsAccountedFor
  BY DEF MoneyInv, MoneyIsAccountedFor, Final
<1> QED BY <1>1, <1>2, <1>3, Invariance, PTL DEF Spec

-----------------------------------------------------------------------------
(* Clients that wait for the end of a call before they retry (Serial),      *)
(* whatever rollback() does to the objects of the session.  Without Serial  *)
(* each of the properties that follow fails in some configuration.          *)

OneAtATime == \A b, c \in Calls : Running(b) /\ Running(c) /\ SameKey(b, c) => b = c

(* What the rows, the provider and the reservation say of one order. *)
OrderState(o) ==
  /\ orders[o] = "NONE" => o \notin refunds
  /\ orders[o] = "PAYMENT_PENDING" => payments[o] \in {"NONE", "PENDING", "CAPTURED"}
  /\ payments[o] = "CAPTURED" => charges[o] = "ok"
  /\ orders[o] = "PAYMENT_FAILED" => charges[o] = "declined"
  /\ orders[o] = "CONFIRMED" =>
       payments[o] = "CAPTURED" /\ tickets[o] = 1 /\ inv[Res(o)] = "CONFIRMED"
  /\ orders[o] # "CONFIRMED" => tickets[o] = 0
  /\ orders[o] = "COMPENSATED" => o \in refunds
  /\ o \in refunds =>
       charges[o] = "ok" /\ inv[Res(o)] # "ACTIVE" /\ orders[o] # "CONFIRMED"

SoldInv ==
  \A r \in Reservations :
    inv[r] = "CONFIRMED" => \E o \in Calls : Res(o) = r /\ orders[o] = "CONFIRMED"

(* What a call knows of its order at each place.  The order is pending as   *)
(* long as the call is at work on it, and what it has told is final.        *)
CallState(c) ==
  /\ Running(c) /\ my[c] # None => orders[my[c]] = "PAYMENT_PENDING"
  /\ pc[c] = "ensure" /\ my[c] = c => payments[c] = "NONE"
  /\ pc[c] = "charge" => payments[my[c]] = "PENDING" /\ (my[c] = c => c \notin tx)
  /\ pc[c] = "decline" => charges[my[c]] = "declined"
  /\ pc[c] = "capture" => charges[my[c]] = "ok"
  /\ pc[c] \in {"settle", "finalize", "commit", "rollback", "refund", "compensate"} =>
       paySeen[c] = "CAPTURED" /\ payments[my[c]] = "CAPTURED"
  /\ pc[c] = "commit" => my[c] \notin refunds
  /\ pc[c] \in {"rollback", "refund", "compensate"} => inv[MyRes(c)] # "ACTIVE"
  /\ pc[c] = "compensate" => my[c] \in refunds
  /\ told[c] # "NONE" => my[c] # None /\ told[c] \in Final /\ orders[my[c]] = told[c]

SInv == /\ OneAtATime
        /\ \A o \in Calls : OrderState(o)
        /\ SoldInv
        /\ \A c \in Calls : CallState(c)

-----------------------------------------------------------------------------
(* Nobody else is at work on the order of a call, or has said what became   *)
(* of it.                                                                   *)
Alone(c, o) ==
  \A b \in Calls \ {c} : my[b] = o => ~Running(b) /\ told[b] = "NONE"

LEMMA WorksAlone ==
  ASSUME IInv, SInv, NEW c \in Calls, pc[c] \in AtWork
  PROVE  /\ my[c] \in Calls /\ orders[my[c]] = "PAYMENT_PENDING" /\ Running(c)
         /\ Res(my[c]) = MyRes(c) /\ MyRes(c) \in Reservations
         /\ Alone(c, my[c])
<1>1. my[c] \in Calls /\ Running(c) /\ SameKey(my[c], c)
  BY DEF IInv, CallInv, TypeOK, Running, AtWork, Ended
<1>2. orders[my[c]] = "PAYMENT_PENDING"
  BY <1>1, CheckoutAssumption DEF SInv, CallState
<1>3. ASSUME NEW b \in Calls \ {c}, my[b] = my[c] PROVE ~Running(b) /\ told[b] = "NONE"
  <2>1. SameKey(my[b], b) /\ SameKey(b, c)
    BY <1>1, <1>3, CheckoutAssumption DEF IInv, CallInv, SameKey
  <2>2. ~Running(b)
    BY <1>1, <2>1 DEF SInv, OneAtATime
  <2>3. told[b] = "NONE"
    BY <1>2, <1>3 DEF SInv, CallState, Final
  <2> QED BY <2>2, <2>3
<1>4. Res(my[c]) = MyRes(c) /\ MyRes(c) \in Reservations
  BY <1>1, ResIs DEF MyRes
<1> QED BY <1>1, <1>2, <1>3, <1>4 DEF Alone

(* A step of c that concerns the order o: nobody else's part is disturbed.  *)
Concerns(c, o) ==
  /\ \A b \in Calls \ {c} : /\ pc'[b] = pc[b] /\ my'[b] = my[b]
                            /\ told'[b] = told[b] /\ paySeen'[b] = paySeen[b]
                            /\ b \in tx' => b \in tx
  /\ \A p \in Calls \ {o} : /\ orders'[p] = orders[p] /\ payments'[p] = payments[p]
                            /\ charges'[p] = charges[p] /\ tickets'[p] = tickets[p]
                            /\ p \in refunds' <=> p \in refunds
  /\ \A r \in Reservations : /\ inv'[r] = "ACTIVE" => inv[r] = "ACTIVE"
                             /\ inv[r] = "CONFIRMED" => inv'[r] = "CONFIRMED"

LEMMA OthersKeep ==
  ASSUME IInv, SInv, NEW c \in Calls, NEW o, Alone(c, o), Concerns(c, o)
  PROVE  /\ \A b \in Calls \ {c} : CallState(b)'
         /\ \A p \in Calls \ {o} : OrderState(p)'
<1>1. ASSUME NEW p \in Calls \ {o} PROVE OrderState(p)'
  <2>1. Res(p)' = Res(p) /\ Res(p) \in Reservations
    BY ResIs DEF Res
  <2> QED BY <2>1 DEF SInv, OrderState, Concerns
<1>2. ASSUME NEW b \in Calls \ {c} PROVE CallState(b)'
  <2>1. CASE my[b] = o
    BY <2>1, CheckoutAssumption DEF Alone, Concerns, CallState, Running, Ended
  <2>2. CASE my[b] # o
    <3>1. my[b] \in Calls \ {o} \/ my[b] = None
      BY <2>2 DEF IInv, TypeOK
    <3>2. my[b] = None => pc[b] \notin AtWork
      BY DEF IInv, CallInv
    <3>3. my[b] # None => MyRes(b)' = MyRes(b) /\ MyRes(b) \in Reservations
      BY <3>1, ResIs DEF Concerns, MyRes, Res
    <3> QED BY <3>1, <3>2, <3>3 DEF SInv, CallState, Concerns, Running, AtWork
  <2> QED BY <2>1, <2>2
<1> QED BY <1>1, <1>2

(* A step of a call at work, once its own part and its order's are shown. *)
LEMMA WorkKeeps ==
  ASSUME IInv, SInv, NEW c \in Calls, NEW o, o = my[c],
         pc[c] \in AtWork, Concerns(c, o),
         CallState(c)', OrderState(o)', SoldInv'
  PROVE  SInv'
<1>1. Running(c) /\ Alone(c, o)
  BY WorksAlone
<1>2. OneAtATime'
  BY <1>1 DEF SInv, OneAtATime, Concerns, Running, SameKey
<1>3. /\ \A b \in Calls \ {c} : CallState(b)'
      /\ \A p \in Calls \ {o} : OrderState(p)'
  BY <1>1, OthersKeep
<1>4. (\A b \in Calls : CallState(b)') /\ \A p \in Calls : OrderState(p)'
  BY <1>3
<1> QED BY <1>2, <1>4 DEF SInv

(* The facts about a step of c that Concerns is made of. *)
LEMMA PcStep ==
  ASSUME TypeOK, NEW c \in Calls, NEW where, Goto(c, where)
  PROVE  pc'[c] = where /\ \A b \in Calls \ {c} : pc'[b] = pc[b]
BY DEF TypeOK, Goto

(* A step that changes neither rows nor money nor the inventory. *)
LEMMA QuietStep ==
  ASSUME IInv, SInv, NEW c \in Calls, Running(c), NEW where, Goto(c, where),
         UNCHANGED <<orders, payments, charges, tickets, refunds, inv, my, told>>,
         \A b \in Calls \ {c} : paySeen'[b] = paySeen[b] /\ (b \in tx' => b \in tx),
         CallState(c)'
  PROVE  SInv'
<1>1. pc'[c] = where /\ \A b \in Calls \ {c} : pc'[b] = pc[b]
  BY PcStep DEF IInv
<1>2. OneAtATime'
  BY <1>1 DEF SInv, OneAtATime, Running, SameKey
<1>3. ASSUME NEW o \in Calls PROVE OrderState(o)'
  BY <1>3 DEF SInv, OrderState, Res
<1>4. SoldInv'
  BY DEF SInv, SoldInv, Res
<1>5. ASSUME NEW b \in Calls \ {c} PROVE CallState(b)'
  <2>1. MyRes(b)' = MyRes(b)
    BY DEF MyRes, Res
  <2> QED BY <1>1, <2>1 DEF SInv, CallState, Running
<1> QED BY <1>2, <1>3, <1>4, <1>5 DEF SInv

LEMMA SerialLookup ==
  ASSUME IInv, SInv, Serial, NEW c \in Calls, LookupOrder(c)
  PROVE  SInv'
<1> USE CheckoutAssumption DEF rows, psp, inventory, call
<1>o. TypeOK /\ CallInv(c) /\ CallState(c)
  BY DEF IInv, SInv
<1>1. /\ pc[c] = "idle" /\ orders[c] = "NONE" /\ my[c] = None /\ told[c] = "NONE"
      /\ UNCHANGED <<orders, payments, charges, tickets, refunds, inv, paySeen>>
  BY <1>o DEF LookupOrder, CallInv, CallState
<1>2. PICK where \in {"quote", "refused", "returned", "ensure"} : Goto(c, where)
  BY DEF LookupOrder
<1>3. /\ pc'[c] = where
      /\ \A b \in Calls \ {c} : /\ pc'[b] = pc[b] /\ my'[b] = my[b]
                                /\ told'[b] = told[b]
                                /\ b \in tx' => b \in tx
  BY <1>o, <1>2, PcStep DEF LookupOrder, Tell, TypeOK, Begin
<1>4. Alone(c, c) /\ Concerns(c, c)
  <2>1. \A b \in Calls : my[b] # c
    BY <1>1 DEF IInv, CallInv
  <2>2. Concerns(c, c)
    BY <1>1, <1>3 DEF Concerns
  <2> QED BY <2>1, <2>2 DEF Alone
<1>5. OneAtATime'
  <2>1. \A b \in Calls : SameKey(b, c) => ~Running(b)
    BY DEF LookupOrder
  <2> QED BY <1>3, <2>1 DEF SInv, OneAtATime, Running, SameKey
<1>6. \A p \in Calls : OrderState(p)'
  BY <1>1 DEF SInv, OrderState, Res
<1>7. SoldInv'
  BY <1>1 DEF SInv, SoldInv, Res
<1>8. CallState(c)'
  <2>1. CASE UNCHANGED call
    <3>1. where \in {"quote", "refused"}
      BY <1>o, <1>1, <1>3, <2>1, CheckoutAssumption DEF LookupOrder, TypeOK, Goto
    <3> QED BY <1>1, <1>3, <2>1, <3>1 DEF CallState
  <2>2. CASE ~UNCHANGED call
    <3>1. PICK b \in Calls :
            /\ orders[b] # "NONE" /\ my' = [my EXCEPT ![c] = b]
            /\ \/ Replayed(b) /\ Tell(c, orders[b]) /\ Goto(c, "returned")
               \/ ~Replayed(b) /\ Goto(c, "ensure") /\ UNCHANGED told
      BY <2>2 DEF LookupOrder
    <3>2. my'[c] = b /\ b # c
      BY <1>o, <1>1, <3>1 DEF TypeOK
    <3>3. CASE Replayed(b) /\ Tell(c, orders[b]) /\ Goto(c, "returned")
      <4>1. pc'[c] = "returned" /\ told'[c] = orders[b] /\ orders[b] \in Final
        BY <1>o, <3>3, PcStep DEF Tell, TypeOK, Replayed
      <4> QED BY <1>1, <3>2, <4>1 DEF CallState, Running, Ended
    <3>4. CASE ~Replayed(b) /\ Goto(c, "ensure") /\ UNCHANGED told
      <4>1. pc'[c] = "ensure" /\ orders[b] = "PAYMENT_PENDING"
        BY <1>o, <3>1, <3>4, PcStep DEF TypeOK, Replayed
      <4> QED BY <1>1, <3>2, <3>4, <4>1 DEF CallState
    <3> QED BY <3>1, <3>3, <3>4
  <2> QED BY <2>1, <2>2
<1>9. \A b \in Calls : CallState(b)'
  BY <1>4, <1>8, OthersKeep
<1> QED BY <1>5, <1>6, <1>7, <1>9 DEF SInv

(* The order of a call that has quoted is new, so that nobody has it. *)
LEMMA SerialOrder ==
  ASSUME IInv, SInv, NEW c \in Calls, Quote(c) \/ InsertOrder(c)
  PROVE  SInv'
<1> USE CheckoutAssumption DEF rows, psp, inventory, call
<1>o. TypeOK /\ CallInv(c) /\ CallState(c)
  BY DEF IInv, SInv
<1>1. pc[c] \in {"quote", "order"} /\ orders[c] = "NONE" /\ my[c] = None
  BY <1>o DEF Quote, InsertOrder, CallInv
<1>2. \A b \in Calls \ {c} : b \in tx' => b \in tx
  BY DEF Quote, InsertOrder, EndTx
<1>3. CASE UNCHANGED <<orders, my>>
  <2>1. PICK where \in {"order", "refused", "error"} : Goto(c, where)
    BY <1>o, <1>1, <1>3 DEF Quote, InsertOrder, TypeOK
  <2>2. pc'[c] = where
    BY <1>o, <2>1, PcStep
  <2>3. UNCHANGED <<payments, charges, tickets, refunds, inv, told, paySeen>>
    BY DEF Quote, InsertOrder
  <2>4. CallState(c)'
    BY <1>o, <1>1, <1>3, <2>2, <2>3 DEF CallState
  <2> QED BY <1>1, <1>2, <1>3, <2>1, <2>3, <2>4, QuietStep DEF Running, Ended
<1>4. CASE /\ orders' = [orders EXCEPT ![c] = "PAYMENT_PENDING"]
           /\ my' = [my EXCEPT ![c] = c]
           /\ Goto(c, "ensure") /\ InsertOrder(c)
  <2>1. /\ pc'[c] = "ensure" /\ my'[c] = c /\ orders'[c] = "PAYMENT_PENDING"
        /\ \A b \in Calls \ {c} : /\ pc'[b] = pc[b] /\ my'[b] = my[b]
                                  /\ orders'[b] = orders[b]
        /\ UNCHANGED <<payments, charges, tickets, refunds, inv, told, paySeen>>
    BY <1>o, <1>4 DEF Goto, InsertOrder, TypeOK
  <2>2. \A b \in Calls : my[b] # c
    BY <1>1 DEF IInv, CallInv
  <2>3. Alone(c, c) /\ Concerns(c, c)
    BY <1>2, <2>1, <2>2 DEF Alone, Concerns
  <2>4. payments[c] = "NONE" /\ tickets[c] = 0 /\ c \notin refunds
    BY <1>1 DEF IInv, OrderInv, SInv, OrderState
  <2>5. OrderState(c)' /\ CallState(c)'
    BY <1>o, <1>1, <2>1, <2>4 DEF OrderState, CallState
  <2>6. OneAtATime'
    BY <1>1, <2>1 DEF SInv, OneAtATime, Running, SameKey, Ended
  <2>7. SoldInv'
    BY <1>1, <2>1 DEF SInv, SoldInv, Res
  <2>8. /\ \A b \in Calls \ {c} : CallState(b)'
        /\ \A p \in Calls \ {c} : OrderState(p)'
    BY <2>3, OthersKeep
  <2> QED BY <2>5, <2>6, <2>7, <2>8 DEF SInv
<1> QED BY <1>3, <1>4 DEF Quote, InsertOrder

(* The payment and the charge of the order. *)
LEMMA SerialPayment ==
  ASSUME IInv, SInv, NEW c \in Calls, NEW o, o = my[c],
         ReadPayment(c) \/ InsertPayment(c) \/ Charge(c)
  PROVE  SInv'
<1> USE CheckoutAssumption DEF rows, psp, inventory, call
<1>o. TypeOK /\ CallInv(c) /\ CallState(c)
  BY DEF IInv, SInv
<1>w. /\ pc[c] \in {"ensure", "payment", "charge"} /\ pc[c] \in AtWork /\ Running(c)
      /\ o \in Calls /\ orders[o] = "PAYMENT_PENDING" /\ OrderState(o)
  BY WorksAlone DEF ReadPayment, InsertPayment, Charge, AtWork, SInv
<1>t. told[c] = "NONE" /\ UNCHANGED <<orders, tickets, refunds, inv, my, told>>
  BY <1>o, <1>w DEF ReadPayment, InsertPayment, Charge, CallState, Final
<1>u. /\ \A b \in Calls \ {c} : paySeen'[b] = paySeen[b] /\ (b \in tx' => b \in tx)
      /\ \A p \in Calls \ {o} : payments'[p] = payments[p] /\ charges'[p] = charges[p]
  BY <1>o DEF ReadPayment, InsertPayment, Charge, See, Begin, EndTx, TypeOK
<1>v. SoldInv'
  BY <1>t DEF SInv, SoldInv, Res
<1>c. ASSUME NEW where, Goto(c, where) PROVE pc'[c] = where /\ Concerns(c, o)
  BY <1>o, <1>t, <1>u, <1>c, PcStep DEF Concerns
<1>1. CASE ReadPayment(c)
  <2>1. paySeen'[c] = payments[o] /\ payments[o] \in {"NONE", "PENDING", "CAPTURED"}
    BY <1>o, <1>w, <1>1 DEF ReadPayment, See, TypeOK, OrderState
  <2>2. PICK where \in {"payment", "charge", "settle"} :
          /\ Goto(c, where)
          /\ where = "charge" => payments[o] = "PENDING"
          /\ where = "settle" => payments[o] = "CAPTURED"
    BY <1>1, <2>1 DEF ReadPayment
  <2>3. my[c] = c => where # "charge"
    BY <1>o, <1>1, <2>2 DEF ReadPayment, CallState
  <2>4. CallState(c)'
    BY <1>1, <1>c, <1>t, <1>w, <2>1, <2>2, <2>3 DEF ReadPayment, CallState, Running
  <2> QED BY <1>1, <1>t, <1>u, <1>w, <2>2, <2>4, QuietStep DEF ReadPayment
<1>2. CASE InsertPayment(c)
  <2>1. CASE payments[o] # "NONE"
    <3>1. Goto(c, "error") /\ UNCHANGED <<payments, charges, paySeen>>
      BY <1>2, <2>1 DEF InsertPayment
    <3>2. CallState(c)'
      BY <1>c, <1>t, <3>1 DEF CallState, Running, Ended
    <3> QED BY <1>t, <1>u, <1>w, <3>1, <3>2, QuietStep
  <2>2. CASE payments[o] = "NONE"
    <3>1. /\ Goto(c, "charge") /\ payments'[o] = "PENDING" /\ UNCHANGED charges
          /\ c \notin tx'
      BY <1>o, <1>w, <1>2, <2>2 DEF InsertPayment, EndTx, TypeOK
    <3>2. CallState(c)'
      BY <1>c, <1>t, <1>w, <3>1 DEF CallState
    <3>3. OrderState(o)'
      BY <1>t, <1>w, <2>2, <3>1 DEF OrderState, Res
    <3> QED BY <1>c, <1>v, <1>w, <3>1, <3>2, <3>3, WorkKeeps
  <2> QED BY <2>1, <2>2
<1>3. CASE Charge(c)
  <2>1. PICK answer \in PspAnswer(o) :
          /\ charges' = [charges EXCEPT ![o] = answer]
          /\ \/ Goto(c, IF answer = "ok" THEN "capture" ELSE "decline")
             \/ Goto(c, "error")
    BY <1>3 DEF Charge
  <2>2. /\ charges'[o] = answer /\ answer \in {"ok", "declined"}
        /\ charges[o] = "none" \/ charges'[o] = charges[o]
    BY <1>o, <1>w, <2>1 DEF PspAnswer, TypeOK
  <2>3. PICK where : /\ Goto(c, where)
                     /\ \/ where = "error"
                        \/ where = "capture" /\ answer = "ok"
                        \/ where = "decline" /\ answer = "declined"
    BY <2>1, <2>2
  <2>4. CallState(c)'
    BY <1>c, <1>t, <1>w, <2>2, <2>3 DEF CallState
  <2>5. OrderState(o)'
    BY <1>3, <1>t, <1>w, <2>2 DEF Charge, OrderState, Res
  <2> QED BY <1>c, <1>v, <1>w, <2>3, <2>4, <2>5, WorkKeeps
<1> QED BY <1>1, <1>2, <1>3

(* The commits of the saga and the steps between them. *)
LEMMA SerialSettle ==
  ASSUME IInv, SInv, NEW c \in Calls, NEW o, o = my[c],
         CommitDecline(c) \/ CommitCapture(c) \/ Settle(c) \/ Rollback(c)
  PROVE  SInv'
<1> USE CheckoutAssumption DEF rows, psp, inventory, call
<1>o. TypeOK /\ CallInv(c) /\ CallState(c)
  BY DEF IInv, SInv
<1>w. /\ pc[c] \in {"decline", "capture", "settle", "rollback"}
      /\ pc[c] \in AtWork /\ Running(c)
      /\ o \in Calls /\ orders[o] = "PAYMENT_PENDING" /\ OrderState(o)
  BY WorksAlone DEF CommitDecline, CommitCapture, Settle, Rollback, AtWork, SInv
<1>t. told[c] = "NONE" /\ UNCHANGED <<charges, tickets, refunds, inv, my>>
  BY <1>o, <1>w DEF CommitDecline, CommitCapture, Settle, Rollback, CallState, Final
<1>u. /\ \A b \in Calls \ {c} : paySeen'[b] = paySeen[b] /\ (b \in tx' => b \in tx)
      /\ \A b \in Calls \ {c} : told'[b] = told[b]
      /\ \A p \in Calls \ {o} : payments'[p] = payments[p] /\ orders'[p] = orders[p]
  BY <1>o DEF CommitDecline, CommitCapture, Settle, Rollback, See, EndTx, Tell, TypeOK
<1>c. ASSUME NEW where, Goto(c, where) PROVE pc'[c] = where /\ Concerns(c, o)
  BY <1>o, <1>t, <1>u, <1>c, PcStep DEF Concerns
<1>v. SoldInv'
  BY <1>t, <1>u, <1>w DEF SInv, SoldInv, Res
<1>1. CASE CommitDecline(c)
  <2>1. /\ payments'[o] = "FAILED" /\ orders'[o] = "PAYMENT_FAILED"
        /\ Goto(c, "declined") /\ told'[c] = "PAYMENT_FAILED" /\ charges[o] = "declined"
    BY <1>o, <1>w, <1>1 DEF CommitDecline, Tell, TypeOK, CallState
  <2>2. CallState(c)' /\ OrderState(o)'
    BY <1>c, <1>t, <1>w, <2>1 DEF CallState, OrderState, Running, Ended, Final, Res
  <2> QED BY <1>c, <1>v, <1>w, <2>1, <2>2, WorkKeeps
<1>2. CASE CommitCapture(c)
  <2>1. /\ payments'[o] = "CAPTURED" /\ UNCHANGED <<orders, told>>
        /\ Goto(c, "settle") /\ paySeen'[c] = "CAPTURED" /\ charges[o] = "ok"
    BY <1>o, <1>w, <1>2 DEF CommitCapture, See, TypeOK, CallState
  <2>2. CallState(c)' /\ OrderState(o)'
    BY <1>c, <1>t, <1>w, <2>1 DEF CallState, OrderState, Res
  <2> QED BY <1>c, <1>v, <1>w, <2>1, <2>2, WorkKeeps
<1>3. CASE Settle(c)
  <2>1. Goto(c, "finalize") /\ UNCHANGED <<orders, payments, told, paySeen>>
    BY <1>o, <1>3 DEF Settle, CallState
  <2>2. CallState(c)'
    BY <1>o, <1>3, <1>c, <1>t, <1>w, <2>1 DEF Settle, CallState
  <2> QED BY <1>t, <1>u, <1>w, <2>1, <2>2, QuietStep
<1>4. CASE Rollback(c)
  <2>1. PICK where \in {"error", "refund"} : Goto(c, where)
    BY <1>4 DEF Rollback
  <2>2. UNCHANGED <<orders, payments, told, paySeen>>
    BY <1>4 DEF Rollback
  <2>3. MyRes(c)' = MyRes(c)
    BY <1>t DEF MyRes, Res
  <2>4. CallState(c)'
    BY <1>o, <1>4, <1>c, <1>t, <1>w, <2>1, <2>2, <2>3 DEF Rollback, CallState
  <2> QED BY <1>t, <1>u, <1>w, <2>1, <2>2, <2>4, QuietStep
<1> QED BY <1>1, <1>2, <1>3, <1>4

(* The confirm of the inventory and its commit. *)
LEMMA SerialSale ==
  ASSUME IInv, SInv, NEW c \in Calls, NEW o, o = my[c], Confirm(c) \/ CommitSale(c)
  PROVE  SInv'
<1> USE CheckoutAssumption DEF rows, psp, call
<1>o. TypeOK /\ CallInv(c) /\ CallState(c) /\ Res(o) = MyRes(c)
  BY DEF IInv, SInv, MyRes
<1>w. /\ pc[c] \in {"finalize", "commit"} /\ pc[c] \in AtWork /\ Running(c)
      /\ o \in Calls /\ orders[o] = "PAYMENT_PENDING" /\ OrderState(o)
      /\ MyRes(c) \in Reservations
  BY WorksAlone DEF Confirm, CommitSale, AtWork, SInv
<1>t. /\ told[c] = "NONE" /\ paySeen[c] = "CAPTURED" /\ payments[o] = "CAPTURED"
      /\ UNCHANGED <<charges, payments, refunds, paySeen>>
      /\ \A b \in Calls \ {c} : b \in tx' => b \in tx
  BY <1>o, <1>w DEF Confirm, CommitSale, CallState, Final, Begin, EndTx
<1>1. CASE Confirm(c)
  <2>1. /\ UNCHANGED <<inv, my, orders, tickets, told>>
        /\ \/ Goto(c, "commit") /\ inv[MyRes(c)] = "ACTIVE"
           \/ Goto(c, "rollback") /\ inv[MyRes(c)] # "ACTIVE"
    BY <1>o, <1>1, ConfirmIs DEF Confirm, Goto
  <2>2. MyRes(c)' = MyRes(c)
    BY <2>1 DEF MyRes, Res
  <2>3. CallState(c)'
    <3>1. CASE Goto(c, "commit") /\ inv[MyRes(c)] = "ACTIVE"
      <4>1. pc'[c] = "commit" /\ o \notin refunds
        BY <1>o, <1>w, <3>1, PcStep DEF OrderState
      <4> QED BY <1>o, <1>t, <1>w, <2>1, <4>1 DEF CallState
    <3>2. CASE Goto(c, "rollback") /\ inv[MyRes(c)] # "ACTIVE"
      <4>1. pc'[c] = "rollback"
        BY <1>o, <3>2, PcStep
      <4> QED BY <1>o, <1>t, <1>w, <2>1, <2>2, <3>2, <4>1 DEF CallState
    <3> QED BY <2>1, <3>1, <3>2
  <2> QED BY <1>t, <1>w, <2>1, <2>3, QuietStep
<1>2. CASE CommitSale(c)
  <2>1. /\ orders'[o] = "CONFIRMED" /\ \A p \in Calls \ {o} : orders'[p] = orders[p]
        /\ tickets'[o] = tickets[o] + 1 /\ \A p \in Calls \ {o} : tickets'[p] = tickets[p]
        /\ told'[c] = "CONFIRMED" /\ \A b \in Calls \ {c} : told'[b] = told[b]
        /\ UNCHANGED my /\ Goto(c, "returned") /\ o \notin refunds
    BY <1>o, <1>w, <1>2 DEF CommitSale, Tell, CallState, TypeOK
  <2>2. /\ inv'[MyRes(c)] = "CONFIRMED"
        /\ \A r \in Reservations \ {MyRes(c)} : inv'[r] = inv[r]
    BY <1>o, <1>w, <1>2, SellIs DEF TypeOK
  <2>3. pc'[c] = "returned" /\ Concerns(c, o)
    BY <1>o, <1>t, <2>1, <2>2, PcStep DEF Concerns
  <2>4. OrderState(o)'
    BY <1>o, <1>t, <1>w, <2>1, <2>2 DEF OrderState, Res
  <2>5. CallState(c)'
    BY <1>t, <1>w, <2>1, <2>3 DEF CallState, Running, Ended, Final
  <2>6. SoldInv'
    <3> SUFFICES ASSUME NEW r \in Reservations, inv'[r] = "CONFIRMED"
                 PROVE  \E p \in Calls : Res(p) = r /\ orders'[p] = "CONFIRMED"
      BY DEF SoldInv, Res
    <3>1. CASE r = MyRes(c)
      BY <1>o, <1>w, <2>1, <3>1
    <3>2. CASE r # MyRes(c)
      <4>1. PICK p \in Calls : Res(p) = r /\ orders[p] = "CONFIRMED"
        BY <2>2, <3>2 DEF SInv, SoldInv
      <4> QED BY <1>w, <2>1, <4>1
    <3> QED BY <3>1, <3>2
  <2> QED BY <1>w, <2>3, <2>4, <2>5, <2>6, WorkKeeps
<1> QED BY <1>1, <1>2

(* The refund and the commit that records it. *)
LEMMA SerialRefund ==
  ASSUME IInv, SInv, NEW c \in Calls, NEW o, o = my[c], Refund(c) \/ Compensate(c)
  PROVE  SInv'
<1> USE CheckoutAssumption DEF rows, psp, inventory, call
<1>o. TypeOK /\ CallInv(c) /\ CallState(c) /\ Res(o) = MyRes(c)
  BY DEF IInv, SInv, MyRes
<1>w. /\ pc[c] \in {"refund", "compensate"} /\ pc[c] \in AtWork /\ Running(c)
      /\ o \in Calls /\ orders[o] = "PAYMENT_PENDING" /\ OrderState(o)
  BY WorksAlone DEF Refund, Compensate, AtWork, SInv
<1>t. /\ told[c] = "NONE" /\ paySeen[c] = "CAPTURED" /\ payments[o] = "CAPTURED"
      /\ inv[MyRes(c)] # "ACTIVE" /\ MyRes(c)' = MyRes(c)
      /\ UNCHANGED <<charges, tickets, inv, my, paySeen, tx>>
  BY <1>o, <1>w DEF Refund, Compensate, CallState, Final, MyRes, Res
<1>1. CASE Refund(c)
  <2>1. /\ refunds' = refunds \union {o} /\ UNCHANGED <<orders, payments, told>>
        /\ Goto(c, "compensate")
    BY <1>t, <1>1 DEF Refund, RefundDue
  <2>2. pc'[c] = "compensate" /\ Concerns(c, o)
    BY <1>o, <1>t, <2>1, PcStep DEF Concerns
  <2>3. OrderState(o)' /\ CallState(c)'
    BY <1>o, <1>t, <1>w, <2>1, <2>2 DEF OrderState, CallState, Res
  <2>4. SoldInv'
    BY <1>t, <2>1 DEF SInv, SoldInv, Res
  <2> QED BY <1>w, <2>2, <2>3, <2>4, WorkKeeps
<1>2. CASE Compensate(c)
  <2>1. /\ payments'[o] = "REFUNDED" /\ orders'[o] = "COMPENSATED"
        /\ \A p \in Calls \ {o} : payments'[p] = payments[p] /\ orders'[p] = orders[p]
        /\ told'[c] = "COMPENSATED" /\ \A b \in Calls \ {c} : told'[b] = told[b]
        /\ UNCHANGED refunds /\ Goto(c, "conflict") /\ o \in refunds
    BY <1>o, <1>t, <1>w, <1>2 DEF Compensate, Tell, CallState, TypeOK
  <2>2. pc'[c] = "conflict" /\ Concerns(c, o)
    BY <1>o, <1>t, <2>1, PcStep DEF Concerns
  <2>3. OrderState(o)' /\ CallState(c)'
    BY <1>o, <1>t, <1>w, <2>1, <2>2 DEF OrderState, CallState, Res, Running, Ended, Final
  <2>4. SoldInv'
    BY <1>t, <1>w, <2>1 DEF SInv, SoldInv, Res
  <2> QED BY <1>w, <2>2, <2>3, <2>4, WorkKeeps
<1> QED BY <1>1, <1>2

(* Errors, and what the worker does to the reservations: it expires only    *)
(* what is ACTIVE.                                                          *)
LEMMA SerialAround ==
  ASSUME IInv, SInv,
         \/ \E c \in Calls : Fault(c) \/ DeadlockVictim(c)
         \/ \E r \in Reservations :
              Lapse(r) \/ WorkerLooks(r) \/ WorkerExpires(r) \/ WorkerGivesUp(r)
         \/ UNCHANGED vars
  PROVE  SInv'
<1> USE CheckoutAssumption DEF rows, psp, inventory, call
<1>1. ASSUME NEW c \in Calls, FailCall(c) PROVE SInv'
  <2>1. pc'[c] = "error" /\ \A b \in Calls \ {c} : b \in tx' => b \in tx
    BY <1>1, PcStep DEF IInv, FailCall, EndTx
  <2>2. CallState(c)'
    <3>1. told[c] = "NONE" \/ (my[c] # None /\ told[c] \in Final /\ orders[my[c]] = told[c])
      BY DEF SInv, CallState
    <3> QED BY <1>1, <2>1, <3>1 DEF FailCall, CallState, Running, Ended
  <2> QED BY <1>1, <2>1, <2>2, QuietStep DEF FailCall
<1>2. ASSUME UNCHANGED <<orders, payments, charges, tickets, refunds, pc, my, told,
                         paySeen, tx>>,
             \A r \in Reservations :
               inv'[r] = inv[r] \/ (inv[r] = "ACTIVE" /\ inv'[r] = "EXPIRED")
      PROVE  SInv'
  <2>1. OneAtATime'
    BY <1>2 DEF SInv, OneAtATime, Running, SameKey
  <2>2. ASSUME NEW p \in Calls PROVE OrderState(p)'
    BY <1>2, ResIs DEF SInv, OrderState, Res
  <2>3. SoldInv'
    BY <1>2 DEF SInv, SoldInv, Res
  <2>4. ASSUME NEW b \in Calls PROVE CallState(b)'
    <3>1. MyRes(b)' = MyRes(b)
      BY <1>2 DEF MyRes, Res
    <3>2. pc[b] \in AtWork => MyRes(b) \in Reservations
      BY ResIs DEF IInv, CallInv, TypeOK, MyRes
    <3> QED BY <1>2, <3>1, <3>2 DEF SInv, CallState, Running, AtWork
  <2> QED BY <2>1, <2>2, <2>3, <2>4 DEF SInv
<1>3. ASSUME NEW r \in Reservations, WorkerExpires(r) \/ WorkerGivesUp(r) PROVE SInv'
  <2>1. inv[r] = "ACTIVE"
    BY <1>3, EndPassIs DEF IInv, LookedInv
  <2>2. \A q \in Reservations :
          inv'[q] = inv[q] \/ (inv[q] = "ACTIVE" /\ inv'[q] = "EXPIRED")
    BY <1>3, <2>1, EndPassIs
  <2> QED BY <1>2, <1>3, <2>2 DEF WorkerExpires, WorkerGivesUp, Elsewhere
<1>4. ASSUME NEW r \in Reservations, Lapse(r) \/ WorkerLooks(r) PROVE SInv'
  BY <1>2, <1>4 DEF Lapse, WorkerLooks, Stock!Lapse, Stock!Look, Elsewhere
<1>5. CASE UNCHANGED vars
  BY <1>2, <1>5 DEF vars
<1> QED BY <1>1, <1>3, <1>4, <1>5 DEF Fault, DeadlockVictim

LEMMA InitSerial == Init => SInv
<1> USE CheckoutAssumption
<1>1. Init => OneAtATime
  BY DEF Init, OneAtATime, Running
<1>2. Init => \A o \in Calls : OrderState(o) /\ CallState(o)
  BY DEF Init, OrderState, CallState, Running, Ended
<1>3. Init => SoldInv
  BY DEF Init, SoldInv
<1> QED BY <1>1, <1>2, <1>3 DEF SInv

LEMMA NextSerial == Serial /\ IInv /\ SInv /\ [Next]_vars => SInv'
<1> SUFFICES ASSUME Serial, IInv, SInv, [Next]_vars PROVE SInv'
  OBVIOUS
<1>1. ASSUME NEW c \in Calls, LookupOrder(c) PROVE SInv'
  BY <1>1, SerialLookup
<1>2. ASSUME NEW c \in Calls, Step(c) PROVE SInv'
  BY <1>2, SerialOrder, SerialPayment, SerialSettle, SerialSale, SerialRefund DEF Step
<1> QED BY <1>1, <1>2, SerialAround DEF Next

-----------------------------------------------------------------------------
(* Theorems                                                                 *)

(* The inductive invariant of clients that wait before they retry.          *)
THEOREM SerialInvariance == Serial /\ Spec => [](IInv /\ SInv)
<1>1. Serial /\ IInv /\ SInv /\ [Next]_vars => IInv' /\ SInv'
  BY NextInv, NextSerial
<1>2. Serial => Serial'
  OBVIOUS
<1>3. Init => IInv /\ SInv
  BY InitInv, InitSerial
<1> QED BY <1>1, <1>2, <1>3, PTL DEF Spec

(* The sale, the order and the ticket are one commit, for a hold and for a  *)
(* GA reservation.                                                          *)
THEOREM SoldAsOne == Serial /\ Spec => []SaleIsOneCommit
<1>1. IInv /\ SInv => SaleIsOneCommit
  BY ResIs DEF IInv, TypeOK, SInv, SoldInv, OrderState, SaleIsOneCommit
<1> QED BY <1>1, SerialInvariance, PTL

(* _finalize comes after the commit of the capture. *)
THEOREM ConfirmedAfterCapture == Serial /\ Spec => []ConfirmedIsPaid
<1>1. SInv => ConfirmedIsPaid
  BY DEF SInv, OrderState, ConfirmedIsPaid
<1> QED BY <1>1, SerialInvariance, PTL

(* A charge that went through has brought a ticket or was given back, and   *)
(* never both.                                                              *)
THEOREM MoneyForTicket == Serial /\ Spec => []MoneyIsAccountedFor
<1>1. SInv => MoneyIsAccountedFor
  BY DEF SInv, OrderState, MoneyIsAccountedFor, Final
<1> QED BY <1>1, SerialInvariance, PTL

(* The answer to a call is the answer to every retry of it. *)
THEOREM RepliesAreFinal == Serial /\ Spec => []ToldStaysTrue
<1>1. SInv => ToldStaysTrue
  BY DEF SInv, CallState, ToldStaysTrue
<1> QED BY <1>1, SerialInvariance, PTL

(* The call that placed the order holds no transaction while it charges. *)
THEOREM ChargedOutside == Serial /\ Spec => []NewOrderIsChargedOutside
<1>1. SInv => NewOrderIsChargedOutside
  BY DEF SInv, CallState, NewOrderIsChargedOutside
<1> QED BY <1>1, SerialInvariance, PTL
=============================================================================
