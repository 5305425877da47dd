------------------------------ MODULE Checkout ------------------------------
(***************************************************************************)
(* The checkout saga of checkout/service.py: an order row, a payment row,  *)
(* the charge at the payment provider (PSP), the confirm of the inventory, *)
(* and the refund when the confirm loses.                                  *)
(*                                                                         *)
(* A reservation is a hold of seats or a GA reservation.  What the worker  *)
(* and the confirms do to it are the steps of Reservation, which           *)
(* SeatInventory and GaInventory implement.  Every await of the code       *)
(* separates two actions, and paySeen is the copy of the payment that a    *)
(* call keeps in its session across them.                                  *)
(***************************************************************************)
EXTENDS Naturals, FiniteSets

CONSTANTS Calls,            \* checkout calls; the order a call creates is itself
          Req,              \* Req[c]: the key, session and reservation of call c
          Reservations,     \* holds and GA reservations
          Assigned,         \* those that are holds of assigned seats
          Owner,            \* Owner[r]: the session that made the reservation
          Serial,           \* whether a client waits for the end of a call
                            \* before it retries
          RollbackExpires,  \* whether rollback() expires the objects of the
                            \* session, as SQLAlchemy's does
          MaxFaults,        \* bound on errors, crashes and lost PSP replies
          None              \* NULL

ASSUME CheckoutAssumption ==
  /\ \A c \in Calls : Req[c].res \in Reservations
  /\ Assigned \subseteq Reservations
  /\ Serial \in BOOLEAN /\ RollbackExpires \in BOOLEAN
  /\ MaxFaults \in Nat
  /\ None \notin Calls /\ None \notin Reservations

VARIABLES
  orders,    \* status of each orders row, "NONE" before it exists
  payments,  \* status of each order's payments row, "NONE" before it exists
  tickets,   \* TicketConfirmed rows in the outbox, for each order
  alerts,    \* FinalizeFailed rows in the outbox, for each order
  charges,   \* the PSP's answer to the charge of each order, "none" before it
  refunds,   \* the orders the PSP has refunded
  inv,       \* status of each reservation
  lapsed,    \* the reservations that have run out
  looked,    \* those a worker pass has locked and found not to be paid for
  pc,        \* where each call stands
  my,        \* the order a call works on, or None
  told,      \* the status of that order in the answer to its client, or "NONE"
  paySeen,   \* the payment status in the session of a call
  tx,        \* the calls with an open transaction
  faults     \* errors so far

vars == <<orders, payments, tickets, alerts, charges, refunds, inv, lapsed, looked,
          pc, my, told, paySeen, tx, faults>>

rows == <<orders, payments, tickets, alerts>>
psp == <<charges, refunds>>
inventory == <<inv, lapsed, looked>>
call == <<my, told>>

Final == {"CONFIRMED", "PAYMENT_FAILED", "COMPENSATED"}
Ended == {"returned", "refused", "declined", "conflict", "error"}
Running(c) == pc[c] \notin Ended \union {"idle"}

Res(c) == Req[c].res
SameKey(b, c) == Req[b].key = Req[c].key
Goto(c, where) == pc' = [pc EXCEPT ![c] = where]
Begin(c) == tx' = tx \union {c}

(* Bug: a commit leaves the transaction open. *)
BugStaysOpen(c) == UNCHANGED tx
EndTx(c) == tx' = tx \ {c}

(* The body of a 201 or 200; a 402 for a declined payment and the 409 that  *)
(* speaks of a refund say as much.                                          *)
Tell(c, status) == told' = [told EXCEPT ![c] = status]

Init ==
  /\ orders = [c \in Calls |-> "NONE"]
  /\ payments = [c \in Calls |-> "NONE"]
  /\ tickets = [c \in Calls |-> 0]
  /\ alerts = [c \in Calls |-> 0]
  /\ charges = [c \in Calls |-> "none"]
  /\ refunds = {}
  /\ inv = [r \in Reservations |-> "ACTIVE"]
  /\ lapsed = {}
  /\ looked = {}
  /\ pc = [c \in Calls |-> "idle"]
  /\ my = [c \in Calls |-> None]
  /\ told = [c \in Calls |-> "NONE"]
  /\ paySeen = [c \in Calls |-> "NONE"]
  /\ tx = {}
  /\ faults = 0

MyRes(c) == Res(my[c])

(* Bug: any payment row keeps the reservation, a declined one too. *)
BugAnyPayment(r) == \E o \in Calls : Res(o) = r /\ payments[o] # "NONE"
HasCapturedPayment(r) == \E o \in Calls : Res(o) = r /\ payments[o] = "CAPTURED"

Stock == INSTANCE Reservation
           WITH paid <- {r \in Reservations : HasCapturedPayment(r)},
                confirming <- [c \in Calls |-> IF pc[c] = "commit" THEN MyRes(c) ELSE None]

-----------------------------------------------------------------------------
(* checkout: replay, resume, or quote and place an order.  Operators with a *)
(* name that starts with Bug are mutated forms of the definition that       *)
(* follows them; no action uses them.                                       *)

(* Bug: only a confirmed order is answered from the row. *)
BugReplayed(b) == orders[b] = "CONFIRMED"
Replayed(b) == orders[b] \in Final

LookupOrder(c) ==
  /\ pc[c] = "idle"
  /\ Serial => \A b \in Calls : SameKey(b, c) => ~Running(b)
  /\ \/ /\ \A b \in Calls : SameKey(b, c) => orders[b] = "NONE"
        /\ Goto(c, "quote")
        /\ Begin(c)
        /\ UNCHANGED call
     \/ \E b \in Calls :
          /\ SameKey(b, c) /\ orders[b] # "NONE"
          /\ \/ /\ Req[b].session # Req[c].session
                /\ Goto(c, "refused")
                /\ UNCHANGED <<call, tx>>
             \/ /\ Req[b].session = Req[c].session
                /\ my' = [my EXCEPT ![c] = b]
                /\ \/ Replayed(b) /\ Tell(c, orders[b]) /\ Goto(c, "returned") /\ UNCHANGED tx
                   \/ ~Replayed(b) /\ Goto(c, "ensure") /\ Begin(c) /\ UNCHANGED told
  /\ UNCHANGED <<rows, psp, inventory, paySeen, faults>>

Usable(c) == /\ inv[Res(c)] = "ACTIVE" /\ Res(c) \notin lapsed
             /\ Owner[Res(c)] = Req[c].session

(* _quote: the session is still in the transaction of the lookup. *)
Quote(c) ==
  /\ pc[c] = "quote"
  /\ \/ Usable(c) /\ Goto(c, "order") /\ UNCHANGED tx
     \/ ~Usable(c) /\ Goto(c, "refused") /\ EndTx(c)
  /\ UNCHANGED <<rows, psp, inventory, call, paySeen, faults>>

(* Bug: the unique indexes on the reservation of an order are missing.      *)
BugOrderConflict(b, c) == SameKey(b, c)
OrderConflict(b, c) == SameKey(b, c) \/ Res(b) = Res(c)

(* INSERT and COMMIT.  The foreign key waits for a reservation row that a   *)
(* worker has locked; a key or reservation that has an order fails.         *)
InsertOrder(c) ==
  /\ pc[c] = "order" /\ Res(c) \notin looked
  /\ \/ /\ \A b \in Calls : OrderConflict(b, c) => orders[b] = "NONE"
        /\ orders' = [orders EXCEPT ![c] = "PAYMENT_PENDING"]
        /\ my' = [my EXCEPT ![c] = c]
        /\ Goto(c, "ensure")
     \/ /\ \E b \in Calls : OrderConflict(b, c) /\ orders[b] # "NONE"
        /\ Goto(c, "error")
        /\ UNCHANGED <<orders, my>>
  /\ EndTx(c)
  /\ UNCHANGED <<payments, tickets, alerts, psp, inventory, told, paySeen, faults>>

-----------------------------------------------------------------------------
(* _ensure_payment and _resume                                              *)

See(c, status) == paySeen' = [paySeen EXCEPT ![c] = status]

ReadPayment(c) ==
  /\ pc[c] = "ensure"
  /\ See(c, payments[my[c]])
  /\ Goto(c, CASE payments[my[c]] = "NONE" -> "payment"
               [] payments[my[c]] = "PENDING" -> "charge"
               [] OTHER -> "settle")
  /\ Begin(c)
  /\ UNCHANGED <<rows, psp, inventory, call, faults>>

(* The key pay:<order> is unique. *)
InsertPayment(c) ==
  /\ pc[c] = "payment"
  /\ \/ /\ payments[my[c]] = "NONE"
        /\ payments' = [payments EXCEPT ![my[c]] = "PENDING"]
        /\ See(c, "PENDING")
        /\ Goto(c, "charge")
     \/ /\ payments[my[c]] # "NONE"
        /\ Goto(c, "error")
        /\ UNCHANGED <<payments, paySeen>>
  /\ EndTx(c)
  /\ UNCHANGED <<orders, tickets, alerts, psp, inventory, call, faults>>

(* Bug: an answer that the code has no case for. *)
BugPspAnswer(o) == {"ok", "declined", "pending"}
PspAnswer(o) == IF charges[o] = "none" THEN {"ok", "declined"} ELSE {charges[o]}

Charge(c) ==
  /\ pc[c] = "charge"
  /\ \E answer \in PspAnswer(my[c]) :
       /\ charges' = [charges EXCEPT ![my[c]] = answer]
       /\ \/ /\ Goto(c, IF answer = "ok" THEN "capture" ELSE "decline")
             /\ UNCHANGED <<tx, faults>>
          \/ /\ faults < MaxFaults /\ faults' = faults + 1  \* the reply is lost
             /\ Goto(c, "error")
             /\ EndTx(c)
  /\ UNCHANGED <<rows, refunds, inventory, call, paySeen>>

CommitDecline(c) ==
  /\ pc[c] = "decline"
  /\ payments' = [payments EXCEPT ![my[c]] = "FAILED"]
  /\ orders' = [orders EXCEPT ![my[c]] = "PAYMENT_FAILED"]
  /\ Goto(c, "declined")
  /\ Tell(c, "PAYMENT_FAILED")
  /\ EndTx(c)
  /\ UNCHANGED <<tickets, alerts, psp, inventory, my, paySeen, faults>>

CommitCapture(c) ==
  /\ pc[c] = "capture"
  /\ payments' = [payments EXCEPT ![my[c]] = "CAPTURED"]
  /\ See(c, "CAPTURED")
  /\ Goto(c, "settle")
  /\ EndTx(c)
  /\ UNCHANGED <<orders, tickets, alerts, psp, inventory, call, faults>>

(* The order in the session is PAYMENT_PENDING, as it was looked up: only   *)
(* the payment can end the call here.                                       *)
Settle(c) ==
  /\ pc[c] = "settle"
  /\ \/ /\ paySeen[c] = "REFUNDED"
        /\ Tell(c, "PAYMENT_PENDING") /\ Goto(c, "returned") /\ EndTx(c)
     \/ /\ paySeen[c] # "REFUNDED"
        /\ Goto(c, "finalize") /\ UNCHANGED <<told, tx>>
  /\ UNCHANGED <<rows, psp, inventory, my, paySeen, faults>>

-----------------------------------------------------------------------------
(* _finalize and _compensate                                                *)

(* confirm_assigned and confirm_ga find the reservation ACTIVE, or once the *)
(* seats are free of another confirm, gone.                                 *)
Confirm(c) ==
  /\ pc[c] = "finalize"
  /\ \/ Goto(c, "commit") /\ UNCHANGED my /\ Stock!Find(c, MyRes(c))
     \/ /\ inv[MyRes(c)] # "ACTIVE" /\ ~Stock!SeatsTaken(MyRes(c))
        /\ Goto(c, "rollback") /\ UNCHANGED <<my, inventory>>
  /\ Begin(c)
  /\ UNCHANGED <<rows, psp, told, paySeen, faults>>

(* The status of the reservation is written with the order. *)
CommitSale(c) ==
  /\ pc[c] = "commit"
  /\ Goto(c, "returned") /\ UNCHANGED my
  /\ Stock!Sell(c)
  /\ orders' = [orders EXCEPT ![my[c]] = "CONFIRMED"]
  /\ tickets' = [tickets EXCEPT ![my[c]] = @ + 1]
  /\ Tell(c, "CONFIRMED")
  /\ EndTx(c)
  /\ UNCHANGED <<payments, alerts, psp, paySeen, faults>>

(* rollback() expires every object of the session, so that the next access  *)
(* to payment.status, outside an await, raises MissingGreenlet.             *)
Rollback(c) ==
  /\ pc[c] = "rollback"
  /\ Goto(c, IF RollbackExpires THEN "error" ELSE "refund")
  /\ EndTx(c)
  /\ UNCHANGED <<rows, psp, inventory, call, paySeen, faults>>

(* Bug: the refund is left to somebody else. *)
BugRefundDue(c) == FALSE
RefundDue(c) == paySeen[c] = "CAPTURED"

Refund(c) ==
  /\ pc[c] = "refund"
  /\ refunds' = refunds \union {o \in {my[c]} : RefundDue(c)}
  /\ Goto(c, "compensate")
  /\ UNCHANGED <<rows, charges, inventory, call, paySeen, tx, faults>>

Compensate(c) ==
  /\ pc[c] = "compensate"
  /\ payments' = IF paySeen[c] = "CAPTURED"
                 THEN [payments EXCEPT ![my[c]] = "REFUNDED"] ELSE payments
  /\ orders' = [orders EXCEPT ![my[c]] = "COMPENSATED"]
  /\ alerts' = [alerts EXCEPT ![my[c]] = @ + 1]
  /\ Goto(c, "conflict")
  /\ Tell(c, "COMPENSATED")
  /\ UNCHANGED <<tickets, psp, inventory, my, paySeen, tx, faults>>

-----------------------------------------------------------------------------
(* Failures, and the worker as the saga sees it.                            *)

FailCall(c) ==
  /\ Running(c)
  /\ Goto(c, "error")
  /\ EndTx(c)
  /\ UNCHANGED <<rows, psp, inventory, call, paySeen>>

Fault(c) == faults < MaxFaults /\ faults' = faults + 1 /\ FailCall(c)

(* A confirm has the seats, a worker the hold, and each waits for the other. *)
DeadlockVictim(c) ==
  /\ pc[c] = "commit" /\ MyRes(c) \in looked \intersect Assigned
  /\ FailCall(c)
  /\ UNCHANGED faults

Elsewhere == UNCHANGED <<rows, psp, pc, call, paySeen, tx, faults>>

Lapse(r) == Elsewhere /\ Stock!Lapse(r)

WorkerLooks(r) == Elsewhere /\ Stock!Look(r)

(* The pass commits, or ends without having changed anything. *)
WorkerExpires(r) == Elsewhere /\ Stock!EndPass({r}, {r})

WorkerGivesUp(r) == Elsewhere /\ Stock!EndPass({r}, {})

Step(c) ==
  \/ Quote(c) \/ InsertOrder(c) \/ ReadPayment(c) \/ InsertPayment(c)
  \/ Charge(c) \/ CommitDecline(c) \/ CommitCapture(c) \/ Settle(c)
  \/ Confirm(c) \/ CommitSale(c) \/ Rollback(c) \/ Refund(c) \/ Compensate(c)

Next ==
  \/ \E c \in Calls : LookupOrder(c) \/ Step(c) \/ Fault(c) \/ DeadlockVictim(c)
  \/ \E r \in Reservations :
       Lapse(r) \/ WorkerLooks(r) \/ WorkerExpires(r) \/ WorkerGivesUp(r)

Spec == Init /\ [][Next]_vars

(* A call that has begun runs to its end and gets a row it waits for; a     *)
(* worker pass ends.  No client has to call, no reservation has to run out. *)
FairSpec == /\ Spec
            /\ \A c \in Calls : SF_vars(Step(c))
            /\ \A r \in Reservations : WF_vars(WorkerGivesUp(r))

(* Time passes, the worker polls for ever and not every pass of it fails,   *)
(* whether or not the calls go on.                                          *)
ExpirySpec == /\ Spec
              /\ \A r \in Reservations : /\ WF_vars(Lapse(r)) /\ WF_vars(WorkerLooks(r))
                                        /\ SF_vars(WorkerExpires(r))

-----------------------------------------------------------------------------
(* Properties                                                               *)

(* The rows hold statuses of the schema's enums, and a call's copy of the   *)
(* payment and its place in the saga are ones the code has.                 *)
TypeOK ==
  /\ orders \in [Calls -> Final \union {"NONE", "PAYMENT_PENDING"}]
  /\ payments \in [Calls -> {"NONE", "PENDING", "CAPTURED", "FAILED", "REFUNDED"}]
  /\ tickets \in [Calls -> Nat] /\ alerts \in [Calls -> Nat]
  /\ charges \in [Calls -> {"none", "ok", "declined"}]
  /\ refunds \subseteq Calls
  /\ inv \in [Reservations -> {"ACTIVE", "CONFIRMED", "EXPIRED"}]
  /\ lapsed \subseteq Reservations /\ looked \subseteq Reservations
  /\ pc \in [Calls -> Ended \union
                {"idle", "quote", "order", "ensure", "payment", "charge", "decline",
                 "capture", "settle", "finalize", "commit", "rollback", "refund",
                 "compensate"}]
  /\ my \in [Calls -> Calls \union {None}]
  /\ told \in [Calls -> Final \union {"NONE", "PAYMENT_PENDING"}]
  /\ paySeen \in [Calls -> {"NONE", "PENDING", "CAPTURED", "FAILED", "REFUNDED"}]
  /\ tx \subseteq Calls
  /\ faults \in 0..MaxFaults

(* Nobody pays twice for a reservation, however many calls, keys, retries,  *)
(* crashes and lost replies there are.                                      *)
NoDoubleCharge ==
  \A b, c \in Calls : charges[b] = "ok" /\ charges[c] = "ok" /\ Res(b) = Res(c) => b = c

(* A hold of seats is sold by one commit, with one ticket, however many     *)
(* calls of however many clients overlap on it.                             *)
HoldIsSoldOnce ==
  \A r \in Assigned :
    IF inv[r] = "CONFIRMED"
    THEN \E o \in Calls : /\ Res(o) = r /\ tickets[o] = 1
                          /\ \A p \in Calls \ {o} : Res(p) = r => tickets[p] = 0
    ELSE \A o \in Calls : Res(o) = r => tickets[o] = 0

(* A reservation is confirmed exactly when its order is, and only then does *)
(* the buyer get a ticket, and a single one.                                *)
SaleIsOneCommit ==
  /\ \A r \in Reservations :
       inv[r] = "CONFIRMED" <=> \E o \in Calls : Res(o) = r /\ orders[o] = "CONFIRMED"
  /\ \A o \in Calls : tickets[o] = IF orders[o] = "CONFIRMED" THEN 1 ELSE 0

(* Inventory moves to SOLD only after a captured payment. *)
ConfirmedIsPaid ==
  \A o \in Calls : orders[o] = "CONFIRMED" => charges[o] = "ok" /\ payments[o] = "CAPTURED"

(* Confirms are idempotent: one order gives one ticket. *)
OneTicketPerOrder == \A o \in Calls : tickets[o] <= 1

(* What a client was told of an order stays true, so that every retry of it *)
(* is told the same: a sale once confirmed, declined or refunded is that.   *)
ToldStaysTrue == \A c \in Calls : told[c] # "NONE" => orders[my[c]] = told[c]

(* The transaction is closed while the PSP is asked to charge. *)
NoTransactionDuringCharge == \A c \in Calls : pc[c] = "charge" => c \notin tx

(* It is so for the call that has placed the order: the charge begins after *)
(* the commit of the payments row.                                          *)
NewOrderIsChargedOutside ==
  \A c \in Calls : pc[c] = "charge" /\ my[c] = c => c \notin tx

(* If the confirm fails after a successful capture, the buyer is refunded,  *)
(* unless an error or a crash ends the call before that.                    *)
LostSaleIsRefunded ==
  [](faults = 0) => \A c \in Calls :
    pc[c] = "rollback" /\ paySeen[c] = "CAPTURED" ~> pc[c] = "conflict" /\ my[c] \in refunds

(* The money goes with the ticket: a buyer who got it back has none, and    *)
(* when an order is final a charge that went through has brought a ticket   *)
(* or was refunded.                                                         *)
MoneyIsAccountedFor ==
  \A o \in Calls :
    /\ o \in refunds => charges[o] = "ok" /\ tickets[o] = 0
    /\ orders[o] \in Final /\ charges[o] = "ok" => tickets[o] > 0 \/ o \in refunds

(* A declined order keeps its hold's place in the unique index, so that     *)
(* nobody can pay for that hold any more: the worker takes it back.         *)
DeclinedComesBack ==
  \A o \in Calls : orders[o] = "PAYMENT_FAILED" ~> inv[Res(o)] # "ACTIVE"
=============================================================================
