---------------------------- MODULE GaInventory ----------------------------
(***************************************************************************)
(* General admission: one counter of free places, claimed optimistically   *)
(* by the reserve calls of ga_service.py and ga_stock.py, confirmed by     *)
(* confirm_ga, and given back by the expiry pass of the worker.            *)
(*                                                                         *)
(* As in SeatInventory, a transaction's writes are applied by the step     *)
(* that commits it, row locks are explicit, and every await of the code    *)
(* separates two actions.                                                  *)
(***************************************************************************)
EXTENDS Naturals, FiniteSets

CONSTANTS Calls,        \* reserve calls; the reservation of a call is itself
          Req,          \* Req[r]: the key, session and quantity of call r, and
                        \* whether the client ever pays for what it gets
          Buyers,       \* calls that confirm a reservation for a paid order
          Workers,      \* worker processes
          Capacity,     \* places of the match
          MaxQuantity,  \* settings.ga_max_quantity
          MaxAttempts,  \* settings.ga_max_attempts
          BatchSize,    \* settings.worker_batch_size
          MaxFaults,    \* bound on database errors
          LateCapture,  \* whether a payment may still be captured after the
                        \* reservation has run out
          None          \* NULL

ASSUME PoolAssumption ==
  /\ Calls \subseteq Nat /\ IsFiniteSet(Calls)
  /\ Capacity \in Nat /\ MaxQuantity \in Nat /\ MaxAttempts \in Nat \ {0}
  /\ BatchSize \in Nat /\ MaxFaults \in Nat /\ LateCapture \in BOOLEAN

ASSUME RequestAssumption ==
  \A r \in Calls : Req[r].quantity \in Nat /\ Req[r].pays \in BOOLEAN

ASSUME ProcessAssumption ==
  /\ Calls \intersect Buyers = {}
  /\ Calls \intersect Workers = {}
  /\ Buyers \intersect Workers = {}
  /\ None \notin Calls \union Buyers \union Workers

Procs == Calls \union Buyers \union Workers

VARIABLES
  pool,      \* the ga_inventory row: [available, version]
  status,    \* status of each ga_reservations row, "NONE" before it exists
  expiry,    \* "running", then "lapsed" or, if paid for by then, "lapsed_paid"
  captured,  \* the reservations whose order has a captured payment
  poolLock,  \* the transaction that has written the pool row, or None
  resLock,   \* the worker that has each reservation locked, or None
  pc,        \* where each call stands
  snapshot,  \* the version of the pool row that a call or worker has read
             \* and not used yet, or NotRead
  attempt,   \* conflicts a reserve call has met so far
  answer,    \* the reservation a finished reserve call returned, or None
  target,    \* the reservation a buyer or worker is working on
  batch,     \* the reservations a worker has locked and not yet examined
  freed,     \* those it has expired in its open transaction
  faults     \* errors so far

vars == <<pool, status, expiry, captured, poolLock, resLock, pc, snapshot,
          attempt, answer, target, batch, freed, faults>>

clock == <<expiry, captured>>
locks == <<poolLock, resLock>>
reading == <<snapshot, target>>
call == <<attempt, answer>>
pass == <<batch, freed>>

Quantity(r) == Req[r].quantity

(* One element for each place of the reservations in R. *)
Places(R) == {place \in R \X (1..MaxQuantity) : place[2] <= Quantity(place[1])}

IsFirst(x, S) == x \in S /\ \A y \in S : x <= y

NotRead == 0

Goto(p, where) == pc' = [pc EXCEPT ![p] = where]

Forget(p) == snapshot' = [snapshot EXCEPT ![p] = NotRead]

(* A reserve call ends, and its local variables with it. *)
EndCall(r) == Forget(r) /\ attempt' = [attempt EXCEPT ![r] = 0] /\ Goto(r, "done")

(* Operators with a name that starts with Bug are mutated forms of the      *)
(* definition that follows them; no action uses them.  Each one makes a     *)
(* property of this module fail.                                            *)

(* Bug: a session is left open, with its row lock. *)
BugSessionLeak(p) == UNCHANGED poolLock

Unlock(p) == poolLock' = IF poolLock = p THEN None ELSE poolLock

Init ==
  /\ pool = [available |-> Capacity, version |-> 1]
  /\ status = [r \in Calls |-> "NONE"]
  /\ expiry = [r \in Calls |-> "running"]
  /\ captured = {}
  /\ poolLock = None
  /\ resLock = [r \in Calls |-> None]
  /\ pc = [p \in Procs |-> "idle"]
  /\ snapshot = [p \in Calls \union Workers |-> NotRead]
  /\ attempt = [r \in Calls |-> 0]
  /\ answer = [r \in Calls |-> None]
  /\ target = [p \in Buyers \union Workers |-> None]
  /\ batch = [w \in Workers |-> {}]
  /\ freed = [w \in Workers |-> {}]
  /\ faults = 0

-----------------------------------------------------------------------------
(* reserve.                                                                 *)

SameKey(q, r) == Req[q].key = Req[r].key

(* GaQuantityError, the replay, or a first attempt. *)
LookupReservation(r) ==
  /\ pc[r] = "idle"
  /\ \/ /\ Quantity(r) \notin 1..MaxQuantity
        /\ Goto(r, "done")
        /\ UNCHANGED answer
     \/ /\ Quantity(r) \in 1..MaxQuantity
        /\ \A q \in Calls : SameKey(q, r) => status[q] = "NONE"
        /\ Goto(r, "read")
        /\ UNCHANGED answer
     \/ /\ Quantity(r) \in 1..MaxQuantity
        /\ \E q \in Calls :
             /\ SameKey(q, r) /\ status[q] # "NONE"
             /\ answer' = [answer EXCEPT ![r] =
                             IF Req[q].session = Req[r].session THEN q ELSE None]
        /\ Goto(r, "done")
  /\ UNCHANGED <<pool, status, clock, locks, reading, attempt, pass, faults>>

(* Bug: the check of the number left is dropped. *)
BugNoStockCheck(r) == TRUE
EnoughLeft(r) == pool.available >= Quantity(r)

ReadStock(r) ==
  /\ pc[r] = "read"
  /\ \/ /\ EnoughLeft(r)
        /\ snapshot' = [snapshot EXCEPT ![r] = pool.version]
        /\ Goto(r, "update")
        /\ UNCHANGED attempt
     \/ ~EnoughLeft(r) /\ EndCall(r)
  /\ UNCHANGED <<pool, status, clock, locks, target, answer, pass, faults>>

SameVersion(p) == pool.version = snapshot[p]

(* UPDATE ... WHERE version = n AND available >= quantity.  No row matched  *)
(* is a conflict: the call sleeps and reads again, ga_max_attempts times.   *)
ClaimStock(r) ==
  /\ pc[r] = "update" /\ poolLock = None
  /\ \/ /\ SameVersion(r) /\ EnoughLeft(r)
        /\ poolLock' = r
        /\ Goto(r, "insert")
        /\ Forget(r) /\ UNCHANGED attempt
     \/ /\ ~(SameVersion(r) /\ EnoughLeft(r))
        /\ \/ /\ attempt[r] + 1 < MaxAttempts
              /\ attempt' = [attempt EXCEPT ![r] = @ + 1]
              /\ Goto(r, "read") /\ Forget(r)
           \/ attempt[r] + 1 = MaxAttempts /\ EndCall(r)
        /\ UNCHANGED poolLock
  /\ UNCHANGED <<pool, status, clock, resLock, target, answer, pass, faults>>

PoolAfterClaim(r) == [available |-> pool.available - Quantity(r),
                      version |-> pool.version + 1]

(* Bug: nothing makes the key unique. *)
BugKeyIsFree(r) == TRUE
KeyIsFree(r) == \A q \in Calls : SameKey(q, r) => status[q] = "NONE"

(* The INSERT and the COMMIT; a second row with the key fails both, and     *)
(* nothing in the call handles that error.                                  *)
CommitClaim(r) ==
  /\ pc[r] = "insert"
  /\ Unlock(r)
  /\ EndCall(r)
  /\ \/ /\ KeyIsFree(r)
        /\ pool' = PoolAfterClaim(r)
        /\ status' = [status EXCEPT ![r] = "ACTIVE"]
        /\ answer' = [answer EXCEPT ![r] = r]
     \/ /\ ~KeyIsFree(r)
        /\ UNCHANGED <<pool, status, answer>>
  /\ UNCHANGED <<clock, resLock, target, pass, faults>>

-----------------------------------------------------------------------------
(* confirm_ga, called by the checkout once a payment is captured.           *)

StartConfirm(c, r) ==
  /\ pc[c] = "idle" /\ r \in captured
  /\ target' = [target EXCEPT ![c] = r]
  /\ Goto(c, "get")
  /\ UNCHANGED <<pool, status, clock, locks, snapshot, call, pass, faults>>

GetReservation(c) ==
  /\ pc[c] = "get"
  /\ Goto(c, IF status[target[c]] = "ACTIVE" THEN "flush" ELSE "lost")
  /\ UNCHANGED <<pool, status, clock, locks, reading, call, pass, faults>>

(* The commit flushes UPDATE ga_reservations SET status WHERE id: it waits  *)
(* for the row lock and then writes, whatever the status has become.        *)
CommitConfirm(c) ==
  /\ pc[c] = "flush" /\ resLock[target[c]] = None
  /\ status' = [status EXCEPT ![target[c]] = "CONFIRMED"]
  /\ Goto(c, "sold")
  /\ UNCHANGED <<pool, clock, locks, reading, call, pass, faults>>

-----------------------------------------------------------------------------
(* expire_ga, within the one transaction of a worker pass.                  *)

Due(r) == status[r] = "ACTIVE" /\ expiry[r] # "running" /\ resLock[r] = None

SelectExpired(w) ==
  /\ pc[w] = "idle"
  /\ \E B \in SUBSET {r \in Calls : Due(r)} :
       /\ B # {} /\ Cardinality(B) <= BatchSize
       /\ \A r \in Calls \ B : Due(r) => /\ Cardinality(B) = BatchSize
                                         /\ \A b \in B : b < r
       /\ batch' = [batch EXCEPT ![w] = B]
       /\ resLock' = [r \in Calls |-> IF r \in B THEN w ELSE resLock[r]]
  /\ Goto(w, "examine")
  /\ UNCHANGED <<pool, status, clock, poolLock, reading, call, freed, faults>>

(* Bug: no look at payments; a look that forgets which reservation it is    *)
(* about.                                                                   *)
BugIgnorePayment(r) == FALSE
BugAnyPayment(r) == captured # {}

HasCapturedPayment(r) == r \in captured

Examine(w, r) ==
  /\ pc[w] = "examine"
  /\ IsFirst(r, batch[w])
  /\ batch' = [batch EXCEPT ![w] = @ \ {r}]
  /\ target' = [target EXCEPT ![w] = r]
  /\ Goto(w, IF HasCapturedPayment(r) THEN "examine" ELSE "read")
  /\ UNCHANGED <<pool, status, clock, locks, snapshot, call, freed, faults>>

(* The pool as transaction w sees it: with what it has given back so far.   *)
PoolIn(w) == [available |-> pool.available + Cardinality(Places(freed[w])),
              version |-> pool.version + Cardinality(freed[w])]

ReadPool(w) ==
  /\ pc[w] = "read"
  /\ snapshot' = [snapshot EXCEPT ![w] = PoolIn(w).version]
  /\ Goto(w, "return")
  /\ UNCHANGED <<pool, status, clock, locks, call, target, pass, faults>>

(* release_ga.  On a conflict the reservation stays ACTIVE for a later pass. *)
ReturnPlaces(w) ==
  /\ pc[w] = "return" /\ poolLock \in {None, w}
  /\ Goto(w, "examine")
  /\ Forget(w)
  /\ \/ /\ PoolIn(w).version = snapshot[w]
        /\ poolLock' = w
        /\ freed' = [freed EXCEPT ![w] = @ \union {target[w]}]
     \/ /\ PoolIn(w).version # snapshot[w]
        /\ UNCHANGED <<poolLock, freed>>
  /\ UNCHANGED <<pool, status, clock, resLock, target, call, batch, faults>>

EndPass(w) ==
  /\ Unlock(w)
  /\ resLock' = [r \in Calls |-> IF resLock[r] = w THEN None ELSE resLock[r]]
  /\ batch' = [batch EXCEPT ![w] = {}]
  /\ freed' = [freed EXCEPT ![w] = {}]
  /\ target' = [target EXCEPT ![w] = None]
  /\ Forget(w)
  /\ Goto(w, "idle")
  /\ UNCHANGED <<clock, call>>

(* Bug: the places of a pass go back, its reservations stay ACTIVE. *)
BugStillActive(w, r) == status[r]
StatusAfterPass(w, r) == IF r \in freed[w] THEN "EXPIRED" ELSE status[r]

CommitPass(w) ==
  /\ pc[w] = "examine" /\ batch[w] = {}
  /\ pool' = PoolIn(w)
  /\ status' = [r \in Calls |-> StatusAfterPass(w, r)]
  /\ EndPass(w)
  /\ UNCHANGED faults

-----------------------------------------------------------------------------
(* A database error or a crash: the transaction of the call rolls back.     *)

FailReserve(r) ==
  /\ pc[r] \in {"read", "update", "insert"}
  /\ Unlock(r)
  /\ EndCall(r)
  /\ UNCHANGED <<pool, status, clock, resLock, target, answer, pass>>

FailConfirm(c) ==
  /\ pc[c] \in {"get", "flush"}
  /\ Goto(c, "failed")
  /\ UNCHANGED <<pool, status, clock, locks, reading, call, pass>>

FailPass(w) == pc[w] # "idle" /\ EndPass(w) /\ UNCHANGED <<pool, status>>

Fault ==
  /\ faults < MaxFaults /\ faults' = faults + 1
  /\ \/ \E r \in Calls : FailReserve(r)
     \/ \E c \in Buyers : FailConfirm(c)
     \/ \E w \in Workers : FailPass(w)

-----------------------------------------------------------------------------
(* What happens around these calls.                                         *)

(* checkout captures a payment for an order placed while the reservation    *)
(* was active; with LateCapture it may have run out, or expired, since.     *)
Capture(r) ==
  /\ Req[r].pays
  /\ status[r] \in {"ACTIVE", "EXPIRED"} /\ r \notin captured
  /\ LateCapture \/ expiry[r] = "running"
  /\ captured' = captured \union {r}
  /\ UNCHANGED <<pool, status, expiry, locks, pc, reading, call, pass, faults>>

Lapse(r) ==
  /\ status[r] = "ACTIVE" /\ expiry[r] = "running"
  /\ expiry' = [expiry EXCEPT ![r] = IF r \in captured THEN "lapsed_paid" ELSE "lapsed"]
  /\ UNCHANGED <<pool, status, captured, locks, pc, reading, call, pass,
                 faults>>

Reserve(r) == LookupReservation(r) \/ ReadStock(r) \/ ClaimStock(r) \/ CommitClaim(r)

Confirm(c) == GetReservation(c) \/ CommitConfirm(c)

ExpirePass(w) ==
  \/ SelectExpired(w) \/ ReadPool(w) \/ ReturnPlaces(w) \/ CommitPass(w)
  \/ \E r \in Calls : Examine(w, r)

Next ==
  \/ \E r \in Calls : Reserve(r) \/ Capture(r) \/ Lapse(r)
  \/ \E c \in Buyers : Confirm(c) \/ \E r \in Calls : StartConfirm(c, r)
  \/ \E w \in Workers : ExpirePass(w)
  \/ Fault

Spec == Init /\ [][Next]_vars

(* Calls run whenever they can; a released row goes to a transaction that   *)
(* waits for it; the worker polls for ever.                                 *)
FairSpec == /\ Spec
            /\ \A r \in Calls : SF_vars(Reserve(r))
            /\ \A c \in Buyers : SF_vars(Confirm(c))
            /\ \A w \in Workers : SF_vars(ExpirePass(w))

-----------------------------------------------------------------------------
(* Properties                                                               *)

Live(s) == {r \in Calls : status[r] = s}

(* The row keeps the CHECKs of the schema: available between 0 and the      *)
(* capacity, version at least 1.                                            *)
TypeOK ==
  /\ pool \in [available : 0..Capacity, version : Nat \ {0}]
  /\ status \in [Calls -> {"NONE", "ACTIVE", "CONFIRMED", "EXPIRED"}]
  /\ expiry \in [Calls -> {"running", "lapsed", "lapsed_paid"}]
  /\ captured \subseteq Calls
  /\ poolLock \in Calls \union Workers \union {None}
  /\ resLock \in [Calls -> Workers \union {None}]
  /\ pc \in [Procs -> {"idle", "read", "update", "insert", "done", "get", "flush",
                       "sold", "lost", "failed", "examine", "return"}]
  /\ snapshot \in [Calls \union Workers -> Nat]
  /\ attempt \in [Calls -> 0..(MaxAttempts - 1)]
  /\ answer \in [Calls -> Calls \union {None}]
  /\ target \in [Buyers \union Workers -> Calls \union {None}]
  /\ batch \in [Workers -> SUBSET Calls]
  /\ freed \in [Workers -> SUBSET Calls]
  /\ faults \in 0..MaxFaults

(* Never oversell: the places of the confirmed reservations exist.          *)
NoOversell == Cardinality(Places(Live("CONFIRMED"))) <= Capacity

(* No place is lost or made: those left, those reserved and those sold add  *)
(* up, across concurrent claims, conflicts, retries and worker passes.      *)
PlacesConserved ==
  pool.available + Cardinality(Places(Live("ACTIVE") \union Live("CONFIRMED"))) = Capacity

(* What create_ga_reservation tells the client of an ended call: 409 also   *)
(* stands for the errors it does not handle.                                *)
StatusCode(r) == CASE Quantity(r) \notin 1..MaxQuantity -> 400
                   [] answer[r] = r -> 201
                   [] answer[r] \notin {r, None} -> 200
                   [] OTHER -> 409

(* One reservation per idempotency key, none for a quantity that the client *)
(* is told is not allowed, and a replay is answered with it, to its own     *)
(* session only.                                                            *)
OneReservationPerKey ==
  \A q, r \in Calls : SameKey(q, r) =>
    /\ StatusCode(r) = 400 => status[r] = "NONE"
    /\ StatusCode(q) = 201 /\ StatusCode(r) = 201 => q = r
    /\ status[q] # "NONE" /\ status[r] # "NONE" => q = r
    /\ answer[r] = q => status[q] # "NONE" /\ Req[q].session = Req[r].session

(* Every reserve call ends, however often it meets a conflict.              *)
ReserveEnds == \A r \in Calls : pc[r] # "idle" ~> pc[r] = "done"

(* An abandoned reservation gives its places back.                          *)
LapsedReservationIsReturned ==
  \A r \in Calls : status[r] = "ACTIVE" /\ expiry[r] # "running"
                     ~> status[r] # "ACTIVE" \/ r \in captured

(* The calls and the worker implement what the checkout is told of a        *)
(* reservation: above all, one that is paid for before it runs out is never *)
(* expired.                                                                 *)
LooksAt(w) ==
  freed[w] \union {r \in Calls : target[w] = r /\ pc[w] \in {"read", "return"}}

Confirming(c) == IF pc[c] = "flush" THEN target[c] ELSE None

Pool == INSTANCE Reservation
          WITH Reservations <- Calls, Assigned <- {}, Calls <- Buyers,
               inv <- status,
               lapsed <- {r \in Calls : expiry[r] # "running"},
               paid <- captured,
               looked <- UNION {LooksAt(w) : w \in Workers},
               confirming <- [c \in Buyers |-> Confirming(c)]

ImplementsReservation == Pool!Spec
=============================================================================
