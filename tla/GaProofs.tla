------------------------------ MODULE GaProofs ------------------------------
(***************************************************************************)
(* Proofs about GaInventory for any calls, requests, capacity, number of   *)
(* attempts and batch size: the places add up, a key makes one             *)
(* reservation, and the calls and the worker implement Reservation.        *)
(***************************************************************************)
EXTENDS GaInventory, FiniteSetTheorems, TLAPS

-----------------------------------------------------------------------------
(* The inductive invariant                                                  *)

(* A call has no reservation before its commit.  The one that is about to   *)
(* commit has the pool locked, with enough places in it.                    *)
CallInv(r) ==
  /\ pc[r] \in {"idle", "read", "update", "insert", "done"}
  /\ pc[r] # "done" => status[r] = "NONE"
  /\ pc[r] \in {"read", "update", "insert"} \/ status[r] # "NONE" =>
       Quantity(r) \in 1..MaxQuantity
  /\ pc[r] = "insert" => poolLock = r /\ EnoughLeft(r)

KeyInv ==
  \A q, r \in Calls :
    /\ SameKey(q, r) /\ status[q] # "NONE" /\ status[r] # "NONE" => q = r
    /\ answer[r] = q => status[q] # "NONE" /\ Req[q].session = Req[r].session

BuyerInv(c) ==
  /\ pc[c] \in {"idle", "get", "flush", "sold", "lost", "failed"}
  /\ pc[c] # "idle" => target[c] \in captured

(* A worker has locked the reservations it is about to examine, examining,  *)
(* or has expired, each of them once; and the pool once it has written it.  *)
PassInv(w) ==
  /\ pc[w] \in {"idle", "examine", "read", "return"}
  /\ pc[w] = "idle" => freed[w] = {} /\ poolLock # w
  /\ batch[w] \intersect freed[w] = {}
  /\ \A r \in batch[w] \union freed[w] : resLock[r] = w
  /\ pc[w] \in {"read", "return"} => /\ target[w] \in Calls /\ resLock[target[w]] = w
                                     /\ target[w] \notin batch[w] \union freed[w]
  /\ freed[w] # {} => poolLock = w

ReservationInv ==
  /\ \A r \in captured : status[r] # "NONE"
  /\ \A r \in Calls : resLock[r] # None => status[r] = "ACTIVE" /\ expiry[r] # "running"

PlacesHeld == Cardinality(Places(Live("ACTIVE")))
PlacesTaken == Cardinality(Places(Live("ACTIVE") \union Live("CONFIRMED")))

(* No place is given out twice while a reservation is ACTIVE, and none is   *)
(* lost, whatever is paid for and when.                                     *)
PoolInv ==
  /\ pool.available + PlacesHeld <= Capacity
  /\ pool.available + PlacesTaken >= Capacity

GInv == /\ TypeOK /\ ReservationInv /\ KeyInv /\ PoolInv
        /\ \A r \in Calls : CallInv(r)
        /\ \A c \in Buyers : BuyerInv(c)
        /\ \A w \in Workers : PassInv(w)

(* Where a payment cannot come after the reservation has run out, what is   *)
(* paid for is not expired, and the places add up.                          *)
PaidInv ==
  /\ \A r \in Calls : status[r] = "EXPIRED" => expiry[r] # "running"
  /\ \A r \in captured : /\ status[r] # "EXPIRED"
                         /\ \A w \in Workers : r \notin LooksAt(w)


-----------------------------------------------------------------------------
(* Places                                                                   *)

LEMMA PlacesFinite ==
  ASSUME NEW R \in SUBSET Calls
  PROVE  IsFiniteSet(Places(R)) /\ Cardinality(Places(R)) \in Nat
<1>1. IsFiniteSet(R) /\ IsFiniteSet(1..MaxQuantity)
  <2>1. 1 \in Int /\ MaxQuantity \in Int /\ IsFiniteSet(Calls)
    BY PoolAssumption
  <2>2. IsFiniteSet(R)
    BY <2>1, FS_Subset
  <2>3. IsFiniteSet(1..MaxQuantity)
    BY <2>1, FS_Interval
  <2> QED BY <2>2, <2>3
<1>2. IsFiniteSet(R \X (1..MaxQuantity)) /\ Places(R) \in SUBSET (R \X (1..MaxQuantity))
  BY <1>1, FS_Product DEF Places
<1> QED BY <1>2, FS_Subset, FS_CardinalityType

(* Reservations that differ have no place in common. *)
LEMMA PlacesAdd ==
  ASSUME NEW Q \in SUBSET Calls, NEW R \in SUBSET Calls, Q \intersect R = {}
  PROVE  Cardinality(Places(Q \union R)) = Cardinality(Places(Q)) + Cardinality(Places(R))
<1>1. Places(Q \union R) = Places(Q) \union Places(R)
  BY DEF Places
<1>2. Places(Q) \intersect Places(R) = {}
  BY DEF Places
<1>3. /\ IsFiniteSet(Places(Q)) /\ Cardinality(Places(Q)) \in Nat
      /\ IsFiniteSet(Places(R)) /\ Cardinality(Places(R)) \in Nat
  BY PlacesFinite
<1>4. Cardinality(Places(Q) \union Places(R))
        = Cardinality(Places(Q)) + Cardinality(Places(R)) - Cardinality(Places(Q) \intersect Places(R))
  BY <1>3, FS_Union
<1>5. Cardinality(Places(Q) \intersect Places(R)) = 0
  BY <1>2, FS_EmptySet
<1> QED BY <1>1, <1>3, <1>4, <1>5

LEMMA PlacesGrow ==
  ASSUME NEW Q \in SUBSET Calls, NEW R \in SUBSET Q
  PROVE  Cardinality(Places(R)) <= Cardinality(Places(Q))
<1>1. Places(R) \in SUBSET Places(Q)
  BY DEF Places
<1> QED BY <1>1, PlacesFinite, FS_Subset

LEMMA PlacesOfOne ==
  ASSUME NEW r \in Calls, Quantity(r) \in 1..MaxQuantity
  PROVE  Cardinality(Places({r})) = Quantity(r)
<1>1. Places({r}) = {r} \X (1..Quantity(r))
  BY PoolAssumption DEF Places
<1>2. IsFiniteSet({r}) /\ Cardinality({r}) = 1
  BY FS_Singleton
<1>3. IsFiniteSet(1..Quantity(r)) /\ Cardinality(1..Quantity(r)) = Quantity(r)
  BY FS_Interval
<1>4. Cardinality({r} \X (1..Quantity(r))) = Cardinality({r}) * Cardinality(1..Quantity(r))
  BY <1>2, <1>3, FS_Product
<1>5. Cardinality(Places({r})) = 1 * Quantity(r)
  BY <1>1, <1>2, <1>3, <1>4
<1>6. Quantity(r) \in Nat
  OBVIOUS
<1> QED BY <1>5, <1>6

-----------------------------------------------------------------------------
(* Who steps, and what it leaves alone                                      *)

CallStep(r) == Reserve(r) \/ FailReserve(r)
BuyerStep(c) == Confirm(c) \/ FailConfirm(c) \/ \E r \in Calls : StartConfirm(c, r)
WorkerStep(w) == ExpirePass(w) \/ FailPass(w)
Around == \E r \in Calls : Capture(r) \/ Lapse(r)

Waits(q) ==
  /\ pc'[q] = pc[q]
  /\ poolLock' = q <=> poolLock = q
  /\ q \in Buyers \union Workers => target'[q] = target[q]
  /\ q \in Workers => /\ batch'[q] = batch[q] /\ freed'[q] = freed[q]
                      /\ \A r \in Calls : resLock'[r] = q <=> resLock[r] = q

LEMMA GotoKeeps ==
  ASSUME TypeOK, NEW p \in Procs, NEW where, Goto(p, where)
  PROVE  pc'[p] = where /\ \A q \in Procs \ {p} : pc'[q] = pc[q]
BY DEF TypeOK, Goto

LEMMA CallAlone ==
  ASSUME TypeOK, NEW r \in Calls, CallStep(r)
  PROVE  \A q \in Procs \ {r} : Waits(q)
<1> USE ProcessAssumption DEF clock, locks, call, reading, pass, EndCall
<1>1. r \in Procs
  BY DEF Procs
<1>2. UNCHANGED <<target, batch, freed, resLock>>
  BY DEF CallStep, Reserve, FailReserve, LookupReservation, ReadStock, ClaimStock, CommitClaim
<1>3. \E where : Goto(r, where)
  BY DEF CallStep, Reserve, FailReserve, LookupReservation, ReadStock, ClaimStock, CommitClaim
<1>4. UNCHANGED poolLock \/ Unlock(r) \/ (poolLock = None /\ poolLock' = r)
  BY DEF CallStep, Reserve, FailReserve, LookupReservation, ReadStock, ClaimStock, CommitClaim
<1>5. \A q \in Procs \ {r} : poolLock' = q <=> poolLock = q
  BY <1>4 DEF Unlock, Procs
<1> QED BY <1>1, <1>2, <1>3, <1>5, GotoKeeps DEF Waits

LEMMA BuyerAlone ==
  ASSUME TypeOK, NEW c \in Buyers, BuyerStep(c)
  PROVE  \A q \in Procs \ {c} : Waits(q)
<1> USE ProcessAssumption DEF clock, locks, call, reading, pass
<1>1. c \in Procs
  BY DEF Procs
<1>2. UNCHANGED <<batch, freed, resLock, poolLock>>
  BY DEF BuyerStep, Confirm, FailConfirm, StartConfirm, GetReservation, CommitConfirm
<1>3. \A q \in (Buyers \union Workers) \ {c} : target'[q] = target[q]
  BY DEF BuyerStep, Confirm, FailConfirm, StartConfirm, GetReservation, CommitConfirm, TypeOK
<1>4. \E where : Goto(c, where)
  BY DEF BuyerStep, Confirm, FailConfirm, StartConfirm, GetReservation, CommitConfirm
<1> QED BY <1>1, <1>2, <1>3, <1>4, GotoKeeps DEF Waits

LEMMA WorkerAlone ==
  ASSUME TypeOK, NEW w \in Workers, WorkerStep(w)
  PROVE  \A q \in Procs \ {w} : Waits(q)
<1> USE ProcessAssumption DEF clock, locks, call, reading, pass
<1>1. w \in Procs
  BY DEF Procs
<1>2. \A q \in (Buyers \union Workers) \ {w} : target'[q] = target[q]
  BY DEF WorkerStep, ExpirePass, FailPass, EndPass, SelectExpired, ReadPool, ReturnPlaces,
         CommitPass, Examine, TypeOK
<1>3. \A q \in Workers \ {w} : batch'[q] = batch[q] /\ freed'[q] = freed[q]
  BY DEF WorkerStep, ExpirePass, FailPass, EndPass, SelectExpired, ReadPool, ReturnPlaces,
         CommitPass, Examine, TypeOK
<1>4. \E where : Goto(w, where)
  BY DEF WorkerStep, ExpirePass, FailPass, EndPass, SelectExpired, ReadPool, ReturnPlaces,
         CommitPass, Examine
<1>5. UNCHANGED poolLock \/ Unlock(w) \/ (poolLock \in {None, w} /\ poolLock' = w)
  BY DEF WorkerStep, ExpirePass, FailPass, EndPass, SelectExpired, ReadPool, ReturnPlaces,
         CommitPass, Examine
<1>6. \A q \in Procs \ {w} : poolLock' = q <=> poolLock = q
  BY <1>5 DEF Unlock, Procs
<1>7. \A q \in Workers \ {w}, r \in Calls : resLock'[r] = q <=> resLock[r] = q
  <2>1. CASE SelectExpired(w)
    BY <2>1 DEF SelectExpired, Due
  <2>2. CASE EndPass(w)
    BY <2>2 DEF EndPass
  <2> QED BY <2>1, <2>2 DEF WorkerStep, ExpirePass, FailPass, ReadPool, ReturnPlaces,
             CommitPass, Examine
<1> QED BY <1>1, <1>2, <1>3, <1>4, <1>6, <1>7, GotoKeeps DEF Waits

LEMMA WhoSteps ==
  ASSUME TypeOK, [Next]_vars
  PROVE  \/ \E r \in Calls : CallStep(r) /\ \A q \in Procs \ {r} : Waits(q)
         \/ \E c \in Buyers : BuyerStep(c) /\ \A q \in Procs \ {c} : Waits(q)
         \/ \E w \in Workers : WorkerStep(w) /\ \A q \in Procs \ {w} : Waits(q)
         \/ (Around \/ UNCHANGED vars) /\ \A q \in Procs : Waits(q)
<1>1. \/ \E r \in Calls : CallStep(r)
      \/ \E c \in Buyers : BuyerStep(c)
      \/ \E w \in Workers : WorkerStep(w)
      \/ Around \/ UNCHANGED vars
  BY DEF Next, Fault, CallStep, BuyerStep, WorkerStep, Around
<1>2. ASSUME Around \/ UNCHANGED vars PROVE \A q \in Procs : Waits(q)
  BY <1>2 DEF Around, Capture, Lapse, vars, Waits, locks, reading, call, pass
<1> QED BY <1>1, <1>2, CallAlone, BuyerAlone, WorkerAlone

-----------------------------------------------------------------------------
(* What each commit writes                                                  *)

LEMMA ClaimCommit ==
  ASSUME GInv, NEW r \in Calls, CommitClaim(r), KeyIsFree(r)
  PROVE  /\ status[r] = "NONE" /\ status' = [status EXCEPT ![r] = "ACTIVE"]
         /\ Quantity(r) \in 1..MaxQuantity /\ Quantity(r) <= pool.available
         /\ pool' = [available |-> pool.available - Quantity(r),
                     version |-> pool.version + 1]
         /\ pc[r] = "insert" /\ answer' = [answer EXCEPT ![r] = r]
<1>1. CallInv(r) /\ pc[r] = "insert"
  BY DEF GInv, CommitClaim
<1>2. pool.available \in Nat /\ Quantity(r) \in Nat
  BY <1>1, PoolAssumption DEF GInv, TypeOK, CallInv
<1> QED BY <1>1, <1>2 DEF CommitClaim, CallInv, EnoughLeft, PoolAfterClaim

LEMMA SaleCommit ==
  ASSUME GInv, NEW c \in Buyers, CommitConfirm(c), NEW r, r = target[c]
  PROVE  /\ r \in captured /\ r \in Calls /\ status[r] # "NONE" /\ resLock[r] = None
         /\ status' = [status EXCEPT ![r] = "CONFIRMED"]
BY DEF CommitConfirm, GInv, BuyerInv, TypeOK, ReservationInv

LEMMA PassCommit ==
  ASSUME GInv, NEW w \in Workers, CommitPass(w)
  PROVE  /\ freed[w] \subseteq Calls
         /\ \A r \in freed[w] : resLock[r] = w /\ status[r] = "ACTIVE"
                                /\ expiry[r] # "running"
         /\ status' = [r \in Calls |-> IF r \in freed[w] THEN "EXPIRED" ELSE status[r]]
         /\ pool' = [available |-> pool.available + Cardinality(Places(freed[w])),
                     version |-> pool.version + Cardinality(freed[w])]
<1>1. freed[w] \subseteq Calls /\ PassInv(w)
  BY DEF GInv, TypeOK
<1> QED BY <1>1, ProcessAssumption
        DEF CommitPass, StatusAfterPass, PoolIn, PassInv, GInv, ReservationInv

LEMMA StatusWriters ==
  ASSUME [Next]_vars
  PROVE  \/ \E r \in Calls : CommitClaim(r) /\ KeyIsFree(r)
         \/ \E c \in Buyers : CommitConfirm(c) /\ UNCHANGED pool
         \/ \E w \in Workers : CommitPass(w)
         \/ UNCHANGED <<pool, status>>
<1>1. ASSUME NEW r \in Calls, Reserve(r) \/ FailReserve(r)
      PROVE  (CommitClaim(r) /\ KeyIsFree(r)) \/ UNCHANGED <<pool, status>>
  BY <1>1 DEF Reserve, FailReserve, LookupReservation, ReadStock, ClaimStock, CommitClaim
<1>2. ASSUME NEW c \in Buyers, BuyerStep(c)
      PROVE  (CommitConfirm(c) /\ UNCHANGED pool) \/ UNCHANGED <<pool, status>>
  BY <1>2 DEF BuyerStep, Confirm, FailConfirm, StartConfirm, GetReservation, CommitConfirm
<1>3. ASSUME NEW w \in Workers, WorkerStep(w)
      PROVE  CommitPass(w) \/ UNCHANGED <<pool, status>>
  BY <1>3 DEF WorkerStep, ExpirePass, FailPass, SelectExpired, ReadPool, ReturnPlaces, Examine
<1>4. CASE Around \/ UNCHANGED vars
  BY <1>4 DEF Around, Capture, Lapse, vars
<1> QED BY <1>1, <1>2, <1>3, <1>4 DEF Next, Fault, BuyerStep, WorkerStep, Around


LEMMA ClockWriters ==
  ASSUME [Next]_vars
  PROVE  Around \/ UNCHANGED clock
<1> USE DEF clock
<1>1. ASSUME NEW r \in Calls, CallStep(r) PROVE UNCHANGED clock
  BY <1>1 DEF CallStep, Reserve, FailReserve, LookupReservation, ReadStock, ClaimStock,
              CommitClaim
<1>2. ASSUME NEW c \in Buyers, BuyerStep(c) PROVE UNCHANGED clock
  BY <1>2 DEF BuyerStep, Confirm, FailConfirm, StartConfirm, GetReservation, CommitConfirm
<1>3. ASSUME NEW w \in Workers, WorkerStep(w) PROVE UNCHANGED clock
  BY <1>3 DEF WorkerStep, ExpirePass, FailPass, EndPass, SelectExpired, ReadPool,
              ReturnPlaces, CommitPass, Examine
<1> QED BY <1>1, <1>2, <1>3 DEF Next, Fault, CallStep, BuyerStep, WorkerStep, Around, vars

LEMMA LockWriters ==
  ASSUME [Next]_vars
  PROVE  \/ \E w \in Workers : SelectExpired(w) \/ EndPass(w)
         \/ UNCHANGED resLock
<1> USE DEF locks
<1>1. ASSUME NEW r \in Calls, CallStep(r) PROVE UNCHANGED resLock
  BY <1>1 DEF CallStep, Reserve, FailReserve, LookupReservation, ReadStock, ClaimStock,
              CommitClaim
<1>2. ASSUME NEW c \in Buyers, BuyerStep(c) PROVE UNCHANGED resLock
  BY <1>2 DEF BuyerStep, Confirm, FailConfirm, StartConfirm, GetReservation, CommitConfirm
<1>3. ASSUME NEW w \in Workers, WorkerStep(w)
      PROVE  SelectExpired(w) \/ EndPass(w) \/ UNCHANGED resLock
  BY <1>3 DEF WorkerStep, ExpirePass, FailPass, ReadPool, ReturnPlaces, CommitPass, Examine
<1>4. CASE Around \/ UNCHANGED vars
  BY <1>4 DEF Around, Capture, Lapse, vars
<1> QED BY <1>1, <1>2, <1>3, <1>4 DEF Next, Fault, CallStep, BuyerStep, WorkerStep, Around

-----------------------------------------------------------------------------
(* Type correctness and the number of places                                *)

(* The pool that a pass commits has the places that it gives back, and no   *)
(* more than there are.                                                     *)
LEMMA PassPlaces ==
  ASSUME GInv, NEW w \in Workers
  PROVE  /\ Cardinality(Places(freed[w])) \in Nat /\ Cardinality(freed[w]) \in Nat
         /\ pool.available + Cardinality(Places(freed[w])) <= Capacity
<1>1. freed[w] \in SUBSET Live("ACTIVE") /\ Live("ACTIVE") \in SUBSET Calls
  BY ProcessAssumption DEF GInv, PassInv, ReservationInv, Live, TypeOK
<1>2. /\ Cardinality(Places(freed[w])) \in Nat
      /\ Cardinality(Places(Live("ACTIVE"))) \in Nat
      /\ Cardinality(Places(freed[w])) <= Cardinality(Places(Live("ACTIVE")))
  <2>1. freed[w] \in SUBSET Calls
    BY <1>1
  <2> QED BY <1>1, <2>1, PlacesFinite, PlacesGrow
<1>3. IsFiniteSet(freed[w])
  <2>1. freed[w] \in SUBSET Calls /\ IsFiniteSet(Calls)
    BY <1>1, PoolAssumption
  <2> QED BY <2>1, FS_Subset
<1>4. Cardinality(freed[w]) \in Nat
  BY <1>3, FS_CardinalityType
<1>5. pool.available \in Nat /\ Capacity \in Nat
  BY PoolAssumption DEF GInv, TypeOK
<1> QED BY <1>2, <1>4, <1>5 DEF GInv, PoolInv, PlacesHeld

LEMMA TypePool ==
  ASSUME GInv, [Next]_vars
  PROVE  /\ pool' \in [available : 0..Capacity, version : Nat \ {0}]
         /\ status' \in [Calls -> {"NONE", "ACTIVE", "CONFIRMED", "EXPIRED"}]
<1>1. /\ pool \in [available : 0..Capacity, version : Nat \ {0}] /\ Capacity \in Nat
      /\ status \in [Calls -> {"NONE", "ACTIVE", "CONFIRMED", "EXPIRED"}]
  BY PoolAssumption DEF GInv, TypeOK
<1>2. ASSUME NEW r \in Calls, CommitClaim(r), KeyIsFree(r)
      PROVE  /\ pool' \in [available : 0..Capacity, version : Nat \ {0}]
             /\ status' \in [Calls -> {"NONE", "ACTIVE", "CONFIRMED", "EXPIRED"}]
  BY <1>1, <1>2, ClaimCommit, PoolAssumption
<1>3. ASSUME NEW c \in Buyers, CommitConfirm(c)
      PROVE  status' \in [Calls -> {"NONE", "ACTIVE", "CONFIRMED", "EXPIRED"}]
  BY <1>1, <1>3 DEF CommitConfirm
<1>4. ASSUME NEW w \in Workers, CommitPass(w)
      PROVE  /\ pool' \in [available : 0..Capacity, version : Nat \ {0}]
             /\ status' \in [Calls -> {"NONE", "ACTIVE", "CONFIRMED", "EXPIRED"}]
  BY <1>1, <1>4, PassCommit, PassPlaces
<1> QED BY <1>1, <1>2, <1>3, <1>4, StatusWriters

LEMMA TypeNext ==
  ASSUME GInv, [Next]_vars
  PROVE  TypeOK'
<1> USE ProcessAssumption DEF clock, locks, call, reading, pass, EndCall
<1> DEFINE Where == {"idle", "read", "update", "insert", "done", "get", "flush",
                     "sold", "lost", "failed", "examine", "return"}
<1>o. TypeOK
  BY DEF GInv
<1>s. /\ pool' \in [available : 0..Capacity, version : Nat \ {0}]
      /\ status' \in [Calls -> {"NONE", "ACTIVE", "CONFIRMED", "EXPIRED"}]
  BY TypePool
<1>g. ASSUME NEW p \in Procs, NEW where \in Where, Goto(p, where)
      PROVE  pc' \in [Procs -> Where]
  BY <1>o, <1>g DEF TypeOK, Goto
<1>h. /\ Calls \subseteq Procs /\ Buyers \subseteq Procs /\ Workers \subseteq Procs
      /\ \A p : Unlock(p) => poolLock' \in Calls \union Workers \union {None}
  BY <1>o DEF Procs, TypeOK, Unlock
<1>f. faults' \in 0..MaxFaults
  <2>1. faults' = faults \/ (faults < MaxFaults /\ faults' = faults + 1)
    BY DEF Next, Reserve, LookupReservation, ReadStock, ClaimStock, CommitClaim, Capture, Lapse,
           Confirm, GetReservation, CommitConfirm, StartConfirm, ExpirePass, SelectExpired,
           ReadPool, ReturnPlaces, CommitPass, Examine, Fault, vars
  <2> QED BY <1>o, <2>1, PoolAssumption DEF TypeOK
<1>1. ASSUME NEW r \in Calls, CallStep(r) PROVE TypeOK'
  <2>1. pc' \in [Procs -> Where]
    <3>1. \E where \in Where : Goto(r, where)
      BY <1>1 DEF CallStep, Reserve, FailReserve, LookupReservation, ReadStock, ClaimStock,
                  CommitClaim
    <3> QED BY <1>g, <1>h, <3>1
  <2>2. UNCHANGED <<resLock, target, batch, freed, expiry, captured>>
    BY <1>1 DEF CallStep, Reserve, FailReserve, LookupReservation, ReadStock, ClaimStock,
                CommitClaim
  <2>3. poolLock' \in Calls \union Workers \union {None}
    BY <1>o, <1>h, <1>1 DEF CallStep, Reserve, FailReserve, LookupReservation, ReadStock,
                            ClaimStock, CommitClaim, TypeOK
  <2>4. snapshot' \in [Calls \union Workers -> Nat]
    <3>1. UNCHANGED snapshot \/ Forget(r) \/ snapshot' = [snapshot EXCEPT ![r] = pool.version]
      BY <1>1 DEF CallStep, Reserve, FailReserve, LookupReservation, ReadStock, ClaimStock,
                  CommitClaim
    <3> QED BY <1>o, <3>1 DEF Forget, NotRead, TypeOK
  <2>5. attempt' \in [Calls -> 0..(MaxAttempts - 1)]
    <3>1. \/ UNCHANGED attempt \/ attempt' = [attempt EXCEPT ![r] = 0]
          \/ attempt' = [attempt EXCEPT ![r] = @ + 1] /\ attempt[r] + 1 < MaxAttempts
      BY <1>1 DEF CallStep, Reserve, FailReserve, LookupReservation, ReadStock, ClaimStock,
                  CommitClaim
    <3> QED BY <1>o, <3>1, PoolAssumption DEF TypeOK
  <2>6. answer' \in [Calls -> Calls \union {None}]
    BY <1>o, <1>1 DEF CallStep, Reserve, FailReserve, LookupReservation, ReadStock, ClaimStock,
                      CommitClaim, TypeOK
  <2> QED BY <1>o, <1>s, <1>f, <2>1, <2>2, <2>3, <2>4, <2>5, <2>6 DEF TypeOK
<1>2. ASSUME NEW c \in Buyers, BuyerStep(c) PROVE TypeOK'
  <2>1. pc' \in [Procs -> Where]
    <3>1. \E where \in Where : Goto(c, where)
      BY <1>2 DEF BuyerStep, Confirm, FailConfirm, StartConfirm, GetReservation, CommitConfirm
    <3> QED BY <1>g, <1>h, <3>1
  <2>2. UNCHANGED <<locks, snapshot, call, pass, clock>>
    BY <1>2 DEF BuyerStep, Confirm, FailConfirm, StartConfirm, GetReservation, CommitConfirm
  <2>3. target' \in [Buyers \union Workers -> Calls \union {None}]
    <3>1. \/ UNCHANGED target
          \/ \E r \in Calls \union {None} : target' = [target EXCEPT ![c] = r]
      BY <1>2 DEF BuyerStep, Confirm, FailConfirm, StartConfirm, GetReservation, CommitConfirm
    <3> QED BY <1>o, <3>1 DEF TypeOK
  <2> QED BY <1>o, <1>s, <1>f, <2>1, <2>2, <2>3 DEF TypeOK
<1>3. ASSUME NEW w \in Workers, WorkerStep(w) PROVE TypeOK'
  <2>1. pc' \in [Procs -> Where]
    <3>1. \E where \in Where : Goto(w, where)
      BY <1>3 DEF WorkerStep, ExpirePass, FailPass, EndPass, SelectExpired, ReadPool,
                  ReturnPlaces, CommitPass, Examine
    <3> QED BY <1>g, <1>h, <3>1
  <2>2. UNCHANGED <<call, clock>>
    BY <1>3 DEF WorkerStep, ExpirePass, FailPass, EndPass, SelectExpired, ReadPool,
                ReturnPlaces, CommitPass, Examine
  <2>3. poolLock' \in Calls \union Workers \union {None}
    BY <1>o, <1>h, <1>3 DEF WorkerStep, ExpirePass, FailPass, EndPass, SelectExpired, ReadPool,
                            ReturnPlaces, CommitPass, Examine, TypeOK
  <2>4. snapshot' \in [Calls \union Workers -> Nat]
    <3>1. PoolIn(w).version \in Nat
      BY <1>o, PassPlaces DEF TypeOK, PoolIn
    <3>2. \/ UNCHANGED snapshot \/ Forget(w)
          \/ snapshot' = [snapshot EXCEPT ![w] = PoolIn(w).version]
      BY <1>3 DEF WorkerStep, ExpirePass, FailPass, EndPass, SelectExpired, ReadPool,
                  ReturnPlaces, CommitPass, Examine
    <3> QED BY <1>o, <3>1, <3>2 DEF Forget, NotRead, TypeOK
  <2>5. target' \in [Buyers \union Workers -> Calls \union {None}]
    <3>1. \/ UNCHANGED target
          \/ \E r \in Calls \union {None} : target' = [target EXCEPT ![w] = r]
      BY <1>3 DEF WorkerStep, ExpirePass, FailPass, EndPass, SelectExpired, ReadPool,
                  ReturnPlaces, CommitPass, Examine
    <3> QED BY <1>o, <3>1 DEF TypeOK
  <2>6. batch' \in [Workers -> SUBSET Calls]
    <3>1. batch \in [Workers -> SUBSET Calls]
      BY <1>o DEF TypeOK
    <3>2. \/ UNCHANGED batch
          \/ \E B \in SUBSET Calls : batch' = [batch EXCEPT ![w] = B]
          \/ \E r \in Calls : batch' = [batch EXCEPT ![w] = batch[w] \ {r}]
      BY <1>3 DEF WorkerStep, ExpirePass, FailPass, EndPass, SelectExpired, ReadPool,
                  ReturnPlaces, CommitPass, Examine
    <3>3. \A r \in Calls : batch[w] \ {r} \in SUBSET Calls
      BY <3>1
    <3> QED BY <3>1, <3>2, <3>3
  <2>7. freed' \in [Workers -> SUBSET Calls]
    <3>1. CASE ReturnPlaces(w)
      <4>1. target[w] \in Calls
        BY <3>1 DEF ReturnPlaces, GInv, PassInv
      <4> QED BY <1>o, <3>1, <4>1 DEF ReturnPlaces, TypeOK
    <3>2. CASE ~ReturnPlaces(w)
      BY <1>o, <1>3, <3>2 DEF WorkerStep, ExpirePass, FailPass, EndPass, SelectExpired, ReadPool,
                              CommitPass, Examine, TypeOK
    <3> QED BY <3>1, <3>2
  <2>8. resLock' \in [Calls -> Workers \union {None}]
    <3>1. CASE SelectExpired(w) \/ EndPass(w)
      BY <1>o, <3>1 DEF SelectExpired, EndPass, TypeOK
    <3>2. CASE UNCHANGED resLock
      BY <1>o, <3>2 DEF TypeOK
    <3> QED BY <1>3, <3>1, <3>2 DEF WorkerStep, ExpirePass, FailPass, ReadPool, ReturnPlaces,
                                    CommitPass, Examine
  <2> QED BY <1>o, <1>s, <1>f, <2>1, <2>2, <2>3, <2>4, <2>5, <2>6, <2>7, <2>8 DEF TypeOK
<1>4. CASE Around
  <2>1. UNCHANGED <<locks, pc, reading, call, pass>>
    BY <1>4 DEF Around, Capture, Lapse
  <2>2. expiry' \in [Calls -> {"running", "lapsed", "lapsed_paid"}] /\ captured' \subseteq Calls
    BY <1>o, <1>4 DEF Around, Capture, Lapse, TypeOK
  <2> QED BY <1>o, <1>s, <1>f, <2>1, <2>2 DEF TypeOK
<1>5. CASE UNCHANGED vars
  BY <1>o, <1>5 DEF TypeOK, vars
<1> QED BY <1>o, <1>1, <1>2, <1>3, <1>4, <1>5, WhoSteps


(* Each commit moves its places between the pool and its reservations.      *)
LEMMA PlacesStep ==
  ASSUME GInv, [Next]_vars
  PROVE  /\ pool'.available + PlacesHeld' <= pool.available + PlacesHeld
         /\ pool'.available + PlacesTaken' >= pool.available + PlacesTaken
         /\ (\A c \in Buyers : CommitConfirm(c) => status[target[c]] # "EXPIRED")
              => pool'.available + PlacesTaken' = pool.available + PlacesTaken
<1> DEFINE Held == Live("ACTIVE")
           Sold == Live("CONFIRMED")
           Below == pool'.available + Cardinality(Places(Held'))
                      <= pool.available + Cardinality(Places(Held))
           Above == pool'.available + Cardinality(Places(Held' \union Sold'))
                      >= pool.available + Cardinality(Places(Held \union Sold))
           Equal == pool'.available + Cardinality(Places(Held' \union Sold'))
                      = pool.available + Cardinality(Places(Held \union Sold))
<1>t. /\ Held \in SUBSET Calls /\ Sold \in SUBSET Calls /\ Held \intersect Sold = {}
      /\ status \in [Calls -> {"NONE", "ACTIVE", "CONFIRMED", "EXPIRED"}]
      /\ pool.available \in Nat /\ Capacity \in Nat
  BY PoolAssumption DEF Live, GInv, TypeOK
<1>n. Cardinality(Places(Held)) \in Nat /\ Cardinality(Places(Held \union Sold)) \in Nat
  <2>1. Held \union Sold \in SUBSET Calls
    BY <1>t
  <2> QED BY <1>t, <2>1, PlacesFinite
<1> SUFFICES Below /\ Above /\ ((\A c \in Buyers : CommitConfirm(c) =>
                                         status[target[c]] # "EXPIRED") => Equal)
  BY DEF PlacesHeld, PlacesTaken, Places, Quantity
<1>1. ASSUME NEW r \in Calls, CommitClaim(r), KeyIsFree(r) PROVE Below /\ Above /\ Equal
  <2>1. /\ status[r] = "NONE" /\ status' = [status EXCEPT ![r] = "ACTIVE"]
        /\ Quantity(r) \in Nat /\ Quantity(r) <= pool.available
        /\ pool'.available = pool.available - Quantity(r)
        /\ Quantity(r) \in 1..MaxQuantity
    BY <1>1, ClaimCommit, PoolAssumption
  <2>2. Held' = Held \union {r} /\ Sold' = Sold /\ r \notin Held \union Sold
    BY <1>t, <2>1 DEF Live
  <2>3. Cardinality(Places(Held \union {r})) = Cardinality(Places(Held)) + Quantity(r)
    <3>1. {r} \in SUBSET Calls /\ Held \intersect {r} = {}
      BY <2>2
    <3> QED BY <1>t, <2>1, <3>1, PlacesAdd, PlacesOfOne
  <2>4. Cardinality(Places((Held \union Sold) \union {r}))
          = Cardinality(Places(Held \union Sold)) + Quantity(r)
    <3>1. /\ {r} \in SUBSET Calls /\ (Held \union Sold) \intersect {r} = {}
          /\ Held \union Sold \in SUBSET Calls
      BY <1>t, <2>2
    <3> QED BY <2>1, <3>1, PlacesAdd, PlacesOfOne
  <2>5. /\ Places(Held') = Places(Held \union {r})
        /\ Places(Held' \union Sold') = Places((Held \union Sold) \union {r})
    <3>1. Held' \union Sold' = (Held \union Sold) \union {r}
      BY <2>2
    <3> QED BY <2>2, <3>1
  <2> HIDE DEF Held, Sold
  <2> QED BY <1>t, <1>n, <2>1, <2>3, <2>4, <2>5
<1>2. ASSUME NEW c \in Buyers, CommitConfirm(c), UNCHANGED pool
      PROVE  Below /\ Above /\ (status[target[c]] # "EXPIRED" => Equal)
  <2>1. PICK r \in Calls : /\ status' = [status EXCEPT ![r] = "CONFIRMED"]
                           /\ r = target[c] /\ status[r] # "NONE"
    BY <1>2, SaleCommit
  <2>2. Held' \in SUBSET Held /\ Held \union Sold \in SUBSET (Held' \union Sold')
    BY <1>t, <2>1 DEF Live
  <2>3. Held' \union Sold' \in SUBSET Calls
    BY <1>t, <2>1 DEF Live
  <2>4. /\ Cardinality(Places(Held')) <= Cardinality(Places(Held))
        /\ Cardinality(Places(Held')) \in Nat
    <3>1. Held' \in SUBSET Calls
      BY <2>3
    <3> QED BY <1>t, <2>2, <3>1, PlacesGrow, PlacesFinite
  <2>5. /\ Cardinality(Places(Held \union Sold)) <= Cardinality(Places(Held' \union Sold'))
        /\ Cardinality(Places(Held' \union Sold')) \in Nat
    BY <2>2, <2>3, PlacesGrow, PlacesFinite
  <2>6. status[target[c]] # "EXPIRED" =>
          Places(Held' \union Sold') = Places(Held \union Sold)
    BY <1>t, <2>1 DEF Live
  <2> HIDE DEF Held, Sold
  <2> QED BY <1>t, <1>n, <1>2, <2>4, <2>5, <2>6
<1>3. ASSUME NEW w \in Workers, CommitPass(w) PROVE Below /\ Above /\ Equal
  <2>1. /\ freed[w] \in SUBSET Held
        /\ status' = [r \in Calls |-> IF r \in freed[w] THEN "EXPIRED" ELSE status[r]]
        /\ pool'.available = pool.available + Cardinality(Places(freed[w]))
    BY <1>3, PassCommit DEF Live
  <2>2. /\ Held' = Held \ freed[w] /\ Sold' = Sold
        /\ Held' \union Sold' = (Held \union Sold) \ freed[w]
    BY <1>t, <2>1 DEF Live
  <2>3. \A R \in SUBSET Calls : freed[w] \in SUBSET R =>
          /\ Cardinality(Places(R))
               = Cardinality(Places(R \ freed[w])) + Cardinality(Places(freed[w]))
          /\ Cardinality(Places(R \ freed[w])) \in Nat /\ Cardinality(Places(freed[w])) \in Nat
    <3> SUFFICES ASSUME NEW R \in SUBSET Calls, freed[w] \in SUBSET R
                 PROVE  /\ Cardinality(Places(R))
                             = Cardinality(Places(R \ freed[w])) + Cardinality(Places(freed[w]))
                        /\ Cardinality(Places(R \ freed[w])) \in Nat
                        /\ Cardinality(Places(freed[w])) \in Nat
      OBVIOUS
    <3>1. /\ R \ freed[w] \in SUBSET Calls /\ freed[w] \in SUBSET Calls
          /\ (R \ freed[w]) \intersect freed[w] = {}
      OBVIOUS
    <3>2. (R \ freed[w]) \union freed[w] = R
      OBVIOUS
    <3>3. Cardinality(Places((R \ freed[w]) \union freed[w]))
            = Cardinality(Places(R \ freed[w])) + Cardinality(Places(freed[w]))
      BY <3>1, PlacesAdd
    <3> QED BY <3>1, <3>2, <3>3, PlacesFinite
  <2>4. /\ Cardinality(Places(Held))
             = Cardinality(Places(Held \ freed[w])) + Cardinality(Places(freed[w]))
        /\ Cardinality(Places(Held \ freed[w])) \in Nat /\ Cardinality(Places(freed[w])) \in Nat
    BY <1>t, <2>1, <2>3
  <2>5. /\ Cardinality(Places(Held \union Sold))
             = Cardinality(Places((Held \union Sold) \ freed[w])) + Cardinality(Places(freed[w]))
        /\ Cardinality(Places((Held \union Sold) \ freed[w])) \in Nat
    <3>1. Held \union Sold \in SUBSET Calls /\ freed[w] \in SUBSET (Held \union Sold)
      BY <1>t, <2>1
    <3> QED BY <2>3, <3>1
  <2>6. /\ Places(Held') = Places(Held \ freed[w])
        /\ Places(Held' \union Sold') = Places((Held \union Sold) \ freed[w])
    BY <2>2
  <2> HIDE DEF Held, Sold
  <2> QED BY <1>t, <1>n, <2>1, <2>4, <2>5, <2>6
<1>4. ASSUME UNCHANGED <<pool, status>> PROVE Below /\ Above /\ Equal
  <2>1. /\ Places(Held') = Places(Held)
        /\ Places(Held' \union Sold') = Places(Held \union Sold)
    BY <1>4 DEF Live
  <2> HIDE DEF Held, Sold
  <2> QED BY <1>t, <1>n, <1>4, <2>1
<1> QED BY <1>1, <1>2, <1>3, <1>4, StatusWriters

LEMMA PoolNext ==
  ASSUME GInv, [Next]_vars
  PROVE  PoolInv'
<1>1. /\ pool.available \in Nat /\ pool'.available \in Nat /\ Capacity \in Nat
      /\ PlacesHeld \in Nat /\ PlacesTaken \in Nat /\ PlacesHeld' \in Nat /\ PlacesTaken' \in Nat
  <2>1. pool.available \in Nat /\ pool'.available \in Nat /\ Capacity \in Nat
    BY TypePool, PoolAssumption DEF GInv, TypeOK
  <2>2. \A R \in SUBSET Calls : Cardinality(Places(R)) \in Nat
    BY PlacesFinite
  <2>3. PlacesHeld \in Nat /\ PlacesTaken \in Nat
    BY <2>2 DEF PlacesHeld, PlacesTaken, Live
  <2>4. PlacesHeld' \in Nat /\ PlacesTaken' \in Nat
    BY <2>2 DEF PlacesHeld, PlacesTaken, Live, Places, Quantity
  <2> QED BY <2>1, <2>3, <2>4
<1> QED BY <1>1, PlacesStep DEF GInv, PoolInv

-----------------------------------------------------------------------------
(* Calls, buyers and passes                                                 *)

LEMMA StatusStep ==
  ASSUME GInv, [Next]_vars, NEW r \in Calls
  PROVE  /\ status[r] # "NONE" => status'[r] # "NONE"
         /\ status[r] = "NONE" /\ status'[r] # "NONE" => CommitClaim(r) /\ KeyIsFree(r)
<1>t. status \in [Calls -> {"NONE", "ACTIVE", "CONFIRMED", "EXPIRED"}]
  BY DEF GInv, TypeOK
<1>1. ASSUME NEW q \in Calls, CommitClaim(q), KeyIsFree(q)
      PROVE  status'[r] = IF r = q THEN "ACTIVE" ELSE status[r]
  BY <1>t, <1>1, ClaimCommit
<1>2. ASSUME NEW c \in Buyers, CommitConfirm(c)
      PROVE  status'[r] = status[r] \/ (status[r] # "NONE" /\ status'[r] = "CONFIRMED")
  <2>1. PICK q : q = target[c]
    OBVIOUS
  <2> QED BY <1>t, <1>2, <2>1, SaleCommit
<1>3. ASSUME NEW w \in Workers, CommitPass(w)
      PROVE  status'[r] = status[r] \/ (status[r] = "ACTIVE" /\ status'[r] = "EXPIRED")
  BY <1>t, <1>3, PassCommit
<1> QED BY <1>1, <1>2, <1>3, StatusWriters

LEMMA CallNext ==
  ASSUME GInv, [Next]_vars, NEW r \in Calls
  PROVE  CallInv(r)'
<1> USE ProcessAssumption DEF clock, locks, call, reading, pass, EndCall
<1>o. TypeOK /\ CallInv(r) /\ r \in Procs
  BY DEF GInv, Procs
<1>1. CASE Waits(r)
  <2>1. ~CommitClaim(r)
    BY <1>o, <1>1, GotoKeeps DEF CommitClaim, Waits
  <2>2. status'[r] = "NONE" <=> status[r] = "NONE"
    BY <2>1, StatusStep
  <2>3. pc[r] = "insert" => pool' = pool
    <3>1. ASSUME pc[r] = "insert", NEW q \in Calls, CommitClaim(q) PROVE FALSE
      BY <1>o, <2>1, <3>1 DEF CommitClaim, GInv, CallInv
    <3>2. ASSUME pc[r] = "insert", NEW w \in Workers, CommitPass(w) PROVE pool' = pool
      <4>1. poolLock # w
        BY <1>o, <3>2 DEF CallInv
      <4>2. freed[w] = {}
        BY <4>1 DEF GInv, PassInv
      <4>3. Places({}) = {}
        BY DEF Places
      <4>4. Cardinality({}) = 0
        BY FS_EmptySet
      <4>5. pool \in [available : 0..Capacity, version : Nat \ {0}] /\ Capacity \in Nat
        BY <1>o, PoolAssumption DEF TypeOK
      <4>6. pool' = [available |-> pool.available + 0, version |-> pool.version + 0]
        <5>1. pool' = [available |-> pool.available + Cardinality(Places(freed[w])),
                       version |-> pool.version + Cardinality(freed[w])]
          BY <1>o, <3>2, PassCommit
        <5> QED BY <4>2, <4>3, <4>4, <5>1
      <4> QED BY <4>5, <4>6
    <3> QED BY <3>1, <3>2, StatusWriters
  <2> QED BY <1>o, <1>1, <2>2, <2>3 DEF Waits, CallInv, EnoughLeft, Quantity
<1>2. CASE LookupReservation(r)
  <2>1. /\ pc[r] = "idle" /\ UNCHANGED <<status, poolLock, pool>>
        /\ pc'[r] \in {"read", "done"} /\ (pc'[r] = "read" => Quantity(r) \in 1..MaxQuantity)
    BY <1>o, <1>2, GotoKeeps DEF LookupReservation
  <2> QED BY <1>o, <2>1 DEF CallInv, Quantity
<1>3. CASE ReadStock(r)
  <2>1. /\ pc[r] = "read" /\ UNCHANGED <<status, poolLock, pool>>
        /\ pc'[r] \in {"update", "done"}
    BY <1>o, <1>3, GotoKeeps DEF ReadStock
  <2> QED BY <1>o, <2>1 DEF CallInv, Quantity
<1>4. CASE ClaimStock(r)
  <2>1. /\ pc[r] = "update" /\ UNCHANGED <<status, pool>>
        /\ \/ /\ poolLock' = r /\ pc'[r] = "insert" /\ EnoughLeft(r)
           \/ pc'[r] \in {"read", "done"}
    BY <1>o, <1>4, GotoKeeps DEF ClaimStock, TypeOK
  <2> QED BY <1>o, <2>1 DEF CallInv, Quantity, EnoughLeft
<1>5. CASE CommitClaim(r) \/ FailReserve(r)
  <2>1. pc[r] \in {"read", "update", "insert"} /\ pc'[r] = "done"
    BY <1>o, <1>5, GotoKeeps DEF CommitClaim, FailReserve
  <2> QED BY <1>o, <2>1 DEF CallInv, Quantity
<1> QED BY <1>o, <1>1, <1>2, <1>3, <1>4, <1>5, WhoSteps DEF CallStep, Reserve, Procs

LEMMA KeyNext ==
  ASSUME GInv, [Next]_vars
  PROVE  KeyInv'
<1> USE ProcessAssumption DEF clock, locks, call, reading, pass
<1>o. TypeOK /\ None \notin Calls
  BY DEF GInv
<1>k. \A r \in Calls : status[r] # "NONE" => status'[r] # "NONE"
  BY StatusStep
<1>s. \A q, r \in Calls : SameKey(q, r)' = SameKey(q, r) /\ (SameKey(q, r) <=> SameKey(r, q))
  BY DEF SameKey
<1>1. \A q, r \in Calls : SameKey(q, r) /\ status'[q] # "NONE" /\ status'[r] # "NONE" => q = r
  <2> SUFFICES ASSUME NEW q \in Calls, NEW r \in Calls, SameKey(q, r), q # r,
                      status'[q] # "NONE", status'[r] # "NONE"
               PROVE  FALSE
    OBVIOUS
  <2>1. status[q] = "NONE" \/ status[r] = "NONE"
    BY DEF GInv, KeyInv
  <2>2. ASSUME NEW p \in Calls, CommitClaim(p), KeyIsFree(p)
        PROVE  \A x \in Calls \ {p} : status'[x] = status[x] /\ (SameKey(x, p) => status[x] = "NONE")
    BY <1>o, <2>2, ClaimCommit DEF KeyIsFree, TypeOK
  <2> QED BY <1>s, <2>1, <2>2, StatusStep
<1>2. ASSUME NEW r \in Calls, NEW q \in Calls, answer'[r] = q
      PROVE  status'[q] # "NONE" /\ Req[q].session = Req[r].session
  <2>1. CASE answer'[r] = answer[r]
    BY <1>k, <1>2, <2>1 DEF GInv, KeyInv
  <2>2. CASE answer'[r] # answer[r]
    <3>1. ASSUME NEW p \in Calls, CallStep(p), ~LookupReservation(p)
          PROVE  CommitClaim(p) /\ KeyIsFree(p)
      BY <2>2, <3>1 DEF CallStep, Reserve, FailReserve, ReadStock, ClaimStock, CommitClaim
    <3>2. ASSUME NEW p \in Calls, LookupReservation(p)
          PROVE  status[q] # "NONE" /\ Req[q].session = Req[r].session
      <4>1. answer' # answer
        BY <2>2
      <4>2. PICK x \in Calls : /\ status[x] # "NONE"
                               /\ answer' = [answer EXCEPT ![p] =
                                    IF Req[x].session = Req[p].session THEN x ELSE None]
        BY <3>2, <4>1 DEF LookupReservation
      <4> QED BY <1>o, <1>2, <2>2, <4>2 DEF TypeOK
    <3>3. ASSUME NEW p \in Calls, CommitClaim(p), KeyIsFree(p) PROVE r = p /\ q = p
      BY <1>o, <1>2, <2>2, <3>3 DEF CommitClaim, TypeOK
    <3>4. ASSUME NEW p \in Calls, CommitClaim(p), KeyIsFree(p) PROVE status'[p] # "NONE"
      BY <1>o, <3>4, ClaimCommit DEF TypeOK
    <3>5. ASSUME NEW c \in Buyers, BuyerStep(c) PROVE UNCHANGED answer
      BY <3>5 DEF BuyerStep, Confirm, FailConfirm, StartConfirm, GetReservation, CommitConfirm
    <3>6. ASSUME NEW w \in Workers, WorkerStep(w) PROVE UNCHANGED answer
      BY <3>6 DEF WorkerStep, ExpirePass, FailPass, EndPass, SelectExpired, ReadPool,
                  ReturnPlaces, CommitPass, Examine
    <3>7. CASE Around \/ UNCHANGED vars
      BY <2>2, <3>7 DEF Around, Capture, Lapse, vars
    <3> QED BY <1>o, <1>k, <2>2, <3>1, <3>2, <3>3, <3>4, <3>5, <3>6, <3>7, WhoSteps
  <2> QED BY <2>1, <2>2
<1> QED BY <1>s, <1>1, <1>2 DEF KeyInv


LEMMA BuyerNext ==
  ASSUME GInv, [Next]_vars, NEW c \in Buyers
  PROVE  BuyerInv(c)'
<1> USE ProcessAssumption DEF clock, locks, call, reading, pass
<1>o. TypeOK /\ BuyerInv(c) /\ c \in Procs
  BY DEF GInv, Procs
<1>1. captured \subseteq captured'
  BY DEF Next, Reserve, LookupReservation, ReadStock, ClaimStock, CommitClaim, Capture, Lapse,
         Confirm, GetReservation, CommitConfirm, StartConfirm, ExpirePass, SelectExpired,
         ReadPool, ReturnPlaces, CommitPass, Examine, EndPass, Fault, FailReserve,
         FailConfirm, FailPass, vars
<1>2. CASE Waits(c)
  BY <1>o, <1>1, <1>2 DEF Waits, BuyerInv
<1>3. ASSUME NEW r \in Calls, StartConfirm(c, r) PROVE BuyerInv(c)'
  <2>1. target'[c] = r /\ r \in captured /\ pc'[c] = "get"
    BY <1>o, <1>3, GotoKeeps DEF StartConfirm, TypeOK
  <2> QED BY <1>1, <2>1 DEF BuyerInv
<1>4. CASE GetReservation(c) \/ CommitConfirm(c) \/ FailConfirm(c)
  <2>1. pc[c] # "idle" /\ pc'[c] \in {"flush", "lost", "sold", "failed"} /\ target'[c] = target[c]
    BY <1>o, <1>4, GotoKeeps DEF GetReservation, CommitConfirm, FailConfirm
  <2> QED BY <1>o, <1>1, <2>1 DEF BuyerInv
<1> QED BY <1>o, <1>2, <1>3, <1>4, WhoSteps DEF BuyerStep, Confirm, Procs

LEMMA PassNext ==
  ASSUME GInv, [Next]_vars, NEW w \in Workers
  PROVE  PassInv(w)'
<1> USE ProcessAssumption DEF clock, locks, call, reading, pass
<1>o. TypeOK /\ PassInv(w) /\ w \in Procs
  BY DEF GInv, Procs
<1>1. CASE Waits(w)
  <2>1. \A r \in batch[w] \union freed[w] : r \in Calls
    BY <1>o DEF TypeOK
  <2> QED BY <1>o, <1>1, <2>1 DEF Waits, PassInv
<1>2. CASE SelectExpired(w)
  <2>1. PICK B \in SUBSET Calls : /\ batch' = [batch EXCEPT ![w] = B]
                                  /\ resLock' = [r \in Calls |-> IF r \in B THEN w ELSE resLock[r]]
    BY <1>2 DEF SelectExpired
  <2>2. /\ batch'[w] = B /\ freed' = freed /\ freed[w] = {} /\ pc'[w] = "examine"
        /\ \A r \in B : resLock'[r] = w
    BY <1>o, <1>2, <2>1, GotoKeeps DEF SelectExpired, PassInv, TypeOK
  <2> QED BY <2>2 DEF PassInv
<1>3. ASSUME NEW r \in Calls, Examine(w, r) PROVE PassInv(w)'
  <2>1. /\ r \in batch[w] /\ batch'[w] = batch[w] \ {r} /\ target'[w] = r
        /\ pc'[w] \in {"examine", "read"} /\ UNCHANGED <<freed, resLock, poolLock>>
    BY <1>o, <1>3, GotoKeeps DEF Examine, IsFirst, TypeOK
  <2> QED BY <1>o, <2>1 DEF PassInv
<1>4. CASE ReadPool(w)
  <2>1. /\ pc[w] = "read" /\ pc'[w] = "return"
        /\ UNCHANGED <<batch, freed, resLock, poolLock, target>>
    BY <1>o, <1>4, GotoKeeps DEF ReadPool
  <2> QED BY <1>o, <2>1 DEF PassInv
<1>5. CASE ReturnPlaces(w)
  <2>1. /\ pc[w] = "return" /\ pc'[w] = "examine" /\ UNCHANGED <<batch, resLock>>
        /\ \/ poolLock' = w /\ freed'[w] = freed[w] \union {target[w]}
           \/ UNCHANGED <<poolLock, freed>>
    BY <1>o, <1>5, GotoKeeps DEF ReturnPlaces, TypeOK
  <2> QED BY <1>o, <2>1 DEF PassInv
<1>6. CASE EndPass(w)
  <2>1. freed'[w] = {} /\ batch'[w] = {} /\ pc'[w] = "idle" /\ poolLock' # w
    BY <1>o, <1>6, GotoKeeps DEF EndPass, Unlock, TypeOK
  <2> QED BY <2>1 DEF PassInv
<1>7. CASE WorkerStep(w)
  BY <1>2, <1>3, <1>4, <1>5, <1>6, <1>7 DEF WorkerStep, ExpirePass, CommitPass, FailPass
<1> QED BY <1>o, <1>1, <1>7, WhoSteps DEF Procs

(* A reservation that a worker has locked stays ACTIVE until the worker     *)
(* commits, and has run out for good.                                       *)
LEMMA ReservationNext ==
  ASSUME GInv, [Next]_vars
  PROVE  ReservationInv'
<1> USE ProcessAssumption DEF clock
<1>o. TypeOK /\ captured \subseteq Calls
  BY DEF GInv, TypeOK
<1>c. /\ \A r \in captured' : r \in captured \/ (r \in Calls /\ Capture(r))
      /\ \A r \in Calls : expiry[r] # "running" => expiry'[r] # "running"
  BY <1>o, ClockWriters DEF Around, Capture, Lapse, TypeOK
<1>1. ASSUME NEW r \in captured' PROVE status'[r] # "NONE"
  <2>1. r \in Calls /\ status[r] # "NONE"
    BY <1>o, <1>c DEF GInv, ReservationInv, Capture
  <2> QED BY <2>1, StatusStep
<1>2. ASSUME NEW r \in Calls, resLock'[r] # None
      PROVE  status'[r] = "ACTIVE" /\ expiry'[r] # "running"
  <2>1. CASE \E w \in Workers : SelectExpired(w)
    <3>1. UNCHANGED <<status, expiry>> /\ (resLock'[r] = resLock[r] \/ Due(r))
      BY <2>1 DEF SelectExpired
    <3> QED BY <1>2, <3>1 DEF Due, GInv, ReservationInv
  <2>2. CASE ~\E w \in Workers : SelectExpired(w)
    <3>1. resLock[r] = resLock'[r]
      BY <1>2, <2>2, LockWriters DEF EndPass
    <3>2. status[r] = "ACTIVE" /\ expiry[r] # "running"
      BY <1>2, <3>1 DEF GInv, ReservationInv
    <3>3. ASSUME NEW q \in Calls, CommitClaim(q), KeyIsFree(q) PROVE status'[r] = status[r]
      BY <1>o, <3>2, <3>3, ClaimCommit DEF TypeOK
    <3>4. ASSUME NEW c \in Buyers, CommitConfirm(c) PROVE status'[r] = status[r]
      <4>1. PICK q : q = target[c]
        OBVIOUS
      <4> QED BY <1>o, <1>2, <3>1, <3>4, <4>1, SaleCommit DEF TypeOK
    <3>5. ASSUME NEW w \in Workers, CommitPass(w) PROVE status'[r] = status[r]
      <4>1. resLock[r] # w
        BY <1>2, <3>1, <3>5 DEF CommitPass, EndPass
      <4> QED BY <1>o, <3>5, <4>1, PassCommit
    <3> QED BY <1>c, <3>2, <3>3, <3>4, <3>5, StatusWriters
  <2> QED BY <2>1, <2>2
<1> QED BY <1>1, <1>2 DEF ReservationInv

-----------------------------------------------------------------------------
(* Theorems                                                                 *)

LEMMA InitInv == Init => GInv
<1> SUFFICES ASSUME Init PROVE GInv
  OBVIOUS
<1> USE ProcessAssumption DEF Procs
<1>1. TypeOK
  BY PoolAssumption DEF Init, NotRead, TypeOK
<1>2. ReservationInv /\ KeyInv
  BY DEF Init, ReservationInv, KeyInv
<1>3. PoolInv
  <2>1. Live("ACTIVE") = {} /\ Live("CONFIRMED") = {} /\ {} \union {} = {}
    BY DEF Init, Live
  <2>2. Places({}) = {}
    BY DEF Places
  <2>3. Cardinality({}) = 0
    BY FS_EmptySet
  <2>4. pool.available = Capacity /\ Capacity \in Nat
    BY PoolAssumption DEF Init
  <2> QED BY <2>1, <2>2, <2>3, <2>4 DEF PoolInv, PlacesHeld, PlacesTaken
<1>4. \A r \in Calls : CallInv(r)
  BY PoolAssumption DEF Init, CallInv
<1>5. \A c \in Buyers : BuyerInv(c)
  BY DEF Init, BuyerInv
<1>6. \A w \in Workers : PassInv(w)
  BY DEF Init, PassInv
<1> QED BY <1>1, <1>2, <1>3, <1>4, <1>5, <1>6 DEF GInv

(* What the calls, the buyers and the passes rely on stays true in every    *)
(* behaviour, whether or not payments come late.                            *)
THEOREM Invariance == Spec => []GInv
<1>1. GInv /\ [Next]_vars => GInv'
  <2> SUFFICES ASSUME GInv, [Next]_vars PROVE GInv'
    OBVIOUS
  <2>1. TypeOK' /\ ReservationInv' /\ KeyInv' /\ PoolInv'
    BY TypeNext, ReservationNext, KeyNext, PoolNext
  <2>2. /\ \A r \in Calls : CallInv(r)'
        /\ \A c \in Buyers : BuyerInv(c)'
        /\ \A w \in Workers : PassInv(w)'
    BY CallNext, BuyerNext, PassNext
  <2> QED BY <2>1, <2>2 DEF GInv
<1> QED BY <1>1, InitInv, PTL DEF Spec

(* The pool keeps the CHECKs of the schema, late payments or not: no step   *)
(* of a call or a pass makes available negative or exceed the capacity.     *)
THEOREM TypeCorrect == Spec => []TypeOK
<1>1. GInv => TypeOK
  BY DEF GInv
<1> QED BY <1>1, Invariance, PTL

(* One reservation for an idempotency key, and a replay is answered with    *)
(* it, to its own session only.                                             *)
THEOREM KeyMakesOneReservation == Spec => []OneReservationPerKey
<1>1. GInv => OneReservationPerKey
  <2> SUFFICES ASSUME GInv, NEW q \in Calls, NEW r \in Calls, SameKey(q, r)
               PROVE  /\ StatusCode(r) = 400 => status[r] = "NONE"
                      /\ StatusCode(q) = 201 /\ StatusCode(r) = 201 => q = r
                      /\ status[q] # "NONE" /\ status[r] # "NONE" => q = r
                      /\ answer[r] = q => status[q] # "NONE" /\ Req[q].session = Req[r].session
    BY DEF OneReservationPerKey
  <2>1. \A p \in Calls : StatusCode(p) = 201 => answer[p] = p
    BY DEF StatusCode
  <2>2. StatusCode(r) = 400 => Quantity(r) \notin 1..MaxQuantity
    BY DEF StatusCode
  <2> QED BY <2>1, <2>2 DEF GInv, KeyInv, CallInv
<1> QED BY <1>1, Invariance, PTL

(* Where no payment comes after its reservation has run out, no paid one    *)
(* is expired ...                                                           *)
LEMMA PaidNext ==
  ASSUME ~LateCapture, GInv, PaidInv, [Next]_vars
  PROVE  PaidInv'
<1> USE ProcessAssumption DEF clock, locks, call, reading, pass
<1>o. TypeOK /\ captured \subseteq Calls /\ Workers \subseteq Procs
  BY DEF GInv, TypeOK, Procs
<1>c. /\ \A r \in captured' : r \in captured \/ (r \in Calls /\ Capture(r))
      /\ \A r \in Calls : expiry[r] # "running" => expiry'[r] # "running"
  BY <1>o, ClockWriters DEF Around, Capture, Lapse, TypeOK
<1>l. \A w \in Workers : \A r \in LooksAt(w) : r \in Calls /\ resLock[r] = w
  BY <1>o DEF LooksAt, GInv, PassInv, TypeOK
<1>e. \A r \in Calls : status'[r] = "EXPIRED" /\ status[r] # "EXPIRED" =>
                         \E w \in Workers : r \in freed[w] /\ expiry[r] # "running"
  <2> SUFFICES ASSUME NEW r \in Calls, status'[r] = "EXPIRED", status[r] # "EXPIRED"
               PROVE  \E w \in Workers : r \in freed[w] /\ expiry[r] # "running"
    OBVIOUS
  <2>1. ASSUME NEW q \in Calls, CommitClaim(q), KeyIsFree(q) PROVE FALSE
    BY <1>o, <2>1, ClaimCommit DEF TypeOK
  <2>2. ASSUME NEW c \in Buyers, CommitConfirm(c) PROVE FALSE
    <3>1. PICK q : q = target[c]
      OBVIOUS
    <3> QED BY <1>o, <2>2, <3>1, SaleCommit DEF TypeOK
  <2>3. ASSUME NEW w \in Workers, CommitPass(w) PROVE r \in freed[w] /\ expiry[r] # "running"
    BY <1>o, <2>3, PassCommit
  <2> QED BY <2>1, <2>2, <2>3, StatusWriters
<1>1. \A r \in Calls : status'[r] = "EXPIRED" => expiry'[r] # "running"
  BY <1>c, <1>e DEF PaidInv
<1>2. ASSUME NEW r \in captured' PROVE status'[r] # "EXPIRED"
  <2>1. CASE r \in captured
    BY <1>o, <1>e, <2>1 DEF PaidInv, LooksAt
  <2>2. CASE r \in Calls /\ Capture(r)
    BY <2>2 DEF Capture, PaidInv
  <2> QED BY <1>c, <2>1, <2>2
<1>3. ASSUME NEW r \in captured', NEW w \in Workers, r \in LooksAt(w)' PROVE FALSE
  <2>1. r \in LooksAt(w) \/ (Examine(w, r) /\ ~HasCapturedPayment(r))
    <3>1. CASE Waits(w)
      BY <1>3, <3>1 DEF Waits, LooksAt
    <3>2. CASE SelectExpired(w) \/ ReadPool(w)
      <4>1. /\ UNCHANGED <<freed, target>>
            /\ pc'[w] \in {"read", "return"} => pc[w] \in {"read", "return"}
        BY <1>o, <3>2, GotoKeeps DEF SelectExpired, ReadPool
      <4> QED BY <1>3, <4>1 DEF LooksAt
    <3>3. CASE ReturnPlaces(w)
      <4>1. /\ freed'[w] \subseteq freed[w] \union {target[w]} /\ target[w] \in Calls
            /\ pc[w] = "return" /\ pc'[w] = "examine"
        BY <1>o, <3>3, GotoKeeps DEF ReturnPlaces, TypeOK, GInv, PassInv
      <4> QED BY <1>3, <4>1 DEF LooksAt
    <3>4. ASSUME NEW q \in Calls, Examine(w, q)
          PROVE  r \in LooksAt(w) \/ (q = r /\ ~HasCapturedPayment(r))
      <4>1. /\ UNCHANGED freed /\ target'[w] = q
            /\ pc'[w] = IF HasCapturedPayment(q) THEN "examine" ELSE "read"
        BY <1>o, <3>4, GotoKeeps DEF Examine, TypeOK
      <4> QED BY <1>3, <4>1 DEF LooksAt
    <3>5. CASE EndPass(w)
      <4>1. freed'[w] = {} /\ pc'[w] = "idle"
        BY <1>o, <3>5, GotoKeeps DEF EndPass, TypeOK
      <4> QED BY <1>3, <4>1 DEF LooksAt
    <3>6. CASE WorkerStep(w)
      BY <3>2, <3>3, <3>4, <3>5, <3>6 DEF WorkerStep, ExpirePass, CommitPass, FailPass
    <3> QED BY <1>o, <3>1, <3>6, WhoSteps DEF Procs
  <2>2. CASE r \in LooksAt(w)
    <3>1. r \in Calls /\ expiry[r] # "running" /\ r \notin captured
      BY <1>l, <2>2 DEF PaidInv, GInv, ReservationInv
    <3> QED BY <1>c, <3>1 DEF Capture
  <2>3. CASE Examine(w, r) /\ ~HasCapturedPayment(r)
    BY <2>3 DEF Examine, HasCapturedPayment, clock
  <2> QED BY <2>1, <2>2, <2>3
<1> QED BY <1>1, <1>2, <1>3 DEF PaidInv


(* ... so the places add up: what is left, reserved and sold is what there  *)
(* was.                                                                     *)
LEMMA PaidInvariance == ~LateCapture /\ Spec => [](GInv /\ PaidInv /\ PlacesConserved)
<1>1. Init => PaidInv
  BY DEF Init, PaidInv
<1>2. Init => PlacesConserved
  <2> SUFFICES ASSUME Init PROVE PlacesConserved
    OBVIOUS
  <2>1. Places(Live("ACTIVE") \union Live("CONFIRMED")) = {}
    BY DEF Init, Live, Places
  <2>2. Cardinality(Places(Live("ACTIVE") \union Live("CONFIRMED"))) = 0
    BY <2>1, FS_EmptySet
  <2> QED BY <2>2, PoolAssumption DEF Init, PlacesConserved
<1>3. ~LateCapture /\ GInv /\ PaidInv /\ [Next]_vars => PaidInv'
  BY PaidNext
<1>5. ~LateCapture => (~LateCapture)'
  OBVIOUS
<1>4. ASSUME GInv, PaidInv, PlacesConserved, [Next]_vars PROVE PlacesConserved'
  <2>1. ASSUME NEW c \in Buyers, CommitConfirm(c) PROVE status[target[c]] # "EXPIRED"
    BY <1>4, <2>1 DEF CommitConfirm, GInv, BuyerInv, PaidInv
  <2>2. pool'.available + PlacesTaken' = pool.available + PlacesTaken
    BY <1>4, <2>1, PlacesStep
  <2> QED BY <1>4, <2>2 DEF PlacesConserved, PlacesTaken
<1> QED BY <1>1, <1>2, <1>3, <1>4, <1>5, Invariance, PTL DEF Spec

THEOREM PlacesAddUp == ~LateCapture /\ Spec => []PlacesConserved
BY PaidInvariance, PTL

(* Never oversold, unless a payment is captured after its reservation has   *)
(* run out, which is how the run ga_oversell sells a place twice.           *)
THEOREM OversoldOnlyByLateCapture == ~LateCapture /\ Spec => []NoOversell
<1>1. GInv /\ PlacesConserved => NoOversell
  <2> SUFFICES ASSUME TypeOK, PlacesConserved PROVE NoOversell
    BY DEF GInv
  <2>1. /\ Live("ACTIVE") \union Live("CONFIRMED") \in SUBSET Calls
        /\ Live("CONFIRMED") \in SUBSET Calls
        /\ Live("CONFIRMED") \in SUBSET (Live("ACTIVE") \union Live("CONFIRMED"))
    BY DEF Live
  <2>2. /\ Cardinality(Places(Live("ACTIVE") \union Live("CONFIRMED"))) \in Nat
        /\ Cardinality(Places(Live("CONFIRMED"))) \in Nat
        /\ Cardinality(Places(Live("CONFIRMED")))
             <= Cardinality(Places(Live("ACTIVE") \union Live("CONFIRMED")))
    BY <2>1, PlacesFinite, PlacesGrow
  <2>3. pool.available \in Nat /\ Capacity \in Nat
    BY PoolAssumption DEF TypeOK
  <2> QED BY <2>2, <2>3 DEF PlacesConserved, NoOversell
<1> QED BY <1>1, PaidInvariance, PTL

-----------------------------------------------------------------------------
(* What the checkout is told of a reservation                               *)

LEMMA LooksAtLocked ==
  ASSUME GInv, NEW w \in Workers
  PROVE  /\ LooksAt(w) \subseteq Calls
         /\ \A r \in LooksAt(w) : resLock[r] = w /\ status[r] = "ACTIVE"
<1>1. freed[w] \subseteq Calls /\ PassInv(w)
  BY DEF GInv, TypeOK
<1>2. \A r \in LooksAt(w) : r \in Calls /\ resLock[r] = w
  BY <1>1 DEF LooksAt, PassInv
<1> QED BY <1>2, ProcessAssumption DEF GInv, ReservationInv

LEMMA WaitsUnseen ==
  ASSUME NEW q, Waits(q)
  PROVE  /\ q \in Buyers => Confirming(q)' = Confirming(q)
         /\ q \in Workers => LooksAt(q)' = LooksAt(q)
BY DEF Waits, Confirming, LooksAt

LEMMA PoolCallStep ==
  ASSUME GInv, NEW r \in Calls, CallStep(r), \A q \in Procs \ {r} : Waits(q)
  PROVE  Pool!Make(r) \/ UNCHANGED Pool!vars
<1> USE ProcessAssumption DEF clock, locks, call, reading, pass
<1>1. \A q \in Buyers \union Workers : Waits(q)
  BY DEF Procs
<1>2. /\ [c \in Buyers |-> Confirming(c)'] = [c \in Buyers |-> Confirming(c)]
      /\ UNION {LooksAt(w)' : w \in Workers} = UNION {LooksAt(w) : w \in Workers}
  BY <1>1, WaitsUnseen
<1>3. UNCHANGED <<expiry, captured>>
  BY DEF CallStep, Reserve, FailReserve, LookupReservation, ReadStock, ClaimStock, CommitClaim
<1>4. (CommitClaim(r) /\ KeyIsFree(r)) \/ UNCHANGED status
  BY DEF CallStep, Reserve, FailReserve, LookupReservation, ReadStock, ClaimStock, CommitClaim
<1>5. CASE CommitClaim(r) /\ KeyIsFree(r)
  BY <1>2, <1>3, <1>5, ClaimCommit DEF Pool!Make
<1> QED BY <1>2, <1>3, <1>4, <1>5 DEF Pool!vars

LEMMA PoolBuyerStep ==
  ASSUME GInv, NEW c \in Buyers, BuyerStep(c), \A q \in Procs \ {c} : Waits(q)
  PROVE  [Pool!Next]_Pool!vars
<1> USE ProcessAssumption DEF clock, locks, call, reading, pass
<1>o. TypeOK /\ BuyerInv(c) /\ c \in Procs
  BY DEF GInv, Procs
<1>1. \A q \in (Buyers \ {c}) \union Workers : Waits(q)
  BY DEF Procs
<1>2. /\ \A d \in Buyers \ {c} : Confirming(d)' = Confirming(d)
      /\ UNION {LooksAt(w)' : w \in Workers} = UNION {LooksAt(w) : w \in Workers}
  BY <1>1, WaitsUnseen
<1>3. UNCHANGED <<expiry, captured>>
  BY DEF BuyerStep, Confirm, FailConfirm, StartConfirm, GetReservation, CommitConfirm
<1>g. ASSUME UNCHANGED status, Confirming(c)' = None PROVE [Pool!Next]_Pool!vars
  <2>1. CASE Confirming(c) = None
    BY <1>2, <1>3, <1>g, <2>1 DEF Pool!vars
  <2>2. CASE Confirming(c) # None
    BY <1>2, <1>3, <1>g, <2>2 DEF Pool!GiveUp, Pool!Step, Pool!Next
  <2> QED BY <2>1, <2>2
<1>4. CASE FailConfirm(c) \/ \E r \in Calls : StartConfirm(c, r)
  <2>1. UNCHANGED status /\ pc'[c] # "flush"
    BY <1>o, <1>4, GotoKeeps DEF FailConfirm, StartConfirm
  <2> QED BY <1>g, <2>1 DEF Confirming
<1>5. CASE GetReservation(c)
  <2>1. PICK r \in Calls : r = target[c]
    BY <1>o, <1>5 DEF GetReservation, BuyerInv, TypeOK
  <2>2. /\ pc[c] = "get" /\ UNCHANGED <<status, target>>
        /\ pc'[c] = IF status[r] = "ACTIVE" THEN "flush" ELSE "lost"
    BY <1>o, <1>5, <2>1, GotoKeeps DEF GetReservation
  <2>3. CASE status[r] = "ACTIVE"
    <3>1. Confirming(c)' = r
      BY <2>1, <2>2, <2>3 DEF Confirming
    <3>2. Pool!Find(c, r)
      BY <1>2, <1>3, <2>2, <2>3, <3>1 DEF Pool!Find, Pool!SeatsTaken
    <3> QED BY <1>3, <3>2 DEF Pool!Step, Pool!Next
  <2>4. CASE status[r] # "ACTIVE"
    BY <1>g, <2>2, <2>4 DEF Confirming
  <2> QED BY <2>3, <2>4
<1>6. CASE CommitConfirm(c)
  <2>1. PICK r : r = target[c]
    OBVIOUS
  <2>2. /\ r \in Calls /\ resLock[r] = None
        /\ status' = [status EXCEPT ![r] = "CONFIRMED"]
    BY <1>6, <2>1, SaleCommit
  <2>3. pc[c] = "flush" /\ pc'[c] = "sold"
    BY <1>o, <1>6, GotoKeeps DEF CommitConfirm
  <2>4. Confirming(c) = r /\ Confirming(c)' = None /\ r # None
    BY <2>1, <2>2, <2>3 DEF Confirming
  <2>5. r \notin UNION {LooksAt(w) : w \in Workers}
    BY <2>2, LooksAtLocked
  <2> QED BY <1>2, <1>3, <2>2, <2>4, <2>5
          DEF Pool!Sell, Pool!RowIsFree, Pool!Step, Pool!Next
<1> QED BY <1>4, <1>5, <1>6 DEF BuyerStep, Confirm

LEMMA PoolWorkerStep ==
  ASSUME GInv, NEW w \in Workers, WorkerStep(w), \A q \in Procs \ {w} : Waits(q)
  PROVE  [Pool!Next]_Pool!vars
<1> USE ProcessAssumption DEF clock, locks, call, reading, pass
<1>o. TypeOK /\ PassInv(w) /\ w \in Procs
  BY DEF GInv, Procs
<1>1. \A q \in (Workers \ {w}) \union Buyers : Waits(q)
  BY DEF Procs
<1>2. /\ [c \in Buyers |-> Confirming(c)'] = [c \in Buyers |-> Confirming(c)]
      /\ \A v \in Workers \ {w} : LooksAt(v)' = LooksAt(v)
  BY <1>1, WaitsUnseen
<1>3. UNCHANGED <<expiry, captured>>
  BY DEF WorkerStep, ExpirePass, FailPass, EndPass, SelectExpired, ReadPool, ReturnPlaces,
         CommitPass, Examine
<1> DEFINE All == UNION {LooksAt(v) : v \in Workers}
<1>q. ASSUME UNCHANGED status, LooksAt(w)' = LooksAt(w) PROVE UNCHANGED Pool!vars
  <2>1. All' = All
    BY <1>2, <1>q
  <2> QED BY <1>2, <1>3, <1>q, <2>1 DEF Pool!vars
<1>e. ASSUME NEW L \in SUBSET LooksAt(w), NEW E \in SUBSET L, LooksAt(w)' = LooksAt(w) \ L,
             status' = [r \in Calls |-> IF r \in E THEN "EXPIRED" ELSE status[r]]
      PROVE  [Pool!Next]_Pool!vars
  <2>1. All' = All \ L
    <3>1. ASSUME NEW v \in Workers \ {w}, NEW r \in LooksAt(v) PROVE r \notin LooksAt(w)
      BY <3>1, LooksAtLocked
    <3> QED BY <1>2, <1>e, <3>1
  <2>2. L \in SUBSET All
    OBVIOUS
  <2>3. Pool!EndPass(L, E)
    BY <1>2, <1>3, <1>e, <2>1, <2>2 DEF Pool!EndPass, Pool!SeatsTaken
  <2> QED BY <1>3, <2>2, <2>3 DEF Pool!Step, Pool!Next
<1>s. status = [r \in Calls |-> IF r \in {} THEN "EXPIRED" ELSE status[r]]
  BY <1>o DEF TypeOK
<1>4. CASE SelectExpired(w) \/ ReadPool(w)
  <2>1. /\ UNCHANGED <<freed, target, status>>
        /\ pc[w] \in {"read", "return"} <=> pc'[w] \in {"read", "return"}
    BY <1>o, <1>4, GotoKeeps DEF SelectExpired, ReadPool
  <2> QED BY <1>q, <2>1 DEF LooksAt
<1>5. ASSUME NEW r \in Calls, Examine(w, r) PROVE [Pool!Next]_Pool!vars
  <2>1. /\ r \in batch[w] /\ pc[w] = "examine" /\ UNCHANGED <<status, freed>>
        /\ target'[w] = r
        /\ pc'[w] = IF r \in captured THEN "examine" ELSE "read"
    BY <1>o, <1>5, GotoKeeps DEF Examine, IsFirst, HasCapturedPayment, TypeOK
  <2>2. LooksAt(w) = freed[w]
    BY <2>1 DEF LooksAt
  <2>3. CASE r \in captured
    BY <1>q, <2>1, <2>2, <2>3 DEF LooksAt
  <2>4. CASE r \notin captured
    <3>1. LooksAt(w)' = LooksAt(w) \union {r}
      BY <2>1, <2>2, <2>4 DEF LooksAt
    <3>2. All' = All \union {r}
      BY <1>2, <3>1
    <3>3. resLock[r] = w /\ status[r] = "ACTIVE" /\ expiry[r] # "running"
      BY <1>o, <2>1 DEF PassInv, GInv, ReservationInv
    <3>4. r \notin All
      <4>1. r \notin freed[w]
        BY <1>o, <2>1 DEF PassInv
      <4> QED BY <2>2, <3>3, <4>1, LooksAtLocked
    <3>5. Pool!Look(r)
      BY <1>2, <1>3, <2>1, <2>4, <3>2, <3>3, <3>4 DEF Pool!Look
    <3> QED BY <1>3, <3>5 DEF Pool!Step, Pool!Next
  <2> QED BY <2>3, <2>4
<1>6. CASE ReturnPlaces(w)
  <2>1. /\ pc[w] = "return" /\ pc'[w] = "examine" /\ UNCHANGED <<status, target>>
        /\ target[w] \in Calls /\ target[w] \notin freed[w]
        /\ freed'[w] = freed[w] \union {target[w]} \/ freed'[w] = freed[w]
    BY <1>o, <1>6, GotoKeeps DEF ReturnPlaces, PassInv, TypeOK
  <2>2. LooksAt(w) = freed[w] \union {target[w]} /\ LooksAt(w)' = freed'[w]
    BY <2>1 DEF LooksAt
  <2>3. CASE freed'[w] = freed[w]
    <3>1. {target[w]} \in SUBSET LooksAt(w) /\ LooksAt(w)' = LooksAt(w) \ {target[w]}
      BY <2>1, <2>2, <2>3
    <3>2. status' = [r \in Calls |-> IF r \in {} THEN "EXPIRED" ELSE status[r]]
      BY <1>s, <2>1
    <3> QED BY <1>e, <3>1, <3>2
  <2> QED BY <1>q, <2>1, <2>2, <2>3
<1>7. CASE EndPass(w) /\ (CommitPass(w) \/ UNCHANGED status)
  <2>1. LooksAt(w)' = LooksAt(w) \ LooksAt(w)
    BY <1>o, <1>7, GotoKeeps DEF EndPass, LooksAt, TypeOK
  <2>2. CASE CommitPass(w)
    <3>1. /\ freed[w] \in SUBSET LooksAt(w)
          /\ status' = [r \in Calls |-> IF r \in freed[w] THEN "EXPIRED" ELSE status[r]]
      BY <2>2, PassCommit DEF LooksAt
    <3> QED BY <1>e, <2>1, <3>1
  <2>3. CASE UNCHANGED status
    <3>1. status' = [r \in Calls |-> IF r \in {} THEN "EXPIRED" ELSE status[r]]
      BY <1>s, <2>3
    <3> QED BY <1>e, <2>1, <3>1
  <2> QED BY <1>7, <2>2, <2>3
<1> QED BY <1>4, <1>5, <1>6, <1>7 DEF WorkerStep, ExpirePass, CommitPass, FailPass

LEMMA PoolAround ==
  ASSUME GInv, Around
  PROVE  [Pool!Next]_Pool!vars
<1> USE DEF clock, locks, call, reading, pass
<1>1. UNCHANGED <<pc, target, freed, status>>
  BY DEF Around, Capture, Lapse
<1>2. /\ \A c \in Buyers : Confirming(c)' = Confirming(c)
      /\ \A w \in Workers : LooksAt(w)' = LooksAt(w)
  BY <1>1 DEF Confirming, LooksAt
<1>3. /\ [c \in Buyers |-> Confirming(c)'] = [c \in Buyers |-> Confirming(c)]
      /\ UNION {LooksAt(w)' : w \in Workers} = UNION {LooksAt(w) : w \in Workers}
  BY <1>2
<1>4. ASSUME NEW r \in Calls, Capture(r) PROVE Pool!Pay(r)
  BY <1>1, <1>3, <1>4 DEF Capture, Pool!Pay
<1>5. ASSUME NEW r \in Calls, Lapse(r) PROVE Pool!Lapse(r) /\ UNCHANGED captured
  <2>1. \A q \in Calls : expiry'[q] # "running" <=> q = r \/ expiry[q] # "running"
    BY <1>5 DEF Lapse, GInv, TypeOK
  <2> QED BY <1>1, <1>3, <1>5, <2>1 DEF Lapse, Pool!Lapse
<1> QED BY <1>4, <1>5 DEF Around, Pool!Step, Pool!Next

(* The calls and the passes do with a reservation only what Reservation     *)
(* allows, late payments or not.                                            *)
THEOREM CallsImplementReservation == Spec => ImplementsReservation
<1>1. Init => Pool!Init
  <2> SUFFICES ASSUME Init PROVE Pool!Init
    OBVIOUS
  <2>1. /\ \A c \in Buyers : Confirming(c) = None
        /\ \A w \in Workers : LooksAt(w) = {}
    BY ProcessAssumption DEF Init, Confirming, LooksAt, Procs
  <2>2. UNION {LooksAt(w) : w \in Workers} = {}
    BY <2>1
  <2> QED BY <2>1, <2>2 DEF Init, Pool!Init
<1>2. GInv /\ [Next]_vars => [Pool!Next]_Pool!vars
  <2> SUFFICES ASSUME GInv, [Next]_vars PROVE [Pool!Next]_Pool!vars
    OBVIOUS
  <2>1. ASSUME NEW r \in Calls, CallStep(r), \A q \in Procs \ {r} : Waits(q)
        PROVE  [Pool!Next]_Pool!vars
    BY <2>1, PoolCallStep DEF Pool!Next
  <2>2. CASE UNCHANGED vars
    <3>1. \A q \in Procs : Waits(q)
      BY <2>2 DEF vars, Waits
    <3>2. /\ [c \in Buyers |-> Confirming(c)'] = [c \in Buyers |-> Confirming(c)]
          /\ UNION {LooksAt(w)' : w \in Workers} = UNION {LooksAt(w) : w \in Workers}
      BY <3>1, WaitsUnseen DEF Procs
    <3> QED BY <2>2, <3>2 DEF vars, Pool!vars
  <2> QED BY <2>1, <2>2, WhoSteps, PoolBuyerStep, PoolWorkerStep, PoolAround DEF GInv
<1> QED BY <1>1, <1>2, Invariance, PTL DEF Spec, ImplementsReservation, Pool!Spec
=============================================================================
