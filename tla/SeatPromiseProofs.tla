-------------------------- MODULE SeatPromiseProofs --------------------------
(***************************************************************************)
(* Proofs about what SeatInventory promises to its clients, its buyers and *)
(* the checkout: one hold for a key, no lost sale of a hold that is there, *)
(* gate locks that come back, no deadlock of reserve calls, and that the   *)
(* calls and the worker implement SeatLedger and Reservation.  Each part   *)
(* has an invariant of its own, which rests on that of                     *)
(* SeatInventoryProofs.                                                    *)
(***************************************************************************)
EXTENDS SeatInventoryProofs, WellFoundedInduction

-----------------------------------------------------------------------------
(* The invariants                                                           *)

(* A call that is about to commit is the first with its key. *)
KeyInv ==
  /\ \A g, h \in Holds : SameKey(g, h) =>
       /\ holds[g] # "NONE" /\ holds[h] # "NONE" => g = h
       /\ pc[g] = "commit" => holds[h] = "NONE" /\ (pc[h] = "commit" => g = h)
  /\ \A h \in Holds : pc[h] = "refresh" => holds[h] # "NONE"
  /\ \A g, h \in Holds : answer[h] = g =>
       holds[g] # "NONE" /\ Req[g].session = Req[h].session

(* What a confirm has read of an ACTIVE hold is still so, and one that      *)
(* gives up has seen that the hold is not ACTIVE.                           *)
LostInv(c) ==
  /\ pc[c] = "update" /\ holds[target[c]] = "ACTIVE" =>
       \A s \in Stock : view[c][s] > 0 =>
         seats[s].hold = target[c] /\ seats[s].version = view[c][s]
  /\ pc[c] \in {"rollback", "lost"} => holds[target[c]] # "ACTIVE"

(* Rows are locked in the order of their ids: a reserve call has those of   *)
(* the seats it wants, a confirm those of its hold.                         *)
ReserveOrder(h) ==
  \A s \in Stock : rowLock[s] = h =>
    s \in Want(h) /\ \A r \in Want(h) \intersect Stock : r < s => rowLock[r] = h

ConfirmOrder(c) ==
  \A s \in Stock : rowLock[s] = c =>
    \A r \in Stock : r < s /\ seats[r].hold = target[c] => rowLock[r] = c

(* A worker examines holds that have run out, each once. *)
LookInv(w) ==
  /\ batch[w] \intersect freed[w] = {}
  /\ pc[w] \in {"scan", "free"} => target[w] \notin batch[w] \union freed[w]

LapsedInv == \A h \in Holds : holdLock[h] # None => expiry[h] # "running"

(* Every lock under a call's token is one that the call or, once the hold   *)
(* is to be expired, the worker knows it has to release.                    *)
CallGate(h) ==
  \A s \in SeatIds : gate[s] = h =>
    /\ s \in Want(h)
    /\ pc[h] # "idle" /\ holds[h] # "EXPIRED"
    /\ pc[h] \in {"gate", "rows", "insert", "commit", "refresh", "ungate"} => s \in got[h]
    /\ pc[h] = "done" => holds[h] # "NONE"

PassGate(w) ==
  /\ \A s \in Stock : pc[w] = "free" /\ rowLock[s] = w /\ seats[s].hold = target[w] =>
       s \in got[w]
  /\ \A h \in freed[w], s \in SeatIds : gate[s] = h =>
       pc[w] = "ungate" /\ h = target[w] /\ s \in got[w]

PInv == /\ KeyInv /\ LapsedInv
        /\ \A c \in Buyers : LostInv(c) /\ ConfirmOrder(c)
        /\ \A h \in Holds : ReserveOrder(h) /\ CallGate(h)
        /\ \A w \in Workers : LookInv(w) /\ PassGate(w)

-----------------------------------------------------------------------------
(* Who writes what                                                          *)

LEMMA RowWriters ==
  ASSUME [Next]_vars
  PROVE  \/ \E h \in Holds : CommitHold(h)
         \/ \E c \in Buyers : CommitConfirm(c)
         \/ \E w \in Workers : CommitPass(w)
         \/ UNCHANGED rows
<1> USE DEF rows
<1>1. ASSUME NEW h \in Holds, Reserve(h) PROVE CommitHold(h) \/ UNCHANGED rows
  BY <1>1 DEF Reserve, LookupHold, CheckSeats, InsertHold, ReturnHold, CloseCall,
              AcquireSeat, ReleaseLock, LockRow
<1>2. ASSUME NEW c \in Buyers, Confirm(c) PROVE CommitConfirm(c) \/ UNCHANGED rows
  BY <1>2 DEF Confirm, ReadHold, ReadSeats, RollbackConfirm, ConfirmSeat
<1>3. ASSUME NEW w \in Workers, ExpirePass(w) PROVE CommitPass(w) \/ UNCHANGED rows
  BY <1>3 DEF ExpirePass, SelectExpired, ScanSeats, MarkExpired, Examine, FreeSeat,
              ReleaseExpiredLock
<1>4. ASSUME NEW p \in Procs, Fault(p) \/ DeadlockVictim(p) PROVE UNCHANGED rows
  BY <1>4 DEF Fault, DeadlockVictim, Fail, FailReserve, FailConfirm, FailPass
<1>5. ASSUME NEW h \in Holds, FailGate(h) \/ Crash(h) \/ \E c \in Buyers : StartConfirm(c, h)
      PROVE  UNCHANGED rows
  BY <1>5 DEF FailGate, Crash, StartConfirm
<1>6. CASE Environment \/ UNCHANGED vars
  BY <1>6 DEF Environment, Capture, Lapse, GateTtl, vars
<1> QED BY <1>1, <1>2, <1>3, <1>4, <1>5, <1>6 DEF Next

(* Steps of the buyers and the worker, failures, and what happens around.   *)
NotReserve ==
  \/ \E h \in Holds : FailGate(h) \/ Crash(h) \/ \E c \in Buyers : StartConfirm(c, h)
  \/ \E c \in Buyers : Confirm(c)
  \/ \E w \in Workers : ExpirePass(w)
  \/ \E p \in Procs : Fault(p) \/ DeadlockVictim(p)
  \/ Environment \/ UNCHANGED vars

(* What each commit writes. *)
LEMMA HoldCommit ==
  ASSUME IInv, NEW h \in Holds, CommitHold(h)
  PROVE  /\ holds[h] = "NONE" /\ holds' = [holds EXCEPT ![h] = "ACTIVE"]
         /\ Want(h) \subseteq Stock
         /\ \A s \in Want(h) : seats[s].hold = None /\ seats'[s].hold = h
                               /\ seats'[s].status = "HELD" /\ seats[s].status = "AVAILABLE"
         /\ \A s \in Stock \ Want(h) : seats'[s] = seats[s]
<1>1. /\ holds[h] = "NONE" /\ Want(h) \subseteq Stock
      /\ \A s \in Want(h) : seats[s].status = "AVAILABLE"
  BY DEF CommitHold, IInv, ReserveInv
<1>2. \A s \in Want(h) : seats[s].hold = None
  BY <1>1 DEF IInv, HoldOwnsItsSeats
<1> QED BY <1>1, <1>2 DEF CommitHold, HeldSeat

LEMMA SaleCommit ==
  ASSUME IInv, NEW c \in Buyers, CommitConfirm(c), NEW h, h = target[c]
  PROVE  /\ h \in Holds /\ holds[h] = "ACTIVE" /\ holdLock[h] = None
         /\ holds' = [holds EXCEPT ![h] = "CONFIRMED"]
         /\ Locked(c) = SeatsOf(h) /\ SeatsOf(h) = Want(h) /\ Locked(c) # {}
         /\ \A s \in Stock : IF s \in Want(h)
              THEN seats'[s].status = "SOLD" /\ seats'[s].hold = h
              ELSE seats'[s] = seats[s]
<1>1. /\ h \in captured /\ h \in Holds /\ pc[c] = "flush" /\ holdLock[h] = None
      /\ holds' = [holds EXCEPT ![h] = "CONFIRMED"]
  BY DEF CommitConfirm, IInv, ConfirmInv, TypeOK
<1>2. Locked(c) = SeatsOf(h) /\ Locked(c) # {}
  BY <1>1 DEF IInv, ConfirmInv, Pending, Locked, SeatsOf
<1>3. PICK s \in Stock : rowLock[s] = c /\ seats[s].hold = h /\ seats[s].status = "HELD"
  BY <1>2 DEF Locked, IInv, ConfirmInv
<1>4. holds[h] = "ACTIVE" /\ SeatsOf(h) = Want(h)
  <2>1. s \in SeatsOf(h)
    BY <1>3 DEF SeatsOf
  <2>2. holds[h] \in {"NONE", "ACTIVE", "CONFIRMED", "EXPIRED"}
    BY <1>1 DEF IInv, TypeOK
  <2> QED BY <1>1, <1>3, <2>1, <2>2 DEF IInv, HoldOwnsItsSeats
<1>5. \A r \in Stock : rowLock[r] = c <=> r \in Want(h)
  BY <1>2, <1>4 DEF Locked
<1>6. \A r \in Stock : IF rowLock[r] = c
        THEN seats'[r].status = "SOLD" /\ seats'[r].hold = seats[r].hold
        ELSE seats'[r] = seats[r]
  BY DEF CommitConfirm, SoldSeat
<1>7. \A r \in Stock : r \in Want(h) => seats[r].hold = h
  BY <1>4 DEF SeatsOf
<1> QED BY <1>1, <1>2, <1>4, <1>5, <1>6, <1>7

LEMMA PassCommit ==
  ASSUME IInv, NEW w \in Workers, CommitPass(w)
  PROVE  /\ freed[w] \subseteq Holds
         /\ \A h \in freed[w] : holds[h] = "ACTIVE" /\ holdLock[h] = w
         /\ holds' = [h \in Holds |-> IF h \in freed[w] THEN "EXPIRED" ELSE holds[h]]
         /\ \A s \in Stock : IF seats[s].hold \in freed[w]
              THEN /\ seats'[s].status = "AVAILABLE" /\ seats'[s].hold = None
                   /\ seats[s].status = "HELD"
              ELSE seats'[s] = seats[s]
<1>1. freed[w] \subseteq Holds
  BY DEF IInv, TypeOK
<1>2. \A h \in freed[w] : holds[h] = "ACTIVE" /\ holdLock[h] = w
  BY <1>1, ProcessAssumption DEF IInv, PassInv, HoldInv
<1>3. \A s \in Stock : rowLock[s] = w <=> seats[s].hold \in freed[w]
  BY DEF CommitPass, IInv, PassInv
<1>4. \A s \in Stock : seats[s].hold \in freed[w] => seats[s].status = "HELD"
  BY <1>1, <1>2 DEF IInv, HoldOwnsItsSeats, SeatsOf
<1> QED BY <1>1, <1>2, <1>3, <1>4 DEF CommitPass, FreeSeatRow

(* A hold is made once, is ACTIVE from the start or never, and as long as   *)
(* it is ACTIVE its seats are left alone.                                   *)
LEMMA HoldsStep ==
  ASSUME IInv, [Next]_vars, NEW h \in Holds
  PROVE  /\ holds[h] # "NONE" => holds'[h] # "NONE"
         /\ holds[h] = "NONE" /\ holds'[h] # "NONE" => CommitHold(h)
         /\ holds'[h] = "EXPIRED" => holds[h] = "EXPIRED"
              \/ \E w \in Workers : CommitPass(w) /\ h \in freed[w]
         /\ holds[h] # "NONE" /\ holds'[h] = "ACTIVE" =>
              /\ holds[h] = "ACTIVE"
              /\ \A s \in Stock : seats[s].hold = h \/ seats'[s].hold = h => seats'[s] = seats[s]
<1> USE DEF rows
<1>t. holds \in [Holds -> {"NONE", "ACTIVE", "CONFIRMED", "EXPIRED"}] /\ None \notin Holds
  BY ProcessAssumption DEF IInv, TypeOK
<1>1. ASSUME NEW g \in Holds, CommitHold(g)
      PROVE  /\ holds'[h] = (IF h = g THEN "ACTIVE" ELSE holds[h]) /\ holds[g] = "NONE"
             /\ h # g => \A s \in Stock : seats[s].hold = h \/ seats'[s].hold = h
                                            => seats'[s] = seats[s]
  BY <1>t, <1>1, HoldCommit
<1>2. ASSUME NEW c \in Buyers, CommitConfirm(c)
      PROVE  /\ holds'[h] = (IF h = target[c] THEN "CONFIRMED" ELSE holds[h])
             /\ holds[target[c]] = "ACTIVE"
             /\ h # target[c] => \A s \in Stock : seats[s].hold = h \/ seats'[s].hold = h
                                                    => seats'[s] = seats[s]
  <2>1. PICK g : g = target[c]
    OBVIOUS
  <2> QED BY <1>t, <1>2, <2>1, SaleCommit DEF SeatsOf
<1>3. ASSUME NEW w \in Workers, CommitPass(w)
      PROVE  /\ holds'[h] = (IF h \in freed[w] THEN "EXPIRED" ELSE holds[h])
             /\ h \in freed[w] => holds[h] = "ACTIVE"
             /\ h \notin freed[w] => \A s \in Stock : seats[s].hold = h \/ seats'[s].hold = h
                                                        => seats'[s] = seats[s]
  BY <1>t, <1>3, PassCommit
<1> QED BY <1>1, <1>2, <1>3, RowWriters

-----------------------------------------------------------------------------
(* One hold for a key                                                       *)

(* Steps outside a reserve call end it or leave it where it is. *)
LEMMA ReserveWaits ==
  ASSUME IInv, NotReserve
  PROVE  /\ UNCHANGED answer
         /\ \A h \in Holds : pc'[h] = pc[h] \/ pc'[h] \in {"ungate", "raised", "crashed"}
<1> USE ProcessAssumption DEF rows, clock, locks, call, reading, pass
<1>o. TypeOK /\ \A p \in Buyers \union Workers : p \in Procs /\ p \notin Holds
  BY DEF IInv, Procs
<1>h. Holds \subseteq Procs
  BY DEF Procs
<1>g. ASSUME NEW p \in Buyers \union Workers, NEW where, Goto(p, where)
      PROVE  \A h \in Holds : pc'[h] = pc[h]
  BY <1>o, <1>h, <1>g, GotoKeeps
<1>1. ASSUME NEW h \in Holds, FailGate(h) \/ Crash(h) \/ FailReserve(h)
      PROVE  /\ UNCHANGED answer
             /\ \A g \in Holds : pc'[g] = pc[g] \/ pc'[g] \in {"ungate", "raised", "crashed"}
  <2>1. PICK where \in {"ungate", "raised", "crashed"} : Goto(h, where)
    BY <1>1 DEF FailGate, Crash, FailReserve
  <2>2. UNCHANGED answer
    BY <1>1 DEF FailGate, Crash, FailReserve
  <2> QED BY <1>o, <1>h, <2>1, <2>2, GotoKeeps
<1>2. ASSUME NEW c \in Buyers,
             Confirm(c) \/ FailConfirm(c) \/ \E h \in Holds : StartConfirm(c, h)
      PROVE  UNCHANGED answer /\ \A g \in Holds : pc'[g] = pc[g]
  <2>1. UNCHANGED answer /\ \E where : Goto(c, where)
    BY <1>2 DEF Confirm, FailConfirm, StartConfirm, ReadHold, ReadSeats, CommitConfirm,
                RollbackConfirm, ConfirmSeat
  <2> QED BY <1>g, <2>1
<1>3. ASSUME NEW w \in Workers, ExpirePass(w) \/ FailPass(w)
      PROVE  UNCHANGED answer /\ \A g \in Holds : pc'[g] = pc[g]
  <2>1. UNCHANGED answer /\ (UNCHANGED pc \/ \E where : Goto(w, where))
    BY <1>3 DEF ExpirePass, FailPass, EndPass, SelectExpired, ScanSeats, MarkExpired,
                CommitPass, Examine, FreeSeat, ReleaseExpiredLock
  <2> QED BY <1>g, <2>1
<1>4. ASSUME NEW p \in Procs, Fault(p) \/ DeadlockVictim(p)
      PROVE  /\ UNCHANGED answer
             /\ \A g \in Holds : pc'[g] = pc[g] \/ pc'[g] \in {"ungate", "raised", "crashed"}
  BY <1>1, <1>2, <1>3, <1>4 DEF Fault, DeadlockVictim, Fail
<1>5. CASE Environment \/ UNCHANGED vars
  BY <1>5 DEF Environment, Capture, Lapse, GateTtl, vars
<1> QED BY <1>1, <1>2, <1>3, <1>4, <1>5 DEF NotReserve

LEMMA KeyNext == IInv /\ KeyInv /\ [Next]_vars => KeyInv'
<1> SUFFICES ASSUME IInv, KeyInv, [Next]_vars PROVE KeyInv'
  OBVIOUS
<1> USE ProcessAssumption DEF rows, clock, locks, call, reading, pass
<1>o. TypeOK /\ Holds \subseteq Procs /\ None \notin Holds
  BY DEF IInv, Procs
<1>k. \A h \in Holds : holds[h] # "NONE" => holds'[h] # "NONE"
  BY HoldsStep
<1>s. \A g, h \in Holds : SameKey(g, h)' = SameKey(g, h) /\ (SameKey(g, h) <=> SameKey(h, g))
  BY DEF SameKey
<1>1. ASSUME NEW h \in Holds, CommitHold(h) PROVE KeyInv'
  <2>1. /\ pc[h] = "commit" /\ pc'[h] = "refresh" /\ UNCHANGED answer
        /\ \A g \in Holds \ {h} : pc'[g] = pc[g]
    BY <1>o, <1>1, GotoKeeps DEF CommitHold
  <2>2. holds'[h] = "ACTIVE" /\ \A g \in Holds \ {h} : holds'[g] = holds[g]
    BY <1>o, <1>1, HoldCommit DEF TypeOK
  <2>3. \A g \in Holds \ {h} : SameKey(g, h) => holds[g] = "NONE" /\ pc[g] # "commit"
    BY <1>s, <2>1 DEF KeyInv
  <2> QED BY <1>s, <2>1, <2>2, <2>3 DEF KeyInv
<1>2. ASSUME UNCHANGED answer, \A h \in Holds : holds'[h] = "NONE" <=> holds[h] = "NONE",
             \A h \in Holds : pc'[h] \in {"commit", "refresh"} => pc'[h] = pc[h]
      PROVE  KeyInv'
  BY <1>2, <1>s DEF KeyInv
<1>3. ASSUME NEW h \in Holds, LookupHold(h) PROVE KeyInv'
  <2>1. /\ pc'[h] \in {"gate", "done"} /\ UNCHANGED holds
        /\ \A g \in Holds \ {h} : pc'[g] = pc[g]
    BY <1>o, <1>3, GotoKeeps DEF LookupHold
  <2>2. /\ \A g \in Holds \ {h} : answer'[g] = answer[g]
        /\ answer'[h] # answer[h] => \/ answer'[h] = None
                                     \/ /\ holds[answer'[h]] # "NONE"
                                        /\ Req[answer'[h]].session = Req[h].session
    BY <1>o, <1>3 DEF LookupHold, TypeOK
  <2> QED BY <1>o, <1>s, <2>1, <2>2 DEF KeyInv
<1>4. ASSUME NEW h \in Holds, InsertHold(h) PROVE KeyInv'
  <2>1. /\ UNCHANGED <<holds, answer>> /\ \A g \in Holds \ {h} : pc'[g] = pc[g]
        /\ \/ pc'[h] = "ungate"
           \/ /\ pc'[h] = "commit"
              /\ \A g \in Holds : SameKey(g, h) => holds[g] = "NONE" /\ pc[g] # "commit"
    BY <1>o, <1>s, <1>4, GotoKeeps DEF InsertHold, Inserting, KeyIsFree
  <2> QED BY <1>s, <2>1 DEF KeyInv
<1>5. ASSUME NEW h \in Holds, ReturnHold(h) PROVE KeyInv'
  <2>1. /\ UNCHANGED holds /\ \A g \in Holds \ {h} : pc'[g] = pc[g]
        /\ pc'[h] = "done" /\ holds[h] # "NONE"
        /\ answer'[h] = h /\ \A g \in Holds \ {h} : answer'[g] = answer[g]
    BY <1>o, <1>5, GotoKeeps DEF ReturnHold, KeyInv, TypeOK
  <2> QED BY <1>s, <2>1 DEF KeyInv
<1>6. ASSUME NEW h \in Holds,
             \/ CheckSeats(h) \/ CloseCall(h)
             \/ \E s \in SeatIds : AcquireSeat(h, s) \/ ReleaseLock(h, s)
             \/ \E s \in Stock : LockRow(h, s)
      PROVE KeyInv'
  <2>1. UNCHANGED <<holds, answer>>
    BY <1>6 DEF CheckSeats, CloseCall, AcquireSeat, ReleaseLock, LockRow
  <2>2. \/ UNCHANGED pc
        \/ \E where \in {"insert", "ungate", "done", "rows", "gate"} : Goto(h, where)
    BY <1>6 DEF CheckSeats, CloseCall, AcquireSeat, ReleaseLock, LockRow
  <2>3. \A g \in Holds : pc'[g] \in {"commit", "refresh"} => pc'[g] = pc[g]
    BY <1>o, <2>2, GotoKeeps
  <2> QED BY <1>2, <2>1, <2>3
<1>7. ASSUME NotReserve PROVE KeyInv'
  <2>1. \A h \in Holds : holds[h] = "NONE" => holds'[h] = "NONE" \/ CommitHold(h)
    BY HoldsStep
  <2>2. UNCHANGED answer /\ \A h \in Holds : pc'[h] \in {"commit", "refresh"} => pc'[h] = pc[h]
    BY <1>7, ReserveWaits
  <2> QED BY <1>1, <1>2, <1>k, <2>1, <2>2
<1> QED BY <1>1, <1>3, <1>4, <1>5, <1>6, <1>7 DEF Next, Reserve, NotReserve

-----------------------------------------------------------------------------
(* A step of one process leaves the others where they are                   *)

CallStep(h) == Reserve(h) \/ FailGate(h) \/ Crash(h) \/ FailReserve(h)
BuyerStep(c) == Confirm(c) \/ FailConfirm(c) \/ \E h \in Holds : StartConfirm(c, h)
WorkerStep(w) == ExpirePass(w) \/ FailPass(w)

Waits(q) ==
  /\ pc'[q] = pc[q]
  /\ \A s \in Stock : rowLock'[s] = q <=> rowLock[s] = q
  /\ q \in Buyers \union Workers => target'[q] = target[q] /\ view'[q] = view[q]
  /\ q \in Holds \union Workers => got'[q] = got[q]
  /\ q \in Workers => batch'[q] = batch[q] /\ freed'[q] = freed[q]

LEMMA OthersWait ==
  ASSUME TypeOK, NEW p \in Procs,
         \/ UNCHANGED rowLock
         \/ Unlock(p)
         \/ \E s \in Stock : rowLock[s] = None /\ rowLock' = [rowLock EXCEPT ![s] = p],
         UNCHANGED pc \/ \E where : Goto(p, where),
         \A q \in (Buyers \union Workers) \ {p} : target'[q] = target[q] /\ view'[q] = view[q],
         \A q \in (Holds \union Workers) \ {p} : got'[q] = got[q],
         \A q \in Workers \ {p} : batch'[q] = batch[q] /\ freed'[q] = freed[q]
  PROVE  \A q \in Procs \ {p} : Waits(q)
<1>1. \A q \in Procs \ {p} : pc'[q] = pc[q]
  BY GotoKeeps
<1>2. \A q \in Procs \ {p}, s \in Stock : rowLock'[s] = q <=> rowLock[s] = q
  BY ProcessAssumption DEF Unlock, TypeOK, Procs
<1> QED BY <1>1, <1>2 DEF Waits

LEMMA CallAlone ==
  ASSUME TypeOK, NEW h \in Holds, CallStep(h)
  PROVE  \A q \in Procs \ {h} : Waits(q)
<1> USE ProcessAssumption DEF rows, clock, locks, call, reading, pass
<1>1. h \in Procs /\ h \notin Buyers \union Workers
  BY DEF Procs
<1>2. UNCHANGED <<target, view, batch, freed>>
  BY DEF CallStep, Reserve, FailGate, Crash, FailReserve, LookupHold, CheckSeats, InsertHold,
         CommitHold, ReturnHold, CloseCall, AcquireSeat, ReleaseLock, LockRow
<1>3. \A q \in (Holds \union Workers) \ {h} : got'[q] = got[q]
  BY DEF CallStep, Reserve, FailGate, Crash, FailReserve, LookupHold, CheckSeats, InsertHold,
         CommitHold, ReturnHold, CloseCall, AcquireSeat, ReleaseLock, LockRow, TypeOK
<1>4. UNCHANGED pc \/ \E where : Goto(h, where)
  BY DEF CallStep, Reserve, FailGate, Crash, FailReserve, LookupHold, CheckSeats, InsertHold,
         CommitHold, ReturnHold, CloseCall, AcquireSeat, ReleaseLock, LockRow
<1>5. \/ UNCHANGED rowLock
      \/ Unlock(h)
      \/ \E s \in Stock : rowLock[s] = None /\ rowLock' = [rowLock EXCEPT ![s] = h]
  BY DEF CallStep, Reserve, FailGate, Crash, FailReserve, LookupHold, CheckSeats, InsertHold,
         CommitHold, ReturnHold, CloseCall, AcquireSeat, ReleaseLock, LockRow
<1> QED BY <1>1, <1>2, <1>3, <1>4, <1>5, OthersWait

LEMMA BuyerAlone ==
  ASSUME TypeOK, NEW c \in Buyers, BuyerStep(c)
  PROVE  \A q \in Procs \ {c} : Waits(q)
<1> USE ProcessAssumption DEF rows, clock, locks, call, reading, pass
<1>1. c \in Procs
  BY DEF Procs
<1>2. UNCHANGED <<got, batch, freed>>
  BY DEF BuyerStep, Confirm, FailConfirm, StartConfirm, ReadHold, ReadSeats,
         CommitConfirm, RollbackConfirm, ConfirmSeat
<1>3. \A q \in (Buyers \union Workers) \ {c} : target'[q] = target[q] /\ view'[q] = view[q]
  BY DEF BuyerStep, Confirm, FailConfirm, StartConfirm, ReadHold, ReadSeats,
         CommitConfirm, RollbackConfirm, ConfirmSeat, TypeOK
<1>4. \E where : Goto(c, where)
  BY DEF BuyerStep, Confirm, FailConfirm, StartConfirm, ReadHold, ReadSeats,
         CommitConfirm, RollbackConfirm, ConfirmSeat
<1>5. \/ UNCHANGED rowLock
      \/ Unlock(c)
      \/ \E s \in Stock : rowLock[s] = None /\ rowLock' = [rowLock EXCEPT ![s] = c]
  BY DEF BuyerStep, Confirm, FailConfirm, StartConfirm, ReadHold, ReadSeats,
         CommitConfirm, RollbackConfirm, ConfirmSeat
<1> QED BY <1>1, <1>2, <1>3, <1>4, <1>5, OthersWait

LEMMA WorkerAlone ==
  ASSUME TypeOK, NEW w \in Workers, WorkerStep(w)
  PROVE  \A q \in Procs \ {w} : Waits(q)
<1> USE ProcessAssumption DEF rows, clock, locks, call, reading, pass
<1>1. w \in Procs
  BY DEF Procs
<1>2. \A q \in (Buyers \union Workers) \ {w} : target'[q] = target[q] /\ view'[q] = view[q]
  BY DEF WorkerStep, ExpirePass, FailPass, EndPass, SelectExpired, ScanSeats, MarkExpired,
         CommitPass, Examine, FreeSeat, ReleaseExpiredLock, TypeOK
<1>3. /\ \A q \in (Holds \union Workers) \ {w} : got'[q] = got[q]
      /\ \A q \in Workers \ {w} : batch'[q] = batch[q] /\ freed'[q] = freed[q]
  BY DEF WorkerStep, ExpirePass, FailPass, EndPass, SelectExpired, ScanSeats, MarkExpired,
         CommitPass, Examine, FreeSeat, ReleaseExpiredLock, TypeOK
<1>4. UNCHANGED pc \/ \E where : Goto(w, where)
  BY DEF WorkerStep, ExpirePass, FailPass, EndPass, SelectExpired, ScanSeats, MarkExpired,
         CommitPass, Examine, FreeSeat, ReleaseExpiredLock
<1>5. \/ UNCHANGED rowLock
      \/ Unlock(w)
      \/ \E s \in Stock : rowLock[s] = None /\ rowLock' = [rowLock EXCEPT ![s] = w]
  BY DEF WorkerStep, ExpirePass, FailPass, EndPass, SelectExpired, ScanSeats, MarkExpired,
         CommitPass, Examine, FreeSeat, ReleaseExpiredLock
<1> QED BY <1>1, <1>2, <1>3, <1>4, <1>5, OthersWait

LEMMA WhoSteps ==
  ASSUME TypeOK, [Next]_vars
  PROVE  \/ \E h \in Holds : CallStep(h) /\ \A q \in Procs \ {h} : Waits(q)
         \/ \E c \in Buyers : BuyerStep(c) /\ \A q \in Procs \ {c} : Waits(q)
         \/ \E w \in Workers : WorkerStep(w) /\ \A q \in Procs \ {w} : Waits(q)
         \/ (Environment \/ UNCHANGED vars) /\ \A q \in Procs : Waits(q)
<1>1. \/ \E h \in Holds : CallStep(h)
      \/ \E c \in Buyers : BuyerStep(c)
      \/ \E w \in Workers : WorkerStep(w)
      \/ Environment \/ UNCHANGED vars
  BY DEF Next, Fault, DeadlockVictim, Fail, CallStep, BuyerStep, WorkerStep
<1>2. ASSUME Environment \/ UNCHANGED vars PROVE \A q \in Procs : Waits(q)
  BY <1>2 DEF Environment, Capture, Lapse, GateTtl, vars, Waits, locks, call, reading, pass
<1> QED BY <1>1, <1>2, CallAlone, BuyerAlone, WorkerAlone

-----------------------------------------------------------------------------
(* A confirm that gives up has lost                                         *)

LEMMA LostNext ==
  ASSUME IInv, IInv', [Next]_vars, NEW c \in Buyers, LostInv(c)
  PROVE  LostInv(c)'
<1> USE ProcessAssumption DEF rows, clock, locks, call, reading, pass
<1>o. TypeOK /\ ConfirmInv(c) /\ c \in Procs
  BY DEF IInv, Procs
<1>q. ASSUME pc[c] # "idle", target'[c] = target[c], holds'[target[c]] = "ACTIVE"
      PROVE  /\ target[c] \in Holds /\ holds[target[c]] = "ACTIVE"
             /\ \A s \in Stock : seats[s].hold = target[c] => seats'[s] = seats[s]
  <2>1. PICK h \in Holds : h = target[c] /\ holds[h] # "NONE"
    BY <1>o, <1>q DEF ConfirmInv, IInv, HoldInv, TypeOK
  <2> QED BY <1>q, <2>1, HoldsStep
<1>1. CASE pc'[c] = pc[c] /\ target'[c] = target[c] /\ view'[c] = view[c]
  <2>1. ASSUME pc'[c] = "update", holds'[target'[c]] = "ACTIVE",
               NEW s \in Stock, view'[c][s] > 0
        PROVE  seats'[s].hold = target'[c] /\ seats'[s].version = view'[c][s]
    BY <1>q, <1>1, <2>1 DEF LostInv
  <2>2. ASSUME pc'[c] \in {"rollback", "lost"}, holds'[target'[c]] = "ACTIVE" PROVE FALSE
    BY <1>q, <1>1, <2>2 DEF LostInv
  <2> QED BY <2>1, <2>2 DEF LostInv
<1>2. CASE StartConfirm(c, target'[c]) \/ FailConfirm(c)
  BY <1>o, <1>2, GotoKeeps DEF StartConfirm, FailConfirm, LostInv
<1>3. CASE ReadHold(c)
  BY <1>o, <1>3, GotoKeeps DEF ReadHold, LostInv
<1>4. CASE ReadSeats(c)
  <2>1. /\ view'[c] = VersionsOf(target[c]) /\ UNCHANGED <<seats, holds, target>>
        /\ pc[c] = "read"
        /\ pc'[c] = IF SeatsOf(target[c]) = {} THEN "rollback" ELSE "update"
    BY <1>o, <1>4, GotoKeeps DEF ReadSeats, TypeOK
  <2>2. holds[target[c]] = "ACTIVE" => SeatsOf(target[c]) # {}
    <3>1. PICK h \in Holds : h = target[c]
      BY <1>o, <2>1 DEF ConfirmInv, TypeOK
    <3>2. Want(h) # {} /\ (holds[h] = "ACTIVE" => SeatsOf(h) = Want(h))
      BY RequestAssumption DEF IInv, HoldOwnsItsSeats, Want
    <3> QED BY <3>1, <3>2
  <2>3. \A s \in Stock : view'[c][s] > 0 =>
          seats[s].hold = target[c] /\ seats[s].version = view'[c][s]
    BY <1>o, <2>1 DEF VersionsOf, TypeOK, SeatRow
  <2> QED BY <2>1, <2>2, <2>3 DEF LostInv
<1>5. ASSUME NEW s \in Stock, ConfirmSeat(c, s) PROVE LostInv(c)'
  <2>1. /\ UNCHANGED <<seats, holds, target, view>> /\ pc[c] = "update"
        /\ s \in Pending(c)
    BY <1>5 DEF ConfirmSeat, IsFirst
  <2>2. CASE StillHeld(s, target[c], view[c][s])
    <3>1. pc'[c] \in {"flush", "update"}
      BY <1>o, <1>5, <2>2, GotoKeeps DEF ConfirmSeat
    <3> QED BY <2>1, <3>1 DEF LostInv
  <2>3. CASE ~StillHeld(s, target[c], view[c][s])
    <3>1. pc'[c] = "rollback"
      BY <1>o, <1>5, <2>3, GotoKeeps DEF ConfirmSeat
    <3>2. holds[target[c]] = "ACTIVE" =>
            seats[s].hold = target[c] /\ seats[s].version = view[c][s]
      BY <2>1 DEF LostInv, Pending
    <3>3. holds[target[c]] = "ACTIVE" /\ seats[s].hold = target[c] => seats[s].status = "HELD"
      BY <1>o, <2>1 DEF ConfirmInv, IInv, HoldOwnsItsSeats, SeatsOf, TypeOK
    <3> QED BY <2>1, <2>3, <3>1, <3>2, <3>3 DEF LostInv, StillHeld
  <2> QED BY <2>2, <2>3
<1>6. CASE CommitConfirm(c)
  BY <1>o, <1>6, GotoKeeps DEF CommitConfirm, LostInv
<1>7. CASE RollbackConfirm(c)
  BY <1>o, <1>7, GotoKeeps DEF RollbackConfirm, LostInv
<1>8. CASE BuyerStep(c)
  <2>1. ASSUME NEW h \in Holds, StartConfirm(c, h) PROVE h = target'[c]
    BY <1>o, <2>1 DEF StartConfirm, TypeOK
  <2> QED BY <1>2, <1>3, <1>4, <1>5, <1>6, <1>7, <1>8, <2>1 DEF BuyerStep, Confirm
<1>9. CASE ~BuyerStep(c)
  <2>1. Waits(c)
    BY <1>o, <1>9, WhoSteps DEF Procs
  <2> QED BY <1>1, <2>1 DEF Waits
<1> QED BY <1>8, <1>9

-----------------------------------------------------------------------------
(* Rows are locked in the order of their ids                                *)

LEMMA ReserveOrderNext ==
  ASSUME IInv, [Next]_vars, NEW h \in Holds, ReserveOrder(h)
  PROVE  ReserveOrder(h)'
<1> USE ProcessAssumption DEF rows, clock, locks, call, reading, pass
<1>o. TypeOK /\ h \in Procs
  BY DEF IInv, Procs
<1>1. CASE \A s \in Stock : rowLock'[s] = h <=> rowLock[s] = h
  BY <1>1 DEF ReserveOrder, Want
<1>2. CASE Unlock(h)
  BY <1>2 DEF Unlock, ReserveOrder
<1>3. ASSUME NEW s \in Stock, LockRow(h, s) PROVE ReserveOrder(h)'
  <2>1. /\ rowLock'[s] = h /\ \A r \in Stock \ {s} : rowLock'[r] = rowLock[r]
        /\ IsFirst(s, (Want(h) \intersect Stock) \ Locked(h))
    BY <1>o, <1>3 DEF LockRow, TypeOK
  <2>2. s \in Want(h) /\ \A r \in Want(h) \intersect Stock : r < s => rowLock[r] = h
    BY <2>1, ResourceAssumption DEF IsFirst, Locked
  <2> QED BY <2>1, <2>2 DEF ReserveOrder, Want
<1>4. CASE CallStep(h)
  BY <1>1, <1>2, <1>3, <1>4
     DEF CallStep, Reserve, FailGate, Crash, FailReserve, LookupHold, CheckSeats, InsertHold,
         CommitHold, ReturnHold, CloseCall, AcquireSeat, ReleaseLock
<1>5. CASE ~CallStep(h)
  BY <1>o, <1>1, <1>5, WhoSteps DEF Waits, Procs
<1> QED BY <1>4, <1>5

LEMMA ConfirmOrderNext ==
  ASSUME IInv, [Next]_vars, NEW c \in Buyers, ConfirmOrder(c)
  PROVE  ConfirmOrder(c)'
<1> USE ProcessAssumption DEF rows, clock, locks, call, reading, pass
<1>o. TypeOK /\ c \in Procs /\ ConfirmInv(c)
  BY DEF IInv, Procs
<1>n. ASSUME pc[c] # "idle", target'[c] = target[c], NEW r \in Stock,
             seats'[r].hold = target[c]
      PROVE  seats[r].hold = target[c] \/ Unlock(c)
  <2>1. PICK h \in Holds : h = target[c] /\ holds[h] # "NONE"
    BY <1>o, <1>n DEF ConfirmInv, IInv, HoldInv, TypeOK
  <2>2. ASSUME NEW g \in Holds, CommitHold(g) PROVE seats[r].hold = h
    BY <1>n, <2>1, <2>2, HoldCommit
  <2>3. ASSUME NEW d \in Buyers, CommitConfirm(d) PROVE seats[r].hold = h
    BY <1>n, <2>1, <2>3, SaleCommit DEF SeatsOf
  <2>4. ASSUME NEW w \in Workers, CommitPass(w) PROVE seats[r].hold = h
    BY <1>n, <2>1, <2>4, PassCommit
  <2> QED BY <1>n, <2>1, <2>2, <2>3, <2>4, RowWriters
<1>1. CASE /\ \A s \in Stock : rowLock'[s] = c <=> rowLock[s] = c
           /\ target'[c] = target[c]
  <2>1. ASSUME NEW s \in Stock, rowLock[s] = c, NEW r \in Stock, r < s,
               seats'[r].hold = target[c]
        PROVE  rowLock'[r] = c
    <3>1. pc[c] # "idle"
      BY <1>o, <2>1 DEF ConfirmInv
    <3> QED BY <1>1, <1>n, <2>1, <3>1 DEF ConfirmOrder, Unlock
  <2> QED BY <1>1, <2>1 DEF ConfirmOrder
<1>2. CASE Unlock(c)
  BY <1>2 DEF Unlock, ConfirmOrder
<1>3. ASSUME NEW h \in Holds, StartConfirm(c, h) PROVE ConfirmOrder(c)'
  BY <1>o, <1>3 DEF StartConfirm, ConfirmInv, ConfirmOrder
<1>4. ASSUME NEW s \in Stock, ConfirmSeat(c, s), rowLock' = [rowLock EXCEPT ![s] = c]
      PROVE  ConfirmOrder(c)'
  <2>1. /\ rowLock'[s] = c /\ \A r \in Stock \ {s} : rowLock'[r] = rowLock[r]
        /\ IsFirst(s, Pending(c)) /\ UNCHANGED <<seats, target>> /\ pc[c] = "update"
    BY <1>o, <1>4 DEF ConfirmSeat, TypeOK
  <2>2. ASSUME NEW r \in Stock, r < s, seats[r].hold = target[c] PROVE rowLock[r] = c
    <3>1. r \notin Pending(c)
      <4>1. r \in Nat /\ s \in Nat /\ ~(s <= r)
        BY <2>2, ResourceAssumption
      <4> QED BY <2>1, <4>1 DEF IsFirst
    <3>2. view[c][r] > 0
      BY <1>o, <2>1, <2>2 DEF ConfirmInv
    <3> QED BY <3>1, <3>2 DEF Pending
  <2> QED BY <2>1, <2>2 DEF ConfirmOrder
<1>5. CASE BuyerStep(c)
  BY <1>1, <1>2, <1>3, <1>4, <1>5
     DEF BuyerStep, Confirm, FailConfirm, ReadHold, ReadSeats, CommitConfirm,
         RollbackConfirm, ConfirmSeat
<1>6. CASE ~BuyerStep(c)
  BY <1>o, <1>1, <1>6, WhoSteps DEF Waits, Procs
<1> QED BY <1>5, <1>6

-----------------------------------------------------------------------------
(* The worker examines each hold once                                       *)

LEMMA LookNext ==
  ASSUME IInv, [Next]_vars, NEW w \in Workers, LookInv(w)
  PROVE  LookInv(w)'
<1> USE ProcessAssumption DEF rows, clock, locks, call, reading, pass
<1>o. TypeOK /\ PassInv(w) /\ w \in Procs
  BY DEF IInv, Procs
<1>1. CASE Waits(w)
  BY <1>1 DEF Waits, LookInv
<1>2. CASE SelectExpired(w)
  <2>1. freed'[w] = {} /\ pc'[w] = "examine"
    BY <1>o, <1>2, GotoKeeps DEF SelectExpired, PassInv
  <2> QED BY <2>1 DEF LookInv
<1>3. ASSUME NEW h \in Holds, Examine(w, h) PROVE LookInv(w)'
  <2>1. /\ h \in batch[w] /\ batch'[w] = batch[w] \ {h} /\ target'[w] = h
        /\ freed'[w] = freed[w]
    BY <1>o, <1>3 DEF Examine, IsFirst, TypeOK
  <2> QED BY <2>1 DEF LookInv
<1>4. CASE ScanSeats(w) \/ \E s \in Stock : FreeSeat(w, s)
  <2>1. pc[w] \in {"scan", "free"} /\ UNCHANGED <<batch, freed, target>>
    BY <1>4 DEF ScanSeats, FreeSeat
  <2> QED BY <2>1 DEF LookInv
<1>5. CASE MarkExpired(w)
  <2>1. /\ pc[w] = "free" /\ pc'[w] \in {"examine", "ungate"}
        /\ batch'[w] = batch[w] /\ freed'[w] = freed[w] \union {target[w]}
    BY <1>o, <1>5, GotoKeeps DEF MarkExpired, TypeOK
  <2> QED BY <2>1 DEF LookInv
<1>6. ASSUME NEW s \in SeatIds, ReleaseExpiredLock(w, s) PROVE LookInv(w)'
  <2>1. pc'[w] \in {"examine", "ungate"} /\ UNCHANGED <<batch, freed>>
    BY <1>o, <1>6, GotoKeeps DEF ReleaseExpiredLock
  <2> QED BY <2>1 DEF LookInv
<1>7. CASE EndPass(w)
  <2>1. batch'[w] = {} /\ freed'[w] = {}
    BY <1>o, <1>7 DEF EndPass, TypeOK
  <2> QED BY <2>1 DEF LookInv
<1>8. CASE WorkerStep(w)
  BY <1>2, <1>3, <1>4, <1>5, <1>6, <1>7, <1>8 DEF WorkerStep, ExpirePass, CommitPass, FailPass
<1> QED BY <1>o, <1>1, <1>8, WhoSteps DEF Procs

LEMMA LapsedNext == IInv /\ LapsedInv /\ [Next]_vars => LapsedInv'
<1> SUFFICES ASSUME IInv, LapsedInv, [Next]_vars, NEW h \in Holds, holdLock'[h] # None
             PROVE  expiry'[h] # "running"
  BY DEF LapsedInv
<1> USE ProcessAssumption DEF rows, clock, locks, call, reading, pass
<1>1. expiry[h] # "running" => expiry'[h] # "running"
  <2>1. ASSUME NEW g \in Holds, Lapse(g) PROVE expiry'[h] = expiry[h] \/ expiry'[h] # "running"
    BY <2>1 DEF Lapse, IInv, TypeOK
  <2>2. (\E g \in Holds : Lapse(g)) \/ UNCHANGED expiry
    <3>1. ASSUME NEW g \in Holds, CallStep(g) PROVE UNCHANGED expiry
      BY <3>1 DEF CallStep, Reserve, FailGate, Crash, FailReserve, LookupHold, CheckSeats, InsertHold,
         CommitHold, ReturnHold, CloseCall, AcquireSeat, ReleaseLock, LockRow
    <3>2. ASSUME NEW c \in Buyers, BuyerStep(c) PROVE UNCHANGED expiry
      BY <3>2 DEF BuyerStep, Confirm, FailConfirm, StartConfirm, ReadHold, ReadSeats,
         CommitConfirm, RollbackConfirm, ConfirmSeat
    <3>3. ASSUME NEW w \in Workers, WorkerStep(w) PROVE UNCHANGED expiry
      BY <3>3 DEF WorkerStep, ExpirePass, FailPass, EndPass, SelectExpired, ScanSeats,
         MarkExpired, CommitPass, Examine, FreeSeat, ReleaseExpiredLock
    <3>4. CASE Environment \/ UNCHANGED vars
      BY <3>4 DEF Environment, Capture, GateTtl, vars
    <3> QED BY <3>1, <3>2, <3>3, <3>4, WhoSteps DEF IInv
  <2> QED BY <2>1, <2>2
<1>2. CASE holdLock[h] # None
  BY <1>1, <1>2 DEF LapsedInv
<1>3. CASE holdLock[h] = None
  <2>1. ASSUME NEW w \in Workers, SelectExpired(w) PROVE expiry[h] # "running"
    BY <1>3, <2>1 DEF SelectExpired, Due
  <2>2. ASSUME NEW g \in Holds, CallStep(g) PROVE UNCHANGED holdLock
    BY <2>2 DEF CallStep, Reserve, FailGate, Crash, FailReserve, LookupHold, CheckSeats, InsertHold,
       CommitHold, ReturnHold, CloseCall, AcquireSeat, ReleaseLock, LockRow
  <2>3. ASSUME NEW c \in Buyers, BuyerStep(c) PROVE UNCHANGED holdLock
    BY <2>3 DEF BuyerStep, Confirm, FailConfirm, StartConfirm, ReadHold, ReadSeats,
       CommitConfirm, RollbackConfirm, ConfirmSeat
  <2>4. ASSUME NEW w \in Workers, WorkerStep(w), ~SelectExpired(w) PROVE FALSE
    BY <1>3, <2>4 DEF WorkerStep, ExpirePass, FailPass, EndPass, ScanSeats,
       MarkExpired, CommitPass, Examine, FreeSeat, ReleaseExpiredLock
  <2>5. CASE Environment \/ UNCHANGED vars
    BY <1>3, <2>5 DEF Environment, Capture, Lapse, GateTtl, vars
  <2> QED BY <1>1, <1>3, <2>1, <2>2, <2>3, <2>4, <2>5, WhoSteps DEF IInv
<1> QED BY <1>2, <1>3

-----------------------------------------------------------------------------
(* Gate locks                                                               *)

(* A row changes only by the commit of the transaction that has it locked. *)
LEMMA LockedRows ==
  ASSUME IInv, [Next]_vars, NEW s \in Stock, seats'[s] # seats[s]
  PROVE  rowLock'[s] = None
<1>1. ASSUME NEW h \in Holds, CommitHold(h) PROVE rowLock'[s] = None
  <2>1. s \in Want(h) /\ rowLock[s] = h
    BY <1>1 DEF CommitHold, IInv, ReserveInv
  <2> QED BY <1>1, <2>1 DEF CommitHold, Unlock
<1>2. ASSUME NEW c \in Buyers, CommitConfirm(c) PROVE rowLock'[s] = None
  BY <1>2 DEF CommitConfirm, Unlock
<1>3. ASSUME NEW w \in Workers, CommitPass(w) PROVE rowLock'[s] = None
  BY <1>3 DEF CommitPass, EndPass, Unlock
<1> QED BY <1>1, <1>2, <1>3, RowWriters DEF rows

(* A gate lock is taken by the call whose token it gets, seat by seat, the  *)
(* last one perhaps as Redis fails.                                         *)
TakesLock(h, s) ==
  \/ AcquireSeat(h, s)
  \/ FailGate(h) /\ pc[h] = "gate" /\ s \in Want(h)

LEMMA GateTaken ==
  ASSUME IInv, [Next]_vars, NEW s \in SeatIds, NEW h \in Holds, gate'[s] = h, gate[s] # h
  PROVE  TakesLock(h, s)
<1> USE ProcessAssumption DEF rows, clock, locks, call, reading, pass
<1>t. gate \in [SeatIds -> Holds \union {None}]
  BY DEF IInv, TypeOK
<1>1. ASSUME NEW g \in Holds, CallStep(g) PROVE TakesLock(h, s)
  <2>1. ASSUME NEW r \in SeatIds, AcquireSeat(g, r) PROVE r = s /\ g = h
    BY <1>t, <2>1 DEF AcquireSeat
  <2>2. ASSUME NEW r \in SeatIds, ReleaseLock(g, r) PROVE FALSE
    BY <1>t, <2>2 DEF ReleaseLock, DropLock
  <2>3. ASSUME FailGate(g) PROVE g = h /\ pc[h] = "gate" /\ s \in Want(h)
    BY <1>t, <2>3 DEF FailGate, IsFirst
  <2>4. gate' = gate => FALSE
    OBVIOUS
  <2>5. \/ FailGate(g) \/ \E r \in SeatIds : AcquireSeat(g, r) \/ ReleaseLock(g, r)
    BY <1>1, <2>4 DEF CallStep, Reserve, Crash, FailReserve, LookupHold, CheckSeats,
       InsertHold, CommitHold, ReturnHold, CloseCall, LockRow
  <2> QED BY <2>1, <2>2, <2>3, <2>5 DEF TakesLock
<1>2. ASSUME NEW c \in Buyers, BuyerStep(c) PROVE FALSE
  BY <1>2 DEF BuyerStep, Confirm, FailConfirm, StartConfirm, ReadHold, ReadSeats,
     CommitConfirm, RollbackConfirm, ConfirmSeat
<1>3. ASSUME NEW w \in Workers, WorkerStep(w) PROVE FALSE
  BY <1>t, <1>3 DEF WorkerStep, ExpirePass, FailPass, EndPass, SelectExpired, ScanSeats,
     MarkExpired, CommitPass, Examine, FreeSeat, ReleaseExpiredLock, DropLock
<1>4. CASE Environment \/ UNCHANGED vars
  BY <1>t, <1>4 DEF Environment, Capture, Lapse, GateTtl, vars
<1> QED BY <1>1, <1>2, <1>3, <1>4, WhoSteps DEF IInv

LEMMA CallGateNext ==
  ASSUME IInv, KeyInv, [Next]_vars, \A w \in Workers : PassGate(w),
         NEW h \in Holds, CallGate(h)
  PROVE  CallGate(h)'
<1> USE ProcessAssumption DEF rows, clock, locks, call, reading, pass
<1>o. TypeOK /\ ReserveInv(h) /\ h \in Procs
  BY DEF IInv, Procs
<1> SUFFICES ASSUME NEW s \in SeatIds, gate'[s] = h
             PROVE  /\ s \in Want(h)
                    /\ pc'[h] # "idle" /\ holds'[h] # "EXPIRED"
                    /\ pc'[h] \in {"gate", "rows", "insert", "commit", "refresh", "ungate"}
                         => s \in got'[h]
                    /\ pc'[h] = "done" => holds'[h] # "NONE"
  BY DEF CallGate, Want
<1>1. CASE AcquireSeat(h, s)
  <2>1. /\ pc[h] = "gate" /\ s \in Want(h) /\ pc'[h] \in {"gate", "rows", "ungate"}
        /\ UNCHANGED holds /\ (gate[s] # h => s \in got'[h])
        /\ got[h] \subseteq got'[h]
    BY <1>o, <1>1, GotoKeeps DEF AcquireSeat, IsFirst, TypeOK
  <2> QED BY <1>o, <2>1 DEF ReserveInv, CallGate
<1>2. CASE FailGate(h) /\ pc[h] = "gate" /\ s \in Want(h)
  <2>1. pc'[h] = "raised" /\ UNCHANGED holds /\ holds[h] = "NONE"
    BY <1>o, <1>2, GotoKeeps DEF FailGate, ReserveInv
  <2> QED BY <1>2, <2>1
<1>3. CASE ~TakesLock(h, s)
  <2>1. /\ gate[s] = h /\ s \in Want(h) /\ pc[h] # "idle" /\ holds[h] # "EXPIRED"
        /\ pc[h] \in {"gate", "rows", "insert", "commit", "refresh", "ungate"} => s \in got[h]
        /\ pc[h] = "done" => holds[h] # "NONE"
    BY <1>3, GateTaken DEF CallGate
  <2>2. holds'[h] # "EXPIRED"
    BY <2>1, HoldsStep DEF PassGate, CommitPass
  <2>3. holds[h] # "NONE" => holds'[h] # "NONE"
    BY HoldsStep
  <2>4. CASE Waits(h)
    BY <2>1, <2>2, <2>3, <2>4 DEF Waits
  <2>5. CASE CallStep(h)
    <3>1. CASE LookupHold(h)
      BY <2>1, <3>1 DEF LookupHold
    <3>2. CASE CloseCall(h)
      BY <2>1, <3>2 DEF CloseCall
    <3>3. CASE ReturnHold(h)
      <4>1. pc'[h] = "done" /\ holds[h] # "NONE"
        BY <1>o, <3>3, GotoKeeps DEF ReturnHold, KeyInv
      <4> QED BY <2>1, <2>2, <2>3, <4>1
    <3>4. ASSUME NEW r \in SeatIds, ReleaseLock(h, r)
          PROVE  pc'[h] = "ungate" /\ s \in got'[h]
      BY <1>o, <2>1, <3>4 DEF ReleaseLock, DropLock, TypeOK
    <3>5. ASSUME CheckSeats(h) \/ InsertHold(h) \/ CommitHold(h) \/ FailReserve(h)
                   \/ \E r \in Stock : LockRow(h, r)
          PROVE  /\ s \in got'[h]
                 /\ pc'[h] \in {"gate", "rows", "insert", "commit", "refresh", "ungate"}
      BY <1>o, <2>1, <3>5, GotoKeeps
         DEF CheckSeats, InsertHold, CommitHold, FailReserve, LockRow
    <3>6. CASE FailGate(h) \/ Crash(h)
      <4>1. pc'[h] \in {"raised", "crashed"}
        BY <1>o, <3>6, GotoKeeps DEF FailGate, Crash
      <4> QED BY <2>1, <2>2, <4>1
    <3>7. ASSUME NEW r \in SeatIds, AcquireSeat(h, r)
          PROVE  pc'[h] \in {"gate", "rows", "ungate"} /\ s \in got'[h]
      BY <1>o, <2>1, <3>7, GotoKeeps DEF AcquireSeat, TypeOK
    <3> QED BY <2>1, <2>2, <2>5, <3>1, <3>2, <3>3, <3>4, <3>5, <3>6, <3>7
         DEF CallStep, Reserve
  <2> QED BY <1>o, <2>4, <2>5, WhoSteps DEF Procs
<1> QED BY <1>1, <1>2, <1>3 DEF TakesLock

LEMMA PassGateNext ==
  ASSUME IInv, [Next]_vars, \A h \in Holds : CallGate(h),
         NEW w \in Workers, LookInv(w), PassGate(w)
  PROVE  PassGate(w)'
<1> USE ProcessAssumption DEF rows, clock, locks, call, reading, pass
<1>o. TypeOK /\ PassInv(w) /\ w \in Procs /\ freed[w] \subseteq Holds
  BY DEF IInv, Procs, TypeOK
<1>a. \A h \in Holds : holdLock[h] = w => holds[h] = "ACTIVE"
  BY DEF IInv, HoldInv
<1>g. \A h \in Holds, s \in SeatIds : gate'[s] = h /\ holdLock[h] = w => gate[s] = h
  <2>1. ASSUME NEW h \in Holds, NEW s \in SeatIds, TakesLock(h, s) PROVE holds[h] = "NONE"
    BY <2>1 DEF TakesLock, AcquireSeat, IInv, ReserveInv
  <2> QED BY <1>a, <2>1, GateTaken
<1>1. CASE Waits(w)
  <2>1. \A s \in Stock : rowLock[s] = w => seats'[s] = seats[s]
    BY <1>1, LockedRows DEF Waits
  <2>2. \A h \in freed[w], s \in SeatIds : gate'[s] = h => gate[s] = h
    BY <1>o, <1>g DEF PassInv
  <2> QED BY <1>1, <2>1, <2>2 DEF Waits, PassGate
<1>2. CASE SelectExpired(w)
  <2>1. freed'[w] = {} /\ pc'[w] = "examine"
    BY <1>o, <1>2, GotoKeeps DEF SelectExpired, PassInv
  <2> QED BY <2>1 DEF PassGate
<1>3. ASSUME NEW h \in Holds, Examine(w, h) PROVE PassGate(w)'
  <2>1. /\ pc[w] = "examine" /\ pc'[w] \in {"examine", "scan"}
        /\ UNCHANGED <<freed, gate>>
    BY <1>o, <1>3, GotoKeeps DEF Examine
  <2> QED BY <2>1 DEF PassGate
<1>4. CASE ScanSeats(w)
  <2>1. pc[w] = "scan" /\ UNCHANGED <<freed, gate, rowLock, seats, target>>
    BY <1>4 DEF ScanSeats
  <2>2. \A s \in Stock : rowLock[s] = w => seats[s].hold # target[w]
    BY <1>o, <2>1 DEF PassInv, LookInv
  <2> QED BY <2>1, <2>2 DEF PassGate
<1>5. ASSUME NEW s \in Stock, FreeSeat(w, s) PROVE PassGate(w)'
  <2>1. pc[w] = "free" /\ UNCHANGED <<freed, gate, seats, target, pc>>
    BY <1>5 DEF FreeSeat
  <2>2. \/ UNCHANGED <<rowLock, got>>
        \/ /\ got'[w] = got[w] \union {s}
           /\ \A r \in Stock \ {s} : rowLock'[r] = rowLock[r]
    BY <1>o, <1>5 DEF FreeSeat, TypeOK
  <2> QED BY <2>1, <2>2 DEF PassGate
<1>6. CASE MarkExpired(w)
  <2>1. /\ pc[w] = "free" /\ Pending(w) = {} /\ UNCHANGED <<gate, seats, target, got>>
        /\ freed'[w] = freed[w] \union {target[w]}
        /\ pc'[w] = IF got[w] = {} THEN "examine" ELSE "ungate"
    BY <1>o, <1>6, GotoKeeps DEF MarkExpired, TypeOK
  <2>2. ASSUME NEW s \in SeatIds, gate[s] = target[w] PROVE s \in got[w]
    <3>1. PICK h \in Holds : h = target[w] /\ holdLock[h] = w
      BY <1>o, <2>1 DEF PassInv
    <3>2. s \in Want(h) /\ SeatsOf(h) = Want(h)
      BY <1>a, <2>2, <3>1 DEF CallGate, IInv, HoldOwnsItsSeats
    <3>3. s \in Stock /\ seats[s].hold = h
      BY <3>2 DEF SeatsOf
    <3>4. rowLock[s] = w
      BY <1>o, <2>1, <3>1, <3>3 DEF PassInv, Pending, TypeOK, SeatRow
    <3> QED BY <2>1, <3>1, <3>3, <3>4 DEF PassGate
  <2>3. \A h \in freed[w], s \in SeatIds : gate[s] # h
    BY <2>1 DEF PassGate
  <2> QED BY <2>1, <2>2, <2>3 DEF PassGate
<1>7. ASSUME NEW s \in SeatIds, ReleaseExpiredLock(w, s) PROVE PassGate(w)'
  <2>1. /\ pc[w] = "ungate" /\ UNCHANGED <<freed, target>>
        /\ got'[w] = got[w] \ {s} /\ pc'[w] = IF got[w] = {s} THEN "examine" ELSE "ungate"
        /\ gate' = IF gate[s] = target[w] THEN [gate EXCEPT ![s] = None] ELSE gate
    BY <1>o, <1>7, GotoKeeps DEF ReleaseExpiredLock, DropLock, TypeOK
  <2>2. ASSUME NEW h \in freed[w], NEW r \in SeatIds, gate'[r] = h
        PROVE  pc'[w] = "ungate" /\ h = target[w] /\ r \in got'[w]
    <3>1. gate[r] = h /\ r \in got[w] /\ h = target[w]
      BY <1>o, <1>g, <2>2 DEF PassInv, PassGate
    <3>2. r # s
      BY <1>o, <2>1, <2>2, <3>1 DEF TypeOK
    <3> QED BY <2>1, <3>1, <3>2
  <2>3. pc'[w] # "free"
    BY <2>1
  <2> QED BY <2>1, <2>2, <2>3 DEF PassGate
<1>8. CASE EndPass(w)
  <2>1. freed'[w] = {} /\ pc'[w] = "idle"
    BY <1>o, <1>8, GotoKeeps DEF EndPass, TypeOK
  <2> QED BY <2>1 DEF PassGate
<1>9. CASE WorkerStep(w)
  BY <1>2, <1>3, <1>4, <1>5, <1>6, <1>7, <1>8, <1>9
     DEF WorkerStep, ExpirePass, CommitPass, FailPass
<1> QED BY <1>o, <1>1, <1>9, WhoSteps DEF Procs

-----------------------------------------------------------------------------
(* Theorems                                                                 *)

LEMMA InitPromise == Init => PInv
<1> SUFFICES ASSUME Init PROVE PInv
  OBVIOUS
<1> USE ProcessAssumption DEF Procs
<1>1. KeyInv /\ LapsedInv
  BY DEF Init, KeyInv, LapsedInv
<1>2. \A c \in Buyers : LostInv(c) /\ ConfirmOrder(c)
  BY DEF Init, LostInv, ConfirmOrder
<1>3. \A h \in Holds : ReserveOrder(h) /\ CallGate(h)
  BY DEF Init, ReserveOrder, CallGate
<1>4. \A w \in Workers : LookInv(w) /\ PassGate(w)
  BY DEF Init, LookInv, PassGate
<1> QED BY <1>1, <1>2, <1>3, <1>4 DEF PInv

LEMMA NextPromise == IInv /\ PInv /\ [Next]_vars => PInv'
<1> SUFFICES ASSUME IInv, PInv, [Next]_vars PROVE PInv'
  OBVIOUS
<1>1. IInv' /\ KeyInv' /\ LapsedInv'
  BY NextInv, KeyNext, LapsedNext DEF PInv
<1>2. ASSUME NEW c \in Buyers PROVE LostInv(c)' /\ ConfirmOrder(c)'
  BY <1>1, LostNext, ConfirmOrderNext DEF PInv
<1>3. ASSUME NEW h \in Holds PROVE ReserveOrder(h)' /\ CallGate(h)'
  BY ReserveOrderNext, CallGateNext DEF PInv
<1>4. ASSUME NEW w \in Workers PROVE LookInv(w)' /\ PassGate(w)'
  BY LookNext, PassGateNext DEF PInv
<1> QED BY <1>1, <1>2, <1>3, <1>4 DEF PInv

(* What the calls and the worker know of each other's work stays true in    *)
(* every behaviour.                                                         *)
THEOREM PromiseInvariance == Spec => [](IInv /\ PInv)
<1>1. Init => IInv /\ PInv
  BY InitInv, InitPromise
<1>2. IInv /\ PInv /\ [Next]_vars => IInv' /\ PInv'
  BY NextInv, NextPromise
<1> QED BY <1>1, <1>2, PTL DEF Spec

(* A key makes one hold: the unique index stops a second call that passed   *)
(* the replay check before the first one committed.                         *)
THEOREM KeyMakesOneHold == Spec => []OneHoldPerKey
<1>1. PInv => OneHoldPerKey
  BY DEF PInv, KeyInv, OneHoldPerKey, StatusCode
<1> QED BY <1>1, PromiseInvariance, PTL

(* No buyer is refunded for a hold that is still ACTIVE. *)
THEOREM NoFalseConflict == Spec => []LostMeansGone
<1>1. PInv => LostMeansGone
  BY DEF PInv, LostInv, LostMeansGone
<1> QED BY <1>1, PromiseInvariance, PTL

(* Gate locks are returned by every call that is refused or that the        *)
(* database fails, and by every pass that expires a hold, whatever TTLs     *)
(* have run out meanwhile.  A call without a hold that has left one was     *)
(* ended by an error of Redis or by the death of its process.               *)
THEOREM GateIsReturned == Spec => []LocksReturned
<1>1. PInv => LocksReturned
  BY DEF PInv, CallGate, LocksReturned
<1> QED BY <1>1, PromiseInvariance, PTL

LEMMA LessIsRelated ==
  ASSUME NEW m \in Nat, NEW n \in Nat, m < n
  PROVE  <<m, n>> \in OpToRel(<, Nat)
BY Zenon DEF OpToRel

(* Calls that lock rows in the order of their ids cannot wait for each      *)
(* other in a cycle, however many seats and calls there are: of the rows    *)
(* that the calls of a cycle wait for, the first has an owner that nobody   *)
(* in it waits for.                                                         *)
LEMMA OrderedCallsGoOn ==
  ASSUME IInv, \A h \in Holds : ReserveOrder(h), NEW D \in SUBSET Holds, D # {},
         Deadlocked(D)
  PROVE  FALSE
<1> USE ProcessAssumption
<1> DEFINE Next1(h, s) == IsFirst(s, (Want(h) \intersect Stock) \ Locked(h))
<1>1. ASSUME NEW p \in D
      PROVE  /\ pc[p] = "rows" \/ pc[p] = "insert"
             /\ pc[p] = "insert" => \E q \in D : pc[q] = "commit"
             /\ pc[p] = "rows" => \E s \in Stock : Next1(p, s)
  <2>1. p \in Holds /\ pc[p] \notin {"update", "free", "flush"}
    BY DEF IInv, TypeOK, PcReserve
  <2>2. PICK q \in D : q \in BlockedBy(p)
    BY DEF Deadlocked
  <2> QED BY <2>1, <2>2 DEF BlockedBy, NextRow, Inserting
<1>2. \A p \in D : pc[p] = "rows"
  BY <1>1
<1>3. ASSUME NEW p \in D
      PROVE  \E q \in D, s \in Stock : Next1(q, s) /\ rowLock[s] = p
  <2>1. PICK q \in D : p \in BlockedBy(q)
    BY DEF Deadlocked
  <2> QED BY <1>2, <2>1 DEF BlockedBy, NextRow
<1> DEFINE T == {s \in Stock : \E p \in D : Next1(p, s)}
<1>4. T \subseteq Nat /\ T # {}
  BY <1>1, <1>2, ResourceAssumption
<1> HIDE DEF T
<1>5. PICK s \in T : \A r \in T : ~ (<<r, s>> \in OpToRel(<, Nat))
  BY <1>4, NatLessThanWellFounded, WFMin
<1>6. \A r \in T : ~ (r < s)
  BY <1>4, <1>5, LessIsRelated, Zenon
<1>7. PICK p \in D : s \in Stock /\ Next1(p, s)
  BY DEF T
<1>8. PICK q \in D, r \in Stock : Next1(q, r) /\ rowLock[r] = p
  BY <1>3
<1>9. r \in T /\ ~ (r < s) /\ r \in Nat /\ s \in Nat
  BY <1>4, <1>6, <1>8 DEF T
<1>10. s \in Want(p) /\ rowLock[s] # p
  BY <1>7 DEF IsFirst, Locked
<1>11. rowLock[s] = p
  BY <1>7, <1>8, <1>9, <1>10 DEF ReserveOrder
<1> QED BY <1>10, <1>11

(* locking.py: two multi-seat holds cannot deadlock. *)
THEOREM CallsDoNotDeadlock == Spec => []NoReserveDeadlock
<1>1. IInv /\ PInv => NoReserveDeadlock
  <2> SUFFICES ASSUME IInv, PInv, NEW D \in SUBSET Holds, D # {}, Deadlocked(D)
               PROVE  FALSE
    BY DEF NoReserveDeadlock
  <2> QED BY OrderedCallsGoOn DEF PInv
<1> QED BY <1>1, PromiseInvariance, PTL

(* Whatever drops a gate lock knows it to be its own, however late it       *)
(* comes: the token is compared by the script that deletes.                 *)
THEOREM GateIsDroppedByOwner == Spec => LocksDroppedByOwner
<1> DEFINE Own == \A s \in SeatIds, h \in Holds :
                    gate[s] = h /\ gate'[s] # h /\ got' # got =>
                      \/ got'[h] # got[h]
                      \/ \E w \in Workers : target[w] = h /\ got'[w] # got[w]
<1>1. ASSUME TypeOK, [Next]_vars PROVE [Own]_vars
  <2> USE ProcessAssumption DEF rows, clock, locks, call, reading, pass
  <2> SUFFICES ASSUME NEW s \in SeatIds, NEW h \in Holds,
                      gate[s] = h, gate'[s] # h, got' # got
               PROVE  \/ got'[h] # got[h]
                      \/ \E w \in Workers : target[w] = h /\ got'[w] # got[w]
    OBVIOUS
  <2>t. gate \in [SeatIds -> Holds \union {None}]
        /\ got \in [Holds \union Workers -> SUBSET SeatIds]
    BY <1>1 DEF TypeOK
  <2>1. ASSUME NEW g \in Holds, NEW r \in SeatIds, AcquireSeat(g, r) PROVE FALSE
    BY <2>t, <2>1 DEF AcquireSeat
  <2>2. ASSUME NEW g \in Holds, NEW r \in SeatIds, ReleaseLock(g, r) PROVE got'[h] # got[h]
    BY <2>t, <2>2 DEF ReleaseLock, DropLock
  <2>3. ASSUME NEW w \in Workers, NEW r \in SeatIds, ReleaseExpiredLock(w, r)
        PROVE  target[w] = h /\ got'[w] # got[w]
    BY <2>t, <2>3 DEF ReleaseExpiredLock, DropLock
  <2>4. ASSUME NEW g \in Holds, CallStep(g) PROVE got'[h] # got[h]
    BY <2>1, <2>2, <2>4
       DEF CallStep, Reserve, FailGate, Crash, FailReserve, LookupHold, CheckSeats, InsertHold,
           CommitHold, ReturnHold, CloseCall, LockRow
  <2>5. ASSUME NEW c \in Buyers, BuyerStep(c) PROVE FALSE
    BY <2>5 DEF BuyerStep, Confirm, FailConfirm, StartConfirm, ReadHold, ReadSeats,
       CommitConfirm, RollbackConfirm, ConfirmSeat
  <2>6. ASSUME NEW w \in Workers, WorkerStep(w)
        PROVE  target[w] = h /\ got'[w] # got[w]
    BY <2>3, <2>6 DEF WorkerStep, ExpirePass, FailPass, EndPass, SelectExpired, ScanSeats,
       MarkExpired, CommitPass, Examine, FreeSeat
  <2>7. CASE Environment \/ UNCHANGED vars
    BY <2>7 DEF Environment, Capture, Lapse, GateTtl, vars
  <2> QED BY <1>1, <2>4, <2>5, <2>6, <2>7, WhoSteps
<1> QED BY <1>1, TypeCorrect, PTL DEF Spec, LocksDroppedByOwner

-----------------------------------------------------------------------------
(* The ledger of the sale                                                   *)

LEMMA LedgerTake ==
  ASSUME IInv, KeyInv, NEW h \in Holds, CommitHold(h)
  PROVE  Ledger!Take(h)
<1>1. /\ holds[h] = "NONE" /\ holds' = [holds EXCEPT ![h] = "ACTIVE"]
      /\ Want(h) \subseteq Stock
      /\ \A s \in Want(h) : seats[s].hold = None /\ seats'[s].hold = h
                            /\ seats'[s].status = "HELD" /\ seats[s].status = "AVAILABLE"
      /\ \A s \in Stock \ Want(h) : seats'[s] = seats[s]
  BY HoldCommit
<1>2. \A g \in Holds : SameKey(g, h) => holds[g] = "NONE"
  BY DEF CommitHold, KeyInv, SameKey
<1>3. \A s \in Stock : seats'[s].hold = IF s \in Want(h) THEN h ELSE seats[s].hold
  BY <1>1
<1>4. \A s \in Stock : seats'[s].status = "SOLD" <=> seats[s].status = "SOLD"
  BY <1>1
<1> QED BY <1>1, <1>2, <1>3, <1>4 DEF Ledger!Take, SameKey

LEMMA LedgerSell ==
  ASSUME IInv, NEW c \in Buyers, CommitConfirm(c), NEW h, h = target[c]
  PROVE  h \in Holds /\ Ledger!Sell(h)
<1>1. /\ h \in Holds /\ holds[h] = "ACTIVE" /\ SeatsOf(h) = Want(h)
      /\ holds' = [holds EXCEPT ![h] = "CONFIRMED"]
      /\ \A s \in Stock : IF s \in Want(h)
           THEN seats'[s].status = "SOLD" /\ seats'[s].hold = h
           ELSE seats'[s] = seats[s]
  BY SaleCommit
<1>2. \A s \in Stock : seats'[s].hold = seats[s].hold
  BY <1>1 DEF SeatsOf
<1>3. \A s \in Stock : seats'[s].status = "SOLD" <=> s \in Want(h) \/ seats[s].status = "SOLD"
  BY <1>1
<1>4. Want(h) \subseteq Stock
  BY <1>1 DEF SeatsOf
<1> QED BY <1>1, <1>2, <1>3, <1>4 DEF Ledger!Sell

LEMMA LedgerGiveBack ==
  ASSUME IInv, NEW w \in Workers, CommitPass(w), NEW H, H = freed[w]
  PROVE  H \in SUBSET Holds /\ Ledger!GiveBack(H)
<1>1. /\ freed[w] \subseteq Holds
      /\ \A h \in freed[w] : holds[h] = "ACTIVE" /\ holdLock[h] = w
      /\ holds' = [h \in Holds |-> IF h \in freed[w] THEN "EXPIRED" ELSE holds[h]]
      /\ \A s \in Stock : IF seats[s].hold \in freed[w]
           THEN /\ seats'[s].status = "AVAILABLE" /\ seats'[s].hold = None
                /\ seats[s].status = "HELD"
           ELSE seats'[s] = seats[s]
  BY PassCommit
<1>2. \A s \in Stock : seats'[s].hold = IF seats[s].hold \in freed[w] THEN None
                                                                   ELSE seats[s].hold
  BY <1>1
<1>3. \A s \in Stock : seats'[s].status = "SOLD" <=> seats[s].status = "SOLD"
  BY <1>1
<1> QED BY <1>1, <1>2, <1>3 DEF Ledger!GiveBack

(* Taking, selling and giving back are the three commits; every other step  *)
(* leaves the rows as they are.                                             *)
THEOREM SeatsImplementLedger == Spec => ImplementsLedger
<1>1. Init => Ledger!Init
  BY DEF Init, Ledger!Init
<1>2. IInv /\ PInv /\ [Next]_vars => [Ledger!Next]_Ledger!vars
  <2> SUFFICES ASSUME IInv, KeyInv, [Next]_vars PROVE [Ledger!Next]_Ledger!vars
    BY DEF PInv
  <2>1. ASSUME NEW h \in Holds, CommitHold(h) PROVE Ledger!Next
    BY <2>1, LedgerTake DEF Ledger!Next
  <2>2. ASSUME NEW c \in Buyers, CommitConfirm(c) PROVE Ledger!Next
    BY <2>2, LedgerSell DEF Ledger!Next
  <2>3. ASSUME NEW w \in Workers, CommitPass(w) PROVE Ledger!Next
    <3>1. PICK H : H = freed[w]
      OBVIOUS
    <3>2. H \in SUBSET Holds /\ Ledger!GiveBack(H)
      BY <2>3, <3>1, LedgerGiveBack
    <3> QED BY <3>2 DEF Ledger!Next
  <2>4. CASE UNCHANGED rows
    BY <2>4 DEF rows, Ledger!vars
  <2> QED BY <2>1, <2>2, <2>3, <2>4, RowWriters
<1> QED BY <1>1, <1>2, Invariance, PromiseInvariance, PTL
        DEF Spec, ImplementsLedger, Ledger!Spec

-----------------------------------------------------------------------------
(* What the checkout is told of a hold                                      *)

(* A worker looks at holds that it has locked, so no two look at the same.  *)
LEMMA LooksAtLocked ==
  ASSUME IInv, NEW w \in Workers
  PROVE  /\ LooksAt(w) \subseteq Holds
         /\ \A h \in LooksAt(w) : holdLock[h] = w /\ holds[h] = "ACTIVE"
<1>1. freed[w] \subseteq Holds /\ PassInv(w)
  BY DEF IInv, TypeOK
<1>2. \A h \in LooksAt(w) : h \in Holds /\ holdLock[h] = w
  BY <1>1 DEF LooksAt, PassInv
<1> QED BY <1>2, ProcessAssumption DEF IInv, HoldInv

(* Two confirms cannot both have rows of one hold: both began with its      *)
(* first seat.                                                              *)
LEMMA OneConfirms ==
  ASSUME IInv, NEW c \in Buyers, NEW d \in Buyers, ConfirmOrder(c), ConfirmOrder(d),
         Confirming(c) # None, Confirming(c) = Confirming(d)
  PROVE  c = d
<1>1. PICK s \in Stock : rowLock[s] = c
  BY DEF Confirming, Locked
<1>2. PICK r \in Stock : rowLock[r] = d
  BY DEF Confirming, Locked
<1>3. target[c] = target[d]
  BY <1>1, <1>2 DEF Confirming, Locked
<1>4. seats[s].hold = target[c] /\ seats[r].hold = target[c]
  BY <1>1, <1>2, <1>3 DEF IInv, ConfirmInv
<1>5. r \in Nat /\ s \in Nat
  BY ResourceAssumption
<1>6. CASE s < r
  BY <1>1, <1>2, <1>3, <1>4, <1>6 DEF ConfirmOrder
<1>7. CASE r < s
  BY <1>1, <1>2, <1>3, <1>4, <1>7 DEF ConfirmOrder
<1>8. CASE r = s
  BY <1>1, <1>2, <1>8
<1> QED BY <1>5, <1>6, <1>7, <1>8

(* A confirm that takes the first row of its hold finds it ACTIVE, and      *)
(* nobody else has one of its rows.                                         *)
LEMMA FirstRow ==
  ASSUME IInv, \A d \in Buyers : ConfirmOrder(d),
         NEW c \in Buyers, NEW s \in Stock, Locked(c) = {},
         pc[c] = "update", IsFirst(s, Pending(c)), rowLock[s] = None,
         StillHeld(s, target[c], view[c][s])
  PROVE  /\ target[c] \in Holds /\ holds[target[c]] = "ACTIVE"
         /\ \A d \in Buyers : Confirming(d) # target[c]
<1> USE ProcessAssumption
<1>1. PICK h \in Holds : h = target[c]
  BY DEF IInv, ConfirmInv, TypeOK
<1>2. holds[h] = "ACTIVE"
  <2>1. s \in SeatsOf(h) /\ seats[s].status = "HELD"
    BY <1>1 DEF SeatsOf, StillHeld
  <2>2. holds[h] \in {"NONE", "ACTIVE", "CONFIRMED", "EXPIRED"}
    BY DEF IInv, TypeOK
  <2> QED BY <2>1, <2>2 DEF IInv, HoldOwnsItsSeats
<1>3. ASSUME NEW d \in Buyers, Confirming(d) = h PROVE FALSE
  <2>1. PICK r \in Stock : rowLock[r] = d /\ seats[r].hold = h
    BY <1>3 DEF Confirming, Locked, IInv, ConfirmInv
  <2>2. r \in Pending(c)
    BY <1>1, <2>1 DEF Pending, Locked, IInv, ConfirmInv
  <2>3. r \in Nat /\ s \in Nat /\ s <= r /\ seats[s].hold = h /\ target[d] = h
    BY <1>1, <1>3, <2>1, <2>2, ResourceAssumption DEF IsFirst, StillHeld, Confirming
  <2>4. CASE s = r
    BY <2>1, <2>4
  <2>5. CASE s < r
    BY <2>1, <2>3, <2>5 DEF ConfirmOrder
  <2> QED BY <2>3, <2>4, <2>5
<1> QED BY <1>1, <1>2, <1>3

LEMMA WaitsUnseen ==
  ASSUME NEW q, Waits(q)
  PROVE  /\ q \in Buyers => Confirming(q)' = Confirming(q)
         /\ q \in Workers => LooksAt(q)' = LooksAt(q)
<1>1. ASSUME q \in Buyers PROVE Confirming(q)' = Confirming(q)
  <2>1. Locked(q)' = Locked(q)
    BY DEF Waits, Locked
  <2> QED BY <1>1, <2>1 DEF Waits, Confirming
<1>2. ASSUME q \in Workers PROVE LooksAt(q)' = LooksAt(q)
  BY <1>2 DEF Waits, LooksAt
<1> QED BY <1>1, <1>2

LEMMA HoldCallStep ==
  ASSUME IInv, NEW h \in Holds, CallStep(h), \A q \in Procs \ {h} : Waits(q)
  PROVE  Hold!Make(h) \/ UNCHANGED Hold!vars
<1> USE ProcessAssumption DEF rows, clock, locks, call, reading, pass
<1>1. \A q \in Buyers \union Workers : Waits(q)
  BY DEF Procs
<1>2. /\ [c \in Buyers |-> Confirming(c)'] = [c \in Buyers |-> Confirming(c)]
      /\ UNION {LooksAt(w)' : w \in Workers} = UNION {LooksAt(w) : w \in Workers}
  BY <1>1, WaitsUnseen
<1>3. UNCHANGED <<expiry, captured>>
  BY DEF CallStep, Reserve, FailGate, Crash, FailReserve, LookupHold, CheckSeats, InsertHold,
         CommitHold, ReturnHold, CloseCall, AcquireSeat, ReleaseLock, LockRow
<1>4. CommitHold(h) \/ UNCHANGED holds
  BY DEF CallStep, Reserve, FailGate, Crash, FailReserve, LookupHold, CheckSeats, InsertHold,
         ReturnHold, CloseCall, AcquireSeat, ReleaseLock, LockRow
<1>5. CASE CommitHold(h)
  BY <1>2, <1>3, <1>5, HoldCommit DEF Hold!Make
<1> QED BY <1>2, <1>3, <1>4, <1>5 DEF Hold!vars

LEMMA HoldBuyerStep ==
  ASSUME IInv, PInv, NEW c \in Buyers, BuyerStep(c), \A q \in Procs \ {c} : Waits(q)
  PROVE  [Hold!Next]_Hold!vars
<1> USE ProcessAssumption DEF rows, clock, locks, call, reading, pass
<1>o. TypeOK /\ ConfirmInv(c) /\ c \in Procs
  BY DEF IInv, Procs
<1>1. \A q \in (Buyers \ {c}) \union Workers : Waits(q)
  BY DEF Procs
<1>2. /\ \A d \in Buyers \ {c} : Confirming(d)' = Confirming(d)
      /\ UNION {LooksAt(w)' : w \in Workers} = UNION {LooksAt(w) : w \in Workers}
  BY <1>1, WaitsUnseen
<1>3. UNCHANGED <<expiry, captured>>
  BY DEF BuyerStep, Confirm, FailConfirm, StartConfirm, ReadHold, ReadSeats, CommitConfirm,
         RollbackConfirm, ConfirmSeat
<1>q. ASSUME UNCHANGED holds, Confirming(c)' = Confirming(c) PROVE UNCHANGED Hold!vars
  BY <1>2, <1>3, <1>q DEF Hold!vars
<1>g. ASSUME UNCHANGED holds, Confirming(c)' = None PROVE [Hold!Next]_Hold!vars
  <2>1. CASE Confirming(c) = None
    BY <1>g, <1>q, <2>1
  <2>2. CASE Confirming(c) # None
    BY <1>2, <1>3, <1>g, <2>2 DEF Hold!GiveUp, Hold!Step, Hold!Next
  <2> QED BY <2>1, <2>2
<1>u. ASSUME Unlock(c) PROVE Confirming(c)' = None
  BY <1>o, <1>u DEF Unlock, Confirming, Locked
<1>4. CASE RollbackConfirm(c) \/ FailConfirm(c)
  BY <1>4, <1>g, <1>u DEF RollbackConfirm, FailConfirm
<1>5. CASE ReadHold(c) \/ ReadSeats(c) \/ \E h \in Holds : StartConfirm(c, h)
  <2>1. UNCHANGED <<holds, rowLock>> /\ Locked(c) = {}
    BY <1>o, <1>5 DEF ReadHold, ReadSeats, StartConfirm, Locked, ConfirmInv
  <2>2. Confirming(c)' = None
    BY <2>1 DEF Confirming, Locked
  <2> QED BY <1>g, <2>1, <2>2
<1>6. CASE CommitConfirm(c)
  <2>1. PICK h : h = target[c]
    OBVIOUS
  <2>2. /\ h \in Holds /\ holdLock[h] = None /\ Locked(c) # {}
        /\ holds' = [holds EXCEPT ![h] = "CONFIRMED"]
    BY <1>6, <2>1, SaleCommit
  <2>3. Confirming(c) = h /\ Confirming(c)' = None /\ h # None
    BY <1>6, <1>u, <2>1, <2>2 DEF Confirming, CommitConfirm
  <2>4. h \notin UNION {LooksAt(w) : w \in Workers}
    BY <2>2, LooksAtLocked
  <2> QED BY <1>2, <1>3, <2>2, <2>3, <2>4
          DEF Hold!Sell, Hold!RowIsFree, Hold!Step, Hold!Next
<1>7. ASSUME NEW s \in Stock, ConfirmSeat(c, s) PROVE [Hold!Next]_Hold!vars
  <2>1. /\ UNCHANGED <<holds, target>> /\ pc[c] = "update" /\ rowLock[s] = None
        /\ IsFirst(s, Pending(c))
    BY <1>7 DEF ConfirmSeat
  <2>2. CASE UNCHANGED rowLock
    <3>1. Confirming(c)' = Confirming(c)
      BY <2>1, <2>2 DEF Confirming, Locked
    <3> QED BY <1>q, <2>1, <3>1
  <2>3. CASE StillHeld(s, target[c], view[c][s]) /\ rowLock' = [rowLock EXCEPT ![s] = c]
    <3>1. Confirming(c)' = target[c]
      BY <1>o, <2>1, <2>3 DEF Confirming, Locked, TypeOK
    <3>2. CASE Locked(c) = {}
      <4>1. PICK h : h = target[c]
        OBVIOUS
      <4>2. h \in Holds /\ holds[h] = "ACTIVE" /\ \A d \in Buyers : Confirming(d) # h
        BY <2>1, <2>3, <3>2, <4>1, FirstRow DEF PInv
      <4>3. Hold!Find(c, h)
        BY <1>2, <1>3, <2>1, <3>1, <4>1, <4>2 DEF Hold!Find, Hold!SeatsTaken
      <4> QED BY <1>3, <4>2, <4>3 DEF Hold!Step, Hold!Next
    <3>3. CASE Locked(c) # {}
      BY <1>q, <2>1, <3>1, <3>3 DEF Confirming
    <3> QED BY <3>2, <3>3
  <2> QED BY <1>7, <2>2, <2>3 DEF ConfirmSeat
<1> QED BY <1>4, <1>5, <1>6, <1>7 DEF BuyerStep, Confirm

LEMMA HoldEnvironment ==
  ASSUME IInv, Environment
  PROVE  [Hold!Next]_Hold!vars
<1> USE DEF rows, clock, locks, call, reading, pass
<1>1. UNCHANGED <<rowLock, pc, target, freed, holds>>
  BY DEF Environment, Capture, Lapse, GateTtl
<1>2. /\ \A c \in Buyers : Confirming(c)' = Confirming(c)
      /\ \A w \in Workers : LooksAt(w)' = LooksAt(w)
  BY <1>1 DEF Confirming, Locked, LooksAt
<1>3. /\ [c \in Buyers |-> Confirming(c)'] = [c \in Buyers |-> Confirming(c)]
      /\ UNION {LooksAt(w)' : w \in Workers} = UNION {LooksAt(w) : w \in Workers}
  BY <1>2
<1>4. ASSUME NEW h \in Holds, Capture(h) PROVE Hold!Pay(h)
  BY <1>1, <1>3, <1>4 DEF Capture, Hold!Pay
<1>5. ASSUME NEW h \in Holds, Lapse(h) PROVE Hold!Lapse(h) /\ UNCHANGED captured
  <2>1. \A g \in Holds : expiry'[g] # "running" <=> g = h \/ expiry[g] # "running"
    BY <1>5 DEF Lapse, IInv, TypeOK
  <2> QED BY <1>1, <1>3, <1>5, <2>1 DEF Lapse, Hold!Lapse
<1>6. ASSUME NEW s \in SeatIds, GateTtl(s) PROVE UNCHANGED Hold!vars
  BY <1>1, <1>3, <1>6 DEF GateTtl, Hold!vars
<1> QED BY <1>4, <1>5, <1>6 DEF Environment, Hold!Step, Hold!Next

LEMMA HoldWorkerStep ==
  ASSUME IInv, PInv, NEW w \in Workers, WorkerStep(w), \A q \in Procs \ {w} : Waits(q)
  PROVE  [Hold!Next]_Hold!vars
<1> USE ProcessAssumption DEF rows, clock, locks, call, reading, pass
<1>o. TypeOK /\ PassInv(w) /\ LookInv(w) /\ w \in Procs
  BY DEF IInv, PInv, Procs
<1>1. \A q \in (Workers \ {w}) \union Buyers : Waits(q)
  BY DEF Procs
<1>2. /\ [c \in Buyers |-> Confirming(c)'] = [c \in Buyers |-> Confirming(c)]
      /\ \A v \in Workers \ {w} : LooksAt(v)' = LooksAt(v)
  BY <1>1, WaitsUnseen
<1>3. UNCHANGED <<expiry, captured>>
  BY DEF WorkerStep, ExpirePass, FailPass, EndPass, SelectExpired, ScanSeats, MarkExpired,
         CommitPass, Examine, FreeSeat, ReleaseExpiredLock
<1> DEFINE All == UNION {LooksAt(v) : v \in Workers}
<1>q. ASSUME UNCHANGED holds, LooksAt(w)' = LooksAt(w) PROVE UNCHANGED Hold!vars
  <2>1. All' = All
    BY <1>2, <1>q
  <2> QED BY <1>2, <1>3, <1>q, <2>1 DEF Hold!vars
<1>4. CASE SelectExpired(w)
  <2>1. /\ pc[w] = "idle" /\ pc'[w] = "examine" /\ UNCHANGED <<holds, freed, target>>
    BY <1>o, <1>4, GotoKeeps DEF SelectExpired
  <2> QED BY <1>q, <2>1 DEF LooksAt
<1>5. ASSUME NEW h \in Holds, Examine(w, h) PROVE [Hold!Next]_Hold!vars
  <2>1. /\ h \in batch[w] /\ pc[w] = "examine" /\ UNCHANGED <<holds, freed>>
        /\ target'[w] = h
        /\ pc'[w] = IF h \in captured THEN "examine" ELSE "scan"
    BY <1>o, <1>5, GotoKeeps DEF Examine, IsFirst, HasCapturedPayment, TypeOK
  <2>2. LooksAt(w) = freed[w]
    BY <2>1 DEF LooksAt
  <2>3. CASE h \in captured
    BY <1>q, <2>1, <2>2, <2>3 DEF LooksAt
  <2>4. CASE h \notin captured
    <3>1. LooksAt(w)' = LooksAt(w) \union {h}
      BY <2>1, <2>2, <2>4 DEF LooksAt
    <3>2. All' = All \union {h}
      BY <1>2, <3>1
    <3>3. holdLock[h] = w /\ holds[h] = "ACTIVE" /\ expiry[h] # "running"
      BY <1>o, <2>1 DEF PassInv, IInv, PInv, HoldInv, LapsedInv
    <3>4. h \notin All
      <4>1. h \notin freed[w]
        BY <1>o, <2>1 DEF LookInv
      <4> QED BY <2>2, <3>3, <4>1, LooksAtLocked
    <3>5. Hold!Look(h)
      BY <1>2, <1>3, <2>1, <2>4, <3>2, <3>3, <3>4 DEF Hold!Look
    <3> QED BY <1>3, <3>5 DEF Hold!Step, Hold!Next
  <2> QED BY <2>3, <2>4
<1>6. CASE ScanSeats(w) \/ \E s \in Stock : FreeSeat(w, s)
  <2>1. /\ pc[w] \in {"scan", "free"} /\ pc'[w] \in {"scan", "free"}
        /\ UNCHANGED <<holds, freed, target>>
    BY <1>o, <1>6, GotoKeeps DEF ScanSeats, FreeSeat
  <2> QED BY <1>q, <2>1 DEF LooksAt
<1>7. CASE MarkExpired(w)
  <2>1. /\ pc[w] = "free" /\ pc'[w] \in {"examine", "ungate"} /\ UNCHANGED <<holds, target>>
        /\ freed'[w] = freed[w] \union {target[w]} /\ target[w] \in Holds
    BY <1>o, <1>7, GotoKeeps DEF MarkExpired, TypeOK, PassInv
  <2> QED BY <1>q, <2>1 DEF LooksAt
<1>8. ASSUME NEW s \in SeatIds, ReleaseExpiredLock(w, s) PROVE [Hold!Next]_Hold!vars
  <2>1. /\ pc[w] = "ungate" /\ pc'[w] \in {"examine", "ungate"}
        /\ UNCHANGED <<holds, freed, target>>
    BY <1>o, <1>8, GotoKeeps DEF ReleaseExpiredLock
  <2> QED BY <1>q, <2>1 DEF LooksAt
<1>9. CASE EndPass(w) /\ (CommitPass(w) \/ UNCHANGED holds)
  <2>1. LooksAt(w)' = {}
    BY <1>o, <1>9, GotoKeeps DEF EndPass, LooksAt, TypeOK
  <2>2. All' = All \ LooksAt(w)
    <3>1. ASSUME NEW v \in Workers \ {w}, NEW h \in LooksAt(v) PROVE h \notin LooksAt(w)
      BY <3>1, LooksAtLocked
    <3> QED BY <1>2, <2>1, <3>1
  <2>3. PICK E \in SUBSET LooksAt(w) :
          /\ holds' = [h \in Holds |-> IF h \in E THEN "EXPIRED" ELSE holds[h]]
          /\ \A h \in E, c \in Buyers : Confirming(c) # h
    <3>1. CASE CommitPass(w)
      <4>1. /\ freed[w] \subseteq LooksAt(w) /\ freed[w] \subseteq Holds
            /\ holds' = [h \in Holds |-> IF h \in freed[w] THEN "EXPIRED" ELSE holds[h]]
        BY <3>1, PassCommit DEF LooksAt
      <4>2. ASSUME NEW c \in Buyers, Confirming(c) \in freed[w] PROVE FALSE
        <5>1. Locked(c) # {} /\ target[c] \in freed[w]
          BY <4>1, <4>2 DEF Confirming
        <5>2. PICK s \in Stock : rowLock[s] = c /\ seats[s].hold \in freed[w]
          BY <5>1 DEF Locked, IInv, ConfirmInv
        <5> QED BY <1>o, <5>2 DEF PassInv
      <4> QED BY <4>1, <4>2
    <3>2. CASE UNCHANGED holds
      <4>1. holds' = [h \in Holds |-> IF h \in {} THEN "EXPIRED" ELSE holds[h]]
        BY <1>o, <3>2 DEF TypeOK
      <4> QED BY <4>1
    <3> QED BY <1>9, <3>1, <3>2
  <2>4. Hold!EndPass(LooksAt(w), E)
    BY <1>2, <1>3, <2>2, <2>3 DEF Hold!EndPass, Hold!SeatsTaken
  <2>5. PICK L : L = LooksAt(w)
    OBVIOUS
  <2>6. L \in SUBSET All /\ E \in SUBSET L /\ Hold!EndPass(L, E)
    BY <2>3, <2>4, <2>5
  <2> QED BY <1>3, <2>6 DEF Hold!Step, Hold!Next
<1> QED BY <1>4, <1>5, <1>6, <1>7, <1>8, <1>9 DEF WorkerStep, ExpirePass, CommitPass, FailPass

(* Between them the calls, the confirms and the passes do with a hold only  *)
(* what Reservation allows, which is what the checkout is checked against.  *)
THEOREM SeatsImplementReservation == Spec => ImplementsReservation
<1>1. Init => Hold!Init
  <2> SUFFICES ASSUME Init PROVE Hold!Init
    OBVIOUS
  <2>1. /\ \A c \in Buyers : Confirming(c) = None
        /\ \A w \in Workers : LooksAt(w) = {}
    BY ProcessAssumption DEF Init, Confirming, Locked, LooksAt, Procs
  <2>2. UNION {LooksAt(w) : w \in Workers} = {}
    BY <2>1
  <2> QED BY <2>1, <2>2 DEF Init, Hold!Init
<1>2. IInv /\ PInv /\ [Next]_vars => [Hold!Next]_Hold!vars
  <2> SUFFICES ASSUME IInv, PInv, [Next]_vars PROVE [Hold!Next]_Hold!vars
    OBVIOUS
  <2>1. ASSUME NEW h \in Holds, CallStep(h), \A q \in Procs \ {h} : Waits(q)
        PROVE  [Hold!Next]_Hold!vars
    BY <2>1, HoldCallStep DEF Hold!Next
  <2>2. CASE UNCHANGED vars
    <3>1. \A q \in Procs : Waits(q)
      BY <2>2 DEF vars, Waits
    <3>2. /\ [c \in Buyers |-> Confirming(c)'] = [c \in Buyers |-> Confirming(c)]
          /\ UNION {LooksAt(w)' : w \in Workers} = UNION {LooksAt(w) : w \in Workers}
      BY <3>1, WaitsUnseen DEF Procs
    <3> QED BY <2>2, <3>2 DEF vars, Hold!vars
  <2> QED BY <2>1, <2>2, WhoSteps, HoldBuyerStep, HoldWorkerStep, HoldEnvironment DEF IInv
<1> QED BY <1>1, <1>2, PromiseInvariance, PTL
        DEF Spec, ImplementsReservation, Hold!Spec
=============================================================================
