------------------------ MODULE SeatInventoryProofs ------------------------
(***************************************************************************)
(* Proofs about SeatInventory for any seats, calls, requests, workers and  *)
(* batch size.                                                             *)
(***************************************************************************)
EXTENDS SeatInventory, TLAPS

-----------------------------------------------------------------------------
(* The inductive invariant.  HoldOwnsItsSeats alone is not inductive: that  *)
(* a commit keeps it depends on what the call has locked and read on the    *)
(* way there, and on nobody changing it since.                              *)

(* A call has no hold before its commit; when it is about to write one, it  *)
(* has all the seats locked and they are free.                              *)
ReserveInv(h) ==
  /\ pc[h] \in {"idle", "gate", "rows", "insert", "commit"} => holds[h] = "NONE"
  /\ pc[h] \in {"insert", "commit"} =>
       /\ Want(h) \subseteq Stock
       /\ \A s \in Want(h) : rowLock[s] = h /\ seats[s].status = "AVAILABLE"

(* A confirm has read all the seats of its hold, and those it has locked    *)
(* are still as it read them.                                               *)
ConfirmInv(c) ==
  /\ pc[c] # "idle" => target[c] \in captured
  /\ \A s \in Stock : rowLock[s] = c =>
       /\ pc[c] \in {"update", "flush", "rollback"}
       /\ seats[s].hold = target[c] /\ seats[s].status = "HELD"
       /\ view[c][s] = seats[s].version
  /\ pc[c] \in {"update", "flush"} =>
       /\ \A s \in Stock : seats[s].hold = target[c] => view[c][s] > 0
       /\ \E s \in Stock : view[c][s] > 0
  /\ pc[c] = "flush" => Pending(c) = {}

(* A worker has locked the holds it is about to examine, is examining or    *)
(* has expired.  The seats it has locked belong to the latter two, and it   *)
(* has all the seats of the holds it has expired.                           *)
PassInv(w) ==
  /\ pc[w] = "idle" => freed[w] = {}
  /\ \A h \in batch[w] \union freed[w] : holdLock[h] = w
  /\ pc[w] \in {"scan", "free", "ungate"} =>
       target[w] \in Holds /\ holdLock[target[w]] = w
  /\ \A s \in Stock : rowLock[s] = w =>
       /\ \/ seats[s].hold \in freed[w]
          \/ pc[w] = "free" /\ seats[s].hold = target[w]
       /\ view[w][s] = seats[s].version
  /\ \A s \in Stock : seats[s].hold \in freed[w] => rowLock[s] = w
  /\ pc[w] = "free" => \A s \in Stock :
       seats[s].hold = target[w] => view[w][s] = seats[s].version

(* Only written holds are paid for, and only ACTIVE ones are locked. *)
HoldInv ==
  /\ \A h \in captured : holds[h] # "NONE"
  /\ \A h \in Holds : holdLock[h] # None => holds[h] = "ACTIVE"

IInv == /\ TypeOK
        /\ HoldOwnsItsSeats
        /\ HoldInv
        /\ \A h \in Holds : ReserveInv(h)
        /\ \A c \in Buyers : ConfirmInv(c)
        /\ \A w \in Workers : PassInv(w)

-----------------------------------------------------------------------------
(* Type correctness                                                         *)

(* The variables keep their types, and every committed row the CHECK of its *)
(* version, whatever the interleaving of calls and faults.                  *)
LEMMA TypeInit == Init => TypeOK
BY ResourceAssumption, ProcessAssumption
   DEF Init, TypeOK, SeatRow, Procs, NotRead, PcReserve, PcConfirm, PcPass

(* Unlocking leaves every row with an owner that it may have. *)
LEMMA TypeUnlock ==
  ASSUME TypeOK, NEW p, Unlock(p)
  PROVE  rowLock' \in [Stock -> Procs \union {None}]
BY DEF TypeOK, Unlock

LEMMA TypeReserve ==
  ASSUME TypeOK, NEW h \in Holds, Reserve(h)
  PROVE  TypeOK'
<1> USE ResourceAssumption, RequestAssumption, ProcessAssumption
        DEF rows, clock, locks, call, reading, pass
<1> DEFINE PcOK == /\ pc' \in [Procs -> PcReserve \union PcConfirm \union PcPass]
                   /\ \A g \in Holds : pc'[g] \in PcReserve
                   /\ \A c \in Buyers : pc'[c] \in PcConfirm
                   /\ \A w \in Workers : pc'[w] \in PcPass
<1>p. ASSUME NEW where \in PcReserve, Goto(h, where) PROVE PcOK
  BY <1>p DEF TypeOK, Goto, Procs
<1>1. CASE LookupHold(h)
  <2>1. PcOK
    BY <1>1, <1>p DEF LookupHold, PcReserve
  <2>2. answer' \in [Holds -> Holds \union {None}]
    <3>1. UNCHANGED answer \/ \E g \in Holds \union {None} : answer' = [answer EXCEPT ![h] = g]
      BY <1>1 DEF LookupHold
    <3> QED BY <3>1 DEF TypeOK
  <2> QED BY <1>1, <2>1, <2>2 DEF LookupHold, TypeOK
<1>2. CASE CheckSeats(h)
  <2>1. PcOK
    BY <1>2, <1>p DEF CheckSeats, PcReserve
  <2> QED BY <1>2, <2>1 DEF CheckSeats, TypeOK
<1>3. CASE InsertHold(h)
  <2>1. PcOK
    BY <1>3, <1>p DEF InsertHold, PcReserve
  <2>2. rowLock' \in [Stock -> Procs \union {None}]
    BY <1>3, TypeUnlock DEF InsertHold, TypeOK
  <2> QED BY <1>3, <2>1, <2>2 DEF InsertHold, TypeOK
<1>4. CASE CommitHold(h)
  <2>1. PcOK
    BY <1>4, <1>p DEF CommitHold, PcReserve
  <2>2. rowLock' \in [Stock -> Procs \union {None}]
    BY <1>4, TypeUnlock DEF CommitHold
  <2>3. seats' \in [Stock -> SeatRow]
    BY <1>4 DEF CommitHold, TypeOK, SeatRow, HeldSeat
  <2>4. holds' \in [Holds -> {"NONE", "ACTIVE", "CONFIRMED", "EXPIRED"}]
    BY <1>4 DEF CommitHold, TypeOK
  <2> QED BY <1>4, <2>1, <2>2, <2>3, <2>4 DEF CommitHold, TypeOK
<1>5. CASE ReturnHold(h)
  <2>1. PcOK
    BY <1>5, <1>p DEF ReturnHold, PcReserve
  <2> QED BY <1>5, <2>1 DEF ReturnHold, TypeOK
<1>6. CASE CloseCall(h)
  <2>1. PcOK
    BY <1>6, <1>p DEF CloseCall, PcReserve
  <2>2. rowLock' \in [Stock -> Procs \union {None}]
    BY <1>6, TypeUnlock DEF CloseCall
  <2> QED BY <1>6, <2>1, <2>2 DEF CloseCall, TypeOK
<1>7. ASSUME NEW s \in SeatIds, AcquireSeat(h, s) PROVE TypeOK'
  <2>1. PcOK
    BY <1>7, <1>p DEF AcquireSeat, PcReserve
  <2>2. got' \in [Holds \union Workers -> SUBSET SeatIds]
    <3>1. got' = got \/ got' = [got EXCEPT ![h] = got[h] \union {s}]
      BY <1>7 DEF AcquireSeat
    <3>2. got[h] \union {s} \in SUBSET SeatIds
      BY DEF TypeOK
    <3>3. got \in [Holds \union Workers -> SUBSET SeatIds]
      BY DEF TypeOK
    <3> QED BY <3>1, <3>2, <3>3
  <2>3. gate' \in [SeatIds -> Holds \union {None}]
    BY <1>7 DEF AcquireSeat, TypeOK
  <2> QED BY <1>7, <2>1, <2>2, <2>3 DEF AcquireSeat, TypeOK
<1>8. ASSUME NEW s \in SeatIds, ReleaseLock(h, s) PROVE TypeOK'
  <2>1. got' \in [Holds \union Workers -> SUBSET SeatIds]
    BY <1>8 DEF ReleaseLock, TypeOK
  <2>2. gate' \in [SeatIds -> Holds \union {None}]
    BY <1>8 DEF ReleaseLock, DropLock, TypeOK
  <2> QED BY <1>8, <2>1, <2>2 DEF ReleaseLock, TypeOK
<1>9. ASSUME NEW s \in Stock, LockRow(h, s) PROVE TypeOK'
  BY <1>9 DEF LockRow, TypeOK, Procs
<1> QED BY <1>1, <1>2, <1>3, <1>4, <1>5, <1>6, <1>7, <1>8, <1>9 DEF Reserve

LEMMA TypeConfirm ==
  ASSUME TypeOK, NEW c \in Buyers,
         Confirm(c) \/ \E h \in Holds : StartConfirm(c, h)
  PROVE  TypeOK'
<1> USE ResourceAssumption, RequestAssumption, ProcessAssumption
        DEF rows, clock, locks, call, reading, pass
<1> DEFINE PcOK == /\ pc' \in [Procs -> PcReserve \union PcConfirm \union PcPass]
                   /\ \A g \in Holds : pc'[g] \in PcReserve
                   /\ \A d \in Buyers : pc'[d] \in PcConfirm
                   /\ \A w \in Workers : pc'[w] \in PcPass
<1>p. ASSUME NEW where \in PcConfirm, Goto(c, where) PROVE PcOK
  BY <1>p DEF TypeOK, Goto, Procs
<1>1. ASSUME NEW h \in Holds, StartConfirm(c, h) PROVE TypeOK'
  <2>1. PcOK
    BY <1>1, <1>p DEF StartConfirm, PcConfirm
  <2>2. target' \in [Buyers \union Workers -> Holds \union {None}]
    BY <1>1 DEF StartConfirm, TypeOK
  <2> QED BY <1>1, <2>1, <2>2 DEF StartConfirm, TypeOK
<1>2. CASE ReadHold(c)
  <2>1. PcOK
    BY <1>2, <1>p DEF ReadHold, PcConfirm
  <2> QED BY <1>2, <2>1 DEF ReadHold, TypeOK
<1>3. CASE ReadSeats(c)
  <2>1. PcOK
    BY <1>3, <1>p DEF ReadSeats, PcConfirm
  <2>2. VersionsOf(target[c]) \in [Stock -> Nat]
    BY DEF VersionsOf, TypeOK, SeatRow
  <2>3. view' \in [Buyers \union Workers -> [Stock -> Nat]]
    BY <1>3, <2>2 DEF ReadSeats, TypeOK
  <2> QED BY <1>3, <2>1, <2>3 DEF ReadSeats, TypeOK
<1>4. CASE CommitConfirm(c)
  <2>1. PcOK
    BY <1>4, <1>p DEF CommitConfirm, PcConfirm
  <2>2. rowLock' \in [Stock -> Procs \union {None}]
    BY <1>4, TypeUnlock DEF CommitConfirm
  <2>3. \A s \in Stock : SoldSeat(s, view[c][s]) \in SeatRow
    BY DEF SoldSeat, SeatRow, TypeOK
  <2>4. seats' \in [Stock -> SeatRow]
    BY <1>4, <2>3 DEF CommitConfirm, TypeOK
  <2>5. holds' \in [Holds -> {"NONE", "ACTIVE", "CONFIRMED", "EXPIRED"}]
    BY <1>4 DEF CommitConfirm, TypeOK
  <2> QED BY <1>4, <2>1, <2>2, <2>4, <2>5 DEF CommitConfirm, TypeOK
<1>5. CASE RollbackConfirm(c)
  <2>1. PcOK
    BY <1>5, <1>p DEF RollbackConfirm, PcConfirm
  <2>2. rowLock' \in [Stock -> Procs \union {None}]
    BY <1>5, TypeUnlock DEF RollbackConfirm
  <2> QED BY <1>5, <2>1, <2>2 DEF RollbackConfirm, TypeOK
<1>6. ASSUME NEW s \in Stock, ConfirmSeat(c, s) PROVE TypeOK'
  <2>1. PcOK
    BY <1>6, <1>p DEF ConfirmSeat, PcConfirm
  <2>2. rowLock' \in [Stock -> Procs \union {None}]
    BY <1>6 DEF ConfirmSeat, TypeOK, Procs
  <2> QED BY <1>6, <2>1, <2>2 DEF ConfirmSeat, TypeOK
<1> QED BY <1>1, <1>2, <1>3, <1>4, <1>5, <1>6 DEF Confirm

LEMMA TypeEndPass ==
  ASSUME TypeOK, NEW w \in Workers, EndPass(w), faults' \in 0..MaxFaults,
         seats' \in [Stock -> SeatRow],
         holds' \in [Holds -> {"NONE", "ACTIVE", "CONFIRMED", "EXPIRED"}]
  PROVE  TypeOK'
<1> USE ResourceAssumption, ProcessAssumption
        DEF rows, clock, locks, call, reading, pass
<1>1. /\ pc' \in [Procs -> PcReserve \union PcConfirm \union PcPass]
      /\ \A g \in Holds : pc'[g] \in PcReserve
      /\ \A d \in Buyers : pc'[d] \in PcConfirm
      /\ \A v \in Workers : pc'[v] \in PcPass
  BY DEF EndPass, TypeOK, Goto, Procs, PcReserve, PcConfirm, PcPass
<1>2. rowLock' \in [Stock -> Procs \union {None}]
  BY TypeUnlock DEF EndPass
<1>3. holdLock' \in [Holds -> Workers \union {None}]
  BY DEF EndPass, TypeOK
<1>4. batch' \in [Workers -> SUBSET Holds] /\ freed' \in [Workers -> SUBSET Holds]
  BY DEF EndPass, TypeOK
<1>5. got' \in [Holds \union Workers -> SUBSET SeatIds]
  BY DEF EndPass, TypeOK
<1>6. view' \in [Buyers \union Workers -> [Stock -> Nat]]
  BY DEF EndPass, TypeOK, NotRead
<1>7. target' \in [Buyers \union Workers -> Holds \union {None}]
  BY DEF EndPass, TypeOK
<1> QED BY <1>1, <1>2, <1>3, <1>4, <1>5, <1>6, <1>7 DEF EndPass, TypeOK

LEMMA TypePass ==
  ASSUME TypeOK, NEW w \in Workers, ExpirePass(w),
         pc[w] = "free" => target[w] \in Holds
  PROVE  TypeOK'
<1> USE ResourceAssumption, ProcessAssumption
        DEF rows, clock, locks, call, reading, pass
<1> DEFINE PcOK == /\ pc' \in [Procs -> PcReserve \union PcConfirm \union PcPass]
                   /\ \A g \in Holds : pc'[g] \in PcReserve
                   /\ \A d \in Buyers : pc'[d] \in PcConfirm
                   /\ \A v \in Workers : pc'[v] \in PcPass
<1>p. ASSUME NEW where \in PcPass, Goto(w, where) PROVE PcOK
  BY <1>p DEF TypeOK, Goto, Procs
<1>1. CASE SelectExpired(w)
  <2>1. PcOK
    BY <1>1, <1>p DEF SelectExpired, PcPass
  <2>2. PICK B \in SUBSET {h \in Holds : Due(h)} :
          /\ batch' = [batch EXCEPT ![w] = B]
          /\ holdLock' = [h \in Holds |-> IF h \in B THEN w ELSE holdLock[h]]
    BY <1>1 DEF SelectExpired
  <2>3. B \in SUBSET Holds
    OBVIOUS
  <2>4. batch' \in [Workers -> SUBSET Holds]
    BY <2>2, <2>3 DEF TypeOK
  <2>5. holdLock' \in [Holds -> Workers \union {None}]
    BY <2>2 DEF TypeOK
  <2> QED BY <1>1, <2>1, <2>4, <2>5 DEF SelectExpired, TypeOK
<1>2. ASSUME NEW h \in Holds, Examine(w, h) PROVE TypeOK'
  <2>1. PcOK
    BY <1>2, <1>p DEF Examine, PcPass
  <2>2. batch' \in [Workers -> SUBSET Holds]
    BY <1>2 DEF Examine, TypeOK
  <2>3. target' \in [Buyers \union Workers -> Holds \union {None}]
    BY <1>2 DEF Examine, TypeOK
  <2> QED BY <1>2, <2>1, <2>2, <2>3 DEF Examine, TypeOK
<1>3. CASE ScanSeats(w)
  <2>1. PcOK
    BY <1>3, <1>p DEF ScanSeats, PcPass
  <2>2. \A s \in Stock : VersionsOf(target[w])[s] \in Nat /\ view[w][s] \in Nat
    BY DEF VersionsOf, TypeOK, SeatRow
  <2>3. view' \in [Buyers \union Workers -> [Stock -> Nat]]
    BY <1>3, <2>2 DEF ScanSeats, TypeOK
  <2> QED BY <1>3, <2>1, <2>3 DEF ScanSeats, TypeOK
<1>4. ASSUME NEW s \in Stock, FreeSeat(w, s) PROVE TypeOK'
  <2>1. rowLock' \in [Stock -> Procs \union {None}]
    BY <1>4 DEF FreeSeat, TypeOK, Procs
  <2>2. got' = got \/ got' = [got EXCEPT ![w] = got[w] \union {s}]
    BY <1>4 DEF FreeSeat
  <2>3. got \in [Holds \union Workers -> SUBSET SeatIds]
    BY DEF TypeOK
  <2>4. got' \in [Holds \union Workers -> SUBSET SeatIds]
    <3>1. got[w] \union {s} \in SUBSET SeatIds
      BY <2>3
    <3> QED BY <2>2, <2>3, <3>1
  <2>5. view' = view \/ view' = [view EXCEPT ![w] = [view[w] EXCEPT ![s] = 0]]
    BY <1>4 DEF FreeSeat
  <2>6. view' \in [Buyers \union Workers -> [Stock -> Nat]]
    <3>1. view \in [Buyers \union Workers -> [Stock -> Nat]]
      BY DEF TypeOK
    <3>2. [view[w] EXCEPT ![s] = 0] \in [Stock -> Nat]
      BY <3>1
    <3> QED BY <2>5, <3>1, <3>2
  <2> QED BY <1>4, <2>1, <2>4, <2>6 DEF FreeSeat, TypeOK
<1>5. CASE MarkExpired(w)
  <2>1. PcOK
    BY <1>5, <1>p DEF MarkExpired, PcPass
  <2>2. freed' \in [Workers -> SUBSET Holds]
    <3>1. freed \in [Workers -> SUBSET Holds]
      BY DEF TypeOK
    <3>2. freed[w] \union {target[w]} \in SUBSET Holds
      BY <1>5, <3>1 DEF MarkExpired
    <3> QED BY <1>5, <3>1, <3>2 DEF MarkExpired
  <2> QED BY <1>5, <2>1, <2>2 DEF MarkExpired, TypeOK
<1>6. ASSUME NEW s \in SeatIds, ReleaseExpiredLock(w, s) PROVE TypeOK'
  <2>1. PcOK
    BY <1>6, <1>p DEF ReleaseExpiredLock, PcPass
  <2>2. got' \in [Holds \union Workers -> SUBSET SeatIds]
    BY <1>6 DEF ReleaseExpiredLock, TypeOK
  <2>3. gate' \in [SeatIds -> Holds \union {None}]
    BY <1>6 DEF ReleaseExpiredLock, DropLock, TypeOK
  <2> QED BY <1>6, <2>1, <2>2, <2>3 DEF ReleaseExpiredLock, TypeOK
<1>7. CASE CommitPass(w)
  <2>1. \A s \in Stock : FreeSeatRow(s, view[w][s]) \in SeatRow
    BY DEF FreeSeatRow, SeatRow, TypeOK
  <2>2. seats' \in [Stock -> SeatRow]
    BY <1>7, <2>1 DEF CommitPass, TypeOK
  <2>3. holds' \in [Holds -> {"NONE", "ACTIVE", "CONFIRMED", "EXPIRED"}]
    BY <1>7 DEF CommitPass, TypeOK
  <2>4. EndPass(w) /\ faults' \in 0..MaxFaults
    BY <1>7 DEF CommitPass, TypeOK
  <2> QED BY <2>2, <2>3, <2>4, TypeEndPass
<1> QED BY <1>1, <1>2, <1>3, <1>4, <1>5, <1>6, <1>7 DEF ExpirePass

(* What is left of a step: failures, and what happens around the calls. *)
LEMMA TypeFail ==
  ASSUME TypeOK, NEW p \in Procs, Fail(p), faults' \in 0..MaxFaults
  PROVE  TypeOK'
<1> USE ProcessAssumption DEF rows, clock, locks, call, reading, pass
<1>1. CASE p \in Holds /\ FailReserve(p)
  <2>1. rowLock' \in [Stock -> Procs \union {None}]
    BY <1>1, TypeUnlock DEF FailReserve
  <2>2. /\ pc' \in [Procs -> PcReserve \union PcConfirm \union PcPass]
        /\ \A h \in Holds : pc'[h] \in PcReserve
        /\ \A c \in Buyers : pc'[c] \in PcConfirm
        /\ \A w \in Workers : pc'[w] \in PcPass
    BY <1>1 DEF FailReserve, Goto, TypeOK, PcReserve, Procs
  <2> QED BY <1>1, <2>1, <2>2 DEF FailReserve, TypeOK
<1>2. CASE p \in Buyers /\ FailConfirm(p)
  <2>1. rowLock' \in [Stock -> Procs \union {None}]
    BY <1>2, TypeUnlock DEF FailConfirm
  <2>2. /\ pc' \in [Procs -> PcReserve \union PcConfirm \union PcPass]
        /\ \A h \in Holds : pc'[h] \in PcReserve
        /\ \A c \in Buyers : pc'[c] \in PcConfirm
        /\ \A w \in Workers : pc'[w] \in PcPass
    BY <1>2 DEF FailConfirm, Goto, TypeOK, PcConfirm, Procs
  <2> QED BY <1>2, <2>1, <2>2 DEF FailConfirm, TypeOK
<1>3. CASE p \in Workers /\ FailPass(p)
  <2>1. seats' \in [Stock -> SeatRow]
    BY <1>3 DEF FailPass, TypeOK
  <2>2. holds' \in [Holds -> {"NONE", "ACTIVE", "CONFIRMED", "EXPIRED"}]
    BY <1>3 DEF FailPass, TypeOK
  <2> QED BY <1>3, <2>1, <2>2, TypeEndPass DEF FailPass
<1> QED BY <1>1, <1>2, <1>3 DEF Fail

LEMMA TypeAbort ==
  ASSUME TypeOK, NEW h \in Holds, FailGate(h) \/ Crash(h)
  PROVE  TypeOK'
<1> USE ResourceAssumption, ProcessAssumption
        DEF rows, clock, locks, call, reading, pass
<1>1. rowLock' \in [Stock -> Procs \union {None}]
  BY TypeUnlock DEF FailGate, Crash
<1>2. PICK where \in {"raised", "crashed"} : Goto(h, where)
  BY DEF FailGate, Crash
<1>3. /\ pc' \in [Procs -> PcReserve \union PcConfirm \union PcPass]
      /\ \A g \in Holds : pc'[g] \in PcReserve
      /\ \A c \in Buyers : pc'[c] \in PcConfirm
      /\ \A w \in Workers : pc'[w] \in PcPass
  BY <1>2 DEF Goto, TypeOK, PcReserve, Procs
<1>4. faults' \in 0..MaxFaults
  BY DEF FailGate, Crash, TypeOK
<1>5. gate' \in [SeatIds -> Holds \union {None}]
  BY DEF FailGate, Crash, TypeOK
<1> QED BY <1>1, <1>3, <1>4, <1>5 DEF FailGate, Crash, TypeOK

LEMMA TypeEnvironment ==
  ASSUME TypeOK, Environment
  PROVE  TypeOK'
<1> USE DEF rows, clock, locks, call, reading, pass
<1>1. ASSUME NEW h \in Holds, Capture(h) PROVE TypeOK'
  BY <1>1 DEF Capture, TypeOK
<1>2. ASSUME NEW h \in Holds, Lapse(h) PROVE TypeOK'
  BY <1>2 DEF Lapse, TypeOK
<1>3. ASSUME NEW s \in SeatIds, GateTtl(s) PROVE TypeOK'
  BY <1>3 DEF GateTtl, TypeOK
<1> QED BY <1>1, <1>2, <1>3 DEF Environment

LEMMA TypeNext ==
  ASSUME TypeOK, [Next]_vars,
         \A w \in Workers : pc[w] = "free" => target[w] \in Holds
  PROVE  TypeOK'
<1>1. ASSUME NEW h \in Holds, Reserve(h) PROVE TypeOK'
  BY <1>1, TypeReserve
<1>2. ASSUME NEW h \in Holds, FailGate(h) \/ Crash(h) PROVE TypeOK'
  BY <1>2, TypeAbort
<1>3. ASSUME NEW c \in Buyers, Confirm(c) \/ \E h \in Holds : StartConfirm(c, h)
      PROVE  TypeOK'
  BY <1>3, TypeConfirm
<1>4. ASSUME NEW w \in Workers, ExpirePass(w) PROVE TypeOK'
  BY <1>4, TypePass
<1>5. ASSUME NEW p \in Procs, Fault(p) \/ DeadlockVictim(p) PROVE TypeOK'
  <2>1. faults' \in 0..MaxFaults /\ Fail(p)
    BY <1>5, ResourceAssumption DEF Fault, DeadlockVictim, TypeOK
  <2> QED BY <2>1, TypeFail
<1>6. CASE Environment
  BY <1>6, TypeEnvironment
<1>7. CASE UNCHANGED vars
  BY <1>7 DEF vars, TypeOK
<1> QED BY <1>1, <1>2, <1>3, <1>4, <1>5, <1>6, <1>7 DEF Next

-----------------------------------------------------------------------------
(* The safety invariant                                                     *)

(* What a step of process p leaves alone: the state of the other calls, and *)
(* every row that p has not locked.                                         *)
Frame(p) ==
  /\ captured' = captured
  /\ \A q \in Procs \ {p} : pc'[q] = pc[q]
  /\ \A q \in (Buyers \union Workers) \ {p} :
       target'[q] = target[q] /\ view'[q] = view[q]
  /\ \A q \in Workers \ {p} : batch'[q] = batch[q] /\ freed'[q] = freed[q]
  /\ \A s \in Stock : rowLock[s] # p =>
       /\ seats'[s] = seats[s]
       /\ \/ rowLock'[s] = rowLock[s]
          \/ rowLock[s] = None /\ rowLock'[s] = p
  /\ \A s \in Stock : rowLock[s] = p => rowLock'[s] \in {p, None}
  /\ \A s \in Stock : seats'[s] # seats[s] =>
       /\ seats[s].hold = None \/ holdLock[seats[s].hold] \in {None, p}
       /\ \/ seats'[s].hold \in {None, seats[s].hold}
          \/ holds[seats'[s].hold] = "NONE"
  /\ \A h \in Holds :
       /\ holds'[h] # holds[h] => holdLock[h] \in {None, p} /\ holds'[h] # "NONE"
       /\ holds[h] = "NONE" => holds'[h] = "NONE" \/ h = p
       /\ holdLock[h] = p => holdLock'[h] \in {p, None}
       /\ holdLock[h] # p => \/ holdLock'[h] = holdLock[h]
                             \/ holdLock[h] = None /\ holdLock'[h] = p

(* A step that keeps to its frame keeps the invariants of the other calls.  *)
LEMMA OthersKeep ==
  ASSUME IInv, TypeOK', NEW p \in Procs, Frame(p)
  PROVE  /\ \A h \in Holds \ {p} : ReserveInv(h)'
         /\ \A c \in Buyers \ {p} : ConfirmInv(c)'
         /\ \A w \in Workers \ {p} : PassInv(w)'
<1> USE ProcessAssumption
<1>1. ASSUME NEW h \in Holds \ {p} PROVE ReserveInv(h)'
  <2>1. pc'[h] = pc[h] /\ (holds[h] = "NONE" => holds'[h] = "NONE")
    BY DEF Frame, Procs
  <2>2. \A s \in Stock : rowLock[s] = h => rowLock'[s] = h /\ seats'[s] = seats[s]
    BY DEF Frame, Procs
  <2> QED BY <2>1, <2>2 DEF ReserveInv, IInv, Want
<1>2. ASSUME NEW c \in Buyers \ {p} PROVE ConfirmInv(c)'
  <2>1. pc'[c] = pc[c] /\ target'[c] = target[c] /\ view'[c] = view[c]
    BY DEF Frame, Procs
  <2>2. \A s \in Stock : rowLock'[s] = c <=> rowLock[s] = c
    BY DEF Frame, Procs
  <2>3. \A s \in Stock : rowLock[s] = c => seats'[s] = seats[s]
    BY DEF Frame
  <2>4. ASSUME pc[c] # "idle", NEW s \in Stock, seats'[s].hold = target[c]
        PROVE  seats[s].hold = target[c]
    <3>1. target[c] \in captured /\ captured \subseteq Holds
      BY <2>4 DEF IInv, ConfirmInv, TypeOK
    <3>2. target[c] # None /\ holds[target[c]] # "NONE"
      BY <3>1 DEF IInv, HoldInv
    <3>3. \/ seats'[s] = seats[s]
          \/ seats'[s].hold \in {None, seats[s].hold}
          \/ holds[seats'[s].hold] = "NONE"
      BY DEF Frame
    <3> QED BY <2>4, <3>2, <3>3
  <2>5. Pending(c)' = Pending(c)
    BY <2>1, <2>2 DEF Pending
  <2> QED BY <2>1, <2>2, <2>3, <2>4, <2>5 DEF ConfirmInv, IInv, Frame
<1>3. ASSUME NEW w \in Workers \ {p} PROVE PassInv(w)'
  <2>1. /\ pc'[w] = pc[w] /\ target'[w] = target[w] /\ view'[w] = view[w]
        /\ batch'[w] = batch[w] /\ freed'[w] = freed[w]
    BY DEF Frame, Procs
  <2>2. \A s \in Stock : rowLock'[s] = w <=> rowLock[s] = w
    BY DEF Frame, Procs
  <2>3. \A s \in Stock : rowLock[s] = w => seats'[s] = seats[s]
    BY DEF Frame
  <2>4. \A h \in Holds : holdLock[h] = w => holdLock'[h] = w /\ holds[h] = "ACTIVE"
    BY DEF Frame, IInv, HoldInv
  <2>5. ASSUME NEW s \in Stock, NEW h \in Holds, holdLock[h] = w, seats'[s].hold = h
        PROVE  seats'[s] = seats[s]
    BY <2>4, <2>5 DEF Frame
  <2>6. batch[w] \union freed[w] \subseteq Holds
    BY DEF IInv, TypeOK
  <2> QED BY <2>1, <2>2, <2>3, <2>4, <2>5, <2>6 DEF PassInv, IInv
<1> QED BY <1>1, <1>2, <1>3

(* So a step of p keeps the invariant if it keeps to its frame, keeps p's   *)
(* own part, and any rows it writes keep HoldOwnsItsSeats.                  *)
LEMMA OneKeeps ==
  ASSUME IInv, TypeOK', NEW p \in Procs, Frame(p), HoldOwnsItsSeats',
         p \in Holds => ReserveInv(p)',
         p \in Buyers => ConfirmInv(p)',
         p \in Workers => /\ PassInv(p)'
                          /\ \A h \in Holds : holdLock'[h] = p => holds'[h] = "ACTIVE"
  PROVE  IInv'
<1>1. HoldInv'
  <2>1. \A h \in captured' : holds'[h] # "NONE"
    BY DEF Frame, IInv, HoldInv, TypeOK
  <2>2. ASSUME NEW h \in Holds, holdLock'[h] # None PROVE holds'[h] = "ACTIVE"
    <3>1. CASE holdLock'[h] = p
      BY <3>1, <2>2, ProcessAssumption DEF TypeOK
    <3>2. CASE holdLock'[h] # p
      BY <3>2, <2>2 DEF Frame, IInv, HoldInv
    <3> QED BY <3>1, <3>2
  <2> QED BY <2>1, <2>2 DEF HoldInv
<1> QED BY <1>1, OthersKeep DEF IInv

LEMMA QuietRows ==
  ASSUME HoldOwnsItsSeats, UNCHANGED rows
  PROVE  HoldOwnsItsSeats'
BY DEF HoldOwnsItsSeats, SeatsOf, Want, rows

LEMMA GotoKeeps ==
  ASSUME TypeOK, NEW p \in Procs, NEW where, Goto(p, where)
  PROVE  pc'[p] = where /\ \A q \in Procs \ {p} : pc'[q] = pc[q]
BY DEF TypeOK, Goto

(* The frame of a step that writes no rows and locks no holds. *)
LEMMA QuietFrame ==
  ASSUME TypeOK, NEW p \in Procs, UNCHANGED <<seats, holds, captured, holdLock>>,
         \A q \in Procs \ {p} : pc'[q] = pc[q],
         \A q \in (Buyers \union Workers) \ {p} :
           target'[q] = target[q] /\ view'[q] = view[q],
         \A q \in Workers \ {p} : batch'[q] = batch[q] /\ freed'[q] = freed[q],
         \/ UNCHANGED rowLock
         \/ Unlock(p)
         \/ \E s \in Stock : rowLock[s] = None /\ rowLock' = [rowLock EXCEPT ![s] = p]
  PROVE  Frame(p)
<1>1. \A s \in Stock : /\ rowLock[s] = p => rowLock'[s] \in {p, None}
                       /\ rowLock[s] # p => \/ rowLock'[s] = rowLock[s]
                                            \/ rowLock[s] = None /\ rowLock'[s] = p
  BY DEF Unlock, TypeOK
<1> QED BY <1>1 DEF Frame

LEMMA SafeReserve ==
  ASSUME IInv, TypeOK', NEW h \in Holds, Reserve(h)
  PROVE  IInv'
<1> USE ProcessAssumption DEF rows, clock, locks, call, reading, pass
<1>o. /\ TypeOK /\ HoldOwnsItsSeats /\ ReserveInv(h) /\ h \in Procs
      /\ h \notin Buyers \union Workers
  BY DEF IInv, Procs
<1>t. SUFFICES Frame(h) /\ ReserveInv(h)' /\ HoldOwnsItsSeats'
  BY <1>o, OneKeeps
<1>1. CASE LookupHold(h)
  <2>1. Frame(h)
    BY <1>1, <1>o, GotoKeeps, QuietFrame DEF LookupHold
  <2>2. ReserveInv(h)'
    BY <1>1, <1>o DEF LookupHold, ReserveInv, Goto, TypeOK
  <2> QED BY <1>1, <1>o, <2>1, <2>2, QuietRows DEF LookupHold
<1>2. CASE CheckSeats(h)
  <2>1. Frame(h)
    BY <1>2, <1>o, GotoKeeps, QuietFrame DEF CheckSeats
  <2>2. ReserveInv(h)'
    BY <1>2, <1>o DEF CheckSeats, ReserveInv, Goto, TypeOK, Locked, Want
  <2> QED BY <1>2, <1>o, <2>1, <2>2, QuietRows DEF CheckSeats
<1>3. CASE InsertHold(h)
  <2>1. Frame(h)
    BY <1>3, <1>o, GotoKeeps, QuietFrame DEF InsertHold
  <2>2. ReserveInv(h)'
    BY <1>3, <1>o DEF InsertHold, ReserveInv, Goto, TypeOK, Want
  <2> QED BY <1>3, <1>o, <2>1, <2>2, QuietRows DEF InsertHold
<1>4. CASE CommitHold(h)
  <2>1. /\ holds[h] = "NONE" /\ Want(h) \subseteq Stock
        /\ \A s \in Want(h) : rowLock[s] = h /\ seats[s].hold = None
    BY <1>4, <1>o DEF CommitHold, ReserveInv, HoldOwnsItsSeats
  <2>2. /\ \A s \in Want(h) : seats'[s].hold = h /\ seats'[s].status = "HELD"
        /\ \A s \in Stock \ Want(h) : seats'[s] = seats[s]
    BY <1>4, <2>1 DEF CommitHold, HeldSeat
  <2>3. holds' = [holds EXCEPT ![h] = "ACTIVE"]
    BY <1>4 DEF CommitHold
  <2>4. Frame(h)
    <3>1. \A q \in Procs \ {h} : pc'[q] = pc[q]
      BY <1>4, <1>o, GotoKeeps DEF CommitHold
    <3>2. \A s \in Stock : /\ rowLock[s] # h => rowLock'[s] = rowLock[s]
                           /\ rowLock[s] = h => rowLock'[s] = None
      BY <1>4 DEF CommitHold, Unlock
    <3>3. \A s \in Stock : rowLock[s] # h => seats'[s] = seats[s]
      BY <2>1, <2>2
    <3>4. \A s \in Stock : seats'[s] # seats[s] =>
            seats[s].hold = None /\ holds[seats'[s].hold] = "NONE"
      BY <2>1, <2>2
    <3>5. holdLock' = holdLock /\ holdLock[h] = None
      BY <1>4, <2>1 DEF CommitHold, IInv, HoldInv
    <3>6. \A g \in Holds : holds'[g] = IF g = h THEN "ACTIVE" ELSE holds[g]
      BY <2>3 DEF IInv, TypeOK
    <3>7. UNCHANGED <<captured, target, view, batch, freed>>
      BY <1>4 DEF CommitHold
    <3> QED BY <2>1, <3>1, <3>2, <3>3, <3>4, <3>5, <3>6, <3>7 DEF Frame
  <2>5. ReserveInv(h)'
    BY <1>4, <1>o DEF CommitHold, ReserveInv, Goto, TypeOK
  <2>6. \A g \in Holds : SeatsOf(g)' = IF g = h THEN Want(h) ELSE SeatsOf(g)
    BY <1>o, <2>1, <2>2 DEF SeatsOf, HoldOwnsItsSeats
  <2>7. HoldOwnsItsSeats'
    <3>1. holds'[h] = "ACTIVE" /\ \A g \in Holds \ {h} : holds'[g] = holds[g]
      BY <2>3 DEF IInv, TypeOK
    <3>2. \A g \in Holds \ {h} : \A s \in SeatsOf(g) : seats'[s] = seats[s]
      BY <2>1, <2>2, <1>o DEF SeatsOf
    <3>3. ASSUME NEW s \in Stock
          PROVE  seats'[s].status = "AVAILABLE" <=> seats'[s].hold = None
      BY <1>o, <2>2 DEF HoldOwnsItsSeats
    <3>4. ASSUME NEW g \in Holds \ {h}
          PROVE  /\ holds'[g] = "ACTIVE" =>
                      /\ SeatsOf(g)' = Want(g)
                      /\ \A s \in SeatsOf(g)' : seats'[s].status = "HELD"
                 /\ holds'[g] = "CONFIRMED" =>
                      /\ SeatsOf(g)' = Want(g)
                      /\ \A s \in SeatsOf(g)' : seats'[s].status = "SOLD"
                 /\ holds'[g] \in {"NONE", "EXPIRED"} => SeatsOf(g)' = {}
      BY <1>o, <2>6, <3>1, <3>2 DEF HoldOwnsItsSeats
    <3>5. SeatsOf(h)' = Want(h) /\ \A s \in SeatsOf(h)' : seats'[s].status = "HELD"
      BY <2>2, <2>6
    <3> QED BY <3>1, <3>3, <3>4, <3>5 DEF HoldOwnsItsSeats, Want
  <2> QED BY <2>4, <2>5, <2>7
<1>5. CASE ReturnHold(h)
  <2>1. Frame(h)
    BY <1>5, <1>o, GotoKeeps, QuietFrame DEF ReturnHold
  <2>2. ReserveInv(h)'
    BY <1>5, <1>o DEF ReturnHold, ReserveInv, Goto, TypeOK
  <2> QED BY <1>5, <1>o, <2>1, <2>2, QuietRows DEF ReturnHold
<1>6. CASE CloseCall(h)
  <2>1. Frame(h)
    BY <1>6, <1>o, GotoKeeps, QuietFrame DEF CloseCall
  <2>2. ReserveInv(h)'
    BY <1>6, <1>o DEF CloseCall, ReserveInv, Goto, TypeOK
  <2> QED BY <1>6, <1>o, <2>1, <2>2, QuietRows DEF CloseCall
<1>7. ASSUME NEW s \in SeatIds, AcquireSeat(h, s)
      PROVE  Frame(h) /\ ReserveInv(h)' /\ HoldOwnsItsSeats'
  <2>1. Frame(h)
    BY <1>7, <1>o, GotoKeeps, QuietFrame DEF AcquireSeat
  <2>2. ReserveInv(h)'
    BY <1>7, <1>o DEF AcquireSeat, ReserveInv, Goto, TypeOK
  <2> QED BY <1>7, <1>o, <2>1, <2>2, QuietRows DEF AcquireSeat
<1>8. ASSUME NEW s \in SeatIds, ReleaseLock(h, s)
      PROVE  Frame(h) /\ ReserveInv(h)' /\ HoldOwnsItsSeats'
  <2>1. Frame(h)
    BY <1>8, <1>o, GotoKeeps, QuietFrame DEF ReleaseLock
  <2>2. ReserveInv(h)'
    BY <1>8, <1>o DEF ReleaseLock, ReserveInv, TypeOK, Want
  <2> QED BY <1>8, <1>o, <2>1, <2>2, QuietRows DEF ReleaseLock
<1>9. ASSUME NEW s \in Stock, LockRow(h, s)
      PROVE  Frame(h) /\ ReserveInv(h)' /\ HoldOwnsItsSeats'
  <2>1. Frame(h)
    BY <1>9, <1>o, GotoKeeps, QuietFrame DEF LockRow
  <2>2. ReserveInv(h)'
    BY <1>9, <1>o DEF LockRow, ReserveInv, TypeOK, Want
  <2> QED BY <1>9, <1>o, <2>1, <2>2, QuietRows DEF LockRow
<1> QED BY <1>1, <1>2, <1>3, <1>4, <1>5, <1>6, <1>7, <1>8, <1>9 DEF Reserve

LEMMA SafeConfirm ==
  ASSUME IInv, TypeOK', NEW c \in Buyers,
         Confirm(c) \/ \E h \in Holds : StartConfirm(c, h)
  PROVE  IInv'
<1> USE ProcessAssumption DEF rows, clock, locks, call, reading, pass
<1>o. /\ TypeOK /\ HoldOwnsItsSeats /\ ConfirmInv(c) /\ c \in Procs
      /\ c \notin Holds \union Workers
  BY DEF IInv, Procs
<1>t. SUFFICES Frame(c) /\ ConfirmInv(c)' /\ HoldOwnsItsSeats'
  BY <1>o, OneKeeps
<1>1. ASSUME NEW h \in Holds, StartConfirm(c, h)
      PROVE  Frame(c) /\ ConfirmInv(c)' /\ HoldOwnsItsSeats'
  <2>1. target'[c] = h /\ \A q \in (Buyers \union Workers) \ {c} : target'[q] = target[q]
    BY <1>1, <1>o DEF StartConfirm, TypeOK
  <2>2. Frame(c)
    BY <1>1, <1>o, <2>1, GotoKeeps, QuietFrame DEF StartConfirm
  <2>3. pc'[c] = "hold"
    BY <1>1, <1>o, GotoKeeps DEF StartConfirm
  <2>4. ConfirmInv(c)'
    BY <1>1, <1>o, <2>1, <2>3 DEF StartConfirm, ConfirmInv
  <2> QED BY <1>1, <1>o, <2>2, <2>4, QuietRows DEF StartConfirm
<1>2. CASE ReadHold(c)
  <2>1. Frame(c)
    BY <1>2, <1>o, GotoKeeps, QuietFrame DEF ReadHold
  <2>2. pc'[c] \in {"read", "rollback"}
    BY <1>2, <1>o, GotoKeeps DEF ReadHold
  <2>3. ConfirmInv(c)'
    BY <1>2, <1>o, <2>2 DEF ReadHold, ConfirmInv
  <2> QED BY <1>2, <1>o, <2>1, <2>3, QuietRows DEF ReadHold
<1>3. CASE ReadSeats(c)
  <2>1. /\ view'[c] = VersionsOf(target[c])
        /\ \A q \in (Buyers \union Workers) \ {c} : view'[q] = view[q]
    BY <1>3, <1>o DEF ReadSeats, TypeOK
  <2>2. Frame(c)
    BY <1>3, <1>o, <2>1, GotoKeeps, QuietFrame DEF ReadSeats
  <2>3. pc'[c] = IF SeatsOf(target[c]) = {} THEN "rollback" ELSE "update"
    BY <1>3, <1>o, GotoKeeps DEF ReadSeats
  <2>4. \A s \in Stock : seats[s].hold = target[c] => view'[c][s] > 0
    BY <1>o, <2>1 DEF VersionsOf, TypeOK, SeatRow
  <2>5. ConfirmInv(c)'
    BY <1>3, <1>o, <2>3, <2>4 DEF ReadSeats, ConfirmInv, SeatsOf
  <2> QED BY <1>3, <1>o, <2>2, <2>5, QuietRows DEF ReadSeats
<1>4. ASSUME NEW s \in Stock, ConfirmSeat(c, s)
      PROVE  Frame(c) /\ ConfirmInv(c)' /\ HoldOwnsItsSeats'
  <2>1. Frame(c)
    BY <1>4, <1>o, GotoKeeps, QuietFrame DEF ConfirmSeat
  <2>2. ASSUME StillHeld(s, target[c], view[c][s]),
               rowLock' = [rowLock EXCEPT ![s] = c],
               Goto(c, IF Pending(c) = {s} THEN "flush" ELSE "update")
        PROVE  ConfirmInv(c)'
    <3>1. rowLock'[s] = c /\ \A r \in Stock \ {s} : rowLock'[r] = rowLock[r]
      BY <2>2, <1>o DEF TypeOK
    <3>2. pc'[c] = IF Pending(c) = {s} THEN "flush" ELSE "update"
      BY <2>2, <1>o, GotoKeeps
    <3>3. Pending(c)' = Pending(c) \ {s}
      BY <1>4, <1>o, <3>1 DEF ConfirmSeat, Pending
    <3>4. UNCHANGED <<seats, captured, target, view>>
      BY <1>4 DEF ConfirmSeat
    <3>5. /\ seats[s].status = "HELD" /\ seats[s].version = view[c][s]
          /\ seats[s].hold = target[c]
      BY <2>2 DEF StillHeld
    <3> QED BY <1>4, <1>o, <3>1, <3>2, <3>3, <3>4, <3>5 DEF ConfirmSeat, ConfirmInv
  <2>3. ASSUME Goto(c, "rollback"), UNCHANGED rowLock
        PROVE  ConfirmInv(c)'
    <3>1. pc'[c] = "rollback"
      BY <2>3, <1>o, GotoKeeps
    <3> QED BY <1>4, <1>o, <2>3, <3>1 DEF ConfirmSeat, ConfirmInv
  <2>4. ConfirmInv(c)'
    BY <1>4, <2>2, <2>3 DEF ConfirmSeat
  <2> QED BY <1>4, <1>o, <2>1, <2>4, QuietRows DEF ConfirmSeat
<1>6. CASE RollbackConfirm(c)
  <2>1. Frame(c)
    BY <1>6, <1>o, GotoKeeps, QuietFrame DEF RollbackConfirm
  <2>2. pc'[c] = "lost"
    BY <1>6, <1>o, GotoKeeps DEF RollbackConfirm
  <2>3. ConfirmInv(c)'
    BY <1>6, <1>o, <2>2 DEF RollbackConfirm, ConfirmInv, Unlock
  <2> QED BY <1>6, <1>o, <2>1, <2>3, QuietRows DEF RollbackConfirm
<1>5. CASE CommitConfirm(c)
  <2>1. PICK h \in Holds : h = target[c] /\ holdLock[h] = None
    BY <1>5, <1>o DEF CommitConfirm, ConfirmInv, TypeOK
  <2>2. \A s \in Stock : rowLock[s] = c <=> seats[s].hold = h
    BY <1>5, <1>o, <2>1 DEF CommitConfirm, ConfirmInv, Pending
  <2>3. \E s \in Stock : rowLock[s] = c
    BY <1>5, <1>o DEF CommitConfirm, ConfirmInv, Pending
  <2>4. holds[h] = "ACTIVE" /\ SeatsOf(h) = Want(h)
    <3>1. PICK s \in Stock : rowLock[s] = c
      BY <2>3
    <3>2. seats[s].hold = h /\ seats[s].status = "HELD"
      BY <1>o, <2>1, <3>1 DEF ConfirmInv
    <3>3. s \in SeatsOf(h)
      BY <3>2 DEF SeatsOf
    <3>4. holds[h] \in {"NONE", "ACTIVE", "CONFIRMED", "EXPIRED"}
      BY <1>o, <2>1 DEF TypeOK
    <3> QED BY <1>o, <2>1, <3>2, <3>3, <3>4 DEF HoldOwnsItsSeats
  <2>5. \A s \in Stock : IF rowLock[s] = c
          THEN seats'[s].status = "SOLD" /\ seats'[s].hold = h
          ELSE seats'[s] = seats[s]
    BY <1>5, <2>1, <2>2 DEF CommitConfirm, SoldSeat
  <2>6. \A g \in Holds : holds'[g] = IF g = h THEN "CONFIRMED" ELSE holds[g]
    BY <1>5, <1>o, <2>1 DEF CommitConfirm, TypeOK
  <2>7. \A g \in Holds : SeatsOf(g)' = SeatsOf(g)
    BY <2>2, <2>5 DEF SeatsOf
  <2>8. Frame(c)
    <3>1. \A q \in Procs \ {c} : pc'[q] = pc[q]
      BY <1>5, <1>o, GotoKeeps DEF CommitConfirm
    <3>2. \A s \in Stock : /\ rowLock[s] # c => rowLock'[s] = rowLock[s]
                           /\ rowLock[s] = c => rowLock'[s] = None
      BY <1>5 DEF CommitConfirm, Unlock
    <3>3. \A s \in Stock : seats'[s] # seats[s] =>
            seats[s].hold = h /\ seats'[s].hold = h
      BY <2>2, <2>5
    <3>4. UNCHANGED <<captured, holdLock, target, view, batch, freed>>
      BY <1>5 DEF CommitConfirm
    <3> QED BY <2>1, <2>4, <2>5, <2>6, <3>1, <3>2, <3>3, <3>4 DEF Frame
  <2>9. ConfirmInv(c)'
    <3>1. pc'[c] = "sold"
      BY <1>5, <1>o, GotoKeeps DEF CommitConfirm
    <3> QED BY <1>5, <1>o, <3>1 DEF CommitConfirm, ConfirmInv, Unlock
  <2>10. HoldOwnsItsSeats'
    <3>1. ASSUME NEW s \in Stock
          PROVE  seats'[s].status = "AVAILABLE" <=> seats'[s].hold = None
      BY <1>o, <2>1, <2>5 DEF HoldOwnsItsSeats
    <3>2. ASSUME NEW g \in Holds \ {h}
          PROVE  /\ holds'[g] = "ACTIVE" =>
                      /\ SeatsOf(g)' = Want(g)
                      /\ \A s \in SeatsOf(g)' : seats'[s].status = "HELD"
                 /\ holds'[g] = "CONFIRMED" =>
                      /\ SeatsOf(g)' = Want(g)
                      /\ \A s \in SeatsOf(g)' : seats'[s].status = "SOLD"
                 /\ holds'[g] \in {"NONE", "EXPIRED"} => SeatsOf(g)' = {}
      <4>1. \A s \in SeatsOf(g) : seats'[s] = seats[s]
        BY <2>2, <2>5 DEF SeatsOf
      <4> QED BY <1>o, <2>6, <2>7, <4>1 DEF HoldOwnsItsSeats
    <3>3. SeatsOf(h)' = Want(h) /\ \A s \in SeatsOf(h) : seats'[s].status = "SOLD"
      <4>1. \A s \in SeatsOf(h) : s \in Stock /\ rowLock[s] = c
        BY <2>2 DEF SeatsOf
      <4> QED BY <2>1, <2>4, <2>5, <2>7, <4>1
    <3> QED BY <2>1, <2>6, <2>7, <3>1, <3>2, <3>3 DEF HoldOwnsItsSeats, Want
  <2> QED BY <2>8, <2>9, <2>10
<1> QED BY <1>1, <1>2, <1>3, <1>4, <1>5, <1>6 DEF Confirm

(* The end of a pass keeps its frame, given that of the rows it has written. *)
LEMMA SafeEndPass ==
  ASSUME IInv, TypeOK', NEW w \in Workers, EndPass(w), HoldOwnsItsSeats',
         \A s \in Stock : /\ rowLock[s] # w => seats'[s] = seats[s]
                          /\ seats'[s] # seats[s] =>
                               /\ holdLock[seats[s].hold] = w
                               /\ seats'[s].hold = None,
         \A h \in Holds : holds'[h] # holds[h] => /\ holdLock[h] = w
                                                 /\ holds'[h] = "EXPIRED"
  PROVE  IInv'
<1> USE ProcessAssumption DEF rows, clock, locks, call, reading, pass
<1>o. TypeOK /\ HoldInv /\ w \in Procs /\ w \notin Holds \union Buyers /\ w # None
  BY DEF IInv, Procs
<1>1. pc'[w] = "idle" /\ \A q \in Procs \ {w} : pc'[q] = pc[q]
  BY <1>o, GotoKeeps DEF EndPass
<1>2. \A s \in Stock : rowLock'[s] = IF rowLock[s] = w THEN None ELSE rowLock[s]
  BY DEF EndPass, Unlock
<1>3. \A h \in Holds : holdLock'[h] = IF holdLock[h] = w THEN None ELSE holdLock[h]
  BY DEF EndPass
<1>4. /\ batch'[w] = {} /\ freed'[w] = {}
      /\ \A q \in Workers \ {w} : batch'[q] = batch[q] /\ freed'[q] = freed[q]
  BY <1>o DEF EndPass, TypeOK
<1>5. \A q \in (Buyers \union Workers) \ {w} : target'[q] = target[q] /\ view'[q] = view[q]
  BY <1>o DEF EndPass, TypeOK
<1>6. captured' = captured
  BY DEF EndPass
<1>7. Frame(w)
  <2>1. \A h \in Holds : holds[h] = "NONE" => holds'[h] = "NONE"
    BY <1>o DEF HoldInv
  <2> QED BY <1>1, <1>2, <1>3, <1>4, <1>5, <1>6, <2>1 DEF Frame
<1>8. PassInv(w)'
  BY <1>o, <1>1, <1>2, <1>4 DEF PassInv
<1> QED BY <1>o, <1>3, <1>7, <1>8, OneKeeps

LEMMA SafePass ==
  ASSUME IInv, TypeOK', NEW w \in Workers, ExpirePass(w)
  PROVE  IInv'
<1> USE ProcessAssumption DEF rows, clock, locks, call, reading, pass
<1>o. /\ TypeOK /\ HoldOwnsItsSeats /\ PassInv(w) /\ w \in Procs /\ HoldInv
      /\ w \notin Holds \union Buyers /\ w # None
  BY DEF IInv, Procs
<1>q. ASSUME Frame(w), PassInv(w)', UNCHANGED <<rows, holdLock>>
      PROVE  IInv'
  BY <1>o, <1>q, OneKeeps, QuietRows DEF HoldInv
<1>1. CASE SelectExpired(w)
  <2>1. PICK B \in SUBSET {h \in Holds : Due(h)} :
          /\ batch' = [batch EXCEPT ![w] = B]
          /\ holdLock' = [h \in Holds |-> IF h \in B THEN w ELSE holdLock[h]]
    BY <1>1 DEF SelectExpired
  <2>2. pc[w] = "idle" /\ pc'[w] = "examine" /\ \A q \in Procs \ {w} : pc'[q] = pc[q]
    BY <1>1, <1>o, GotoKeeps DEF SelectExpired
  <2>3. batch'[w] = B /\ \A q \in Workers \ {w} : batch'[q] = batch[q]
    BY <2>1, <1>o DEF TypeOK
  <2>4. \A h \in B : h \in Holds /\ holdLock[h] = None /\ holds[h] = "ACTIVE"
    BY DEF Due
  <2>5. UNCHANGED <<seats, holds, captured, rowLock, target, view, freed>>
    BY <1>1 DEF SelectExpired
  <2>6. \A h \in Holds : holdLock'[h] = IF h \in B THEN w ELSE holdLock[h]
    BY <2>1
  <2>7. Frame(w)
    BY <2>2, <2>3, <2>4, <2>5, <2>6 DEF Frame
  <2>8. PassInv(w)'
    BY <1>o, <2>2, <2>3, <2>4, <2>5, <2>6 DEF PassInv
  <2>9. \A h \in Holds : holdLock'[h] = w => holds'[h] = "ACTIVE"
    BY <1>o, <2>4, <2>5, <2>6 DEF HoldInv
  <2>10. HoldOwnsItsSeats'
    BY <1>o, <2>5, QuietRows
  <2> QED BY <1>o, <2>7, <2>8, <2>9, <2>10, OneKeeps
<1>2. ASSUME NEW h \in Holds, Examine(w, h) PROVE IInv'
  <2>1. /\ target'[w] = h /\ batch'[w] = batch[w] \ {h}
        /\ \A q \in (Buyers \union Workers) \ {w} : target'[q] = target[q]
        /\ \A q \in Workers \ {w} : batch'[q] = batch[q]
    BY <1>2, <1>o DEF Examine, TypeOK
  <2>2. Frame(w)
    BY <1>2, <1>o, <2>1, GotoKeeps, QuietFrame DEF Examine
  <2>3. pc[w] = "examine" /\ pc'[w] \in {"examine", "scan"} /\ h \in batch[w]
    BY <1>2, <1>o, GotoKeeps DEF Examine, IsFirst
  <2>4. UNCHANGED <<seats, rowLock, holdLock, view, freed>>
    BY <1>2 DEF Examine
  <2>5. PassInv(w)'
    BY <1>o, <2>1, <2>3, <2>4 DEF PassInv
  <2> QED BY <1>2, <1>q, <2>2, <2>5 DEF Examine
<1>3. CASE ScanSeats(w)
  <2>1. /\ \A s \in Stock : view'[w][s] = IF rowLock[s] = w THEN view[w][s]
                                           ELSE VersionsOf(target[w])[s]
        /\ \A q \in (Buyers \union Workers) \ {w} : view'[q] = view[q]
    BY <1>3, <1>o DEF ScanSeats, TypeOK
  <2>2. Frame(w)
    BY <1>3, <1>o, <2>1, GotoKeeps, QuietFrame DEF ScanSeats
  <2>3. pc[w] = "scan" /\ pc'[w] = "free"
    BY <1>3, <1>o, GotoKeeps DEF ScanSeats
  <2>4. UNCHANGED <<seats, rowLock, holdLock, target, batch, freed>>
    BY <1>3 DEF ScanSeats
  <2>5. PassInv(w)'
    BY <1>o, <2>1, <2>3, <2>4 DEF PassInv, VersionsOf
  <2> QED BY <1>3, <1>q, <2>2, <2>5 DEF ScanSeats
<1>4. ASSUME NEW s \in Stock, FreeSeat(w, s) PROVE IInv'
  <2>1. pc[w] = "free" /\ s \in Pending(w) /\ rowLock[s] = None
    BY <1>4 DEF FreeSeat, IsFirst
  <2>2. UNCHANGED <<seats, holds, captured, holdLock, pc, target, batch, freed>>
    BY <1>4 DEF FreeSeat
  <2>3. CASE seats[s].hold = target[w] /\ rowLock' = [rowLock EXCEPT ![s] = w]
             /\ UNCHANGED view
    <3>1. rowLock'[s] = w /\ \A r \in Stock \ {s} : rowLock'[r] = rowLock[r]
      BY <2>3, <1>o DEF TypeOK
    <3>2. PassInv(w)'
      BY <1>o, <2>1, <2>2, <2>3, <3>1 DEF PassInv
    <3>3. Frame(w)
      BY <1>o, <2>1, <2>2, <2>3, QuietFrame
    <3> QED BY <1>q, <2>2, <3>2, <3>3
  <2>4. CASE seats[s].hold # target[w] /\ view' = [view EXCEPT ![w][s] = 0]
             /\ UNCHANGED rowLock
    <3>1. \A r \in Stock \ {s} : view'[w][r] = view[w][r]
      BY <2>4, <1>o DEF TypeOK
    <3>2. \A q \in (Buyers \union Workers) \ {w} : view'[q] = view[q]
      BY <2>4, <1>o DEF TypeOK
    <3>3. PassInv(w)'
      BY <1>o, <2>1, <2>2, <2>4, <3>1 DEF PassInv
    <3>4. Frame(w)
      BY <1>o, <2>2, <2>4, <3>2, QuietFrame
    <3> QED BY <1>q, <2>2, <3>3, <3>4
  <2> QED BY <1>4, <2>3, <2>4 DEF FreeSeat
<1>5. CASE MarkExpired(w)
  <2>1. /\ freed'[w] = freed[w] \union {target[w]}
        /\ \A q \in Workers \ {w} : freed'[q] = freed[q]
    BY <1>5, <1>o DEF MarkExpired, TypeOK
  <2>2. Frame(w)
    BY <1>5, <1>o, <2>1, GotoKeeps, QuietFrame DEF MarkExpired
  <2>3. pc[w] = "free" /\ pc'[w] \in {"examine", "ungate"} /\ Pending(w) = {}
    BY <1>5, <1>o, GotoKeeps DEF MarkExpired
  <2>4. \A s \in Stock : seats[s].hold = target[w] => rowLock[s] = w
    BY <1>o, <2>3 DEF PassInv, Pending, TypeOK, SeatRow
  <2>5. UNCHANGED <<seats, rowLock, holdLock, target, view, batch>>
    BY <1>5 DEF MarkExpired
  <2>6. PassInv(w)'
    BY <1>o, <2>1, <2>3, <2>4, <2>5 DEF PassInv
  <2> QED BY <1>5, <1>q, <2>2, <2>6 DEF MarkExpired
<1>6. ASSUME NEW s \in SeatIds, ReleaseExpiredLock(w, s) PROVE IInv'
  <2>1. Frame(w)
    BY <1>6, <1>o, GotoKeeps, QuietFrame DEF ReleaseExpiredLock
  <2>2. pc[w] = "ungate" /\ pc'[w] \in {"examine", "ungate"}
    BY <1>6, <1>o, GotoKeeps DEF ReleaseExpiredLock
  <2>3. UNCHANGED <<seats, rowLock, holdLock, target, view, batch, freed>>
    BY <1>6 DEF ReleaseExpiredLock
  <2>4. PassInv(w)'
    BY <1>o, <2>2, <2>3 DEF PassInv
  <2> QED BY <1>6, <1>q, <2>1, <2>4 DEF ReleaseExpiredLock
<1>7. CASE CommitPass(w)
  <2>1. \A s \in Stock : rowLock[s] = w <=> seats[s].hold \in freed[w]
    BY <1>7, <1>o DEF CommitPass, PassInv
  <2>2. \A h \in freed[w] : h \in Holds /\ holdLock[h] = w /\ holds[h] = "ACTIVE"
    BY <1>o DEF PassInv, HoldInv, TypeOK
  <2>3. \A s \in Stock : IF rowLock[s] = w
          THEN seats'[s].hold = None /\ seats'[s].status = "AVAILABLE"
          ELSE seats'[s] = seats[s]
    BY <1>7 DEF CommitPass, FreeSeatRow
  <2>4. \A h \in Holds : holds'[h] = IF h \in freed[w] THEN "EXPIRED" ELSE holds[h]
    BY <1>7 DEF CommitPass
  <2>5. \A h \in Holds : SeatsOf(h)' = IF h \in freed[w] THEN {} ELSE SeatsOf(h)
    BY <1>o, <2>1, <2>3 DEF SeatsOf
  <2>6. HoldOwnsItsSeats'
    <3>1. ASSUME NEW s \in Stock
          PROVE  seats'[s].status = "AVAILABLE" <=> seats'[s].hold = None
      BY <1>o, <2>3 DEF HoldOwnsItsSeats
    <3>2. ASSUME NEW h \in Holds \ freed[w]
          PROVE  /\ holds'[h] = "ACTIVE" =>
                      /\ SeatsOf(h)' = Want(h)
                      /\ \A s \in SeatsOf(h)' : seats'[s].status = "HELD"
                 /\ holds'[h] = "CONFIRMED" =>
                      /\ SeatsOf(h)' = Want(h)
                      /\ \A s \in SeatsOf(h)' : seats'[s].status = "SOLD"
                 /\ holds'[h] \in {"NONE", "EXPIRED"} => SeatsOf(h)' = {}
      <4>1. \A s \in SeatsOf(h) : seats'[s] = seats[s]
        BY <2>1, <2>3 DEF SeatsOf
      <4> QED BY <1>o, <2>4, <2>5, <4>1 DEF HoldOwnsItsSeats
    <3> QED BY <2>4, <2>5, <3>1, <3>2 DEF HoldOwnsItsSeats, Want
  <2>7. EndPass(w)
    BY <1>7 DEF CommitPass
  <2> QED BY <2>1, <2>2, <2>3, <2>4, <2>6, <2>7, SafeEndPass
<1> QED BY <1>1, <1>2, <1>3, <1>4, <1>5, <1>6, <1>7 DEF ExpirePass

LEMMA SafeFail ==
  ASSUME IInv, TypeOK', NEW p \in Procs, Fail(p)
  PROVE  IInv'
<1> USE ProcessAssumption DEF rows, clock, locks, call, reading, pass
<1>o. TypeOK /\ HoldOwnsItsSeats
  BY DEF IInv
<1>1. CASE p \in Holds /\ FailReserve(p)
  <2>1. Frame(p) /\ pc'[p] = "ungate"
    BY <1>1, <1>o, GotoKeeps, QuietFrame DEF FailReserve
  <2>2. ReserveInv(p)'
    BY <2>1 DEF ReserveInv
  <2>3. HoldOwnsItsSeats'
    BY <1>1, <1>o, QuietRows DEF FailReserve
  <2> QED BY <1>1, <2>1, <2>2, <2>3, OneKeeps
<1>2. CASE p \in Buyers /\ FailConfirm(p)
  <2>1. Frame(p) /\ pc[p] # "idle" /\ pc'[p] = "failed"
    BY <1>2, <1>o, GotoKeeps, QuietFrame DEF FailConfirm
  <2>2. \A s \in Stock : rowLock'[s] # p
    BY <1>2 DEF FailConfirm, Unlock, Procs
  <2>3. ConfirmInv(p)'
    BY <1>2, <2>1, <2>2 DEF FailConfirm, ConfirmInv, IInv
  <2>4. HoldOwnsItsSeats'
    BY <1>2, <1>o, QuietRows DEF FailConfirm
  <2> QED BY <1>2, <2>1, <2>3, <2>4, OneKeeps
<1>3. CASE p \in Workers /\ FailPass(p)
  <2>1. UNCHANGED rows /\ EndPass(p)
    BY <1>3 DEF FailPass
  <2> QED BY <1>3, <1>o, <2>1, QuietRows, SafeEndPass
<1> QED BY <1>1, <1>2, <1>3 DEF Fail

LEMMA SafeAbort ==
  ASSUME IInv, TypeOK', NEW h \in Holds, FailGate(h) \/ Crash(h)
  PROVE  IInv'
<1> USE ProcessAssumption DEF rows, clock, locks, call, reading, pass
<1>1. TypeOK /\ HoldOwnsItsSeats /\ h \in Procs
  BY DEF IInv, Procs
<1>2. Frame(h) /\ pc'[h] \in {"raised", "crashed"}
  BY <1>1, GotoKeeps, QuietFrame DEF FailGate, Crash
<1>3. ReserveInv(h)'
  BY <1>2 DEF ReserveInv
<1>4. HoldOwnsItsSeats'
  BY <1>1, QuietRows DEF FailGate, Crash
<1> QED BY <1>1, <1>2, <1>3, <1>4, OneKeeps

(* Payments, the clock and the TTLs touch nothing that the invariant is     *)
(* about, except that a paid hold exists.                                   *)
LEMMA SafeEnvironment ==
  ASSUME IInv, TypeOK', Environment \/ UNCHANGED vars
  PROVE  IInv'
<1> USE DEF rows, clock, locks, call, reading, pass
<1>1. UNCHANGED <<seats, holds, rowLock, holdLock, pc, target, view, batch, freed>>
  BY DEF Environment, Capture, Lapse, GateTtl, vars
<1>2. captured \subseteq captured' /\ \A h \in captured' : holds[h] # "NONE"
  BY DEF Environment, Capture, Lapse, GateTtl, vars, IInv, HoldInv
<1>3. HoldOwnsItsSeats'
  BY <1>1, QuietRows DEF IInv
<1>4. HoldInv'
  BY <1>1, <1>2 DEF HoldInv, IInv
<1>5. ASSUME NEW h \in Holds PROVE ReserveInv(h)'
  BY <1>1 DEF ReserveInv, IInv, Want
<1>6. ASSUME NEW c \in Buyers PROVE ConfirmInv(c)'
  BY <1>1, <1>2 DEF ConfirmInv, Pending, IInv
<1>7. ASSUME NEW w \in Workers PROVE PassInv(w)'
  BY <1>1 DEF PassInv, IInv
<1> QED BY <1>3, <1>4, <1>5, <1>6, <1>7 DEF IInv

(* Only three actions write the seats. *)
LEMMA SeatWriters ==
  ASSUME [Next]_vars, seats' # seats
  PROVE  \/ \E h \in Holds : CommitHold(h)
         \/ \E c \in Buyers : CommitConfirm(c)
         \/ \E w \in Workers : CommitPass(w)
<1> USE DEF rows
<1>1. ASSUME NEW h \in Holds, Reserve(h) PROVE CommitHold(h)
  BY <1>1 DEF Reserve, LookupHold, CheckSeats, InsertHold, ReturnHold, CloseCall,
              AcquireSeat, ReleaseLock, LockRow
<1>2. ASSUME NEW c \in Buyers, Confirm(c) PROVE CommitConfirm(c)
  BY <1>2 DEF Confirm, ReadHold, ReadSeats, RollbackConfirm, ConfirmSeat
<1>3. ASSUME NEW w \in Workers, ExpirePass(w) PROVE CommitPass(w)
  BY <1>3 DEF ExpirePass, SelectExpired, ScanSeats, MarkExpired, Examine, FreeSeat,
              ReleaseExpiredLock
<1>4. ASSUME NEW p \in Procs, Fault(p) \/ DeadlockVictim(p) PROVE FALSE
  BY <1>4 DEF Fault, DeadlockVictim, Fail, FailReserve, FailConfirm, FailPass
<1>5. ASSUME NEW h \in Holds, FailGate(h) \/ Crash(h) \/ \E c \in Buyers : StartConfirm(c, h)
      PROVE  FALSE
  BY <1>5 DEF FailGate, Crash, StartConfirm
<1>6. CASE Environment \/ UNCHANGED vars
  BY <1>6 DEF Environment, Capture, Lapse, GateTtl, vars
<1> QED BY <1>1, <1>2, <1>3, <1>4, <1>5, <1>6 DEF Next

(* Each of them writes rows that it has locked as it read them, none SOLD.  *)
LEMMA SafeSeatStep == IInv /\ [Next]_vars => [SeatStep]_vars
<1> SUFFICES ASSUME IInv, [Next]_vars, seats' # seats PROVE SeatStep
  BY DEF SeatStep
<1>t. \A s \in Stock : seats[s].version \in Nat
  BY DEF IInv, TypeOK, SeatRow
<1>1. ASSUME NEW h \in Holds, CommitHold(h) PROVE SeatStep
  <2>1. \A s \in Stock \intersect Want(h) : seats[s].status = "AVAILABLE"
    BY <1>1 DEF CommitHold, IInv, ReserveInv
  <2> QED BY <1>1, <1>t, <2>1 DEF CommitHold, HeldSeat, SeatStep
<1>2. ASSUME NEW c \in Buyers, CommitConfirm(c) PROVE SeatStep
  <2>1. \A s \in Stock : rowLock[s] = c => /\ seats[s].status = "HELD"
                                          /\ view[c][s] = seats[s].version
    BY DEF IInv, ConfirmInv
  <2> QED BY <1>2, <1>t, <2>1 DEF CommitConfirm, SoldSeat, SeatStep
<1>3. ASSUME NEW w \in Workers, CommitPass(w) PROVE SeatStep
  <2>1. ASSUME NEW s \in Stock, rowLock[s] = w
        PROVE  seats[s].status = "HELD" /\ view[w][s] = seats[s].version
    <3>1. seats[s].hold \in freed[w] /\ view[w][s] = seats[s].version
      BY <1>3, <2>1 DEF CommitPass, IInv, PassInv
    <3>2. PICK h \in Holds : seats[s].hold = h /\ holdLock[h] = w
      BY <3>1 DEF IInv, PassInv, TypeOK
    <3>3. holds[h] = "ACTIVE"
      BY <3>2, ProcessAssumption DEF IInv, HoldInv
    <3> QED BY <3>1, <3>2, <3>3 DEF IInv, HoldOwnsItsSeats, SeatsOf
  <2> QED BY <1>3, <1>t, <2>1 DEF CommitPass, FreeSeatRow, SeatStep
<1> QED BY <1>1, <1>2, <1>3, SeatWriters

LEMMA InitInv == Init => IInv
<1> SUFFICES ASSUME Init PROVE IInv
  OBVIOUS
<1> USE ProcessAssumption
<1>1. \A p \in Procs : pc[p] = "idle"
  BY DEF Init
<1>2. HoldOwnsItsSeats
  BY DEF Init, HoldOwnsItsSeats, SeatsOf
<1>3. HoldInv /\ \A h \in Holds : ReserveInv(h)
  BY <1>1 DEF Init, HoldInv, ReserveInv, Procs
<1>4. \A c \in Buyers : ConfirmInv(c)
  BY <1>1 DEF Init, ConfirmInv, Procs
<1>5. \A w \in Workers : PassInv(w)
  BY <1>1 DEF Init, PassInv, Procs
<1> QED BY <1>2, <1>3, <1>4, <1>5, TypeInit DEF IInv

LEMMA NextInv == IInv /\ [Next]_vars => IInv'
<1> SUFFICES ASSUME IInv, [Next]_vars PROVE IInv'
  OBVIOUS
<1>t. TypeOK'
  BY TypeNext DEF IInv, PassInv
<1>1. ASSUME NEW h \in Holds, Reserve(h) PROVE IInv'
  BY <1>t, <1>1, SafeReserve
<1>2. ASSUME NEW h \in Holds, FailGate(h) \/ Crash(h) PROVE IInv'
  BY <1>t, <1>2, SafeAbort
<1>3. ASSUME NEW c \in Buyers, Confirm(c) \/ \E h \in Holds : StartConfirm(c, h)
      PROVE  IInv'
  BY <1>t, <1>3, SafeConfirm
<1>4. ASSUME NEW w \in Workers, ExpirePass(w) PROVE IInv'
  BY <1>t, <1>4, SafePass
<1>5. ASSUME NEW p \in Procs, Fault(p) \/ DeadlockVictim(p) PROVE IInv'
  BY <1>t, <1>5, SafeFail DEF Fault, DeadlockVictim
<1>6. CASE Environment \/ UNCHANGED vars
  BY <1>t, <1>6, SafeEnvironment
<1> QED BY <1>1, <1>2, <1>3, <1>4, <1>5, <1>6 DEF Next

-----------------------------------------------------------------------------
(* Theorems                                                                 *)

(* The inductive invariant holds in every behaviour of the calls, the       *)
(* worker, the faults and the clock.                                        *)
THEOREM Invariance == Spec => []IInv
BY InitInv, NextInv, PTL DEF Spec

(* No call writes a row outside its column types or the CHECK of version.   *)
THEOREM TypeCorrect == Spec => []TypeOK
<1>1. IInv => TypeOK
  BY DEF IInv
<1> QED BY <1>1, Invariance, PTL

(* Seats and holds never disagree, whatever the number of seats, shoppers,  *)
(* buyers and workers: reserve, confirm and expiry lock different rows, and *)
(* still no interleaving of them leaves a seat held without its hold.       *)
THEOREM SeatsAgreeWithHolds == Spec => []HoldOwnsItsSeats
<1>1. IInv => HoldOwnsItsSeats
  BY DEF IInv
<1> QED BY <1>1, Invariance, PTL

(* A sold seat never changes again, and every change of a seat raises its   *)
(* version: no confirm can mistake a seat that was freed and held again for *)
(* the one it read.                                                         *)
THEOREM SaleIsFinal == Spec => SoldIsForever
BY Invariance, SafeSeatStep, PTL DEF Spec, SoldIsForever
=============================================================================
