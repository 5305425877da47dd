--------------------------- MODULE SeatInventory ---------------------------
(***************************************************************************)
(* Assigned seats: the reserve calls of inventory/service.py behind the    *)
(* Redis gate of inventory/locking.py, the optimistic confirm of           *)
(* checkout/finalizer.py, and the expiry pass of the worker.               *)
(*                                                                         *)
(* Postgres runs at READ COMMITTED.  A transaction's writes are applied in *)
(* the step that commits it; the row locks it takes on the way are         *)
(* explicit, and a step that needs a lock another transaction has is not   *)
(* enabled.  Every await of the code separates two actions.                *)
(***************************************************************************)
EXTENDS Naturals, FiniteSets

CONSTANTS SeatIds,    \* seat ids a client may ask for
          Stock,      \* those that exist in the match
          Holds,      \* reserve calls; a call's hold id and gate token is itself
          Req,        \* Req[h]: what the client of call h sends, and whether
                      \* the client ever pays for what it gets
          Buyers,     \* calls that confirm a hold for a paid order
          Workers,    \* worker processes
          BatchSize,  \* settings.worker_batch_size
          MaxFaults,  \* bound on database errors and crashes
          None        \* NULL

ASSUME ResourceAssumption ==
  /\ SeatIds \subseteq Nat /\ Stock \subseteq SeatIds
  /\ Holds \subseteq Nat
  /\ BatchSize \in Nat /\ MaxFaults \in Nat

ASSUME RequestAssumption ==
  \A h \in Holds : /\ Req[h].seats \subseteq SeatIds /\ Req[h].seats # {}
                  /\ Req[h].pays \in BOOLEAN

ASSUME ProcessAssumption ==
  /\ Holds \intersect Buyers = {}
  /\ Holds \intersect Workers = {}
  /\ Buyers \intersect Workers = {}
  /\ None \notin Holds \union Buyers \union Workers

Procs == Holds \union Buyers \union Workers

VARIABLES
  seats,     \* the seats rows: [status, hold, version]
  holds,     \* status of each holds row, "NONE" while it does not exist
  expiry,    \* "running", then "lapsed" or, if paid for by then, "lapsed_paid"
  captured,  \* the holds whose order has a captured payment
  gate,      \* the Redis locks: the token under each seat's key, or None
  rowLock,   \* the transaction that has each seats row locked, or None
  holdLock,  \* the worker that has each holds row locked, or None
  pc,        \* where each call stands
  got,       \* gate locks a call has acquired, or still has to release
  answer,    \* the hold a finished reserve call returned, or None
  target,    \* the hold a buyer or worker is working on
  view,      \* the seat versions it has read; 0 for a seat it did not read
  batch,     \* the holds a worker has locked and not yet examined
  freed,     \* the holds a worker has expired in its open transaction
  faults     \* errors and crashes so far

vars == <<seats, holds, expiry, captured, gate, rowLock, holdLock, pc, got,
          answer, target, view, batch, freed, faults>>

rows == <<seats, holds>>
clock == <<expiry, captured>>
locks == <<rowLock, holdLock>>
call == <<got, answer>>
reading == <<target, view>>
pass == <<batch, freed>>

Want(h) == Req[h].seats
NotRead == [s \in Stock |-> 0]

(* Operators with a name that starts with Bug are mutated forms of the      *)
(* definition that follows them; no action uses them.  Each one makes a     *)
(* property of this module fail.                                            *)

(* Bug: nothing is sorted. *)
BugAnyOrder(x, S) == x \in S

(* ORDER BY id, and the sorted(set(seat_ids)) of ordered_seat_ids. *)
IsFirst(x, S) == x \in S /\ \A y \in S : x <= y

(* The rows a transaction read and has not written yet. *)
Pending(p) == {s \in Stock : view[p][s] > 0 /\ rowLock[s] # p}

SeatsOf(h) == {s \in Stock : seats[s].hold = h}
Locked(p) == {s \in Stock : rowLock[s] = p}

(* Bug: a session is left open, with its row locks. *)
BugSessionLeak(p) == UNCHANGED rowLock

Unlock(p) == rowLock' = [s \in Stock |-> IF rowLock[s] = p THEN None ELSE rowLock[s]]

Init ==
  /\ seats = [s \in Stock |-> [status |-> "AVAILABLE", hold |-> None, version |-> 1]]
  /\ holds = [h \in Holds |-> "NONE"]
  /\ expiry = [h \in Holds |-> "running"]
  /\ captured = {}
  /\ gate = [s \in SeatIds |-> None]
  /\ rowLock = [s \in Stock |-> None]
  /\ holdLock = [h \in Holds |-> None]
  /\ pc = [p \in Procs |-> "idle"]
  /\ got = [p \in Holds \union Workers |-> {}]
  /\ answer = [h \in Holds |-> None]
  /\ target = [p \in Buyers \union Workers |-> None]
  /\ view = [p \in Buyers \union Workers |-> NotRead]
  /\ batch = [w \in Workers |-> {}]
  /\ freed = [w \in Workers |-> {}]
  /\ faults = 0

-----------------------------------------------------------------------------
(* reserve: the replay check, then the gate, seat by seat in id order.     *)

Goto(p, where) == pc' = [pc EXCEPT ![p] = where]

SameKey(g, h) == Req[g].key = Req[h].key

LookupHold(h) ==
  /\ pc[h] = "idle"
  /\ \/ /\ \A g \in Holds : SameKey(g, h) => holds[g] = "NONE"
        /\ Goto(h, "gate")
        /\ UNCHANGED answer
     \/ \E g \in Holds :
          /\ SameKey(g, h) /\ holds[g] # "NONE"
          /\ Goto(h, "done")
          /\ answer' = [answer EXCEPT ![h] =
                          IF Req[g].session = Req[h].session THEN g ELSE None]
  /\ UNCHANGED <<rows, clock, gate, locks, got, reading, pass, faults>>

AcquireSeat(h, s) ==
  /\ pc[h] = "gate"
  /\ IsFirst(s, Want(h) \ got[h])
  /\ \/ /\ gate[s] = None
        /\ gate' = [gate EXCEPT ![s] = h]
        /\ got' = [got EXCEPT ![h] = @ \union {s}]
        /\ Goto(h, IF Want(h) \subseteq got[h] \union {s} THEN "rows" ELSE "gate")
     \/ /\ gate[s] # None
        /\ Goto(h, "ungate")
        /\ UNCHANGED <<gate, got>>
  /\ UNCHANGED <<rows, clock, locks, answer, reading, pass, faults>>

(* Bug: DEL without comparing the token; release_all that does nothing. *)
BugDropAny(s, token) == gate' = [gate EXCEPT ![s] = None]
BugKeepLock(s, token) == UNCHANGED gate

(* The compare-and-delete script: only the token that took a lock drops it. *)
DropLock(s, token) == gate' = IF gate[s] = token THEN [gate EXCEPT ![s] = None] ELSE gate

(* release_all; the session, and with it any row lock, closes with the call. *)
ReleaseLock(h, s) ==
  /\ pc[h] = "ungate" /\ s \in got[h]
  /\ DropLock(s, h)
  /\ got' = [got EXCEPT ![h] = @ \ {s}]
  /\ UNCHANGED <<rows, clock, locks, pc, answer, reading, pass, faults>>

CloseCall(h) ==
  /\ pc[h] = "ungate" /\ got[h] = {}
  /\ Goto(h, "done")
  /\ Unlock(h)
  /\ UNCHANGED <<rows, clock, gate, holdLock, call, reading, pass, faults>>

-----------------------------------------------------------------------------
(* _persist_hold: SELECT ... ORDER BY id FOR UPDATE locks the rows one by   *)
(* one; each row is returned as last committed before it was locked.        *)

LockRow(h, s) ==
  /\ pc[h] = "rows"
  /\ IsFirst(s, (Want(h) \intersect Stock) \ Locked(h))
  /\ rowLock[s] = None
  /\ rowLock' = [rowLock EXCEPT ![s] = h]
  /\ UNCHANGED <<rows, clock, gate, holdLock, pc, call, reading, pass, faults>>

(* Every row found and AVAILABLE, or SeatUnavailableError. *)
CheckSeats(h) ==
  /\ pc[h] = "rows"
  /\ Want(h) \intersect Stock \subseteq Locked(h)
  /\ Goto(h, IF /\ Want(h) \subseteq Stock
                /\ \A s \in Want(h) : seats[s].status = "AVAILABLE"
             THEN "insert" ELSE "ungate")
  /\ UNCHANGED <<rows, clock, gate, locks, call, reading, pass, faults>>

(* Bug: no unique index, only the SELECT of the replay check. *)
BugNoUniqueIndex(h) == TRUE

KeyIsFree(h) == \A g \in Holds : SameKey(g, h) => holds[g] = "NONE"

(* The unique index on idempotency_key makes an insert wait for a           *)
(* transaction that has inserted the same key and is still open.            *)
Inserting(h) == {g \in Holds : pc[g] = "commit" /\ SameKey(g, h)}

(* A failed statement rolls the transaction back, and its row locks go.     *)
InsertHold(h) ==
  /\ pc[h] = "insert" /\ Inserting(h) = {}
  /\ \/ /\ KeyIsFree(h)
        /\ Goto(h, "commit")
        /\ UNCHANGED rowLock
     \/ /\ ~KeyIsFree(h)
        /\ Goto(h, "ungate")
        /\ Unlock(h)
  /\ UNCHANGED <<rows, clock, gate, holdLock, call, reading, pass, faults>>

HeldSeat(s, h) == [status |-> "HELD", hold |-> h, version |-> seats[s].version + 1]

CommitHold(h) ==
  /\ pc[h] = "commit"
  /\ holds' = [holds EXCEPT ![h] = "ACTIVE"]
  /\ seats' = [s \in Stock |-> IF s \in Want(h) THEN HeldSeat(s, h) ELSE seats[s]]
  /\ Unlock(h)
  /\ Goto(h, "refresh")
  /\ UNCHANGED <<clock, gate, holdLock, call, reading, pass, faults>>

(* refresh after the commit; the gate locks stay until their TTL. *)
ReturnHold(h) ==
  /\ pc[h] = "refresh"
  /\ Goto(h, "done")
  /\ answer' = [answer EXCEPT ![h] = h]
  /\ UNCHANGED <<rows, clock, gate, locks, got, reading, pass, faults>>

-----------------------------------------------------------------------------
(* confirm_assigned, called by the checkout once a payment is captured.     *)

StartConfirm(c, h) ==
  /\ pc[c] = "idle" /\ h \in captured
  /\ target' = [target EXCEPT ![c] = h]
  /\ Goto(c, "hold")
  /\ UNCHANGED <<rows, clock, gate, locks, call, view, pass, faults>>

ReadHold(c) ==
  /\ pc[c] = "hold"
  /\ Goto(c, IF holds[target[c]] = "ACTIVE" THEN "read" ELSE "rollback")
  /\ UNCHANGED <<rows, clock, gate, locks, call, reading, pass, faults>>

(* The rows of the hold, and the version each one has at this moment. *)
VersionsOf(h) == [s \in Stock |-> IF seats[s].hold = h THEN seats[s].version ELSE 0]

ReadSeats(c) ==
  /\ pc[c] = "read"
  /\ view' = [view EXCEPT ![c] = VersionsOf(target[c])]
  /\ Goto(c, IF SeatsOf(target[c]) = {} THEN "rollback" ELSE "update")
  /\ UNCHANGED <<rows, clock, gate, locks, call, target, pass, faults>>

(* Bug: UPDATE ... WHERE id only; the version compared after its increment. *)
BugBlindUpdate(s, h, n) == TRUE
BugNextVersion(s, h, n) == seats[s].version = n + 1 /\ seats[s].hold = h

(* UPDATE ... WHERE status = HELD AND version = n AND hold_id = h. *)
StillHeld(s, h, n) ==
  seats[s].status = "HELD" /\ seats[s].version = n /\ seats[s].hold = h

ConfirmSeat(c, s) ==
  /\ pc[c] = "update"
  /\ IsFirst(s, Pending(c))
  /\ rowLock[s] = None
  /\ \/ /\ StillHeld(s, target[c], view[c][s])
        /\ rowLock' = [rowLock EXCEPT ![s] = c]
        /\ Goto(c, IF Pending(c) = {s} THEN "flush" ELSE "update")
     \/ /\ ~StillHeld(s, target[c], view[c][s])
        /\ Goto(c, "rollback")
        /\ UNCHANGED rowLock
  /\ UNCHANGED <<rows, clock, gate, holdLock, call, reading, pass, faults>>

SoldSeat(s, n) == [status |-> "SOLD", hold |-> seats[s].hold, version |-> n + 1]

(* The commit flushes UPDATE holds ... WHERE id: it waits for the row, but  *)
(* not for any status.                                                      *)
CommitConfirm(c) ==
  /\ pc[c] = "flush" /\ holdLock[target[c]] = None
  /\ holds' = [holds EXCEPT ![target[c]] = "CONFIRMED"]
  /\ seats' = [s \in Stock |-> IF rowLock[s] = c THEN SoldSeat(s, view[c][s])
                                                 ELSE seats[s]]
  /\ Unlock(c)
  /\ Goto(c, "sold")
  /\ UNCHANGED <<clock, gate, holdLock, call, reading, pass, faults>>

RollbackConfirm(c) ==
  /\ pc[c] = "rollback"
  /\ Unlock(c)
  /\ Goto(c, "lost")
  /\ UNCHANGED <<rows, clock, gate, holdLock, call, reading, pass, faults>>

-----------------------------------------------------------------------------
(* expire_holds, within the one transaction of a worker pass.               *)

Due(h) == holds[h] = "ACTIVE" /\ expiry[h] # "running" /\ holdLock[h] = None

(* FOR UPDATE SKIP LOCKED, ORDER BY id, LIMIT batch_size. *)
SelectExpired(w) ==
  /\ pc[w] = "idle"
  /\ \E B \in SUBSET {h \in Holds : Due(h)} :
       /\ B # {} /\ Cardinality(B) <= BatchSize
       /\ \A h \in Holds \ B : Due(h) => /\ Cardinality(B) = BatchSize
                                         /\ \A b \in B : b < h
       /\ batch' = [batch EXCEPT ![w] = B]
       /\ holdLock' = [h \in Holds |-> IF h \in B THEN w ELSE holdLock[h]]
  /\ Goto(w, "examine")
  /\ UNCHANGED <<rows, clock, gate, rowLock, call, reading, freed, faults>>

(* Bug: no look at payments; a look that forgets which hold it is about. *)
BugIgnorePayment(h) == FALSE
BugAnyPayment(h) == captured # {}

HasCapturedPayment(h) == h \in captured

Examine(w, h) ==
  /\ pc[w] = "examine"
  /\ IsFirst(h, batch[w])
  /\ batch' = [batch EXCEPT ![w] = @ \ {h}]
  /\ target' = [target EXCEPT ![w] = h]
  /\ Goto(w, IF HasCapturedPayment(h) THEN "examine" ELSE "scan")
  /\ UNCHANGED <<rows, clock, gate, locks, call, view, freed, faults>>

(* release_assigned.  Rows this pass has already written keep their view.   *)
ScanSeats(w) ==
  /\ pc[w] = "scan"
  /\ view' = [view EXCEPT ![w] = [s \in Stock |-> IF rowLock[s] = w THEN view[w][s]
                                                  ELSE VersionsOf(target[w])[s]]]
  /\ Goto(w, "free")
  /\ UNCHANGED <<rows, clock, gate, locks, call, target, pass, faults>>

(* UPDATE ... WHERE id AND hold_id: neither status nor version is checked.  *)
(* The seats it matched are the ones whose gate locks go.                   *)
FreeSeat(w, s) ==
  /\ pc[w] = "free"
  /\ IsFirst(s, Pending(w))
  /\ rowLock[s] = None
  /\ \/ /\ seats[s].hold = target[w]
        /\ rowLock' = [rowLock EXCEPT ![s] = w]
        /\ got' = [got EXCEPT ![w] = @ \union {s}]
        /\ UNCHANGED view
     \/ /\ seats[s].hold # target[w]
        /\ view' = [view EXCEPT ![w][s] = 0]
        /\ UNCHANGED <<rowLock, got>>
  /\ UNCHANGED <<rows, clock, gate, holdLock, pc, answer, target, pass,
                 faults>>

MarkExpired(w) ==
  /\ pc[w] = "free" /\ Pending(w) = {}
  /\ freed' = [freed EXCEPT ![w] = @ \union {target[w]}]
  /\ Goto(w, IF got[w] = {} THEN "examine" ELSE "ungate")
  /\ UNCHANGED <<rows, clock, gate, locks, call, reading, batch, faults>>

(* release_all, before anything of the pass is committed. *)
ReleaseExpiredLock(w, s) ==
  /\ pc[w] = "ungate" /\ s \in got[w]
  /\ DropLock(s, target[w])
  /\ got' = [got EXCEPT ![w] = @ \ {s}]
  /\ Goto(w, IF got[w] = {s} THEN "examine" ELSE "ungate")
  /\ UNCHANGED <<rows, clock, locks, answer, reading, pass, faults>>

(* Bug: the release keeps the version; it resets it. *)
BugSameVersion(s, n) == [status |-> "AVAILABLE", hold |-> None, version |-> n]
BugResetVersion(s, n) == [status |-> "AVAILABLE", hold |-> None, version |-> 0]

FreeSeatRow(s, n) == [status |-> "AVAILABLE", hold |-> None, version |-> n + 1]

(* The end of the session, by commit, rollback or crash. *)
EndPass(w) ==
  /\ Unlock(w)
  /\ holdLock' = [h \in Holds |-> IF holdLock[h] = w THEN None ELSE holdLock[h]]
  /\ batch' = [batch EXCEPT ![w] = {}]
  /\ freed' = [freed EXCEPT ![w] = {}]
  /\ got' = [got EXCEPT ![w] = {}]
  /\ view' = [view EXCEPT ![w] = NotRead]
  /\ target' = [target EXCEPT ![w] = None]
  /\ Goto(w, "idle")
  /\ UNCHANGED <<clock, gate, answer>>

CommitPass(w) ==
  /\ pc[w] = "examine" /\ batch[w] = {}
  /\ seats' = [s \in Stock |-> IF rowLock[s] = w THEN FreeSeatRow(s, view[w][s])
                                                 ELSE seats[s]]
  /\ holds' = [h \in Holds |-> IF h \in freed[w] THEN "EXPIRED" ELSE holds[h]]
  /\ EndPass(w)
  /\ UNCHANGED faults

-----------------------------------------------------------------------------
(* Failures.  An error inside a transaction rolls it back at once.          *)

FailReserve(h) ==
  /\ pc[h] \in {"rows", "insert", "commit", "refresh"}
  /\ Goto(h, "ungate")
  /\ Unlock(h)
  /\ UNCHANGED <<rows, clock, gate, holdLock, call, reading, pass>>

FailConfirm(c) ==
  /\ pc[c] \in {"hold", "read", "update", "flush", "rollback"}
  /\ Goto(c, "failed")
  /\ Unlock(c)
  /\ UNCHANGED <<rows, clock, gate, holdLock, call, reading, pass>>

FailPass(w) == pc[w] # "idle" /\ EndPass(w) /\ UNCHANGED rows

Fail(p) == \/ p \in Holds /\ FailReserve(p)
           \/ p \in Buyers /\ FailConfirm(p)
           \/ p \in Workers /\ FailPass(p)

Fault(p) == faults < MaxFaults /\ faults' = faults + 1 /\ Fail(p)

(* Redis fails while the gate is taken or given back, and the call ends     *)
(* with that error: acquire_all is called outside the try, and release_all  *)
(* stops at the lock it was at.  A SET may have been carried out all the    *)
(* same.                                                                    *)
FailGate(h) ==
  /\ faults < MaxFaults /\ faults' = faults + 1
  /\ pc[h] \in {"gate", "ungate"}
  /\ Goto(h, "raised")
  /\ Unlock(h)
  /\ \/ UNCHANGED gate
     \/ \E s \in SeatIds : /\ pc[h] = "gate" /\ IsFirst(s, Want(h) \ got[h])
                           /\ gate[s] = None
                           /\ gate' = [gate EXCEPT ![s] = h]
  /\ UNCHANGED <<rows, clock, holdLock, call, reading, pass>>

(* The api process dies: no except clause returns the gate locks.           *)
Crash(h) ==
  /\ faults < MaxFaults /\ faults' = faults + 1
  /\ pc[h] \in {"gate", "rows", "insert", "commit", "refresh", "ungate"}
  /\ Goto(h, "crashed")
  /\ Unlock(h)
  /\ UNCHANGED <<rows, clock, gate, holdLock, call, reading, pass>>

NextRow(p, s) ==
  \/ pc[p] = "rows" /\ IsFirst(s, (Want(p) \intersect Stock) \ Locked(p))
  \/ pc[p] \in {"update", "free"} /\ IsFirst(s, Pending(p))

BlockedBy(p) ==
  {q \in Procs : \/ \E s \in Stock : rowLock[s] = q /\ NextRow(p, s)
                 \/ pc[p] = "insert" /\ q \in Inserting(p)
                 \/ pc[p] = "flush" /\ q = holdLock[target[p]]}

(* The members of D wait for each other in a cycle, or several. *)
Deadlocked(D) == \A p \in D : /\ BlockedBy(p) \intersect D # {}
                              /\ \E q \in D : p \in BlockedBy(q)

(* Postgres breaks a deadlock by an error in one of its transactions. *)
DeadlockVictim(p) ==
  /\ BlockedBy(p) # {}
  /\ \E D \in SUBSET {q \in Procs : BlockedBy(q) # {}} : p \in D /\ Deadlocked(D)
  /\ Fail(p)
  /\ UNCHANGED faults

-----------------------------------------------------------------------------
(* What happens around these calls.                                         *)

(* checkout captures a payment for an order placed while the hold was       *)
(* active; the hold may have expired since.                                 *)
Capture(h) ==
  /\ Req[h].pays
  /\ holds[h] \in {"ACTIVE", "EXPIRED"} /\ h \notin captured
  /\ captured' = captured \union {h}
  /\ UNCHANGED <<rows, expiry, gate, locks, pc, call, reading, pass, faults>>

(* expires_at passes. *)
Lapse(h) ==
  /\ holds[h] = "ACTIVE" /\ expiry[h] = "running"
  /\ expiry' = [expiry EXCEPT ![h] = IF h \in captured THEN "lapsed_paid" ELSE "lapsed"]
  /\ UNCHANGED <<rows, captured, gate, locks, pc, call, reading, pass, faults>>

(* The TTL of a gate lock; Redis runs on a clock of its own. *)
GateTtl(s) ==
  /\ gate[s] # None
  /\ gate' = [gate EXCEPT ![s] = None]
  /\ UNCHANGED <<rows, clock, locks, pc, call, reading, pass, faults>>

Reserve(h) ==
  \/ LookupHold(h) \/ CheckSeats(h) \/ InsertHold(h)
  \/ CommitHold(h) \/ ReturnHold(h) \/ CloseCall(h)
  \/ \E s \in SeatIds : AcquireSeat(h, s) \/ ReleaseLock(h, s)
  \/ \E s \in Stock : LockRow(h, s)

Confirm(c) ==
  \/ ReadHold(c) \/ ReadSeats(c) \/ CommitConfirm(c) \/ RollbackConfirm(c)
  \/ \E s \in Stock : ConfirmSeat(c, s)

ExpirePass(w) ==
  \/ SelectExpired(w) \/ ScanSeats(w) \/ MarkExpired(w) \/ CommitPass(w)
  \/ \E h \in Holds : Examine(w, h)
  \/ \E s \in Stock : FreeSeat(w, s)
  \/ \E s \in SeatIds : ReleaseExpiredLock(w, s)

Environment ==
  \/ \E h \in Holds : Capture(h) \/ Lapse(h)
  \/ \E s \in SeatIds : GateTtl(s)

Next ==
  \/ \E h \in Holds : Reserve(h) \/ FailGate(h) \/ Crash(h)
  \/ \E c \in Buyers : Confirm(c) \/ \E h \in Holds : StartConfirm(c, h)
  \/ \E w \in Workers : ExpirePass(w)
  \/ \E p \in Procs : Fault(p) \/ DeadlockVictim(p)
  \/ Environment

Spec == Init /\ [][Next]_vars

(* The event loop runs every call that can run and the worker polls for     *)
(* ever.  Postgres hands a released row to a transaction that waits for it, *)
(* which is why a call that can run again and again is not passed over, and *)
(* it notices every deadlock.  Nothing makes a client pay, a TTL run out or *)
(* a fault happen.                                                          *)
Fairness ==
  /\ \A h \in Holds : SF_vars(Reserve(h))
  /\ \A c \in Buyers : SF_vars(Confirm(c))
  /\ \A w \in Workers : SF_vars(ExpirePass(w))
  /\ WF_vars(\E p \in Procs : DeadlockVictim(p))

FairSpec == Spec /\ Fairness

-----------------------------------------------------------------------------
(* Properties                                                               *)

PcReserve == {"idle", "gate", "rows", "insert", "commit", "refresh", "ungate",
              "done", "raised", "crashed"}
PcConfirm == {"idle", "hold", "read", "update", "flush", "rollback", "sold",
              "lost", "failed"}
PcPass == {"idle", "examine", "scan", "free", "ungate"}

SeatRow == [status : {"AVAILABLE", "HELD", "SOLD"}, hold : Holds \union {None},
            version : Nat \ {0}]

(* The rows satisfy the column types and the CHECK version >= 1 of the      *)
(* schema, and every lock has at most one owner that can have it.           *)
TypeOK ==
  /\ seats \in [Stock -> SeatRow]
  /\ holds \in [Holds -> {"NONE", "ACTIVE", "CONFIRMED", "EXPIRED"}]
  /\ expiry \in [Holds -> {"running", "lapsed", "lapsed_paid"}]
  /\ captured \subseteq Holds
  /\ gate \in [SeatIds -> Holds \union {None}]
  /\ rowLock \in [Stock -> Procs \union {None}]
  /\ holdLock \in [Holds -> Workers \union {None}]
  /\ pc \in [Procs -> PcReserve \union PcConfirm \union PcPass]
  /\ \A h \in Holds : pc[h] \in PcReserve
  /\ \A c \in Buyers : pc[c] \in PcConfirm
  /\ \A w \in Workers : pc[w] \in PcPass
  /\ got \in [Holds \union Workers -> SUBSET SeatIds]
  /\ answer \in [Holds -> Holds \union {None}]
  /\ target \in [Buyers \union Workers -> Holds \union {None}]
  /\ view \in [Buyers \union Workers -> [Stock -> Nat]]
  /\ batch \in [Workers -> SUBSET Holds]
  /\ freed \in [Workers -> SUBSET Holds]
  /\ faults \in 0..MaxFaults

(* A seat and a hold never disagree: an ACTIVE hold has exactly the seats   *)
(* asked for, all HELD; a CONFIRMED one has them all SOLD; any other has    *)
(* none.  Persisting, confirming and expiring a hold each write both tables *)
(* in one transaction, under different locks.                               *)
HoldOwnsItsSeats ==
  /\ \A h \in Holds :
       /\ holds[h] = "ACTIVE" => /\ SeatsOf(h) = Want(h)
                                 /\ \A s \in SeatsOf(h) : seats[s].status = "HELD"
       /\ holds[h] = "CONFIRMED" => /\ SeatsOf(h) = Want(h)
                                    /\ \A s \in SeatsOf(h) : seats[s].status = "SOLD"
       /\ holds[h] \in {"NONE", "EXPIRED"} => SeatsOf(h) = {}
  /\ \A s \in Stock : seats[s].status = "AVAILABLE" <=> seats[s].hold = None

(* A confirm reports a conflict, after which the checkout refunds, only if  *)
(* the hold was really lost or has been confirmed by another call.          *)
LostMeansGone == \A c \in Buyers : pc[c] = "lost" => holds[target[c]] # "ACTIVE"

(* A gate lock left behind would refuse the seat to everyone until its TTL. *)
(* A pass that expires a hold leaves none, however the call that made the   *)
(* hold has ended.  A call that is refused, or that the database fails,     *)
(* leaves none either: only an error of Redis or the death of the process   *)
(* ends a call without a hold and with its locks taken.                     *)
LocksReturned ==
  \A h \in Holds, s \in SeatIds : gate[s] = h =>
    /\ holds[h] # "EXPIRED"
    /\ holds[h] = "NONE" => pc[h] # "done"

(* What acquire_all promises: every seat, or what was taken is released.    *)
(* An error of Redis breaks it, in a call whose process lives on.           *)
AllOrReleased ==
  \A h \in Holds, s \in SeatIds :
    gate[s] = h /\ pc[h] \in {"done", "raised"} => holds[h] # "NONE"

(* A gate lock is dropped by the call that took it, by the pass that        *)
(* expires its hold, or by its TTL, and never by a call whose own lock on   *)
(* the seat has run out and been taken over.                                *)
LocksDroppedByOwner ==
  [][\A s \in SeatIds, h \in Holds :
       gate[s] = h /\ gate'[s] # h /\ got' # got =>
         \/ got'[h] # got[h]
         \/ \E w \in Workers : target[w] = h /\ got'[w] # got[w]]_vars

(* Two multi-seat holds cannot deadlock (locking.py), not even when a gate  *)
(* lock runs out and both reach the rows.                                   *)
NoReserveDeadlock == \A D \in (SUBSET Holds) \ {{}} : ~Deadlocked(D)

(* What create_hold tells the client of an ended call: 409 also stands for  *)
(* the errors it does not handle.                                           *)
StatusCode(h) == CASE answer[h] = h -> 201
                   [] answer[h] \notin {h, None} -> 200
                   [] OTHER -> 409

(* Calls with one idempotency key create at most one hold, at most one of   *)
(* them is told that it did, and a replay is answered with that hold, or    *)
(* refused if it comes from another session.                                *)
OneHoldPerKey ==
  \A g, h \in Holds : SameKey(g, h) =>
    /\ holds[g] # "NONE" /\ holds[h] # "NONE" => g = h
    /\ StatusCode(g) = 201 /\ StatusCode(h) = 201 => g = h
    /\ answer[h] = g => holds[g] # "NONE" /\ Req[g].session = Req[h].session

SeatStep ==
  \A s \in Stock :
    /\ seats[s].status = "SOLD" => seats'[s] = seats[s]
    /\ seats'[s] # seats[s] => seats'[s].version > seats[s].version

(* A seat that is SOLD stays as it is, and no seat changes without its      *)
(* version going up: the version is all that the optimistic UPDATE and the  *)
(* seat map have to see a change by.                                        *)
SoldIsForever == [][SeatStep]_vars

(* A reserve call always ends, if its process lives: whoever it waits for   *)
(* goes on or is in a deadlock with it, which one of them does not survive. *)
ReserveEnds ==
  \A h \in Holds : pc[h] # "idle" ~> pc[h] \in {"done", "raised", "crashed"}

(* An abandoned hold gives its seats back: once it has run out it does not  *)
(* stay ACTIVE, unless it is paid for.                                      *)
LapsedHoldIsReleased ==
  \A h \in Holds : holds[h] = "ACTIVE" /\ expiry[h] # "running"
                     ~> holds[h] # "ACTIVE" \/ h \in captured

(* The calls and the worker together implement the ledger of the sale. *)
Ledger == INSTANCE SeatLedger
            WITH Wanted <- [h \in Holds |-> Want(h)],
                 Key <- [h \in Holds |-> Req[h].key],
                 owner <- [s \in Stock |-> seats[s].hold],
                 sold <- {s \in Stock : seats[s].status = "SOLD"},
                 status <- holds

ImplementsLedger == Ledger!Spec

(* And they implement what the checkout is told of a hold: it is sold by a  *)
(* call that has its seats, to a commit that no worker's lock delays, and   *)
(* expired only by a pass that has found it lapsed and not paid for.  So it *)
(* is sold once, and one that is paid for in time is never taken back.      *)
LooksAt(w) ==
  freed[w] \union {h \in Holds : target[w] = h /\ pc[w] \in {"scan", "free"}}

Confirming(c) == IF Locked(c) = {} THEN None ELSE target[c]

Hold == INSTANCE Reservation
          WITH Reservations <- Holds, Assigned <- Holds, Calls <- Buyers,
               inv <- holds,
               lapsed <- {h \in Holds : expiry[h] # "running"},
               paid <- captured,
               looked <- UNION {LooksAt(w) : w \in Workers},
               confirming <- [c \in Buyers |-> Confirming(c)]

ImplementsReservation == Hold!Spec
=============================================================================
