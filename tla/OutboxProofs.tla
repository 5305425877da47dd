----------------------------- MODULE OutboxProofs -----------------------------
(***************************************************************************)
(* Proofs about Outbox for any events, reservations, workers and batch     *)
(* size, and any number of failed passes.                                  *)
(***************************************************************************)
EXTENDS Outbox, TLAPS

-----------------------------------------------------------------------------
(* The inductive invariant                                                  *)

(* A pass locks events with its second select, and has delivered the ones   *)
(* it has marked.  It knows no event as both delivered and still to do.     *)
BatchInv(w) ==
  /\ pc[w] \in {"idle", "expire"} => batch[w] = {} /\ marked[w] = {}
  /\ batch[w] \intersect marked[w] = {}

(* A locked event is one that waits to be published.  It has been delivered *)
(* once for each failed pass at the most; those that a pass has marked or   *)
(* committed have been delivered, and once more.                            *)
EventInv(e) ==
  /\ lock[e] # None => e \in written \ published
  /\ delivered[e] <= faults + 1
  /\ e \in published => delivered[e] > 0
  /\ \A w \in Workers : e \in marked[w] => delivered[e] > 0
  /\ e \notin published /\ (\A w \in Workers : e \notin marked[w]) => delivered[e] <= faults

(* A locked reservation has run out. *)
ReservationInv(r) == held[r] # None => r \in lapsed

IInv == /\ TypeOK
        /\ \A w \in Workers : BatchInv(w)
        /\ \A e \in Events : EventInv(e)
        /\ \A r \in Reservations : ReservationInv(r)

-----------------------------------------------------------------------------
LEMMA InitInv == Init => IInv
BY OutboxAssumption
   DEF Init, IInv, TypeOK, BatchInv, EventInv, ReservationInv

(* What a select may lock is part of what it finds. *)
LEMMA BatchIsPart == \A S : \A B \in Batches(S) : B \subseteq S
BY DEF Batches

(* A select takes only rows that nobody has locked, so that the locks of    *)
(* the other passes are as they were.                                       *)
LEMMA SelectInv ==
  ASSUME IInv, NEW w \in Workers, SelectExpired(w) \/ SelectBatch(w)
  PROVE  IInv'
<1> USE OutboxAssumption DEF IInv, rows, clients, pass, Goto
<1>1. CASE SelectExpired(w)
  <2>1. PICK B \in Batches({r \in Reservations : Due(r)}) :
          held' = [r \in Reservations |-> IF r \in B THEN w ELSE held[r]]
    BY <1>1 DEF SelectExpired
  <2>2. \A r \in B : r \in Reservations /\ r \in lapsed /\ held[r] = None
    BY BatchIsPart DEF Due
  <2>3. TypeOK'
    <3>1. held' \in [Reservations -> Workers \union {None}]
      BY <2>1 DEF TypeOK
    <3>2. \A v \in Workers : \A r \in freed[v] : held'[r] = v
      BY <2>1, <2>2 DEF TypeOK
    <3>3. pc' \in [Workers -> {"idle", "expire", "deliver", "commit"}]
      BY <1>1 DEF SelectExpired, TypeOK
    <3> QED BY <1>1, <3>1, <3>2, <3>3 DEF SelectExpired, TypeOK
  <2>4. \A v \in Workers : BatchInv(v)'
    BY <1>1 DEF SelectExpired, BatchInv, TypeOK
  <2>5. \A e \in Events : EventInv(e)'
    BY <1>1 DEF SelectExpired, EventInv
  <2>6. \A r \in Reservations : ReservationInv(r)'
    BY <1>1, <2>1, <2>2 DEF SelectExpired, ReservationInv
  <2> QED BY <2>3, <2>4, <2>5, <2>6
<1>2. CASE SelectBatch(w)
  <2>1. PICK B \in Batches({e \in Events : Unpublished(e)}) :
          /\ batch' = [batch EXCEPT ![w] = B]
          /\ lock' = [e \in Events |-> IF e \in B THEN w ELSE lock[e]]
    BY <1>2 DEF SelectBatch
  <2>2. B \subseteq Events /\ \A e \in B : e \in written \ published /\ lock[e] = None
    BY BatchIsPart DEF Unpublished
  <2>3. batch[w] = {} /\ marked[w] = {} /\ marked' = marked
    BY <1>2 DEF SelectBatch, BatchInv
  <2>4. batch' \in [Workers -> SUBSET Events] /\ batch'[w] = B
        /\ \A v \in Workers \ {w} : batch'[v] = batch[v]
    BY <2>1, <2>2 DEF TypeOK
  <2>5. TypeOK'
    <3>1. lock' \in [Events -> Workers \union {None}]
      BY <2>1 DEF TypeOK
    <3>2. ASSUME NEW v \in Workers
          PROVE  batch'[v] \union marked'[v] = {e \in Events : lock'[e] = v}
      <4>1. batch[v] \union marked[v] = {e \in Events : lock[e] = v}
        BY DEF TypeOK
      <4>2. \A e \in Events : lock'[e] = IF e \in B THEN w ELSE lock[e]
        BY <2>1
      <4>3. CASE v = w
        BY <2>2, <2>3, <2>4, <4>1, <4>2, <4>3
      <4>4. CASE v # w
        BY <2>2, <2>3, <2>4, <4>1, <4>2, <4>4
      <4> QED BY <4>3, <4>4
    <3>3. pc' \in [Workers -> {"idle", "expire", "deliver", "commit"}]
      BY <1>2 DEF SelectBatch, TypeOK
    <3> QED BY <1>2, <2>4, <3>1, <3>2, <3>3 DEF SelectBatch, TypeOK
  <2>6. \A v \in Workers : BatchInv(v)'
    BY <1>2, <2>3, <2>4 DEF SelectBatch, BatchInv, TypeOK
  <2>7. \A e \in Events : EventInv(e)'
    BY <1>2, <2>1, <2>2 DEF SelectBatch, EventInv
  <2>8. \A r \in Reservations : ReservationInv(r)'
    BY <1>2 DEF SelectBatch, ReservationInv
  <2> QED BY <2>5, <2>6, <2>7, <2>8
<1> QED BY <1>1, <1>2

(* An event that is delivered was in the batch of one pass only, and has    *)
(* not been delivered since the last failure.                               *)
LEMMA DeliverInv ==
  ASSUME IInv, NEW w \in Workers, NEW e \in Events, Deliver(w, e)
  PROVE  IInv'
<1> USE OutboxAssumption DEF IInv, rows, clients, Deliver
<1>1. e \in batch[w] /\ lock[e] = w /\ e \notin published
  BY DEF IsNext, TypeOK, EventInv
<1>2. \A v \in Workers : e \notin marked[v]
  BY <1>1 DEF TypeOK, BatchInv
<1>3. delivered[e] \in Nat /\ faults \in Nat /\ delivered[e] <= faults
  BY <1>1, <1>2 DEF EventInv, TypeOK
<1>4. /\ batch' \in [Workers -> SUBSET Events] /\ marked' \in [Workers -> SUBSET Events]
      /\ batch'[w] = batch[w] \ {e} /\ marked'[w] = marked[w] \union {e}
      /\ \A v \in Workers \ {w} : batch'[v] = batch[v] /\ marked'[v] = marked[v]
  BY DEF TypeOK
<1>5. /\ delivered' \in [Events -> 0..MaxFaults + 1] /\ delivered'[e] = delivered[e] + 1
      /\ \A f \in Events \ {e} : delivered'[f] = delivered[f]
  BY <1>3 DEF TypeOK
<1>6. TypeOK'
  <2>1. \A v \in Workers : batch'[v] \union marked'[v] = {f \in Events : lock'[f] = v}
    BY <1>1, <1>4 DEF TypeOK
  <2> QED BY <1>4, <1>5, <2>1 DEF TypeOK
<1>7. \A v \in Workers : BatchInv(v)'
  BY <1>4 DEF BatchInv
<1>8. \A f \in Events : EventInv(f)'
  BY <1>1, <1>3, <1>4, <1>5 DEF EventInv, TypeOK
<1>9. \A r \in Reservations : ReservationInv(r)'
  BY DEF ReservationInv
<1> QED BY <1>6, <1>7, <1>8, <1>9

(* The end of a pass, with the rows that its commit or rollback leaves: the *)
(* events that stay unpublished wait for the next pass, and if they have    *)
(* been delivered a failure is counted.                                     *)
LEMMA EndPassInv ==
  ASSUME IInv, NEW w \in Workers, EndPass(w),
         expired' \subseteq lapsed,
         faults' \in 0..MaxFaults,
         \/ published' = published \union marked[w] /\ faults' = faults
         \/ published' = published /\ faults' = faults + 1
  PROVE  IInv'
<1> USE OutboxAssumption DEF IInv, clients
<1>1. /\ held' = Unlocked(held, w) /\ lock' = Unlocked(lock, w)
      /\ UNCHANGED <<lapsed, written, delivered>>
  BY DEF EndPass, Unlock
<1>2. /\ lock' \in [Events -> Workers \union {None}]
      /\ \A e \in Events : lock'[e] = IF lock[e] = w THEN None ELSE lock[e]
  BY <1>1 DEF Unlocked, TypeOK
<1>3. /\ held' \in [Reservations -> Workers \union {None}]
      /\ \A r \in Reservations : held'[r] = IF held[r] = w THEN None ELSE held[r]
  BY <1>1 DEF Unlocked, TypeOK
<1>4. /\ freed' \in [Workers -> SUBSET Reservations]
      /\ freed'[w] = {} /\ \A v \in Workers \ {w} : freed'[v] = freed[v]
  BY DEF EndPass, TypeOK
<1>5. /\ batch' \in [Workers -> SUBSET Events] /\ marked' \in [Workers -> SUBSET Events]
      /\ batch'[w] = {} /\ marked'[w] = {}
      /\ \A v \in Workers \ {w} : batch'[v] = batch[v] /\ marked'[v] = marked[v]
  BY DEF EndPass, TypeOK
<1>6. /\ pc' \in [Workers -> {"idle", "expire", "deliver", "commit"}]
      /\ \A v \in Workers \ {w} : pc'[v] = pc[v]
  BY DEF EndPass, Goto, TypeOK
<1>7. \A e \in marked[w] : e \in written /\ lock[e] = w
  BY DEF TypeOK, EventInv
<1>8. TypeOK'
  <2>1. \A v \in Workers : \A r \in freed'[v] : held'[r] = v
    BY <1>3, <1>4 DEF TypeOK
  <2>2. ASSUME NEW v \in Workers
        PROVE  batch'[v] \union marked'[v] = {e \in Events : lock'[e] = v}
    <3>1. batch[v] \union marked[v] = {e \in Events : lock[e] = v}
      BY DEF TypeOK
    <3>2. CASE v = w
      BY <1>2, <1>5, <3>2
    <3>3. CASE v # w
      BY <1>2, <1>5, <3>1, <3>3
    <3> QED BY <3>2, <3>3
  <2>3. published' \subseteq written
    BY <1>7 DEF TypeOK
  <2> QED BY <1>1, <1>2, <1>3, <1>4, <1>5, <1>6, <2>1, <2>2, <2>3 DEF TypeOK
<1>9. \A v \in Workers : BatchInv(v)'
  BY <1>5, <1>6 DEF BatchInv
<1>10. ASSUME NEW e \in Events PROVE EventInv(e)'
  <2>1. delivered[e] \in Nat /\ faults \in Nat /\ delivered'[e] = delivered[e]
    BY <1>1 DEF TypeOK
  <2>2. lock'[e] # None => e \in written' \ published'
    BY <1>1, <1>2, <1>7 DEF EventInv
  <2>3. e \in published' => delivered[e] > 0
    BY DEF EventInv
  <2>4. \A v \in Workers : e \in marked'[v] => delivered[e] > 0
    BY <1>5 DEF EventInv
  <2>5. ASSUME e \notin published', \A v \in Workers : e \notin marked'[v]
        PROVE  delivered[e] <= faults'
    BY <1>5, <2>1, <2>5 DEF EventInv
  <2> QED BY <2>1, <2>2, <2>3, <2>4, <2>5 DEF EventInv
<1>11. \A r \in Reservations : ReservationInv(r)'
  BY <1>1, <1>3 DEF ReservationInv
<1> QED BY <1>8, <1>9, <1>10, <1>11

LEMMA NextInv == IInv /\ [Next]_vars => IInv'
<1> SUFFICES ASSUME IInv, [Next]_vars PROVE IInv'
  OBVIOUS
<1> USE OutboxAssumption DEF rows, clients, pass
<1>1. ASSUME NEW r \in Reservations, Lapse(r) PROVE IInv'
  BY <1>1 DEF Lapse, IInv, TypeOK, BatchInv, EventInv, ReservationInv
<1>2. ASSUME NEW e \in Events, WriteEvent(e) PROVE IInv'
  BY <1>2 DEF WriteEvent, IInv, TypeOK, BatchInv, EventInv, ReservationInv
<1>3. ASSUME NEW w \in Workers, Pass(w) PROVE IInv'
  <2>1. CASE SelectExpired(w) \/ SelectBatch(w)
    BY <2>1, SelectInv
  <2>2. ASSUME NEW r \in Reservations, ReleaseReservation(w, r) PROVE IInv'
    BY <2>2 DEF ReleaseReservation, IInv, TypeOK, BatchInv, EventInv, ReservationInv
  <2>3. ASSUME NEW e \in Events, Deliver(w, e) PROVE IInv'
    BY <2>3, DeliverInv
  <2>4. CASE AdmitVisitors(w)
    BY <2>4 DEF AdmitVisitors, Goto, IInv, TypeOK, BatchInv, EventInv, ReservationInv
  <2>5. CASE CommitPass(w)
    <3>1. expired' \subseteq lapsed
      BY <2>5 DEF CommitPass, ExpiredAfter, IInv, TypeOK, ReservationInv
    <3> QED BY <2>5, <3>1, EndPassInv DEF CommitPass, IInv, TypeOK
  <2> QED BY <1>3, <2>1, <2>2, <2>3, <2>4, <2>5 DEF Pass
<1>4. ASSUME NEW w \in Workers, FailPass(w) PROVE IInv'
  <2>1. faults' \in 0..MaxFaults /\ expired' \subseteq lapsed
    BY <1>4 DEF FailPass, IInv, TypeOK
  <2> QED BY <1>4, <2>1, EndPassInv DEF FailPass, PublishedAfterFailure
<1>5. CASE UNCHANGED vars
  BY <1>5 DEF vars, IInv, TypeOK, BatchInv, EventInv, ReservationInv
<1> QED BY <1>1, <1>2, <1>3, <1>4, <1>5 DEF Next

-----------------------------------------------------------------------------
(* Theorems                                                                 *)

(* The inductive invariant holds in every behaviour of the workers, their   *)
(* failures and the checkouts that write events.                            *)
THEOREM Invariance == Spec => []IInv
BY InitInv, NextInv, PTL DEF Spec

(* Besides the types: whatever a pass has freed, locked or marked, it has   *)
(* under a row lock of its own until its session ends.                      *)
THEOREM TypeCorrect == Spec => []TypeOK
<1>1. IInv => TypeOK
  BY DEF IInv
<1> QED BY <1>1, Invariance, PTL

(* publish_outbox marks what it has given to the notifier and nothing else, *)
(* whichever pass commits and whichever pass fails.                         *)
THEOREM NothingIsSkipped == Spec => []PublishedWasDelivered
<1>1. IInv => PublishedWasDelivered
  BY DEF IInv, TypeOK, EventInv, PublishedWasDelivered
<1> QED BY <1>1, Invariance, PTL

(* SKIP LOCKED keeps concurrent workers off each other's events: only a     *)
(* failed pass has an event delivered again.                                *)
THEOREM OncePerFailure == Spec => []AgainOnlyAfterFailure
<1>1. ASSUME IInv, NEW e \in Events PROVE delivered[e] <= 1 + faults
  BY <1>1, OutboxAssumption DEF IInv, TypeOK, EventInv
<1>2. IInv => AgainOnlyAfterFailure
  BY <1>1 DEF AgainOnlyAfterFailure
<1> QED BY <1>2, Invariance, PTL
=============================================================================
