------------------------------- MODULE Outbox -------------------------------
(***************************************************************************)
(* The worker (worker.py): one pass after another, in any number of        *)
(* processes.  A pass expires reservations that have run out, delivers the *)
(* events of the outbox one by one, admits visitors, and commits; whatever *)
(* goes wrong on the way takes back all the rows it has written, but not   *)
(* what it has delivered.                                                  *)
(*                                                                         *)
(* How a reservation is examined and given back is in SeatInventory and    *)
(* GaInventory, and how visitors are admitted in WaitingRoom; here these   *)
(* are single steps of the transaction they share with the outbox.         *)
(***************************************************************************)
EXTENDS Naturals, FiniteSets

CONSTANTS Events,        \* outbox rows, in the order of created_at and id
          Reservations,  \* holds and GA reservations that nobody pays for
          Workers,       \* worker processes
          BatchSize,     \* settings.worker_batch_size
          MaxFaults,     \* bound on failed passes
          None           \* no transaction

ASSUME OutboxAssumption ==
  /\ Events \subseteq Nat /\ IsFiniteSet(Events)
  /\ Reservations \subseteq Nat /\ IsFiniteSet(Reservations)
  /\ BatchSize \in Nat \ {0} /\ MaxFaults \in Nat /\ None \notin Workers

VARIABLES
  lapsed,     \* the reservations that have run out
  expired,    \* those whose expiry is committed
  written,    \* the events committed with their orders
  published,  \* those with a published_at
  delivered,  \* how often the notifier has been given each event
  held,       \* the pass that has each reservation locked, or None
  lock,       \* the same for each event
  pc,         \* where each pass stands
  freed,      \* the reservations a pass has expired in its transaction
  batch,      \* the events a pass has locked and not yet delivered
  marked,     \* those with a published_at in its open transaction
  faults      \* failed passes so far

rows == <<expired, published>>
clients == <<lapsed, written>>
pass == <<freed, batch, marked>>
vars == <<rows, clients, delivered, held, lock, pc, pass, faults>>

Init ==
  /\ lapsed = {} /\ expired = {}
  /\ written = {} /\ published = {}
  /\ delivered = [e \in Events |-> 0]
  /\ held = [r \in Reservations |-> None]
  /\ lock = [e \in Events |-> None]
  /\ pc = [w \in Workers |-> "idle"]
  /\ freed = [w \in Workers |-> {}]
  /\ batch = [w \in Workers |-> {}]
  /\ marked = [w \in Workers |-> {}]
  /\ faults = 0

Goto(w, where) == pc' = [pc EXCEPT ![w] = where]

Lapse(r) ==
  /\ r \notin lapsed /\ lapsed' = lapsed \union {r}
  /\ UNCHANGED <<rows, written, delivered, held, lock, pc, pass, faults>>

(* A checkout commits.  created_at is read before that, so an event may     *)
(* appear ahead of others that are there already.                           *)
WriteEvent(e) ==
  /\ e \notin written /\ written' = written \union {e}
  /\ UNCHANGED <<rows, lapsed, delivered, held, lock, pc, pass, faults>>

(* What a select ... FOR UPDATE SKIP LOCKED ... LIMIT batch_size may lock:  *)
(* the first of the rows in S.                                              *)
Batches(S) ==
  {B \in SUBSET S : /\ Cardinality(B) <= BatchSize
                    /\ \A x \in S \ B : Cardinality(B) = BatchSize /\ \A b \in B : b < x}

(* Operators with a name that starts with Bug are mutated forms of the      *)
(* definition that follows them; no action uses them.                       *)

(* Bug: locked rows are not skipped. *)
BugAnyRow(e) == e \in written \ published
Unpublished(e) == e \in written \ published /\ lock[e] = None

Due(r) == r \in lapsed \ expired /\ held[r] = None

(* The selects of expire_holds and expire_ga.                               *)
SelectExpired(w) ==
  /\ pc[w] = "idle"
  /\ \E B \in Batches({r \in Reservations : Due(r)}) :
       held' = [r \in Reservations |-> IF r \in B THEN w ELSE held[r]]
  /\ Goto(w, "expire")
  /\ UNCHANGED <<rows, clients, delivered, lock, pass, faults>>

ReleaseReservation(w, r) ==
  /\ pc[w] = "expire" /\ held[r] = w /\ r \notin freed[w]
  /\ freed' = [freed EXCEPT ![w] = @ \union {r}]
  /\ UNCHANGED <<rows, clients, delivered, held, lock, pc, batch, marked, faults>>

(* The select of publish_outbox. *)
SelectBatch(w) ==
  /\ pc[w] = "expire" /\ \A r \in Reservations : held[r] = w => r \in freed[w]
  /\ \E B \in Batches({e \in Events : Unpublished(e)}) :
       /\ batch' = [batch EXCEPT ![w] = B]
       /\ lock' = [e \in Events |-> IF e \in B THEN w ELSE lock[e]]
  /\ Goto(w, "deliver")
  /\ UNCHANGED <<rows, clients, delivered, held, freed, marked, faults>>

IsNext(w, e) == e \in batch[w] /\ \A b \in batch[w] : e <= b

Deliver(w, e) ==
  /\ pc[w] = "deliver" /\ IsNext(w, e)
  /\ delivered' = [delivered EXCEPT ![e] = @ + 1]
  /\ batch' = [batch EXCEPT ![w] = @ \ {e}]
  /\ marked' = [marked EXCEPT ![w] = @ \union {e}]
  /\ UNCHANGED <<rows, clients, held, lock, pc, freed, faults>>

(* admit_tick, with the transaction still open. *)
AdmitVisitors(w) ==
  /\ pc[w] = "deliver" /\ batch[w] = {}
  /\ Goto(w, "commit")
  /\ UNCHANGED <<rows, clients, delivered, held, lock, pass, faults>>

Unlocked(lockOf, w) ==
  [x \in DOMAIN lockOf |-> IF lockOf[x] = w THEN None ELSE lockOf[x]]

(* Bug: a failed pass leaves its session open. *)
BugSessionLeak(w) == UNCHANGED <<held, lock>>
Unlock(w) == held' = Unlocked(held, w) /\ lock' = Unlocked(lock, w)

EndPass(w) ==
  /\ Unlock(w)
  /\ freed' = [freed EXCEPT ![w] = {}]
  /\ batch' = [batch EXCEPT ![w] = {}]
  /\ marked' = [marked EXCEPT ![w] = {}]
  /\ Goto(w, "idle")
  /\ UNCHANGED <<clients, delivered>>

(* Bug: run_once commits only when it has mailed something. *)
BugCommitMailOnly(w) == IF marked[w] = {} THEN expired ELSE expired \union freed[w]
ExpiredAfter(w) == expired \union freed[w]

CommitPass(w) ==
  /\ pc[w] = "commit"
  /\ published' = published \union marked[w]
  /\ expired' = ExpiredAfter(w)
  /\ EndPass(w)
  /\ UNCHANGED faults

(* Bug: a failed delivery is logged and the event marked all the same. *)
BugMarkTheRest(w) == published \union marked[w] \union batch[w]
PublishedAfterFailure(w) == published

(* The notifier, Redis or the commit raises, or the process dies: the       *)
(* session has rolled back when main logs the error, and the next pass      *)
(* starts from the rows.                                                    *)
FailPass(w) ==
  /\ pc[w] # "idle" /\ faults < MaxFaults
  /\ faults' = faults + 1
  /\ published' = PublishedAfterFailure(w)
  /\ EndPass(w)
  /\ UNCHANGED expired

Pass(w) ==
  \/ SelectExpired(w) \/ SelectBatch(w) \/ AdmitVisitors(w) \/ CommitPass(w)
  \/ \E r \in Reservations : ReleaseReservation(w, r)
  \/ \E e \in Events : Deliver(w, e)

Next == \/ \E r \in Reservations : Lapse(r)
        \/ \E e \in Events : WriteEvent(e)
        \/ \E w \in Workers : Pass(w) \/ FailPass(w)

Spec == Init /\ [][Next]_vars

(* A worker polls for ever; a pass that fails is not the last one. *)
FairSpec == Spec /\ \A w \in Workers : WF_vars(Pass(w))

-----------------------------------------------------------------------------
(* Properties                                                               *)

(* Types, and a row is locked by the pass that has it in hand.              *)
TypeOK ==
  /\ expired \subseteq lapsed /\ lapsed \subseteq Reservations
  /\ held \in [Reservations -> Workers \union {None}]
  /\ freed \in [Workers -> SUBSET Reservations]
  /\ \A w \in Workers : \A r \in freed[w] : held[r] = w
  /\ published \subseteq written /\ written \subseteq Events
  /\ delivered \in [Events -> 0..MaxFaults + 1]
  /\ lock \in [Events -> Workers \union {None}]
  /\ pc \in [Workers -> {"idle", "expire", "deliver", "commit"}]
  /\ batch \in [Workers -> SUBSET Events] /\ marked \in [Workers -> SUBSET Events]
  /\ faults \in 0..MaxFaults
  /\ \A w \in Workers : batch[w] \union marked[w] = {e \in Events : lock[e] = w}

(* Delivery is at least once (ARCHITECTURE.md:56): an event that counts as  *)
(* published has been delivered, whatever failed on the way.                *)
PublishedWasDelivered == \A e \in published : delivered[e] > 0

(* The price of that is paid only for faults: two workers never both        *)
(* deliver an event, and no event is delivered again but for a failed pass. *)
AgainOnlyAfterFailure == \A e \in Events : delivered[e] <= 1 + faults

(* A reservation that has run out is expired, in the end, although every    *)
(* later step of the pass, deliveries and admissions included, can take the *)
(* expiry back.                                                             *)
LapsedIsExpired == \A r \in Reservations : r \in lapsed ~> r \in expired

(* Every event is published, in the end. *)
WrittenIsPublished == \A e \in Events : e \in written ~> e \in published
=============================================================================
