# Arena on-sale: TLA+ verification

This directory models the ticket sale of `arena-onsale` (FastAPI, PostgreSQL,
Redis, one or more worker processes): the seed of a stadium, assigned-seat
holds, general admission, the checkout saga, the expiry worker with its outbox,
the waiting room and the flood that fills it, and the seat-map cache. Each
module is translated from the Python source; `PROJECT.json` names the lines
every definition stands for, the runs, the mutants that show each property can
fail, the hazards the properties are for, and the findings.

Paths below are relative to the repository root; `arena_onsale` is
`src/arena_onsale`.

## 1. Inventory of the system

| Component (source) | State | Operations | Hard behaviour | Correct when |
|---|---|---|---|---|
| **Assigned-seat holds** (`inventory/service.py`, `locking.py`, `models.py`) | `seats`, `holds` rows; one Redis lock per seat | `reserve` = replay lookup, gate, `SELECT FOR UPDATE`, check, insert, commit, release of the gate on error | gate lock outlived by its call, double click, multi-seat deadlock, errors between steps | a seat is in at most one hold; one hold per key; locks go back unless Redis or the process fails; reserves end |
| **Finalizer, seats** (`checkout/finalizer.py`) | same rows | `confirm_assigned` (optimistic UPDATE per seat), `release_assigned` | versions read long before they are used; deadlock with the worker | sold once, final, and a reported loss is a real one |
| **General admission** (`inventory/ga_service.py`, `ga_stock.py`, finalizer) | `ga_inventory` counter with version; `ga_reservations` | `reserve` with retries, `confirm_ga`, `release_ga` | compare-and-set races, retries, partial batches | no oversell, no place lost |
| **Checkout saga** (`checkout/service.py`, `psp.py`) | `orders`, `payments`, outbox rows; session objects; PSP's charges | `checkout` → `_ensure_payment` → charge → capture → `_finalize` → `_compensate` | lost replies, crashes, retries that overlap, stale session copies | one charge, one ticket, money and status agree, and clients are told no more than that |
| **Worker** (`worker.py`, `checkout/expiry.py`) | one transaction per pass | `expire_holds`, `expire_ga`, `publish_outbox`, `admit_tick`, commit | payment captured while a hold lapses; batches; a late failure takes the whole pass back | nothing paid for is taken away; everything abandoned comes back |
| **Outbox** (`checkout/outbox.py`) | `outbox_events` | `publish_outbox` | delivered before the commit; two workers | at least once, again only after a failure |
| **Waiting room** (`waiting_room/`; `memory.py` is the store of the tests) | Redis: queue, sequence, shoppers, tokens, rate counter | `join`, `status`, `admit_tick`, `stats`, `visitor_for_token` | no transaction across Redis calls; every join is a tick too; second boundaries | bulkhead, rate, fair line, nobody forgotten |
| **Seat map** (`catalog/service.py`, `map_view.py`) | one Redis key per match | `seat_map` | slow builder overwrites newer map | never further behind than its TTL and build time |
| **Admission check** (`api/admission.py`) | – | token lookup in front of every booking route | token and place end by two clocks | a token is accepted exactly as long as its place lasts, give or take a second |
| **Layout and seed** (`catalog/layout.py`, `seed.py`, `__main__.py`) | the rows of a match | `seats()`, `seed_layout` in one transaction | numbering of rows in base 26; two operators at once | every place once, whoever seeds |
| **Flood** (`load/flood.py`) | scores taken in one INCRBY, batches | `flood_queue` | joins between its batches | one line with the joins |
| HTTP layer (routers) | – | answers of the three POST routes | a replay is answered from the row | a client is never told what stops being true |
| Settings, metrics, start of the processes | – | – | – | not modelled, see section 7 |

How they interact. The router calls `HoldService`/`GaService` to reserve; the
reservation row and the seat rows (or the counter) are what the checkout and
the worker then meet at. `CheckoutService` charges at the PSP with no row
locked, commits `CAPTURED`, and calls the finalizer in a second transaction.
The worker reads `payments` (`has_captured_payment`) to decide whether a lapsed
reservation may be released, and writes the same seat rows as reserve and
confirm. The waiting room shares nothing with the database except that its
`admit_tick` runs inside the worker's open transaction, so that an error of
Redis takes the expiry and the mail of that pass back. The seat map only reads.

## 2. The modules

| Module | Extends / composes | Lines of the model stand for |
|---|---|---|
| `SeatLedger` | – | what the sale of seats promises: a hold takes all its seats or none, and they are all sold or all given back |
| `Reservation` | – | what the checkout relies on: a reservation is made, runs out, is found ACTIVE and sold, or found unpaid and expired |
| `SeatInventory` | `INSTANCE SeatLedger`, `INSTANCE Reservation` (refinements) | reserve, gate, confirm_assigned and expire_holds interleaved |
| `GaInventory` | `INSTANCE Reservation` (refinement) | GA reserve, confirm_ga and expire_ga interleaved |
| `Checkout` | `Stock == INSTANCE Reservation` (its steps are actions of the saga) | the saga, the PSP, session objects, the answers |
| `RoomLedger` | – | the room of the tests' store, one step per method: what the room promises |
| `WaitingRoom` | `INSTANCE RoomLedger` (refinement) | join, status, admit_tick and the flood, one Redis command at a time |
| `Outbox` | – | the worker's pass: expiry, mail, admission, one commit |
| `Stadium` | – | the layout, its row labels and the seed; the reference definition of the rows' names |
| `SeatMap` | extends `Stadium` | seat_map and its cache, on the match the seed commits |
| `MC*` | the module they are named for | requests, fans and layouts of the small instances |
| `SeatInventoryProofs`, `SeatPromiseProofs` | `SeatInventory` | proofs: section 6 |
| `GaProofs`, `CheckoutProofs`, `OutboxProofs`, `SeatMapProofs` | the module they are named for | proofs: section 6 |
| `RoomProofs`, `RoomSerialProofs` | `WaitingRoom` | proofs: section 6 |

**How the saga and the inventories are composed.** One module with the rows of
both would have more interleavings than TLC can explore. They meet in
`Reservation` instead: `SeatInventory` and `GaInventory` implement it
(`ImplementsReservation`, with row locks and versions mapped to `looked` and
`confirming`), and `Checkout` is built of its steps: `Confirm` contains
`Stock!Find`, `CommitSale` `Stock!Sell`, the worker's actions `Stock!Look` and
`Stock!EndPass`. What the saga assumes of the inventory is therefore what the
inventories are shown to do. The rest of the saga never touches the
reservations, and the inventories see no more of the saga than the payment
that `has_captured_payment` looks for. One thing differs: a refund takes a
payment out of `paid`, which the inventories have no step for. It comes after
the confirm has found the reservation gone, when nobody looks for the payment
any more.

Conventions, the same in all of them:

* **One action per await.** Every `await` of the code (a statement, a Redis
  command, a call of the PSP) ends an action; what runs between two awaits is
  one action, because the event loop cannot switch there. `pc[p]` says which
  await call `p` is at; a guard on `pc` is the position in the function, the
  other guards are the function's own conditions.
* **PostgreSQL at READ COMMITTED.** A transaction's writes become visible in
  the action that commits it. Row locks taken on the way are variables
  (`rowLock`, `holdLock`, `poolLock`, `resLock`, `looked`, `held`, `lock`), and an
  action that needs a lock someone else has is not enabled. `DeadlockVictim`
  is the deadlock detector: it fails one transaction of a cycle of waits.
  `SKIP LOCKED` is a guard on the selected rows.
* **Time** is what it decides. In the inventory modules `Lapse` lets a
  reservation run out at any moment after it is committed; `GateTtl` does the
  same for a gate lock, whether or not its call is still at work. In
  `WaitingRoom` and `SeatMap` seconds pass by an action `Second`, and keys,
  counters and calls carry ages, so that there is no clock to bound.
* **Faults.** `Fault`, `FailReserve`, `FailGate`, `FailPass`, `FailCall`, `Crash`
  stand for a statement or a Redis command that fails, a lost connection, or a
  process that dies, at any await; `MaxFaults` bounds how many. What a handler does in its `except` is in
  the same action as, or follows, the fault.
* **Mutated forms.** A definition whose name starts with `Bug` is what a
  plausible mistake would make of the definition after it. No action uses it;
  `PROJECT.json` lists which property each of them breaks.

### SeatInventory

`seats`, `holds` are the tables; `expiry[h]` and `captured` abstract
`expires_at` and the `payments` join of `has_captured_payment`; `gate` is the
Redis locks. `Reserve(h)` is `HoldService.reserve`: `LookupHold` (replay),
`AcquireSeat` in sorted order, `LockRow` in sorted order, `CheckSeats`,
`InsertHold` (waits for an uncommitted row of the same key, as the unique index
does), `CommitHold`, `ReturnHold`, `ReleaseLock`/`CloseCall`. The refresh after
the commit (`ReturnHold`) may fail with the hold committed, and then the gate
locks are released while the hold lives. Errors are told apart by what the code
does about them: one of the database within `_persist_hold` is caught and goes
on to `release_all` (`FailReserve`); one of Redis while the gate is taken or
given back is not, because `acquire_all` is called outside the `try` and
`release_all` stops at its first error, so the call ends with it (`raised`) and
its gate locks stay (`FailGate`); `Crash` is the death of the process.
`Confirm(c)` is `confirm_assigned`
with one UPDATE per seat and the hold's own UPDATE at the flush of the commit;
`ExpirePass(w)` is `expire_holds` with `release_assigned`, one UPDATE per seat,
and the release of the gate locks *before* the commit, as in the code.
`StatusCode(h)` is what `create_hold` makes of the result.

Left out: refunds (once `captured`, always captured), the FOR KEY SHARE locks
of foreign keys, and other matches.

### GaInventory

`pool` is the counter row. A call reads its version (`snapshot`), updates `WHERE
version = snapshot.version`, retries up to `MaxAttempts`, inserts the
reservation and commits; `release_ga` does the same for each reservation of a
pass, and leaves one that loses the race ACTIVE. `LateCapture` says whether a
payment may be captured after the reservation has run out, which the code
allows. Left out: a match without a pool row, and the length of the back-off.

### Checkout

`paySeen[c]` is the `Payment` object in the session of call `c`, which is not
read again after it was read once; `tx` the calls with an open transaction.
`inv`, `lapsed` and `looked` are the variables of `Reservation`: as much of the
inventory and the worker as the saga can tell. A worker pass has looked at a
reservation and not yet committed (`looked`), and a call at `commit` has found
its reservation ACTIVE (`confirming`). `confirm_ga` takes no lock before its
commit, `confirm_assigned` has the seats from then on. `told[c]` is the status
of the order in the answer `create_checkout` gives: the body of a 201 or 200,
the 402 of a declined payment, the 409 that speaks of a refund.

Two constants choose an environment. `Serial` says that a client waits for the
end of a call before retrying; without it two calls with one key overlap.
`RollbackExpires = TRUE` is what SQLAlchemy does: `rollback()` expires the
session's objects, and the next access to one is a lazy load outside an await,
which raises. `FALSE` is the session of the unit tests; `saga_serial` uses it
to check the compensation that stands behind that defect (section 3), which
with `TRUE` would never be reached.

### WaitingRoom

`queue` maps each visitor to a score (0: not queued), `left`/`key` are the
seconds until the shopper's score and keys run out, `rate[a]` the counter of
the second `a` seconds ago. An `admit_tick` is `gc`, `count`, `INCRBY`, the
give-back, `ZCARD`, `ZPOPMIN`, and one `put_shopper` for each visitor popped.
A join runs the tick in the middle and looks its visitor up again. `Serial`
runs one call at a time, which is what the tests do. A tick may last into the
next second and not longer: `Ages`, the bound that also equals the two seconds
a rate key lives. Left out: a visitor's older token after a second admission.

A flood takes as many scores as there are `Fans` in one INCRBY and adds them in
batches of `FloodBatch` with ZADD NX. `Alone` lets it start, under `Serial`,
only when no call is going on, and calls only when it has ended.

`RoomLedger` is `memory.py`: a line, the shoppers' time, the grants of a second.
None of its methods awaits, so each is a step, and a tick is two of them, the
grant and the admission. `WaitingRoom` refines it: the line is the queue in the
order of its scores, and whoever has been popped is a shopper already. `Line`
is that order, written without recursion: the visitor at place i is the one
with i scores up to his own.

### Outbox

`Outbox` is `run_once`: the selects of `expire_holds` and `expire_ga` lock a
batch of reservations (`held`), each is released in the open transaction
(`freed`), the select of `publish_outbox` locks a batch of events (`lock`),
each is delivered and marked, `admit_tick` runs, and one commit makes `expired`
and `published` true. A failure anywhere, the notifier's and Redis' included,
takes all of it back except `delivered`, the count of the notifier's calls.
The reservations are ones that nobody pays for; what else can become of one is
in the inventories. An event that `deliver` refuses every time would stop all
passes for ever, expiry included: `MaxFaults` bounds failures, so this is
outside the model, and the `LogTicketNotifier` never refuses.

### Stadium and SeatMap

`RowLabel` is `_row_label`, the division loop as a recursive function;
`SeatSpecs` is the order of `seats()`. Each of the `Seeders` looks for the
match, inserts it (the unique slug lets one through at a time), inserts the
seats in chunks, adds the GA row and commits. `Places` defines what the stadium
should have without the loop: the row with k rows before it has the word with k
words before it, shorter words first and then alphabetically. The alphabet has
`Letters` letters, two in the instance, so that seven rows go from A over BB to
AAA.

`SeatMap` reads the match with its GA row, the Redis key, and the seats, in
three steps; `past[a]` remembers what was true `a` seconds ago.

## 3. What the runs check

Passing runs (every state space is explored completely):

| Run | Checks | On |
|---|---|---|
| `seats_race` | `TypeOK HoldOwnsItsSeats LostMeansGone NoReserveDeadlock LocksReturned SoldIsForever ImplementsLedger ImplementsReservation LocksDroppedByOwner` | two reserves of one pair of seats, two confirms of one hold, two workers: every order of their awaits, gate locks running out and the payment of one hold arriving at any moment, an error or a crash anywhere |
| `seats_live` | `OneHoldPerKey ReserveEnds LapsedHoldIsReleased` | two holds of a seat each that lapse together, a pass that frees both in one transaction in the order of hold ids, and a retry of the second hold, under way at the same time, that locks both seats in the order of seat ids; fairness, no faults |
| `ga_sale` | `TypeOK PlacesConserved OneReservationPerKey ImplementsReservation` | three places; a double click that asks for one and then for two, two more clients, a stranger with the key who asks for too many, a confirm, the worker, one fault |
| `ga_return` | `ReserveEnds LapsedReservationIsReturned` | three reservations of one pool, up to two of them in a batch while the third is claimed; a confirm of the first, one fault; fairness |
| `saga_tabs` | `TypeOK NoDoubleCharge HoldIsSoldOnce` | overlapping retries and a second tab on one hold, a stranger with the key, a lost reply or a crash |
| `saga_serial` | `SaleIsOneCommit ConfirmedIsPaid MoneyIsAccountedFor ToldStaysTrue NewOrderIsChargedOutside DeclinedComesBack` | clients that retry after the end of a call, on a hold and on a GA reservation, one fault; fairness of time and the worker only |
| `room_line` | `TypeOK ShoppersAreLetIn LineIsFair` | two overlapping joins (two visitors, or two tabs of one) and a worker, one fault |
| `room_serial` | `ImplementsLedger QueuedIsAdmitted` | two visitors who join and three fans who come in a flood of two batches, calls that do not overlap, seconds passing inside them |
| `outbox_pass` | `TypeOK PublishedWasDelivered AgainOnlyAfterFailure WrittenIsPublished LapsedIsExpired` | two workers, three events, a reservation that runs out, failed passes |
| `map_stale` | `TypeOK ShownWasTrue SeedIsIdempotent` | two operators seeding at once, two readers and a changing stock, one fault |

Three variants pass as well:

* `seats_keys.cfg` (`OneHoldPerKey`): one key used by three calls at once, the
  third of another session and with a seat that does not exist.
* `seats_lapse.cfg` (`LapsedHoldIsReleased`): two holds of a seat each, a confirm
  that deadlocks with the pass, and one fault, which may fail a pass.
* `room_flood.cfg` (`TypeOK`, `ShoppersAreLetIn`, `LineIsFair`; 5 million states,
  a minute): one join at a time, a worker, and a flood of two batches that
  interleave, with one fault. Joins come between the batches of the flood, which
  `room_serial` leaves out.

What they show, property by property:

* `HoldOwnsItsSeats`, `ImplementsLedger`: the rows of seats and holds never
  disagree in any committed state, and all the steps of three kinds of process
  amount to the atomic `Take`, `Sell` and `GiveBack` of `SeatLedger`.
* `ImplementsReservation`: a hold or GA reservation is sold once, to a confirm
  that found it ACTIVE, and expired only by a pass that found it lapsed and not
  paid for; what was paid for before it ran out is never taken back. This is
  what ties the saga's checks to the inventories (section 2).
* `SoldIsForever`, `LostMeansGone`: a sold seat stays as it is, and a confirm
  that reports a loss is right.
* `NoReserveDeadlock`: multi-seat reserves alone never wait in a cycle.
* `LocksReturned`: a pass that expires a hold leaves no gate lock of it, however
  the call that made the hold ended, and neither does a call that is refused or
  that the database fails. A call that Redis fails in the gate, or whose process
  dies, may leave its locks until their TTL; `seats_gate.cfg` below shows it.
* `LocksDroppedByOwner`: no call drops a gate lock that somebody else has.
* `ReserveEnds`, `LapsedHoldIsReleased` of the seats: a pass keeps the rows of
  one hold while it works on the next and may deadlock with a reserve that has
  locked them in another order; one of the two fails, the reserve ends all the
  same, and both holds are released by some pass.
* `ReserveEnds`, `LapsedReservationIsReturned` of general admission: attempts
  run out, and a reservation that loses the race for the pool's version within
  a batch, while another one of the batch is returned, has its turn later.
* `PlacesConserved`: places left, reserved and sold add up to the capacity.
* `OneHoldPerKey`, `OneReservationPerKey`: of the calls with one key at most
  one is answered 201, and replays are answered with its reservation.
* `NoDoubleCharge`, `HoldIsSoldOnce`: one charge per reservation, and one
  ticket per hold, in the commit that sells it, however the calls overlap.
* `SaleIsOneCommit`: order, reservation and exactly one ticket become final
  together and stay so, for clients that wait for the end of a call.
* `ConfirmedIsPaid`, `MoneyIsAccountedFor`: whoever has a ticket has paid,
  whoever got the money back has no ticket, and a final order has one of both,
  for clients that wait for the end of a call (`saga_unpaid` for the others).
* `ToldStaysTrue`: every answer about an order agrees with its row from then
  on, so that any retry is told the same, for clients that wait for the end of
  a call.
* `NewOrderIsChargedOutside`: the call that places an order has no transaction
  open while it charges.
* `DeclinedComesBack`: the unique index lets nobody else pay for a hold whose
  payment was declined, not even the same shopper with another card; the
  worker frees it in the end, whether or not any call goes on.
* `LineIsFair`, `ShoppersAreLetIn`, `ImplementsLedger` of the room,
  `QueuedIsAdmitted`: the line and the token, however calls overlap; and, when
  they do not, all limits of the waiting room at once: one place each,
  admission from the front, never more than the bulkhead and the second have
  room for, and everybody in line admitted in the end.
* `PublishedWasDelivered`, `AgainOnlyAfterFailure`, `WrittenIsPublished`,
  `LapsedIsExpired`: mail at least once, twice only for a reason, and in the
  end; and expiry in the end, although it depends on the mail of its pass.
* `SeedIsIdempotent`: whoever's seed ends without a fault leaves the complete
  stadium, each place once and under the name its row has by the reference.
* `ShownWasTrue`: a map lags by its TTL and build time at most.

### Where the code departs from its documents

Two runs are kept for sentences of the documentation that the code does not
keep, with TLC's execution as the proof:

| Run | Property | What happens |
|---|---|---|
| `ga_oversell` | `NoOversell` | `confirm_ga` overwrites EXPIRED with CONFIRMED: a late capture sells places the worker has given back and someone else has taken |
| `saga_norefund` | `LostSaleIsRefunded` | after the rollback of a lost confirm the payment is an expired object; reading it fails, and the captured payment is never refunded |

Nine more configurations reproduce the rest; each ends with the violation of
its one property:

| Configuration | Property | What happens |
|---|---|---|
| `saga_unpaid.cfg` | `ConfirmedIsPaid` | a retry has read the order PAYMENT_PENDING, the first call's decline commits, and the retry then reads the payment FAILED, which `_resume` does not test for (`checkout/service.py:105`): the order is CONFIRMED without a payment |
| `saga_undone.cfg` | `SaleIsOneCommit` | three overlapping tries of one order: the first commits its decline, the second has read the order before that, finds the payment FAILED and confirms, as above, and the third, which has been told of the same decline, sets the order to PAYMENT_FAILED whatever it is by then (`service.py:93-98`). The hold is CONFIRMED and the ticket out, on an order that says otherwise |
| `saga_twice.cfg` | `OneTicketPerOrder` | overlapping retries of a GA order each write a ticket: `confirm_ga` locks nothing and the order's UPDATE has no version (`service.py:124`); ARCHITECTURE.md:40 has confirms idempotent |
| `saga_opentx.cfg` | `NoTransactionDuringCharge` | a retry that finds the payment PENDING charges inside the transaction of its SELECTs (`service.py:92`); README.md:8 says "never an open transaction during payment" |
| `seats_gate.cfg` | `AllOrReleased` | Redis fails while a call takes the gate, or while it gives it back: the call ends with the error, without a hold, and the locks it had taken refuse the seats to everyone until their TTL (`inventory/service.py:55` is outside the `try`); `locking.py:63` says "Acquire every seat or release what we took" |
| `seats_starved.cfg` | `LapsedHoldIsReleased` | captured holds that stay ACTIVE fill the LIMIT of every pass (`checkout/expiry.py:39-44`), and abandoned holds behind them never expire |
| `room_bulkhead.cfg` | `BulkheadHolds` | two ticks count the same shoppers (`waiting_room/service.py:99`) and each admits the whole remainder |
| `room_rate.cfg` | `RateHolds` | each of two calls gives back increments of the other (`redis_store.py:79`); the counter sinks below what was granted and admits more in that second |
| `room_rejoin.cfg` | `JoinsOnce` | a visitor who has been popped and not yet put is neither queued nor shopping (`service.py:38`), and is queued again |

`room_serial` shows that the room keeps every promise of `RoomLedger` when calls
do not overlap, so it is the overlap that breaks them. `saga_serial` does that
for `saga_unpaid` and `saga_undone`, and `seats_live`, with a batch that has room
for the hold that is paid for and another one, for `seats_starved`.

    tlc -workers 2 -config saga_unpaid.cfg MCCheckout.tla       (saga_*)
    tlc -workers 2 -config seats_starved.cfg MCSeatInventory.tla (seats_*)
    tlc -workers 2 -config room_rate.cfg MCWaitingRoom.tla      (room_*)
    tlc -workers 2 -config seats_keys.cfg MCSeatInventory.tla   (passes; seats_lapse too)
    tlc -workers 2 -config room_flood.cfg MCWaitingRoom.tla     (passes)

## 4. Bounds and why they are enough

* Seats: two, in holds of two seats, so that a hold can be half locked, half
  confirmed or half freed, and locks can be taken in two orders. In `seats_live`
  two of the holds have one seat each, so that both can be ACTIVE and lapsed at
  once. A third seat in `seats_keys` does not exist.
* Holds: two that compete, three in `seats_live` and `seats_keys`. The races of
  this code are between two of them, with confirm and worker as the other
  actors; what takes three is a pass with two holds against a reserve.
* Workers: two where `SKIP LOCKED` matters (`seats_race`, outbox), one
  elsewhere. `BatchSize` 2 lets one pass keep the rows of one hold while it works
  on the next (`seats_live`, `seats_lapse`), and return the places of one
  reservation of a batch while another loses its race (`ga_return`).
* Buyers: a buyer is one call of the confirm. Two are needed to confirm twice.
* GA: three places; quantities 1, 2, 1, 1 and 3 with `MaxQuantity` 2, so that a
  claim may fit or not, and one is refused. In `ga_return` three calls for one
  place each: two reservations lapse together while the third call claims.
  `MaxAttempts` 2 lets a call meet a conflict and come back, and run out of
  attempts.
* Checkout: four calls. In `saga_tabs` two overlapping retries, a second key
  and a second session on one hold; in `saga_serial` two each on two reservations.
* Waiting room: a bulkhead of 1 or 2, two to five visitors, a rate of 1, a TTL
  of 2 or 3 seconds. A flood of three in batches of two has a full and a short
  batch. `MaxScore` bounds the number of times anybody is queued.
* Faults: one, or two in the outbox. Each ends one call, and what it leaves
  behind is what later calls meet. `seats_live` and `room_serial` have none, for
  the size of their graphs: faults are in `seats_race`, `seats_lapse` and
  `room_line`, and the proofs of section 6 hold for any number of them.
* Outbox: three events in batches of two, so that two workers can each have a
  batch, and one reservation that shares the pass with them.
* Stadium: a section of seven rows and one with two seats in a row, in chunks
  smaller than the stadium, so that a seed can fail between two chunks. An
  alphabet of two letters goes through both of the places where the loop can go
  wrong, from one letter to two and from two to three; longer labels repeat the
  same step.
* Seat map: a TTL of 2 seconds, calls that last into the next second, two
  changes of the stock after the seed.

Deadlock checking is off where a run can come to its end: all calls have
returned and the worker has nothing to do. The waiting room, the worker's pass
and the seat map never come to one, and are checked for deadlock.

## 5. Fairness

* **Strong fairness of a call** (`SF_vars(Reserve(h))`, `Confirm`, `ExpirePass`,
  `Step`). A step that waits for a row lock is enabled whenever the lock is
  free, which can be again and again. PostgreSQL queues the waiters of a
  row and hands it to them, so a waiter is not passed over for ever. The
  event loop runs every ready task. That is strong fairness of the call.
* **`DeadlockVictim`** is weakly fair in `SeatInventory`: the detector runs
  after `deadlock_timeout` and finds every cycle.
* **The worker** polls for ever (`while True` in `main`), and a pass that fails
  is followed by another: strong fairness of `ExpirePass`, weak of `Pass` in
  `Outbox` (its select skips locked rows, it never waits).
* **Waiting room**: weak fairness of a join's next step and of `Second`, and
  strong fairness of `AdmitTick`. Ticks wait for nothing, so for them strong
  and weak are the same, except with `Serial`, where a worker needs its turn
  between other calls.
* **Expiry as the saga sees it** (`ExpirySpec`): time passes (`Lapse`), the
  worker looks at every lapsed reservation (weak fairness: it stays lapsed
  until then), and a pass that keeps meeting a confirm's locks or failing
  succeeds some time (strong fairness of `WorkerExpires`). No fairness of the
  calls: `DeclinedComesBack` does not need any call to go on.
* A flood that has begun ends (`FloodLine`).
* Nothing is assumed of clients, TTLs of reservations, payments or faults. No
  fairness on `StartJoin`, `FloodScores`, `StartConfirm`, `LookupOrder`,
  `Capture`, `Fault`, nor on `Lapse` except in `ExpirySpec`.

## 6. What is proved

TLC explores the small instances of section 4; the eight proof modules are for
every value of the constants: any sets of calls, seats, visitors, workers, any
limits and batch sizes, any number of faults. Every safety property of a
passing run, invariant, action property or refinement, is a theorem. They rest
on the named assumptions the models declare for their constants (ids are
numbers, processes of different kinds are different, a request names a seat,
settings are positive, the requests of the waiting room are finitely many,
`None` is none of the data), which TLC evaluates on every run, and some on a
hypothesis of their own:

| Module | Theorems (`Spec =>` what the property says) | Hypothesis |
|---|---|---|
| `SeatInventoryProofs` | `TypeCorrect`, `SeatsAgreeWithHolds` (`HoldOwnsItsSeats`), `SaleIsFinal` (`SoldIsForever`) | – |
| `SeatPromiseProofs` | `KeyMakesOneHold` (`OneHoldPerKey`), `NoFalseConflict` (`LostMeansGone`), `GateIsReturned` (`LocksReturned`), `GateIsDroppedByOwner` (`LocksDroppedByOwner`), `CallsDoNotDeadlock` (`NoReserveDeadlock`), `SeatsImplementLedger`, `SeatsImplementReservation` | – |
| `GaProofs` | `TypeCorrect`, `KeyMakesOneReservation` (`OneReservationPerKey`), `CallsImplementReservation` | – |
| | `PlacesAddUp` (`PlacesConserved`), `OversoldOnlyByLateCapture` (`NoOversell`) | `~LateCapture` |
| `CheckoutProofs` | `TypeCorrect`, `ChargedOnce` (`NoDoubleCharge`), `SoldOnce` (`HoldIsSoldOnce`) | – |
| | `MoneyAsTheCodeIs` (`MoneyIsAccountedFor`) | `RollbackExpires` |
| | `SoldAsOne` (`SaleIsOneCommit`), `ConfirmedAfterCapture` (`ConfirmedIsPaid`), `MoneyForTicket` (`MoneyIsAccountedFor`), `RepliesAreFinal` (`ToldStaysTrue`), `ChargedOutside` (`NewOrderIsChargedOutside`) | `Serial` |
| `RoomProofs` | `TypeCorrect`, `ShoppersHaveTheirKey` (`ShoppersAreLetIn`), `LineKeepsItsOrder` (`LineIsFair`) | – |
| `RoomSerialProofs` | `CallsImplementLedger` (`ImplementsLedger`) | `Serial`, `MaxFaults = 0` |
| `OutboxProofs` | `TypeCorrect`, `NothingIsSkipped` (`PublishedWasDelivered`), `OncePerFailure` (`AgainOnlyAfterFailure`) | – |
| `SeatMapProofs` | `MapIsRecent` (`ShownWasTrue`) | – |
| | `TypeCorrect` | `Len(SeatSpecs) \in Nat` |
| | `SeedOnce` (`SeedIsIdempotent`) | `ProperLayout` |

*The hypotheses* are what the code needs, and each has a run that shows what
happens without it. `~LateCapture`: no payment is captured after its reservation
has run out; with one, `ga_oversell` oversells, so the two theorems say that
this is the only way. `RollbackExpires` is what SQLAlchemy does, so
`MoneyAsTheCodeIs` speaks of the code as it runs, where the refund is never
reached (`saga_norefund`); without it only clients that wait (`Serial`) are
safe. `Serial` in the saga: clients wait for the end of a call before they
retry; `saga_unpaid` and `saga_undone` are what overlapping retries do, and when
one of them overtakes the first call, that call too finds the payment PENDING
and charges in an open transaction, as in `saga_opentx`. `Serial` in the room: `room_bulkhead`, `room_rate`,
`room_rejoin`. So `CallsImplementLedger` says that the Redis store and the
tests' store are one and the same room to a client who is alone, as in the
tests, and nothing of the limits when ticks overlap, where they do not hold.
`MaxFaults = 0` there, because a tick that dies between its
ZPOPMIN and `put_shopper` loses the visitors it has popped, which the room of
the tests, one step per method, cannot do. `Len(SeatSpecs) \in Nat` and
`ProperLayout` (the layout lists every place of the stadium exactly once, by
the reference names) say of `layout.py`'s data what would take induction over
the rows to prove; `map_stale` has TLC compute it for its layout, and
`SeedOnce` proves the rest: two operators, chunks, faults and the unique slug.

### The inductive invariants

Each theorem follows from an invariant that is inductive, and in each module
`Invariance` (or `PromiseInvariance`, `SerialInvariance`, `MapInvariance`) is
`Spec => []` of it. They are needed because actions act on what a call has read
earlier: the invariant says for each kind of process what is still true of that.
Each was checked by TLC on an instance of its module before it was proved:

| Invariant | Says, besides the types | TLC (distinct states) |
|---|---|---|
| `IInv` of `SeatInventoryProofs` | a reserve past its check has every wanted row locked and AVAILABLE; the seats a confirm has updated are locked and its own, the others have the version it has read or have moved on; a worker has the holds of its batch and those it has freed locked and ACTIVE | `seats_race` (814021), `seats_live` (64849) |
| `PInv` of `SeatPromiseProofs` | the first of a key is the only one at its commit; a confirm that gives up has seen its hold gone; rows are locked in the order of ids; a gate lock is known to whoever has to release it | `seats_race`, `seats_live`, `seats_keys` (309641) |
| `GInv` of `GaProofs` | who has the pool locked, the worker's batch and locks; left and reserved places never exceed the capacity, left, reserved and sold never fall short of it | `ga_sale` (337156), `ga_oversell` (3471), `ga_return` with two workers and late captures (88681) |
| `IInv` of `CheckoutProofs` | the unique indexes; which order a call works on; whoever is to sell a hold is alone with it | three overlapping tries of a hold, of a GA reservation |
| `SInv` of `CheckoutProofs` | one call per key; what order, payment, charge, ticket and reservation say of each other at each place of the saga | two reservations, serial (150283) |
| `MoneyInv` of `CheckoutProofs` | no refund; a failed order's charge was declined | three overlapping tries, a fault (84015) |
| `RInv` of `RoomProofs` | no score is above the counter; one that a join or a flood has drawn and not used yet is nobody else's; there are scores left for every join that is on its way | `room_line`, `room_flood` |
| `LInv` of `RoomSerialProofs` | one call at work; a visitor is in line, popped or shopping, never two of them; counter and grants differ by what the tick gives back; counted shoppers and slots fit the bulkhead | `room_serial` (52576), a rate of 2 (235157), a bulkhead of 2 (78183) |
| `IInv` of `OutboxProofs` | a locked event is written and not published; one that nobody has marked has been delivered once for each failure at most | `outbox_pass` (110150) |
| `MInv` of `SeatMapProofs` | what a call has read was true since it began; what is cached was true within its age and the length of a call | `map_stale` (2885616) |

*How the proofs go.* One lemma per actor or per action and part of the
invariant, put together by case on `Next`. Two arguments are used throughout.
A process's part depends on the others only through rows it has locked (or, in
the saga, through the order it alone works on), so a step keeps the parts of all
others if it stays within its own: `OthersKeep` in `SeatInventoryProofs` and
`CheckoutProofs`. And only commits write rows (`RowWriters` in
`SeatPromiseProofs`, `StatusWriters` in `GaProofs`), so each promise is shown
of three commits and a stutter.

* *Refinements.* The initial states are mapped, and each action of the detailed
  module is shown to be a step of the abstract one or a stutter. `CommitHold`
  is `Take`, `CommitConfirm` `Sell`, `CommitPass` `GiveBack`; of `Reservation`,
  the step in which a pass finds a hold lapsed and unpaid is `Look` and the
  first seat that a confirm updates is `Find`. In the room a tick's `INCRBY` is
  the grant and its ZPOPMIN the admission; the give-back, the size of the queue
  and every `put_shopper` are stutters. That `Line` is the one rising sequence
  of the queue makes a batch of the flood an append at its end.
* *Places* are counted with the cardinality theorems of the library:
  `Places(R)` is the set of pairs of a reservation and a number up to its
  quantity, so a claim is a disjoint union.
* *Deadlock*: in a set of reserves that all wait for each other, take the one
  that waits for the lowest row. Somebody waits for it at a higher row, which it
  has locked; but rows are locked in order, so it has the lower one already.
* *Recent maps*: one lemma each for what a second does to what was true, and
  for what a step within a second does.

### What stays model-checked

* Liveness: `ReserveEnds`, `LapsedHoldIsReleased`,
  `LapsedReservationIsReturned`, `DeclinedComesBack`, `QueuedIsAdmitted`,
  `WrittenIsPublished`, `LapsedIsExpired`. TLAPS does not do fairness and
  `ENABLED`.
* That the labels and the order of the seats are the reference's (`RowLabel`,
  `SeatSpecs`): induction over the rows, which no installed prover can do. TLC
  computes it for layouts of up to seven rows.
* `LostSaleIsRefunded` and the properties of the configurations that end with
  a violation, which are false.


## 7. Not modelled

* The HTTP layer beyond the answers of the three POST routes: GET routes only
  read, and health, start-up and dependency injection keep no state.
* Settings, metrics and construction of clients. The settings the behaviour
  depends on are constants of the modules.
* The Locust scenarios (`loadtests/`): clients with random think times; what
  they may do, a client of the models may do.
* A match without a GA row, the length of the back-off, amounts and currency.
* A PSP that forgets its charges when the process restarts, as the in-process
  mock does. The model's PSP remembers, as its protocol asks.
* Two clocks: the score of a shopper is counted by the api's clock and the token
  by Redis', and `WaitingRoom` has one. `ShoppersAreLetIn` is about the seconds
  each of them is given and the second a tick takes in between, not about skew.
* A second charge of one order: that the provider replays the charge of a key it
  has seen is taken from `psp.py`, and `NoDoubleCharge` is about two orders of
  one reservation.
* Layouts of different sizes under one slug: all `Seeders` of an instance seed
  the same one.
* What becomes of visitors a dead tick has popped: nothing brings them back,
  and no document says so (`LineIsFair` allows for it).
* An order whose payment is CAPTURED and whose client never retries: no sweep
  of such orders exists, and the worker leaves their holds alone.

## 8. Plan

Done: all modules of section 2, and a proof of every safety property of the
passing runs.

Left, in this order:

1. A bound of the room that survives overlap: `BulkheadHolds` fails when two
   ticks count the same shoppers; a bound in the number of ticks at once is to
   be found. A proof of the limit for calls that never overlap would say
   nothing of that case, so none is given.
2. Facts about `RowLabel` that need no induction: from one row to the next.

## 9. Running

    tlc -workers 2 -config seats_race.cfg MCSeatInventory.tla
    tlapm SeatInventoryProofs.tla

`PROJECT.json` names the module of each run. The longest run takes under two
minutes; each proof module takes from a few seconds to a few minutes.
