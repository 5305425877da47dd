---------------------------- MODULE WaitingRoom ----------------------------
(***************************************************************************)
(* The waiting room in front of the sale: a queue of visitors, the set of  *)
(* admitted shoppers and one counter of admissions per second, all three   *)
(* in Redis. Any number of requests run join, and every worker pass and    *)
(* every join of a new visitor runs admit_tick.                            *)
(*                                                                         *)
(* One action is one Redis command (or one MULTI of put_shopper), so two   *)
(* handlers interleave wherever the code awaits the store. There is no     *)
(* absolute time: a key carries the seconds it has left, a counter and a   *)
(* tick carry their age, and Second moves all of them.                     *)
(***************************************************************************)
EXTENDS Integers, FiniteSets, SequencesExt

CONSTANTS Visitors,   \* visitor ids
          Fans,       \* those a flood puts in line, who never join, as a sequence
          FloodBatch, \* batch_size of the flood
          Requests,   \* the join requests an instance can be working on
          Workers,    \* worker processes
          Bulkhead,   \* settings.checkout_concurrency_limit
          PerSecond,  \* admits_per_second(settings.waiting_room_admit_per_minute)
          Ttl,        \* settings.shopping_ttl_seconds
          MaxScore,   \* bound on the scores drawn
          MaxFaults,  \* bound on failed calls
          Serial,     \* whether calls run one at a time, as in the tests
          None        \* no visitor

ASSUME RoomAssumption ==
  /\ Bulkhead \in Nat \ {0} /\ PerSecond \in Nat \ {0} /\ Ttl \in Nat \ {0}
  /\ Fans \in Seq(Visitors) /\ IsInjective(Fans) /\ FloodBatch \in Nat \ {0}
  /\ MaxScore \in Nat /\ MaxFaults \in Nat /\ Serial \in BOOLEAN
  /\ IsFiniteSet(Requests)
  /\ Requests \intersect Workers = {} /\ None \notin Visitors

Procs == Requests \union Workers

VARIABLES
  seq,       \* SEQ_KEY
  queue,     \* QUEUE_KEY: the score of each queued visitor, 0 for the others
  shoppers,  \* SHOPPERS_KEY: its members
  left,      \* seconds until the expires_at that is a member's score
  key,       \* seconds until visitor_key and token_key expire, 0 when gone
  rate,      \* rate_key of this second and of the one before, by their age
  granted,   \* admissions take_rate_tokens has granted in each of the two
  pc,        \* where each call stands
  age,       \* seconds since a tick has read the clock
  visitor,   \* the visitor a request has come from, or None
  score,     \* the score a join has drawn, 0 before
  slots,     \* bulkhead_slots, then rate_slots, then n of a tick
  overflow,  \* what a tick has to give back to the counter
  popped,    \* the visitors a tick has taken off the queue and not yet put
  seqEnd,    \* the last score of the flood, 0 before it has any
  flooded,   \* fans whose batch the flood has added
  faults     \* failed calls so far

vars == <<seq, queue, shoppers, left, key, rate, granted, pc, age, visitor, score, slots,
          overflow, popped, seqEnd, flooded, faults>>

room == <<seq, queue>>
floor == <<shoppers, left, key>>
limiter == <<rate, granted>>
call == <<visitor, score>>
tick == <<age, slots, overflow, popped>>
flood == <<seqEnd, flooded>>

Ages == 0..1
Ticking == {"count", "rate", "refund", "size", "pop", "put"}
Goto(p, where) == pc' = [pc EXCEPT ![p] = where]
Least(a, b) == IF a < b THEN a ELSE b

(* Where a tick goes when it is over: a join looks its visitor up again.    *)
AfterTick(p) == IF p \in Requests THEN "status" ELSE "idle"

Init ==
  /\ seq = 0
  /\ queue = [v \in Visitors |-> 0]
  /\ shoppers = {}
  /\ left = [v \in Visitors |-> 0]
  /\ key = [v \in Visitors |-> 0]
  /\ rate = [a \in Ages |-> 0]
  /\ granted = [a \in Ages |-> 0]
  /\ pc = [p \in Procs |-> "idle"]
  /\ age = [p \in Procs |-> 0]
  /\ visitor = [t \in Requests |-> None]
  /\ score = [t \in Requests |-> 0]
  /\ slots = [p \in Procs |-> 0]
  /\ overflow = [p \in Procs |-> 0]
  /\ popped = [p \in Procs |-> <<>>]
  /\ seqEnd = 0
  /\ flooded = 0
  /\ faults = 0

Flooding == seqEnd > 0 /\ flooded < Len(Fans)

(* With Serial, a call or a flood starts when no other is going on.         *)
Alone == Serial => ~Flooding /\ \A p \in Procs : pc[p] = "idle"

(* gc_shoppers, with a clock read this second. *)
GcShoppers ==
  /\ shoppers' = {v \in shoppers : left[v] > 0}
  /\ left' = [v \in Visitors |-> IF v \in shoppers' THEN left[v] ELSE 0]
  /\ UNCHANGED key

(***************************************************************************)
(* join and status                                                         *)
(***************************************************************************)
(* Calls that have not drawn a score yet, so that MaxScore is a bound.      *)
Undecided == {t \in Requests : pc[t] # "idle" /\ score[t] = 0}

StartJoin(t, v) ==
  /\ pc[t] = "idle"
  /\ Alone /\ v \notin ToSet(Fans)
  /\ seq + Cardinality(Undecided) < MaxScore
  /\ GcShoppers
  /\ visitor' = [visitor EXCEPT ![t] = v]
  /\ Goto(t, "key")
  /\ UNCHANGED <<room, limiter, tick, score, faults>>

(* The status with which a join ends. *)
StatusAgain(t) ==
  /\ pc[t] = "status"
  /\ GcShoppers
  /\ Goto(t, "key")
  /\ UNCHANGED <<room, limiter, tick, call, faults>>

(* A call leaves nothing behind. *)
CloseCall(t) ==
  /\ Goto(t, "idle")
  /\ visitor' = [visitor EXCEPT ![t] = None]
  /\ score' = [score EXCEPT ![t] = 0]

(* get_shopper reads the visitor's key. *)
GetKey(t) ==
  /\ pc[t] = "key"
  /\ Goto(t, IF key[visitor[t]] > 0 THEN "zscore" ELSE "rank")
  /\ UNCHANGED <<room, floor, limiter, tick, call, faults>>

BugNobodyShops(v) == FALSE

(* get_shopper finds a score that is not over yet. *)
StillShopping(v) == v \in shoppers /\ left[v] > 0

GetScore(t) ==
  /\ pc[t] = "zscore"
  /\ IF StillShopping(visitor[t])
       THEN CloseCall(t)
       ELSE Goto(t, "rank") /\ UNCHANGED call
  /\ UNCHANGED <<room, floor, limiter, tick, faults>>

(* A visitor who is neither shopping nor queued joins the queue, unless this *)
(* is the second status of a join, which then answers "unknown".            *)
Rank(t) ==
  /\ pc[t] = "rank"
  /\ IF queue[visitor[t]] = 0 /\ score[t] = 0
       THEN Goto(t, "seq") /\ UNCHANGED call
       ELSE CloseCall(t)
  /\ UNCHANGED <<room, floor, limiter, tick, faults>>

NextScore(t) ==
  /\ pc[t] = "seq"
  /\ seq' = seq + 1
  /\ score' = [score EXCEPT ![t] = seq']
  /\ Goto(t, "enqueue")
  /\ UNCHANGED <<queue, floor, limiter, tick, visitor, faults>>

BugAddAnyway(v, s) == s

(* ZADD NX: a visitor who is queued already keeps the score of then. *)
ScoreToKeep(v, s) == IF queue[v] = 0 THEN s ELSE queue[v]

Enqueue(t) ==
  /\ pc[t] = "enqueue"
  /\ queue' = [queue EXCEPT ![visitor[t]] = ScoreToKeep(visitor[t], score[t])]
  /\ Goto(t, "tick")
  /\ UNCHANGED <<seq, floor, limiter, tick, call, faults>>

(***************************************************************************)
(* admit_tick, by a worker or inside a join                                *)
(***************************************************************************)
StartTick(p) ==
  /\ \/ pc[p] = "tick"
     \/ p \in Workers /\ pc[p] = "idle" /\ Alone
  /\ GcShoppers
  /\ age' = [age EXCEPT ![p] = 0]
  /\ Goto(p, "count")
  /\ UNCHANGED <<room, limiter, call, slots, overflow, popped, faults>>

(* shopper_count(now) with the clock the tick has read: ZCOUNT's lower bound *)
(* is inclusive.                                                            *)
ShopperCount(p) == Cardinality({v \in shoppers : left[v] + age[p] >= 0})

(* Bug: off by one. *)
BugOneTooMany(active) == Bulkhead - active + 1
BulkheadSlots(active) == IF active < Bulkhead THEN Bulkhead - active ELSE 0

CountShoppers(p) ==
  /\ pc[p] = "count"
  /\ slots' = [slots EXCEPT ![p] = BulkheadSlots(ShopperCount(p))]
  /\ Goto(p, IF slots'[p] > 0 THEN "rate" ELSE AfterTick(p))
  /\ UNCHANGED <<room, floor, limiter, age, overflow, popped, call, faults>>

(* Bugs: the limit is not applied; a tick gets all it wants or nothing. *)
BugGrantAll(wanted, current) == wanted
BugAllOrNothing(wanted, current) == IF current <= PerSecond THEN wanted ELSE 0

(* What take_rate_tokens grants when INCRBY has brought the counter to      *)
(* current.                                                                 *)
GrantOf(wanted, current) ==
  LET over == current - PerSecond
  IN  IF over <= 0 THEN wanted ELSE IF wanted > over THEN wanted - over ELSE 0

IncrRate(p) ==
  /\ pc[p] = "rate"
  /\ LET current == rate[age[p]] + slots[p]
         grant == GrantOf(slots[p], current)
     IN  /\ rate' = [rate EXCEPT ![age[p]] = current]
         /\ granted' = [granted EXCEPT ![age[p]] = @ + grant]
         /\ slots' = [slots EXCEPT ![p] = grant]
         /\ IF current <= PerSecond
              THEN Goto(p, "size") /\ UNCHANGED overflow
              ELSE /\ Goto(p, "refund")
                   /\ overflow' = [overflow EXCEPT ![p] = current - PerSecond]
  /\ UNCHANGED <<room, floor, age, popped, call, faults>>

GiveBackRate(p) ==
  /\ pc[p] = "refund"
  /\ rate' = [rate EXCEPT ![age[p]] = @ - overflow[p]]
  /\ overflow' = [overflow EXCEPT ![p] = 0]
  /\ Goto(p, "size")
  /\ UNCHANGED <<room, floor, granted, age, slots, popped, call, faults>>

Queued == {v \in Visitors : queue[v] > 0}

(* bulkhead_slots is never below rate_slots, which are granted out of it. *)
QueueSize(p) ==
  /\ pc[p] = "size"
  /\ slots' = [slots EXCEPT ![p] = Least(slots[p], Cardinality(Queued))]
  /\ Goto(p, IF slots'[p] > 0 THEN "pop" ELSE AfterTick(p))
  /\ UNCHANGED <<room, floor, limiter, age, overflow, popped, call, faults>>

(* Where a queued visitor stands, and who stands at each place. *)
Place(v) == Cardinality({u \in Queued : queue[u] <= queue[v]})
Line == [i \in 1..Cardinality(Queued) |-> CHOOSE v \in Queued : Place(v) = i]

(* ZPOPMIN: the n lowest scores, lowest first. *)
FirstInLine(n) == SubSeq(Line, 1, Least(n, Cardinality(Queued)))

PopFront(p) ==
  /\ pc[p] = "pop"
  /\ popped' = [popped EXCEPT ![p] = FirstInLine(slots[p])]
  /\ queue' = [v \in Visitors |-> IF v \in ToSet(popped'[p]) THEN 0 ELSE queue[v]]
  /\ slots' = [slots EXCEPT ![p] = 0]
  /\ Goto(p, IF popped'[p] = <<>> THEN AfterTick(p) ELSE "put")
  /\ UNCHANGED <<seq, floor, limiter, age, overflow, call, faults>>

BugKeySeconds(p) == Ttl - age[p] - 1

(* Redis counts ex= from now, while expires_at counts from the tick's clock. *)
KeySeconds(p) == Ttl

PutShopper(p) ==
  /\ pc[p] = "put"
  /\ LET v == Head(popped[p])
     IN  /\ shoppers' = shoppers \union {v}
         /\ left' = [left EXCEPT ![v] = Ttl - age[p]]
         /\ key' = [key EXCEPT ![v] = KeySeconds(p)]
  /\ popped' = [popped EXCEPT ![p] = Tail(@)]
  /\ Goto(p, IF popped'[p] = <<>> THEN AfterTick(p) ELSE "put")
  /\ UNCHANGED <<room, limiter, age, slots, overflow, call, faults>>

(***************************************************************************)
(* flood_queue (load/flood.py) fills the line without joins                *)
(***************************************************************************)
FloodScores ==
  /\ seqEnd = 0 /\ Fans # <<>> /\ Alone
  /\ seq + Cardinality(Undecided) + Len(Fans) <= MaxScore
  /\ seq' = seq + Len(Fans)
  /\ seqEnd' = seq'
  /\ UNCHANGED <<queue, floor, limiter, pc, tick, call, flooded, faults>>

(* The score of the i-th fan. *)
FloodScore(i) == seqEnd - Len(Fans) + i

(* ZADD NX of the next of batch_ranges. *)
FloodLine ==
  /\ Flooding
  /\ flooded' = Least(flooded + FloodBatch, Len(Fans))
  /\ queue' = [v \in Visitors |->
                 IF \E i \in flooded + 1..flooded' : Fans[i] = v
                   THEN ScoreToKeep(v, FloodScore(CHOOSE i \in 1..flooded' : Fans[i] = v))
                   ELSE queue[v]]
  /\ UNCHANGED <<seq, floor, limiter, pc, tick, call, seqEnd, faults>>

(***************************************************************************)
(* The rest                                                                *)
(***************************************************************************)
(* stats and visitor_for_token collect too. *)
Collect == GcShoppers /\ UNCHANGED <<room, limiter, pc, tick, call, faults>>

(* A Redis error or a dead process ends a call where it stands; what a tick *)
(* has popped is gone with it.                                              *)
FailCall(p) ==
  /\ pc[p] # "idle" /\ faults < MaxFaults
  /\ faults' = faults + 1
  /\ IF p \in Requests THEN CloseCall(p) ELSE Goto(p, "idle") /\ UNCHANGED call
  /\ age' = [age EXCEPT ![p] = 0]
  /\ slots' = [slots EXCEPT ![p] = 0]
  /\ overflow' = [overflow EXCEPT ![p] = 0]
  /\ popped' = [popped EXCEPT ![p] = <<>>]
  /\ UNCHANGED <<room, floor, limiter>>

(* A counter is kept for a second longer when some tick still uses it. *)
Aged(counter) ==
  [a \in Ages |-> IF a = 1 /\ \E p \in Procs : pc[p] \in Ticking THEN counter[0] ELSE 0]

(* A second passes. No tick is allowed to take longer than the one after    *)
(* the second it read the clock in: the bound of Ages, and the two seconds  *)
(* a rate key lives.                                                        *)
Second ==
  /\ \A p \in Procs : pc[p] \in Ticking => age[p] = 0
  /\ age' = [p \in Procs |-> IF pc[p] \in Ticking THEN 1 ELSE 0]
  /\ left' = [v \in Visitors |-> IF v \in shoppers /\ left[v] > -2
                                   THEN left[v] - 1 ELSE left[v]]
  /\ key' = [v \in Visitors |-> IF key[v] > 0 THEN key[v] - 1 ELSE 0]
  /\ rate' = Aged(rate) /\ granted' = Aged(granted)
  /\ UNCHANGED <<room, shoppers, pc, call, slots, overflow, popped, faults>>

Join(t) ==
  \/ StatusAgain(t) \/ GetKey(t) \/ GetScore(t) \/ Rank(t) \/ NextScore(t) \/ Enqueue(t)

AdmitTick(p) ==
  \/ StartTick(p) \/ CountShoppers(p) \/ IncrRate(p) \/ GiveBackRate(p)
  \/ QueueSize(p) \/ PopFront(p) \/ PutShopper(p)

CallStep ==
  \/ \E t \in Requests, v \in Visitors : StartJoin(t, v)
  \/ \E t \in Requests : Join(t)
  \/ \E p \in Procs : AdmitTick(p) \/ FailCall(p)
  \/ Collect \/ Second

Next ==
  \/ CallStep /\ UNCHANGED flood
  \/ FloodScores \/ FloodLine

Spec == Init /\ [][Next]_vars

(* A call that has started goes on, the workers tick again and again (with  *)
(* Serial, they get their turn between the calls), time passes. Nobody has  *)
(* to join, and a flood that has begun ends.                                *)
FairSpec == /\ Spec
            /\ \A t \in Requests : WF_vars(Join(t) /\ UNCHANGED flood)
            /\ \A p \in Procs : SF_vars(AdmitTick(p) /\ UNCHANGED flood)
            /\ WF_vars(Second /\ UNCHANGED flood)
            /\ WF_vars(FloodLine)

(***************************************************************************)
(* Properties                                                              *)
(***************************************************************************)
(* Types, and no two visitors have the same score (next_score). *)
TypeOK ==
  /\ seq \in 0..MaxScore
  /\ queue \in [Visitors -> 0..MaxScore]
  /\ shoppers \subseteq Visitors
  /\ left \in [Visitors -> -2..Ttl]
  /\ key \in [Visitors -> 0..Ttl]
  /\ rate \in [Ages -> Int]
  /\ granted \in [Ages -> Nat]
  /\ pc \in [Procs -> Ticking \union
                {"idle", "key", "zscore", "rank", "seq", "enqueue", "tick", "status"}]
  /\ age \in [Procs -> Ages]
  /\ visitor \in [Requests -> Visitors \union {None}]
  /\ score \in [Requests -> 0..MaxScore]
  /\ slots \in [Procs -> 0..Bulkhead]
  /\ overflow \in [Procs -> Nat]
  /\ popped \in [Procs -> UNION {[1..n -> Visitors] : n \in 0..Bulkhead}]
  /\ seqEnd \in 0..MaxScore /\ flooded \in 0..Len(Fans)
  /\ faults \in 0..MaxFaults
  /\ \A u, v \in Queued : queue[u] = queue[v] => u = v

Shopping == {v \in shoppers : left[v] > 0}

(* require_admission: the token of a visitor is known. *)
LetIn(v) == key[v] > 0

(* While a shopper takes up a place of the bulkhead, the booking routes let *)
(* him in, and they let nobody in for longer after that than a tick takes:  *)
(* put_shopper's keys do not run out before the score, nor much later,      *)
(* whatever time the tick took to get there.                                *)
ShoppersAreLetIn ==
  \A v \in Visitors :
    /\ v \in Shopping => LetIn(v) /\ key[v] >= left[v]
    /\ LetIn(v) => key[v] <= 1 + (IF v \in Shopping THEN left[v] ELSE 0)

(* The line is fair: a place in it is kept, however often its visitor joins, *)
(* until the visitor is popped, and then nobody before him is left behind   *)
(* (enqueue with NX, next_score, pop_front).                                *)
LineStep ==
  \A v \in Queued : queue'[v] # queue[v] =>
      \A u \in Queued : queue[u] <= queue[v] => queue'[u] = 0

LineIsFair == [][LineStep]_vars

(* Never more shoppers than checkout_concurrency_limit (ARCHITECTURE.md:16). *)
BulkheadHolds == Cardinality(Shopping) <= Bulkhead

(* take_rate_tokens grants no more than its limit in a second (store.py:37). *)
RateHolds == \A a \in Ages : granted[a] <= PerSecond

(* join is idempotent: a visitor who is shopping is not in line for a second *)
(* admission.                                                               *)
JoinsOnce == \A v \in Shopping : queue[v] = 0

(* The ticks that have popped a visitor and not yet put him, and the time   *)
(* they will give him.                                                      *)
InHand(v) == {p \in Procs : v \in ToSet(popped[p])}

TimeLeft(v) == IF InHand(v) # {} THEN Ttl - age[CHOOSE p \in InHand(v) : TRUE]
               ELSE IF v \in Shopping THEN left[v] ELSE 0

(* The ticks that have been granted slots and have not popped yet.          *)
Granted == {p \in Procs : pc[p] \in {"refund", "size", "pop"}}
SlotsLeft == IF Granted = {} THEN 0 ELSE slots[CHOOSE p \in Granted : TRUE]

(* The calls of the room, as long as they do not overlap, keep the promises *)
(* of RoomLedger: nobody has two places, the line moves from its front, and *)
(* no tick admits more than the bulkhead and its second have room for.      *)
(* Whoever a tick has popped counts as admitted.                            *)
Ledger == INSTANCE RoomLedger WITH
  line <- Line,
  left <- [v \in Visitors |-> TimeLeft(v)],
  rate <- granted,
  slots <- SlotsLeft

ImplementsLedger == Ledger!Spec

(* Nobody waits for ever: as shopping times run out the line moves on to    *)
(* everybody in it.                                                         *)
QueuedIsAdmitted == \A v \in Visitors : queue[v] > 0 ~> v \in shoppers
=============================================================================
