------------------------------- MODULE SeatMap -------------------------------
(***************************************************************************)
(* The map of a match that shoppers look at (catalog): built from three    *)
(* statements, kept in Redis for a few seconds, shown to everybody, and    *)
(* never used to book.                                                     *)
(*                                                                         *)
(* The match appears with the seed (Stadium); of its seats, the ones in    *)
(* Seats change hands in an instance.                                      *)
(*                                                                         *)
(* Time is relative: the cached map and each call carry their age in       *)
(* seconds, and past[a] holds every stock that was true a seconds ago.     *)
(***************************************************************************)
EXTENDS Stadium

CONSTANTS Readers,     \* shoppers looking at the map
          Seats,       \* the assigned seats that change hands
          Capacity,    \* its general admission places
          Ttl,         \* settings.seat_map_ttl_seconds
          Span,        \* bound: a call lasts into this many further seconds
          MaxChanges,  \* bound on the changes of the stock
          MaxFaults    \* bound on failed calls

Status == {"AVAILABLE", "HELD", "SOLD"}
Stocks == [seats : [Seats -> Status], ga : 0..Capacity]

ASSUME SeatMapAssumption ==
  /\ Seats \subseteq ToSet(SeatSpecs) /\ Capacity \in Nat /\ Ttl \in Nat \ {0}
  /\ None \notin Stocks /\ \A n \in 0..Len(SeatSpecs) : ToSet(SubSeq(SeatSpecs, 1, n)) # None
  /\ Span \in Nat /\ MaxChanges \in Nat /\ MaxFaults \in Nat

VARIABLES
  stock,    \* the committed rows of the match: seats and ga, or None
  past,     \* past[a]: every stock of the second a seconds ago
  cache,    \* the value of the Redis key, or None
  age,      \* seconds since it was set
  pc,       \* where each call stands
  span,     \* seconds since each call began
  ga,       \* the places each call has read with the match, or None
  seats,    \* the seats each call has read, or None
  shown,    \* the last map each reader was shown, or None
  changes,  \* changes of the stock so far
  faults    \* failed calls so far

local == <<pc, span, ga, seats>>
sale == <<stock, past, cache, age, local, shown, changes>>
seed == <<arena, seeding, drafted>>
vars == <<sale, faults, seed>>

Window == 0..Ttl + Span

Init ==
  /\ stock = None
  /\ past = [a \in Window |-> {None}]
  /\ cache = None
  /\ age = 0
  /\ pc = [r \in Readers |-> "idle"]
  /\ span = [r \in Readers |-> 0]
  /\ ga = [r \in Readers |-> None]
  /\ seats = [r \in Readers |-> None]
  /\ shown = [r \in Readers |-> None]
  /\ changes = 0
  /\ faults = 0
  /\ SeedInit

-----------------------------------------------------------------------------
(* The stock                                                                *)

Become(s) ==
  /\ stock' = s
  /\ past' = [past EXCEPT ![0] = @ \union {s}]
  /\ UNCHANGED <<cache, age, local, shown, faults>>

(* The commit of the seed is the first anybody sees of the match. *)
Seed(o) ==
  /\ CommitSeed(o)
  /\ Become([seats |-> [s \in Seats |-> "AVAILABLE"], ga |-> Capacity])
  /\ UNCHANGED changes

(* The rest of the system commits: a seat is held, sold or freed, places    *)
(* are claimed or come back.                                                *)
NextStatus(status) == CASE status = "AVAILABLE" -> {"HELD"}
                        [] status = "HELD" -> {"AVAILABLE", "SOLD"}
                        [] OTHER -> {}

Change ==
  /\ stock # None /\ changes < MaxChanges
  /\ changes' = changes + 1
  /\ \/ \E s \in Seats : \E status \in NextStatus(stock.seats[s]) :
          Become([stock EXCEPT !.seats[s] = status])
     \/ \E places \in 0..Capacity \ {stock.ga} : Become([stock EXCEPT !.ga = places])

-----------------------------------------------------------------------------
(* CatalogService.seat_map                                                  *)

(* The call is over.                                                        *)
Finish(r, map) ==
  /\ pc' = [pc EXCEPT ![r] = "idle"]
  /\ span' = [span EXCEPT ![r] = 0]
  /\ ga' = [ga EXCEPT ![r] = None]
  /\ seats' = [seats EXCEPT ![r] = None]
  /\ shown' = [shown EXCEPT ![r] = map]

(* The match with its general admission row; without a match there is       *)
(* nothing to show and nothing to keep.                                     *)
GetMatch(r) ==
  /\ pc[r] = "idle" /\ stock # None
  /\ ga' = [ga EXCEPT ![r] = stock.ga]
  /\ pc' = [pc EXCEPT ![r] = "get"]
  /\ UNCHANGED <<stock, past, cache, age, span, seats, shown, changes, faults>>

(* Operators with a name that starts with Bug are mutated forms of the      *)
(* definition that follows them; no action uses them.                       *)

(* Bug: a hit gives the key a new TTL. *)
BugSliding == 0
AgeAfterHit == age

GetCached(r) ==
  /\ pc[r] = "get"
  /\ \/ /\ cache # None
        /\ Finish(r, cache)
        /\ age' = AgeAfterHit
     \/ /\ cache = None
        /\ pc' = [pc EXCEPT ![r] = "list"]
        /\ UNCHANGED <<age, span, ga, seats, shown>>
  /\ UNCHANGED <<stock, past, cache, changes, faults>>

ListSeats(r) ==
  /\ pc[r] = "list"
  /\ seats' = [seats EXCEPT ![r] = stock.seats]
  /\ pc' = [pc EXCEPT ![r] = "set"]
  /\ UNCHANGED <<stock, past, cache, age, span, ga, shown, changes, faults>>

AssembleMap(r) == [seats |-> seats[r], ga |-> ga[r]]

(* SET with EX, whatever another call has put there in the meantime.        *)
SetCached(r) ==
  /\ pc[r] = "set"
  /\ cache' = AssembleMap(r)
  /\ age' = 0
  /\ Finish(r, AssembleMap(r))
  /\ UNCHANGED <<stock, past, changes, faults>>

ReadMap(r) == GetMatch(r) \/ GetCached(r) \/ ListSeats(r) \/ SetCached(r)

(* The database or Redis fails the call, or its process dies.               *)
FailCall(r) ==
  /\ pc[r] # "idle" /\ faults < MaxFaults
  /\ faults' = faults + 1
  /\ Finish(r, shown[r])
  /\ UNCHANGED <<stock, past, cache, age, changes>>

-----------------------------------------------------------------------------
(* Time                                                                     *)

(* Bug: the key is set without a TTL. *)
BugNoTtl(seconds) == FALSE
RunsOut(seconds) == seconds >= Ttl

(* Set within a second, the key dies within the Ttl-th second after it.     *)
Expire ==
  /\ cache # None /\ RunsOut(age)
  /\ cache' = None
  /\ age' = 0
  /\ UNCHANGED <<stock, past, local, shown, changes, faults>>

Second ==
  /\ \A r \in Readers : pc[r] # "idle" => span[r] < Span
  /\ span' = [r \in Readers |-> IF pc[r] = "idle" THEN 0 ELSE span[r] + 1]
  /\ past' = [a \in Window |-> IF a = 0 THEN {stock} ELSE past[a - 1]]
  /\ IF cache = None \/ RunsOut(age)
     THEN cache' = None /\ age' = 0
     ELSE age' = age + 1 /\ UNCHANGED cache
  /\ UNCHANGED <<stock, pc, ga, seats, shown, changes, faults>>

Fault(o) ==
  /\ faults < MaxFaults /\ faults' = faults + 1
  /\ FailSeed(o)
  /\ UNCHANGED sale

Next == \/ \E o \in Seeders : \/ Seed(o) \/ Fault(o)
                             \/ (SeedStep(o) /\ UNCHANGED <<sale, faults>>)
        \/ /\ \/ Change \/ Expire \/ Second
              \/ \E r \in Readers : ReadMap(r) \/ FailCall(r)
           /\ UNCHANGED seed

Spec == Init /\ [][Next]_vars

-----------------------------------------------------------------------------
(* Properties                                                               *)

(* Types; no map outlives its TTL.                                          *)
TypeOK ==
  /\ stock \in Stocks \union {None}
  /\ past \in [Window -> SUBSET (Stocks \union {None})]
  /\ cache \in Stocks \union {None} /\ age \in 0..Ttl
  /\ pc \in [Readers -> {"idle", "get", "list", "set"}]
  /\ span \in [Readers -> 0..Span]
  /\ ga \in [Readers -> 0..Capacity \union {None}]
  /\ seats \in [Readers -> [Seats -> Status] \union {None}]
  /\ shown \in [Readers -> Stocks \union {None}]
  /\ changes \in 0..MaxChanges /\ faults \in 0..MaxFaults
  /\ arena = None <=> stock = None
  /\ seeding \in [Seeders -> {"idle", "match", "seats", "ga", "commit", "reload"}]
  /\ drafted \in [Seeders -> 0..Len(SeatSpecs)]

(* The seed is idempotent (catalog/__main__.py): whoever runs it, and       *)
(* whether it wins, loses the race for the slug or finds the match there,   *)
(* unless a fault ends it the stadium is complete afterwards, each place of *)
(* it once and under the name of its row.                                   *)
SeedIsIdempotent ==
  [][\A o \in Seeders :
       seeding[o] # "idle" /\ seeding'[o] = "idle" /\ faults' = faults =>
         arena' = Places /\ Cardinality(Places) = Len(SeatSpecs)]_vars

Recent == (UNION {past[a] : a \in Window}) \ {None}

(* The map is approximate (ARCHITECTURE.md:23), but not by more than its    *)
(* TTL and the time it took to build: its seats were the seats, and its     *)
(* places the places, at a moment that is no longer ago than that, however  *)
(* many slow calls overwrite each other's maps.  The two need not be of one *)
(* moment: they come from different statements.                             *)
ShownWasTrue ==
  [][\A r \in Readers : pc[r] # "idle" /\ pc'[r] = "idle" /\ faults' = faults =>
       /\ \E s \in Recent : shown'[r].seats = s.seats
       /\ \E s \in Recent : shown'[r].ga = s.ga]_vars
=============================================================================
