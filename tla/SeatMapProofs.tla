---------------------------- MODULE SeatMapProofs ----------------------------
(***************************************************************************)
(* Proofs about SeatMap for any readers, seats, TTL and length of a call,  *)
(* and about the seed for any number of runs of it.                        *)
(***************************************************************************)
EXTENDS SeatMap, FiniteSetTheorems, SequenceTheorems, TLAPS

-----------------------------------------------------------------------------
(* The inductive invariant                                                  *)

MapTypes ==
  /\ stock \in Stocks \union {None}
  /\ past \in [Window -> SUBSET (Stocks \union {None})]
  /\ cache \in Stocks \union {None} /\ age \in 0..Ttl
  /\ pc \in [Readers -> {"idle", "get", "list", "set"}]
  /\ span \in [Readers -> 0..Span]
  /\ ga \in [Readers -> 0..Capacity \union {None}]
  /\ seats \in [Readers -> [Seats -> Status] \union {None}]
  /\ shown \in [Readers -> Stocks \union {None}]
  /\ changes \in 0..MaxChanges /\ faults \in 0..MaxFaults

(* The seats, or the places, were these no more than n seconds ago.         *)
SeatsWere(x, n) == \E a \in 0..n : \E s \in past[a] \ {None} : s.seats = x
GaWas(x, n) == \E a \in 0..n : \E s \in past[a] \ {None} : s.ga = x

(* What a call has read was true since it began.                            *)
CallInv(r) ==
  /\ pc[r] # "idle" =>
       stock # None /\ ga[r] \in 0..Capacity /\ GaWas(ga[r], span[r])
  /\ pc[r] = "set" => seats[r] \in [Seats -> Status] /\ SeatsWere(seats[r], span[r])

(* What is in the cache was true when the call that set it began or later.  *)
CacheInv ==
  cache # None => SeatsWere(cache.seats, age + Span) /\ GaWas(cache.ga, age + Span)

MInv == MapTypes /\ stock \in past[0] /\ (\A r \in Readers : CallInv(r)) /\ CacheInv

-----------------------------------------------------------------------------
(* What the past keeps                                                      *)

LEMMA Numbers ==
  ASSUME SeatMapAssumption
  PROVE  /\ Ttl \in Nat /\ Span \in Nat /\ Ttl + Span \in Nat /\ 0 \in Window
         /\ \A n \in 0..Span : \A a \in 0..n : a \in Window
         /\ \A t \in 0..Ttl : \A a \in 0..t + Span : a \in Window
BY DEF SeatMapAssumption, Window

(* Within a second nothing is forgotten.                                    *)
LEMMA Kept ==
  ASSUME SeatMapAssumption, \A a \in Window : past[a] \subseteq past'[a],
         NEW x, NEW n \in Int, n <= Ttl + Span
  PROVE  /\ SeatsWere(x, n) => SeatsWere(x, n)'
         /\ GaWas(x, n) => GaWas(x, n)'
<1>1. \A a \in 0..n : a \in Window
  BY Numbers DEF Window
<1> QED
  BY <1>1 DEF SeatsWere, GaWas

(* From one second to the next everything is one second longer ago.         *)
LEMMA Older ==
  ASSUME SeatMapAssumption, past' = [a \in Window |-> IF a = 0 THEN {stock} ELSE past[a - 1]],
         NEW x, NEW n \in Int, n + 1 <= Ttl + Span
  PROVE  /\ SeatsWere(x, n) => SeatsWere(x, n + 1)'
         /\ GaWas(x, n) => GaWas(x, n + 1)'
<1>1. ASSUME NEW a \in 0..n
      PROVE  a + 1 \in 0..n + 1 /\ past'[a + 1] = past[a]
  <2>1. a + 1 \in Window /\ a + 1 # 0 /\ a + 1 - 1 = a /\ a + 1 \in 0..n + 1
    BY Numbers DEF Window
  <2> QED
    BY <2>1
<1>2. ASSUME SeatsWere(x, n)
      PROVE  SeatsWere(x, n + 1)'
  <2>1. PICK a \in 0..n : \E s \in past[a] \ {None} : s.seats = x
    BY <1>2 DEF SeatsWere
  <2> QED
    BY <1>1, <2>1 DEF SeatsWere
<1>3. ASSUME GaWas(x, n)
      PROVE  GaWas(x, n + 1)'
  <2>1. PICK a \in 0..n : \E s \in past[a] \ {None} : s.ga = x
    BY <1>3 DEF GaWas
  <2> QED
    BY <1>1, <2>1 DEF GaWas
<1> QED
  BY <1>2, <1>3

(* What has been true within a call has been true within a longer time.     *)
LEMMA Longer ==
  ASSUME NEW x, NEW m \in Int, NEW n \in Int, m <= n
  PROVE  /\ SeatsWere(x, m) => SeatsWere(x, n)
         /\ GaWas(x, m) => GaWas(x, n)
<1>1. \A a \in 0..m : a \in 0..n
  OBVIOUS
<1> QED
  BY <1>1 DEF SeatsWere, GaWas


-----------------------------------------------------------------------------
(* Every step keeps the invariant                                           *)

(* A call that stands still, or is over, in a second that goes on.          *)
LEMMA CallStays ==
  ASSUME SeatMapAssumption, MInv, \A a \in Window : past[a] \subseteq past'[a],
         stock' = stock \/ stock' # None, NEW r \in Readers,
         \/ pc'[r] = "idle"
         \/ pc'[r] = pc[r] /\ span'[r] = span[r] /\ ga'[r] = ga[r] /\ seats'[r] = seats[r]
  PROVE  CallInv(r)'
<1>1. CASE pc'[r] = "idle"
  BY <1>1 DEF CallInv
<1>2. CASE pc'[r] = pc[r] /\ span'[r] = span[r] /\ ga'[r] = ga[r] /\ seats'[r] = seats[r]
  <2>1. CallInv(r) /\ span[r] \in 0..Span
    BY DEF MInv, MapTypes
  <2>2. span[r] \in Int /\ span[r] <= Ttl + Span
    BY <2>1, Numbers
  <2>3. /\ GaWas(ga[r], span[r]) => \E a \in 0..span[r] : \E s \in past'[a] \ {None} : s.ga = ga[r]
        /\ SeatsWere(seats[r], span[r]) =>
             \E a \in 0..span[r] : \E s \in past'[a] \ {None} : s.seats = seats[r]
    <3>1. \A a \in 0..span[r] : a \in Window
      BY <2>1, Numbers
    <3> QED
      BY <3>1 DEF GaWas, SeatsWere
  <2> QED
    BY <1>2, <2>1, <2>3 DEF CallInv, GaWas, SeatsWere
<1> QED
  BY <1>1, <1>2

LEMMA CacheStays ==
  ASSUME SeatMapAssumption, MInv, \A a \in Window : past[a] \subseteq past'[a],
         UNCHANGED <<cache, age>>
  PROVE  CacheInv'
<1>1. \A a \in 0..age + Span : a \in Window
  BY Numbers DEF MInv, MapTypes
<1> QED
  BY <1>1 DEF MInv, CacheInv, GaWas, SeatsWere

LEMMA MapBecome ==
  ASSUME SeatMapAssumption, MInv, NEW s \in Stocks, Become(s), changes' \in 0..MaxChanges
  PROVE  MInv'
<1>1. /\ stock' = s /\ past' = [past EXCEPT ![0] = @ \union {s}]
      /\ UNCHANGED <<cache, age, pc, span, ga, seats, shown, faults>>
  BY DEF Become, local
<1>2. 0 \in Window /\ s # None
  BY Numbers DEF SeatMapAssumption
<1>3. MapTypes'
  BY <1>1, <1>2 DEF MInv, MapTypes
<1>4. (\A a \in Window : past[a] \subseteq past'[a]) /\ s \in past'[0]
  BY <1>1, <1>2 DEF MInv, MapTypes
<1>5. \A r \in Readers : CallInv(r)'
  BY <1>1, <1>2, <1>4, CallStays
<1>6. CacheInv'
  BY <1>1, <1>4, CacheStays
<1> QED
  BY <1>1, <1>3, <1>4, <1>5, <1>6 DEF MInv

LEMMA MapChange ==
  ASSUME SeatMapAssumption, MInv, Change
  PROVE  MInv'
<1>1. stock \in Stocks /\ changes' \in 0..MaxChanges
  BY DEF Change, MInv, MapTypes, SeatMapAssumption
<1>2. ASSUME NEW x \in Seats, NEW status \in NextStatus(stock.seats[x]),
             Become([stock EXCEPT !.seats[x] = status])
      PROVE  MInv'
  <2>1. stock.seats[x] \in Status
    BY <1>1 DEF Stocks
  <2>2. status \in Status
    BY <2>1 DEF NextStatus, Status
  <2>3. [stock EXCEPT !.seats[x] = status] \in Stocks
    BY <1>1, <2>2 DEF Stocks
  <2> QED
    BY <1>1, <1>2, <2>3, MapBecome
<1>3. ASSUME NEW places \in 0..Capacity, Become([stock EXCEPT !.ga = places])
      PROVE  MInv'
  <2>1. [stock EXCEPT !.ga = places] \in Stocks
    BY <1>1 DEF Stocks
  <2> QED
    BY <1>1, <1>3, <2>1, MapBecome
<1> QED
  BY <1>2, <1>3 DEF Change

LEMMA MapSeed ==
  ASSUME SeatMapAssumption, MInv, NEW o \in Seeders, Seed(o)
  PROVE  MInv'
<1>1. [seats |-> [s \in Seats |-> "AVAILABLE"], ga |-> Capacity] \in Stocks
  BY DEF Stocks, Status, SeatMapAssumption
<1>2. changes' \in 0..MaxChanges
  BY DEF Seed, MInv, MapTypes
<1> QED
  BY <1>1, <1>2, MapBecome DEF Seed

(* A call that ends with a map that may be shown. *)
LEMMA MapFinish ==
  ASSUME SeatMapAssumption, MInv, NEW r \in Readers,
         NEW map \in Stocks \union {None}, Finish(r, map),
         UNCHANGED <<stock, past, changes>>, faults' \in 0..MaxFaults,
         cache' \in Stocks \union {None}, age' \in 0..Ttl, CacheInv'
  PROVE  MInv'
<1>1. MapTypes'
  <2>1. 0 \in 0..Span
    BY Numbers
  <2> QED
    BY <2>1 DEF MInv, MapTypes, Finish
<1>2. \A q \in Readers : CallInv(q)'
  <2>1. ASSUME NEW q \in Readers
        PROVE  CallInv(q)'
    <3>1. \/ pc'[q] = "idle"
          \/ pc'[q] = pc[q] /\ span'[q] = span[q] /\ ga'[q] = ga[q] /\ seats'[q] = seats[q]
      BY DEF MInv, MapTypes, Finish
    <3> QED
      BY <3>1, CallStays
  <2> QED
    BY <2>1
<1> QED
  BY <1>1, <1>2 DEF MInv

LEMMA MapGetMatch ==
  ASSUME SeatMapAssumption, MInv, NEW r \in Readers, GetMatch(r)
  PROVE  MInv'
<1>1. /\ stock # None /\ ga' = [ga EXCEPT ![r] = stock.ga] /\ pc' = [pc EXCEPT ![r] = "get"]
      /\ UNCHANGED <<stock, past, cache, age, span, seats, shown, changes, faults>>
  BY DEF GetMatch
<1>2. stock \in Stocks /\ stock.ga \in 0..Capacity
  BY <1>1 DEF MInv, MapTypes, Stocks
<1>3. MapTypes'
  BY <1>1, <1>2 DEF MInv, MapTypes
<1>4. CacheInv'
  BY <1>1, CacheStays
<1>5. ASSUME NEW q \in Readers
      PROVE  CallInv(q)'
  <2>1. CASE q = r
    <3>1. pc'[r] = "get" /\ ga'[r] = stock.ga /\ span'[r] \in Nat
      BY <1>1, <1>3, Numbers DEF MInv, MapTypes
    <3>2. GaWas(ga[r], span[r])'
      BY <1>1, <3>1 DEF MInv, GaWas
    <3> QED
      BY <1>1, <1>2, <2>1, <3>1, <3>2 DEF CallInv
  <2>2. CASE q # r
    BY <1>1, <2>2, CallStays DEF MInv, MapTypes
  <2> QED
    BY <2>1, <2>2
<1> QED
  BY <1>1, <1>3, <1>4, <1>5 DEF MInv

LEMMA MapGetCached ==
  ASSUME SeatMapAssumption, MInv, NEW r \in Readers, GetCached(r)
  PROVE  MInv'
<1>1. CASE cache # None /\ Finish(r, cache) /\ age' = AgeAfterHit
  <2>1. UNCHANGED <<stock, past, cache, age, changes, faults>>
    BY <1>1 DEF GetCached, AgeAfterHit
  <2>2. CacheInv'
    BY <2>1, CacheStays
  <2> QED
    BY <1>1, <2>1, <2>2, MapFinish DEF MInv, MapTypes
<1>2. CASE /\ pc[r] = "get" /\ pc' = [pc EXCEPT ![r] = "list"]
           /\ UNCHANGED <<age, span, ga, seats, shown, stock, past, cache, changes, faults>>
  <2>1. MapTypes'
    BY <1>2 DEF MInv, MapTypes
  <2>2. CacheInv'
    BY <1>2, CacheStays
  <2>3. ASSUME NEW q \in Readers
        PROVE  CallInv(q)'
    <3>1. CASE q = r
      BY <1>2, <3>1 DEF MInv, MapTypes, CallInv, GaWas
    <3>2. CASE q # r
      BY <1>2, <3>2, CallStays DEF MInv, MapTypes
    <3> QED
      BY <3>1, <3>2
  <2> QED
    BY <1>2, <2>1, <2>2, <2>3 DEF MInv
<1> QED
  BY <1>1, <1>2 DEF GetCached

LEMMA MapListSeats ==
  ASSUME SeatMapAssumption, MInv, NEW r \in Readers, ListSeats(r)
  PROVE  MInv'
<1>1. /\ pc[r] = "list" /\ seats' = [seats EXCEPT ![r] = stock.seats]
      /\ pc' = [pc EXCEPT ![r] = "set"]
      /\ UNCHANGED <<stock, past, cache, age, span, ga, shown, changes, faults>>
  BY DEF ListSeats
<1>2. stock \in Stocks /\ stock # None /\ stock.seats \in [Seats -> Status]
  BY <1>1 DEF MInv, CallInv, MapTypes, Stocks
<1>3. MapTypes'
  BY <1>1, <1>2 DEF MInv, MapTypes
<1>4. CacheInv'
  BY <1>1, CacheStays
<1>5. ASSUME NEW q \in Readers
      PROVE  CallInv(q)'
  <2>1. CASE q = r
    <3>1. pc'[r] = "set" /\ seats'[r] = stock.seats /\ span'[r] \in Nat
      BY <1>1, <1>3, Numbers DEF MInv, MapTypes
    <3>2. SeatsWere(seats[r], span[r])'
      BY <1>1, <1>2, <3>1 DEF MInv, SeatsWere
    <3>3. ga[r] \in 0..Capacity /\ GaWas(ga[r], span[r])'
      BY <1>1 DEF MInv, CallInv, GaWas
    <3> QED
      BY <1>1, <1>2, <2>1, <3>1, <3>2, <3>3 DEF CallInv
  <2>2. CASE q # r
    BY <1>1, <2>2, CallStays DEF MInv, MapTypes
  <2> QED
    BY <2>1, <2>2
<1> QED
  BY <1>1, <1>3, <1>4, <1>5 DEF MInv

LEMMA MapSetCached ==
  ASSUME SeatMapAssumption, MInv, NEW r \in Readers, SetCached(r)
  PROVE  MInv'
<1>1. /\ pc[r] = "set" /\ cache' = AssembleMap(r) /\ age' = 0 /\ Finish(r, AssembleMap(r))
      /\ UNCHANGED <<stock, past, changes, faults>>
  BY DEF SetCached
<1>2. /\ ga[r] \in 0..Capacity /\ GaWas(ga[r], span[r])
      /\ seats[r] \in [Seats -> Status] /\ SeatsWere(seats[r], span[r])
  BY <1>1 DEF MInv, CallInv
<1>3. /\ AssembleMap(r) \in Stocks
      /\ AssembleMap(r).seats = seats[r] /\ AssembleMap(r).ga = ga[r]
  BY <1>2 DEF AssembleMap, Stocks
<1>4. span[r] \in Int /\ 0 + Span \in Int /\ span[r] <= 0 + Span
  BY Numbers DEF MInv, MapTypes
<1>5. GaWas(ga[r], 0 + Span) /\ SeatsWere(seats[r], 0 + Span)
  BY <1>2, <1>4, Longer
<1>6. CacheInv'
  BY <1>1, <1>3, <1>5 DEF CacheInv, GaWas, SeatsWere
<1>7. 0 \in 0..Ttl
  BY Numbers
<1> QED
  BY <1>1, <1>3, <1>6, <1>7, MapFinish DEF MInv, MapTypes

LEMMA MapFailCall ==
  ASSUME SeatMapAssumption, MInv, NEW r \in Readers, FailCall(r)
  PROVE  MInv'
<1>1. /\ Finish(r, shown[r]) /\ faults' = faults + 1 /\ faults < MaxFaults
      /\ UNCHANGED <<stock, past, cache, age, changes>>
  BY DEF FailCall
<1>2. faults' \in 0..MaxFaults
  BY <1>1 DEF MInv, MapTypes, SeatMapAssumption
<1>3. CacheInv'
  BY <1>1, CacheStays
<1> QED
  BY <1>1, <1>2, <1>3, MapFinish DEF MInv, MapTypes

LEMMA MapExpire ==
  ASSUME SeatMapAssumption, MInv, Expire
  PROVE  MInv'
<1>1. cache' = None /\ age' = 0
      /\ UNCHANGED <<stock, past, pc, span, ga, seats, shown, changes, faults>>
  BY DEF Expire, local
<1>2. MapTypes'
  BY <1>1, Numbers DEF MInv, MapTypes
<1>3. \A r \in Readers : CallInv(r)'
  BY <1>1, CallStays
<1> QED
  BY <1>1, <1>2, <1>3 DEF MInv, CacheInv

LEMMA MapSecond ==
  ASSUME SeatMapAssumption, MInv, Second
  PROVE  MInv'
<1>1. /\ \A r \in Readers : pc[r] # "idle" => span[r] < Span
      /\ span' = [r \in Readers |-> IF pc[r] = "idle" THEN 0 ELSE span[r] + 1]
      /\ past' = [a \in Window |-> IF a = 0 THEN {stock} ELSE past[a - 1]]
      /\ \/ cache' = None /\ age' = 0
         \/ age < Ttl /\ age' = age + 1 /\ cache' = cache
      /\ UNCHANGED <<stock, pc, ga, seats, shown, changes, faults>>
  BY DEF Second, RunsOut, MInv, MapTypes, SeatMapAssumption
<1>2. /\ Ttl \in Nat /\ Span \in Nat /\ 0 \in Window
      /\ \A a \in Window : a # 0 => a - 1 \in Window
  BY Numbers DEF Window
<1>3. MapTypes'
  <2>1. past' \in [Window -> SUBSET (Stocks \union {None})]
    BY <1>1, <1>2 DEF MInv, MapTypes
  <2>2. span' \in [Readers -> 0..Span]
    BY <1>1, <1>2 DEF MInv, MapTypes
  <2>3. age' \in 0..Ttl /\ cache' \in Stocks \union {None}
    BY <1>1, <1>2 DEF MInv, MapTypes
  <2> QED
    BY <1>1, <2>1, <2>2, <2>3 DEF MInv, MapTypes
<1>4. stock' \in past'[0]
  BY <1>1, <1>2
<1>5. ASSUME NEW r \in Readers
      PROVE  CallInv(r)'
  <2> SUFFICES ASSUME pc[r] # "idle"
               PROVE  CallInv(r)'
    BY <1>1 DEF CallInv
  <2>1. span'[r] = span[r] + 1 /\ span[r] \in Int /\ span[r] + 1 <= Ttl + Span
    BY <1>1, <1>2 DEF MInv, MapTypes
  <2>2. PICK n, g, x : n = span[r] /\ g = ga[r] /\ x = seats[r]
    OBVIOUS
  <2>3. CallInv(r)
    BY DEF MInv
  <2>4. GaWas(g, n + 1)' /\ (pc[r] = "set" => SeatsWere(x, n + 1)')
    BY <1>1, <2>1, <2>2, <2>3, Older DEF CallInv
  <2> QED
    BY <1>1, <2>1, <2>2, <2>3, <2>4 DEF CallInv, GaWas, SeatsWere
<1>6. CacheInv'
  <2> SUFFICES ASSUME cache' # None
               PROVE  CacheInv'
    BY DEF CacheInv
  <2>1. /\ cache' = cache /\ age' = age + 1 /\ age + Span \in Int
        /\ age + Span + 1 <= Ttl + Span /\ age' + Span = age + Span + 1
    <3>1. age \in Int /\ age < Ttl /\ age' = age + 1 /\ cache' = cache
      BY <1>1 DEF MInv, MapTypes
    <3> QED
      BY <1>2, <3>1
  <2>2. PICK n, g, x : n = age + Span /\ g = cache.ga /\ x = cache.seats
    OBVIOUS
  <2>3. GaWas(g, n) /\ SeatsWere(x, n)
    BY <2>1, <2>2 DEF MInv, CacheInv
  <2>4. GaWas(g, n + 1)' /\ SeatsWere(x, n + 1)'
    BY <1>1, <2>1, <2>2, <2>3, Older
  <2> QED
    BY <2>1, <2>2, <2>4 DEF CacheInv, GaWas, SeatsWere
<1> QED
  BY <1>3, <1>4, <1>5, <1>6 DEF MInv


(* The seed's own steps change nothing of the sale. *)
LEMMA MapAside ==
  ASSUME SeatMapAssumption, MInv, UNCHANGED sale, faults' \in 0..MaxFaults
  PROVE  MInv'
<1>1. UNCHANGED <<stock, past, cache, age, pc, span, ga, seats, shown, changes>>
  BY DEF sale, local
<1>2. MapTypes'
  BY <1>1 DEF MInv, MapTypes
<1>3. \A r \in Readers : CallInv(r)'
  BY <1>1, CallStays
<1>4. CacheInv'
  BY <1>1, CacheStays
<1> QED
  BY <1>1, <1>2, <1>3, <1>4 DEF MInv

LEMMA MapInit == SeatMapAssumption /\ Init => MInv
<1> SUFFICES ASSUME SeatMapAssumption, Init
             PROVE  MInv
  OBVIOUS
<1>1. 0 \in Window /\ 0 \in 0..Span /\ 0 \in 0..Ttl
  BY Numbers
<1>2. 0 \in 0..MaxChanges /\ 0 \in 0..MaxFaults
  BY DEF SeatMapAssumption
<1>3. MapTypes
  BY <1>1, <1>2 DEF Init, MapTypes
<1> QED
  BY <1>1, <1>3 DEF Init, MInv, CallInv, CacheInv

LEMMA MapStep == SeatMapAssumption /\ MInv /\ [Next]_vars => MInv'
<1> SUFFICES ASSUME SeatMapAssumption, MInv, [Next]_vars
             PROVE  MInv'
  OBVIOUS
<1>1. faults \in 0..MaxFaults
  BY DEF MInv, MapTypes
<1>2. CASE UNCHANGED vars
  BY <1>1, <1>2, MapAside DEF vars
<1>3. ASSUME NEW o \in Seeders, Seed(o)
      PROVE  MInv'
  BY <1>3, MapSeed
<1>4. ASSUME NEW o \in Seeders, Fault(o)
      PROVE  MInv'
  <2>1. faults' \in 0..MaxFaults
    BY <1>1, <1>4 DEF Fault, SeatMapAssumption
  <2> QED
    BY <1>4, <2>1, MapAside DEF Fault
<1>5. CASE UNCHANGED <<sale, faults>>
  BY <1>1, <1>5, MapAside
<1>6. ASSUME NEW r \in Readers, ReadMap(r) \/ FailCall(r)
      PROVE  MInv'
  BY <1>6, MapGetMatch, MapGetCached, MapListSeats, MapSetCached, MapFailCall DEF ReadMap
<1>7. CASE Change \/ Expire \/ Second
  BY <1>7, MapChange, MapExpire, MapSecond
<1> QED
  BY <1>2, <1>3, <1>4, <1>5, <1>6, <1>7 DEF Next

THEOREM MapInvariance == Spec => []MInv
<1>1. Init => MInv
  BY SeatMapAssumption, MapInit
<1>2. MInv /\ [Next]_vars => MInv'
  BY SeatMapAssumption, MapStep
<1> QED
  BY <1>1, <1>2, PTL DEF Spec

-----------------------------------------------------------------------------
(* The properties                                                           *)

(* A moment that is not too long ago is recent. *)
LEMMA WasRecent ==
  ASSUME SeatMapAssumption, NEW t \in 0..Ttl, NEW x
  PROVE  /\ SeatsWere(x, t + Span) => \E s \in Recent : s.seats = x
         /\ GaWas(x, t + Span) => \E s \in Recent : s.ga = x
<1>1. \A a \in 0..t + Span : a \in Window
  BY Numbers
<1>2. \A a \in 0..t + Span : \A s \in past[a] \ {None} : s \in Recent
  BY <1>1 DEF Recent
<1> QED
  BY <1>2 DEF SeatsWere, GaWas

(* However slow the calls that overwrite each other's maps in the cache,    *)
(* the seats and the places a reader is shown were true no longer ago than  *)
(* the TTL of the map and the time one call takes (seat_map, set_cached).   *)
THEOREM MapIsRecent == Spec => ShownWasTrue
<1>1. SeatMapAssumption
  BY SeatMapAssumption
<1>2. ASSUME MInv, [Next]_vars, NEW r \in Readers,
             pc[r] # "idle", pc'[r] = "idle", faults' = faults
      PROVE  /\ \E s \in Recent : shown'[r].seats = s.seats
             /\ \E s \in Recent : shown'[r].ga = s.ga
  <2>1. \/ GetCached(r) /\ cache # None /\ Finish(r, cache)
        \/ SetCached(r)
    <3>1. faults \in Nat /\ pc \in [Readers -> {"idle", "get", "list", "set"}]
      BY <1>2 DEF MInv, MapTypes
    <3>2. pc' # pc
      BY <1>2
    <3>3. PICK q \in Readers : GetMatch(q) \/ GetCached(q) \/ ListSeats(q) \/ SetCached(q)
      BY <1>2, <3>1, <3>2 DEF Next, vars, sale, local, Seed, Become, Change, Fault, FailCall, Expire,
         Second, ReadMap
    <3>4. q = r
      BY <1>2, <3>1, <3>3 DEF GetMatch, GetCached, ListSeats, SetCached, Finish
    <3> QED
      BY <1>2, <3>1, <3>3, <3>4 DEF GetMatch, GetCached, ListSeats
  <2>2. CASE GetCached(r) /\ cache # None /\ Finish(r, cache)
    <3>1. shown'[r] = cache /\ age \in 0..Ttl
      BY <1>2, <2>2 DEF Finish, MInv, MapTypes
    <3>2. SeatsWere(cache.seats, age + Span) /\ GaWas(cache.ga, age + Span)
      BY <1>2, <2>2 DEF MInv, CacheInv
    <3> QED
      BY <1>1, <3>1, <3>2, WasRecent
  <2>3. CASE SetCached(r)
    <3>1. shown'[r] = AssembleMap(r) /\ pc[r] = "set"
      BY <1>2, <2>3 DEF SetCached, Finish, MInv, MapTypes
    <3>2. SeatsWere(seats[r], span[r]) /\ GaWas(ga[r], span[r])
      BY <1>2, <3>1 DEF MInv, CallInv
    <3>3. span[r] \in Int /\ 0 + Span \in Int /\ span[r] <= 0 + Span /\ 0 \in 0..Ttl
      BY <1>1, <1>2, Numbers DEF MInv, MapTypes
    <3>4. SeatsWere(seats[r], 0 + Span) /\ GaWas(ga[r], 0 + Span)
      BY <3>2, <3>3, Longer
    <3>5. /\ \E s \in Recent : s.seats = seats[r]
          /\ \E s \in Recent : s.ga = ga[r]
      BY <1>1, <3>3, <3>4, WasRecent
    <3> QED
      BY <3>1, <3>5 DEF AssembleMap
  <2> QED
    BY <2>1, <2>2, <2>3
<1>3. MInv /\ [Next]_vars =>
        [\A r \in Readers : pc[r] # "idle" /\ pc'[r] = "idle" /\ faults' = faults =>
           /\ \E s \in Recent : shown'[r].seats = s.seats
           /\ \E s \in Recent : shown'[r].ga = s.ga]_vars
  BY <1>2
<1> QED
  BY <1>3, MapInvariance, PTL DEF Spec, ShownWasTrue


-----------------------------------------------------------------------------
(* The seed                                                                 *)

SeedTypes ==
  /\ arena = None <=> stock = None
  /\ seeding \in [Seeders -> {"idle", "match", "seats", "ga", "commit", "reload"}]
  /\ drafted \in [Seeders -> 0..Len(SeatSpecs)]

LEMMA ChunkIsInLayout ==
  ASSUME LayoutAssumption, Len(SeatSpecs) \in Nat, SeedTypes, NEW o \in Seeders
  PROVE  ChunkEnd(o) \in 0..Len(SeatSpecs)
BY DEF ChunkEnd, LayoutAssumption, SeedTypes

LEMMA SeedStepTypes ==
  ASSUME LayoutAssumption, Len(SeatSpecs) \in Nat, SeedTypes, UNCHANGED stock,
         NEW o \in Seeders, SeedStep(o) \/ FailSeed(o)
  PROVE  SeedTypes'
<1>1. ChunkEnd(o) \in 0..Len(SeatSpecs)
  BY ChunkIsInLayout
<1>2. UNCHANGED arena
  BY DEF SeedStep, FailSeed, LookForMatch, AddMatch, InsertSeats, AddGa, Reload
<1>3. \/ UNCHANGED drafted
      \/ drafted' = [drafted EXCEPT ![o] = 0]
      \/ drafted' = [drafted EXCEPT ![o] = ChunkEnd(o)]
  BY DEF SeedStep, FailSeed, LookForMatch, AddMatch, InsertSeats, AddGa, Reload, EndSeed
<1>4. \E where \in {"idle", "match", "seats", "ga", "commit"} :
        seeding' = [seeding EXCEPT ![o] = where]
  BY DEF SeedStep, FailSeed, LookForMatch, AddMatch, InsertSeats, AddGa, Reload, EndSeed, SeedAt
<1>5. drafted' \in [Seeders -> 0..Len(SeatSpecs)]
  BY <1>1, <1>3 DEF SeedTypes
<1>6. seeding' \in [Seeders -> {"idle", "match", "seats", "ga", "commit", "reload"}]
  BY <1>4 DEF SeedTypes
<1> QED
  BY <1>2, <1>5, <1>6 DEF SeedTypes

LEMMA TypesStep ==
  SeatMapAssumption /\ LayoutAssumption /\ Len(SeatSpecs) \in Nat
    /\ MInv /\ MInv' /\ SeedTypes /\ [Next]_vars => SeedTypes'
<1> SUFFICES ASSUME SeatMapAssumption, LayoutAssumption, Len(SeatSpecs) \in Nat,
                    MInv, MInv', SeedTypes, [Next]_vars
             PROVE  SeedTypes'
  OBVIOUS
<1>1. CASE UNCHANGED <<stock, seed>>
  BY <1>1 DEF seed, SeedTypes
<1>2. ASSUME NEW o \in Seeders, Seed(o)
      PROVE  SeedTypes'
  <2>1. /\ stock' = [seats |-> [s \in Seats |-> "AVAILABLE"], ga |-> Capacity]
        /\ arena' = ToSet(SubSeq(SeatSpecs, 1, drafted[o]))
        /\ seeding' = [seeding EXCEPT ![o] = "reload"] /\ UNCHANGED drafted
    BY <1>2 DEF Seed, CommitSeed, Become, SeedAt
  <2>2. stock' # None
    BY <2>1 DEF SeatMapAssumption, Stocks, Status
  <2>3. arena' # None
    BY <2>1 DEF SeatMapAssumption, SeedTypes
  <2> QED
    BY <2>1, <2>2, <2>3 DEF SeedTypes
<1>3. ASSUME NEW o \in Seeders, SeedStep(o) \/ FailSeed(o), UNCHANGED sale
      PROVE  SeedTypes'
  BY <1>3, SeedStepTypes DEF sale
<1>4. CASE Change /\ UNCHANGED seed
  <2>1. stock # None /\ stock \in Stocks
    BY <1>4 DEF Change, MInv, MapTypes
  <2>2. stock' # None
    <3>1. ASSUME NEW x, NEW status, stock' = [stock EXCEPT !.seats[x] = status],
                 status \in NextStatus(stock.seats[x]), x \in Seats
          PROVE  stock' \in Stocks
      <4>1. status \in Status
        BY <3>1 DEF NextStatus, Status
      <4> QED
        BY <2>1, <3>1, <4>1 DEF Stocks
    <3>2. ASSUME NEW places \in 0..Capacity, stock' = [stock EXCEPT !.ga = places]
          PROVE  stock' \in Stocks
      BY <2>1, <3>2 DEF Stocks
    <3> QED
      BY <1>4, <3>1, <3>2 DEF Change, Become, SeatMapAssumption
  <2> QED
    BY <1>4, <2>1, <2>2 DEF SeedTypes, seed
<1>5. ASSUME NEW r \in Readers, ReadMap(r) \/ FailCall(r), UNCHANGED seed
      PROVE  UNCHANGED <<stock, seed>>
  BY <1>5 DEF ReadMap, FailCall, GetMatch, GetCached, ListSeats, SetCached
<1> QED
  BY <1>1, <1>2, <1>3, <1>4, <1>5 DEF Next, Fault, Expire, Second, vars, sale

(* Type correctness.  That the layout has some number of seats is the       *)
(* hypothesis: FlattenSeq is recursive, and the provers have no induction.  *)
THEOREM TypeCorrect == Len(SeatSpecs) \in Nat /\ Spec => []TypeOK
<1> SUFFICES ASSUME Len(SeatSpecs) \in Nat
             PROVE  Spec => []TypeOK
  OBVIOUS
<1>1. Init => SeedTypes
  BY DEF Init, SeedInit, SeedTypes
<1>2. MInv /\ MInv' /\ SeedTypes /\ [Next]_vars => SeedTypes'
  BY SeatMapAssumption, LayoutAssumption, TypesStep
<1>3. MInv /\ SeedTypes => TypeOK
  BY DEF MInv, MapTypes, SeedTypes, TypeOK
<1> QED
  BY <1>1, <1>2, <1>3, MapInvariance, PTL DEF Spec

(* What the layout has to be for its seed: each place of the stadium once,  *)
(* under the name of its row.                                               *)
ProperLayout ==
  SeatSpecs \in Seq(Places) /\ IsInjective(SeatSpecs) /\ ToSet(SeatSpecs) = Places

(* How far a run of the seed has come says what it has written.             *)
SeedInv ==
  /\ arena \in {None, Places}
  /\ \A o \in Seeders :
       /\ seeding[o] \in {"ga", "commit"} => drafted[o] = Len(SeatSpecs)
       /\ seeding[o] = "reload" => arena = Places

LEMMA WholeLayout ==
  ASSUME ProperLayout
  PROVE  /\ Len(SeatSpecs) \in Nat
         /\ ToSet(SubSeq(SeatSpecs, 1, Len(SeatSpecs))) = Places
         /\ Cardinality(Places) = Len(SeatSpecs)
         /\ \A n \in 0..Len(SeatSpecs) : SeatLocationsDiffer(n)
<1> DEFINE N == Len(SeatSpecs)
<1>1. /\ N \in Nat /\ DOMAIN SeatSpecs = 1..N /\ SeatSpecs \in [1..N -> Places]
      /\ \A p \in Places : \E i \in 1..N : SeatSpecs[i] = p
  <2>1. N \in Nat /\ DOMAIN SeatSpecs = 1..N /\ SeatSpecs \in [1..N -> Places]
    BY LenProperties DEF ProperLayout
  <2> QED
    BY <2>1 DEF ProperLayout, ToSet
<1>2. \A i, j \in 1..N : SeatSpecs[i] = SeatSpecs[j] => i = j
  BY <1>1 DEF ProperLayout, IsInjective
<1> HIDE DEF N
<1>3. ASSUME NEW n \in 0..N
      PROVE  /\ DOMAIN SubSeq(SeatSpecs, 1, n) = 1..n
             /\ \A i \in 1..n : SubSeq(SeatSpecs, 1, n)[i] = SeatSpecs[i] /\ i \in 1..N
  <2>1. \A i \in 1..n : i \in 1..N /\ SeatSpecs[i] \in Places
    BY <1>1
  <2>2. n \in Nat
    BY <1>1
  <2>3. /\ SubSeq(SeatSpecs, 1, n) \in Seq(Places)
        /\ Len(SubSeq(SeatSpecs, 1, n)) = IF 1 <= n THEN n - 1 + 1 ELSE 0
        /\ \A i \in 1..n - 1 + 1 : SubSeq(SeatSpecs, 1, n)[i] = SeatSpecs[1 + i - 1]
    BY <2>1, <2>2, SubSeqProperties
  <2>4. \A i \in 1..n : SubSeq(SeatSpecs, 1, n)[i] = SeatSpecs[i]
    <3> SUFFICES ASSUME NEW i \in 1..n
                 PROVE  SubSeq(SeatSpecs, 1, n)[i] = SeatSpecs[i]
      OBVIOUS
    <3>1. i \in 1..n - 1 + 1 /\ 1 + i - 1 = i
      BY <2>2
    <3> QED
      BY <2>3, <3>1
  <2>5. Len(SubSeq(SeatSpecs, 1, n)) = n
    BY <2>2, <2>3
  <2> QED
    BY <2>1, <2>3, <2>4, <2>5, LenProperties
<1>4. N \in 0..N
  BY <1>1
<1>5. ToSet(SubSeq(SeatSpecs, 1, N)) = Places
  BY <1>1, <1>3, <1>4 DEF ToSet
<1>6. Cardinality(Places) = N
  <2>1. SeatSpecs \in Bijection(1..N, Places)
    BY <1>1, <1>2 DEF Bijection, Injection, Surjection, IsInjective
  <2>2. IsFiniteSet(1..N) /\ Cardinality(1..N) = N
    BY <1>1, FS_Interval
  <2> QED
    BY <2>1, <2>2, FS_Bijection DEF ExistsBijection
<1>7. \A n \in 0..N : SeatLocationsDiffer(n)
  BY <1>2, <1>3 DEF SeatLocationsDiffer, IsInjective
<1> QED
  BY <1>1, <1>5, <1>6, <1>7 DEF N

LEMMA SeedStepInv ==
  ASSUME LayoutAssumption, ProperLayout, SeedTypes, SeedInv,
         NEW o \in Seeders, SeedStep(o) \/ FailSeed(o) \/ CommitSeed(o)
  PROVE  /\ SeedInv'
         /\ SeedStep(o) \/ CommitSeed(o) =>
              \A q \in Seeders : seeding[q] # "idle" /\ seeding'[q] = "idle" => arena' = Places
<1>1. /\ Len(SeatSpecs) \in Nat /\ ChunkEnd(o) \in 0..Len(SeatSpecs)
      /\ SeatLocationsDiffer(ChunkEnd(o))
  BY WholeLayout, ChunkIsInLayout
<1>2. /\ seeding \in [Seeders -> {"idle", "match", "seats", "ga", "commit", "reload"}]
      /\ drafted \in [Seeders -> 0..Len(SeatSpecs)]
  BY DEF SeedTypes
<1> DEFINE Complete ==
             \A q \in Seeders : seeding[q] # "idle" /\ seeding'[q] = "idle" => arena' = Places
<1>3. ASSUME CommitSeed(o)
      PROVE  SeedInv' /\ Complete
  <2>1. arena' = Places
    BY <1>3, WholeLayout DEF CommitSeed, SeedInv
  <2> QED
    BY <1>2, <1>3, <2>1 DEF CommitSeed, SeedAt, SeedInv
<1>4. ASSUME InsertSeats(o)
      PROVE  SeedInv' /\ Complete
  <2>1. /\ drafted' = [drafted EXCEPT ![o] = ChunkEnd(o)] /\ UNCHANGED arena
        /\ seeding' = [seeding EXCEPT ![o] =
                         IF ChunkEnd(o) = Len(SeatSpecs) THEN "ga" ELSE "seats"]
    BY <1>1, <1>4 DEF InsertSeats, SeedAt
  <2> QED
    BY <1>2, <2>1 DEF SeedInv
<1>5. ASSUME LookForMatch(o) \/ AddGa(o)
      PROVE  SeedInv' /\ Complete
  BY <1>2, <1>5 DEF LookForMatch, AddGa, SeedAt, SeedInv
<1>6. ASSUME AddMatch(o)
      PROVE  SeedInv' /\ Complete
  BY <1>2, <1>6 DEF AddMatch, EndSeed, SeedAt, SeedInv
<1>7. ASSUME Reload(o)
      PROVE  SeedInv' /\ Complete
  BY <1>2, <1>7 DEF Reload, EndSeed, SeedAt, SeedInv
<1>8. FailSeed(o) => SeedInv'
  BY <1>2 DEF FailSeed, EndSeed, SeedAt, SeedInv
<1> QED
  BY <1>3, <1>4, <1>5, <1>6, <1>7, <1>8 DEF SeedStep

(* Of a proper layout, every run of the seed that no fault ends leaves the  *)
(* whole stadium, however many run at once (seed_stadium).  That the layout *)
(* in the code is proper is a matter of its labels, which TLC checks.       *)
THEOREM SeedOnce == ProperLayout /\ Spec => SeedIsIdempotent
<1> SUFFICES ASSUME ProperLayout
             PROVE  Spec => SeedIsIdempotent
  OBVIOUS
<1>1. /\ SeatMapAssumption /\ LayoutAssumption /\ Len(SeatSpecs) \in Nat
      /\ Cardinality(Places) = Len(SeatSpecs)
  BY SeatMapAssumption, LayoutAssumption, WholeLayout
<1>2. Init => SeedTypes /\ SeedInv
  BY DEF Init, SeedInit, SeedTypes, SeedInv
<1>3. MInv /\ MInv' /\ SeedTypes /\ [Next]_vars => SeedTypes'
  BY <1>1, TypesStep
<1>4. ASSUME MInv, SeedTypes, SeedInv, [Next]_vars
      PROVE  /\ SeedInv'
             /\ \A o \in Seeders : seeding[o] # "idle" /\ seeding'[o] = "idle" /\ faults' = faults =>
                  arena' = Places
  <2>1. CASE UNCHANGED seed
    BY <1>4, <2>1 DEF seed, SeedInv
  <2>2. ASSUME NEW o \in Seeders, SeedStep(o) \/ CommitSeed(o)
        PROVE  /\ SeedInv'
               /\ \A q \in Seeders : seeding[q] # "idle" /\ seeding'[q] = "idle" =>
                    arena' = Places
    BY <1>1, <1>4, <2>2, SeedStepInv
  <2>3. ASSUME NEW o \in Seeders, Fault(o)
        PROVE  SeedInv' /\ faults' # faults
    <3>1. faults \in Nat /\ faults' = faults + 1 /\ FailSeed(o)
      BY <1>4, <2>3 DEF Fault, MInv, MapTypes
    <3> QED
      BY <1>1, <1>4, <3>1, SeedStepInv
  <2> QED
    BY <1>4, <2>1, <2>2, <2>3 DEF Next, Seed, vars
<1>5. MInv /\ SeedTypes /\ SeedInv /\ [Next]_vars =>
        [\A o \in Seeders :
           seeding[o] # "idle" /\ seeding'[o] = "idle" /\ faults' = faults =>
             arena' = Places /\ Cardinality(Places) = Len(SeatSpecs)]_vars
  BY <1>1, <1>4
<1>6. MInv /\ SeedTypes /\ SeedInv /\ [Next]_vars => SeedInv'
  BY <1>4
<1> QED
  BY <1>2, <1>3, <1>5, <1>6, MapInvariance, PTL DEF Spec, SeedIsIdempotent
=============================================================================
