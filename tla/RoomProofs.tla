----------------------------- MODULE RoomProofs -----------------------------
(***************************************************************************)
(* Proofs about WaitingRoom for any visitors, requests, workers, limits    *)
(* and flood: no two visitors have one score, whoever takes up a place of  *)
(* the bulkhead is let in, and the line moves from its front.              *)
(***************************************************************************)
EXTENDS WaitingRoom, FiniteSetTheorems, SequenceTheorems, TLAPS

-----------------------------------------------------------------------------
(* The line                                                                 *)

(* Scores are distinct and bounded, so there are finitely many in line.     *)
LEMMA LineIsFinite ==
  ASSUME RoomAssumption, TypeOK
  PROVE  IsFiniteSet(Queued) /\ Cardinality(Queued) \in Nat
<1> DEFINE f == [v \in Queued |-> queue[v]]
<1>1. f \in Injection(Queued, 1..MaxScore)
  BY DEF Injection, IsInjective, TypeOK, Queued, RoomAssumption
<1>2. IsFiniteSet(1..MaxScore)
  BY FS_Interval DEF RoomAssumption
<1> QED
  BY <1>1, <1>2, FS_Injection, FS_CardinalityType

(* A visitor's place counts himself and everybody before him.               *)
LEMMA PlaceInLine ==
  ASSUME RoomAssumption, TypeOK, NEW v \in Queued
  PROVE  /\ Place(v) \in 1..Cardinality(Queued)
         /\ \A u \in Queued : queue[u] <= queue[v] <=> Place(u) <= Place(v)
<1> DEFINE Upto(w) == {u \in Queued : queue[u] <= queue[w]}
<1>1. \A w \in Queued : queue[w] \in Nat
  BY DEF TypeOK, Queued, RoomAssumption
<1>2. ASSUME NEW w \in Queued
      PROVE  /\ IsFiniteSet(Upto(w))
             /\ Place(w) = Cardinality(Upto(w))
             /\ Place(w) \in 1..Cardinality(Queued)
  <2>1. Upto(w) \in SUBSET Queued /\ w \in Upto(w)
    BY <1>1
  <2>2. IsFiniteSet(Upto(w)) /\ Cardinality(Upto(w)) <= Cardinality(Queued)
    BY <2>1, LineIsFinite, FS_Subset
  <2>3. Cardinality(Upto(w)) \in Nat /\ Cardinality(Upto(w)) # 0
    BY <2>1, <2>2, FS_CardinalityType, FS_EmptySet
  <2> QED
    BY <2>2, <2>3, LineIsFinite DEF Place
<1>3. ASSUME NEW u \in Queued, NEW w \in Queued, queue[u] <= queue[w]
      PROVE  Place(u) <= Place(w)
  <2>1. Upto(u) \in SUBSET Upto(w)
    BY <1>1, <1>3
  <2> HIDE DEF Upto
  <2>2. Cardinality(Upto(u)) <= Cardinality(Upto(w))
    BY <2>1, <1>2, FS_Subset
  <2> QED
    BY <2>2, <1>2
<1>4. ASSUME NEW u \in Queued, queue[v] < queue[u]
      PROVE  Place(v) < Place(u)
  <2>1. Upto(v) \in SUBSET Upto(u) /\ u \in Upto(u) /\ u \notin Upto(v)
    BY <1>1, <1>4
  <2> HIDE DEF Upto
  <2>2. /\ Cardinality(Upto(v)) <= Cardinality(Upto(u))
        /\ Cardinality(Upto(v)) # Cardinality(Upto(u))
    BY <2>1, <1>2, FS_Subset
  <2>3. Place(u) \in Nat /\ Place(v) \in Nat
    BY <1>2, LineIsFinite
  <2> QED
    BY <2>2, <2>3, <1>2
<1>5. \A w \in Queued : Place(w) \in 1..Cardinality(Queued)
  BY <1>2
<1> HIDE DEF Upto
<1>6. ASSUME NEW u \in Queued
      PROVE  queue[u] <= queue[v] <=> Place(u) <= Place(v)
  <2>1. queue[u] \in Nat /\ queue[v] \in Nat /\ Place(u) \in Nat /\ Place(v) \in Nat
    BY <1>1, <1>5, LineIsFinite
  <2>2. CASE queue[u] <= queue[v]
    BY <2>2, <1>3
  <2>3. CASE queue[v] < queue[u]
    BY <2>1, <2>3, <1>4
  <2> QED
    BY <2>1, <2>2, <2>3
<1> QED
  BY <1>5, <1>6

(* Every place is somebody's.                                               *)
LEMMA EveryPlaceIsTaken ==
  ASSUME RoomAssumption, TypeOK
  PROVE  /\ Line \in [1..Cardinality(Queued) -> Queued]
         /\ \A i \in 1..Cardinality(Queued) : Place(Line[i]) = i
         /\ \A v \in Queued : Line[Place(v)] = v
<1> DEFINE N == Cardinality(Queued)
           f == [v \in Queued |-> Place(v)]
<1>1. N \in Nat /\ IsFiniteSet(Queued)
  BY LineIsFinite
<1>2. \A u, v \in Queued : Place(u) = Place(v) => u = v
  <2> SUFFICES ASSUME NEW u \in Queued, NEW v \in Queued, Place(u) = Place(v)
               PROVE  u = v
    OBVIOUS
  <2>1. Place(u) \in Nat
    BY PlaceInLine
  <2>2. queue[u] <= queue[v] /\ queue[v] <= queue[u]
    BY <2>1, PlaceInLine
  <2>3. queue[u] \in Nat /\ queue[v] \in Nat
    BY DEF TypeOK, Queued, RoomAssumption
  <2>4. queue[u] = queue[v]
    BY <2>2, <2>3
  <2> QED
    BY <2>4 DEF TypeOK
<1>3. f \in Injection(Queued, 1..N)
  BY <1>2, PlaceInLine DEF Injection, IsInjective
<1>4. IsFiniteSet(1..N) /\ Cardinality(1..N) = N
  BY <1>1, FS_Interval
<1>5. f \in Surjection(Queued, 1..N)
  BY <1>3, <1>4, FS_Injection
<1>6. \A i \in 1..N : \E v \in Queued : Place(v) = i
  BY <1>5 DEF Surjection
<1>7. \A i \in 1..N : Line[i] \in Queued /\ Place(Line[i]) = i
  BY <1>6 DEF Line
<1>8. Line \in [1..N -> Queued]
  BY <1>7 DEF Line
<1>9. \A v \in Queued : Line[Place(v)] = v
  BY <1>2, <1>7, PlaceInLine
<1> QED
  BY <1>7, <1>8, <1>9

(* What ZPOPMIN takes: a sequence of at most n, and the first n places.     *)
LEMMA FrontOfLine ==
  ASSUME RoomAssumption, TypeOK, NEW n \in Nat
  PROVE  /\ FirstInLine(n) \in Seq(Visitors)
         /\ Len(FirstInLine(n)) = Least(n, Cardinality(Queued))
         /\ ToSet(FirstInLine(n)) = {v \in Queued : Place(v) <= n}
<1> DEFINE N == Cardinality(Queued)
           m == Least(n, N)
           s == SubSeq(Line, 1, m)
<1>1. N \in Nat
  BY LineIsFinite
<1>2. m \in Nat /\ m <= N /\ m <= n /\ (m = N \/ m = n)
  BY <1>1 DEF Least
<1>3. \A i \in 1..m : Line[i] \in Queued
  BY <1>1, <1>2, EveryPlaceIsTaken
<1>4. Queued \subseteq Visitors
  BY DEF Queued
<1>5. /\ s \in Seq(Visitors)
      /\ Len(s) = m
      /\ \A i \in 1..m : s[i] = Line[i]
  <2> HIDE DEF m
  <2>1. \A i \in 1..m : Line[i] \in Visitors
    BY <1>3, <1>4
  <2>2. /\ s \in Seq(Visitors)
        /\ Len(s) = IF 1 <= m THEN m - 1 + 1 ELSE 0
        /\ \A i \in 1..m - 1 + 1 : s[i] = Line[1 + i - 1]
    BY <2>1, <1>2, SubSeqProperties
  <2> QED
    BY <2>2, <1>2
<1>6. DOMAIN s = 1..m
  BY <1>5, LenProperties
<1>7. ToSet(s) = {Line[i] : i \in 1..m}
  <2> HIDE DEF s, m
  <2> QED
    BY <1>5, <1>6 DEF ToSet
<1>8. {Line[i] : i \in 1..m} = {v \in Queued : Place(v) <= n}
  <2> HIDE DEF m
  <2>1. ASSUME NEW i \in 1..m
        PROVE  Line[i] \in Queued /\ Place(Line[i]) <= n
    BY <1>1, <1>2, <1>3, EveryPlaceIsTaken
  <2>2. ASSUME NEW v \in Queued, Place(v) <= n
        PROVE  Place(v) \in 1..m /\ Line[Place(v)] = v
    BY <2>2, <1>1, <1>2, PlaceInLine, EveryPlaceIsTaken
  <2> QED
    BY <2>1, <2>2
<1> QED
  BY <1>5, <1>7, <1>8 DEF FirstInLine


-----------------------------------------------------------------------------
(* The inductive invariant                                                  *)

(* Undecided counts the scores that may still be drawn: the bound on scores *)
(* that StartJoin keeps.                                                    *)
ScoreInv ==
  /\ seq + Cardinality(Undecided) <= MaxScore
  /\ \A v \in Visitors : queue[v] <= seq
  /\ \A t \in Requests : score[t] <= seq
  /\ seqEnd <= seq /\ (seqEnd > 0 => Len(Fans) <= seqEnd)

(* A score that is drawn and not in the queue yet, by a join or a flood, is *)
(* nobody else's.                                                           *)
PendingInv ==
  /\ \A t \in Requests : pc[t] = "enqueue" =>
       /\ score[t] > 0
       /\ \A v \in Visitors : queue[v] # score[t]
       /\ \A u \in Requests : pc[u] = "enqueue" /\ score[u] = score[t] => u = t
  /\ seqEnd > 0 => \A i \in flooded + 1..Len(Fans) :
       /\ \A v \in Visitors : queue[v] # FloodScore(i)
       /\ \A t \in Requests : pc[t] = "enqueue" => score[t] # FloodScore(i)

CallInv ==
  /\ \A t \in Requests : /\ pc[t] # "idle" => visitor[t] # None
                         /\ pc[t] = "seq" => score[t] = 0
  /\ \A p \in Procs : pc[p] = "put" => popped[p] # <<>>

RInv == TypeOK /\ ScoreInv /\ PendingInv /\ CallInv /\ IsFiniteSet(shoppers)

Distinct == \A u, v \in Queued : queue[u] = queue[v] => u = v

(* What a tick can have popped.                                             *)
Batches == UNION {[1..n -> Visitors] : n \in 0..Bulkhead}

LEMMA BatchType ==
  ASSUME RoomAssumption, NEW s
  PROVE  s \in Batches <=> s \in Seq(Visitors) /\ Len(s) <= Bulkhead
<1>1. ASSUME s \in Batches
      PROVE  s \in Seq(Visitors) /\ Len(s) <= Bulkhead
  <2>1. PICK n \in 0..Bulkhead : s \in [1..n -> Visitors]
    BY <1>1 DEF Batches
  <2>2. s \in Seq(Visitors)
    BY <2>1, SeqDef DEF RoomAssumption
  <2>3. DOMAIN s = 1..n /\ DOMAIN s = 1..Len(s) /\ Len(s) \in Nat
    BY <2>1, <2>2, LenProperties
  <2>4. Len(s) = n
    BY <2>3, <2>1 DEF RoomAssumption
  <2> QED
    BY <2>1, <2>2, <2>4 DEF RoomAssumption
<1>2. ASSUME s \in Seq(Visitors), Len(s) <= Bulkhead
      PROVE  s \in Batches
  BY <1>2, LenProperties DEF Batches, RoomAssumption
<1> QED
  BY <1>1, <1>2

LEMMA EmptyBatch ==
  ASSUME RoomAssumption
  PROVE  <<>> \in Batches
<1> SUFFICES ASSUME NEW s, s = <<>>
             PROVE  s \in Batches
  OBVIOUS
<1>1. s \in Seq(Visitors) /\ Len(s) <= Bulkhead
  BY EmptySeq DEF RoomAssumption
<1> QED
  BY <1>1, BatchType

LEMMA UndecidedAreFinite ==
  ASSUME RoomAssumption
  PROVE  IsFiniteSet(Undecided) /\ Cardinality(Undecided) \in Nat
BY FS_Subset, FS_CardinalityType DEF Undecided, RoomAssumption

(* A step that brings no call nearer to a score keeps the bound.            *)
LEMMA NoNewcomer ==
  ASSUME RoomAssumption, Undecided' \subseteq Undecided
  PROVE  Cardinality(Undecided') <= Cardinality(Undecided) /\ Cardinality(Undecided') \in Nat
BY UndecidedAreFinite, FS_Subset, FS_CardinalityType

(* gc_shoppers only takes away.                                             *)
LEMMA ShoppersType ==
  ASSUME RoomAssumption, RInv, GcShoppers \/ UNCHANGED floor
  PROVE  /\ shoppers' \subseteq Visitors /\ IsFiniteSet(shoppers')
         /\ left' \in [Visitors -> -2..Ttl]
         /\ key' = key
<1>1. CASE UNCHANGED floor
  BY <1>1 DEF RInv, TypeOK, floor
<1>2. CASE GcShoppers
  <2>1. shoppers' \subseteq Visitors /\ shoppers' \subseteq shoppers /\ key' = key
    BY <1>2 DEF RInv, TypeOK, GcShoppers
  <2>2. IsFiniteSet(shoppers')
    BY <2>1, FS_Subset DEF RInv
  <2>3. 0 \in -2..Ttl /\ \A v \in Visitors : left[v] \in -2..Ttl
    BY DEF RInv, TypeOK, RoomAssumption
  <2>4. left' \in [Visitors -> -2..Ttl]
    BY <1>2, <2>3 DEF GcShoppers
  <2> QED
    BY <2>1, <2>2, <2>4
<1> QED
  BY <1>1, <1>2

LEMMA FansAreFinite ==
  ASSUME RoomAssumption
  PROVE  Len(Fans) \in Nat /\ DOMAIN Fans = 1..Len(Fans) /\ Fans \in [1..Len(Fans) -> Visitors]
BY LenProperties DEF RoomAssumption

(* Steps that put nobody in line.                                           *)
LEMMA LineStands ==
  ASSUME RoomAssumption, RInv, UNCHANGED <<seq, flood>>,
         \A v \in Visitors : queue'[v] \in {queue[v], 0},
         \A t \in Requests :
            /\ score'[t] \in {score[t], 0}
            /\ pc'[t] = "enqueue" => pc[t] = "enqueue" /\ score'[t] = score[t],
         seq + Cardinality(Undecided') <= MaxScore
  PROVE  ScoreInv' /\ PendingInv' /\ Distinct'
<1>1. ScoreInv'
  <2>1. seq \in Nat /\ seq' = seq /\ seqEnd' = seqEnd
    BY DEF RInv, TypeOK, flood, RoomAssumption
  <2>2. /\ \A t \in Requests : score'[t] <= seq
        /\ \A v \in Visitors : queue'[v] <= seq
    BY <2>1 DEF RInv, ScoreInv
  <2> QED
    BY <2>1, <2>2 DEF RInv, ScoreInv
<1>2. PendingInv'
  <2>1. seqEnd' = seqEnd /\ flooded' = flooded /\ \A i : FloodScore(i)' = FloodScore(i)
    BY DEF flood, FloodScore
  <2>2. seqEnd > 0 => \A i \in flooded + 1..Len(Fans) : FloodScore(i) > 0
    BY FansAreFinite DEF RInv, TypeOK, ScoreInv, FloodScore, RoomAssumption
  <2> HIDE DEF FloodScore
  <2>3. ASSUME NEW t \in Requests, pc'[t] = "enqueue"
        PROVE  /\ score'[t] > 0
               /\ \A v \in Visitors : queue'[v] # score'[t]
               /\ \A u \in Requests : pc'[u] = "enqueue" /\ score'[u] = score'[t] => u = t
    BY <2>3 DEF RInv, PendingInv
  <2>4. ASSUME seqEnd > 0, NEW i \in flooded + 1..Len(Fans)
        PROVE  /\ \A v \in Visitors : queue'[v] # FloodScore(i)
               /\ \A t \in Requests : pc'[t] = "enqueue" => score'[t] # FloodScore(i)
    BY <2>2, <2>4 DEF RInv, PendingInv
  <2> QED
    BY <2>1, <2>3, <2>4 DEF PendingInv
<1>3. Distinct'
  <2> SUFFICES ASSUME NEW u \in Visitors, NEW v \in Visitors,
                      queue'[u] > 0, queue'[v] > 0, queue'[u] = queue'[v]
               PROVE  u = v
    BY DEF Distinct, Queued
  <2>1. queue'[u] = queue[u] /\ queue'[v] = queue[v]
    OBVIOUS
  <2> QED
    BY <2>1 DEF RInv, TypeOK, Queued
<1> QED
  BY <1>1, <1>2, <1>3


-----------------------------------------------------------------------------
(* Initially                                                                *)

LEMMA RoomInit == RoomAssumption /\ Init => RInv
<1> SUFFICES ASSUME RoomAssumption, Init
             PROVE  RInv
  OBVIOUS
<1>1. Undecided = {} /\ Queued = {}
  BY DEF Init, Undecided, Queued, Procs
<1>2. Cardinality(Undecided) = 0
  BY <1>1, FS_EmptySet
<1>3. <<>> \in Batches
  BY EmptyBatch
<1>4. TypeOK
  <2>1. popped \in [Procs -> Batches]
    BY <1>3 DEF Init
  <2>2. 0 \in 0..MaxScore /\ 0 \in 0..Ttl /\ 0 \in -2..Ttl /\ 0 \in 0..Bulkhead
    BY DEF RoomAssumption
  <2>3. 0 \in 0..Len(Fans) /\ 0 \in 0..MaxFaults /\ 0 \in Ages
    BY FansAreFinite DEF RoomAssumption, Ages
  <2>4. queue \in [Visitors -> 0..MaxScore] /\ left \in [Visitors -> -2..Ttl]
        /\ key \in [Visitors -> 0..Ttl]
    BY <2>2 DEF Init
  <2>5. /\ seq \in 0..MaxScore /\ seqEnd \in 0..MaxScore
        /\ flooded \in 0..Len(Fans) /\ faults \in 0..MaxFaults
        /\ shoppers \subseteq Visitors
    BY <2>2, <2>3 DEF Init
  <2>6. /\ visitor \in [Requests -> Visitors \union {None}]
        /\ score \in [Requests -> 0..MaxScore]
        /\ pc \in [Procs -> Ticking \union
                {"idle", "key", "zscore", "rank", "seq", "enqueue", "tick", "status"}]
        /\ age \in [Procs -> Ages] /\ slots \in [Procs -> 0..Bulkhead]
    BY <2>2, <2>3 DEF Init
  <2>7. rate \in [Ages -> Int] /\ granted \in [Ages -> Nat] /\ overflow \in [Procs -> Nat]
    BY DEF Init
  <2> QED
    BY <1>1, <2>1, <2>4, <2>5, <2>6, <2>7 DEF TypeOK, Batches
<1>5. ScoreInv
  BY <1>2 DEF Init, ScoreInv, RoomAssumption
<1>6. PendingInv /\ CallInv
  BY DEF Init, PendingInv, CallInv, Procs
<1> QED
  BY <1>4, <1>5, <1>6, FS_EmptySet DEF RInv, Init

-----------------------------------------------------------------------------
(* The calls of a visitor                                                   *)

LEMMA StartJoinKeeps ==
  ASSUME RoomAssumption, RInv, UNCHANGED flood,
         NEW t \in Requests, NEW v \in Visitors, StartJoin(t, v)
  PROVE  RInv'
<1>1. seq + Cardinality(Undecided') <= MaxScore
  <2>1. Undecided' \subseteq Undecided \union {t}
    BY DEF RInv, TypeOK, StartJoin, Undecided, Goto, Procs
  <2>2. /\ IsFiniteSet(Undecided \union {t})
        /\ Cardinality(Undecided \union {t}) <= Cardinality(Undecided) + 1
    <3> HIDE DEF Undecided
    <3>1. IsFiniteSet(Undecided) /\ Cardinality(Undecided) \in Nat
      BY UndecidedAreFinite
    <3>2. /\ IsFiniteSet(Undecided \union {t})
          /\ Cardinality(Undecided \union {t}) =
                IF t \in Undecided THEN Cardinality(Undecided) ELSE Cardinality(Undecided) + 1
      BY <3>1, FS_AddElement
    <3> QED
      BY <3>1, <3>2
  <2>3. /\ Cardinality(Undecided') <= Cardinality(Undecided \union {t})
        /\ Cardinality(Undecided \union {t}) \in Nat /\ Cardinality(Undecided') \in Nat
    BY <2>1, <2>2, FS_Subset, FS_CardinalityType
  <2>4. seq \in Nat /\ seq + Cardinality(Undecided) < MaxScore /\ MaxScore \in Nat
    BY DEF RInv, TypeOK, StartJoin, RoomAssumption
  <2> QED
    BY <2>2, <2>3, <2>4, UndecidedAreFinite
<1>2. ScoreInv' /\ PendingInv' /\ Distinct'
  BY <1>1, LineStands DEF RInv, TypeOK, StartJoin, Goto, Procs, room
<1>3. TypeOK'
  BY <1>2, ShoppersType
     DEF RInv, TypeOK, Distinct, StartJoin, Goto, Procs, room, limiter, tick, flood
<1>4. CallInv'
  BY DEF RInv, CallInv, TypeOK, StartJoin, Goto, Procs, tick, RoomAssumption
<1> QED
  BY <1>2, <1>3, <1>4, ShoppersType DEF RInv, StartJoin

(* The steps of a call that draws no score.                                 *)
LEMMA LookingKeeps ==
  ASSUME RoomAssumption, RInv, UNCHANGED flood, NEW t \in Requests,
         StatusAgain(t) \/ GetKey(t) \/ GetScore(t) \/ Rank(t)
  PROVE  RInv'
<1>1. UNCHANGED <<room, limiter, tick, faults>>
  BY DEF StatusAgain, GetKey, GetScore, Rank
<1>2. /\ \E s \in {"key", "zscore", "rank", "seq", "idle"} : Goto(t, s)
      /\ UNCHANGED call \/ CloseCall(t)
      /\ UNCHANGED floor \/ GcShoppers
  BY DEF StatusAgain, GetKey, GetScore, Rank, CloseCall
<1>3. /\ pc[t] # "idle" /\ pc[t] # "enqueue"
      /\ pc' \in [Procs -> Ticking \union
                {"idle", "key", "zscore", "rank", "seq", "enqueue", "tick", "status"}]
      /\ \A p \in Procs : p # t => pc'[p] = pc[p]
      /\ pc'[t] \in {"key", "zscore", "rank", "seq", "idle"}
      /\ pc'[t] # "idle" => UNCHANGED call
      /\ pc'[t] = "seq" => score[t] = 0
  BY DEF RInv, TypeOK, StatusAgain, GetKey, GetScore, Rank, CloseCall, Goto, Procs
<1>4. /\ visitor' \in [Requests -> Visitors \union {None}]
      /\ score' \in [Requests -> 0..MaxScore]
      /\ \A u \in Requests : /\ score'[u] \in {score[u], 0}
                             /\ u # t => score'[u] = score[u] /\ visitor'[u] = visitor[u]
  <2>1. CASE UNCHANGED call
    BY <2>1 DEF RInv, TypeOK, call
  <2>2. CASE CloseCall(t)
    <3>1. 0 \in 0..MaxScore
      BY DEF RoomAssumption
    <3> QED
      BY <2>2, <3>1 DEF RInv, TypeOK, CloseCall
  <2> QED
    BY <1>2, <2>1, <2>2
<1>5. seq + Cardinality(Undecided') <= MaxScore
  <2>1. Undecided' \subseteq Undecided
    BY <1>3, <1>4 DEF Undecided, call, Procs
  <2> QED
    BY <2>1, NoNewcomer, UndecidedAreFinite DEF RInv, ScoreInv, TypeOK, RoomAssumption
<1>6. ScoreInv' /\ PendingInv' /\ Distinct'
  <2>1. \A u \in Requests : pc'[u] = "enqueue" => pc[u] = "enqueue" /\ score'[u] = score[u]
    BY <1>3, <1>4 DEF Procs
  <2> QED
    BY <1>1, <1>4, <1>5, <2>1, LineStands DEF room
<1>7. shoppers' \subseteq Visitors /\ IsFiniteSet(shoppers') /\ left' \in [Visitors -> -2..Ttl] /\ key' = key
  BY <1>2, ShoppersType DEF RInv
<1>8. TypeOK'
  BY <1>1, <1>3, <1>4, <1>6, <1>7
     DEF RInv, TypeOK, Distinct, room, limiter, tick, flood
<1>9. CallInv'
  BY <1>1, <1>3, <1>4 DEF RInv, CallInv, Procs, tick, call
<1> QED
  BY <1>6, <1>7, <1>8, <1>9 DEF RInv


(* The score a join draws is above everybody's.                             *)
LEMMA NextScoreKeeps ==
  ASSUME RoomAssumption, RInv, UNCHANGED flood, NEW t \in Requests, NextScore(t)
  PROVE  RInv'
<1>1. /\ pc[t] = "seq" /\ pc' = [pc EXCEPT ![t] = "enqueue"]
      /\ seq' = seq + 1 /\ score' = [score EXCEPT ![t] = seq + 1]
      /\ UNCHANGED <<queue, floor, limiter, tick, visitor, faults>>
  BY DEF NextScore, Goto
<1>2. seq \in Nat /\ MaxScore \in Nat /\ t \in Procs /\ score \in [Requests -> 0..MaxScore]
      /\ queue \in [Visitors -> 0..MaxScore] /\ seqEnd \in Nat
  BY DEF RInv, TypeOK, RoomAssumption, Procs
<1>3. seq + 1 + Cardinality(Undecided') <= MaxScore
  <2>1. t \in Undecided
    BY <1>1 DEF RInv, CallInv, Undecided
  <2>2. Undecided' \subseteq Undecided \ {t}
    BY <1>1, <1>2 DEF RInv, TypeOK, Undecided, Procs
  <2> HIDE DEF Undecided
  <2>3. IsFiniteSet(Undecided) /\ Cardinality(Undecided) \in Nat
    BY UndecidedAreFinite
  <2>4. /\ IsFiniteSet(Undecided \ {t})
        /\ Cardinality(Undecided \ {t}) = Cardinality(Undecided) - 1
    BY <2>1, <2>3, FS_RemoveElement
  <2>5. Cardinality(Undecided') <= Cardinality(Undecided \ {t}) /\ Cardinality(Undecided') \in Nat
    BY <2>2, <2>4, FS_Subset, FS_CardinalityType
  <2>6. seq + Cardinality(Undecided) <= MaxScore
    BY DEF RInv, ScoreInv
  <2> QED
    BY <1>2, <2>3, <2>4, <2>5, <2>6
<1>4. Cardinality(Undecided') \in Nat
  <2>1. IsFiniteSet(Undecided')
    BY FS_Subset DEF Undecided, RoomAssumption
  <2> QED
    BY <2>1, FS_CardinalityType
<1>5. seq + 1 \in 0..MaxScore
  BY <1>2, <1>3, <1>4
<1>6. score' \in [Requests -> 0..MaxScore]
      /\ \A u \in Requests : score'[u] = IF u = t THEN seq + 1 ELSE score[u]
  BY <1>1, <1>2, <1>5
<1>7. ScoreInv'
  <2>1. \A v \in Visitors : queue'[v] <= seq'
    BY <1>1, <1>2 DEF RInv, ScoreInv
  <2>2. \A u \in Requests : score'[u] <= seq'
    BY <1>1, <1>2, <1>6 DEF RInv, ScoreInv
  <2>3. seqEnd' <= seq' /\ (seqEnd' > 0 => Len(Fans) <= seqEnd')
    BY <1>1, <1>2 DEF RInv, ScoreInv, flood
  <2> QED
    BY <1>1, <1>3, <2>1, <2>2, <2>3 DEF ScoreInv
<1>8. PendingInv'
  <2>1. \A u \in Requests : pc'[u] = "enqueue" => u = t \/ pc[u] = "enqueue"
    BY <1>1, <1>2 DEF RInv, TypeOK, Procs
  <2>2. /\ \A v \in Visitors : queue[v] # seq + 1
        /\ \A u \in Requests : score[u] # seq + 1
        /\ seqEnd > 0 => \A i \in flooded + 1..Len(Fans) : FloodScore(i) # seq + 1
    BY <1>2, FansAreFinite DEF RInv, TypeOK, ScoreInv, FloodScore
  <2>3. flooded' = flooded /\ seqEnd' = seqEnd /\ queue' = queue
        /\ \A i : FloodScore(i)' = FloodScore(i)
    BY <1>1 DEF flood, FloodScore
  <2> HIDE DEF FloodScore
  <2>4. ASSUME NEW u \in Requests, pc'[u] = "enqueue"
        PROVE  /\ score'[u] > 0
               /\ \A v \in Visitors : queue'[v] # score'[u]
               /\ \A w \in Requests : pc'[w] = "enqueue" /\ score'[w] = score'[u] => w = u
    BY <1>2, <1>6, <2>1, <2>2, <2>3, <2>4 DEF RInv, PendingInv
  <2>5. ASSUME seqEnd' > 0, NEW i \in flooded' + 1..Len(Fans)
        PROVE  /\ \A v \in Visitors : queue'[v] # FloodScore(i)'
               /\ \A u \in Requests : pc'[u] = "enqueue" => score'[u] # FloodScore(i)'
    BY <1>6, <2>1, <2>2, <2>3, <2>5 DEF RInv, PendingInv
  <2> QED
    BY <2>4, <2>5 DEF PendingInv
<1>9. TypeOK'
  BY <1>1, <1>2, <1>5, <1>6 DEF RInv, TypeOK, floor, limiter, tick, flood, Queued
<1>10. CallInv'
  BY <1>1, <1>2 DEF RInv, TypeOK, CallInv, tick, Procs
<1> QED
  BY <1>1, <1>7, <1>8, <1>9, <1>10 DEF RInv, floor

LEMMA EnqueueKeeps ==
  ASSUME RoomAssumption, RInv, UNCHANGED flood, NEW t \in Requests, Enqueue(t)
  PROVE  RInv'
<1> DEFINE v == visitor[t]
<1>1. /\ pc[t] = "enqueue" /\ pc' = [pc EXCEPT ![t] = "tick"]
      /\ queue' = [queue EXCEPT ![v] = ScoreToKeep(v, score[t])]
      /\ UNCHANGED <<seq, floor, limiter, tick, call, faults>>
  BY DEF Enqueue, Goto
<1>2. seq \in Nat /\ MaxScore \in Nat /\ t \in Procs /\ score \in [Requests -> 0..MaxScore]
      /\ queue \in [Visitors -> 0..MaxScore] /\ seqEnd \in Nat /\ v \in Visitors
  BY <1>1 DEF RInv, TypeOK, CallInv, RoomAssumption, Procs
<1> HIDE DEF v
<1>3. /\ queue' \in [Visitors -> 0..MaxScore]
      /\ \A u \in Visitors : u # v => queue'[u] = queue[u]
      /\ queue'[v] = IF queue[v] = 0 THEN score[t] ELSE queue[v]
  BY <1>1, <1>2 DEF ScoreToKeep
<1>4. score' = score /\ visitor' = visitor /\ seq' = seq /\ seqEnd' = seqEnd /\ flooded' = flooded
  BY <1>1 DEF call, flood
<1>5. \A u \in Requests : pc'[u] = IF u = t THEN "tick" ELSE pc[u]
  BY <1>1 DEF RInv, TypeOK, Procs
<1>6. ScoreInv'
  <2>1. Undecided' \subseteq Undecided
    BY <1>1, <1>4, <1>5 DEF Undecided
  <2>2. seq + Cardinality(Undecided') <= MaxScore
    BY <1>2, <2>1, NoNewcomer, UndecidedAreFinite DEF RInv, ScoreInv
  <2> QED
    BY <2>2, <1>2, <1>3, <1>4 DEF RInv, ScoreInv
<1>7. \A u \in Visitors : queue'[u] = queue[u] \/ (u = v /\ queue[v] = 0 /\ queue'[u] = score[t])
  BY <1>3
<1>8. PendingInv'
  <2>1. \A i : FloodScore(i)' = FloodScore(i)
    BY <1>4 DEF FloodScore
  <2> HIDE DEF FloodScore
  <2>2. ASSUME NEW u \in Requests, pc'[u] = "enqueue"
        PROVE  /\ score[u] > 0
               /\ \A w \in Visitors : queue'[w] # score[u]
               /\ \A w \in Requests : pc'[w] = "enqueue" /\ score[w] = score[u] => w = u
    BY <1>1, <1>5, <1>7, <2>2 DEF RInv, PendingInv
  <2>3. ASSUME seqEnd > 0, NEW i \in flooded + 1..Len(Fans)
        PROVE  /\ \A w \in Visitors : queue'[w] # FloodScore(i)
               /\ \A u \in Requests : pc'[u] = "enqueue" => score[u] # FloodScore(i)
    BY <1>1, <1>5, <1>7, <2>3 DEF RInv, PendingInv
  <2> QED
    BY <1>4, <2>1, <2>2, <2>3 DEF PendingInv
<1>9. Distinct'
  <2> SUFFICES ASSUME NEW u \in Visitors, NEW w \in Visitors,
                      queue'[u] > 0, queue'[u] = queue'[w]
               PROVE  u = w
    BY DEF Distinct, Queued
  <2>1. \A x \in Visitors : queue[x] # score[t]
    BY <1>1 DEF RInv, PendingInv
  <2> QED
    BY <1>7, <2>1 DEF RInv, TypeOK, Queued
<1>10. TypeOK'
  BY <1>1, <1>2, <1>3, <1>4, <1>9 DEF RInv, TypeOK, floor, limiter, tick, Distinct
<1>11. CallInv'
  BY <1>1, <1>4, <1>5 DEF RInv, TypeOK, CallInv, tick, Procs
<1> QED
  BY <1>1, <1>6, <1>8, <1>10, <1>11 DEF RInv, floor


-----------------------------------------------------------------------------
(* A tick                                                                   *)

(* What the steps of a tick have in common.                                 *)
LEMMA TickStandsBy ==
  ASSUME RoomAssumption, RInv, UNCHANGED flood, UNCHANGED <<seq, call>>,
         \A v \in Visitors : queue'[v] \in {queue[v], 0},
         NEW p \in Procs, p \in Requests => pc[p] # "idle",
         NEW s \in Ticking \union {"idle", "status"}, Goto(p, s)
  PROVE  /\ ScoreInv' /\ PendingInv' /\ Distinct'
         /\ \A t \in Requests : /\ pc'[t] # "idle" => visitor'[t] # None
                                /\ pc'[t] = "seq" => score'[t] = 0
         /\ pc' \in [Procs -> Ticking \union
                {"idle", "key", "zscore", "rank", "seq", "enqueue", "tick", "status"}]
         /\ \A q \in Procs : pc'[q] = IF q = p THEN s ELSE pc[q]
<1>1. /\ pc' \in [Procs -> Ticking \union
                {"idle", "key", "zscore", "rank", "seq", "enqueue", "tick", "status"}]
      /\ \A q \in Procs : pc'[q] = IF q = p THEN s ELSE pc[q]
  BY DEF RInv, TypeOK, Goto
<1>2. s # "enqueue" /\ s # "seq"
  BY DEF Ticking
<1>3. seq + Cardinality(Undecided') <= MaxScore
  <2>1. Undecided' \subseteq Undecided
    BY <1>1 DEF Undecided, call, Procs
  <2> QED
    BY <2>1, NoNewcomer, UndecidedAreFinite DEF RInv, ScoreInv, TypeOK, RoomAssumption
<1>4. ScoreInv' /\ PendingInv' /\ Distinct'
  <2>1. \A t \in Requests :
            /\ score'[t] \in {score[t], 0}
            /\ pc'[t] = "enqueue" => pc[t] = "enqueue" /\ score'[t] = score[t]
    BY <1>1, <1>2 DEF call, Procs
  <2> QED
    BY <1>3, <2>1, LineStands
<1>5. \A t \in Requests : /\ pc'[t] # "idle" => visitor'[t] # None
                          /\ pc'[t] = "seq" => score'[t] = 0
  BY <1>1, <1>2 DEF RInv, CallInv, call, Procs
<1> QED
  BY <1>1, <1>4, <1>5

LEMMA WhereNext ==
  ASSUME RoomAssumption, NEW p \in Procs
  PROVE  AfterTick(p) \in {"idle", "status"}
BY DEF AfterTick

LEMMA StartTickKeeps ==
  ASSUME RoomAssumption, RInv, UNCHANGED flood, NEW p \in Procs, StartTick(p)
  PROVE  RInv'
<1>1. p \in Requests => pc[p] # "idle"
  BY DEF StartTick, RoomAssumption
<1>2. /\ ScoreInv' /\ PendingInv' /\ Distinct'
      /\ \A t \in Requests : /\ pc'[t] # "idle" => visitor'[t] # None
                             /\ pc'[t] = "seq" => score'[t] = 0
      /\ pc' \in [Procs -> Ticking \union
                {"idle", "key", "zscore", "rank", "seq", "enqueue", "tick", "status"}]
      /\ \A q \in Procs : pc'[q] = IF q = p THEN "count" ELSE pc[q]
  BY <1>1, TickStandsBy DEF StartTick, Ticking, room
<1>3. /\ shoppers' \subseteq Visitors /\ IsFiniteSet(shoppers')
      /\ left' \in [Visitors -> -2..Ttl]
      /\ key' = key
  BY ShoppersType DEF StartTick
<1>4. age' \in [Procs -> Ages]
  BY DEF RInv, TypeOK, StartTick, Ages
<1>5. TypeOK'
  BY <1>2, <1>3, <1>4
     DEF RInv, TypeOK, Distinct, StartTick, room, limiter, call, flood
<1>6. CallInv'
  BY <1>2 DEF RInv, CallInv, StartTick
<1> QED
  BY <1>2, <1>3, <1>5, <1>6 DEF RInv

(* What a tick is granted is never more than it wanted.                     *)
LEMMA SlotsAreBounded ==
  ASSUME RoomAssumption, TypeOK, NEW p \in Procs
  PROVE  /\ \A active \in Nat : BulkheadSlots(active) \in 0..Bulkhead
         /\ \A current \in Int : GrantOf(slots[p], current) \in 0..slots[p]
         /\ slots[p] \in 0..Bulkhead
BY DEF TypeOK, BulkheadSlots, GrantOf, RoomAssumption

LEMMA CountKeeps ==
  ASSUME RoomAssumption, RInv, UNCHANGED flood, NEW p \in Procs, CountShoppers(p)
  PROVE  RInv'
<1> DEFINE s == IF slots'[p] > 0 THEN "rate" ELSE AfterTick(p)
<1>1. s \in Ticking \union {"idle", "status"}
  BY WhereNext DEF Ticking
<1>2. Goto(p, s) /\ pc[p] = "count" /\ UNCHANGED <<room, floor, limiter, age, overflow, popped, call, faults>>
  BY DEF CountShoppers
<1>3. s # "put"
  BY WhereNext
<1> HIDE DEF s
<1>4. /\ ScoreInv' /\ PendingInv' /\ Distinct'
      /\ \A t \in Requests : /\ pc'[t] # "idle" => visitor'[t] # None
                             /\ pc'[t] = "seq" => score'[t] = 0
      /\ pc' \in [Procs -> Ticking \union
                {"idle", "key", "zscore", "rank", "seq", "enqueue", "tick", "status"}]
      /\ \A q \in Procs : pc'[q] = IF q = p THEN s ELSE pc[q]
  BY <1>1, <1>2, TickStandsBy DEF room
<1>5. slots' \in [Procs -> 0..Bulkhead]
  <2>1. {v \in shoppers : left[v] + age[p] >= 0} \in SUBSET shoppers
    OBVIOUS
  <2>2. ShopperCount(p) \in Nat
    BY <2>1, FS_Subset, FS_CardinalityType DEF RInv, ShopperCount
  <2>3. BulkheadSlots(ShopperCount(p)) \in 0..Bulkhead
    BY <2>2, SlotsAreBounded DEF RInv
  <2> QED
    BY <2>3 DEF RInv, TypeOK, CountShoppers
<1>6. TypeOK'
  BY <1>2, <1>4, <1>5 DEF RInv, TypeOK, Distinct, room, floor, limiter, call, flood
<1>7. CallInv'
  BY <1>2, <1>3, <1>4 DEF RInv, CallInv
<1> QED
  BY <1>2, <1>4, <1>6, <1>7 DEF RInv, floor


LEMMA IncrRateKeeps ==
  ASSUME RoomAssumption, RInv, UNCHANGED flood, NEW p \in Procs, IncrRate(p)
  PROVE  RInv'
<1> DEFINE current == rate[age[p]] + slots[p]
           grant == GrantOf(slots[p], current)
           s == IF current <= PerSecond THEN "size" ELSE "refund"
<1>1. /\ pc[p] = "rate" /\ Goto(p, s)
      /\ rate' = [rate EXCEPT ![age[p]] = current]
      /\ granted' = [granted EXCEPT ![age[p]] = @ + grant]
      /\ slots' = [slots EXCEPT ![p] = grant]
      /\ \/ current <= PerSecond /\ UNCHANGED overflow
         \/ ~(current <= PerSecond) /\ overflow' = [overflow EXCEPT ![p] = current - PerSecond]
      /\ UNCHANGED <<room, floor, age, popped, call, faults>>
  BY DEF IncrRate
<1>2. /\ age[p] \in Ages /\ slots[p] \in Int /\ current \in Int
      /\ rate \in [Ages -> Int] /\ granted \in [Ages -> Nat] /\ PerSecond \in Nat
  BY DEF RInv, TypeOK, RoomAssumption
<1>3. grant \in 0..slots[p] /\ slots[p] \in 0..Bulkhead
  BY <1>2, SlotsAreBounded DEF RInv
<1>4. s \in Ticking \union {"idle", "status"} /\ s # "put"
  BY DEF Ticking
<1> HIDE DEF s, grant, current
<1>5. /\ ScoreInv' /\ PendingInv' /\ Distinct'
      /\ \A t \in Requests : /\ pc'[t] # "idle" => visitor'[t] # None
                             /\ pc'[t] = "seq" => score'[t] = 0
      /\ pc' \in [Procs -> Ticking \union
                {"idle", "key", "zscore", "rank", "seq", "enqueue", "tick", "status"}]
      /\ \A q \in Procs : pc'[q] = IF q = p THEN s ELSE pc[q]
  BY <1>1, <1>4, TickStandsBy DEF room
<1>6. rate' \in [Ages -> Int]
  BY <1>1, <1>2
<1>7. granted' \in [Ages -> Nat]
  BY <1>1, <1>2, <1>3 DEF RoomAssumption
<1>8. slots' \in [Procs -> 0..Bulkhead]
  BY <1>1, <1>3 DEF RInv, TypeOK, RoomAssumption
<1>9. overflow' \in [Procs -> Nat]
  <2>1. ~(current <= PerSecond) => current - PerSecond \in Nat
    BY <1>2
  <2>2. overflow \in [Procs -> Nat]
    BY DEF RInv, TypeOK
  <2> QED
    BY <1>1, <2>1, <2>2
<1>10. TypeOK'
  BY <1>1, <1>5, <1>6, <1>7, <1>8, <1>9 DEF RInv, TypeOK, Distinct, room, floor, call, flood
<1>11. CallInv'
  BY <1>1, <1>4, <1>5 DEF RInv, CallInv
<1> QED
  BY <1>1, <1>5, <1>10, <1>11 DEF RInv, floor

LEMMA GiveBackRateKeeps ==
  ASSUME RoomAssumption, RInv, UNCHANGED flood, NEW p \in Procs, GiveBackRate(p)
  PROVE  RInv'
<1>1. p \in Requests => pc[p] # "idle"
  BY DEF GiveBackRate
<1>2. /\ ScoreInv' /\ PendingInv' /\ Distinct'
      /\ \A t \in Requests : /\ pc'[t] # "idle" => visitor'[t] # None
                             /\ pc'[t] = "seq" => score'[t] = 0
      /\ pc' \in [Procs -> Ticking \union
                {"idle", "key", "zscore", "rank", "seq", "enqueue", "tick", "status"}]
      /\ \A q \in Procs : pc'[q] = IF q = p THEN "size" ELSE pc[q]
  BY <1>1, TickStandsBy DEF GiveBackRate, Ticking, room
<1>3. rate' \in [Ages -> Int] /\ overflow' \in [Procs -> Nat]
  BY DEF RInv, TypeOK, GiveBackRate
<1>4. TypeOK'
  BY <1>2, <1>3 DEF RInv, TypeOK, Distinct, GiveBackRate, room, floor, call, flood
<1>5. CallInv'
  BY <1>2 DEF RInv, CallInv, GiveBackRate
<1> QED
  BY <1>2, <1>4, <1>5 DEF RInv, GiveBackRate, floor

LEMMA QueueSizeKeeps ==
  ASSUME RoomAssumption, RInv, UNCHANGED flood, NEW p \in Procs, QueueSize(p)
  PROVE  RInv'
<1> DEFINE s == IF slots'[p] > 0 THEN "pop" ELSE AfterTick(p)
<1>1. s \in Ticking \union {"idle", "status"} /\ s # "put"
  BY WhereNext DEF Ticking
<1>2. /\ Goto(p, s) /\ pc[p] = "size"
      /\ UNCHANGED <<room, floor, limiter, age, overflow, popped, call, faults>>
  BY DEF QueueSize
<1> HIDE DEF s
<1>3. /\ ScoreInv' /\ PendingInv' /\ Distinct'
      /\ \A t \in Requests : /\ pc'[t] # "idle" => visitor'[t] # None
                             /\ pc'[t] = "seq" => score'[t] = 0
      /\ pc' \in [Procs -> Ticking \union
                {"idle", "key", "zscore", "rank", "seq", "enqueue", "tick", "status"}]
      /\ \A q \in Procs : pc'[q] = IF q = p THEN s ELSE pc[q]
  BY <1>1, <1>2, TickStandsBy DEF room
<1>4. slots' \in [Procs -> 0..Bulkhead]
  <2>1. slots[p] \in 0..Bulkhead /\ Cardinality(Queued) \in Nat /\ Bulkhead \in Nat
    BY LineIsFinite DEF RInv, TypeOK, RoomAssumption
  <2>2. Least(slots[p], Cardinality(Queued)) \in 0..Bulkhead
    BY <2>1 DEF Least
  <2> QED
    BY <2>2 DEF RInv, TypeOK, QueueSize
<1>5. TypeOK'
  BY <1>2, <1>3, <1>4 DEF RInv, TypeOK, Distinct, room, floor, limiter, call, flood
<1>6. CallInv'
  BY <1>1, <1>2, <1>3 DEF RInv, CallInv
<1> QED
  BY <1>2, <1>3, <1>5, <1>6 DEF RInv, floor

LEMMA PopFrontKeeps ==
  ASSUME RoomAssumption, RInv, UNCHANGED flood, NEW p \in Procs, PopFront(p)
  PROVE  RInv'
<1> DEFINE front == FirstInLine(slots[p])
           s == IF front = <<>> THEN AfterTick(p) ELSE "put"
<1>1. /\ pc[p] = "pop"
      /\ popped' = [popped EXCEPT ![p] = front]
      /\ queue' = [v \in Visitors |-> IF v \in ToSet(popped'[p]) THEN 0 ELSE queue[v]]
      /\ slots' = [slots EXCEPT ![p] = 0]
      /\ Goto(p, IF popped'[p] = <<>> THEN AfterTick(p) ELSE "put")
      /\ UNCHANGED <<seq, floor, limiter, age, overflow, call, faults>>
  BY DEF PopFront
<1>2. popped'[p] = front
  BY <1>1 DEF RInv, TypeOK
<1>3. Goto(p, s)
  BY <1>1, <1>2
<1>4. slots[p] \in Nat /\ slots[p] <= Bulkhead /\ Bulkhead \in Nat
  BY DEF RInv, TypeOK, RoomAssumption
<1>5. front \in Batches
  <2>1. front \in Seq(Visitors) /\ Len(front) = Least(slots[p], Cardinality(Queued))
    BY <1>4, FrontOfLine DEF RInv
  <2>2. Cardinality(Queued) \in Nat
    BY LineIsFinite DEF RInv
  <2>3. Len(front) <= Bulkhead
    BY <2>1, <2>2, <1>4 DEF Least
  <2> QED
    BY <2>1, <2>3, BatchType
<1>6. s \in Ticking \union {"idle", "status"} /\ (s = "put" => front # <<>>)
  BY WhereNext DEF Ticking
<1> HIDE DEF s, front
<1>7. \A v \in Visitors : queue'[v] \in {queue[v], 0}
  BY <1>1
<1>8. /\ ScoreInv' /\ PendingInv' /\ Distinct'
      /\ \A t \in Requests : /\ pc'[t] # "idle" => visitor'[t] # None
                             /\ pc'[t] = "seq" => score'[t] = 0
      /\ pc' \in [Procs -> Ticking \union
                {"idle", "key", "zscore", "rank", "seq", "enqueue", "tick", "status"}]
      /\ \A q \in Procs : pc'[q] = IF q = p THEN s ELSE pc[q]
  BY <1>1, <1>3, <1>6, <1>7, TickStandsBy
<1>9. queue' \in [Visitors -> 0..MaxScore]
  <2>1. 0 \in 0..MaxScore
    BY DEF RoomAssumption
  <2> QED
    BY <1>1, <2>1 DEF RInv, TypeOK
<1>10. popped' \in [Procs -> Batches] /\ slots' \in [Procs -> 0..Bulkhead]
  BY <1>1, <1>4, <1>5 DEF RInv, TypeOK, Batches
<1>11. TypeOK'
  BY <1>1, <1>8, <1>9, <1>10 DEF RInv, TypeOK, Batches, Distinct, floor, limiter, call, flood
<1>12. CallInv'
  BY <1>1, <1>2, <1>6, <1>8 DEF RInv, CallInv, TypeOK
<1> QED
  BY <1>1, <1>8, <1>11, <1>12 DEF RInv, floor


LEMMA PutShopperKeeps ==
  ASSUME RoomAssumption, RInv, UNCHANGED flood, NEW p \in Procs, PutShopper(p)
  PROVE  RInv'
<1> DEFINE v == Head(popped[p])
           rest == Tail(popped[p])
           s == IF rest = <<>> THEN AfterTick(p) ELSE "put"
<1>1. /\ pc[p] = "put"
      /\ shoppers' = shoppers \union {v}
      /\ left' = [left EXCEPT ![v] = Ttl - age[p]]
      /\ key' = [key EXCEPT ![v] = Ttl]
      /\ popped' = [popped EXCEPT ![p] = rest]
      /\ Goto(p, IF popped'[p] = <<>> THEN AfterTick(p) ELSE "put")
      /\ UNCHANGED <<room, limiter, age, slots, overflow, call, faults>>
  BY DEF PutShopper, KeySeconds
<1>2. popped'[p] = rest
  BY <1>1 DEF RInv, TypeOK
<1>3. Goto(p, s)
  BY <1>1, <1>2
<1>4. v \in Visitors /\ rest \in Batches
  <2>1. popped[p] \in Batches /\ popped[p] # <<>>
    BY <1>1 DEF RInv, TypeOK, CallInv, Batches
  <2>2. popped[p] \in Seq(Visitors) /\ Len(popped[p]) <= Bulkhead
    BY <2>1, BatchType
  <2>3. v \in Visitors /\ rest \in Seq(Visitors) /\ Len(rest) = Len(popped[p]) - 1
    BY <2>1, <2>2, HeadTailProperties
  <2>4. Len(popped[p]) \in Nat /\ Bulkhead \in Nat
    BY <2>2, LenProperties DEF RoomAssumption
  <2>5. Len(rest) <= Bulkhead
    BY <2>2, <2>3, <2>4
  <2> QED
    BY <2>3, <2>5, BatchType
<1>5. s \in Ticking \union {"idle", "status"} /\ (s = "put" => rest # <<>>)
  BY WhereNext DEF Ticking
<1> HIDE DEF s, rest, v
<1>6. /\ ScoreInv' /\ PendingInv' /\ Distinct'
      /\ \A t \in Requests : /\ pc'[t] # "idle" => visitor'[t] # None
                             /\ pc'[t] = "seq" => score'[t] = 0
      /\ pc' \in [Procs -> Ticking \union
                {"idle", "key", "zscore", "rank", "seq", "enqueue", "tick", "status"}]
      /\ \A q \in Procs : pc'[q] = IF q = p THEN s ELSE pc[q]
  BY <1>1, <1>3, <1>5, TickStandsBy DEF room
<1>7. shoppers' \subseteq Visitors /\ IsFiniteSet(shoppers')
  BY <1>1, <1>4, FS_AddElement DEF RInv, TypeOK
<1>8. left' \in [Visitors -> -2..Ttl] /\ key' \in [Visitors -> 0..Ttl]
  <2>1. Ttl \in Nat /\ Ttl > 0 /\ age[p] \in {0, 1}
    BY DEF RInv, TypeOK, Ages, RoomAssumption
  <2>2. Ttl \in 0..Ttl /\ Ttl - age[p] \in -2..Ttl
    BY <2>1
  <2> QED
    BY <1>1, <2>2 DEF RInv, TypeOK
<1>9. popped' \in [Procs -> Batches]
  BY <1>1, <1>4 DEF RInv, TypeOK, Batches
<1>10. TypeOK'
  BY <1>1, <1>6, <1>7, <1>8, <1>9 DEF RInv, TypeOK, Batches, Distinct, room, limiter, call, flood
<1>11. CallInv'
  BY <1>1, <1>2, <1>5, <1>6 DEF RInv, CallInv, TypeOK
<1> QED
  BY <1>6, <1>7, <1>10, <1>11 DEF RInv

-----------------------------------------------------------------------------
(* Faults, time and the flood                                               *)

LEMMA FailCallKeeps ==
  ASSUME RoomAssumption, RInv, UNCHANGED flood, NEW p \in Procs, FailCall(p)
  PROVE  RInv'
<1>1. /\ faults' = faults + 1 /\ faults < MaxFaults
      /\ Goto(p, "idle")
      /\ \/ p \in Requests /\ CloseCall(p)
         \/ p \notin Requests /\ UNCHANGED call
      /\ age' = [age EXCEPT ![p] = 0]
      /\ slots' = [slots EXCEPT ![p] = 0]
      /\ overflow' = [overflow EXCEPT ![p] = 0]
      /\ popped' = [popped EXCEPT ![p] = <<>>]
      /\ UNCHANGED <<room, floor, limiter>>
  BY DEF FailCall, CloseCall
<1>2. /\ pc' \in [Procs -> Ticking \union
                {"idle", "key", "zscore", "rank", "seq", "enqueue", "tick", "status"}]
      /\ \A q \in Procs : pc'[q] = IF q = p THEN "idle" ELSE pc[q]
  BY <1>1 DEF RInv, TypeOK, Goto
<1>3. /\ visitor' \in [Requests -> Visitors \union {None}]
      /\ score' \in [Requests -> 0..MaxScore]
      /\ \A t \in Requests : IF t = p THEN score'[t] = 0
                             ELSE score'[t] = score[t] /\ visitor'[t] = visitor[t]
  <2>1. CASE p \notin Requests /\ UNCHANGED call
    BY <2>1 DEF RInv, TypeOK, call
  <2>2. CASE p \in Requests /\ CloseCall(p)
    <3>1. 0 \in 0..MaxScore
      BY DEF RoomAssumption
    <3> QED
      BY <2>2, <3>1 DEF RInv, TypeOK, CloseCall
  <2> QED
    BY <1>1, <2>1, <2>2
<1>4. seq + Cardinality(Undecided') <= MaxScore
  <2>1. Undecided' \subseteq Undecided
    BY <1>2, <1>3 DEF Undecided, Procs
  <2> QED
    BY <2>1, NoNewcomer, UndecidedAreFinite DEF RInv, ScoreInv, TypeOK, RoomAssumption
<1>5. ScoreInv' /\ PendingInv' /\ Distinct'
  <2>1. \A t \in Requests :
            /\ score'[t] \in {score[t], 0}
            /\ pc'[t] = "enqueue" => pc[t] = "enqueue" /\ score'[t] = score[t]
    BY <1>2, <1>3 DEF Procs
  <2> QED
    BY <1>1, <1>4, <2>1, LineStands DEF room
<1>6. popped' \in [Procs -> Batches]
  BY <1>1, EmptyBatch DEF RInv, TypeOK, Batches
<1>7. /\ slots' \in [Procs -> 0..Bulkhead] /\ age' \in [Procs -> Ages]
      /\ overflow' \in [Procs -> Nat]
  <2>1. 0 \in 0..Bulkhead /\ 0 \in Ages /\ 0 \in Nat
    BY DEF RoomAssumption, Ages
  <2> QED
    BY <1>1, <2>1 DEF RInv, TypeOK
<1>8. faults' \in 0..MaxFaults
  BY <1>1 DEF RInv, TypeOK, RoomAssumption
<1>9. TypeOK'
  BY <1>1, <1>2, <1>3, <1>5, <1>6, <1>7, <1>8
     DEF RInv, TypeOK, Batches, Distinct, room, floor, limiter, flood
<1>10. CallInv'
  BY <1>1, <1>2, <1>3 DEF RInv, CallInv, TypeOK, Procs
<1> QED
  BY <1>1, <1>5, <1>9, <1>10 DEF RInv, floor

(* Steps that leave the calls and the line alone.                           *)
LEMMA CallsStand ==
  ASSUME RoomAssumption, RInv, UNCHANGED <<room, flood, pc, call, popped>>
  PROVE  ScoreInv' /\ PendingInv' /\ Distinct' /\ CallInv'
<1>1. Undecided' = Undecided
  BY DEF Undecided, call
<1>2. seq + Cardinality(Undecided') <= MaxScore
  BY <1>1 DEF RInv, ScoreInv
<1>3. ScoreInv' /\ PendingInv' /\ Distinct'
  BY <1>2, LineStands DEF room, call
<1>4. CallInv'
  BY DEF RInv, CallInv, call
<1> QED
  BY <1>3, <1>4

LEMMA CollectKeeps ==
  ASSUME RoomAssumption, RInv, UNCHANGED flood, Collect
  PROVE  RInv'
<1>1. ScoreInv' /\ PendingInv' /\ Distinct' /\ CallInv'
  BY CallsStand DEF Collect, tick
<1>2. shoppers' \subseteq Visitors /\ IsFiniteSet(shoppers')
      /\ left' \in [Visitors -> -2..Ttl] /\ key' = key
  BY ShoppersType DEF Collect
<1>3. TypeOK'
  BY <1>1, <1>2 DEF RInv, TypeOK, Distinct, Collect, room, limiter, tick, call, flood
<1> QED
  BY <1>1, <1>2, <1>3 DEF RInv

LEMMA SecondKeeps ==
  ASSUME RoomAssumption, RInv, UNCHANGED flood, Second
  PROVE  RInv'
<1>1. ScoreInv' /\ PendingInv' /\ Distinct' /\ CallInv'
  BY CallsStand DEF Second
<1>2. age' \in [Procs -> Ages]
  BY DEF Second, Ages
<1>3. left' \in [Visitors -> -2..Ttl]
  BY DEF RInv, TypeOK, Second, RoomAssumption
<1>4. key' \in [Visitors -> 0..Ttl]
  BY DEF RInv, TypeOK, Second, RoomAssumption
<1>5. rate' \in [Ages -> Int] /\ granted' \in [Ages -> Nat]
  BY DEF RInv, TypeOK, Second, Aged, Ages
<1>6. TypeOK'
  BY <1>1, <1>2, <1>3, <1>4, <1>5
     DEF RInv, TypeOK, Distinct, Second, room, call, flood
<1> QED
  BY <1>1, <1>6 DEF RInv, Second


LEMMA FloodScoresKeeps ==
  ASSUME RoomAssumption, RInv, FloodScores
  PROVE  RInv'
<1> DEFINE N == Len(Fans)
           U == Cardinality(Undecided)
<1>1. /\ seqEnd = 0 /\ seq + U + N <= MaxScore
      /\ seq' = seq + N /\ seqEnd' = seq + N
      /\ UNCHANGED <<queue, floor, limiter, pc, tick, call, flooded, faults>>
  BY DEF FloodScores
<1>2. Undecided' = Undecided
  BY <1>1 DEF Undecided, call
<1>3. N \in Nat /\ U \in Nat /\ seq \in Nat /\ MaxScore \in Nat /\ flooded \in Nat
  BY FansAreFinite, UndecidedAreFinite DEF RInv, TypeOK, RoomAssumption
<1> HIDE DEF N, U
<1>4. seq + N \in 0..MaxScore
  BY <1>1, <1>3
<1>5. /\ \A v \in Visitors : queue[v] \in 0..seq
      /\ \A t \in Requests : score[t] \in 0..seq
  BY <1>3 DEF RInv, TypeOK, ScoreInv
<1>6. ScoreInv'
  <2>1. seq' + Cardinality(Undecided') <= MaxScore
    BY <1>1, <1>2, <1>3 DEF U
  <2>2. /\ \A v \in Visitors : queue'[v] <= seq'
        /\ \A t \in Requests : score'[t] <= seq'
    BY <1>1, <1>3, <1>5 DEF call
  <2>3. seqEnd' <= seq' /\ (seqEnd' > 0 => Len(Fans) <= seqEnd')
    BY <1>1, <1>3 DEF N
  <2> QED
    BY <2>1, <2>2, <2>3 DEF ScoreInv
<1>7. PendingInv'
  <2>1. ASSUME NEW i \in flooded + 1..N
        PROVE  FloodScore(i)' > seq /\ FloodScore(i)' \in Int
    BY <1>1, <1>3 DEF FloodScore, N
  <2> HIDE DEF FloodScore
  <2>2. ASSUME NEW i \in flooded' + 1..Len(Fans)
        PROVE  /\ \A v \in Visitors : queue'[v] # FloodScore(i)'
               /\ \A t \in Requests : pc'[t] = "enqueue" => score'[t] # FloodScore(i)'
    BY <1>1, <1>3, <1>5, <2>1 DEF N, call
  <2>3. ASSUME NEW t \in Requests, pc'[t] = "enqueue"
        PROVE  /\ score'[t] > 0
               /\ \A v \in Visitors : queue'[v] # score'[t]
               /\ \A u \in Requests : pc'[u] = "enqueue" /\ score'[u] = score'[t] => u = t
    BY <1>1, <2>3 DEF RInv, PendingInv, call
  <2> QED
    BY <2>2, <2>3 DEF PendingInv
<1>8. TypeOK'
  BY <1>1, <1>4 DEF RInv, TypeOK, Queued, floor, limiter, tick, call
<1>9. CallInv'
  BY <1>1 DEF RInv, CallInv, call, tick
<1> QED
  BY <1>1, <1>6, <1>7, <1>8, <1>9 DEF RInv, floor

(* A batch of the flood puts fans in line at the scores drawn for them.     *)
LEMMA FloodBatchScores ==
  ASSUME RoomAssumption, RInv, FloodLine
  PROVE  /\ flooded' \in 0..Len(Fans) /\ flooded <= flooded'
         /\ queue' \in [Visitors -> 0..MaxScore]
         /\ \A v \in Visitors :
               \/ queue'[v] = queue[v]
               \/ \E i \in flooded + 1..flooded' :
                     Fans[i] = v /\ queue[v] = 0 /\ queue'[v] = FloodScore(i)
         /\ \A i \in flooded + 1..flooded' :
               queue[Fans[i]] = 0 => queue'[Fans[i]] = FloodScore(i)
<1>1. /\ seqEnd > 0 /\ flooded < Len(Fans)
      /\ flooded' = Least(flooded + FloodBatch, Len(Fans))
      /\ queue' = [v \in Visitors |->
                 IF \E i \in flooded + 1..flooded' : Fans[i] = v
                   THEN ScoreToKeep(v, FloodScore(CHOOSE i \in 1..flooded' : Fans[i] = v))
                   ELSE queue[v]]
  BY DEF FloodLine, Flooding
<1>2. /\ Len(Fans) \in Nat /\ flooded \in Nat /\ FloodBatch \in Nat
      /\ seqEnd \in 0..MaxScore /\ MaxScore \in Nat /\ Len(Fans) <= seqEnd
  BY <1>1, FansAreFinite DEF RInv, TypeOK, ScoreInv, RoomAssumption
<1>3. flooded' \in 0..Len(Fans) /\ flooded <= flooded'
  BY <1>1, <1>2 DEF Least
<1>4. ASSUME NEW v \in Visitors, NEW i \in flooded + 1..flooded', Fans[i] = v
      PROVE  /\ queue'[v] = IF queue[v] = 0 THEN FloodScore(i) ELSE queue[v]
             /\ FloodScore(i) \in 0..MaxScore
  <2>1. i \in 1..flooded' /\ \A j \in 1..flooded' : Fans[j] = v => j = i
    BY <1>2, <1>3, <1>4, FansAreFinite DEF RoomAssumption, IsInjective
  <2>2. (CHOOSE j \in 1..flooded' : Fans[j] = v) = i
    BY <1>4, <2>1
  <2>3. queue'[v] = ScoreToKeep(v, FloodScore(i))
    BY <1>1, <1>4, <2>2
  <2> QED
    BY <1>2, <1>3, <2>1, <2>3 DEF ScoreToKeep, FloodScore
<1>5. ASSUME NEW v \in Visitors, ~ \E i \in flooded + 1..flooded' : Fans[i] = v
      PROVE  queue'[v] = queue[v]
  BY <1>1, <1>5
<1>6. \A v \in Visitors : queue[v] \in 0..MaxScore
  BY DEF RInv, TypeOK
<1> HIDE DEF FloodScore
<1>7. ASSUME NEW v \in Visitors
      PROVE  queue'[v] \in 0..MaxScore
  BY <1>4, <1>5, <1>6
<1>8. ASSUME NEW v \in Visitors
      PROVE  \/ queue'[v] = queue[v]
             \/ \E i \in flooded + 1..flooded' :
                   Fans[i] = v /\ queue[v] = 0 /\ queue'[v] = FloodScore(i)
  BY <1>4, <1>5
<1>9. queue' \in [Visitors -> 0..MaxScore]
  BY <1>1, <1>7
<1>10. ASSUME NEW i \in flooded + 1..flooded', queue[Fans[i]] = 0
       PROVE  queue'[Fans[i]] = FloodScore(i)
  <2>1. Fans[i] \in Visitors
    BY <1>2, <1>3, FansAreFinite
  <2> QED
    BY <1>4, <1>10, <2>1
<1> QED
  BY <1>3, <1>8, <1>9, <1>10

LEMMA RestOfRange ==
  ASSUME NEW a \in Nat, NEW b \in Nat, NEW c \in Nat, a <= b, b <= c
  PROVE  /\ \A i \in b + 1..c : i \in a + 1..c /\ i \notin a + 1..b
         /\ \A i \in a + 1..b : i \in a + 1..c
OBVIOUS

LEMMA FloodLineKeeps ==
  ASSUME RoomAssumption, RInv, FloodLine
  PROVE  RInv'
<1>1. /\ seqEnd > 0
      /\ UNCHANGED <<seq, floor, limiter, pc, tick, call, seqEnd, faults>>
  BY DEF FloodLine, Flooding
<1>2. /\ seq \in Nat /\ seqEnd \in Nat /\ Len(Fans) \in Nat /\ flooded \in Nat
      /\ flooded' \in Nat /\ flooded' <= Len(Fans) /\ flooded <= flooded'
  BY FansAreFinite, FloodBatchScores DEF RInv, TypeOK, RoomAssumption
<1>3. \A i \in flooded + 1..Len(Fans) : FloodScore(i) \in 1..seqEnd
  BY <1>1, <1>2 DEF RInv, ScoreInv, FloodScore
<1>4. \A i, j \in flooded + 1..Len(Fans) : FloodScore(i) = FloodScore(j) => i = j
  BY <1>2 DEF FloodScore
<1>5. \A i : FloodScore(i)' = FloodScore(i)
  BY <1>1 DEF FloodScore
<1> HIDE DEF FloodScore
<1>6. ASSUME NEW v \in Visitors
      PROVE  \/ queue'[v] = queue[v]
             \/ \E i \in flooded + 1..flooded' :
                   Fans[i] = v /\ queue[v] = 0 /\ queue'[v] = FloodScore(i)
  BY FloodBatchScores
<1>7. Undecided' = Undecided
  BY <1>1 DEF Undecided, call
<1>8. ScoreInv'
  <2>1. ASSUME NEW v \in Visitors
        PROVE  queue'[v] <= seq
    <3>1. CASE queue'[v] = queue[v]
      BY <3>1 DEF RInv, ScoreInv
    <3>2. ASSUME NEW i \in flooded + 1..flooded', queue'[v] = FloodScore(i)
          PROVE  queue'[v] <= seq
      BY <1>2, <1>3, <3>2 DEF RInv, ScoreInv
    <3> QED
      BY <1>6, <3>1, <3>2
  <2> QED
    BY <1>1, <1>7, <2>1 DEF RInv, ScoreInv, call
<1>9. PendingInv'
  <2>1. ASSUME NEW t \in Requests, pc[t] = "enqueue"
        PROVE  /\ score[t] > 0
               /\ \A v \in Visitors : queue'[v] # score[t]
               /\ \A u \in Requests : pc[u] = "enqueue" /\ score[u] = score[t] => u = t
               /\ \A i \in flooded' + 1..Len(Fans) : score[t] # FloodScore(i)
    <3>1. ASSUME NEW i \in flooded' + 1..Len(Fans)
          PROVE  i \in flooded + 1..Len(Fans)
      BY <1>2, RestOfRange
    <3>2. \A i \in flooded + 1..flooded' : i \in flooded + 1..Len(Fans)
      BY <1>2, RestOfRange
    <3>3. /\ score[t] > 0
          /\ \A v \in Visitors : queue[v] # score[t]
          /\ \A u \in Requests : pc[u] = "enqueue" /\ score[u] = score[t] => u = t
          /\ \A i \in flooded + 1..Len(Fans) : score[t] # FloodScore(i)
      BY <1>1, <2>1 DEF RInv, PendingInv
    <3> QED
      BY <1>6, <3>1, <3>2, <3>3
  <2>2. ASSUME NEW v \in Visitors, NEW i \in flooded' + 1..Len(Fans)
        PROVE  queue'[v] # FloodScore(i)
    <3>1. i \in flooded + 1..Len(Fans) /\ i \notin flooded + 1..flooded'
      BY <1>2, RestOfRange
    <3>2. queue[v] # FloodScore(i)
      BY <1>1, <3>1 DEF RInv, PendingInv
    <3>3. ASSUME NEW j \in flooded + 1..flooded', queue'[v] = FloodScore(j)
          PROVE  queue'[v] # FloodScore(i)
      BY <1>2, <1>4, <3>1, <3>3
    <3> QED
      BY <1>6, <3>2, <3>3
  <2> QED
    BY <1>1, <1>5, <2>1, <2>2 DEF PendingInv, call
<1>10. Distinct'
  <2> SUFFICES ASSUME NEW u \in Visitors, NEW v \in Visitors,
                      queue'[u] > 0, queue'[v] > 0, queue'[u] = queue'[v]
               PROVE  u = v
    BY DEF Distinct, Queued
  <2>1. \A w \in Visitors, i \in flooded + 1..flooded' : queue[w] # FloodScore(i)
    BY <1>1, <1>2 DEF RInv, PendingInv
  <2>2. CASE queue'[u] = queue[u] /\ queue'[v] = queue[v]
    BY <2>2 DEF RInv, TypeOK, Queued
  <2>3. CASE /\ \E i \in flooded + 1..flooded' : Fans[i] = u /\ queue'[u] = FloodScore(i)
             /\ \E i \in flooded + 1..flooded' : Fans[i] = v /\ queue'[v] = FloodScore(i)
    <3>1. PICK i \in flooded + 1..flooded' : Fans[i] = u /\ queue'[u] = FloodScore(i)
      BY <2>3
    <3>2. PICK j \in flooded + 1..flooded' : Fans[j] = v /\ queue'[v] = FloodScore(j)
      BY <2>3
    <3>3. i \in flooded + 1..Len(Fans) /\ j \in flooded + 1..Len(Fans)
      BY <1>2
    <3>4. i = j
      BY <1>4, <3>1, <3>2, <3>3
    <3> QED
      BY <3>1, <3>2, <3>4
  <2> QED
    BY <1>6, <2>1, <2>2, <2>3
<1>11. TypeOK'
  BY <1>1, <1>10, FloodBatchScores DEF RInv, TypeOK, Distinct, floor, limiter, tick, call
<1>12. CallInv'
  BY <1>1 DEF RInv, CallInv, call, tick
<1> QED
  BY <1>1, <1>8, <1>9, <1>11, <1>12 DEF RInv, floor


-----------------------------------------------------------------------------
(* The invariant holds                                                      *)

LEMMA RoomStep == RoomAssumption /\ RInv /\ [Next]_vars => RInv'
<1> SUFFICES ASSUME RoomAssumption, RInv, [Next]_vars
             PROVE  RInv'
  OBVIOUS
<1>1. CASE UNCHANGED vars
  <2>1. ScoreInv' /\ PendingInv' /\ Distinct' /\ CallInv'
    BY <1>1, CallsStand DEF vars, room, flood, call
  <2>2. TypeOK'
    BY <1>1, <2>1 DEF RInv, TypeOK, Distinct, vars
  <2> QED
    BY <1>1, <2>1, <2>2 DEF RInv, vars
<1>2. ASSUME UNCHANGED flood, NEW t \in Requests, NEW v \in Visitors, StartJoin(t, v)
      PROVE  RInv'
  BY <1>2, StartJoinKeeps
<1>3. ASSUME UNCHANGED flood, NEW t \in Requests, Join(t)
      PROVE  RInv'
  BY <1>3, LookingKeeps, NextScoreKeeps, EnqueueKeeps DEF Join
<1>4. ASSUME UNCHANGED flood, NEW p \in Procs, AdmitTick(p)
      PROVE  RInv'
  BY <1>4, StartTickKeeps, CountKeeps, IncrRateKeeps, GiveBackRateKeeps, QueueSizeKeeps,
     PopFrontKeeps, PutShopperKeeps DEF AdmitTick
<1>5. ASSUME UNCHANGED flood, NEW p \in Procs, FailCall(p)
      PROVE  RInv'
  BY <1>5, FailCallKeeps
<1>6. CASE UNCHANGED flood /\ (Collect \/ Second)
  BY <1>6, CollectKeeps, SecondKeeps
<1>7. CASE FloodScores \/ FloodLine
  BY <1>7, FloodScoresKeeps, FloodLineKeeps
<1> QED
  BY <1>1, <1>2, <1>3, <1>4, <1>5, <1>6, <1>7 DEF Next, CallStep

(* The inductive invariant of the waiting room.                             *)
THEOREM Invariance == Spec => []RInv
<1>1. RoomAssumption
  BY RoomAssumption
<1>2. Init => RInv
  BY <1>1, RoomInit
<1>3. RInv /\ [Next]_vars => RInv'
  BY <1>1, RoomStep
<1> QED
  BY <1>2, <1>3, PTL DEF Spec

(* Every variable keeps its type, and no two visitors in line have one      *)
(* score: next_score, the flood's block of scores and ZADD NX, in any       *)
(* interleaving.                                                            *)
THEOREM TypeCorrect == Spec => []TypeOK
<1>1. RInv => TypeOK
  BY DEF RInv
<1> QED
  BY <1>1, Invariance, PTL

-----------------------------------------------------------------------------
(* Shoppers are let in                                                      *)

(* Only put_shopper, gc_shoppers and time change what a shopper has.        *)
LEMMA WhoChangesTheFloor ==
  ASSUME RoomAssumption, RInv, [Next]_vars
  PROVE  \/ UNCHANGED floor
         \/ GcShoppers
         \/ Second
         \/ \E p \in Procs : PutShopper(p)
<1>1. ASSUME NEW t \in Requests, Join(t)
      PROVE  UNCHANGED floor \/ GcShoppers
  BY <1>1 DEF Join, StatusAgain, GetKey, GetScore, Rank, NextScore, Enqueue
<1>2. ASSUME NEW p \in Procs, AdmitTick(p)
      PROVE  UNCHANGED floor \/ GcShoppers \/ PutShopper(p)
  BY <1>2 DEF AdmitTick, StartTick, CountShoppers, IncrRate, GiveBackRate, QueueSize, PopFront
<1>3. ASSUME NEW t \in Requests, NEW v \in Visitors, StartJoin(t, v)
      PROVE  GcShoppers
  BY <1>3 DEF StartJoin
<1>4. ASSUME NEW p \in Procs, FailCall(p)
      PROVE  UNCHANGED floor
  BY <1>4 DEF FailCall
<1>5. Collect => GcShoppers
  BY DEF Collect
<1>6. FloodScores \/ FloodLine => UNCHANGED floor
  BY DEF FloodScores, FloodLine
<1>7. UNCHANGED vars => UNCHANGED floor
  BY DEF vars, floor
<1> QED
  BY <1>1, <1>2, <1>3, <1>4, <1>5, <1>6, <1>7 DEF Next, CallStep

LEMMA LetInStep ==
  ASSUME RoomAssumption, RInv, RInv', ShoppersAreLetIn, [Next]_vars
  PROVE  ShoppersAreLetIn'
<1> SUFFICES ASSUME NEW v \in Visitors
             PROVE  /\ v \in Shopping' => LetIn(v)' /\ key'[v] >= left'[v]
                    /\ LetIn(v)' => key'[v] <= 1 + (IF v \in Shopping' THEN left'[v] ELSE 0)
  BY DEF ShoppersAreLetIn
<1>1. /\ v \in shoppers /\ left[v] > 0 => key[v] > 0 /\ key[v] >= left[v]
      /\ key[v] > 0 => key[v] <= 1 + (IF v \in shoppers /\ left[v] > 0 THEN left[v] ELSE 0)
  BY DEF ShoppersAreLetIn, Shopping, LetIn
<1>2. /\ left[v] \in Int /\ key[v] \in Nat /\ Ttl \in Nat /\ Ttl > 0
      /\ left'[v] \in Int /\ key'[v] \in Nat
  BY DEF RInv, TypeOK, RoomAssumption
<1> SUFFICES /\ v \in shoppers' /\ left'[v] > 0 => key'[v] > 0 /\ key'[v] >= left'[v]
             /\ key'[v] > 0 =>
                  key'[v] <= 1 + (IF v \in shoppers' /\ left'[v] > 0 THEN left'[v] ELSE 0)
  BY DEF Shopping, LetIn
<1>3. CASE UNCHANGED floor
  BY <1>1, <1>3 DEF floor
<1>4. CASE GcShoppers
  <2>1. /\ v \in shoppers' <=> v \in shoppers /\ left[v] > 0
        /\ left'[v] = IF v \in shoppers' THEN left[v] ELSE 0
        /\ key' = key
    BY <1>4 DEF GcShoppers
  <2> QED
    BY <1>1, <1>2, <2>1
<1>5. CASE Second
  <2>1. /\ shoppers' = shoppers
        /\ left'[v] = IF v \in shoppers /\ left[v] > -2 THEN left[v] - 1 ELSE left[v]
        /\ key'[v] = IF key[v] > 0 THEN key[v] - 1 ELSE 0
    BY <1>5 DEF Second
  <2> QED
    BY <1>1, <1>2, <2>1
<1>6. ASSUME NEW p \in Procs, PutShopper(p)
      PROVE  /\ v \in shoppers' /\ left'[v] > 0 => key'[v] > 0 /\ key'[v] >= left'[v]
             /\ key'[v] > 0 =>
                  key'[v] <= 1 + (IF v \in shoppers' /\ left'[v] > 0 THEN left'[v] ELSE 0)
  <2> DEFINE h == Head(popped[p])
  <2>1. /\ shoppers' = shoppers \union {h}
        /\ left' = [left EXCEPT ![h] = Ttl - age[p]]
        /\ key' = [key EXCEPT ![h] = Ttl]
    BY <1>6 DEF PutShopper, KeySeconds
  <2>2. age[p] \in {0, 1}
    BY DEF RInv, TypeOK, Ages
  <2> HIDE DEF h
  <2>3. CASE v = h
    <3>1. v \in shoppers' /\ left'[v] = Ttl - age[p] /\ key'[v] = Ttl
      BY <2>1, <2>3 DEF RInv, TypeOK
    <3> QED
      BY <1>2, <2>2, <3>1
  <2>4. CASE v # h
    <3>1. (v \in shoppers' <=> v \in shoppers) /\ left'[v] = left[v] /\ key'[v] = key[v]
      BY <2>1, <2>4 DEF RInv, TypeOK
    <3> QED
      BY <1>1, <3>1
  <2> QED
    BY <2>3, <2>4
<1> QED
  BY <1>3, <1>4, <1>5, <1>6, WhoChangesTheFloor

(* Whoever takes up a place of the bulkhead is let in by require_admission  *)
(* for as long as he takes it up, and nobody for longer after that than a   *)
(* tick takes: the keys of put_shopper against the score of put_shopper,    *)
(* for every TTL and whatever runs in between.                              *)
THEOREM ShoppersHaveTheirKey == Spec => []ShoppersAreLetIn
<1>1. RoomAssumption
  BY RoomAssumption
<1>2. Init => ShoppersAreLetIn
  BY DEF Init, ShoppersAreLetIn, Shopping, LetIn
<1>3. RInv /\ RInv' /\ ShoppersAreLetIn /\ [Next]_vars => ShoppersAreLetIn'
  BY <1>1, LetInStep
<1> QED
  BY <1>2, <1>3, Invariance, PTL DEF Spec

-----------------------------------------------------------------------------
(* The line is fair                                                         *)

LEMMA QueueIsKept ==
  ASSUME RoomAssumption, RInv, [Next]_vars
  PROVE  \/ \A v \in Queued : queue'[v] = queue[v]
         \/ \E p \in Procs : PopFront(p)
<1>1. ASSUME NEW t \in Requests, Join(t)
      PROVE  \A v \in Queued : queue'[v] = queue[v]
  <2>1. UNCHANGED queue \/ Enqueue(t)
    BY <1>1 DEF Join, StatusAgain, GetKey, GetScore, Rank, NextScore, room
  <2>2. CASE Enqueue(t)
    BY <2>2 DEF Enqueue, ScoreToKeep, Queued, RInv, TypeOK
  <2> QED
    BY <2>1, <2>2
<1>2. ASSUME NEW p \in Procs, AdmitTick(p)
      PROVE  UNCHANGED queue \/ PopFront(p)
  BY <1>2 DEF AdmitTick, StartTick, CountShoppers, IncrRate, GiveBackRate, QueueSize, PutShopper, room
<1>3. ASSUME NEW t \in Requests, NEW v \in Visitors, StartJoin(t, v)
      PROVE  UNCHANGED queue
  BY <1>3 DEF StartJoin, room
<1>4. ASSUME NEW p \in Procs, FailCall(p)
      PROVE  UNCHANGED queue
  BY <1>4 DEF FailCall, room
<1>5. Collect \/ Second \/ FloodScores \/ UNCHANGED vars => UNCHANGED queue
  BY DEF Collect, Second, FloodScores, vars, room
<1>6. ASSUME FloodLine
      PROVE  \A v \in Queued : queue'[v] = queue[v]
  BY <1>6, FloodBatchScores DEF Queued
<1> QED
  BY <1>1, <1>2, <1>3, <1>4, <1>5, <1>6 DEF Next, CallStep

LEMMA FairStep ==
  ASSUME RoomAssumption, RInv, [Next]_vars
  PROVE  LineStep
<1> SUFFICES ASSUME NEW p \in Procs, PopFront(p),
                    NEW v \in Queued, queue'[v] # queue[v],
                    NEW u \in Queued, queue[u] <= queue[v]
             PROVE  queue'[u] = 0
  BY QueueIsKept DEF LineStep
<1> DEFINE front == FirstInLine(slots[p])
<1>1. queue' = [w \in Visitors |-> IF w \in ToSet(front) THEN 0 ELSE queue[w]]
  BY DEF PopFront, RInv, TypeOK
<1>2. slots[p] \in Nat
  BY DEF RInv, TypeOK, RoomAssumption
<1>3. ToSet(front) = {w \in Queued : Place(w) <= slots[p]}
  BY <1>2, FrontOfLine DEF RInv
<1> HIDE DEF front
<1>4. u \in Visitors /\ v \in Visitors
  BY DEF Queued
<1>5. Place(v) <= slots[p]
  BY <1>1, <1>3, <1>4
<1>6. Place(u) <= Place(v) /\ Place(u) \in Nat /\ Place(v) \in Nat
  BY PlaceInLine DEF RInv
<1>7. u \in ToSet(front)
  BY <1>2, <1>3, <1>5, <1>6
<1> QED
  BY <1>1, <1>4, <1>7

(* A place in the line is kept until its visitor is popped, and then nobody *)
(* before him is left behind: enqueue, the flood and pop_front.             *)
THEOREM LineKeepsItsOrder == Spec => LineIsFair
<1>1. RoomAssumption
  BY RoomAssumption
<1>2. RInv /\ [Next]_vars => [LineStep]_vars
  BY <1>1, FairStep
<1> QED
  BY <1>2, Invariance, PTL DEF Spec, LineIsFair
=============================================================================
