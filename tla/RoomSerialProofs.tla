-------------------------- MODULE RoomSerialProofs --------------------------
(***************************************************************************)
(* Proofs that the calls of WaitingRoom, as long as they do not overlap    *)
(* and none fails, implement RoomLedger, for any visitors, requests,       *)
(* workers, limits and flood.  room_rejoin, room_rate and room_bulkhead    *)
(* show what overlapping calls break.                                      *)
(***************************************************************************)
EXTENDS RoomProofs

-----------------------------------------------------------------------------
(* The inductive invariant of calls that do not overlap                     *)

OneCall ==
  /\ \A p, q \in Procs : pc[p] # "idle" /\ pc[q] # "idle" => p = q
  /\ Flooding => \A p \in Procs : pc[p] = "idle"

(* A join that is on its way into the line has seen its visitor neither     *)
(* there nor among the shoppers, and has drawn the last score.              *)
JoinInv ==
  \A t \in Requests :
    /\ pc[t] # "idle" => visitor[t] \notin ToSet(Fans)
    /\ pc[t] \in {"rank", "seq", "enqueue"} => visitor[t] \notin Shopping
    /\ pc[t] \in {"seq", "enqueue"} => queue[visitor[t]] = 0
    /\ pc[t] = "enqueue" => score[t] = seq /\ \A v \in Visitors : queue[v] < seq

(* The fans that are still to come, and the scores that are theirs.         *)
FloodInv ==
  /\ \A i \in flooded + 1..Len(Fans) :
       /\ queue[Fans[i]] = 0 /\ Fans[i] \notin shoppers
       /\ \A p \in Procs : Fans[i] \notin ToSet(popped[p])
  /\ Flooding => /\ seqEnd = seq
                 /\ \A v \in Visitors : queue[v] <= FloodScore(flooded)

(* A visitor is in line, in the hands of a tick or shopping: one of them.   *)
HandInv ==
  /\ \A p \in Procs :
       /\ pc[p] # "put" => popped[p] = <<>>
       /\ \A i, j \in 1..Len(popped[p]) : popped[p][i] = popped[p][j] => i = j
       /\ \A i \in 1..Len(popped[p]) :
            queue[popped[p][i]] = 0 /\ popped[p][i] \notin Shopping
  /\ \A v \in Shopping : queue[v] = 0

(* The counter is what it has granted, but for what a tick gives back.      *)
RateInv ==
  /\ \A a \in Ages :
       /\ granted[a] <= PerSecond
       /\ (\A p \in Procs : pc[p] = "refund" => age[p] # a) => rate[a] = granted[a]
  /\ \A p \in Procs : pc[p] = "refund" =>
       /\ granted[age[p]] = PerSecond
       /\ rate[age[p]] - overflow[p] = PerSecond

SlotInv ==
  \A p \in Procs : pc[p] = "rate" => slots[p] > 0 /\ Cardinality(Shopping) + slots[p] <= Bulkhead

LInv == OneCall /\ JoinInv /\ FloodInv /\ HandInv /\ RateInv /\ SlotInv


-----------------------------------------------------------------------------
(* Line is the one sequence of the queued visitors that rises in score      *)

Ordered(s) == \A i, j \in 1..Len(s) : i < j => queue[s[i]] < queue[s[j]]

LineFacts ==
  /\ Line \in Seq(Visitors) /\ ToSet(Line) = Queued /\ Ordered(Line)
  /\ \A s \in Seq(Visitors) : ToSet(s) = Queued /\ Ordered(s) => s = Line

LEMMA LineRises ==
  ASSUME RoomAssumption, TypeOK
  PROVE  /\ Line \in Seq(Visitors) /\ ToSet(Line) = Queued /\ Ordered(Line)
         /\ Len(Line) = Cardinality(Queued)
<1> DEFINE N == Cardinality(Queued)
<1>1. N \in Nat
  BY LineIsFinite
<1>2. /\ Line \in [1..N -> Queued]
      /\ \A i \in 1..N : Place(Line[i]) = i
      /\ \A v \in Queued : Line[Place(v)] = v
  BY EveryPlaceIsTaken
<1>3. Queued \subseteq Visitors
  BY DEF Queued
<1> HIDE DEF N
<1>4. Line \in Seq(Visitors)
  <2>1. Line \in [1..N -> Visitors]
    BY <1>2, <1>3
  <2> QED
    BY <1>1, <2>1, SeqDef
<1>5. Len(Line) = N /\ DOMAIN Line = 1..N
  <2>1. DOMAIN Line = 1..N /\ DOMAIN Line = 1..Len(Line) /\ Len(Line) \in Nat
    BY <1>2, <1>4, LenProperties
  <2> QED
    BY <1>1, <2>1
<1>6. \A v \in Queued : Place(v) \in 1..N
  BY PlaceInLine DEF N
<1>7. ToSet(Line) = Queued
  BY <1>2, <1>5, <1>6 DEF ToSet
<1>8. ASSUME NEW i \in 1..N, NEW j \in 1..N, i < j
      PROVE  queue[Line[i]] < queue[Line[j]]
  <2>1. Line[i] \in Queued /\ Line[j] \in Queued
    BY <1>2
  <2>2. queue[Line[j]] <= queue[Line[i]] <=> Place(Line[j]) <= Place(Line[i])
    BY <2>1, PlaceInLine
  <2>3. Place(Line[i]) = i /\ Place(Line[j]) = j
    BY <1>2
  <2>4. queue[Line[i]] \in Nat /\ queue[Line[j]] \in Nat
    BY <2>1 DEF TypeOK, Queued, RoomAssumption
  <2> QED
    BY <1>8, <2>2, <2>3, <2>4
<1> QED
  BY <1>4, <1>5, <1>7, <1>8 DEF Ordered, N

(* ZPOPMIN's answer, index by index: nobody is in it twice.                 *)
LEMMA FrontIsAPrefix ==
  ASSUME RoomAssumption, TypeOK, NEW n \in Nat, NEW s, s = FirstInLine(n)
  PROVE  /\ s \in Seq(Visitors) /\ Len(s) = Least(n, Len(Line))
         /\ \A i \in 1..Len(s) : s[i] = Line[i] /\ s[i] \in Queued
         /\ \A i, j \in 1..Len(s) : s[i] = s[j] => i = j
<1> DEFINE m == Least(n, Len(Line))
<1>1. Line \in Seq(Visitors) /\ Ordered(Line) /\ Len(Line) = Cardinality(Queued)
  BY LineRises
<1>2. Len(Line) \in Nat /\ \A i \in 1..Len(Line) : Line[i] \in Queued
  <2>1. Len(Line) \in Nat /\ DOMAIN Line = 1..Len(Line)
    BY <1>1, LenProperties
  <2> QED
    BY <2>1, LineRises DEF ToSet
<1>3. m \in Nat /\ m <= Len(Line)
  BY <1>2 DEF Least
<1>4. s = SubSeq(Line, 1, m)
  BY <1>1 DEF FirstInLine
<1> HIDE DEF m
<1>5. \A i \in 1..m : Line[i] \in Visitors
  BY <1>2, <1>3 DEF Queued
<1>6. /\ s \in Seq(Visitors)
      /\ Len(s) = IF 1 <= m THEN m - 1 + 1 ELSE 0
      /\ \A i \in 1..m - 1 + 1 : s[i] = Line[1 + i - 1]
  BY <1>3, <1>4, <1>5, SubSeqProperties
<1>7. Len(s) = m /\ \A i \in 1..m : s[i] = Line[i]
  BY <1>3, <1>6
<1>8. \A i \in 1..m : i \in 1..Len(Line)
  BY <1>2, <1>3
<1>9. ASSUME NEW i \in 1..m, NEW j \in 1..m, Line[i] = Line[j]
      PROVE  i = j
  <2>1. i < j => queue[Line[i]] < queue[Line[j]]
    BY <1>1, <1>8 DEF Ordered
  <2>2. j < i => queue[Line[j]] < queue[Line[i]]
    BY <1>1, <1>8 DEF Ordered
  <2>3. queue[Line[i]] \in Nat
    BY <1>2, <1>8 DEF TypeOK, Queued, RoomAssumption
  <2> QED
    BY <1>3, <1>9, <2>1, <2>2, <2>3
<1> QED
  BY <1>2, <1>6, <1>7, <1>8, <1>9 DEF m

(* In a sequence that rises in score, a visitor's index is his place.       *)
LEMMA IndexIsPlace ==
  ASSUME RoomAssumption, TypeOK,
         NEW s \in Seq(Visitors), ToSet(s) = Queued, Ordered(s), NEW k \in 1..Len(s)
  PROVE  Place(s[k]) = k
<1> DEFINE Upto == {u \in Queued : queue[u] <= queue[s[k]]}
           f == [i \in 1..k |-> s[i]]
<1>1. Len(s) \in Nat /\ DOMAIN s = 1..Len(s)
  BY LenProperties
<1>2. \A i \in 1..Len(s) : s[i] \in Queued /\ queue[s[i]] \in Nat
  <2>1. \A i \in 1..Len(s) : s[i] \in Queued
    BY <1>1 DEF ToSet
  <2>2. \A v \in Queued : queue[v] \in Nat
    BY DEF TypeOK, Queued, RoomAssumption
  <2> QED
    BY <2>1, <2>2
<1>3. \A i, j \in 1..Len(s) : s[i] = s[j] => i = j
  <2> SUFFICES ASSUME NEW i \in 1..Len(s), NEW j \in 1..Len(s), s[i] = s[j], i # j
               PROVE  FALSE
    OBVIOUS
  <2>1. queue[s[i]] < queue[s[j]] \/ queue[s[j]] < queue[s[i]]
    BY <1>1 DEF Ordered
  <2> QED
    BY <1>2, <2>1
<1>4. k \in Nat /\ \A i \in 1..k : i \in 1..Len(s)
  BY <1>1
<1>5. ASSUME NEW i \in 1..Len(s)
      PROVE  queue[s[i]] <= queue[s[k]] <=> i <= k
  <2>1. CASE i = k
    BY <1>2, <2>1
  <2>2. CASE i < k
    <3>1. queue[s[i]] < queue[s[k]]
      BY <2>2 DEF Ordered
    <3> QED
      BY <1>2, <2>2, <3>1
  <2>3. CASE k < i
    <3>1. queue[s[k]] < queue[s[i]]
      BY <2>3 DEF Ordered
    <3> QED
      BY <1>2, <2>3, <3>1
  <2> QED
    BY <1>1, <2>1, <2>2, <2>3
<1>6. \A i \in 1..k : s[i] \in Upto
  BY <1>2, <1>4, <1>5
<1>7. \A u \in Upto : \E i \in 1..k : s[i] = u
  <2> SUFFICES ASSUME NEW u \in Upto
               PROVE  \E i \in 1..k : s[i] = u
    OBVIOUS
  <2>1. PICK i \in 1..Len(s) : s[i] = u
    BY <1>1 DEF ToSet
  <2>2. i <= k
    BY <1>5, <2>1
  <2> QED
    BY <1>4, <2>1, <2>2
<1> HIDE DEF Upto
<1>8. f \in Bijection(1..k, Upto)
  BY <1>3, <1>4, <1>6, <1>7 DEF Bijection, Injection, Surjection, IsInjective
<1>9. ExistsBijection(1..k, Upto)
  BY <1>8 DEF ExistsBijection
<1>10. IsFiniteSet(1..k) /\ Cardinality(1..k) = k
  BY <1>4, FS_Interval
<1> QED
  BY <1>9, <1>10, FS_Bijection DEF Place, Upto

LEMMA LineIsTheOrder ==
  ASSUME RoomAssumption, TypeOK
  PROVE  LineFacts
<1> SUFFICES ASSUME NEW s \in Seq(Visitors), ToSet(s) = Queued, Ordered(s)
             PROVE  s = Line
  BY LineRises DEF LineFacts
<1>1. /\ Line \in Seq(Visitors) /\ ToSet(Line) = Queued /\ Ordered(Line)
      /\ \A v \in Queued : Line[Place(v)] = v
      /\ Line \in [1..Cardinality(Queued) -> Queued]
  BY LineRises, EveryPlaceIsTaken
<1>2. /\ Len(s) \in Nat /\ DOMAIN s = 1..Len(s)
      /\ Len(Line) \in Nat /\ DOMAIN Line = 1..Len(Line)
  BY <1>1, LenProperties
<1>3. \A k \in 1..Len(s) : Place(s[k]) = k /\ s[k] \in Queued
  BY <1>2, IndexIsPlace DEF ToSet
<1>4. \A k \in 1..Len(Line) : Place(Line[k]) = k /\ Line[k] \in Queued
  BY <1>1, <1>2, IndexIsPlace DEF ToSet
<1>5. \A k \in 1..Len(s) : k \in 1..Len(Line)
  <2> SUFFICES ASSUME NEW k \in 1..Len(s)
               PROVE  k \in 1..Len(Line)
    OBVIOUS
  <2>1. PICK i \in 1..Len(Line) : Line[i] = s[k]
    BY <1>1, <1>2, <1>3 DEF ToSet
  <2> QED
    BY <1>3, <1>4, <2>1
<1>6. \A k \in 1..Len(Line) : k \in 1..Len(s)
  <2> SUFFICES ASSUME NEW k \in 1..Len(Line)
               PROVE  k \in 1..Len(s)
    OBVIOUS
  <2>1. PICK i \in 1..Len(s) : s[i] = Line[k]
    BY <1>2, <1>4 DEF ToSet
  <2> QED
    BY <1>3, <1>4, <2>1
<1>7. Len(s) = Len(Line)
  <2>1. Len(s) > 0 => Len(s) <= Len(Line)
    BY <1>2, <1>5
  <2>2. Len(Line) > 0 => Len(Line) <= Len(s)
    BY <1>2, <1>6
  <2> DEFINE a == Len(s)
             b == Len(Line)
  <2>3. /\ a \in Nat /\ b \in Nat
        /\ (a > 0 => a <= b) /\ (b > 0 => b <= a)
    BY <1>2, <2>1, <2>2
  <2> HIDE DEF a, b
  <2>4. a = b
    BY <2>3
  <2> QED
    BY <2>4 DEF a, b
<1>8. \A k \in 1..Len(s) : s[k] = Line[k]
  BY <1>1, <1>3
<1> QED
  BY <1>1, <1>7, <1>8, SeqEqual


-----------------------------------------------------------------------------
(* What the steps have in common                                            *)

States == Ticking \union {"idle", "key", "zscore", "rank", "seq", "enqueue", "tick", "status"}

(* Between one store command and the next of the call that is going on,     *)
(* everybody else is idle.                                                  *)
LEMMA TheOneCall ==
  ASSUME RoomAssumption, Serial, RInv, OneCall, UNCHANGED flood,
         NEW p \in Procs, pc[p] # "idle" \/ Alone, NEW s \in States, Goto(p, s)
  PROVE  /\ OneCall' /\ ~Flooding /\ ~Flooding'
         /\ \A q \in Procs : pc'[q] = IF q = p THEN s ELSE pc[q]
         /\ \A q \in Procs : q # p => pc[q] = "idle" /\ pc'[q] = "idle"
<1>1. \A q \in Procs : pc'[q] = IF q = p THEN s ELSE pc[q]
  BY DEF RInv, TypeOK, Goto
<1>2. ~Flooding /\ \A q \in Procs : q # p => pc[q] = "idle"
  BY DEF OneCall, Alone
<1>3. ~Flooding'
  BY <1>2 DEF Flooding, flood
<1> QED
  BY <1>1, <1>2, <1>3 DEF OneCall

LEMMA ShoppingShrinks ==
  ASSUME RoomAssumption, RInv, UNCHANGED floor \/ GcShoppers \/ Second
  PROVE  /\ shoppers' \subseteq shoppers
         /\ Shopping' \subseteq Shopping
         /\ IsFiniteSet(Shopping) /\ IsFiniteSet(Shopping')
         /\ Cardinality(Shopping') <= Cardinality(Shopping)
         /\ Cardinality(Shopping) \in Nat /\ Cardinality(Shopping') \in Nat
<1>1. IsFiniteSet(Shopping)
  BY FS_Subset DEF RInv, Shopping
<1>2. shoppers' \subseteq shoppers /\ Shopping' \subseteq Shopping
  <2>1. CASE UNCHANGED floor
    BY <2>1 DEF floor, Shopping
  <2>2. CASE GcShoppers
    BY <2>2 DEF GcShoppers, Shopping, RInv, TypeOK
  <2>3. CASE Second
    <3>1. shoppers' = shoppers /\ \A v \in shoppers : left'[v] > 0 => left[v] > 0
      BY <2>3 DEF Second, RInv, TypeOK
    <3> QED
      BY <3>1 DEF Shopping
  <2> QED
    BY <2>1, <2>2, <2>3
<1> HIDE DEF Shopping
<1>3. IsFiniteSet(Shopping') /\ Cardinality(Shopping') <= Cardinality(Shopping)
  BY <1>1, <1>2, FS_Subset
<1> QED
  BY <1>1, <1>2, <1>3, FS_CardinalityType

(* The steps of a join that leave the line as it is.                        *)
LEMMA JoinFrame ==
  ASSUME RoomAssumption, Serial, RInv, LInv, UNCHANGED <<tick, limiter, flood, queue>>,
         UNCHANGED floor \/ GcShoppers,
         NEW t \in Requests, pc[t] # "idle" \/ Alone, pc[t] \notin Ticking,
         NEW s \in States \ Ticking, Goto(t, s)
  PROVE  OneCall' /\ FloodInv' /\ HandInv' /\ RateInv' /\ SlotInv'
<1>1. t \in Procs /\ s \in States
  BY DEF Procs
<1>2. /\ OneCall' /\ ~Flooding /\ ~Flooding'
      /\ \A q \in Procs : pc'[q] = IF q = t THEN s ELSE pc[q]
      /\ \A q \in Procs : q # t => pc[q] = "idle" /\ pc'[q] = "idle"
  BY <1>1, TheOneCall DEF LInv
<1>3. \A q \in Procs : pc[q] \notin Ticking /\ pc'[q] \notin Ticking
  BY <1>2 DEF Ticking
<1>4. shoppers' \subseteq shoppers /\ Shopping' \subseteq Shopping
  BY ShoppingShrinks
<1>5. FloodInv'
  BY <1>2, <1>4 DEF LInv, FloodInv, tick, flood
<1>6. \A q \in Procs : popped[q] = <<>> /\ popped'[q] = <<>>
  BY <1>3 DEF LInv, HandInv, tick, Ticking
<1>7. HandInv'
  <2>1. \A v \in Shopping' : queue'[v] = 0
    BY <1>4 DEF LInv, HandInv
  <2>2. Len(<<>>) = 0
    OBVIOUS
  <2> QED
    BY <1>6, <2>1, <2>2 DEF HandInv
<1>8. RateInv'
  BY <1>3 DEF LInv, RateInv, limiter, tick, Ticking
<1>9. SlotInv'
  BY <1>3 DEF SlotInv, Ticking
<1> QED
  BY <1>2, <1>5, <1>7, <1>8, <1>9

(* The steps of a tick.                                                     *)
LEMMA TickFrame ==
  ASSUME RoomAssumption, Serial, RInv, LInv, UNCHANGED <<seq, call, flood>>,
         NEW p \in Procs, pc[p] # "idle" \/ (Alone /\ p \notin Requests),
         NEW s \in Ticking \union {"idle", "status"}, Goto(p, s)
  PROVE  /\ OneCall' /\ ~Flooding /\ ~Flooding' /\ JoinInv'
         /\ \A q \in Procs : pc'[q] = IF q = p THEN s ELSE pc[q]
         /\ \A q \in Procs : q # p => pc[q] = "idle" /\ pc'[q] = "idle"
<1>1. s \in States /\ s \notin {"rank", "seq", "enqueue"}
  BY DEF States, Ticking
<1>2. /\ OneCall' /\ ~Flooding /\ ~Flooding'
      /\ \A q \in Procs : pc'[q] = IF q = p THEN s ELSE pc[q]
      /\ \A q \in Procs : q # p => pc[q] = "idle" /\ pc'[q] = "idle"
  BY <1>1, TheOneCall DEF LInv
<1>3. \A t \in Requests : /\ pc'[t] \notin {"rank", "seq", "enqueue"}
                          /\ pc'[t] # "idle" => pc[t] # "idle"
  BY <1>1, <1>2 DEF Procs
<1>4. JoinInv'
  BY <1>3 DEF LInv, JoinInv, call
<1> QED
  BY <1>2, <1>4


-----------------------------------------------------------------------------
(* Every step keeps the invariant                                           *)

LEMMA SerialStartJoin ==
  ASSUME RoomAssumption, Serial, RInv, LInv, UNCHANGED flood,
         NEW t \in Requests, NEW v \in Visitors, StartJoin(t, v)
  PROVE  LInv'
<1>1. /\ pc[t] = "idle" /\ Alone /\ v \notin ToSet(Fans) /\ GcShoppers
      /\ visitor' = [visitor EXCEPT ![t] = v] /\ Goto(t, "key")
      /\ UNCHANGED <<room, limiter, tick, score, faults>>
  BY DEF StartJoin
<1>2. "key" \in States \ Ticking /\ pc[t] \notin Ticking /\ t \in Procs
  BY <1>1 DEF States, Ticking, Procs
<1>3. OneCall' /\ FloodInv' /\ HandInv' /\ RateInv' /\ SlotInv'
  BY <1>1, <1>2, JoinFrame DEF room
<1>4. \A u \in Requests : IF u = t THEN pc'[u] = "key" /\ visitor'[u] = v ELSE pc'[u] = "idle"
  BY <1>1 DEF Alone, Goto, RInv, TypeOK, Procs
<1>5. JoinInv'
  BY <1>1, <1>4 DEF JoinInv
<1> QED
  BY <1>3, <1>5 DEF LInv

LEMMA SerialLooking ==
  ASSUME RoomAssumption, Serial, RInv, ShoppersAreLetIn, LInv, UNCHANGED flood,
         NEW t \in Requests, StatusAgain(t) \/ GetKey(t) \/ GetScore(t) \/ Rank(t)
  PROVE  LInv'
<1>1. /\ pc[t] \in {"status", "key", "zscore", "rank"}
      /\ UNCHANGED <<room, limiter, tick, faults>>
      /\ UNCHANGED floor \/ GcShoppers
  BY DEF StatusAgain, GetKey, GetScore, Rank
<1>2. PICK s \in {"key", "zscore", "rank", "seq", "idle"} :
         /\ Goto(t, s)
         /\ s # "idle" => UNCHANGED call
         /\ s = "rank" => visitor[t] \notin Shopping
         /\ s = "seq" => pc[t] = "rank" /\ queue[visitor[t]] = 0
  <2>1. CASE StatusAgain(t)
    BY <2>1 DEF StatusAgain
  <2>2. CASE GetKey(t)
    <3>1. visitor[t] \in Visitors
      BY <2>2 DEF GetKey, RInv, TypeOK, CallInv
    <3>2. visitor[t] \in Shopping => key[visitor[t]] > 0
      BY <3>1 DEF ShoppersAreLetIn, LetIn
    <3> QED
      BY <2>2, <3>2 DEF GetKey
  <2>3. CASE GetScore(t)
    BY <2>3 DEF GetScore, StillShopping, Shopping, CloseCall
  <2>4. CASE Rank(t)
    BY <2>4 DEF Rank, CloseCall
  <2> QED
    BY <2>1, <2>2, <2>3, <2>4
<1>3. /\ s \in States \ Ticking /\ s \in States /\ pc[t] \notin Ticking
      /\ pc[t] # "idle" /\ t \in Procs /\ s # "enqueue"
  BY <1>1 DEF States, Ticking, Procs
<1>4. OneCall' /\ FloodInv' /\ HandInv' /\ RateInv' /\ SlotInv'
  BY <1>1, <1>2, <1>3, JoinFrame DEF room
<1>5. \A u \in Requests : pc'[u] = IF u = t THEN s ELSE "idle"
  BY <1>2, <1>3, TheOneCall DEF LInv, Procs
<1>6. Shopping' \subseteq Shopping /\ queue' = queue
  BY <1>1, ShoppingShrinks DEF room
<1>7. /\ s # "idle" => visitor'[t] = visitor[t] /\ visitor[t] \notin ToSet(Fans)
      /\ s = "seq" => visitor[t] \notin Shopping
  BY <1>2, <1>3 DEF LInv, JoinInv, call
<1>8. JoinInv'
  BY <1>2, <1>3, <1>5, <1>6, <1>7 DEF JoinInv
<1> QED
  BY <1>4, <1>8 DEF LInv

LEMMA SerialNextScore ==
  ASSUME RoomAssumption, Serial, RInv, LInv, UNCHANGED flood,
         NEW t \in Requests, NextScore(t)
  PROVE  LInv'
<1>1. /\ pc[t] = "seq" /\ Goto(t, "enqueue")
      /\ seq' = seq + 1 /\ score' = [score EXCEPT ![t] = seq + 1]
      /\ UNCHANGED <<queue, floor, limiter, tick, visitor, faults>>
  BY DEF NextScore
<1>2. "enqueue" \in States \ Ticking /\ "enqueue" \in States /\ pc[t] \notin Ticking
      /\ pc[t] # "idle" /\ t \in Procs
  BY <1>1 DEF States, Ticking, Procs
<1>3. OneCall' /\ FloodInv' /\ HandInv' /\ RateInv' /\ SlotInv'
  BY <1>1, <1>2, JoinFrame
<1>4. \A u \in Requests : pc'[u] = IF u = t THEN "enqueue" ELSE "idle"
  BY <1>1, <1>2, TheOneCall DEF LInv, Procs
<1>5. score'[t] = seq' /\ \A v \in Visitors : queue'[v] < seq'
  BY <1>1 DEF RInv, TypeOK, ScoreInv, RoomAssumption
<1>6. /\ visitor' = visitor /\ queue' = queue /\ Shopping' = Shopping
      /\ visitor[t] \notin ToSet(Fans) /\ visitor[t] \notin Shopping /\ queue[visitor[t]] = 0
  BY <1>1 DEF LInv, JoinInv, floor, Shopping
<1>7. JoinInv'
  BY <1>4, <1>5, <1>6 DEF JoinInv
<1> QED
  BY <1>3, <1>7 DEF LInv

(* A visitor who joins is in line, and nowhere else.                        *)
LEMMA SerialEnqueue ==
  ASSUME RoomAssumption, Serial, RInv, LInv, UNCHANGED flood,
         NEW t \in Requests, Enqueue(t)
  PROVE  LInv'
<1> DEFINE v == visitor[t]
<1>1. /\ pc[t] = "enqueue" /\ Goto(t, "tick")
      /\ queue' = [queue EXCEPT ![v] = ScoreToKeep(v, score[t])]
      /\ UNCHANGED <<seq, floor, limiter, tick, call, faults>>
  BY DEF Enqueue
<1>2. "tick" \in States /\ pc[t] # "idle" /\ t \in Procs
  BY <1>1 DEF States, Procs
<1>3. /\ OneCall' /\ ~Flooding /\ ~Flooding'
      /\ \A q \in Procs : pc'[q] = IF q = t THEN "tick" ELSE pc[q]
      /\ \A q \in Procs : q # t => pc[q] = "idle" /\ pc'[q] = "idle"
  BY <1>1, <1>2, TheOneCall DEF LInv
<1>4. \A q \in Procs : pc[q] \notin Ticking /\ pc'[q] \notin Ticking
  BY <1>1, <1>3 DEF Ticking
<1>5. v \in Visitors /\ v \notin ToSet(Fans) /\ v \notin Shopping
  BY <1>1 DEF RInv, TypeOK, CallInv, LInv, JoinInv
<1> HIDE DEF v
<1>6. \A u \in Visitors : u # v => queue'[u] = queue[u]
  BY <1>1 DEF RInv, TypeOK
<1>7. shoppers' = shoppers /\ Shopping' = Shopping
  BY <1>1 DEF floor, Shopping
<1>8. FloodInv'
  <2>1. \A i \in flooded + 1..Len(Fans) : Fans[i] \in Visitors /\ Fans[i] # v
    <3>1. \A i \in flooded + 1..Len(Fans) : i \in DOMAIN Fans /\ Fans[i] \in Visitors
      BY FansAreFinite DEF RInv, TypeOK
    <3> QED
      BY <1>5, <3>1 DEF ToSet
  <2> QED
    BY <1>1, <1>3, <1>6, <1>7, <2>1 DEF LInv, FloodInv, tick, flood
<1>9. \A q \in Procs : popped'[q] = <<>>
  BY <1>1, <1>4 DEF LInv, HandInv, tick, Ticking
<1>10. HandInv'
  <2>1. \A u \in Shopping' : queue'[u] = 0
    BY <1>5, <1>6, <1>7 DEF LInv, HandInv, Shopping, RInv, TypeOK
  <2>2. Len(<<>>) = 0
    OBVIOUS
  <2> QED
    BY <1>9, <2>1, <2>2 DEF HandInv
<1>11. RateInv'
  BY <1>1, <1>4 DEF LInv, RateInv, limiter, tick, Ticking
<1>12. SlotInv'
  BY <1>4 DEF SlotInv, Ticking
<1>13. JoinInv'
  <2>1. \A u \in Requests : pc'[u] \notin {"rank", "seq", "enqueue"} /\ (pc'[u] # "idle" => u = t)
    BY <1>3 DEF Procs
  <2> QED
    BY <1>1, <1>5, <2>1 DEF JoinInv, call, v
<1> QED
  BY <1>3, <1>8, <1>10, <1>11, <1>12, <1>13 DEF LInv


(* The steps of a tick that has nobody in its hands.                        *)
LEMMA EmptyHands ==
  ASSUME RoomAssumption, Serial, RInv, LInv,
         UNCHANGED <<queue, popped, flood>>, ~Flooding, ~Flooding', UNCHANGED floor \/ GcShoppers,
         NEW p \in Procs, pc[p] # "put", \A q \in Procs : q # p => pc[q] = "idle"
  PROVE  FloodInv' /\ HandInv' /\ (\A q \in Procs : popped[q] = <<>>)
<1>1. shoppers' \subseteq shoppers /\ Shopping' \subseteq Shopping
  BY ShoppingShrinks
<1>2. \A q \in Procs : popped[q] = <<>> /\ popped'[q] = <<>>
  <2>1. \A q \in Procs : pc[q] # "put"
    OBVIOUS
  <2> QED
    BY <2>1 DEF LInv, HandInv
<1>3. FloodInv'
  BY <1>1 DEF LInv, FloodInv, flood
<1>4. HandInv'
  <2>1. \A v \in Shopping' : queue'[v] = 0
    BY <1>1 DEF LInv, HandInv
  <2>2. Len(<<>>) = 0
    OBVIOUS
  <2> QED
    BY <1>2, <2>1, <2>2 DEF HandInv
<1> QED
  BY <1>2, <1>3, <1>4

LEMMA SerialStartTick ==
  ASSUME RoomAssumption, Serial, RInv, LInv, UNCHANGED flood, NEW p \in Procs, StartTick(p)
  PROVE  LInv'
<1>1. /\ pc[p] # "idle" \/ (Alone /\ p \notin Requests)
      /\ pc[p] \in {"tick", "idle"} /\ Goto(p, "count")
      /\ UNCHANGED <<seq, call, flood, queue, popped, limiter, overflow>>
      /\ GcShoppers /\ "count" \in Ticking
  BY DEF StartTick, Ticking, room, RoomAssumption
<1>2. /\ OneCall' /\ ~Flooding /\ ~Flooding' /\ JoinInv'
      /\ \A q \in Procs : pc'[q] = IF q = p THEN "count" ELSE pc[q]
      /\ \A q \in Procs : q # p => pc[q] = "idle" /\ pc'[q] = "idle"
  BY <1>1, TickFrame
<1>3. FloodInv' /\ HandInv'
  BY <1>1, <1>2, EmptyHands
<1>4. \A q \in Procs : pc[q] # "refund" /\ pc'[q] # "refund" /\ pc'[q] # "rate"
  BY <1>1, <1>2
<1>5. RateInv' /\ SlotInv'
  BY <1>1, <1>4 DEF LInv, RateInv, SlotInv, limiter
<1> QED
  BY <1>2, <1>3, <1>5 DEF LInv

(* What a tick may admit has room among the shoppers, and keeps it.         *)
LEMMA SerialCount ==
  ASSUME RoomAssumption, Serial, RInv, LInv, UNCHANGED flood, NEW p \in Procs, CountShoppers(p)
  PROVE  LInv'
<1> DEFINE s == IF slots'[p] > 0 THEN "rate" ELSE AfterTick(p)
           C == {v \in shoppers : left[v] + age[p] >= 0}
<1>1. /\ pc[p] = "count" /\ Goto(p, s)
      /\ s \in Ticking \union {"idle", "status"}
      /\ slots' = [slots EXCEPT ![p] = BulkheadSlots(Cardinality(C))]
      /\ UNCHANGED <<seq, call, flood, queue, popped, floor, limiter, age, overflow>>
  BY WhereNext DEF CountShoppers, ShopperCount, Ticking, room
<1>2. s # "refund" /\ (s = "rate" => slots'[p] > 0)
  BY WhereNext
<1> HIDE DEF s, C
<1>3. /\ OneCall' /\ ~Flooding /\ ~Flooding' /\ JoinInv'
      /\ \A q \in Procs : pc'[q] = IF q = p THEN s ELSE pc[q]
      /\ \A q \in Procs : q # p => pc[q] = "idle" /\ pc'[q] = "idle"
  BY <1>1, TickFrame
<1>4. FloodInv' /\ HandInv'
  BY <1>1, <1>3, EmptyHands
<1>5. RateInv'
  <2>1. \A q \in Procs : pc[q] # "refund" /\ pc'[q] # "refund"
    BY <1>1, <1>2, <1>3
  <2> QED
    BY <1>1, <2>1 DEF LInv, RateInv, limiter
<1>6. SlotInv'
  <2>1. Shopping \subseteq C /\ C \in SUBSET shoppers
    <3>1. \A v \in Shopping : v \in shoppers /\ left[v] > 0 /\ left[v] \in Int
      BY DEF Shopping, RInv, TypeOK
    <3>2. age[p] \in {0, 1}
      BY DEF RInv, TypeOK, Ages
    <3> QED
      BY <3>1, <3>2 DEF C
  <2>2. IsFiniteSet(C) /\ Cardinality(C) \in Nat
    BY <2>1, FS_Subset, FS_CardinalityType DEF RInv
  <2>3. Cardinality(Shopping) <= Cardinality(C) /\ Cardinality(Shopping) \in Nat
    BY <2>1, <2>2, FS_Subset, FS_CardinalityType
  <2>4. slots'[p] = BulkheadSlots(Cardinality(C)) /\ Shopping' = Shopping
    BY <1>1 DEF RInv, TypeOK, floor, Shopping
  <2>5. slots'[p] > 0 => Cardinality(Shopping') + slots'[p] <= Bulkhead
    BY <2>2, <2>3, <2>4 DEF BulkheadSlots, RoomAssumption
  <2>6. \A q \in Procs : pc'[q] = "rate" => q = p /\ s = "rate"
    BY <1>3
  <2> QED
    BY <1>2, <2>5, <2>6 DEF SlotInv
<1> QED
  BY <1>3, <1>4, <1>5, <1>6 DEF LInv

(* A tick's second never grants more than its limit.                        *)
LEMMA SerialIncrRate ==
  ASSUME RoomAssumption, Serial, RInv, LInv, UNCHANGED flood, NEW p \in Procs, IncrRate(p)
  PROVE  LInv'
<1> DEFINE a == age[p]
           current == rate[a] + slots[p]
           grant == GrantOf(slots[p], current)
           s == IF current <= PerSecond THEN "size" ELSE "refund"
<1>1. /\ pc[p] = "rate" /\ Goto(p, s)
      /\ s \in Ticking \union {"idle", "status"}
      /\ rate' = [rate EXCEPT ![a] = current]
      /\ granted' = [granted EXCEPT ![a] = @ + grant]
      /\ ~(current <= PerSecond) => overflow' = [overflow EXCEPT ![p] = current - PerSecond]
      /\ UNCHANGED <<seq, call, flood, queue, popped, floor, age>>
  BY DEF IncrRate, Ticking, room
<1>2. /\ a \in Ages /\ slots[p] \in Nat /\ rate[a] \in Int /\ granted[a] \in Nat
      /\ rate \in [Ages -> Int] /\ granted \in [Ages -> Nat] /\ overflow \in [Procs -> Nat]
      /\ PerSecond \in Nat /\ current \in Int
  BY DEF RInv, TypeOK, RoomAssumption
<1>3. /\ OneCall' /\ ~Flooding /\ ~Flooding' /\ JoinInv'
      /\ \A q \in Procs : pc'[q] = IF q = p THEN s ELSE pc[q]
      /\ \A q \in Procs : q # p => pc[q] = "idle" /\ pc'[q] = "idle"
  BY <1>1, TickFrame
<1>4. FloodInv' /\ HandInv'
  BY <1>1, <1>3, EmptyHands
<1>5. \A q \in Procs : pc[q] # "refund" /\ (pc'[q] = "refund" => q = p /\ s = "refund")
                       /\ pc'[q] # "rate"
  BY <1>1, <1>3
<1>6. \A b \in Ages : rate[b] = granted[b] /\ granted[b] <= PerSecond
  BY <1>5 DEF LInv, RateInv
<1>7. slots[p] > 0
  BY <1>1 DEF LInv, SlotInv
<1>8. /\ current <= PerSecond => granted[a] + grant = current
      /\ ~(current <= PerSecond) => granted[a] + grant = PerSecond
  BY <1>2, <1>6, <1>7 DEF GrantOf
<1> HIDE DEF s, current, grant, a
<1>9. /\ rate'[a] = current /\ granted'[a] = granted[a] + grant
      /\ \A b \in Ages : b # a => rate'[b] = rate[b] /\ granted'[b] = granted[b]
  BY <1>1, <1>2
<1>10. RateInv'
  <2>1. CASE current <= PerSecond
    <3>1. \A q \in Procs : pc'[q] # "refund"
      BY <1>5, <2>1 DEF s
    <3> QED
      BY <1>6, <1>8, <1>9, <2>1, <3>1 DEF RateInv
  <2>2. CASE ~(current <= PerSecond)
    <3>1. overflow'[p] = current - PerSecond /\ age'[p] = a
      BY <1>1, <1>2, <2>2 DEF a
    <3>2. pc'[p] = "refund"
      BY <1>3, <2>2 DEF s
    <3>3. granted'[a] = PerSecond /\ rate'[a] - overflow'[p] = PerSecond
      BY <1>2, <1>8, <1>9, <2>2, <3>1
    <3>4. ASSUME NEW b \in Ages
          PROVE  /\ granted'[b] <= PerSecond
                 /\ (\A q \in Procs : pc'[q] = "refund" => age'[q] # b) => rate'[b] = granted'[b]
      BY <1>2, <1>6, <1>9, <3>1, <3>2, <3>3
    <3>5. \A q \in Procs : pc'[q] = "refund" => granted'[age'[q]] = PerSecond
                                                /\ rate'[age'[q]] - overflow'[q] = PerSecond
      BY <1>5, <3>1, <3>3
    <3> QED
      BY <3>4, <3>5 DEF RateInv
  <2> QED
    BY <2>1, <2>2
<1>11. SlotInv'
  BY <1>5 DEF SlotInv
<1> QED
  BY <1>3, <1>4, <1>10, <1>11 DEF LInv

LEMMA SerialGiveBack ==
  ASSUME RoomAssumption, Serial, RInv, LInv, UNCHANGED flood, NEW p \in Procs, GiveBackRate(p)
  PROVE  LInv'
<1>1. /\ pc[p] = "refund" /\ Goto(p, "size") /\ "size" \in Ticking
      /\ rate' = [rate EXCEPT ![age[p]] = @ - overflow[p]]
      /\ UNCHANGED <<seq, call, flood, queue, popped, floor, age, granted>>
  BY DEF GiveBackRate, Ticking, room
<1>2. /\ OneCall' /\ ~Flooding /\ ~Flooding' /\ JoinInv'
      /\ \A q \in Procs : pc'[q] = IF q = p THEN "size" ELSE pc[q]
      /\ \A q \in Procs : q # p => pc[q] = "idle" /\ pc'[q] = "idle"
  BY <1>1, TickFrame
<1>3. FloodInv' /\ HandInv'
  BY <1>1, <1>2, EmptyHands
<1>4. \A q \in Procs : (pc[q] = "refund" => q = p) /\ pc'[q] # "refund" /\ pc'[q] # "rate"
  BY <1>1, <1>2
<1>5. rate \in [Ages -> Int] /\ age[p] \in Ages
  BY DEF RInv, TypeOK
<1>6. \A b \in Ages : granted[b] <= PerSecond /\ rate'[b] = granted[b]
  <2>1. rate'[age[p]] = PerSecond /\ granted[age[p]] = PerSecond
    BY <1>1, <1>5 DEF LInv, RateInv
  <2>2. \A b \in Ages : b # age[p] => rate'[b] = rate[b] /\ rate[b] = granted[b]
    BY <1>1, <1>4, <1>5 DEF LInv, RateInv
  <2> QED
    BY <2>1, <2>2 DEF LInv, RateInv
<1>7. RateInv' /\ SlotInv'
  BY <1>1, <1>4, <1>6 DEF RateInv, SlotInv
<1> QED
  BY <1>2, <1>3, <1>7 DEF LInv

LEMMA SerialQueueSize ==
  ASSUME RoomAssumption, Serial, RInv, LInv, UNCHANGED flood, NEW p \in Procs, QueueSize(p)
  PROVE  LInv'
<1> DEFINE s == IF slots'[p] > 0 THEN "pop" ELSE AfterTick(p)
<1>1. /\ pc[p] = "size" /\ Goto(p, s) /\ s \in Ticking \union {"idle", "status"}
      /\ s \notin {"refund", "rate"}
      /\ UNCHANGED <<seq, call, flood, queue, popped, floor, age, limiter, overflow>>
  BY WhereNext DEF QueueSize, Ticking, room
<1> HIDE DEF s
<1>2. /\ OneCall' /\ ~Flooding /\ ~Flooding' /\ JoinInv'
      /\ \A q \in Procs : pc'[q] = IF q = p THEN s ELSE pc[q]
      /\ \A q \in Procs : q # p => pc[q] = "idle" /\ pc'[q] = "idle"
  BY <1>1, TickFrame
<1>3. FloodInv' /\ HandInv'
  BY <1>1, <1>2, EmptyHands
<1>4. \A q \in Procs : pc[q] # "refund" /\ pc'[q] # "refund" /\ pc'[q] # "rate"
  BY <1>1, <1>2
<1>5. RateInv' /\ SlotInv'
  BY <1>1, <1>4 DEF LInv, RateInv, SlotInv, limiter
<1> QED
  BY <1>2, <1>3, <1>5 DEF LInv


(* Whoever is popped was in line, and so was not shopping.                  *)
LEMMA SerialPopFront ==
  ASSUME RoomAssumption, Serial, RInv, LInv, UNCHANGED flood, NEW p \in Procs, PopFront(p)
  PROVE  LInv'
<1> DEFINE front == FirstInLine(slots[p])
           s == IF front = <<>> THEN AfterTick(p) ELSE "put"
<1>1. /\ pc[p] = "pop" /\ popped' = [popped EXCEPT ![p] = front]
      /\ queue' = [v \in Visitors |-> IF v \in ToSet(popped'[p]) THEN 0 ELSE queue[v]]
      /\ Goto(p, IF popped'[p] = <<>> THEN AfterTick(p) ELSE "put")
      /\ UNCHANGED <<seq, floor, limiter, age, overflow, call, faults>>
  BY DEF PopFront
<1>2. popped'[p] = front /\ slots[p] \in Nat
  BY <1>1 DEF RInv, TypeOK, RoomAssumption
<1>3. Goto(p, s) /\ s \in Ticking \union {"idle", "status"}
      /\ s \notin {"refund", "rate"} /\ (s # "put" => front = <<>>)
  BY <1>1, <1>2, WhereNext DEF Ticking
<1>4. /\ front \in Seq(Visitors)
      /\ \A i \in 1..Len(front) : front[i] \in Queued
      /\ \A i, j \in 1..Len(front) : front[i] = front[j] => i = j
  BY <1>2, FrontIsAPrefix DEF RInv
<1>5. ToSet(front) \subseteq Queued /\ \A i \in 1..Len(front) : front[i] \in ToSet(front)
  <2>1. DOMAIN front = 1..Len(front)
    BY <1>4, LenProperties
  <2> HIDE DEF front
  <2> QED
    BY <1>4, <2>1 DEF ToSet
<1> HIDE DEF s, front
<1>6. /\ OneCall' /\ ~Flooding /\ ~Flooding' /\ JoinInv'
      /\ \A q \in Procs : pc'[q] = IF q = p THEN s ELSE pc[q]
      /\ \A q \in Procs : q # p => pc[q] = "idle" /\ pc'[q] = "idle"
  BY <1>1, <1>3, TickFrame
<1>7. \A v \in Visitors : queue'[v] = IF v \in ToSet(front) THEN 0 ELSE queue[v]
  BY <1>1, <1>2
<1>8. \A q \in Procs : q # p => popped'[q] = <<>> /\ popped[q] = <<>>
  BY <1>1, <1>6 DEF LInv, HandInv, RInv, TypeOK
<1>9. FloodInv'
  <2>1. ASSUME NEW i \in flooded + 1..Len(Fans)
        PROVE  /\ queue'[Fans[i]] = 0 /\ Fans[i] \notin shoppers'
               /\ \A q \in Procs : Fans[i] \notin ToSet(popped'[q])
    <3>1. queue[Fans[i]] = 0 /\ Fans[i] \notin shoppers /\ Fans[i] \in Visitors
      <4>1. i \in 1..Len(Fans)
        BY FansAreFinite DEF RInv, TypeOK
      <4> QED
        BY <4>1, FansAreFinite DEF LInv, FloodInv
    <3>2. Fans[i] \notin ToSet(front)
      BY <1>5, <3>1 DEF Queued
    <3>3. ToSet(<<>>) = {}
      BY DEF ToSet
    <3> QED
      BY <1>1, <1>2, <1>7, <1>8, <3>1, <3>2, <3>3 DEF floor
  <2> QED
    BY <1>6, <2>1 DEF FloodInv, flood
<1>10. HandInv'
  <2>1. Shopping' = Shopping
    BY <1>1 DEF floor, Shopping
  <2>2. \A v \in Shopping' : queue'[v] = 0
    BY <1>7, <2>1 DEF LInv, HandInv, Shopping, RInv, TypeOK
  <2>3. \A v \in Queued : v \in Visitors /\ v \notin Shopping
    BY DEF LInv, HandInv, Queued
  <2>4. \A i \in 1..Len(front) : queue'[front[i]] = 0 /\ front[i] \notin Shopping'
    BY <1>4, <1>5, <1>7, <2>1, <2>3
  <2>5. \A q \in Procs : q # p => Len(popped'[q]) = 0
    BY <1>8
  <2>6. \A q \in Procs : pc'[q] # "put" => popped'[q] = <<>>
    BY <1>2, <1>3, <1>6, <1>8
  <2>7. ASSUME NEW q \in Procs
        PROVE  /\ \A i, j \in 1..Len(popped'[q]) : popped'[q][i] = popped'[q][j] => i = j
               /\ \A i \in 1..Len(popped'[q]) :
                     queue'[popped'[q][i]] = 0 /\ popped'[q][i] \notin Shopping'
    <3>1. CASE q = p
      BY <1>2, <1>4, <2>4, <3>1
    <3>2. CASE q # p
      BY <2>5, <3>2
    <3> QED
      BY <3>1, <3>2
  <2> QED
    BY <2>2, <2>6, <2>7 DEF HandInv
<1>11. \A q \in Procs : pc[q] # "refund" /\ pc'[q] # "refund" /\ pc'[q] # "rate"
  BY <1>1, <1>3, <1>6
<1>12. RateInv' /\ SlotInv'
  BY <1>1, <1>11 DEF LInv, RateInv, SlotInv, limiter
<1> QED
  BY <1>6, <1>9, <1>10, <1>12 DEF LInv

(* Whoever is put among the shoppers leaves the hands of his tick.          *)
LEMMA SerialPutShopper ==
  ASSUME RoomAssumption, Serial, RInv, LInv, UNCHANGED flood, NEW p \in Procs, PutShopper(p)
  PROVE  LInv'
<1> DEFINE v == Head(popped[p])
           rest == Tail(popped[p])
           s == IF rest = <<>> THEN AfterTick(p) ELSE "put"
<1>1. /\ pc[p] = "put" /\ shoppers' = shoppers \union {v}
      /\ left' = [left EXCEPT ![v] = Ttl - age[p]]
      /\ popped' = [popped EXCEPT ![p] = rest]
      /\ Goto(p, IF popped'[p] = <<>> THEN AfterTick(p) ELSE "put")
      /\ UNCHANGED <<room, limiter, age, slots, overflow, call, faults>>
  BY DEF PutShopper
<1>2. popped'[p] = rest
  BY <1>1 DEF RInv, TypeOK
<1>3. Goto(p, s) /\ s \in Ticking \union {"idle", "status"}
      /\ s \notin {"refund", "rate"} /\ (s # "put" => rest = <<>>)
  BY <1>1, <1>2, WhereNext DEF Ticking
<1>4. /\ popped[p] \in Seq(Visitors) /\ popped[p] # <<>> /\ Len(popped[p]) \in Nat \ {0}
      /\ DOMAIN popped[p] = 1..Len(popped[p])
  <2>1. popped[p] \in Batches /\ popped[p] # <<>>
    BY <1>1 DEF RInv, TypeOK, CallInv, Batches
  <2>2. popped[p] \in Seq(Visitors)
    BY <2>1, BatchType
  <2> QED
    BY <2>1, <2>2, EmptySeq, LenProperties
<1>5. /\ rest \in Seq(Visitors) /\ Len(rest) = Len(popped[p]) - 1
      /\ \A i \in 1..Len(rest) : rest[i] = popped[p][i + 1]
      /\ v = popped[p][1] /\ DOMAIN rest = 1..Len(rest)
  <2>1. rest \in Seq(Visitors) /\ Len(rest) = Len(popped[p]) - 1
        /\ \A i \in 1..Len(rest) : rest[i] = popped[p][i + 1]
    BY <1>4, HeadTailProperties
  <2>2. v = popped[p][1]
    BY <1>4
  <2> QED
    BY <2>1, <2>2, LenProperties
<1> HIDE DEF s, rest, v
<1>6. /\ OneCall' /\ ~Flooding /\ ~Flooding' /\ JoinInv'
      /\ \A q \in Procs : pc'[q] = IF q = p THEN s ELSE pc[q]
      /\ \A q \in Procs : q # p => pc[q] = "idle" /\ pc'[q] = "idle"
  BY <1>1, <1>3, TickFrame DEF room
<1>7. \A q \in Procs : q # p => popped'[q] = <<>> /\ popped[q] = <<>>
  BY <1>1, <1>6 DEF LInv, HandInv, RInv, TypeOK
<1>8. /\ 1 \in 1..Len(popped[p])
      /\ \A i \in 1..Len(rest) : i + 1 \in 1..Len(popped[p]) /\ i + 1 # 1
  BY <1>4, <1>5
<1>9. /\ \A i, j \in 1..Len(popped[p]) : popped[p][i] = popped[p][j] => i = j
      /\ \A i \in 1..Len(popped[p]) : queue[popped[p][i]] = 0 /\ popped[p][i] \notin Shopping
  BY DEF LInv, HandInv
<1>10. /\ \A i, j \in 1..Len(rest) : rest[i] = rest[j] => i = j
       /\ \A i \in 1..Len(rest) : queue[rest[i]] = 0 /\ rest[i] \notin Shopping /\ rest[i] # v
  <2>1. ASSUME NEW i \in 1..Len(rest), NEW j \in 1..Len(rest), rest[i] = rest[j]
        PROVE  i = j
    <3>1. i + 1 = j + 1
      BY <1>5, <1>8, <1>9, <2>1
    <3> QED
      BY <1>4, <1>5, <3>1
  <2>2. ASSUME NEW i \in 1..Len(rest)
        PROVE  queue[rest[i]] = 0 /\ rest[i] \notin Shopping /\ rest[i] # v
    BY <1>5, <1>8, <1>9
  <2> QED
    BY <2>1, <2>2
<1>11. Shopping' \subseteq Shopping \union {v} /\ queue[v] = 0
  <2>1. Shopping' \subseteq Shopping \union {v}
    BY <1>1 DEF Shopping, RInv, TypeOK
  <2> QED
    BY <1>5, <1>8, <1>9, <2>1
<1>12. HandInv'
  <2>1. \A w \in Shopping' : queue'[w] = 0
    BY <1>1, <1>11 DEF room, LInv, HandInv
  <2>2. \A q \in Procs : pc'[q] # "put" => popped'[q] = <<>>
    BY <1>2, <1>3, <1>6, <1>7
  <2>3. ASSUME NEW q \in Procs
        PROVE  /\ \A i, j \in 1..Len(popped'[q]) : popped'[q][i] = popped'[q][j] => i = j
               /\ \A i \in 1..Len(popped'[q]) :
                     queue'[popped'[q][i]] = 0 /\ popped'[q][i] \notin Shopping'
    <3>1. CASE q = p
      BY <1>1, <1>2, <1>10, <1>11, <3>1 DEF room
    <3>2. CASE q # p
      <4>1. Len(popped'[q]) = 0
        BY <1>7, <3>2
      <4> QED
        BY <4>1
    <3> QED
      BY <3>1, <3>2
  <2> QED
    BY <2>1, <2>2, <2>3 DEF HandInv
<1>13. FloodInv'
  <2>1. ASSUME NEW i \in flooded + 1..Len(Fans)
        PROVE  /\ queue'[Fans[i]] = 0 /\ Fans[i] \notin shoppers'
               /\ \A q \in Procs : Fans[i] \notin ToSet(popped'[q])
    <3>1. queue[Fans[i]] = 0 /\ Fans[i] \notin shoppers /\ Fans[i] \notin ToSet(popped[p])
      BY DEF LInv, FloodInv
    <3>2. v \in ToSet(popped[p]) /\ ToSet(rest) \subseteq ToSet(popped[p])
      BY <1>4, <1>5, <1>8 DEF ToSet
    <3>3. ToSet(<<>>) = {}
      BY DEF ToSet
    <3> QED
      BY <1>1, <1>2, <1>7, <3>1, <3>2, <3>3 DEF room
  <2> QED
    BY <1>6, <2>1 DEF FloodInv, flood
<1>14. \A q \in Procs : pc[q] # "refund" /\ pc'[q] # "refund" /\ pc'[q] # "rate"
  BY <1>1, <1>3, <1>6
<1>15. RateInv' /\ SlotInv'
  BY <1>1, <1>14 DEF LInv, RateInv, SlotInv, limiter
<1> QED
  BY <1>6, <1>12, <1>13, <1>15 DEF LInv


LEMMA SerialCollect ==
  ASSUME RoomAssumption, Serial, RInv, LInv, UNCHANGED flood, Collect
  PROVE  LInv'
<1>1. GcShoppers /\ UNCHANGED <<room, limiter, pc, tick, call, flood>>
  BY DEF Collect
<1>2. /\ shoppers' \subseteq shoppers /\ Shopping' \subseteq Shopping
      /\ Cardinality(Shopping') <= Cardinality(Shopping)
      /\ Cardinality(Shopping) \in Nat /\ Cardinality(Shopping') \in Nat
  BY <1>1, ShoppingShrinks
<1>3. OneCall'
  BY <1>1 DEF LInv, OneCall, Flooding, flood
<1>4. JoinInv'
  BY <1>1, <1>2 DEF LInv, JoinInv, room, call
<1>5. FloodInv'
  BY <1>1, <1>2 DEF LInv, FloodInv, Flooding, FloodScore, room, flood, tick
<1>6. HandInv'
  BY <1>1, <1>2 DEF LInv, HandInv, room, tick
<1>7. RateInv'
  BY <1>1 DEF LInv, RateInv, limiter, tick
<1>8. SlotInv'
  BY <1>1, <1>2 DEF LInv, SlotInv, tick, RInv, TypeOK, RoomAssumption
<1> QED
  BY <1>3, <1>4, <1>5, <1>6, <1>7, <1>8 DEF LInv

LEMMA SerialSecond ==
  ASSUME RoomAssumption, Serial, RInv, LInv, UNCHANGED flood, Second
  PROVE  LInv'
<1>1. /\ \A p \in Procs : pc[p] \in Ticking => age[p] = 0
      /\ \A p \in Procs : age'[p] = IF pc[p] \in Ticking THEN 1 ELSE 0
      /\ rate' = Aged(rate) /\ granted' = Aged(granted)
      /\ UNCHANGED <<room, shoppers, pc, call, slots, overflow, popped, faults>>
  BY DEF Second
<1>2. /\ shoppers' \subseteq shoppers /\ Shopping' \subseteq Shopping
      /\ Cardinality(Shopping') <= Cardinality(Shopping)
      /\ Cardinality(Shopping) \in Nat /\ Cardinality(Shopping') \in Nat
  BY ShoppingShrinks
<1>3. OneCall'
  BY <1>1 DEF LInv, OneCall, Flooding, flood
<1>4. JoinInv'
  BY <1>1, <1>2 DEF LInv, JoinInv, room, call
<1>5. FloodInv'
  BY <1>1, <1>2 DEF LInv, FloodInv, Flooding, FloodScore, room, flood
<1>6. HandInv'
  BY <1>1, <1>2 DEF LInv, HandInv, room
<1>7. RateInv'
  <2>1. "refund" \in Ticking
    BY DEF Ticking
  <2>2. granted[0] <= PerSecond /\ PerSecond \in Nat /\ 0 \in Ages
        /\ \A b \in Ages : b = 0 \/ b = 1
    BY DEF LInv, RateInv, Ages, RoomAssumption
  <2>3. /\ rate'[0] = 0 /\ granted'[0] = 0
        /\ \/ rate'[1] = rate[0] /\ granted'[1] = granted[0]
              /\ \E p \in Procs : pc[p] \in Ticking
           \/ rate'[1] = 0 /\ granted'[1] = 0 /\ \A p \in Procs : pc[p] \notin Ticking
    BY <1>1 DEF Aged, Ages
  <2>4. \A b \in Ages : granted'[b] <= PerSecond
    BY <2>2, <2>3
  <2>5. ASSUME NEW b \in Ages, \A p \in Procs : pc'[p] = "refund" => age'[p] # b
        PROVE  rate'[b] = granted'[b]
    <3>1. CASE b = 0
      BY <2>3, <3>1
    <3>2. CASE b = 1 /\ \E p \in Procs : pc[p] = "refund"
      BY <1>1, <2>1, <2>5, <3>2
    <3>3. CASE b = 1 /\ \A p \in Procs : pc[p] # "refund"
      <4>1. rate[0] = granted[0]
        BY <2>2, <3>3 DEF LInv, RateInv
      <4> QED
        BY <2>3, <3>3, <4>1
    <3> QED
      BY <2>2, <3>1, <3>2, <3>3
  <2>6. ASSUME NEW p \in Procs, pc'[p] = "refund"
        PROVE  granted'[age'[p]] = PerSecond /\ rate'[age'[p]] - overflow'[p] = PerSecond
    <3>1. pc[p] = "refund" /\ age[p] = 0 /\ age'[p] = 1
      BY <1>1, <2>1, <2>6
    <3>2. granted[0] = PerSecond /\ rate[0] - overflow[p] = PerSecond
      BY <3>1 DEF LInv, RateInv
    <3>3. rate'[1] = rate[0] /\ granted'[1] = granted[0]
      BY <2>1, <2>3, <3>1
    <3> QED
      BY <1>1, <3>1, <3>2, <3>3
  <2> QED
    BY <2>4, <2>5, <2>6 DEF RateInv
<1>8. SlotInv'
  BY <1>1, <1>2 DEF LInv, SlotInv, RInv, TypeOK, RoomAssumption
<1> QED
  BY <1>3, <1>4, <1>5, <1>6, <1>7, <1>8 DEF LInv

(* The flood draws its scores above everybody's.                            *)
LEMMA SerialFloodScores ==
  ASSUME RoomAssumption, Serial, RInv, LInv, FloodScores
  PROVE  LInv'
<1>1. /\ seqEnd = 0 /\ Alone /\ seq' = seq + Len(Fans) /\ seqEnd' = seq'
      /\ UNCHANGED <<queue, floor, limiter, pc, tick, call, flooded, faults>>
  BY DEF FloodScores
<1>2. \A p \in Procs : pc[p] = "idle"
  BY <1>1 DEF Alone
<1>3. Shopping' = Shopping /\ shoppers' = shoppers
  BY <1>1 DEF floor, Shopping
<1>4. OneCall'
  BY <1>1, <1>2 DEF OneCall
<1>5. JoinInv'
  BY <1>1, <1>2 DEF JoinInv, Procs
<1>6. FloodInv'
  <2>1. seq \in Nat /\ Len(Fans) \in Nat /\ flooded \in Nat
        /\ \A v \in Visitors : queue[v] \in 0..seq
    BY FansAreFinite DEF RInv, TypeOK, ScoreInv, RoomAssumption
  <2>2. seqEnd' - Len(Fans) + flooded' >= seq
    BY <1>1, <2>1
  <2>3. \A v \in Visitors : queue'[v] <= seqEnd' - Len(Fans) + flooded'
    BY <1>1, <2>1, <2>2
  <2> QED
    BY <1>1, <1>3, <2>3 DEF LInv, FloodInv, FloodScore, tick
<1>7. HandInv'
  BY <1>1, <1>3 DEF LInv, HandInv, tick
<1>8. RateInv' /\ SlotInv'
  BY <1>1, <1>2 DEF LInv, RateInv, SlotInv, limiter, tick
<1> QED
  BY <1>4, <1>5, <1>6, <1>7, <1>8 DEF LInv

LEMMA SerialFloodLine ==
  ASSUME RoomAssumption, Serial, RInv, LInv, FloodLine
  PROVE  LInv'
<1>1. /\ Flooding /\ UNCHANGED <<seq, floor, limiter, pc, tick, call, seqEnd, faults>>
  BY DEF FloodLine
<1>2. \A p \in Procs : pc[p] = "idle"
  BY <1>1 DEF LInv, OneCall
<1>3. Shopping' = Shopping /\ shoppers' = shoppers
  BY <1>1 DEF floor, Shopping
<1>4. /\ seqEnd \in Nat /\ Len(Fans) \in Nat /\ flooded \in Nat
      /\ flooded' \in Nat /\ flooded' <= Len(Fans) /\ flooded <= flooded'
  BY FansAreFinite, FloodBatchScores DEF RInv, TypeOK, RoomAssumption
<1>5. /\ \A i \in flooded' + 1..Len(Fans) : i \in flooded + 1..Len(Fans) /\ i \notin flooded + 1..flooded'
      /\ \A i \in flooded + 1..flooded' : i \in flooded + 1..Len(Fans)
  BY <1>4, RestOfRange
<1>6. ASSUME NEW v \in Visitors
      PROVE  \/ queue'[v] = queue[v]
             \/ \E i \in flooded + 1..flooded' :
                   Fans[i] = v /\ queue[v] = 0 /\ queue'[v] = FloodScore(i)
  BY FloodBatchScores
<1>7. \A i \in flooded + 1..Len(Fans) : i \in DOMAIN Fans /\ Fans[i] \in Visitors
  BY <1>4, FansAreFinite
<1>8. OneCall'
  BY <1>1, <1>2 DEF OneCall
<1>9. JoinInv'
  BY <1>1, <1>2 DEF JoinInv, Procs
<1>10. FloodInv'
  <2>1. ASSUME NEW i \in flooded' + 1..Len(Fans)
        PROVE  queue'[Fans[i]] = 0
    <3>1. i \in flooded + 1..Len(Fans) /\ i \notin flooded + 1..flooded'
      BY <1>5
    <3>2. queue[Fans[i]] = 0 /\ Fans[i] \in Visitors
      BY <1>7, <3>1 DEF LInv, FloodInv
    <3>3. \A j \in flooded + 1..flooded' : Fans[j] # Fans[i]
      BY <1>5, <1>7, <3>1 DEF RoomAssumption, IsInjective
    <3> QED
      BY <1>6, <3>2, <3>3
  <2>2. ASSUME NEW i \in flooded' + 1..Len(Fans)
        PROVE  Fans[i] \notin shoppers /\ \A p \in Procs : Fans[i] \notin ToSet(popped[p])
    BY <1>5 DEF LInv, FloodInv
  <2>3. ASSUME NEW v \in Visitors
        PROVE  queue'[v] <= seqEnd - Len(Fans) + flooded'
    <3>1. CASE queue'[v] = queue[v]
      <4>1. queue[v] <= seqEnd - Len(Fans) + flooded /\ queue[v] \in Nat
        BY <1>1 DEF LInv, FloodInv, FloodScore, RInv, TypeOK
      <4> QED
        BY <1>4, <3>1, <4>1
    <3>2. ASSUME NEW i \in flooded + 1..flooded', queue'[v] = FloodScore(i)
          PROVE  queue'[v] <= seqEnd - Len(Fans) + flooded'
      BY <1>4, <3>2 DEF FloodScore
    <3> QED
      BY <1>6, <3>1, <3>2
  <2> QED
    BY <1>1, <1>3, <2>1, <2>2, <2>3 DEF LInv, FloodInv, FloodScore, tick
<1>11. HandInv'
  <2>1. \A v \in Shopping : v \in Visitors /\ queue[v] = 0
    BY DEF LInv, HandInv, Shopping, RInv, TypeOK
  <2>2. \A i \in flooded + 1..flooded' : Fans[i] \notin Shopping
    BY <1>5 DEF LInv, FloodInv, Shopping
  <2>3. \A v \in Shopping' : queue'[v] = 0
    BY <1>3, <1>6, <2>1, <2>2
  <2>4. \A p \in Procs : popped'[p] = <<>>
    BY <1>1, <1>2 DEF LInv, HandInv, tick
  <2>5. Len(<<>>) = 0
    OBVIOUS
  <2> QED
    BY <2>3, <2>4, <2>5 DEF HandInv
<1>12. RateInv' /\ SlotInv'
  BY <1>1, <1>2 DEF LInv, RateInv, SlotInv, limiter, tick
<1> QED
  BY <1>8, <1>9, <1>10, <1>11, <1>12 DEF LInv


LEMMA SerialInit == RoomAssumption /\ Init => LInv
<1> SUFFICES ASSUME RoomAssumption, Init
             PROVE  LInv
  OBVIOUS
<1>1. Flooding = FALSE /\ Shopping = {}
  BY DEF Init, Flooding, Shopping
<1>2. OneCall /\ JoinInv
  BY <1>1 DEF Init, OneCall, JoinInv, Procs
<1>3. FloodInv
  <2>1. ToSet(<<>>) = {}
    BY DEF ToSet
  <2>2. \A i \in 1..Len(Fans) : Fans[i] \in Visitors
    BY FansAreFinite
  <2> QED
    BY <1>1, <2>1, <2>2 DEF Init, FloodInv
<1>4. HandInv
  BY <1>1 DEF Init, HandInv
<1>5. RateInv /\ SlotInv
  BY DEF Init, RateInv, SlotInv, Ages, RoomAssumption
<1> QED
  BY <1>2, <1>3, <1>4, <1>5 DEF LInv

LEMMA SerialStep ==
  RoomAssumption /\ Serial /\ MaxFaults = 0 /\ RInv /\ ShoppersAreLetIn /\ LInv /\ [Next]_vars
    => LInv'
<1> SUFFICES ASSUME RoomAssumption, Serial, MaxFaults = 0, RInv, ShoppersAreLetIn, LInv, [Next]_vars
             PROVE  LInv'
  OBVIOUS
<1>1. CASE UNCHANGED vars
  <2>1. Shopping' = Shopping
    BY <1>1 DEF vars, Shopping
  <2>2. OneCall' /\ JoinInv'
    BY <1>1, <2>1 DEF LInv, OneCall, JoinInv, Flooding, vars
  <2>3. FloodInv' /\ HandInv'
    BY <1>1, <2>1 DEF LInv, FloodInv, HandInv, Flooding, FloodScore, vars
  <2>4. RateInv' /\ SlotInv'
    BY <1>1, <2>1 DEF LInv, RateInv, SlotInv, vars
  <2> QED
    BY <2>2, <2>3, <2>4 DEF LInv
<1>2. ASSUME UNCHANGED flood, NEW t \in Requests, NEW v \in Visitors, StartJoin(t, v)
      PROVE  LInv'
  BY <1>2, SerialStartJoin
<1>3. ASSUME UNCHANGED flood, NEW t \in Requests, Join(t)
      PROVE  LInv'
  BY <1>3, SerialLooking, SerialNextScore, SerialEnqueue DEF Join
<1>4. ASSUME UNCHANGED flood, NEW p \in Procs, AdmitTick(p)
      PROVE  LInv'
  BY <1>4, SerialStartTick, SerialCount, SerialIncrRate, SerialGiveBack, SerialQueueSize,
     SerialPopFront, SerialPutShopper DEF AdmitTick
<1>5. \A p \in Procs : ~FailCall(p)
  BY DEF FailCall, RInv, TypeOK
<1>6. CASE UNCHANGED flood /\ (Collect \/ Second)
  BY <1>6, SerialCollect, SerialSecond
<1>7. CASE FloodScores \/ FloodLine
  BY <1>7, SerialFloodScores, SerialFloodLine
<1> QED
  BY <1>1, <1>2, <1>3, <1>4, <1>5, <1>6, <1>7 DEF Next, CallStep

(* The inductive invariant of calls that do not overlap and do not fail.    *)
THEOREM SerialInvariance == Serial /\ MaxFaults = 0 /\ Spec => [](RInv /\ LInv)
<1> SUFFICES ASSUME Serial, MaxFaults = 0
             PROVE  Spec => [](RInv /\ LInv)
  OBVIOUS
<1>1. RoomAssumption
  BY RoomAssumption
<1>2. Init => LInv
  BY <1>1, SerialInit
<1>3. RInv /\ ShoppersAreLetIn /\ LInv /\ [Next]_vars => LInv'
  BY <1>1, SerialStep
<1> QED
  BY <1>2, <1>3, Invariance, ShoppersHaveTheirKey, PTL DEF Spec

-----------------------------------------------------------------------------
(* What the state is for RoomLedger                                         *)

Time(v) == IF v \in Shopping THEN left[v] ELSE 0

MapFacts ==
  /\ LineFacts
  /\ \A p \in Procs, v \in Visitors : pc[p] = "put" =>
       TimeLeft(v) = IF v \in ToSet(popped[p]) THEN Ttl - age[p] ELSE Time(v)
  /\ (\A p \in Procs : pc[p] # "put") => \A v \in Visitors : TimeLeft(v) = Time(v)
  /\ \A p \in Procs : pc[p] \in {"refund", "size", "pop"} => SlotsLeft = slots[p]
  /\ (\A p \in Procs : pc[p] \notin {"refund", "size", "pop"}) => SlotsLeft = 0

LEMMA Mapping ==
  ASSUME RoomAssumption, RInv, LInv
  PROVE  MapFacts
<1>1. LineFacts
  BY LineIsTheOrder DEF RInv
<1>2. ToSet(<<>>) = {}
  BY DEF ToSet
<1>3. ASSUME NEW p \in Procs, NEW v \in Visitors, pc[p] = "put"
      PROVE  TimeLeft(v) = IF v \in ToSet(popped[p]) THEN Ttl - age[p] ELSE Time(v)
  <2>1. \A q \in Procs : q # p => popped[q] = <<>>
    BY <1>3 DEF LInv, OneCall, HandInv
  <2>2. CASE v \in ToSet(popped[p])
    <3>1. InHand(v) = {p}
      BY <1>2, <2>1, <2>2 DEF InHand
    <3> QED
      BY <2>2, <3>1 DEF TimeLeft
  <2>3. CASE v \notin ToSet(popped[p])
    <3>1. InHand(v) = {}
      BY <1>2, <2>1, <2>3 DEF InHand
    <3> QED
      BY <2>3, <3>1 DEF TimeLeft, Time
  <2> QED
    BY <2>2, <2>3
<1>4. ASSUME \A p \in Procs : pc[p] # "put", NEW v \in Visitors
      PROVE  TimeLeft(v) = Time(v)
  <2>1. InHand(v) = {}
    BY <1>2, <1>4 DEF LInv, HandInv, InHand
  <2> QED
    BY <2>1 DEF TimeLeft, Time
<1>5. ASSUME NEW p \in Procs, pc[p] \in {"refund", "size", "pop"}
      PROVE  SlotsLeft = slots[p]
  <2>1. Granted = {p}
    BY <1>5 DEF Granted, LInv, OneCall
  <2> QED
    BY <2>1 DEF SlotsLeft
<1>6. ASSUME \A p \in Procs : pc[p] \notin {"refund", "size", "pop"}
      PROVE  SlotsLeft = 0
  BY <1>6 DEF Granted, SlotsLeft
<1> QED
  BY <1>1, <1>3, <1>4, <1>5, <1>6 DEF MapFacts


(* A state of the store, as RoomLedger sees it, before and after a step of  *)
(* the one call.                                                            *)
InSlots == {"refund", "size", "pop"}

LEMMA ViewOfCall ==
  ASSUME RoomAssumption, Serial, RInv, LInv, MapFacts, MapFacts', UNCHANGED flood,
         NEW p \in Procs, pc[p] # "idle" \/ Alone, NEW s \in States, Goto(p, s)
  PROVE  /\ SlotsLeft = IF pc[p] \in InSlots THEN slots[p] ELSE 0
         /\ SlotsLeft' = IF s \in InSlots THEN slots'[p] ELSE 0
         /\ pc[p] # "put" => \A v \in Visitors : TimeLeft(v) = Time(v)
         /\ s # "put" => \A v \in Visitors : TimeLeft(v)' = Time(v)'
<1>1. /\ \A q \in Procs : pc'[q] = IF q = p THEN s ELSE pc[q]
      /\ \A q \in Procs : q # p => pc[q] = "idle" /\ pc'[q] = "idle"
  BY TheOneCall DEF LInv
<1>2. SlotsLeft = IF pc[p] \in InSlots THEN slots[p] ELSE 0
  BY <1>1 DEF MapFacts, InSlots
<1>3. SlotsLeft' = IF s \in InSlots THEN slots'[p] ELSE 0
  BY <1>1 DEF MapFacts, InSlots
<1>4. pc[p] # "put" => \A v \in Visitors : TimeLeft(v) = Time(v)
  BY <1>1 DEF MapFacts
<1>5. s # "put" => \A v \in Visitors : TimeLeft(v)' = Time(v)'
  BY <1>1 DEF MapFacts
<1> QED
  BY <1>2, <1>3, <1>4, <1>5

LEMMA TimeStays ==
  ASSUME RInv, UNCHANGED floor \/ GcShoppers
  PROVE  Shopping' = Shopping /\ \A v \in Visitors : Time(v)' = Time(v)
<1>1. CASE UNCHANGED floor
  BY <1>1 DEF floor, Shopping, Time
<1>2. CASE GcShoppers
  <2>1. /\ shoppers' = {v \in shoppers : left[v] > 0} /\ shoppers \subseteq Visitors
        /\ \A v \in Visitors : left'[v] = IF v \in shoppers' THEN left[v] ELSE 0
    BY <1>2 DEF GcShoppers, RInv, TypeOK
  <2>2. Shopping' = Shopping /\ \A v \in Shopping : left'[v] = left[v]
    BY <2>1 DEF Shopping
  <2> QED
    BY <2>2 DEF Time
<1> QED
  BY <1>1, <1>2

LEMMA LineStays == UNCHANGED queue => UNCHANGED Line
  BY DEF Line, Place, Queued

(* A step that nobody sees in the ledger. *)
LEMMA LedgerStays ==
  ASSUME RoomAssumption, Serial, RInv, LInv, MapFacts, MapFacts', UNCHANGED flood,
         UNCHANGED <<queue, granted>>, UNCHANGED floor \/ GcShoppers,
         NEW p \in Procs, pc[p] # "idle" \/ Alone, pc[p] # "put",
         NEW s \in States \ {"put"}, Goto(p, s),
         \/ pc[p] \notin InSlots /\ s \notin InSlots
         \/ pc[p] \in InSlots /\ s \in InSlots /\ slots'[p] = slots[p]
  PROVE  UNCHANGED Ledger!vars
<1>1. SlotsLeft' = SlotsLeft /\ \A v \in Visitors : TimeLeft(v)' = Time(v)' /\ TimeLeft(v) = Time(v)
  BY ViewOfCall
<1>2. [v \in Visitors |-> TimeLeft(v)]' = [v \in Visitors |-> TimeLeft(v)]
  BY <1>1, TimeStays
<1> QED
  BY <1>1, <1>2, LineStays DEF Ledger!vars

LEMMA LedgerCall ==
  ASSUME RoomAssumption, Serial, RInv, LInv, MapFacts, MapFacts', UNCHANGED flood,
         NEW p \in Procs,
         \/ p \in Requests /\ \E v \in Visitors : StartJoin(p, v)
         \/ p \in Requests /\ (StatusAgain(p) \/ GetKey(p) \/ GetScore(p) \/ Rank(p) \/ NextScore(p))
         \/ StartTick(p) \/ CountShoppers(p) \/ GiveBackRate(p)
  PROVE  UNCHANGED Ledger!vars
<1>1. CASE p \in Requests /\ \E v \in Visitors : StartJoin(p, v)
  <2>1. /\ pc[p] = "idle" /\ Alone /\ Goto(p, "key") /\ GcShoppers /\ UNCHANGED <<room, limiter>>
    BY <1>1 DEF StartJoin
  <2> QED
    BY <2>1, LedgerStays DEF States, Ticking, InSlots, room, limiter
<1>2. CASE p \in Requests /\ StatusAgain(p)
  <2>1. /\ pc[p] = "status" /\ Goto(p, "key") /\ GcShoppers /\ UNCHANGED <<room, limiter>>
    BY <1>2 DEF StatusAgain
  <2> QED
    BY <2>1, LedgerStays DEF States, Ticking, InSlots, room, limiter
<1>3. CASE p \in Requests /\ (GetKey(p) \/ GetScore(p) \/ Rank(p))
  <2>1. PICK s \in {"zscore", "rank", "seq", "idle"} :
          /\ pc[p] \in {"key", "zscore", "rank"} /\ Goto(p, s) /\ UNCHANGED <<room, floor, limiter>>
    BY <1>3 DEF GetKey, GetScore, Rank, CloseCall
  <2> QED
    BY <2>1, LedgerStays DEF States, Ticking, InSlots, room, limiter
<1>4. CASE p \in Requests /\ NextScore(p)
  <2>1. pc[p] = "seq" /\ Goto(p, "enqueue") /\ UNCHANGED <<queue, floor, limiter>>
    BY <1>4 DEF NextScore
  <2> QED
    BY <2>1, LedgerStays DEF States, Ticking, InSlots, limiter
<1>5. CASE StartTick(p)
  <2>1. Goto(p, "count") /\ GcShoppers /\ UNCHANGED <<room, limiter>>
    BY <1>5 DEF StartTick
  <2>2. pc[p] = "tick" \/ (pc[p] = "idle" /\ Alone)
    BY <1>5 DEF StartTick
  <2> QED
    BY <2>1, <2>2, LedgerStays DEF States, Ticking, InSlots, room, limiter
<1>6. CASE CountShoppers(p)
  <2>1. PICK s \in {"rate", "status", "idle"} :
          pc[p] = "count" /\ Goto(p, s) /\ UNCHANGED <<room, floor, limiter>>
    BY <1>6 DEF CountShoppers, AfterTick
  <2> QED
    BY <2>1, LedgerStays DEF States, Ticking, InSlots, room, limiter
<1>7. CASE GiveBackRate(p)
  <2>1. pc[p] = "refund" /\ Goto(p, "size") /\ UNCHANGED <<room, floor, granted, slots>>
    BY <1>7 DEF GiveBackRate
  <2> QED
    BY <2>1, LedgerStays DEF States, Ticking, InSlots, room
<1> QED
  BY <1>1, <1>2, <1>3, <1>4, <1>5, <1>6, <1>7


LEMMA LedgerCounts == \A S : Ledger!Cardinality(S) = Cardinality(S)
  BY DEF Cardinality, Ledger!Cardinality

LEMMA LedgerShopping ==
  ASSUME RInv, \A v \in Visitors : TimeLeft(v) = Time(v)
  PROVE  Ledger!Shopping = Shopping
BY DEF Ledger!Shopping, Shopping, Time, RInv, TypeOK

(* What a tick takes of its second is in the second and in the bulkhead.    *)
LEMMA LedgerIncrRate ==
  ASSUME RoomAssumption, Serial, RInv, LInv, LInv', MapFacts, MapFacts', UNCHANGED flood,
         NEW p \in Procs, IncrRate(p)
  PROVE  Ledger!Next \/ UNCHANGED Ledger!vars
<1> DEFINE a == age[p]
           current == rate[a] + slots[p]
           grant == GrantOf(slots[p], current)
           s == IF current <= PerSecond THEN "size" ELSE "refund"
<1>1. /\ pc[p] = "rate" /\ Goto(p, s)
      /\ granted' = [granted EXCEPT ![a] = @ + grant]
      /\ slots' = [slots EXCEPT ![p] = grant]
      /\ UNCHANGED <<queue, floor>>
  BY DEF IncrRate, room
<1>2. s \in States /\ s \in InSlots /\ s # "put"
  BY DEF States, Ticking, InSlots
<1>3. /\ a \in Ages /\ slots[p] \in 0..Bulkhead /\ rate[a] \in Int /\ granted[a] \in Nat
      /\ granted \in [Ages -> Nat] /\ Bulkhead \in Nat /\ PerSecond \in Nat
  BY DEF RInv, TypeOK, RoomAssumption
<1>4. grant \in Nat /\ grant <= slots[p]
  <2>1. slots[p] > 0
    BY <1>1 DEF LInv, SlotInv
  <2>2. rate[a] = granted[a]
    <3>1. \A q \in Procs : pc[q] # "refund"
      BY <1>1 DEF LInv, OneCall
    <3> QED
      BY <1>3, <3>1 DEF LInv, RateInv
  <2>3. granted[a] <= PerSecond
    BY <1>3 DEF LInv, RateInv
  <2> QED
    BY <1>3, <2>1, <2>2, <2>3 DEF GrantOf
<1> HIDE DEF a, current, grant, s
<1>5. SlotsLeft = 0 /\ SlotsLeft' = grant
  <2>1. slots'[p] = grant
    BY <1>1 DEF RInv, TypeOK
  <2> QED
    BY <1>1, <1>2, <2>1, ViewOfCall DEF InSlots
<1>6. \A v \in Visitors : TimeLeft(v) = Time(v) /\ TimeLeft(v)' = Time(v)' /\ Time(v)' = Time(v)
  BY <1>1, <1>2, ViewOfCall, TimeStays
<1>7. UNCHANGED <<Line, [v \in Visitors |-> TimeLeft(v)]>>
  BY <1>1, <1>6, LineStays
<1>8. CASE grant = 0
  <2>1. granted' = granted
    BY <1>1, <1>3, <1>8
  <2> QED
    BY <1>5, <1>7, <1>8, <2>1 DEF Ledger!vars
<1>9. CASE grant # 0
  <2>1. granted[a] + grant <= PerSecond
    <3>1. granted'[a] = granted[a] + grant
      BY <1>1, <1>3
    <3> QED
      BY <1>3, <3>1 DEF LInv, RateInv
  <2>2. Cardinality(Ledger!Shopping) + grant <= Bulkhead
    <3>1. Cardinality(Shopping) + slots[p] <= Bulkhead
      BY <1>1 DEF LInv, SlotInv
    <3>2. Cardinality(Shopping) \in Nat
      BY FS_Subset, FS_CardinalityType DEF RInv, Shopping
    <3>3. Ledger!Shopping = Shopping
      BY <1>6, LedgerShopping
    <3> QED
      BY <1>3, <1>4, <3>1, <3>2, <3>3
  <2>3. Ledger!TakeRateTokens(grant, a)
    <3>1. granted' = [granted EXCEPT ![a] = @ + grant] /\ SlotsLeft = 0 /\ SlotsLeft' = grant
      BY <1>1, <1>5
    <3> QED
      BY <1>7, <2>1, <2>2, <3>1, LedgerCounts DEF Ledger!TakeRateTokens
  <2>4. grant \in 1..Bulkhead /\ a \in Ledger!Ages
    BY <1>3, <1>4, <1>9 DEF Ages, Ledger!Ages
  <2> QED
    BY <2>3, <2>4 DEF Ledger!Next
<1> QED
  BY <1>8, <1>9

LEMMA LedgerQueueSize ==
  ASSUME RoomAssumption, Serial, RInv, LInv, MapFacts, MapFacts', UNCHANGED flood,
         NEW p \in Procs, QueueSize(p)
  PROVE  Ledger!Next \/ UNCHANGED Ledger!vars
<1> DEFINE s == IF slots'[p] > 0 THEN "pop" ELSE AfterTick(p)
           n == Least(slots[p], Cardinality(Queued))
<1>1. /\ pc[p] = "size" /\ Goto(p, s) /\ slots' = [slots EXCEPT ![p] = n]
      /\ UNCHANGED <<queue, floor, granted>>
  BY DEF QueueSize, room, limiter
<1>2. /\ s \in States /\ s # "put"
      /\ IF slots'[p] > 0 THEN s \in InSlots ELSE s \notin InSlots
  BY DEF States, Ticking, InSlots, AfterTick
<1>3. n \in Nat /\ n <= slots[p] /\ slots[p] \in Nat /\ slots'[p] = n
  <2>1. slots \in [Procs -> 0..Bulkhead] /\ Bulkhead \in Nat
    BY DEF RInv, TypeOK, RoomAssumption
  <2>2. slots[p] \in Nat /\ Cardinality(Queued) \in Nat
    BY <2>1, LineIsFinite DEF RInv
  <2>3. slots'[p] = n
    BY <1>1, <2>1
  <2> QED
    BY <2>2, <2>3 DEF Least
<1> HIDE DEF s, n
<1>4. SlotsLeft = slots[p] /\ SlotsLeft' = n
  BY <1>1, <1>2, <1>3, ViewOfCall DEF InSlots
<1>5. \A v \in Visitors : TimeLeft(v) = Time(v) /\ TimeLeft(v)' = Time(v)' /\ Time(v)' = Time(v)
  BY <1>1, <1>2, ViewOfCall, TimeStays
<1>6. UNCHANGED <<Line, [v \in Visitors |-> TimeLeft(v)], granted>>
  BY <1>1, <1>5, LineStays
<1>7. CASE n = slots[p]
  BY <1>4, <1>6, <1>7 DEF Ledger!vars
<1>8. CASE n # slots[p]
  <2>1. n \in 0..slots[p] - 1
    BY <1>3, <1>8
  <2> QED
    BY <1>4, <1>6, <2>1 DEF Ledger!Waste, Ledger!Next
<1> QED
  BY <1>7, <1>8

(* A popped visitor has his time already: putting him changes nothing.      *)
LEMMA LedgerPutShopper ==
  ASSUME RoomAssumption, Serial, RInv, LInv, MapFacts, MapFacts', UNCHANGED flood,
         NEW p \in Procs, PutShopper(p)
  PROVE  UNCHANGED Ledger!vars
<1> DEFINE rest == Tail(popped[p])
           v == Head(popped[p])
           s == IF rest = <<>> THEN AfterTick(p) ELSE "put"
<1>1. /\ pc[p] = "put" /\ popped' = [popped EXCEPT ![p] = rest]
      /\ shoppers' = shoppers \union {v} /\ left' = [left EXCEPT ![v] = Ttl - age[p]]
      /\ Goto(p, IF popped'[p] = <<>> THEN AfterTick(p) ELSE "put")
      /\ UNCHANGED <<queue, granted, age, slots>>
  BY DEF PutShopper, room, limiter
<1>2. popped'[p] = rest
  BY <1>1 DEF RInv, TypeOK
<1>3. /\ Goto(p, s) /\ s \in States /\ s \notin InSlots
      /\ IF s = "put" THEN TRUE ELSE rest = <<>>
  BY <1>1, <1>2 DEF States, Ticking, InSlots, AfterTick
<1>4. /\ popped[p] \in Seq(Visitors) /\ popped[p] # <<>>
      /\ \A i, j \in 1..Len(popped[p]) : popped[p][i] = popped[p][j] => i = j
  <2>1. popped[p] \in Batches
    BY DEF RInv, TypeOK, Batches
  <2> QED
    BY <1>1, <2>1, BatchType DEF RInv, CallInv, LInv, HandInv
<1>5. /\ v \in Visitors /\ ToSet(popped[p]) = {v} \union ToSet(rest) /\ v \notin ToSet(rest)
  <2>1. /\ rest \in Seq(Visitors) /\ Len(rest) = Len(popped[p]) - 1
        /\ \A i \in 1..Len(rest) : rest[i] = popped[p][i + 1]
        /\ v = popped[p][1]
    BY <1>4, HeadTailProperties
  <2>2. Len(popped[p]) \in Nat /\ Len(popped[p]) # 0 /\ DOMAIN popped[p] = 1..Len(popped[p])
        /\ DOMAIN rest = 1..Len(rest)
    BY <1>4, <2>1, LenProperties, EmptySeq
  <2>3. /\ 1 \in 1..Len(popped[p])
        /\ \A i \in 1..Len(rest) : i + 1 \in 1..Len(popped[p]) /\ i + 1 # 1
        /\ \A i \in 1..Len(popped[p]) : i = 1 \/ (i - 1 \in 1..Len(rest) /\ i - 1 + 1 = i)
    BY <2>1, <2>2
  <2> HIDE DEF rest, v
  <2>4. v \notin ToSet(rest)
    <3> SUFFICES ASSUME NEW i \in 1..Len(rest), rest[i] = v
                 PROVE  FALSE
      BY <2>2 DEF ToSet
    <3> QED
      BY <1>4, <2>1, <2>3
  <2>5. ToSet(rest) \subseteq ToSet(popped[p]) /\ v \in ToSet(popped[p]) /\ v \in Visitors
    <3>1. v \in ToSet(popped[p])
      BY <2>1, <2>2, <2>3 DEF ToSet
    <3>2. v \in Visitors
      BY <1>4, <2>1, <2>3
    <3>3. ASSUME NEW i \in 1..Len(rest) PROVE rest[i] \in ToSet(popped[p])
      <4>1. i + 1 \in 1..Len(popped[p]) /\ rest[i] = popped[p][i + 1]
        BY <2>1, <2>3
      <4> QED
        BY <2>2, <4>1 DEF ToSet
    <3> QED
      BY <2>2, <3>1, <3>2, <3>3 DEF ToSet
  <2>6. ASSUME NEW w \in ToSet(popped[p])
        PROVE  w = v \/ w \in ToSet(rest)
    <3>1. PICK i \in 1..Len(popped[p]) : popped[p][i] = w
      BY <2>2 DEF ToSet
    <3>2. CASE i = 1
      BY <2>1, <3>1, <3>2
    <3>3. CASE i - 1 \in 1..Len(rest) /\ i - 1 + 1 = i
      <4>1. rest[i - 1] = w
        BY <2>1, <3>1, <3>3
      <4> QED
        BY <2>2, <3>3, <4>1 DEF ToSet
    <3> QED
      BY <2>3, <3>2, <3>3
  <2> QED
    BY <2>4, <2>5, <2>6
<1> HIDE DEF rest, v, s
<1>6. SlotsLeft' = SlotsLeft
  BY <1>1, <1>3, ViewOfCall DEF InSlots
<1>7. ASSUME NEW w \in Visitors
      PROVE  Time(w)' = IF w = v THEN Ttl - age[p] ELSE Time(w)
  <2>1. Ttl \in Nat \ {0} /\ age[p] \in {0, 1} /\ left \in [Visitors -> -2..Ttl]
    BY DEF RoomAssumption, RInv, TypeOK, Ages
  <2>2. CASE w = v
    BY <1>1, <1>5, <2>1, <2>2 DEF Time, Shopping
  <2>3. CASE w # v
    BY <1>1, <2>1, <2>3 DEF Time, Shopping
  <2> QED
    BY <2>2, <2>3
<1>8. ASSUME NEW w \in Visitors
      PROVE  TimeLeft(w)' = TimeLeft(w)
  <2>1. TimeLeft(w) = IF w \in ToSet(popped[p]) THEN Ttl - age[p] ELSE Time(w)
    BY <1>1 DEF MapFacts
  <2>2. TimeLeft(w)' = IF w \in ToSet(rest) THEN Ttl - age[p] ELSE Time(w)'
    <3>1. CASE s = "put"
      <4>1. pc'[p] = "put"
        BY <1>3, <3>1 DEF Goto, RInv, TypeOK
      <4> QED
        BY <1>1, <1>2, <4>1 DEF MapFacts
    <3>2. CASE s # "put"
      <4>1. ToSet(rest) = {}
        BY <1>3, <3>2 DEF ToSet
      <4> QED
        BY <1>1, <1>3, <3>2, <4>1, ViewOfCall
    <3> QED
      BY <3>1, <3>2
  <2> QED
    BY <1>5, <1>7, <2>1, <2>2
<1>9. [w \in Visitors |-> TimeLeft(w)]' = [w \in Visitors |-> TimeLeft(w)]
  BY <1>8
<1> QED
  BY <1>1, <1>6, <1>9, LineStays DEF Ledger!vars


(* Collecting, and drawing the scores of a flood, are no steps of the ledger. *)
LEMMA LedgerAside ==
  ASSUME RoomAssumption, RInv, Collect \/ FloodScores
  PROVE  UNCHANGED Ledger!vars
<1>1. UNCHANGED <<queue, granted, pc, slots, popped, age>> /\ (UNCHANGED floor \/ GcShoppers)
  BY DEF Collect, FloodScores, room, limiter, tick
<1>2. SlotsLeft' = SlotsLeft
  BY <1>1 DEF SlotsLeft, Granted
<1>3. ASSUME NEW v \in Visitors
      PROVE  TimeLeft(v)' = TimeLeft(v)
  <2>1. Time(v)' = Time(v)
    BY <1>1, TimeStays
  <2>2. TimeLeft(v) = (IF InHand(v) # {} THEN Ttl - age[CHOOSE p \in InHand(v) : TRUE] ELSE Time(v))
    BY DEF TimeLeft, Time
  <2>3. TimeLeft(v)' = (IF InHand(v)' # {} THEN Ttl - age'[CHOOSE p \in InHand(v)' : TRUE]
                        ELSE Time(v)')
    BY DEF TimeLeft, Time
  <2>4. InHand(v)' = InHand(v)
    BY <1>1 DEF InHand
  <2> QED
    BY <1>1, <2>1, <2>2, <2>3, <2>4
<1>4. [v \in Visitors |-> TimeLeft(v)]' = [v \in Visitors |-> TimeLeft(v)]
  BY <1>3
<1> QED
  BY <1>1, <1>2, <1>4, LineStays DEF Ledger!vars

LEMMA LedgerSecond ==
  ASSUME RoomAssumption, RInv, LInv, MapFacts, MapFacts', Second
  PROVE  Ledger!Second
<1>1. /\ \A p \in Procs : pc[p] \in Ticking => age[p] = 0
      /\ age' = [p \in Procs |-> IF pc[p] \in Ticking THEN 1 ELSE 0]
      /\ left' = [v \in Visitors |-> IF v \in shoppers /\ left[v] > -2 THEN left[v] - 1 ELSE left[v]]
      /\ granted' = Aged(granted)
      /\ UNCHANGED <<queue, shoppers, pc, slots, popped>>
  BY DEF Second, room
<1>2. UNCHANGED <<Line, SlotsLeft>>
  BY <1>1, LineStays DEF SlotsLeft, Granted
<1>3. ASSUME NEW v \in Visitors
      PROVE  Time(v)' = IF Time(v) > 0 THEN Time(v) - 1 ELSE 0
  <2>1. left[v] \in -2..Ttl /\ Ttl \in Nat /\ -2..Ttl \subseteq Int
    BY DEF RInv, TypeOK, RoomAssumption
  <2>2. CASE v \in shoppers /\ left[v] > 0
    BY <1>1, <2>1, <2>2 DEF Time, Shopping
  <2>3. CASE ~(v \in shoppers /\ left[v] > 0)
    <3>1. ~(v \in shoppers' /\ left'[v] > 0)
      BY <1>1, <2>1, <2>3
    <3> QED
      BY <2>3, <3>1 DEF Time, Shopping
  <2> QED
    BY <2>2, <2>3
<1>4. ASSUME NEW v \in Visitors
      PROVE  TimeLeft(v)' = IF TimeLeft(v) > 0 THEN TimeLeft(v) - 1 ELSE 0
  <2>1. CASE \A p \in Procs : pc[p] # "put"
    <3>1. TimeLeft(v) = Time(v) /\ TimeLeft(v)' = Time(v)'
      BY <1>1, <2>1 DEF MapFacts
    <3> QED
      BY <1>3, <3>1
  <2>2. ASSUME NEW p \in Procs, pc[p] = "put"
        PROVE  TimeLeft(v)' = IF TimeLeft(v) > 0 THEN TimeLeft(v) - 1 ELSE 0
    <3>1. TimeLeft(v) = IF v \in ToSet(popped[p]) THEN Ttl - age[p] ELSE Time(v)
      BY <2>2 DEF MapFacts
    <3>2. TimeLeft(v)' = IF v \in ToSet(popped[p]) THEN Ttl - age'[p] ELSE Time(v)'
      BY <1>1, <2>2 DEF MapFacts
    <3>3. age[p] = 0 /\ age'[p] = 1 /\ Ttl \in Nat \ {0}
      BY <1>1, <2>2 DEF Ticking, RoomAssumption
    <3> QED
      BY <1>3, <3>1, <3>2, <3>3
  <2> QED
    BY <2>1, <2>2
<1>5. granted' \in {[a \in Ages |-> IF a = 1 THEN r ELSE 0] : r \in {granted[0], 0}}
  <2>1. CASE \E p \in Procs : pc[p] \in Ticking
    <3>1. granted' = [a \in Ages |-> IF a = 1 THEN granted[0] ELSE 0]
      BY <1>1, <2>1 DEF Aged
    <3> QED
      BY <3>1
  <2>2. CASE \A p \in Procs : pc[p] \notin Ticking
    <3>1. granted' = [a \in Ages |-> IF a = 1 THEN 0 ELSE 0]
      BY <1>1, <2>2 DEF Aged
    <3> QED
      BY <3>1
  <2> QED
    BY <2>1, <2>2
<1>6. [v \in Visitors |-> TimeLeft(v)]' =
        [v \in Visitors |-> IF [u \in Visitors |-> TimeLeft(u)][v] > 0
                              THEN [u \in Visitors |-> TimeLeft(u)][v] - 1 ELSE 0]
  BY <1>4
<1> QED
  BY <1>2, <1>5, <1>6 DEF Ledger!Second, Ledger!Ages, Ages


(* Whoever comes with scores above everybody's stands behind everybody.     *)
LEMMA LineGrows ==
  ASSUME RoomAssumption, RInv, LineFacts, LineFacts', NEW order \in Seq(Visitors),
         \A i, j \in 1..Len(order) : i < j => queue'[order[i]] < queue'[order[j]],
         \A v \in Queued : queue'[v] = queue[v],
         \A v \in Queued, i \in 1..Len(order) : queue[v] < queue'[order[i]],
         Queued' = Queued \union ToSet(order)
  PROVE  Line' = Line \o order
<1> SUFFICES ASSUME NEW s, s = Line \o order
             PROVE  s = Line'
  OBVIOUS
<1> DEFINE l == Len(Line)
           n == Len(order)
<1>1. /\ Line \in Seq(Visitors) /\ ToSet(Line) = Queued
      /\ \A i, j \in 1..l : i < j => queue[Line[i]] < queue[Line[j]]
      /\ l \in Nat /\ n \in Nat /\ DOMAIN Line = 1..l /\ DOMAIN order = 1..n
  BY LenProperties DEF LineFacts, Ordered
<1>2. /\ s \in Seq(Visitors) /\ Len(s) = l + n
      /\ \A i \in 1..l + n : s[i] = IF i <= l THEN Line[i] ELSE order[i - l]
  BY <1>1, ConcatProperties
<1>3. DOMAIN s = 1..l + n
  BY <1>2, LenProperties
<1> HIDE DEF l, n
<1>4. /\ \A i \in 1..l : i \in 1..l + n /\ i <= l
      /\ \A i \in 1..n : i + l \in 1..l + n /\ ~(i + l <= l) /\ i + l - l = i
      /\ \A i \in 1..l + n : IF i <= l THEN i \in 1..l ELSE i - l \in 1..n
  BY <1>1
<1>5. \A i \in 1..l : s[i] = Line[i] /\ Line[i] \in Queued
  <2>1. \A i \in 1..l : Line[i] \in ToSet(Line)
    BY <1>1 DEF ToSet
  <2> QED
    BY <1>1, <1>2, <1>4, <2>1
<1>6. \A i \in 1..n : s[i + l] = order[i] /\ order[i] \in ToSet(order)
  <2>1. \A i \in 1..n : order[i] \in ToSet(order)
    BY <1>1 DEF ToSet
  <2>2. ASSUME NEW i \in 1..n
        PROVE  s[i + l] = order[i]
    <3> DEFINE k == i + l
    <3>1. k \in 1..l + n /\ ~(k <= l) /\ k - l = i
      BY <1>1
    <3> HIDE DEF k
    <3>2. s[k] = order[i]
      BY <1>2, <3>1
    <3> QED
      BY <3>2 DEF k
  <2> QED
    BY <2>1, <2>2
<1>7. ToSet(s) = Queued'
  <2>1. ASSUME NEW i \in 1..l + n
        PROVE  s[i] \in Queued \union ToSet(order)
    <3>1. CASE i <= l
      BY <1>4, <1>5, <3>1
    <3>2. CASE ~(i <= l)
      <4>1. i - l \in 1..n /\ s[i] = order[i - l]
        BY <1>2, <1>4, <3>2
      <4> QED
        BY <1>6, <4>1
    <3> QED
      BY <3>1, <3>2
  <2>2. ASSUME NEW v \in Queued
        PROVE  v \in ToSet(s)
    <3>1. PICK i \in 1..l : Line[i] = v
      BY <1>1 DEF ToSet
    <3> QED
      BY <1>3, <1>4, <1>5, <3>1 DEF ToSet
  <2>3. ASSUME NEW v \in ToSet(order)
        PROVE  v \in ToSet(s)
    <3>1. PICK i \in 1..n : order[i] = v
      BY <1>1 DEF ToSet
    <3>2. s[i + l] = v /\ i + l \in 1..l + n
      BY <1>4, <1>6, <3>1
    <3> QED
      BY <1>3, <3>2 DEF ToSet
  <2>4. ToSet(s) = {s[i] : i \in 1..l + n}
    BY <1>3 DEF ToSet
  <2>5. ToSet(s) \subseteq Queued \union ToSet(order)
    BY <2>1, <2>4
  <2> QED
    BY <2>2, <2>3, <2>5
<1>8. ASSUME NEW i \in 1..l + n, NEW j \in 1..l + n, i < j
      PROVE  queue'[s[i]] < queue'[s[j]]
  <2>1. CASE j <= l
    <3>1. i \in 1..l /\ j \in 1..l
      BY <1>1, <1>8, <2>1
    <3> QED
      BY <1>1, <1>5, <1>8, <3>1 DEF l
  <2>2. CASE i <= l /\ ~(j <= l)
    <3>1. i \in 1..l /\ j - l \in 1..n /\ s[j] = order[j - l]
      BY <1>2, <1>4, <2>2
    <3> QED
      BY <1>5, <3>1 DEF n
  <2>3. CASE ~(i <= l)
    <3>1. ~(j <= l)
      BY <1>1, <1>8, <2>3
    <3>2. /\ i - l \in 1..n /\ s[i] = order[i - l]
          /\ j - l \in 1..n /\ s[j] = order[j - l] /\ i - l < j - l
      BY <1>1, <1>2, <1>4, <1>8, <2>3, <3>1
    <3> QED
      BY <3>2 DEF n
  <2> QED
    BY <2>1, <2>2, <2>3
<1>9. Ordered(s)'
  BY <1>2, <1>8 DEF Ordered
<1> QED
  BY <1>2, <1>7, <1>9 DEF LineFacts


LEMMA LedgerArrive ==
  ASSUME RoomAssumption, RInv, MapFacts, MapFacts', NEW order \in Seq(Visitors),
         \A i, j \in 1..Len(order) : i < j => queue'[order[i]] < queue'[order[j]],
         \A i, j \in 1..Len(order) : order[i] = order[j] => i = j,
         \A i \in 1..Len(order) : order[i] \notin Queued /\ order[i] \notin Shopping,
         \A v \in Queued : queue'[v] = queue[v],
         \A v \in Queued, i \in 1..Len(order) : queue[v] < queue'[order[i]],
         Queued' = Queued \union ToSet(order),
         \A v \in Visitors : TimeLeft(v) = Time(v) /\ TimeLeft(v)' = Time(v),
         UNCHANGED <<SlotsLeft, granted>>
  PROVE  Ledger!Next
<1> DEFINE V == ToSet(order)
           n == Len(order)
<1>1. Line' = Line \o order
  BY LineGrows DEF MapFacts
<1>2. n \in Nat /\ DOMAIN order = 1..n /\ \A i \in 1..n : order[i] \in Visitors /\ order[i] \in V
  BY LenProperties DEF ToSet
<1>3. V \in SUBSET Visitors /\ \A v \in V : \E i \in 1..n : order[i] = v
  BY <1>2 DEF ToSet
<1> HIDE DEF V
<1>4. order \in [1..n -> V]
  <2>1. order = [i \in DOMAIN order |-> order[i]]
    BY LenProperties
  <2> QED
    BY <1>2, <2>1
<1>5. Cardinality(V) = n
  <2>1. order \in Bijection(1..n, V)
    <3>1. \A i, j \in 1..n : order[i] = order[j] => i = j
      OBVIOUS
    <3> HIDE DEF n
    <3> QED
      BY <1>2, <1>3, <1>4, <3>1 DEF Bijection, Injection, Surjection, IsInjective
  <2> HIDE DEF n
  <2>2. IsFiniteSet(1..n) /\ Cardinality(1..n) = n
    BY <1>2, FS_Interval
  <2> QED
    BY <2>1, <2>2, FS_Bijection DEF ExistsBijection
<1>6. order \in Ledger!SetToSeqs(V)
  BY <1>4, <1>5, LedgerCounts DEF Ledger!SetToSeqs
<1>7. \A v \in V : ~Ledger!InLine(v) /\ v \notin Ledger!Shopping
  <2>1. \A i \in 1..Len(Line) : Line[i] \in Queued
    BY LenProperties DEF MapFacts, LineFacts, ToSet
  <2>2. \A v \in V : v \notin Queued /\ v \notin Shopping
    BY <1>3
  <2>3. Ledger!Shopping = Shopping
    BY LedgerShopping
  <2> QED
    BY <2>1, <2>2, <2>3 DEF Ledger!InLine
<1>8. [v \in Visitors |-> TimeLeft(v)]' = [v \in Visitors |-> TimeLeft(v)]
  OBVIOUS
<1>9. Ledger!Arrive(V)
  BY <1>1, <1>6, <1>7, <1>8 DEF Ledger!Arrive
<1> QED
  BY <1>3, <1>9 DEF Ledger!Next


(* A join goes to the end of the line.                                      *)
LEMMA LedgerEnqueue ==
  ASSUME RoomAssumption, Serial, RInv, LInv, MapFacts, MapFacts', UNCHANGED flood,
         NEW t \in Requests, Enqueue(t)
  PROVE  Ledger!Next
<1> DEFINE v == visitor[t]
<1>1. /\ pc[t] = "enqueue" /\ Goto(t, "tick") /\ t \in Procs
      /\ queue' = [queue EXCEPT ![v] = ScoreToKeep(v, score[t])]
      /\ UNCHANGED <<floor, granted>>
  BY DEF Enqueue, limiter, Procs
<1>2. v \in Visitors /\ queue \in [Visitors -> Nat]
  BY <1>1 DEF RInv, CallInv, TypeOK, RoomAssumption
<1>3. /\ queue[v] = 0 /\ score[t] = seq /\ v \notin Shopping
      /\ \A u \in Visitors : queue[u] < seq
  BY <1>1 DEF LInv, JoinInv
<1> HIDE DEF v
<1>4. seq > 0 /\ seq \in Nat
  BY <1>2, <1>3 DEF RInv, TypeOK, RoomAssumption
<1>5. \A u \in Visitors : queue'[u] = IF u = v THEN seq ELSE queue[u]
  BY <1>1, <1>2, <1>3 DEF ScoreToKeep
<1>6. Queued' = Queued \union {v} /\ v \notin Queued
  <2>1. v \notin Queued /\ Queued \subseteq Visitors
    BY <1>2, <1>3 DEF Queued
  <2>2. \A u \in Visitors : queue'[u] > 0 <=> u = v \/ queue[u] > 0
    BY <1>4, <1>5
  <2> QED
    BY <1>2, <2>1, <2>2 DEF Queued
<1>7. \A u \in Visitors : TimeLeft(u) = Time(u) /\ TimeLeft(u)' = Time(u)
  <2>1. "tick" \in States
    BY DEF States
  <2> QED
    BY <1>1, <2>1, ViewOfCall, TimeStays
<1>8. SlotsLeft' = SlotsLeft
  <2>1. "tick" \in States /\ "tick" \notin InSlots /\ "enqueue" \notin InSlots
    BY DEF States, InSlots
  <2> QED
    BY <1>1, <2>1, ViewOfCall
<1> DEFINE order == <<v>>
<1>9. /\ order \in Seq(Visitors) /\ Len(order) = 1 /\ order[1] = v
      /\ ToSet(order) = {v} /\ \A i \in 1..1 : i = 1
  BY <1>2 DEF ToSet
<1> HIDE DEF order
<1>10. \A i, j \in 1..Len(order) : i = 1 /\ j = 1
  BY <1>9
<1>11. \A u \in Queued : queue'[u] = queue[u] /\ queue[u] < queue'[v]
  BY <1>2, <1>3, <1>5, <1>6 DEF Queued
<1>12. \A i \in 1..Len(order) : order[i] = v
  BY <1>9, <1>10
<1>13. \A i, j \in 1..Len(order) : ~(i < j)
  BY <1>10
<1> QED
  BY <1>1, <1>3, <1>6, <1>7, <1>8, <1>9, <1>10, <1>11, <1>12, <1>13, LedgerArrive

LEMMA BatchRange ==
  ASSUME NEW a \in Nat, NEW b \in Nat, NEW c \in Nat, a <= b, b <= c
  PROVE  /\ b - a \in Nat /\ b = a + (b - a)
         /\ \A k \in 1..b - a : a + k \in 1..c /\ a + k \in a + 1..b /\ a + k \in a + 1..c
         /\ \A i \in a + 1..b : i - a \in 1..b - a /\ a + (i - a) = i
OBVIOUS

(* A batch of the flood does so too, in the order of the batch.             *)
LEMMA LedgerFloodLine ==
  ASSUME RoomAssumption, Serial, RInv, LInv, MapFacts, MapFacts', FloodLine
  PROVE  Ledger!Next
<1> DEFINE n == flooded' - flooded
           order == [k \in 1..n |-> Fans[flooded + k]]
<1>1. /\ Flooding /\ flooded' = Least(flooded + FloodBatch, Len(Fans))
      /\ UNCHANGED <<seq, floor, granted, pc, age, slots, popped, seqEnd>>
  BY DEF FloodLine, limiter, tick
<1>2. \A p \in Procs : pc[p] = "idle" /\ pc'[p] = "idle"
  BY <1>1 DEF LInv, OneCall
<1>3. /\ seqEnd \in Nat /\ Len(Fans) \in Nat /\ flooded \in Nat /\ seqEnd > 0
      /\ flooded' \in Nat /\ flooded' <= Len(Fans) /\ flooded <= flooded' /\ Len(Fans) <= seqEnd
  BY <1>1, FansAreFinite, FloodBatchScores DEF Flooding, RInv, TypeOK, ScoreInv, RoomAssumption
<1>4. n \in Nat /\ flooded' = flooded + n
  BY <1>3, BatchRange
<1>5. ASSUME NEW k \in 1..n
      PROVE  /\ flooded + k \in 1..Len(Fans) /\ flooded + k \in flooded + 1..flooded'
             /\ flooded + k \in flooded + 1..Len(Fans)
  BY <1>3, BatchRange
<1>6. \A k \in 1..n : Fans[flooded + k] \in Visitors /\ queue[Fans[flooded + k]] = 0
                      /\ Fans[flooded + k] \notin Shopping
  BY <1>5, FansAreFinite DEF LInv, FloodInv, Shopping
<1>7. ASSUME NEW k \in 1..n
      PROVE  queue'[Fans[flooded + k]] = FloodScore(flooded + k)
  BY <1>5, <1>6, FloodBatchScores
<1>8. \A k \in 1..n : FloodScore(flooded + k) > 0 /\ FloodScore(flooded + k) \in Nat
  BY <1>3, <1>5 DEF FloodScore
<1>9. \A v \in Visitors : queue[v] \in Nat /\ queue[v] <= FloodScore(flooded)
  BY <1>1 DEF LInv, FloodInv, RInv, TypeOK, RoomAssumption
<1>10. ASSUME NEW v \in Visitors
       PROVE  queue'[v] = queue[v] \/ (queue[v] = 0 /\ \E k \in 1..n : Fans[flooded + k] = v)
  <2>1. SUFFICES ASSUME NEW i \in flooded + 1..flooded', Fans[i] = v, queue[v] = 0
                 PROVE  \E k \in 1..n : Fans[flooded + k] = v
    BY FloodBatchScores
  <2>2. i - flooded \in 1..n /\ flooded + (i - flooded) = i
    BY <1>3, BatchRange
  <2> QED
    BY <2>1, <2>2
<1>11. order \in Seq(Visitors) /\ Len(order) = n /\ DOMAIN order = 1..n
       /\ \A k \in 1..n : order[k] = Fans[flooded + k]
  <2>1. order \in [1..n -> Visitors]
    BY <1>6
  <2>2. order \in Seq(Visitors) /\ DOMAIN order = 1..n
    BY <1>4, <2>1, SeqDef
  <2>3. DOMAIN order = 1..Len(order) /\ Len(order) \in Nat
    BY <2>2, LenProperties
  <2>4. \A k \in 1..n : order[k] = Fans[flooded + k]
    OBVIOUS
  <2> HIDE DEF order, n
  <2> QED
    BY <1>4, <2>2, <2>3, <2>4
<1> HIDE DEF order, n
<1>12. ASSUME NEW j \in 1..n, NEW k \in 1..n, order[j] = order[k]
       PROVE  j = k
  <2>1. flooded + j = flooded + k
    BY <1>5, <1>11, <1>12, FansAreFinite DEF RoomAssumption, IsInjective
  <2> QED
    BY <1>3, <1>4, <2>1
<1>13. ASSUME NEW j \in 1..n, NEW k \in 1..n, j < k
       PROVE  queue'[order[j]] < queue'[order[k]]
  <2>1. FloodScore(flooded + j) < FloodScore(flooded + k)
    BY <1>3, <1>4, <1>13 DEF FloodScore
  <2> QED
    BY <1>7, <1>11, <2>1
<1>14. \A k \in 1..n : order[k] \notin Queued /\ order[k] \notin Shopping
  <2>1. \A k \in 1..n : queue[order[k]] = 0 /\ order[k] \notin Shopping
    BY <1>6, <1>11
  <2> QED
    BY <2>1 DEF Queued
<1>15. \A v \in Queued : v \in Visitors /\ queue'[v] = queue[v]
  BY <1>9, <1>10 DEF Queued
<1>16. ASSUME NEW v \in Queued, NEW k \in 1..n
       PROVE  queue[v] < queue'[order[k]]
  <2>1. queue[v] <= FloodScore(flooded) /\ queue[v] \in Nat
    BY <1>9, <1>15
  <2>2. FloodScore(flooded) < FloodScore(flooded + k)
    BY <1>3, <1>4 DEF FloodScore
  <2>3. FloodScore(flooded) \in Int /\ FloodScore(flooded + k) \in Int
    BY <1>3, <1>4 DEF FloodScore
  <2> HIDE DEF FloodScore
  <2> QED
    BY <1>7, <1>11, <2>1, <2>2, <2>3
<1>17. Queued' = Queued \union ToSet(order)
  <2>1. ASSUME NEW v \in Visitors, queue'[v] > 0
        PROVE  v \in Queued \/ v \in ToSet(order)
    BY <1>10, <1>11, <2>1 DEF Queued, ToSet
  <2>2. ASSUME NEW k \in 1..n
        PROVE  queue'[order[k]] > 0 /\ order[k] \in Visitors
    BY <1>6, <1>7, <1>8, <1>11
  <2>3. \A v \in ToSet(order) : queue'[v] > 0 /\ v \in Visitors
    BY <1>11, <2>2 DEF ToSet
  <2>4. \A v \in Queued : queue'[v] > 0 /\ v \in Visitors
    BY <1>15 DEF Queued
  <2> QED
    BY <2>1, <2>3, <2>4 DEF Queued
<1>18. UNCHANGED SlotsLeft
  BY <1>1 DEF SlotsLeft, Granted
<1>19. \A v \in Visitors : TimeLeft(v) = Time(v) /\ TimeLeft(v)' = Time(v)
  <2>1. \A v \in Visitors : TimeLeft(v) = Time(v) /\ TimeLeft(v)' = Time(v)'
    BY <1>2 DEF MapFacts
  <2> QED
    BY <1>1, <2>1, TimeStays
<1>20. /\ \A i, j \in 1..Len(order) : i < j => queue'[order[i]] < queue'[order[j]]
       /\ \A i, j \in 1..Len(order) : order[i] = order[j] => i = j
       /\ \A i \in 1..Len(order) : order[i] \notin Queued /\ order[i] \notin Shopping
       /\ \A v \in Queued, i \in 1..Len(order) : queue[v] < queue'[order[i]]
  BY <1>11, <1>12, <1>13, <1>14, <1>16
<1> QED
  BY <1>1, <1>11, <1>15, <1>17, <1>18, <1>19, <1>20, LedgerArrive


(* Without its first n visitors, the line is what was behind them.          *)
LEMMA LineShrinks ==
  ASSUME RoomAssumption, RInv, LineFacts, LineFacts', NEW n \in Nat, n <= Len(Line),
         NEW front, front = {Line[i] : i \in 1..n},
         \A v \in Visitors : queue'[v] = IF v \in front THEN 0 ELSE queue[v]
  PROVE  Line' = SubSeq(Line, n + 1, Len(Line))
<1> SUFFICES ASSUME NEW s, s = SubSeq(Line, n + 1, Len(Line))
             PROVE  s = Line'
  OBVIOUS
<1> DEFINE l == Len(Line)
<1>1. /\ Line \in Seq(Visitors) /\ ToSet(Line) = Queued /\ Queued \subseteq Visitors
      /\ \A i, j \in 1..l : i < j => queue[Line[i]] < queue[Line[j]]
      /\ l \in Nat /\ DOMAIN Line = 1..l /\ n <= l
  BY LenProperties DEF LineFacts, Ordered, Queued
<1>2. \A i \in 1..l : Line[i] \in Queued /\ queue[Line[i]] \in Nat
  <2>1. \A i \in 1..l : Line[i] \in ToSet(Line)
    BY <1>1 DEF ToSet
  <2>2. \A v \in Queued : queue[v] \in Nat
    BY <1>1 DEF RInv, TypeOK, RoomAssumption
  <2> QED
    BY <1>1, <2>1, <2>2
<1>3. \A i, j \in 1..l : Line[i] = Line[j] => i = j
  <2> SUFFICES ASSUME NEW i \in 1..l, NEW j \in 1..l, Line[i] = Line[j], i # j
               PROVE  FALSE
    OBVIOUS
  <2>1. queue[Line[i]] < queue[Line[j]] \/ queue[Line[j]] < queue[Line[i]]
    BY <1>1
  <2> QED
    BY <1>2, <2>1
<1> DEFINE m == l - n
<1>4. m \in Nat
  BY <1>1
<1>5. s \in Seq(Visitors) /\ Len(s) = m /\ \A i \in 1..m : s[i] = Line[n + i]
  <2>1. \A i \in n + 1..l : Line[i] \in Visitors
    BY <1>1, <1>2
  <2>2. n + 1 \in Int /\ l \in Int /\ l - (n + 1) + 1 = m /\ \A i \in Int : n + 1 + i - 1 = n + i
    BY <1>1
  <2>3. /\ s \in Seq(Visitors)
        /\ Len(s) = IF n + 1 <= l THEN l - (n + 1) + 1 ELSE 0
        /\ \A i \in 1..l - (n + 1) + 1 : s[i] = Line[n + 1 + i - 1]
    <3> HIDE DEF l, m
    <3> QED
      BY <2>1, <2>2, SubSeqProperties DEF l
  <2>4. Len(s) = m
    <3> DEFINE k == Len(s)
    <3>1. k = IF n + 1 <= l THEN l - (n + 1) + 1 ELSE 0
      BY <2>3
    <3> HIDE DEF k, l
    <3>2. k = l - n
      BY <1>1, <3>1
    <3> QED
      BY <3>2 DEF k
  <2>5. ASSUME NEW i \in 1..m
        PROVE  s[i] = Line[n + i]
    <3>1. i \in 1..l - (n + 1) + 1 /\ n + 1 + i - 1 = n + i
      BY <1>1
    <3>2. s[i] = Line[n + 1 + i - 1]
      BY <2>3, <3>1
    <3> QED
      BY <3>1, <3>2
  <2> QED
    BY <2>3, <2>4, <2>5
<1>6. DOMAIN s = 1..m
  BY <1>5, LenProperties
<1>7. /\ \A i \in 1..m : n + i \in 1..l /\ n + i \notin 1..n
      /\ \A i \in 1..l : i \in 1..n \/ (i - n \in 1..m /\ n + (i - n) = i)
      /\ \A i \in 1..n : i \in 1..l
      /\ \A i, j \in 1..m : i < j => n + i < n + j
  BY <1>1
<1> HIDE DEF l, m
<1>8. ASSUME NEW i \in 1..m
      PROVE  /\ s[i] \in Queued /\ s[i] \notin front /\ queue'[s[i]] = queue[s[i]]
             /\ queue[s[i]] = queue[Line[n + i]]
  <2>1. s[i] = Line[n + i] /\ n + i \in 1..l /\ n + i \notin 1..n
    BY <1>5, <1>7
  <2>2. s[i] \notin front
    <3> SUFFICES ASSUME NEW j \in 1..n, Line[j] = Line[n + i]
                 PROVE  FALSE
      BY <2>1
    <3>1. j \in 1..l
      BY <1>7
    <3> QED
      BY <1>3, <2>1, <3>1
  <2> QED
    BY <1>1, <1>2, <2>1, <2>2
<1>9. \A v : v \in Queued' <=> v \in Queued /\ v \notin front
  <2>1. \A v \in Visitors : queue'[v] > 0 <=> queue[v] > 0 /\ v \notin front
    OBVIOUS
  <2> QED
    BY <2>1 DEF Queued
<1>10. ToSet(s) = Queued'
  <2>1. ToSet(s) = {s[i] : i \in 1..m}
    BY <1>6 DEF ToSet
  <2>2. ASSUME NEW v \in Queued, v \notin front
        PROVE  \E i \in 1..m : s[i] = v
    <3>1. PICK i \in 1..l : Line[i] = v
      BY <1>1 DEF ToSet
    <3>2. i \notin 1..n
      BY <2>2, <3>1
    <3>3. i - n \in 1..m /\ n + (i - n) = i
      BY <1>7, <3>2
    <3>4. s[i - n] = v
      BY <1>5, <3>1, <3>3
    <3> QED
      BY <3>3, <3>4
  <2>3. ASSUME NEW v \in ToSet(s)
        PROVE  v \in Queued /\ v \notin front
    <3>1. PICK i \in 1..m : v = s[i]
      BY <2>1
    <3> QED
      BY <1>8, <3>1
  <2>4. ASSUME NEW v \in Queued, v \notin front
        PROVE  v \in ToSet(s)
    BY <2>1, <2>2, <2>4
  <2> QED
    BY <1>9, <2>3, <2>4
<1>11. Ordered(s)'
  <2> SUFFICES ASSUME NEW i \in 1..m, NEW j \in 1..m, i < j
               PROVE  queue'[s[i]] < queue'[s[j]]
    BY <1>5 DEF Ordered
  <2>1. queue[Line[n + i]] < queue[Line[n + j]]
    BY <1>1, <1>7
  <2> QED
    BY <1>8, <2>1
<1> QED
  BY <1>5, <1>10, <1>11 DEF LineFacts

(* What a tick pops is admitted, with the clock that the tick has read.     *)
LEMMA LedgerPopFront ==
  ASSUME RoomAssumption, Serial, RInv, LInv, MapFacts, MapFacts', UNCHANGED flood,
         NEW p \in Procs, PopFront(p)
  PROVE  Ledger!Next \/ UNCHANGED Ledger!vars
<1> DEFINE s == IF popped'[p] = <<>> THEN AfterTick(p) ELSE "put"
<1>1. PICK first : first = FirstInLine(slots[p])
  OBVIOUS
<1>2. /\ pc[p] = "pop" /\ popped' = [popped EXCEPT ![p] = first]
      /\ queue' = [v \in Visitors |-> IF v \in ToSet(popped'[p]) THEN 0 ELSE queue[v]]
      /\ slots' = [slots EXCEPT ![p] = 0]
      /\ Goto(p, s)
      /\ UNCHANGED <<floor, granted, age>>
  BY <1>1 DEF PopFront, limiter
<1>3. popped'[p] = first /\ slots[p] \in 0..Bulkhead /\ age[p] \in Ages /\ Bulkhead \in Nat
  BY <1>2 DEF RInv, TypeOK, RoomAssumption
<1>4. s \in States /\ s \notin InSlots /\ (s # "put" => first = <<>>)
  BY <1>3 DEF States, Ticking, InSlots, AfterTick
<1> HIDE DEF s
<1> DEFINE n == Len(first)
           front == {Line[i] : i \in 1..n}
<1>5. /\ first \in Seq(Visitors) /\ n = Least(slots[p], Len(Line))
      /\ \A i \in 1..n : first[i] = Line[i]
      /\ n \in Nat /\ DOMAIN first = 1..n
  <2>1. /\ first \in Seq(Visitors) /\ Len(first) = Least(slots[p], Len(Line))
        /\ \A i \in 1..Len(first) : first[i] = Line[i]
    <3>1. slots[p] \in Nat
      BY <1>3
    <3> QED
      BY <1>1, <3>1, FrontIsAPrefix DEF RInv
  <2> QED
    BY <2>1, LenProperties
<1>6. Len(Line) \in Nat
  BY LenProperties DEF MapFacts, LineFacts
<1>7. n <= slots[p] /\ n <= Len(Line)
  BY <1>3, <1>5, <1>6 DEF Least
<1>8. ToSet(first) = front
  BY <1>5 DEF ToSet
<1>9. \A v \in Visitors : queue'[v] = IF v \in front THEN 0 ELSE queue[v]
  BY <1>2, <1>3, <1>8
<1>10. n = 0 <=> first = <<>>
  BY <1>5, EmptySeq
<1> HIDE DEF n, front
<1>11. Line' = SubSeq(Line, n + 1, Len(Line))
  BY <1>5, <1>7, <1>9, LineShrinks DEF MapFacts, front
<1>12. SlotsLeft = slots[p] /\ SlotsLeft' = 0
  BY <1>2, <1>4, ViewOfCall DEF InSlots
<1>13. ASSUME NEW v \in Visitors
       PROVE  TimeLeft(v)' = IF v \in front THEN Ttl - age[p] ELSE TimeLeft(v)
  <2>1. TimeLeft(v) = Time(v) /\ Time(v)' = Time(v)
    BY <1>2, <1>4, ViewOfCall, TimeStays
  <2>2. CASE s = "put"
    <3>1. pc'[p] = "put"
      BY <1>2, <2>2 DEF Goto, RInv, TypeOK
    <3> QED
      BY <1>2, <1>3, <1>8, <2>1, <3>1 DEF MapFacts
  <2>3. CASE s # "put"
    <3>1. TimeLeft(v)' = Time(v)'
      BY <1>2, <1>4, <2>3, ViewOfCall
    <3>2. front = {}
      BY <1>4, <1>8, <2>3 DEF ToSet
    <3> QED
      BY <2>1, <3>1, <3>2
  <2> QED
    BY <2>2, <2>3
<1>14. [v \in Visitors |-> TimeLeft(v)]' =
         [v \in Visitors |-> IF v \in front THEN Ttl - age[p] ELSE [u \in Visitors |-> TimeLeft(u)][v]]
  BY <1>13
<1>15. CASE n > 0
  <2>1. n \in 1..Bulkhead /\ age[p] \in Ledger!Ages
    BY <1>3, <1>5, <1>7, <1>15 DEF Ages, Ledger!Ages
  <2>2. Ledger!Admit(n, age[p])
    BY <1>2, <1>7, <1>11, <1>12, <1>14 DEF Ledger!Admit, front
  <2> QED
    BY <2>1, <2>2 DEF Ledger!Next
<1>16. CASE n = 0
  <2>1. front = {}
    BY <1>16 DEF front
  <2>2. UNCHANGED <<Line, [v \in Visitors |-> TimeLeft(v)], granted>>
    <3>1. queue' = queue
      BY <1>2, <1>9, <2>1 DEF RInv, TypeOK
    <3> QED
      BY <1>2, <1>13, <2>1, <3>1, LineStays
  <2>3. CASE slots[p] = 0
    BY <1>12, <2>2, <2>3 DEF Ledger!vars
  <2>4. CASE slots[p] # 0
    <3>1. 0 \in 0..slots[p] - 1
      BY <1>3, <2>4
    <3> QED
      BY <1>12, <2>2, <3>1 DEF Ledger!Waste, Ledger!Next
  <2> QED
    BY <2>3, <2>4
<1> QED
  BY <1>5, <1>15, <1>16



-----------------------------------------------------------------------------
(* The refinement                                                           *)

LEMMA LedgerInit == RoomAssumption /\ RInv /\ MapFacts /\ Init => Ledger!Init
<1> SUFFICES ASSUME RoomAssumption, RInv, MapFacts, Init
             PROVE  Ledger!Init
  OBVIOUS
<1>1. Line = <<>>
  <2> SUFFICES ASSUME NEW s, s = <<>>
               PROVE  s = Line
    OBVIOUS
  <2>1. s \in Seq(Visitors) /\ Len(s) = 0 /\ ToSet(s) = {}
    BY DEF ToSet
  <2>2. Queued = {}
    BY DEF Init, Queued
  <2>3. Ordered(s)
    BY <2>1 DEF Ordered
  <2> QED
    BY <2>1, <2>2, <2>3 DEF MapFacts, LineFacts
<1>2. \A p \in Procs : pc[p] = "idle"
  BY DEF Init
<1>3. SlotsLeft = 0 /\ \A v \in Visitors : TimeLeft(v) = Time(v)
  BY <1>2 DEF MapFacts
<1>4. \A v \in Visitors : Time(v) = 0
  BY DEF Init, Time, Shopping
<1>5. granted = [a \in Ages |-> 0]
  BY DEF Init
<1> QED
  BY <1>1, <1>3, <1>4, <1>5 DEF Ledger!Init, Ledger!Ages, Ages

LEMMA LedgerStep ==
  RoomAssumption /\ Serial /\ MaxFaults = 0 /\ RInv /\ LInv /\ LInv' /\ MapFacts /\ MapFacts'
    /\ [Next]_vars => [Ledger!Next]_Ledger!vars
<1> SUFFICES ASSUME RoomAssumption, Serial, MaxFaults = 0, RInv, LInv, LInv', MapFacts, MapFacts',
                    [Next]_vars
             PROVE  Ledger!Next \/ UNCHANGED Ledger!vars
  OBVIOUS
<1>1. CASE UNCHANGED vars
  BY <1>1 DEF vars, Ledger!vars, Line, Place, Queued, TimeLeft, InHand, Shopping, SlotsLeft, Granted
<1>2. ASSUME UNCHANGED flood, NEW t \in Requests, NEW v \in Visitors, StartJoin(t, v)
      PROVE  UNCHANGED Ledger!vars
  <2>1. t \in Procs
    BY DEF Procs
  <2> QED
    BY <1>2, <2>1, LedgerCall
<1>3. ASSUME UNCHANGED flood, NEW t \in Requests, Join(t)
      PROVE  Ledger!Next \/ UNCHANGED Ledger!vars
  <2>1. t \in Procs
    BY DEF Procs
  <2> QED
    BY <1>3, <2>1, LedgerCall, LedgerEnqueue DEF Join
<1>4. ASSUME UNCHANGED flood, NEW p \in Procs, AdmitTick(p)
      PROVE  Ledger!Next \/ UNCHANGED Ledger!vars
  BY <1>4, LedgerCall, LedgerIncrRate, LedgerQueueSize, LedgerPopFront, LedgerPutShopper
     DEF AdmitTick
<1>5. \A p \in Procs : ~FailCall(p)
  BY DEF FailCall, RInv, TypeOK
<1>6. CASE UNCHANGED flood /\ (Collect \/ Second)
  BY <1>6, LedgerAside, LedgerSecond DEF Ledger!Next
<1>7. CASE FloodScores \/ FloodLine
  BY <1>7, LedgerAside, LedgerFloodLine
<1> QED
  BY <1>1, <1>2, <1>3, <1>4, <1>5, <1>6, <1>7 DEF Next, CallStep

(* The calls of the room keep the promises of RoomLedger as long as they do *)
(* not overlap and none fails: nobody has two places, the line moves from   *)
(* its front, no tick admits more than its second and the bulkhead have     *)
(* room for.                                                                *)
THEOREM CallsImplementLedger == Serial /\ MaxFaults = 0 /\ Spec => ImplementsLedger
<1> SUFFICES ASSUME Serial, MaxFaults = 0
             PROVE  Spec => ImplementsLedger
  OBVIOUS
<1>1. RoomAssumption
  BY RoomAssumption
<1>2. RInv /\ LInv => MapFacts
  BY <1>1, Mapping
<1>3. RInv /\ MapFacts /\ Init => Ledger!Init
  BY <1>1, LedgerInit
<1>4. RInv /\ LInv /\ LInv' /\ MapFacts /\ MapFacts' /\ [Next]_vars => [Ledger!Next]_Ledger!vars
  BY <1>1, LedgerStep
<1>5. Spec => [](RInv /\ LInv)
  BY SerialInvariance
<1> QED
  BY <1>2, <1>3, <1>4, <1>5, PTL DEF Spec, ImplementsLedger, Ledger!Spec

=============================================================================
