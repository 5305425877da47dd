----------------------------- MODULE RoomLedger -----------------------------
(***************************************************************************)
(* What the waiting room promises, in the steps of the store that the      *)
(* tests use (waiting_room/memory.py): a line, the shoppers with the time  *)
(* they have left, and what each second has granted.  No two calls of that *)
(* store interleave, and no key runs out by itself.  WaitingRoom is shown  *)
(* to implement this module as long as its calls do not overlap.           *)
(***************************************************************************)
EXTENDS Integers, FiniteSets, SequencesExt

CONSTANTS Visitors, Bulkhead, PerSecond, Ttl

VARIABLES
  line,   \* the queued visitors in the order of their scores
  left,   \* seconds until a shopper's expires_at, 0 for everybody else
  rate,   \* admissions granted in this second and in the one before
  slots   \* granted to the tick that is running, and not used yet

vars == <<line, left, rate, slots>>

Ages == 0..1
Shopping == {v \in Visitors : left[v] > 0}
InLine(v) == \E i \in 1..Len(line) : line[i] = v

Init == /\ line = <<>>
        /\ left = [v \in Visitors |-> 0]
        /\ rate = [a \in Ages |-> 0]
        /\ slots = 0

(* A visitor has one place: among the shoppers, or in the line. Whoever     *)
(* comes goes to the end of it, one visitor with a join, many in a flood.   *)
Arrive(V) ==
  /\ \A v \in V : ~InLine(v) /\ v \notin Shopping
  /\ line' \in {line \o order : order \in SetToSeqs(V)}
  /\ UNCHANGED <<left, rate, slots>>

(* Granted out of what the tick's second and the bulkhead have to give. *)
TakeRateTokens(n, a) ==
  /\ slots = 0
  /\ rate[a] + n <= PerSecond /\ Cardinality(Shopping) + n <= Bulkhead
  /\ rate' = [rate EXCEPT ![a] = @ + n]
  /\ slots' = n
  /\ UNCHANGED <<line, left>>

(* pop_front and put_shopper, whose clock is the one the tick has read. *)
Admit(n, a) ==
  /\ n <= slots /\ n <= Len(line)
  /\ LET front == {line[i] : i \in 1..n}
     IN  left' = [v \in Visitors |-> IF v \in front THEN Ttl - a ELSE left[v]]
  /\ line' = SubSeq(line, n + 1, Len(line))
  /\ slots' = 0
  /\ UNCHANGED rate

(* A tick that finds nobody wastes what it was granted. *)
Waste == slots' \in 0..slots - 1 /\ UNCHANGED <<line, left, rate>>

(* A second later: shoppers run out, and each second counts for itself. *)
Second ==
  /\ left' = [v \in Visitors |-> IF left[v] > 0 THEN left[v] - 1 ELSE 0]
  /\ rate' \in {[a \in Ages |-> IF a = 1 THEN r ELSE 0] : r \in {rate[0], 0}}
  /\ UNCHANGED <<line, slots>>

Next == \/ \E V \in SUBSET Visitors : Arrive(V)
        \/ \E n \in 1..Bulkhead, a \in Ages : TakeRateTokens(n, a) \/ Admit(n, a)
        \/ Waste \/ Second

Spec == Init /\ [][Next]_vars
=============================================================================
