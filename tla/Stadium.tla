------------------------------ MODULE Stadium ------------------------------
(***************************************************************************)
(* The stadium of a match (catalog/layout.py) and the seed that writes it  *)
(* to the database (catalog/seed.py), which any number of operators may    *)
(* run, one after the other or at once.                                    *)
(*                                                                         *)
(* A row label is a sequence of letters, and a letter is its distance from *)
(* "A".  SeatMap extends this module with what happens to the seats then.  *)
(***************************************************************************)
EXTENDS Integers, SequencesExt

CONSTANTS Layout,       \* the sections: their code, rows and seats_per_row
          Letters,      \* length of the alphabet of _row_label
          InsertChunk,  \* _INSERT_CHUNK
          Seeders,      \* runs of the seed
          None          \* no match

ASSUME LayoutAssumption ==
  /\ Letters \in Nat \ {0} /\ InsertChunk \in Nat \ {0}
  /\ \A i \in 1..Len(Layout) :
       Layout[i].rows \in Nat /\ Layout[i].seats_per_row \in Nat

VARIABLES
  arena,    \* the places of the committed match, or None
  seeding,  \* where each run of the seed stands
  drafted   \* seats it has inserted in its open transaction

(* Bugs: the digits of the number; a label of one letter.                   *)
BugDigits[remaining \in Nat] ==
  IF remaining < Letters THEN <<remaining>>
  ELSE Append(BugDigits[remaining \div Letters], remaining % Letters)
BugOneLetter(index) == <<index % Letters>>

Label[remaining \in Nat] ==
  IF remaining = 0 THEN <<>>
  ELSE Append(Label[(remaining - 1) \div Letters], (remaining - 1) % Letters)

BugRowLabel(index) == BugDigits[index]
RowLabel(index) == Label[index + 1]

SeatsOfRow(section, index) ==
  [n \in 1..section.seats_per_row |->
     [section |-> section.code, row |-> RowLabel(index), number |-> n]]

SeatsOfSection(section) ==
  FlattenSeq([r \in 1..section.rows |-> SeatsOfRow(section, r - 1)])

(* The seats in the order in which they are inserted. *)
SeatSpecs == FlattenSeq([i \in 1..Len(Layout) |-> SeatsOfSection(Layout[i])])

SeedInit ==
  /\ arena = None
  /\ seeding = [s \in Seeders |-> "idle"]
  /\ drafted = [s \in Seeders |-> 0]

SeedAt(s, where) == seeding' = [seeding EXCEPT ![s] = where]

EndSeed(s) == SeedAt(s, "idle") /\ drafted' = [drafted EXCEPT ![s] = 0]

(* A match with the slug of the layout is taken as it is. *)
LookForMatch(s) ==
  /\ seeding[s] = "idle" /\ arena = None
  /\ SeedAt(s, "match")
  /\ UNCHANGED <<arena, drafted>>

(* uq_matches_slug makes an insert wait for another one that is open.       *)
SlugIsOpen == \E t \in Seeders : seeding[t] \in {"seats", "ga", "commit"}

AddMatch(s) ==
  /\ seeding[s] = "match" /\ ~SlugIsOpen
  /\ \/ arena = None /\ SeedAt(s, "seats") /\ UNCHANGED drafted
     \/ arena # None /\ EndSeed(s)
  /\ UNCHANGED arena

ChunkEnd(s) ==
  LET last == drafted[s] + InsertChunk
  IN  IF last < Len(SeatSpecs) THEN last ELSE Len(SeatSpecs)

(* uq_seat_location fails a chunk with a place that is there already. *)
SeatLocationsDiffer(n) == IsInjective(SubSeq(SeatSpecs, 1, n))

InsertSeats(s) ==
  /\ seeding[s] = "seats"
  /\ \/ /\ SeatLocationsDiffer(ChunkEnd(s))
        /\ drafted' = [drafted EXCEPT ![s] = ChunkEnd(s)]
        /\ SeedAt(s, IF ChunkEnd(s) = Len(SeatSpecs) THEN "ga" ELSE "seats")
     \/ /\ ~SeatLocationsDiffer(ChunkEnd(s))
        /\ EndSeed(s)
  /\ UNCHANGED arena

AddGa(s) ==
  /\ seeding[s] = "ga"
  /\ SeedAt(s, "commit")
  /\ UNCHANGED <<arena, drafted>>

CommitSeed(s) ==
  /\ seeding[s] = "commit"
  /\ arena' = ToSet(SubSeq(SeatSpecs, 1, drafted[s]))
  /\ SeedAt(s, "reload")
  /\ UNCHANGED drafted

Reload(s) ==
  /\ seeding[s] = "reload" /\ arena # None
  /\ EndSeed(s)
  /\ UNCHANGED arena

(* Everything but the commit changes the seed's own transaction only. *)
SeedStep(s) == LookForMatch(s) \/ AddMatch(s) \/ InsertSeats(s) \/ AddGa(s) \/ Reload(s)

(* An error or the end of the process takes the whole transaction back. *)
FailSeed(s) == seeding[s] # "idle" /\ EndSeed(s) /\ UNCHANGED arena

(***************************************************************************)
(* The reference: names of rows are words, shorter ones first and then in  *)
(* alphabetical order, so that the row with k rows in front of it has the  *)
(* word with k words before it.                                            *)
(***************************************************************************)
Words(n) == [1..n -> 0..Letters - 1]

Before(v, w) ==
  \/ Len(v) < Len(w)
  \/ /\ Len(v) = Len(w)
     /\ \E i \in 1..Len(w) : v[i] < w[i] /\ \A j \in 1..i - 1 : v[j] = w[j]

RowNames(rows) ==
  LET words == UNION {Words(n) : n \in 1..rows}
  IN  {w \in words : Cardinality({v \in words : Before(v, w)}) < rows}

Places ==
  UNION {{[section |-> Layout[i].code, row |-> name, number |-> n] :
            name \in RowNames(Layout[i].rows), n \in 1..Layout[i].seats_per_row} :
         i \in 1..Len(Layout)}
=============================================================================
