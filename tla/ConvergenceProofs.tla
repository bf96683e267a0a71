------------------------- MODULE ConvergenceProofs --------------------------
(***************************************************************************)
(* What Convergence promises for any readers, rows, songs, places and      *)
(* stamps, and any number of operations: a list is what was heard, in no   *)
(* order, and what was removed stays so.                                   *)
(***************************************************************************)
EXTENDS Convergence, TLAPS

\* A place is not none, and a stamp is later than none.
PlacesAndStamps ==
  /\ NoPlace \notin Places
  /\ Stamps \subseteq [nanos : Nat \ {0}, device : Nat]

-----------------------------------------------------------------------------
(* Stamps.                                                                 *)

LEMMA StampsAreOrdered ==
  ASSUME PlacesAndStamps, NEW a \in Stamps, NEW b \in Stamps
  PROVE  a = b \/ Later(a, b) \/ Later(b, a)
<1>1. /\ a = [nanos |-> a.nanos, device |-> a.device]
      /\ b = [nanos |-> b.nanos, device |-> b.device]
      /\ a.nanos \in Nat /\ a.device \in Nat /\ b.nanos \in Nat /\ b.device \in Nat
  BY DEF PlacesAndStamps
<1>2. QED
  BY <1>1 DEF Later

LEMMA LaterIsTransitive ==
  ASSUME PlacesAndStamps, NEW a \in Stamps, NEW b \in Stamps, NEW c \in Stamps,
         Later(a, b), ~Later(c, b)
  PROVE  ~Later(c, a)
  BY DEF PlacesAndStamps, Later

LEMMA LaterIsIrreflexive ==
  ASSUME PlacesAndStamps, NEW a \in Stamps
  PROVE  ~Later(a, a)
  BY DEF PlacesAndStamps, Later

LEMMA AnyStampIsLaterThanNone ==
  ASSUME PlacesAndStamps, NEW a \in Stamps
  PROVE  Later(a, NoStamp) /\ ~Later(NoStamp, a) /\ a # NoStamp
  BY DEF PlacesAndStamps, Later, NoStamp

\* One stamp is the latest of a set of operations, or none is.
LEMMA OneIsLatest ==
  ASSUME PlacesAndStamps, NEW ops, \A op \in ops : op.stamp \in Stamps,
         NEW a, NEW b, Latest(a, ops), Latest(b, ops)
  PROVE  a = b
<1>1. a \in Stamps /\ b \in Stamps /\ ~Later(a, b) /\ ~Later(b, a)
  BY DEF Latest
<1>2. QED
  BY <1>1, StampsAreOrdered

\* With one operation more, the later of its stamp and the latest so far is the latest.
LEMMA LatestWithOneMore ==
  ASSUME PlacesAndStamps, NEW ops, \A o \in ops : o.stamp \in Stamps,
         NEW op, op.stamp \in Stamps, NEW stamp, Latest(stamp, ops)
  PROVE  Latest(IF Later(op.stamp, stamp) THEN op.stamp ELSE stamp, ops \cup {op})
<1>1. stamp \in Stamps /\ \A o \in ops : ~Later(o.stamp, stamp)
  BY DEF Latest
<1>2. CASE Later(op.stamp, stamp)
  <2>1. \A o \in ops : ~Later(o.stamp, op.stamp)
    BY <1>1, <1>2, LaterIsTransitive
  <2>2. QED
    BY <1>2, <2>1, LaterIsIrreflexive DEF Latest
<1>3. CASE ~Later(op.stamp, stamp)
  BY <1>3 DEF Latest
<1>4. QED
  BY <1>2, <1>3

LEMMA LatestOfOne ==
  ASSUME PlacesAndStamps, NEW op, op.stamp \in Stamps
  PROVE  Latest(op.stamp, {op})
  BY LaterIsIrreflexive DEF Latest

-----------------------------------------------------------------------------
(* Operations.                                                             *)

LEMMA OpType ==
  ASSUME PlacesAndStamps, NEW op \in Ops
  PROVE  /\ op.entry \in Entries /\ op.stamp \in Stamps /\ op.op \in {"added", "moved", "removed"}
         /\ op.op = "added" => op.song \in Songs
         /\ Placing(op) => op.place \in Places /\ op.place # NoPlace
  BY DEF PlacesAndStamps, Ops, Added, Moved, Removed, Placing

LEMMA SongsAreSome == NoSong \notin Songs
  BY SharedListAssumption DEF SharedListAssumption, NoSong

\* What an operation makes of the row it is about, by the three arms of apply.
LEMMA AppliedToItsRow ==
  ASSUME PlacesAndStamps, NEW op \in Ops, NEW list \in [Entries -> AnyRow]
  PROVE  LET row == list[op.entry]
             left == Applied(list, op)[op.entry]
             named == [row EXCEPT !.song = IF @ = NoSong THEN op.song ELSE @]
         IN  /\ ~Placing(op) =>
                  left = [NoRow EXCEPT !.removed =
                            IF Later(op.stamp, row.removed) THEN op.stamp ELSE row.removed]
             /\ Placing(op) /\ row.removed # NoStamp => left = row
             /\ op.op = "moved" /\ row.removed = NoStamp => left = PlacedLater(row, op)
             /\ op.op = "added" /\ row.removed = NoStamp => left = PlacedLater(named, op)
<1>1. op.entry \in DOMAIN list /\ op.op \in {"added", "moved", "removed"}
  BY OpType
<1>2. QED
  BY <1>1 DEF Applied, Placing

LEMMA AppliedElsewhere ==
  ASSUME PlacesAndStamps, NEW op \in Ops, NEW list \in [Entries -> AnyRow],
         NEW entry \in Entries, entry # op.entry
  PROVE  Applied(list, op)[entry] = list[entry]
<1>1. op.entry \in Entries
  BY OpType
<1>2. QED
  BY <1>1 DEF Applied

\* A row put somewhere is put where it was, or where it is said to be.
LEMMA PlacedLaterType ==
  ASSUME NEW row \in AnyRow, NEW op, op.place \in Places, op.stamp \in Stamps
  PROVE  PlacedLater(row, op) \in AnyRow
  BY DEF PlacedLater, AnyRow

LEMMA AppliedType ==
  ASSUME PlacesAndStamps, NEW op \in Ops, NEW list \in [Entries -> AnyRow]
  PROVE  Applied(list, op) \in [Entries -> AnyRow]
<1> DEFINE row == list[op.entry]
           left == Applied(list, op)[op.entry]
           named == [row EXCEPT !.song = IF @ = NoSong THEN op.song ELSE @]
<1>1. row \in AnyRow /\ op.entry \in Entries /\ op.stamp \in Stamps
  BY OpType
<1>2. left \in AnyRow
  <2>1. CASE ~Placing(op)
    <3> DEFINE removed == IF Later(op.stamp, row.removed) THEN op.stamp ELSE row.removed
    <3>1. removed \in Stamps \cup {NoStamp}
      BY <1>1 DEF AnyRow
    <3>2. left = [NoRow EXCEPT !.removed = removed]
      BY <2>1, AppliedToItsRow
    <3> HIDE DEF removed, left
    <3>3. QED
      BY <3>1, <3>2 DEF AnyRow, NoRow
  <2>2. CASE Placing(op) /\ row.removed # NoStamp
    BY <1>1, <2>2, AppliedToItsRow
  <2>3. CASE op.op = "moved" /\ row.removed = NoStamp
    <3>1. Placing(op)
      BY <2>3 DEF Placing
    <3>2. op.place \in Places
      BY <3>1, OpType
    <3>3. PlacedLater(row, op) \in AnyRow
      BY <1>1, <3>2, PlacedLaterType
    <3>4. QED
      BY <2>3, <3>3, AppliedToItsRow
  <2>4. CASE op.op = "added" /\ row.removed = NoStamp
    <3>1. Placing(op)
      BY <2>4 DEF Placing
    <3>2. op.place \in Places /\ op.song \in Songs
      BY <2>4, <3>1, OpType
    <3>3. named \in AnyRow
      BY <1>1, <3>2 DEF AnyRow
    <3>4. PlacedLater(named, op) \in AnyRow
      BY <1>1, <3>2, <3>3, PlacedLaterType
    <3>5. QED
      BY <2>4, <3>4, AppliedToItsRow
  <2>5. QED
    BY <2>1, <2>2, <2>3, <2>4, OpType DEF Placing
<1>3. Applied(list, op) = [entry \in Entries |-> Applied(list, op)[entry]]
  <2>1. \A any : LET put == [list EXCEPT ![op.entry] = any]
                 IN  put = [entry \in Entries |-> put[entry]]
    OBVIOUS
  <2>2. QED
    BY ONLY <2>1, ZenonT(30) DEF Applied
<1>4. \A entry \in Entries : Applied(list, op)[entry] \in AnyRow
  BY <1>2, AppliedElsewhere
<1>5. QED
  BY <1>3, <1>4
-----------------------------------------------------------------------------
(* A row stands for the operations about it, and for one more.             *)

\* What is known of the operations about one row.
About(entry, ops) == ops \subseteq Ops /\ Consistent(ops) /\ \A op \in ops : op.entry = entry

LEMMA RemovedStandsRemoved ==
  ASSUME PlacesAndStamps, NEW op \in Ops, NEW list \in [Entries -> AnyRow], NEW ops \in SUBSET Ops,
         ~Placing(op), RowStandsFor(list[op.entry], ops)
  PROVE  RowStandsFor(Applied(list, op)[op.entry], ops \cup {op})
<1> DEFINE row == list[op.entry]
           left == Applied(list, op)[op.entry]
           removed == IF Later(op.stamp, row.removed) THEN op.stamp ELSE row.removed
<1>1. left = [NoRow EXCEPT !.removed = removed]
  BY AppliedToItsRow
<1>2. Removals(ops \cup {op}) = Removals(ops) \cup {op}
  BY DEF Removals
<1>3. op.stamp \in Stamps /\ \A o \in Removals(ops) : o.stamp \in Stamps
  BY OpType DEF Removals
<1>4. Latest(removed, Removals(ops) \cup {op})
  <2>1. CASE Removals(ops) = {}
    <3>1. row.removed = NoStamp
      BY <2>1 DEF RowStandsFor, StandsPlaced
    <3>2. removed = op.stamp
      BY <1>3, <3>1, AnyStampIsLaterThanNone
    <3>3. QED
      BY <1>3, <2>1, <3>2, LatestOfOne
  <2>2. CASE Removals(ops) # {}
    <3>1. Latest(row.removed, Removals(ops))
      BY <2>2 DEF RowStandsFor, StandsRemoved
    <3>2. QED
      BY <1>3, <3>1, LatestWithOneMore
  <2>3. QED
    BY <2>1, <2>2
<1> HIDE DEF removed, left
<1>5. left.removed = removed
  BY <1>1 DEF NoRow
<1>6. QED
  BY <1>1, <1>2, <1>4, <1>5 DEF RowStandsFor, StandsRemoved, left

LEMMA NothingStandsOverARemoval ==
  ASSUME PlacesAndStamps, NEW op \in Ops, NEW list \in [Entries -> AnyRow], NEW ops \in SUBSET Ops,
         Placing(op), Removals(ops) # {}, RowStandsFor(list[op.entry], ops)
  PROVE  RowStandsFor(Applied(list, op)[op.entry], ops \cup {op})
<1>1. StandsRemoved(list[op.entry], ops)
  BY DEF RowStandsFor
<1>2. list[op.entry].removed \in Stamps
  BY <1>1, OpType DEF StandsRemoved, Latest, Removals
<1>3. Applied(list, op)[op.entry] = list[op.entry]
  BY <1>2, AnyStampIsLaterThanNone, AppliedToItsRow
<1>4. Removals(ops \cup {op}) = Removals(ops)
  BY DEF Removals
<1>5. QED
  BY <1>1, <1>3, <1>4 DEF RowStandsFor, StandsRemoved

\* Where a row is put last, before and after one operation more that puts it somewhere.
LEMMA PlacedLast ==
  ASSUME PlacesAndStamps, NEW op \in Ops, NEW row \in AnyRow, NEW ops \in SUBSET Ops, Placing(op),
         StandsPlaced(row, ops), NEW named,
         named.place = row.place, named.stamp = row.stamp, named \in AnyRow
  PROVE  LET left == PlacedLater(named, op) IN
           /\ left.song = named.song /\ left.removed = named.removed
           /\ \E o \in Placings(ops \cup {op}) : left.place = o.place /\ left.stamp = o.stamp
           /\ Latest(left.stamp, Placings(ops \cup {op}))
<1> DEFINE left == PlacedLater(named, op)
<1>1. Placings(ops \cup {op}) = Placings(ops) \cup {op}
  BY DEF Placings
<1>2. op.stamp \in Stamps /\ \A o \in Placings(ops) : o.stamp \in Stamps /\ o.place # NoPlace
  BY OpType DEF Placings
<1>3. left.song = named.song /\ left.removed = named.removed
  BY DEF PlacedLater, AnyRow
<1>4. CASE Placings(ops) = {}
  <2>1. row.place = NoPlace
    BY <1>4 DEF StandsPlaced
  <2>2. left.place = op.place /\ left.stamp = op.stamp
    BY <2>1 DEF PlacedLater, AnyRow
  <2>3. QED
    BY <1>1, <1>2, <1>3, <1>4, <2>2, LatestOfOne
<1>5. CASE Placings(ops) # {}
  <2>1. /\ \E o \in Placings(ops) : row.place = o.place /\ row.stamp = o.stamp
        /\ Latest(row.stamp, Placings(ops))
    BY <1>5 DEF StandsPlaced
  <2>2. row.place # NoPlace
    BY <1>2, <2>1
  <2>3. /\ left.stamp = IF Later(op.stamp, row.stamp) THEN op.stamp ELSE row.stamp
        /\ left.place = IF Later(op.stamp, row.stamp) THEN op.place ELSE row.place
    BY <2>2 DEF PlacedLater, AnyRow
  <2>4. Latest(left.stamp, Placings(ops) \cup {op})
    <3> HIDE DEF left
    <3>1. QED
      BY <1>2, <2>1, <2>3, LatestWithOneMore
  <2>5. \E o \in Placings(ops) \cup {op} : left.place = o.place /\ left.stamp = o.stamp
    <3> HIDE DEF left
    <3>1. QED
      BY <2>1, <2>3
  <2>6. QED
    BY <1>1, <1>3, <2>4, <2>5
<1>6. QED
  BY <1>4, <1>5
LEMMA PlacedStandsPlaced ==
  ASSUME PlacesAndStamps, NEW op \in Ops, NEW list \in [Entries -> AnyRow], NEW ops \in SUBSET Ops,
         Consistent(ops \cup {op}), \A o \in ops : o.entry = op.entry,
         Placing(op), Removals(ops) = {}, RowStandsFor(list[op.entry], ops)
  PROVE  RowStandsFor(Applied(list, op)[op.entry], ops \cup {op})
<1> DEFINE row == list[op.entry]
           left == Applied(list, op)[op.entry]
           named == [row EXCEPT !.song = IF @ = NoSong THEN op.song ELSE @]
<1>1. row \in AnyRow /\ op.stamp \in Stamps /\ StandsPlaced(row, ops) /\ row.removed = NoStamp
  BY OpType DEF RowStandsFor, StandsPlaced
<1>2. Removals(ops \cup {op}) = {} /\ Placings(ops \cup {op}) # {}
  BY DEF Removals, Placings
<1>3. CASE op.op = "moved"
  <2>1. left = PlacedLater(row, op)
    BY <1>1, <1>3, AppliedToItsRow
  <2>2. Additions(ops \cup {op}) = Additions(ops)
    BY <1>3 DEF Additions
  <2>3. /\ left.song = row.song /\ left.removed = NoStamp
        /\ \E o \in Placings(ops \cup {op}) : left.place = o.place /\ left.stamp = o.stamp
        /\ Latest(left.stamp, Placings(ops \cup {op}))
    BY <1>1, <2>1, PlacedLast
  <2> HIDE DEF left
  <2>4. StandsPlaced(left, ops \cup {op})
    BY <1>1, <1>2, <2>2, <2>3 DEF StandsPlaced
  <2>5. QED
    BY <1>2, <2>4 DEF RowStandsFor, left
<1>4. CASE op.op = "added"
  <2>1. left = PlacedLater(named, op) /\ op.song \in Songs
    BY <1>1, <1>4, AppliedToItsRow, OpType
  <2>2. /\ named \in AnyRow /\ named.place = row.place /\ named.stamp = row.stamp
        /\ named.removed = NoStamp
        /\ named.song = IF row.song = NoSong THEN op.song ELSE row.song
    BY <1>1, <2>1 DEF AnyRow
  <2> HIDE DEF named, left
  <2>3. /\ left.song = named.song /\ left.removed = NoStamp
        /\ \E o \in Placings(ops \cup {op}) : left.place = o.place /\ left.stamp = o.stamp
        /\ Latest(left.stamp, Placings(ops \cup {op}))
    <3> DEFINE placed == PlacedLater(named, op)
    <3>1. /\ placed.song = named.song /\ placed.removed = named.removed
          /\ \E o \in Placings(ops \cup {op}) : placed.place = o.place /\ placed.stamp = o.stamp
          /\ Latest(placed.stamp, Placings(ops \cup {op}))
      <4> HIDE DEF row
      <4>1. QED
        BY <1>1, <2>2, PlacedLast
    <3>2. QED
      BY <2>1, <2>2, <3>1
  <2>4. op \in Additions(ops \cup {op})
    BY <1>4 DEF Additions
  <2>5. row.song # NoSong => \E o \in Additions(ops) : row.song = o.song
    BY <1>1 DEF StandsPlaced
  <2>6. \E o \in Additions(ops \cup {op}) : left.song = o.song
    BY <2>2, <2>3, <2>4, <2>5 DEF Additions
  <2>7. StandsPlaced(left, ops \cup {op})
    BY <1>2, <2>3, <2>4, <2>6 DEF StandsPlaced
  <2>8. QED
    BY <1>2, <2>7 DEF RowStandsFor, left
<1>5. QED
  BY <1>3, <1>4, OpType DEF Placing

\* A list stands for what it was made of, and for one operation more once it is applied.
LEMMA StandsForOneMore ==
  ASSUME PlacesAndStamps, NEW op \in Ops, NEW list \in [Entries -> AnyRow], NEW ops \in SUBSET Ops,
         Consistent(ops \cup {op}), StandsFor(list, ops)
  PROVE  StandsFor(Applied(list, op), ops \cup {op})
<1>1. op.entry \in Entries
  BY OpType
<1>2. ASSUME NEW entry \in Entries, entry # op.entry
      PROVE  RowStandsFor(Applied(list, op)[entry], Of(entry, ops \cup {op}))
  <2>1. Of(entry, ops \cup {op}) = Of(entry, ops)
    BY <1>2 DEF Of
  <2>2. QED
    BY <1>2, <2>1, AppliedElsewhere DEF StandsFor
<1>3. RowStandsFor(Applied(list, op)[op.entry], Of(op.entry, ops \cup {op}))
  <2> DEFINE before == Of(op.entry, ops)
  <2>1. /\ Of(op.entry, ops \cup {op}) = before \cup {op} /\ before \in SUBSET Ops
        /\ \A o \in before : o.entry = op.entry
    BY DEF Of
  <2>2. Consistent(before \cup {op})
    BY DEF Consistent, Of
  <2>3. RowStandsFor(list[op.entry], before)
    BY <1>1 DEF StandsFor
  <2> HIDE DEF before
  <2>4. RowStandsFor(Applied(list, op)[op.entry], before \cup {op})
    BY <2>1, <2>2, <2>3, RemovedStandsRemoved, NothingStandsOverARemoval, PlacedStandsPlaced
  <2>5. QED
    BY <2>1, <2>4
<1>4. QED
  BY <1>2, <1>3 DEF StandsFor

\* There is one row that stands for the operations about it.
LEMMA OneRowStands ==
  ASSUME PlacesAndStamps, NEW ops \in SUBSET Ops, Consistent(ops),
         \A o, p \in ops : o.entry = p.entry,
         NEW a \in AnyRow, NEW b \in AnyRow, RowStandsFor(a, ops), RowStandsFor(b, ops)
  PROVE  a = b
<1>1. \A o \in ops : o.stamp \in Stamps /\ (o.op = "added" => Placing(o))
  BY OpType DEF Placing
<1>2. CASE Removals(ops) # {}
  <2>1. /\ a = [NoRow EXCEPT !.removed = a.removed] /\ Latest(a.removed, Removals(ops))
        /\ b = [NoRow EXCEPT !.removed = b.removed] /\ Latest(b.removed, Removals(ops))
    BY <1>2 DEF RowStandsFor, StandsRemoved
  <2>2. a.removed = b.removed
    BY <1>1, <2>1, OneIsLatest DEF Removals
  <2>3. QED
    BY <2>1, <2>2
<1>3. CASE Removals(ops) = {}
  <2>1. StandsPlaced(a, ops) /\ StandsPlaced(b, ops)
    BY <1>3 DEF RowStandsFor
  <2>2. a.song = b.song
    BY <2>1 DEF StandsPlaced, Additions, Consistent
  <2>3. a.stamp = b.stamp
    BY <1>1, <2>1, OneIsLatest DEF StandsPlaced, Placings
  <2>4. a.place = b.place
    BY <2>1, <2>3 DEF StandsPlaced, Placings, Consistent
  <2>5. a.removed = b.removed
    BY <2>1 DEF StandsPlaced
  <2>6. QED
    BY <2>2, <2>3, <2>4, <2>5 DEF AnyRow
<1>4. QED
  BY <1>2, <1>3

-----------------------------------------------------------------------------
(* The theorems.                                                           *)

\* What every reader has heard was said, and its list is what that makes.
Inv ==
  /\ said \in SUBSET Ops /\ Consistent(said)
  /\ heard \in [Readers -> SUBSET said]
  /\ lists \in [Readers -> [Entries -> AnyRow]]
  /\ ListsStandForWhatWasHeard

LEMMA InitStands == ASSUME PlacesAndStamps, Init PROVE Inv
<1>1. NoList \in [Entries -> AnyRow]
  BY DEF NoList, NoRow, AnyRow
<1>2. StandsFor(NoList, {})
  BY DEF StandsFor, RowStandsFor, StandsPlaced, Of, Removals, Additions, Placings, NoList, NoRow
<1>3. QED
  BY <1>1, <1>2 DEF Init, Inv, ListsStandForWhatWasHeard, Consistent

LEMMA ApplyStands ==
  ASSUME PlacesAndStamps, Inv, NEW reader \in Readers, NEW op \in Ops, Apply(reader, op),
         said' \in SUBSET Ops, Consistent(said'), said \cup {op} \subseteq said'
  PROVE  Inv'
<1>1. /\ lists' = [lists EXCEPT ![reader] = Applied(lists[reader], op)]
      /\ heard' = [heard EXCEPT ![reader] = heard[reader] \cup {op}]
  BY DEF Apply
<1>2. Applied(lists[reader], op) \in [Entries -> AnyRow]
  BY AppliedType DEF Inv
<1>3. lists' \in [Readers -> [Entries -> AnyRow]] /\ heard' \in [Readers -> SUBSET said']
  BY <1>1, <1>2 DEF Inv
<1>4. StandsFor(Applied(lists[reader], op), heard[reader] \cup {op})
  <2>1. heard[reader] \cup {op} \subseteq said' /\ heard[reader] \in SUBSET Ops
    BY DEF Inv
  <2>2. Consistent(heard[reader] \cup {op})
    BY <2>1 DEF Consistent
  <2>3. QED
    BY <2>1, <2>2, StandsForOneMore DEF Inv, ListsStandForWhatWasHeard
<1>5. ASSUME NEW other \in Readers PROVE StandsFor(lists'[other], heard'[other])
  BY <1>1, <1>4 DEF Inv, ListsStandForWhatWasHeard
<1>6. ListsStandForWhatWasHeard'
  BY <1>5 DEF ListsStandForWhatWasHeard, StandsFor
<1>7. QED
  BY <1>3, <1>6 DEF Inv
LEMMA NextStands == ASSUME PlacesAndStamps, Inv, [Next]_vars PROVE Inv'
<1>1. ASSUME NEW reader \in Readers, Say(reader) PROVE Inv'
  <2>1. PICK op \in Ops : /\ Consistent(said \cup {op})
                          /\ said' = said \cup {op}
                          /\ Apply(reader, op)
    BY <1>1 DEF Say
  <2>2. QED
    BY <2>1, ApplyStands DEF Inv
<1>2. ASSUME NEW reader \in Readers, Hear(reader) PROVE Inv'
  <2>1. PICK op \in said : Apply(reader, op) /\ said' = said
    BY <1>2 DEF Hear
  <2>2. QED
    BY <2>1, ApplyStands DEF Inv
<1>3. CASE UNCHANGED vars
  BY <1>3 DEF vars, Inv, ListsStandForWhatWasHeard, StandsFor
<1>4. QED
  BY <1>1, <1>2, <1>3 DEF Next

\* Inv is inductive as it stands.
THEOREM InvAlways == ASSUME PlacesAndStamps PROVE Spec => []Inv
<1>1. Init => Inv
  BY InitStands
<1>2. Inv /\ [Next]_vars => Inv'
  BY NextStands
<1>3. QED
  BY <1>1, <1>2, PTL DEF Spec

\* Every list is, at any time, what the operations its reader heard come to in no order
\* (SharedList::apply).
THEOREM ListsStand == ASSUME PlacesAndStamps PROVE Spec => []ListsStandForWhatWasHeard
<1>1. Inv => ListsStandForWhatWasHeard
  BY DEF Inv
<1>2. QED
  BY <1>1, InvAlways, PTL

\* So readers who heard alike hold alike (SharedList::apply).
THEOREM Convergent == ASSUME PlacesAndStamps PROVE Spec => []HeardAlikeHoldAlike
<1>1. ASSUME Inv PROVE HeardAlikeHoldAlike
  <2> SUFFICES ASSUME NEW a \in Readers, NEW b \in Readers, heard[a] = heard[b]
               PROVE  lists[a] = lists[b]
    BY DEF HeardAlikeHoldAlike
  <2>1. heard[a] \in SUBSET Ops /\ Consistent(heard[a])
    BY <1>1 DEF Inv, Consistent
  <2>2. ASSUME NEW entry \in Entries PROVE lists[a][entry] = lists[b][entry]
    <3> DEFINE about == Of(entry, heard[a])
    <3>1. about \in SUBSET Ops /\ Consistent(about) /\ \A o, p \in about : o.entry = p.entry
      BY <2>1 DEF Of, Consistent
    <3>2. /\ RowStandsFor(lists[a][entry], about) /\ RowStandsFor(lists[b][entry], about)
          /\ lists[a][entry] \in AnyRow /\ lists[b][entry] \in AnyRow
      BY <1>1 DEF Inv, ListsStandForWhatWasHeard, StandsFor
    <3> HIDE DEF about
    <3>3. QED
      BY <3>1, <3>2, OneRowStands
  <2>3. QED
    BY <1>1, <2>2 DEF Inv
<1>2. QED
  BY <1>1, InvAlways, PTL

\* A row removed stays so, and is not listed (SharedList::apply).
THEOREM RemovedForGood == ASSUME PlacesAndStamps PROVE Spec => RemovedStaysRemoved
<1> DEFINE Stays(reader, entry) ==
      lists[reader][entry].removed # NoStamp =>
        /\ lists'[reader][entry].removed # NoStamp
        /\ ~IsListed(lists'[reader][entry])
<1>1. ASSUME Inv, Inv', [Next]_vars, NEW reader \in Readers, NEW entry \in Entries
      PROVE  Stays(reader, entry)
  <2> SUFFICES ASSUME lists[reader][entry].removed # NoStamp
               PROVE  /\ lists'[reader][entry].removed # NoStamp
                      /\ ~IsListed(lists'[reader][entry])
    OBVIOUS
  <2>1. Removals(Of(entry, heard[reader])) # {}
    BY <1>1 DEF Inv, ListsStandForWhatWasHeard, StandsFor, RowStandsFor, StandsPlaced
  <2>2. heard[reader] \subseteq heard'[reader]
    BY <1>1 DEF Next, Say, Hear, Apply, Inv, vars
  <2>3. Removals(Of(entry, heard'[reader])) # {}
    BY <2>1, <2>2 DEF Removals, Of
  <2>4. RowStandsFor(lists'[reader][entry], Of(entry, heard'[reader]))
    BY <1>1 DEF Inv, ListsStandForWhatWasHeard, StandsFor
  <2>5. StandsRemoved(lists'[reader][entry], Of(entry, heard'[reader]))
    BY <2>3, <2>4 DEF RowStandsFor
  <2>6. lists'[reader][entry].removed \in Stamps
    <3>1. heard'[reader] \subseteq Ops
      BY <1>1 DEF Inv
    <3>2. QED
      BY <2>5, <3>1, OpType DEF StandsRemoved, Latest, Removals, Of
  <2>7. QED
    BY <2>5, <2>6, AnyStampIsLaterThanNone DEF StandsRemoved, NoRow, IsListed
<1>2. Inv /\ Inv' /\ [Next]_vars => [\A reader \in Readers, entry \in Entries : Stays(reader, entry)]_vars
  BY <1>1
<1>3. QED
  BY <1>2, InvAlways, PTL DEF Spec, RemovedStaysRemoved

=============================================================================
