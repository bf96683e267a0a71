----------------------------- MODULE SharedList -----------------------------
(***************************************************************************)
(* A playlist several people edit (crates/resonate-sync/src/shared/op.rs,  *)
(* place.rs, diff.rs): operations that may come in any order and any       *)
(* number of times, places between which there is always another, and what *)
(* was done to a copy of the list read back from the copy.                 *)
(*                                                                         *)
(* Not here: the name of a list, the people on it, and who added a row.    *)
(***************************************************************************)
EXTENDS Integers, Sequences, SequencesExt, FiniteSets

CONSTANTS
  Songs,     \* what a row may play, numbered
  Entries,   \* the ids rows are minted
  Base,      \* the values of a byte of a place
  Width      \* WIDTH

ASSUME SharedListAssumption ==
  /\ Songs \subseteq Nat \ {0} /\ Entries = 1..Cardinality(Entries)
  /\ Base \in Nat \ 0..2 /\ Width \in Nat \ {0, 1}

-----------------------------------------------------------------------------
(* Places: bytes, in the order of words.                                   *)

NoPlace == <<>>

Before(p, q) ==
  \E at \in DOMAIN q :
    /\ \A earlier \in 1..(at - 1) : earlier \in DOMAIN p /\ p[earlier] = q[earlier]
    /\ at = Len(p) + 1 \/ (at \in DOMAIN p /\ p[at] < q[at])

Byte(place, at) == IF at \in DOMAIN place THEN place[at] ELSE 0

FirstPlace == [at \in 1..Width |-> IF at = 1 THEN Base \div 2 ELSE IF at = Width THEN 1 ELSE 0]

\* Altered: room for a byte between is taken where there is none.
BetweenOrOn(low, high) ==
  LET bound(at) == IF high # NoPlace THEN Byte(high, at) ELSE Base
      at == CHOOSE at \in 1..(Len(low) + Len(high) + 2) :
              /\ bound(at) > Byte(low, at)
              /\ \A earlier \in 1..(at - 1) : bound(earlier) <= Byte(low, earlier)
  IN  [i \in 1..at |-> IF i < at THEN Byte(low, i) ELSE (Byte(low, i) + bound(i)) \div 2]

\* Place::between: the bytes of the low one, until a byte fits under the high one, which
\* bounds as far as the two are alike.  No place is the end of them all.
Between(low, high) ==
  LET bound(at) ==
        IF high # NoPlace /\ \A earlier \in 1..(at - 1) : Byte(low, earlier) = Byte(high, earlier)
        THEN Byte(high, at) ELSE Base
      at == CHOOSE at \in 1..(Len(low) + Len(high) + 2) :
              /\ bound(at) > Byte(low, at) + 1
              /\ \A earlier \in 1..(at - 1) : bound(earlier) <= Byte(low, earlier) + 1
  IN  [i \in 1..at |-> IF i < at THEN Byte(low, i) ELSE (Byte(low, i) + bound(i)) \div 2]

\* The last of the bytes stepped that has room; what follows it is carried over.
Stepped(place, full, by, carried) ==
  LET room == {at \in 1..(Width - 1) : Byte(place, at) # full}
      at == CHOOSE at \in room : \A other \in room : other <= at
  IN  IF room = {} THEN NoPlace
      ELSE [i \in 1..Width |-> IF i = Width THEN 1
                               ELSE IF i < at THEN Byte(place, i)
                               ELSE IF i = at THEN Byte(place, i) + by ELSE carried]

\* Place::after and Place::before.
After(low) ==
  LET stepped == Stepped(low, Base - 1, 1, 0)
  IN  IF stepped # NoPlace THEN stepped ELSE Between(low, NoPlace)
Ahead(high) ==
  LET stepped == Stepped(high, 0, -1, Base - 1)
  IN  IF stepped # NoPlace THEN stepped ELSE Between(NoPlace, high)

-----------------------------------------------------------------------------
(* Operations, and the list they make.                                     *)

\* Stamp's order: the instant, then the device.
Later(a, b) == a.nanos > b.nanos \/ (a.nanos = b.nanos /\ a.device > b.device)

NoStamp == [nanos |-> 0, device |-> 0]
NoSong == 0
NoRow == [song |-> NoSong, place |-> NoPlace, stamp |-> NoStamp, removed |-> NoStamp]
NoList == [entry \in Entries |-> NoRow]

Added(entry, song, place, stamp) ==
  [op |-> "added", entry |-> entry, song |-> song, place |-> place, stamp |-> stamp]
Moved(entry, place, stamp) ==
  [op |-> "moved", entry |-> entry, song |-> NoSong, place |-> place, stamp |-> stamp]
Removed(entry, stamp) ==
  [op |-> "removed", entry |-> entry, song |-> NoSong, place |-> NoPlace, stamp |-> stamp]

\* placed_later.
PlacedLater(row, op) ==
  IF row.place = NoPlace \/ Later(op.stamp, row.stamp)
  THEN [row EXCEPT !.place = op.place, !.stamp = op.stamp]
  ELSE row

\* SharedList::apply: a row removed stays so, and the first song named stands.
Applied(list, op) ==
  LET row == list[op.entry]
      named == [row EXCEPT !.song = IF @ = NoSong THEN op.song ELSE @]
      removed == IF Later(op.stamp, row.removed) THEN op.stamp ELSE row.removed
  IN  [list EXCEPT ![op.entry] =
        CASE op.op = "removed" -> [NoRow EXCEPT !.removed = removed]
          [] op.op # "removed" /\ row.removed # NoStamp -> row
          [] op.op = "moved" /\ row.removed = NoStamp -> PlacedLater(row, op)
          [] op.op = "added" /\ row.removed = NoStamp -> PlacedLater(named, op)]

AppliedAll(list, ops) == FoldLeft(Applied, list, ops)

\* rows: those with a song and a place, in order; two of one place in the order of their ids.
Ordered(list, e, f) ==
  Before(list[e].place, list[f].place) \/ (list[e].place = list[f].place /\ e < f)
IsListed(row) == row.song # NoSong /\ row.place # NoPlace
Rows(list) ==
  SetToSortSeq({e \in Entries : IsListed(list[e])}, LAMBDA e, f : Ordered(list, e, f))

\* Altered: what was removed is not said again.
AsOpsOfWhatStands(list) ==
  [i \in DOMAIN Rows(list) |->
     LET row == list[Rows(list)[i]] IN Added(Rows(list)[i], row.song, row.place, row.stamp)]

\* as_ops: the fewest operations that make the list.
AsOps(list) ==
  LET opOf(e) == CASE list[e].removed # NoStamp -> Removed(e, list[e].removed)
                   [] IsListed(list[e]) -> Added(e, list[e].song, list[e].place, list[e].stamp)
                   [] OTHER -> Moved(e, list[e].place, list[e].stamp)
      known == {e \in Entries : list[e].removed # NoStamp \/ list[e].place # NoPlace}
      inTurn == SetToSortSeq(known, <)
  IN  [i \in DOMAIN inTurn |-> opOf(inTurn[i])]

-----------------------------------------------------------------------------
(* What was done to a copy, read back from it.  A row of the copy whose    *)
(* song the library cannot name any more shows as NoSong.                  *)

Named(copy) == SelectSeq(copy, LAMBDA song : song # NoSong)

\* paired_with: each row in turn takes the first song of the copy left that is its own.
Paired(list, base, copy) ==
  LET pair(taken, i) ==
        LET free == {at \in DOMAIN copy : copy[at] = list[base[i]].song /\ at \notin ToSet(taken)}
        IN  Append(taken, IF free = {} THEN 0 ELSE CHOOSE at \in free : \A other \in free : at <= other)
  IN  FoldLeftDomain(pair, <<>>, base)

\* written_order: the rows the copy shows, as it shows them.
WrittenOrder(list, copy) ==
  LET rows == Rows(list)
      pairs == Paired(list, rows, Named(copy))
      shown == SetToSortSeq({i \in DOMAIN rows : pairs[i] # 0}, LAMBDA i, j : pairs[i] < pairs[j])
  IN  [i \in DOMAIN shown |-> rows[shown[i]]]

\* longest_rising: as many rows as can be are left where they are.
LongestRising(wanted) ==
  LET rising == {kept \in SUBSET {at \in DOMAIN wanted : wanted[at] # 0} :
                   \A at, past \in kept : at < past => wanted[at] < wanted[past]}
  IN  {kept \in rising : \A other \in rising : Cardinality(other) <= Cardinality(kept)}

\* placed_after: just past a place, ahead of whatever stands next.
PlacedAfter(last, standing) ==
  LET past == {place \in standing : last = NoPlace \/ Before(last, place)}
      next == CHOOSE place \in past : \A other \in past : place = other \/ Before(place, other)
  IN  CASE last # NoPlace /\ past # {} -> Between(last, next)
        [] last # NoPlace /\ past = {} -> After(last)
        [] last = NoPlace /\ past # {} -> Ahead(next)
        [] last = NoPlace /\ past = {} -> FirstPlace

\* The rows the copy was last seen to show: a row it never showed is not gone from it.
Shown(list, written) == SelectSeq(written, LAMBDA e : e \in ToSet(Rows(list)))

\* Altered: a row that lost its name is taken for one taken out.
GoneOrUnnamed(base, pairs, copy) ==
  SelectSeq(base, LAMBDA e : pairs[SelectInSeq(base, LAMBDA f : f = e)] = 0)

\* The rows of the copy that are gone: none while some row is unnamed, which may be any.
Gone(base, pairs, copy) ==
  IF NoSong \in ToSet(copy) THEN <<>>
  ELSE SelectSeq(base, LAMBDA e : pairs[SelectInSeq(base, LAMBDA f : f = e)] = 0)

\* edits_seen: rows of the copy gone are removed, rows out of turn moved, and new ones
\* added, each placed past the one before it; stamped in turn from the first.
EditsSeen(list, written, copy, first, minted) ==
  LET stamp(i) == [first EXCEPT !.nanos = @ + i - 1]
      base == Shown(list, written)
      named == Named(copy)
      pairs == Paired(list, base, named)
      gone == Gone(base, pairs, copy)
      wanted == [at \in DOMAIN named |-> SelectInSeq(pairs, LAMBDA pair : pair = at)]
      removals == [i \in DOMAIN gone |-> Removed(gone[i], stamp(i))]
      edits(kept) ==
        LET moving == {base[wanted[at]] : at \in {a \in DOMAIN wanted : wanted[a] # 0} \ kept}
            standing == {list[e].place : e \in (ToSet(Rows(list)) \ moving) \ ToSet(gone)}
            seen(done, at) ==
              LET place == PlacedAfter(done.last, done.standing)
                  when == stamp(Len(done.ops) + 1)
                  said(op) == [ops |-> Append(done.ops, op), last |-> place,
                               standing |-> done.standing \cup {place},
                               minted |-> done.minted + IF op.op = "added" THEN 1 ELSE 0]
              IN  CASE at \in kept -> [done EXCEPT !.last = list[base[wanted[at]]].place]
                    [] at \notin kept /\ wanted[at] # 0 -> said(Moved(base[wanted[at]], place, when))
                    [] wanted[at] = 0 -> said(Added(done.minted + 1, named[at], place, when))
        IN  FoldLeftDomain(seen,
              [ops |-> removals, last |-> NoPlace, standing |-> standing, minted |-> minted], named)
  IN  {edits(kept) : kept \in LongestRising(wanted)}

=============================================================================
