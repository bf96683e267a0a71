---------------------------- MODULE QueueProofs -----------------------------
(***************************************************************************)
(* What holds of the play queue whatever it is asked to do, however many   *)
(* rows it holds (Queue): proofs of the properties the run `queue` checks. *)
(*                                                                         *)
(* The invariant names the rows in order and the rows played next as two   *)
(* sets apart.  Each list holds one of them, each row once; the order to   *)
(* return to lists the rows in order again; the stamps are those of the    *)
(* sets; the seat names a row; and what is shown is what stands.  Every    *)
(* operation is shown to keep it by the sets it moves rows between.        *)
(***************************************************************************)
EXTENDS QueueLists

Fields == {"order", "next", "unshuffled", "places", "after", "seat", "repeat", "shuffle",
           "stamp", "playingFrom", "revised"}

\* A queue has the fields of a queue and no other.
Shape(q) == q = [f \in Fields |-> q[f]]

Kinds(q) ==
  /\ q.places \in 0..MaxPlaces /\ q.after \in Nat
  /\ q.seat \in Seats /\ q.repeat \in Repeats
  /\ q.shuffle \in BOOLEAN /\ q.revised \in BOOLEAN

GivenOut(places) == [place : 0..(places - 1), item : Items, stamped : Items]

\* The rows in order and those played next, in the lists and the stamps that hold them.
Stands(q, inOrder, next) ==
  /\ Lists(q.order, inOrder) /\ Lists(q.next, next)
  /\ inOrder \cap next = {} /\ Apart(inOrder \cup next)
  /\ inOrder \cup next \in SUBSET GivenOut(q.places)
  /\ IF q.shuffle THEN Lists(q.unshuffled, inOrder) ELSE q.unshuffled = <<>>
  /\ q.playingFrom = Marked(inOrder) /\ q.stamp = Marked(inOrder \cup next)

Sound(q) == Shape(q) /\ Kinds(q) /\ \E inOrder, next : Stands(q, inOrder, next)

\* The seat names a row, and a queue that has ended has nothing left to play.
Seated(q) ==
  /\ q.after <= Len(q.order)
  /\ q.seat = "in_order" => q.after > 0
  /\ q.seat = "next" => q.next # <<>>
  /\ q.seat = "nowhere" => q.next = <<>> /\ q.after = Len(q.order)

\* A step from `q` to `p` is shown, or shows nothing else.
Seen(q, p) == p.revised \/ (~q.revised /\ Published(p) = Published(q))

IInv == Sound(queue) /\ Seated(queue) /\ ~queue.revised /\ shown = Published(queue)

-----------------------------------------------------------------------------
(* What a queue shows, told from its lists.                                *)

LEMMA CutJoins ==
  ASSUME NEW set, NEW list \in Seq(set), NEW n \in Nat
  PROVE  First(list, n) \o Past(list, n) = list /\ First(list, n) \o <<>> \o Past(list, n) = list
<1>0. Len(list) \in Nat
  OBVIOUS
<1>1. CASE n <= Len(list)
  <2>1. /\ First(list, n) \in Seq(set) /\ First(list, n) \o Past(list, n) = list
    BY <1>1, CutInTwo
  <2>2. First(list, n) \o <<>> = First(list, n)
    BY <2>1, ConcatEmptySeq
  <2> QED BY <2>1, <2>2
<1>2. CASE Len(list) <= n
  <2>1. First(list, n) = list /\ Past(list, n) = <<>>
    BY <1>2, CutBeyond
  <2>2. list \o <<>> = list
    BY ConcatEmptySeq
  <2> QED BY <2>1, <2>2
<1> QED BY <1>0, <1>1, <1>2

\* Queues with the same lists, stamp and seat show the same, wherever they are heard.
LEMMA SameShown ==
  ASSUME NEW q, NEW p, p.order = q.order, p.next = q.next, p.unshuffled = q.unshuffled,
         p.after = q.after, p.shuffle = q.shuffle, p.stamp = q.stamp
  PROVE  Published(p) = Published(q)
BY DEF Published, Drawn, PlayingNext, InListOrder, LastHeard, Size

\* With nothing to play next, the seat shows nowhere.
LEMMA SeatUnseen ==
  ASSUME NEW q, NEW rows, q.order \in Seq(rows), q.unshuffled \in Seq(rows), q.next = <<>>,
         q.after \in Nat
  PROVE  Published(q) =
           [rows |-> q.order, next |-> <<>>,
            listed |-> IF q.shuffle /\ Len(Only(q.unshuffled, Places(q.order))) =
                                       Len(q.order) + Len(<<>>)
                       THEN Only(q.unshuffled, Places(q.order)) ELSE q.order,
            stamp |-> q.stamp]
<1>1. Drawn(q) = q.order
  BY CutJoins DEF Drawn
<1>2. PlayingNext(q) = <<>>
  BY DEF PlayingNext
<1>3. Found(q.unshuffled, LastHeard(q)) \in Nat
  <2>1. Len(q.unshuffled) \in Nat
    OBVIOUS
  <2> QED BY <2>1, FoundIs
<1>4. First(q.unshuffled, Found(q.unshuffled, LastHeard(q))) \o <<>>
        \o Past(q.unshuffled, Found(q.unshuffled, LastHeard(q))) = q.unshuffled
  BY <1>3, CutJoins
<1> QED BY <1>1, <1>2, <1>4 DEF Published, InListOrder, Size

LEMMA UnseenSeatMoves ==
  ASSUME NEW q, NEW p, NEW rows, q.order \in Seq(rows), q.unshuffled \in Seq(rows),
         q.next = <<>>, q.after \in Nat, p.after \in Nat, p.order = q.order,
         p.next = q.next, p.unshuffled = q.unshuffled, p.shuffle = q.shuffle,
         p.stamp = q.stamp
  PROVE  Published(p) = Published(q)
<1>1. Published(p) =
           [rows |-> q.order, next |-> <<>>,
            listed |-> IF q.shuffle /\ Len(Only(q.unshuffled, Places(q.order))) =
                                       Len(q.order) + Len(<<>>)
                       THEN Only(q.unshuffled, Places(q.order)) ELSE q.order,
            stamp |-> q.stamp]
  BY SeatUnseen
<1> QED BY <1>1, SeatUnseen

LEMMA ListsOfASoundQueue ==
  ASSUME NEW q, NEW inOrder, NEW next, Stands(q, inOrder, next)
  PROVE  /\ q.order \in Seq(inOrder) /\ q.next \in Seq(next)
         /\ q.unshuffled \in Seq(inOrder)
         /\ Len(q.order) \in Nat /\ Len(q.next) \in Nat /\ Len(q.unshuffled) \in Nat
         /\ q.next = <<>> <=> Len(q.next) = 0
         /\ q.order = <<>> <=> Len(q.order) = 0
<1>1. q.order \in Seq(inOrder) /\ q.next \in Seq(next)
  BY DEF Stands, Lists
<1>2. q.unshuffled \in Seq(inOrder)
  <2>1. CASE q.shuffle
    BY <2>1 DEF Stands, Lists
  <2>2. CASE ~q.shuffle
    <3>1. q.unshuffled = <<>>
      BY <2>2 DEF Stands
    <3> QED BY <3>1, EmptySeq
  <2> QED BY <2>1, <2>2
<1> QED BY <1>1, <1>2, EmptySeq

-----------------------------------------------------------------------------
(* Repeating, shuffling.                                                    *)

LEMMA SetRepeatKeeps ==
  ASSUME NEW q, Sound(q), Seated(q), NEW repeat \in Repeats,
         NEW p, p = [q EXCEPT !.repeat = repeat]
  PROVE  Sound(p) /\ Seated(p) /\ Seen(q, p) /\ p.places = q.places
<1>1. /\ Shape(p) /\ p.order = q.order /\ p.next = q.next /\ p.unshuffled = q.unshuffled
      /\ p.places = q.places /\ p.after = q.after /\ p.seat = q.seat /\ p.repeat = repeat
      /\ p.shuffle = q.shuffle /\ p.stamp = q.stamp /\ p.playingFrom = q.playingFrom
      /\ p.revised = q.revised
  BY DEF Sound, Shape, Fields
<1>2. PICK inOrder, next : Stands(q, inOrder, next)
  BY DEF Sound
<1>3. Stands(p, inOrder, next)
  BY <1>1, <1>2 DEF Stands
<1>4. Kinds(p) /\ Seated(p)
  BY <1>1 DEF Sound, Kinds, Seated
<1>5. Seen(q, p)
  <2>1. q.revised \in BOOLEAN
    BY DEF Sound, Kinds
  <2> QED BY <1>1, <2>1, SameShown DEF Seen
<1> QED BY <1>1, <1>3, <1>4, <1>5 DEF Sound

\* A queue reshuffled holds the same rows in order.
LEMMA ReshuffleStands ==
  ASSUME NEW q, Shape(q), Kinds(q), NEW inOrder, NEW next, Stands(q, inOrder, next),
         NEW p \in Reshuffle(q)
  PROVE  /\ Shape(p) /\ Kinds(p) /\ Stands(p, inOrder, next) /\ p.revised
         /\ Len(p.order) = Len(q.order) /\ p.next = q.next /\ p.after = q.after
         /\ p.seat = q.seat /\ p.places = q.places /\ p.repeat = q.repeat
         /\ p.shuffle = q.shuffle /\ p.unshuffled = q.unshuffled
<1>1. PICK order \in Orders(q.order) : p = [Revised(q) EXCEPT !.order = order]
  BY DEF Reshuffle
<1>2. /\ Shape(p) /\ p.order = order /\ p.next = q.next /\ p.unshuffled = q.unshuffled
      /\ p.places = q.places /\ p.after = q.after /\ p.seat = q.seat /\ p.repeat = q.repeat
      /\ p.shuffle = q.shuffle /\ p.stamp = q.stamp /\ p.playingFrom = q.playingFrom
      /\ p.revised
  BY <1>1 DEF Shape, Fields, Revised
<1>3. Lists(order, inOrder) /\ Len(order) = Len(q.order)
  BY OrdersList DEF Stands
<1>4. Stands(p, inOrder, next)
  BY <1>2, <1>3 DEF Stands
<1>5. Kinds(p)
  BY <1>2 DEF Kinds
<1> QED BY <1>2, <1>3, <1>4, <1>5

Reseated(q, after, seat) == [q EXCEPT !.after = after, !.seat = seat]

\* The seat moved is all that moves.
LEMMA AfterMoved ==
  ASSUME NEW q, Shape(q), Kinds(q), NEW inOrder, NEW next, Stands(q, inOrder, next),
         NEW after \in Nat, NEW seat \in Seats,
         NEW p, p = Reseated(q, after, seat)
  PROVE  /\ Shape(p) /\ Kinds(p) /\ Stands(p, inOrder, next)
         /\ p.order = q.order /\ p.next = q.next /\ p.after = after /\ p.seat = seat
         /\ p.places = q.places /\ p.repeat = q.repeat /\ p.shuffle = q.shuffle
         /\ p.unshuffled = q.unshuffled /\ p.stamp = q.stamp /\ p.revised = q.revised
<1>1. /\ Shape(p) /\ p.order = q.order /\ p.next = q.next /\ p.unshuffled = q.unshuffled
      /\ p.places = q.places /\ p.after = after /\ p.seat = seat /\ p.repeat = q.repeat
      /\ p.shuffle = q.shuffle /\ p.stamp = q.stamp /\ p.playingFrom = q.playingFrom
      /\ p.revised = q.revised
  BY DEF Shape, Fields, Reseated
<1>2. Stands(p, inOrder, next)
  BY <1>1 DEF Stands
<1>3. Kinds(p)
  BY <1>1 DEF Kinds
<1> QED BY <1>1, <1>2, <1>3

LEMMA SeatAlone ==
  ASSUME NEW q, Shape(q), NEW after, NEW seat
  PROVE  /\ [q EXCEPT !.after = after] = Reseated(q, after, q.seat)
         /\ [q EXCEPT !.seat = seat] = Reseated(q, q.after, seat)
<1> PICK f : f = [x \in Fields |-> q[x]]
  OBVIOUS
<1>1. q = f
  BY DEF Shape
<1>2. /\ [f EXCEPT !.after = after] = [f EXCEPT !.after = after, !.seat = f.seat]
      /\ [f EXCEPT !.seat = seat] = [f EXCEPT !.after = f.after, !.seat = seat]
  OBVIOUS
<1> QED BY <1>1, <1>2 DEF Reseated

LEMMA ReshuffleKeepingStands ==
  ASSUME NEW q, Shape(q), Kinds(q), NEW inOrder, NEW next, Stands(q, inOrder, next),
         NEW playing, NEW p \in ReshuffleKeeping(q, playing)
  PROVE  /\ Shape(p) /\ Kinds(p) /\ Stands(p, inOrder, next) /\ p.revised
         /\ Len(p.order) = Len(q.order) /\ p.next = q.next /\ p.after = 1
         /\ p.seat = q.seat /\ p.places = q.places /\ p.repeat = q.repeat
         /\ p.shuffle = q.shuffle /\ p.unshuffled = q.unshuffled
         /\ playing \in Places(q.order) => p.order[1].place = playing
<1>1. PICK r \in Reshuffle(q) :
        /\ playing \in Places(q.order) => r.order[1].place = playing
        /\ p = [r EXCEPT !.after = 1]
  BY DEF ReshuffleKeeping
<1>2. /\ Shape(r) /\ Kinds(r) /\ Stands(r, inOrder, next) /\ r.revised
      /\ Len(r.order) = Len(q.order) /\ r.next = q.next
      /\ r.seat = q.seat /\ r.places = q.places /\ r.repeat = q.repeat
      /\ r.shuffle = q.shuffle /\ r.unshuffled = q.unshuffled
  BY ReshuffleStands
<1>3. PICK after \in Nat : after = 1
  OBVIOUS
<1>4. p = Reseated(r, after, r.seat) /\ r.seat \in Seats
  BY <1>1, <1>2, <1>3, SeatAlone DEF Kinds
<1>5. /\ Shape(p) /\ Kinds(p) /\ Stands(p, inOrder, next)
      /\ p.order = r.order /\ p.next = r.next /\ p.after = after /\ p.seat = r.seat
      /\ p.places = r.places /\ p.repeat = r.repeat /\ p.shuffle = r.shuffle
      /\ p.unshuffled = r.unshuffled /\ p.revised = r.revised
  <2>1. Shape(r) /\ Kinds(r) /\ Stands(r, inOrder, next)
    BY <1>2
  <2> QED BY <1>4, <2>1, AfterMoved
<1> QED BY <1>1, <1>2, <1>3, <1>5

\* The last row heard is one of those in order, or there is none.
LEMMA LastHeardIs ==
  ASSUME NEW q, NEW rows, q.order \in Seq(rows), q.after \in Nat, q.after <= Len(q.order),
         \A r \in rows : r.place # NoPlace
  PROVE  /\ q.after = 0 <=> LastHeard(q) = NoPlace
         /\ q.after > 0 => /\ q.after \in 1..Len(q.order)
                           /\ q.order[q.after] \in rows
                           /\ LastHeard(q) = q.order[q.after].place
<1>0. Len(q.order) \in Nat
  OBVIOUS
<1>1. CASE q.after = 0
  <2>1. q.after \notin 1..Len(q.order)
    BY <1>1
  <2> QED BY <1>1, <2>1 DEF LastHeard
<1>2. CASE q.after > 0
  <2>1. q.after \in 1..Len(q.order)
    BY <1>0, <1>2
  <2>2. q.order[q.after] \in rows
    BY <2>1, ElementOfSeq
  <2>3. LastHeard(q) = q.order[q.after].place
    BY <2>1 DEF LastHeard
  <2> QED BY <1>2, <2>1, <2>2, <2>3
<1> QED BY <1>1, <1>2

LEMMA RowsHavePlaces ==
  ASSUME NEW q, NEW inOrder, NEW next, Kinds(q), Stands(q, inOrder, next)
  PROVE  \A r \in inOrder \cup next :
           /\ r.place \in 0..(q.places - 1) /\ r.place # NoPlace
           /\ r.place \in Nat /\ r.place # q.places
           /\ r.item \in Items /\ r.stamped \in Items
<1>1. q.places \in Nat
  BY QueueAssumption DEF Kinds
<1>2. inOrder \cup next \in SUBSET GivenOut(q.places)
  BY DEF Stands
<1>3. \A r \in GivenOut(q.places) : r.place \in 0..(q.places - 1) /\ r.item \in Items
                                    /\ r.stamped \in Items
  BY DEF GivenOut
<1>4. \A n \in 0..(q.places - 1) : n # NoPlace /\ n \in Nat /\ n # q.places
  BY <1>1 DEF NoPlace
<1> QED BY <1>2, <1>3, <1>4

LEMMA SetShuffleKeeps ==
  ASSUME NEW q, Sound(q), Seated(q), NEW shuffle \in BOOLEAN, NEW p \in SetShuffle(q, shuffle)
  PROVE  Sound(p) /\ Seated(p) /\ Seen(q, p) /\ p.places = q.places
<1> DEFINE turned == Revised([q EXCEPT !.shuffle = shuffle])
           started == [turned EXCEPT !.unshuffled = q.order]
           stopped == [turned EXCEPT !.order = q.unshuffled, !.unshuffled = <<>>]
           at == Found(stopped.order, LastHeard(q))
<1>1. PICK inOrder, next : Stands(q, inOrder, next)
  BY DEF Sound
<1>2. Shape(q) /\ Kinds(q)
  BY DEF Sound
<1>3. CASE shuffle = q.shuffle
  <2>1. p = q
    BY <1>3 DEF SetShuffle
  <2>2. Seen(q, q)
    BY <1>2 DEF Seen, Kinds
  <2> QED BY <2>1, <2>2
<1>4. CASE shuffle /\ ~q.shuffle
  <2>1. /\ Shape(started) /\ started.order = q.order /\ started.next = q.next
        /\ started.unshuffled = q.order /\ started.places = q.places
        /\ started.after = q.after /\ started.seat = q.seat /\ started.repeat = q.repeat
        /\ started.shuffle = shuffle /\ started.stamp = q.stamp
        /\ started.playingFrom = q.playingFrom /\ started.revised = TRUE
    BY <1>2 DEF Shape, Fields, Revised
  <2> HIDE DEF started, turned
  <2>2. Stands(started, inOrder, next)
    BY <1>1, <1>4, <2>1 DEF Stands
  <2>3. Kinds(started)
    BY <1>2, <2>1 DEF Kinds
  <2>4. CASE q.seat # "nowhere" /\ LastHeard(q) # NoPlace
    <3>1. p \in ReshuffleKeeping(started, LastHeard(q))
      BY <1>4, <2>4 DEF SetShuffle, started, turned
    <3>2. /\ Shape(p) /\ Kinds(p) /\ Stands(p, inOrder, next) /\ p.revised
          /\ Len(p.order) = Len(q.order) /\ p.next = q.next /\ p.after = 1
          /\ p.seat = q.seat /\ p.places = q.places
      BY <2>1, <2>2, <2>3, <3>1, ReshuffleKeepingStands
    <3>3. 1 <= Len(q.order)
      BY <2>4, ListsOfASoundQueue, <1>1 DEF LastHeard
    <3>4. Seated(p)
      BY <2>4, <3>2, <3>3 DEF Seated
    <3> QED BY <3>2, <3>4 DEF Sound, Seen
  <2>5. CASE ~(q.seat # "nowhere" /\ LastHeard(q) # NoPlace)
    <3>1. p \in Reshuffle(started)
      BY <1>4, <2>5 DEF SetShuffle, started, turned
    <3>2. /\ Shape(p) /\ Kinds(p) /\ Stands(p, inOrder, next) /\ p.revised
          /\ Len(p.order) = Len(q.order) /\ p.next = q.next /\ p.after = q.after
          /\ p.seat = q.seat /\ p.places = q.places
      BY <2>1, <2>2, <2>3, <3>1, ReshuffleStands
    <3>3. Seated(p)
      BY <3>2 DEF Seated
    <3> QED BY <3>2, <3>3 DEF Sound, Seen
  <2> QED BY <2>4, <2>5
<1>5. CASE ~shuffle /\ q.shuffle
  <2>1. p = [stopped EXCEPT !.after = IF q.seat = "nowhere" THEN Len(stopped.order) ELSE at]
    BY <1>5 DEF SetShuffle
  <2>2. /\ Shape(stopped) /\ stopped.order = q.unshuffled /\ stopped.next = q.next
        /\ stopped.unshuffled = <<>> /\ stopped.places = q.places
        /\ stopped.after = q.after /\ stopped.seat = q.seat /\ stopped.repeat = q.repeat
        /\ stopped.shuffle = shuffle /\ stopped.stamp = q.stamp
        /\ stopped.playingFrom = q.playingFrom /\ stopped.revised = TRUE
    BY <1>2 DEF Shape, Fields, Revised
  <2>3. at = Found(q.unshuffled, LastHeard(q))
    BY <2>2
  <2> HIDE DEF stopped, turned, at
  <2>4. Lists(q.unshuffled, inOrder) /\ Lists(q.order, inOrder)
    BY <1>1, <1>5 DEF Stands
  <2>5. Stands(stopped, inOrder, next)
    BY <1>1, <1>5, <2>2, <2>4 DEF Stands
  <2>6. Kinds(stopped)
    BY <1>2, <2>2 DEF Kinds
  <2>7. Len(q.unshuffled) = Len(q.order) /\ Len(q.order) \in Nat
    BY <2>4, ListCounts, ListIsAList
  <2>8. at \in 0..Len(q.order) /\ (q.after > 0 => at > 0)
    <3>0. q.unshuffled \in Seq(inOrder)
      BY <2>4 DEF Lists
    <3>1. \/ at = 0 /\ \A i \in 1..Len(q.unshuffled) : q.unshuffled[i].place # LastHeard(q)
          \/ at \in 1..Len(q.unshuffled)
      BY <2>3, <3>0, FoundIs
    <3>2. CASE q.after > 0
      <4>1. q.order[q.after] \in inOrder /\ LastHeard(q) = q.order[q.after].place
        <5>1. \A r \in inOrder : r.place # NoPlace
          BY <1>1, <1>2, RowsHavePlaces
        <5>2. q.order \in Seq(inOrder) /\ q.after \in Nat /\ q.after <= Len(q.order)
          BY <1>2, <2>4 DEF Kinds, Seated, Lists
        <5> QED BY <3>2, <5>1, <5>2, LastHeardIs
      <4>2. PICK i \in 1..Len(q.unshuffled) : q.unshuffled[i] = q.order[q.after]
        BY <2>4, <4>1 DEF Lists
      <4>3. at \in 1..Len(q.unshuffled)
        BY <3>1, <4>1, <4>2
      <4> QED BY <2>7, <4>3
    <3> QED BY <2>7, <3>1, <3>2
  <2>9. PICK after : after = IF q.seat = "nowhere" THEN Len(stopped.order) ELSE at
    OBVIOUS
  <2>10. after \in Nat /\ after <= Len(q.order) /\ (q.seat = "in_order" => after > 0)
         /\ (q.seat = "nowhere" => after = Len(q.order))
    <3>1. q.seat = "in_order" => q.after > 0
      BY DEF Seated
    <3>2. after = IF q.seat = "nowhere" THEN Len(q.order) ELSE at
      BY <2>2, <2>7, <2>9
    <3> QED BY <2>7, <2>8, <3>1, <3>2
  <2>11. p = Reseated(stopped, after, stopped.seat) /\ stopped.seat \in Seats
    BY <2>1, <2>2, <2>6, <2>9, SeatAlone DEF Kinds
  <2>12. /\ Shape(p) /\ Kinds(p) /\ Stands(p, inOrder, next)
         /\ p.order = q.unshuffled /\ p.next = q.next /\ p.after = after /\ p.seat = q.seat
         /\ p.places = q.places /\ p.revised
    BY <2>2, <2>5, <2>6, <2>10, <2>11, AfterMoved
  <2>13. Seated(p)
    BY <2>7, <2>10, <2>12 DEF Seated
  <2> QED BY <2>12, <2>13 DEF Sound, Seen
<1> QED BY <1>2, <1>3, <1>4, <1>5 DEF Kinds

-----------------------------------------------------------------------------
(* Moving the seat.                                                         *)

\* A seat moved is shown only where it moves the rows played next.
LEMMA Reseats ==
  ASSUME NEW q, Sound(q), NEW after \in Nat, NEW seat \in Seats,
         NEW p, p = Reseated(q, after, seat)
  PROVE  /\ Sound(p) /\ p.order = q.order /\ p.next = q.next /\ p.after = after
         /\ p.seat = seat /\ p.places = q.places /\ p.revised = q.revised
         /\ p.repeat = q.repeat /\ p.shuffle = q.shuffle
         /\ after = q.after \/ q.next = <<>> => Seen(q, p)
<1>1. PICK inOrder, next : Stands(q, inOrder, next)
  BY DEF Sound
<1>2. Shape(q) /\ Kinds(q)
  BY DEF Sound
<1>3. /\ Shape(p) /\ Kinds(p) /\ Stands(p, inOrder, next)
      /\ p.order = q.order /\ p.next = q.next /\ p.after = after /\ p.seat = seat
      /\ p.places = q.places /\ p.repeat = q.repeat /\ p.shuffle = q.shuffle
      /\ p.unshuffled = q.unshuffled /\ p.stamp = q.stamp /\ p.revised = q.revised
  BY <1>1, <1>2, AfterMoved
<1>4. q.revised \in BOOLEAN /\ q.after \in Nat
  BY <1>2 DEF Kinds
<1>5. ASSUME after = q.after PROVE Seen(q, p)
  BY <1>3, <1>4, <1>5, SameShown DEF Seen
<1>6. ASSUME q.next = <<>> PROVE Seen(q, p)
  <2>1. q.order \in Seq(inOrder) /\ q.unshuffled \in Seq(inOrder)
    BY <1>1, ListsOfASoundQueue
  <2>2. Published(p) = Published(q)
    BY <1>3, <1>4, <1>6, <2>1, UnseenSeatMoves
  <2> QED BY <1>3, <1>4, <2>2 DEF Seen
<1> QED BY <1>3, <1>5, <1>6 DEF Sound

LEMMA SeatAfterKeeps ==
  ASSUME NEW q, Sound(q), NEW after \in Nat, NEW p, p = SeatAfter(q, after)
  PROVE  /\ Sound(p) /\ p.order = q.order /\ p.next = q.next /\ p.after = after
         /\ p.seat = q.seat /\ p.places = q.places
         /\ p.repeat = q.repeat /\ p.shuffle = q.shuffle /\ Seen(q, p)
<1>1. PICK inOrder, next : Stands(q, inOrder, next)
  BY DEF Sound
<1>2. Shape(q) /\ Kinds(q)
  BY DEF Sound
<1>3. /\ Shape(p) /\ p.order = q.order /\ p.next = q.next /\ p.after = after
      /\ p.seat = q.seat /\ p.places = q.places /\ p.repeat = q.repeat
      /\ p.shuffle = q.shuffle /\ p.unshuffled = q.unshuffled /\ p.stamp = q.stamp
      /\ p.playingFrom = q.playingFrom
      /\ p.revised = (q.revised \/ (after # q.after /\ q.next # <<>>))
  BY <1>2 DEF SeatAfter, Shape, Fields
<1>4. Stands(p, inOrder, next)
  BY <1>1, <1>3 DEF Stands
<1>5. Kinds(p)
  BY <1>2, <1>3 DEF Kinds
<1>6. CASE q.revised \/ (after # q.after /\ q.next # <<>>)
  BY <1>1, <1>3, <1>4, <1>5, <1>6 DEF Sound, Seen
<1>7. CASE ~q.revised /\ after = q.after
  <2>1. Published(p) = Published(q)
    BY <1>3, <1>7, SameShown
  <2> QED BY <1>1, <1>3, <1>4, <1>5, <1>7, <2>1 DEF Sound, Seen
<1>8. CASE ~q.revised /\ q.next = <<>>
  <2>1. q.order \in Seq(inOrder) /\ q.unshuffled \in Seq(inOrder)
    BY <1>1, ListsOfASoundQueue
  <2>2. q.after \in Nat
    BY <1>2 DEF Kinds
  <2>3. Published(p) = Published(q)
    BY <1>3, <1>8, <2>1, <2>2, UnseenSeatMoves
  <2> QED BY <1>1, <1>3, <1>4, <1>5, <1>8, <2>3 DEF Sound, Seen
<1> QED BY <1>6, <1>7, <1>8

\* What was shown step after step.
LEMMA SeenInTurn ==
  ASSUME NEW q, NEW r, NEW p, Seen(q, r), Seen(r, p)
  PROVE  Seen(q, p)
BY DEF Seen

LEMMA WrapStands ==
  ASSUME NEW q, Sound(q), q.next = <<>>, q.order # <<>>, NEW p \in WrapToTheStart(q)
  PROVE  /\ Sound(p) /\ Seated(p) /\ Seen(q, p) /\ p.places = q.places
         /\ p.seat = "in_order" /\ p.after = 1 /\ p.order # <<>> /\ p.next = q.next
         /\ ~q.shuffle => p.order = q.order
<1>1. PICK r \in IF q.shuffle THEN ReshuffleAfterAPass(q) ELSE {q} :
        p = Reseated(r, 1, "in_order")
  BY DEF WrapToTheStart, Reseated
<1>2. PICK inOrder, next : Stands(q, inOrder, next)
  BY DEF Sound
<1>3. /\ Sound(r) /\ Seen(q, r) /\ Len(r.order) = Len(q.order) /\ r.next = q.next
      /\ r.places = q.places /\ (~q.shuffle => r.order = q.order)
  <2>1. CASE q.shuffle
    <3>1. r \in Reshuffle(q)
      BY <1>1, <2>1 DEF ReshuffleAfterAPass
    <3>2. Shape(q) /\ Kinds(q)
      BY DEF Sound
    <3>3. /\ Shape(r) /\ Kinds(r) /\ Stands(r, inOrder, next) /\ r.revised
          /\ Len(r.order) = Len(q.order) /\ r.next = q.next /\ r.places = q.places
      BY <1>2, <3>1, <3>2, ReshuffleStands
    <3> QED BY <2>1, <3>3 DEF Sound, Seen
  <2>2. CASE ~q.shuffle
    <3>1. r = q
      BY <1>1, <2>2
    <3> QED BY <3>1 DEF Sound, Kinds, Seen
  <2> QED BY <2>1, <2>2
<1>4. PICK after \in Nat : after = 1
  OBVIOUS
<1>5. "in_order" \in Seats
  BY DEF Seats
<1>6. /\ Sound(p) /\ p.order = r.order /\ p.next = r.next /\ p.after = 1
      /\ p.seat = "in_order" /\ p.places = r.places /\ Seen(r, p)
  <2>1. Sound(r) /\ p = Reseated(r, after, "in_order") /\ r.next = <<>>
    BY <1>1, <1>3, <1>4
  <2>2. /\ Sound(p) /\ p.order = r.order /\ p.next = r.next /\ p.after = after
        /\ p.seat = "in_order" /\ p.places = r.places /\ Seen(r, p)
    BY <1>5, <2>1, Reseats
  <2> QED BY <1>4, <2>2
<1>7. Len(q.order) \in Nat /\ Len(q.order) # 0
  BY <1>2, ListsOfASoundQueue
<1>8. Seated(p) /\ p.order # <<>>
  <2>1. 1 <= Len(p.order)
    BY <1>3, <1>6, <1>7
  <2>2. p.order # <<>>
    BY <2>1
  <2> QED BY <1>6, <2>1, <2>2 DEF Seated
<1> QED BY <1>3, <1>6, <1>8, SeenInTurn

\* Handing on seats a queue whatever its seat was.
LEMMA HandOnKeeps ==
  ASSUME NEW q, Sound(q), q.after <= Len(q.order), NEW p \in HandOn(q)
  PROVE  Sound(p) /\ Seated(p) /\ Seen(q, p) /\ p.places = q.places
<1>1. PICK inOrder, next : Stands(q, inOrder, next)
  BY DEF Sound
<1>2. Shape(q) /\ Kinds(q) /\ q.after \in Nat
  BY DEF Sound, Kinds
<1>3. Len(q.order) \in Nat
  BY <1>1, ListsOfASoundQueue
<1>4. CASE q.next # <<>>
  <2>1. p = Reseated(q, q.after, "next")
    BY <1>2, <1>4, SeatAlone DEF HandOn
  <2>2. "next" \in Seats
    BY DEF Seats
  <2>3. /\ Sound(p) /\ p.order = q.order /\ p.next = q.next /\ p.after = q.after
        /\ p.seat = "next" /\ p.places = q.places /\ Seen(q, p)
    BY <1>2, <2>1, <2>2, Reseats
  <2> QED BY <1>4, <2>3 DEF Seated
<1>5. CASE q.next = <<>> /\ q.after < Len(q.order)
  <2>1. PICK after \in Nat : after = q.after + 1
    BY <1>2
  <2>2. p = Reseated(q, after, "in_order")
    <3>1. p = [q EXCEPT !.after = q.after + 1, !.seat = "in_order"]
      <4>1. ~(q.after >= Len(q.order))
        BY <1>2, <1>3, <1>5
      <4> QED BY <1>5, <4>1 DEF HandOn
    <3> QED BY <2>1, <3>1 DEF Reseated
  <2>3. "in_order" \in Seats
    BY DEF Seats
  <2>4. /\ Sound(p) /\ p.order = q.order /\ p.next = q.next /\ p.after = after
        /\ p.seat = "in_order" /\ p.places = q.places /\ Seen(q, p)
    BY <1>5, <2>2, <2>3, Reseats
  <2>5. after > 0 /\ after <= Len(q.order)
    BY <1>2, <1>3, <1>5, <2>1
  <2> QED BY <1>5, <2>4, <2>5 DEF Seated
<1>6. CASE q.next = <<>> /\ q.after >= Len(q.order) /\ q.repeat = "queue" /\ q.order # <<>>
  <2>1. p \in WrapToTheStart(q)
    BY <1>2, <1>3, <1>6 DEF HandOn
  <2> QED BY <1>6, <2>1, WrapStands
<1>7. CASE q.next = <<>> /\ q.after >= Len(q.order) /\ ~(q.repeat = "queue" /\ q.order # <<>>)
  <2>1. p = Reseated(q, q.after, "nowhere")
    <3>1. ~(q.after < Len(q.order))
      BY <1>2, <1>3, <1>7
    <3>2. p = [q EXCEPT !.seat = "nowhere"]
      BY <1>7, <3>1 DEF HandOn
    <3> QED BY <1>2, <3>2, SeatAlone
  <2>2. "nowhere" \in Seats
    BY DEF Seats
  <2>3. /\ Sound(p) /\ p.order = q.order /\ p.next = q.next /\ p.after = q.after
        /\ p.seat = "nowhere" /\ p.places = q.places /\ Seen(q, p)
    BY <1>2, <2>1, <2>2, Reseats
  <2>4. q.after = Len(q.order)
    BY <1>2, <1>3, <1>7
  <2> QED BY <1>7, <2>3, <2>4 DEF Seated
<1> QED BY <1>2, <1>3, <1>4, <1>5, <1>6, <1>7

\* The row let go of leaves the rows played next and the stamp of the rows held.
LEMMA LetGoKeeps ==
  ASSUME NEW q, Sound(q), NEW p, p = LetGoOfWhatWasHeard(q)
  PROVE  /\ Sound(p) /\ p.order = q.order /\ p.after = q.after /\ p.seat = q.seat
         /\ p.places = q.places /\ p.repeat = q.repeat /\ p.shuffle = q.shuffle
         /\ p.next = (IF q.next = <<>> THEN <<>> ELSE Past(q.next, 1))
         /\ Seen(q, p)
<1>1. PICK inOrder, next : Stands(q, inOrder, next)
  BY DEF Sound
<1>2. Shape(q) /\ Kinds(q)
  BY DEF Sound
<1>3. CASE q.next = <<>>
  <2>1. p = q
    BY <1>3 DEF LetGoOfWhatWasHeard
  <2>2. Seen(q, q)
    BY <1>2 DEF Seen, Kinds
  <2> QED BY <1>3, <2>1, <2>2
<1>4. CASE q.next # <<>>
  <2>1. /\ Lists(First(q.next, 1), {q.next[1]}) /\ Tail(q.next) = Past(q.next, 1)
        /\ Lists(Past(q.next, 1), next \ {q.next[1]}) /\ q.next[1] \in next
    BY <1>1, <1>4, HeadAndRest DEF Stands
  <2>2. /\ Shape(p) /\ p.order = q.order /\ p.next = Past(q.next, 1)
        /\ p.unshuffled = q.unshuffled
        /\ p.places = q.places /\ p.after = q.after /\ p.seat = q.seat
        /\ p.repeat = q.repeat /\ p.shuffle = q.shuffle
        /\ p.stamp = Less(q.stamp, First(q.next, 1)) /\ p.playingFrom = q.playingFrom
        /\ p.revised
    BY <1>2, <1>4, <2>1 DEF LetGoOfWhatWasHeard, Revised, Shape, Fields
  <2>3. p.stamp = Marked(inOrder \cup (next \ {q.next[1]}))
    <3>1. q.stamp = Marked(inOrder \cup next) /\ Apart(inOrder \cup next)
          /\ inOrder \cap next = {}
      BY <1>1 DEF Stands
    <3>2. {q.next[1]} \in SUBSET (inOrder \cup next)
      BY <2>1
    <3>3. p.stamp = Marked((inOrder \cup next) \ {q.next[1]})
      BY <2>1, <2>2, <3>1, <3>2, LeftStamp
    <3>4. (inOrder \cup next) \ {q.next[1]} = inOrder \cup (next \ {q.next[1]})
      BY <2>1, <3>1
    <3> QED BY <3>3, <3>4
  <2>4. Stands(p, inOrder, next \ {q.next[1]})
    <3>1. Apart(inOrder \cup (next \ {q.next[1]}))
      BY <1>1 DEF Stands, Apart
    <3> QED BY <1>1, <2>1, <2>2, <2>3, <3>1 DEF Stands
  <2>5. Kinds(p)
    BY <1>2, <2>2 DEF Kinds
  <2> QED BY <1>4, <2>2, <2>4, <2>5 DEF Sound, Seen
<1> QED BY <1>3, <1>4

LEMMA AdvanceKeeps ==
  ASSUME NEW q, Sound(q), Seated(q), NEW natural \in BOOLEAN, NEW p \in Advance(q, natural)
  PROVE  Sound(p) /\ Seated(p) /\ Seen(q, p) /\ p.places = q.places
<1>0. Seen(q, q)
  BY DEF Seen, Sound, Kinds
<1>1. CASE q.seat = "nowhere" \/ (natural /\ q.repeat = "track")
  <2>1. p = q
    BY <1>1 DEF Advance
  <2> QED BY <1>0, <2>1
<1>2. CASE ~(q.seat = "nowhere" \/ (natural /\ q.repeat = "track"))
  <2>1. PICK r : r = IF q.seat = "next" THEN LetGoOfWhatWasHeard(q) ELSE q
    OBVIOUS
  <2>2. p \in HandOn(r)
    BY <1>2, <2>1 DEF Advance
  <2>3. Sound(r) /\ Seen(q, r) /\ r.after <= Len(r.order) /\ r.places = q.places
    <3>1. CASE q.seat = "next"
      BY <2>1, <3>1, LetGoKeeps DEF Seated
    <3>2. CASE q.seat # "next"
      BY <1>0, <2>1, <3>2 DEF Seated
    <3> QED BY <3>1, <3>2
  <2>4. Sound(p) /\ Seated(p) /\ Seen(r, p) /\ p.places = r.places
    BY <2>2, <2>3, HandOnKeeps
  <2> QED BY <2>3, <2>4, SeenInTurn
<1> QED BY <1>1, <1>2

LEMMA RetreatKeeps ==
  ASSUME NEW q, Sound(q), Seated(q), NEW p, p = Retreat(q)
  PROVE  Sound(p) /\ Seated(p) /\ Seen(q, p) /\ p.places = q.places
<1>0. Seen(q, q)
  BY DEF Seen, Sound, Kinds
<1>1. PICK inOrder, next : Stands(q, inOrder, next)
  BY DEF Sound
<1>2. Shape(q) /\ Kinds(q) /\ q.after \in Nat /\ q.after <= Len(q.order)
  BY DEF Sound, Kinds, Seated
<1>3. Len(q.order) \in Nat /\ (q.order = <<>> <=> Len(q.order) = 0)
  BY <1>1, ListsOfASoundQueue
<1>4. "in_order" \in Seats
  BY DEF Seats
<1>5. ASSUME NEW after \in Nat, NEW r, r = SeatAfter(q, after), NEW s,
             s = [r EXCEPT !.seat = "in_order"]
      PROVE  /\ Sound(s) /\ s.order = q.order /\ s.next = q.next /\ s.after = after
             /\ s.seat = "in_order" /\ s.places = q.places /\ Seen(q, s)
  <2>1. /\ Sound(r) /\ r.order = q.order /\ r.next = q.next /\ r.after = after
        /\ r.places = q.places /\ Seen(q, r)
    BY <1>5, SeatAfterKeeps
  <2>2. s = Reseated(r, r.after, "in_order") /\ r.after \in Nat
    BY <1>5, <2>1, SeatAlone DEF Sound, Kinds
  <2>3. /\ Sound(s) /\ s.order = r.order /\ s.next = r.next /\ s.after = r.after
        /\ s.seat = "in_order" /\ s.places = r.places /\ Seen(r, s)
    BY <1>4, <2>1, <2>2, Reseats
  <2> QED BY <2>1, <2>3, SeenInTurn
<1>6. ASSUME NEW r, r = SeatAfter(q, Len(q.order)), p = [r EXCEPT !.seat = "in_order"],
             q.order # <<>>
      PROVE  Sound(p) /\ Seated(p) /\ Seen(q, p) /\ p.places = q.places
  <2>1. /\ Sound(p) /\ p.order = q.order /\ p.next = q.next /\ p.after = Len(q.order)
        /\ p.seat = "in_order" /\ p.places = q.places /\ Seen(q, p)
    BY <1>3, <1>5, <1>6
  <2>2. Len(q.order) > 0
    BY <1>3, <1>6
  <2> QED BY <1>3, <2>1, <2>2 DEF Seated
<1>7. CASE q.seat = "next" /\ q.after > 0
  <2>1. p = Reseated(q, q.after, "in_order")
    <3>1. ~(q.after = 0)
      BY <1>2, <1>7
    <3>2. p = [q EXCEPT !.seat = "in_order"]
      BY <1>7, <3>1 DEF Retreat
    <3> QED BY <1>2, <3>2, SeatAlone
  <2>2. /\ Sound(p) /\ p.order = q.order /\ p.next = q.next /\ p.after = q.after
        /\ p.seat = "in_order" /\ p.places = q.places /\ Seen(q, p)
    BY <1>2, <1>4, <2>1, Reseats
  <2> QED BY <1>2, <1>7, <2>2 DEF Seated
<1>8. CASE q.seat = "next" /\ q.after = 0 /\ q.repeat = "queue" /\ q.order # <<>>
  <2>1. p = [SeatAfter(q, Len(q.order)) EXCEPT !.seat = "in_order"]
    BY <1>8 DEF Retreat
  <2> QED BY <1>6, <1>8, <2>1
<1>9. CASE q.seat = "in_order" /\ q.after > 1
  <2>1. PICK after \in Nat : after = q.after - 1
    BY <1>2, <1>9
  <2>2. p = SeatAfter(q, after)
    <3>1. ~(q.after <= 1)
      BY <1>2, <1>9
    <3> QED BY <1>9, <2>1, <3>1 DEF Retreat
  <2>3. /\ Sound(p) /\ p.order = q.order /\ p.next = q.next /\ p.after = after
        /\ p.seat = q.seat /\ p.places = q.places /\ Seen(q, p)
    BY <2>2, SeatAfterKeeps
  <2>4. after > 0 /\ after <= Len(q.order)
    BY <1>2, <1>3, <1>9, <2>1
  <2> QED BY <1>9, <2>3, <2>4 DEF Seated
<1>10. CASE q.seat = "in_order" /\ q.after <= 1 /\ q.repeat = "queue"
  <2>1. p = [SeatAfter(q, Len(q.order)) EXCEPT !.seat = "in_order"]
    <3>1. ~(q.after > 1)
      BY <1>2, <1>10
    <3> QED BY <1>10, <3>1 DEF Retreat
  <2>2. q.order # <<>>
    BY <1>2, <1>3, <1>10 DEF Seated
  <2> QED BY <1>6, <2>1, <2>2
<1>11. CASE ~(\/ q.seat = "next" /\ q.after > 0
              \/ q.seat = "next" /\ q.after = 0 /\ q.repeat = "queue" /\ q.order # <<>>
              \/ q.seat = "in_order" /\ q.after > 1
              \/ q.seat = "in_order" /\ q.after <= 1 /\ q.repeat = "queue")
  <2>1. p = q
    BY <1>11 DEF Retreat
  <2> QED BY <1>0, <2>1
<1> QED BY <1>7, <1>8, <1>9, <1>10, <1>11

-----------------------------------------------------------------------------
(* The rows drawn, and jumping to one.                                     *)

\* One list with another put into it, row by row.
PutInto(all, order, next, after) ==
  /\ Len(all) = Len(order) + Len(next)
  /\ \A i \in 1..after : all[i] = order[i]
  /\ \A i \in 1..Len(next) : all[after + i] = next[i]
  /\ \A i \in (after + 1)..Len(order) : all[Len(next) + i] = order[i]

LEMMA SplicedIs ==
  ASSUME NEW rows, NEW order \in Seq(rows), NEW next \in Seq(rows),
         NEW after \in Nat, after <= Len(order),
         NEW all, all = First(order, after) \o next \o Past(order, after)
  PROVE  all \in Seq(rows) /\ PutInto(all, order, next, after)
<1>0. PICK l \in Nat, n \in Nat : l = Len(order) /\ n = Len(next)
  OBVIOUS
<1>1. after <= l
  BY <1>0
<1> DEFINE first == First(order, after)
           past == Past(order, after)
           begin == first \o next
<1>2. /\ first \in Seq(rows) /\ past \in Seq(rows)
      /\ Len(first) = after /\ Len(past) = l - after
      /\ \A i \in 1..after : first[i] = order[i]
      /\ \A i \in 1..(l - after) : past[i] = order[after + i]
  BY <1>0, CutInTwo
<1> HIDE DEF first, past
<1>3. /\ begin \in Seq(rows) /\ Len(begin) = after + n
      /\ \A i \in 1..(after + n) : begin[i] =
           IF i <= after THEN first[i] ELSE next[i - after]
  <2>1. /\ begin \in Seq(rows) /\ Len(begin) = Len(first) + Len(next)
        /\ \A i \in 1..(Len(first) + Len(next)) : begin[i] =
             IF i <= Len(first) THEN first[i] ELSE next[i - Len(first)]
    BY <1>2, ConcatProperties
  <2> HIDE DEF begin
  <2> QED BY <1>0, <1>2, <2>1
<1>4. all = begin \o past
  BY DEF first, past
<1> HIDE DEF begin
<1>5. /\ all \in Seq(rows) /\ Len(all) = after + n + (l - after)
      /\ \A i \in 1..(after + n + (l - after)) : all[i] =
           IF i <= after + n THEN begin[i] ELSE past[i - (after + n)]
  <2>1. /\ all \in Seq(rows) /\ Len(all) = Len(begin) + Len(past)
        /\ \A i \in 1..(Len(begin) + Len(past)) : all[i] =
             IF i <= Len(begin) THEN begin[i] ELSE past[i - Len(begin)]
    <3>1. begin \in Seq(rows) /\ past \in Seq(rows)
      BY <1>2, <1>3
    <3> QED BY <1>4, <3>1, ConcatProperties
  <2> QED BY <1>2, <1>3, <2>1
<1>6. PICK m \in Nat : m = after + n + (l - after)
  BY <1>1
<1>7. ASSUME NEW i \in 1..after PROVE all[i] = order[i]
  <2>1. i \in 1..(after + n) /\ i \in 1..m /\ i <= after /\ i <= after + n
    BY <1>1, <1>6
  <2>2. all[i] = begin[i]
    BY <1>5, <1>6, <2>1
  <2>3. begin[i] = first[i]
    BY <1>3, <2>1
  <2> QED BY <1>2, <2>2, <2>3
<1>8. ASSUME NEW i \in 1..n PROVE all[after + i] = next[i]
  <2>1. PICK at \in Nat : at = after + i
    OBVIOUS
  <2>2. at \in 1..(after + n) /\ at \in 1..m /\ ~(at <= after)
        /\ at <= after + n /\ at - after = i
    BY <1>1, <1>6, <2>1
  <2>3. all[at] = begin[at]
    BY <1>5, <1>6, <2>2
  <2>4. begin[at] = next[at - after]
    BY <1>3, <2>2
  <2> QED BY <2>1, <2>2, <2>3, <2>4
<1>9. ASSUME NEW i \in (after + 1)..l PROVE all[n + i] = order[i]
  <2>1. PICK at \in Nat, of \in Nat : at = n + i /\ of = i - after
    OBVIOUS
  <2>2. at \in 1..m /\ ~(at <= after + n) /\ at - (after + n) = of
        /\ of \in 1..(l - after) /\ after + of = i
    BY <1>1, <1>6, <2>1
  <2>3. all[at] = past[at - (after + n)]
    BY <1>5, <1>6, <2>2
  <2>4. past[of] = order[after + of]
    BY <1>2, <2>2
  <2> QED BY <2>1, <2>2, <2>3, <2>4
<1>10. m = l + n
  BY <1>1, <1>6
<1> QED BY <1>0, <1>5, <1>6, <1>7, <1>8, <1>9, <1>10 DEF PutInto

LEMMA DrawnIs ==
  ASSUME NEW q, NEW rows, q.order \in Seq(rows), q.next \in Seq(rows),
         q.after \in Nat, q.after <= Len(q.order)
  PROVE  /\ Drawn(q) \in Seq(rows) /\ Len(Drawn(q)) = Size(q) /\ Size(q) \in Nat
         /\ PutInto(Drawn(q), q.order, q.next, q.after)
<1>1. Drawn(q) = First(q.order, q.after) \o q.next \o Past(q.order, q.after)
  BY DEF Drawn
<1>2. Drawn(q) \in Seq(rows) /\ PutInto(Drawn(q), q.order, q.next, q.after)
  BY <1>1, SplicedIs
<1>3. Len(q.order) \in Nat /\ Len(q.next) \in Nat
  OBVIOUS
<1>4. Size(q) = Len(q.order) + Len(q.next)
  BY DEF Size
<1>5. Len(Drawn(q)) = Len(q.order) + Len(q.next)
  BY <1>2 DEF PutInto
<1>6. Size(q) \in Nat
  <2>1. \A l, n \in Nat : l + n \in Nat
    OBVIOUS
  <2> QED BY <1>3, <1>4, <2>1
<1>7. Len(Drawn(q)) = Size(q)
  BY <1>4, <1>5
<1> QED BY <1>2, <1>6, <1>7

\* The row a drawn position names is the row drawn there.
LEMMA RowAtIs ==
  ASSUME NEW q, NEW rows, q.order \in Seq(rows), q.next \in Seq(rows),
         q.after \in Nat, q.after <= Len(q.order), NEW drawn \in 0..(Size(q) - 1)
  PROVE  \/ /\ RowAt(q, drawn).waits = "next"
            /\ RowAt(q, drawn).at \in 0..(Len(q.next) - 1)
            /\ drawn = q.after + RowAt(q, drawn).at
            /\ Drawn(q)[drawn + 1] = q.next[RowAt(q, drawn).at + 1]
         \/ /\ RowAt(q, drawn).waits = "in_order"
            /\ RowAt(q, drawn).at \in 0..(Len(q.order) - 1)
            /\ drawn = IF RowAt(q, drawn).at < q.after THEN RowAt(q, drawn).at
                       ELSE RowAt(q, drawn).at + Len(q.next)
            /\ Drawn(q)[drawn + 1] = q.order[RowAt(q, drawn).at + 1]
<1>0. PICK l \in Nat, n \in Nat, after \in Nat :
        l = Len(q.order) /\ n = Len(q.next) /\ after = q.after
  OBVIOUS
<1>a. PICK row, all : row = RowAt(q, drawn) /\ all = Drawn(q)
  OBVIOUS
<1> SUFFICES \/ /\ row.waits = "next" /\ row.at \in 0..(n - 1) /\ drawn = after + row.at
                /\ all[drawn + 1] = q.next[row.at + 1]
             \/ /\ row.waits = "in_order" /\ row.at \in 0..(l - 1)
                /\ drawn = IF row.at < after THEN row.at ELSE row.at + n
                /\ all[drawn + 1] = q.order[row.at + 1]
  BY <1>0, <1>a
<1>1. after <= l /\ drawn \in 0..(l + n - 1)
  <2>1. Size(q) = l + n
    BY <1>0 DEF Size
  <2>2. drawn \in 0..(l + n - 1)
    BY <2>1
  <2>3. after <= l
    BY <1>0
  <2> QED BY <2>2, <2>3
<1>2. /\ \A i \in 1..after : all[i] = q.order[i]
      /\ \A i \in 1..n : all[after + i] = q.next[i]
      /\ \A i \in (after + 1)..l : all[n + i] = q.order[i]
  <2>1. /\ \A i \in 1..after : Drawn(q)[i] = q.order[i]
        /\ \A i \in 1..n : Drawn(q)[after + i] = q.next[i]
        /\ \A i \in (after + 1)..l : Drawn(q)[n + i] = q.order[i]
    BY <1>0, DrawnIs DEF PutInto
  <2> QED BY <1>a, <2>1
<1>3. CASE drawn < after
  <2>1. ~(drawn >= after)
    BY <1>1, <1>3
  <2>2. RowAt(q, drawn) = [waits |-> "in_order", at |-> drawn]
    BY <1>0, <1>3, <2>1 DEF RowAt
  <2>3. drawn + 1 \in 1..after /\ drawn \in 0..(l - 1)
    BY <1>1, <1>3
  <2>4. row.waits = "in_order" /\ row.at = drawn
    BY <1>a, <2>2
  <2>5. all[drawn + 1] = q.order[drawn + 1]
    BY <1>2, <2>3
  <2> QED BY <1>3, <2>3, <2>4, <2>5
<1>4. CASE drawn >= after /\ drawn < after + n
  <2>1. PICK at \in Nat : at = drawn - after
    BY <1>1, <1>4
  <2>2. ~(drawn < after) /\ at \in 0..(n - 1) /\ at + 1 \in 1..n
        /\ drawn = after + at /\ drawn + 1 = after + (at + 1)
    BY <1>1, <1>4, <2>1
  <2>3. RowAt(q, drawn) = [waits |-> "next", at |-> at]
    BY <1>0, <1>4, <2>1, <2>2 DEF RowAt
  <2>4. all[drawn + 1] = q.next[at + 1]
    BY <1>2, <2>2
  <2>5. row.waits = "next" /\ row.at = at
    BY <1>a, <2>3
  <2> QED BY <2>2, <2>4, <2>5
<1>5. CASE drawn >= after + n
  <2>1. PICK at \in Nat : at = drawn - n
    BY <1>1, <1>5
  <2>2. ~(drawn < after) /\ ~(drawn < after + n) /\ at \in 0..(l - 1)
        /\ at + 1 \in (after + 1)..l /\ ~(at < after)
        /\ drawn = at + n /\ drawn + 1 = n + (at + 1)
    BY <1>1, <1>5, <2>1
  <2>3. RowAt(q, drawn) = [waits |-> "in_order", at |-> at]
    BY <1>0, <2>1, <2>2 DEF RowAt
  <2>4. all[drawn + 1] = q.order[at + 1]
    BY <1>2, <2>2
  <2>5. row.waits = "in_order" /\ row.at = at
    BY <1>a, <2>3
  <2>6. drawn = IF row.at < after THEN row.at ELSE row.at + n
    BY <2>2, <2>5
  <2> QED BY <2>2, <2>4, <2>5, <2>6
<1> QED BY <1>1, <1>3, <1>4, <1>5

LEMMA JumpToKeeps ==
  ASSUME NEW q, Sound(q), Seated(q), NEW drawn \in 0..(Size(q) - 1), NEW p, p = JumpTo(q, drawn)
  PROVE  /\ Sound(p) /\ Seated(p) /\ Seen(q, p) /\ p.places = q.places
         /\ HeardPlace(p) = Drawn(q)[drawn + 1].place
<1>0. Seen(q, q)
  BY DEF Seen, Sound, Kinds
<1>1. PICK inOrder, next : Stands(q, inOrder, next)
  BY DEF Sound
<1>2. Shape(q) /\ Kinds(q) /\ q.after \in Nat /\ q.after <= Len(q.order)
  BY DEF Sound, Kinds, Seated
<1>3. /\ q.order \in Seq(inOrder \cup next) /\ q.next \in Seq(inOrder \cup next)
      /\ Lists(q.next, next)
  BY <1>1, ListOfMore DEF Stands
<1>4. PICK row : row = RowAt(q, drawn)
  OBVIOUS
<1>5. \/ /\ row.waits = "next" /\ row.at \in 0..(Len(q.next) - 1)
         /\ Drawn(q)[drawn + 1] = q.next[row.at + 1]
      \/ /\ row.waits = "in_order" /\ row.at \in 0..(Len(q.order) - 1)
         /\ Drawn(q)[drawn + 1] = q.order[row.at + 1]
  BY <1>2, <1>3, <1>4, RowAtIs
<1>6. PICK passed : passed = IF q.seat = "next" THEN LetGoOfWhatWasHeard(q) ELSE q
  OBVIOUS
<1>7. PICK wanted : wanted = row.at - (IF q.seat = "next" THEN 1 ELSE 0)
  OBVIOUS
<1>8. /\ Sound(passed) /\ passed.order = q.order /\ passed.after = q.after
      /\ passed.places = q.places /\ Seen(q, passed)
      /\ passed.next = IF q.seat = "next" THEN Past(q.next, 1) ELSE q.next
  <2>1. CASE q.seat = "next"
    BY <1>6, <2>1, LetGoKeeps DEF Seated
  <2>2. CASE q.seat # "next"
    BY <1>0, <1>6, <2>2
  <2> QED BY <2>1, <2>2
<1>9. PICK order2, next2 : Stands(passed, order2, next2)
  BY <1>8 DEF Sound
<1>10. Len(q.order) \in Nat /\ Len(q.next) \in Nat
  BY <1>1, ListsOfASoundQueue
<1>11. CASE row.waits = "next" /\ row.at = 0 /\ q.seat = "next"
  <2>1. p = q
    BY <1>4, <1>11 DEF JumpTo
  <2>2. HeardPlace(q) = Drawn(q)[drawn + 1].place
    <3>1. q.next # <<>>
      BY <1>11 DEF Seated
    <3>2. Drawn(q)[drawn + 1] = q.next[1]
      BY <1>5, <1>11
    <3> QED BY <1>11, <3>1, <3>2 DEF HeardPlace
  <2> QED BY <1>0, <2>1, <2>2
<1>12. CASE row.waits = "next" /\ ~(row.at = 0 /\ q.seat = "next")
  <2>1. /\ wanted \in 0..(Len(passed.next) - 1)
        /\ passed.next[wanted + 1] = q.next[row.at + 1]
    <3>0. row.at \in 0..(Len(q.next) - 1)
      BY <1>5, <1>12
    <3>1. CASE q.seat = "next"
      <4>1. q.next # <<>>
        BY <3>1 DEF Seated
      <4>2. /\ Len(Past(q.next, 1)) = Len(q.next) - 1
            /\ \A i \in 1..(Len(q.next) - 1) : Past(q.next, 1)[i] = q.next[i + 1]
        BY <1>3, <4>1, HeadAndRest
      <4>3. wanted = row.at - 1 /\ row.at # 0
        BY <1>7, <1>12, <3>1
      <4>4. /\ wanted \in 0..((Len(q.next) - 1) - 1) /\ wanted + 1 = row.at
            /\ row.at \in 1..(Len(q.next) - 1)
        BY <1>10, <3>0, <4>3
      <4>5. passed.next = Past(q.next, 1)
        BY <1>8, <3>1
      <4> QED BY <4>2, <4>4, <4>5
    <3>2. CASE q.seat # "next"
      <4>1. wanted = row.at
        BY <1>7, <3>0, <3>2
      <4> QED BY <1>8, <3>0, <3>2, <4>1
    <3> QED BY <3>1, <3>2
  <2>2. /\ Lists(Fronted(passed.next, wanted), next2)
        /\ Fronted(passed.next, wanted)[1] = q.next[row.at + 1]
        /\ Fronted(passed.next, wanted) # <<>>
    BY <1>9, <2>1, FrontedLists DEF Stands
  <2>3. p = Revised([passed EXCEPT !.next = Fronted(@, wanted), !.seat = "next"])
    <3>0. wanted >= 0
      BY <2>1
    <3>1. JumpTo(q, drawn) =
            CASE row.waits = "next" /\ row.at = 0 /\ q.seat = "next" -> q
              [] row.waits = "next" /\ wanted >= 0 ->
                   Revised([passed EXCEPT !.next = Fronted(@, wanted), !.seat = "next"])
              [] OTHER -> [SeatAfter(passed, row.at + 1) EXCEPT !.seat = "in_order"]
      BY <1>4, <1>6, <1>7 DEF JumpTo
    <3> QED BY <1>12, <3>0, <3>1
  <2>4. /\ Shape(p) /\ p.order = passed.order /\ p.next = Fronted(passed.next, wanted)
        /\ p.unshuffled = passed.unshuffled /\ p.places = passed.places
        /\ p.after = passed.after /\ p.seat = "next" /\ p.repeat = passed.repeat
        /\ p.shuffle = passed.shuffle /\ p.stamp = passed.stamp
        /\ p.playingFrom = passed.playingFrom /\ p.revised
    BY <1>8, <2>3 DEF Sound, Revised, Shape, Fields
  <2>5. Stands(p, order2, next2)
    BY <1>9, <2>2, <2>4 DEF Stands
  <2>6. Kinds(p)
    BY <1>8, <2>4 DEF Sound, Kinds, Seats
  <2>7. Seated(p)
    BY <1>2, <1>8, <2>2, <2>4 DEF Seated
  <2>8. HeardPlace(p) = Drawn(q)[drawn + 1].place
    BY <1>5, <1>12, <2>2, <2>4 DEF HeardPlace
  <2> QED BY <1>8, <2>4, <2>5, <2>6, <2>7, <2>8 DEF Sound, Seen
<1>13. CASE row.waits = "in_order"
  <2>0. row.at \in 0..(Len(q.order) - 1) /\ Drawn(q)[drawn + 1] = q.order[row.at + 1]
    BY <1>5, <1>13
  <2>1. PICK after \in Nat : after = row.at + 1
    BY <2>0
  <2>2. PICK moved : moved = SeatAfter(passed, after)
    OBVIOUS
  <2>3. p = [moved EXCEPT !.seat = "in_order"]
    <3>1. JumpTo(q, drawn) = [SeatAfter(passed, row.at + 1) EXCEPT !.seat = "in_order"]
      BY <1>4, <1>6, <1>13 DEF JumpTo
    <3> QED BY <2>1, <2>2, <3>1
  <2>4. /\ Sound(moved) /\ moved.order = q.order /\ moved.next = passed.next
        /\ moved.after = after /\ moved.places = q.places /\ Seen(passed, moved)
    BY <1>8, <2>2, SeatAfterKeeps
  <2>5. p = Reseated(moved, after, "in_order") /\ "in_order" \in Seats
    BY <2>3, <2>4, SeatAlone DEF Sound, Seats
  <2>6. /\ Sound(p) /\ p.order = moved.order /\ p.next = moved.next /\ p.after = after
        /\ p.seat = "in_order" /\ p.places = moved.places
        /\ Seen(moved, p)
    BY <2>4, <2>5, Reseats
  <2>7. after > 0 /\ after <= Len(q.order) /\ after \in 1..Len(q.order)
    BY <1>10, <2>0, <2>1
  <2>8. Seated(p)
    BY <2>4, <2>6, <2>7 DEF Seated
  <2>9. HeardPlace(p) = Drawn(q)[drawn + 1].place
    BY <2>0, <2>1, <2>4, <2>6, <2>7 DEF HeardPlace, LastHeard
  <2>10. Seen(q, p)
    BY <1>8, <2>4, <2>6, SeenInTurn
  <2> QED BY <2>4, <2>6, <2>8, <2>9, <2>10
<1> QED BY <1>5, <1>11, <1>12, <1>13

-----------------------------------------------------------------------------
(* Removing rows.                                                          *)

Of(set, places)    == {r \in set : r.place \in places}
NotOf(set, places) == {r \in set : r.place \notin places}

LEMMA OnlyOf ==
  ASSUME NEW set, NEW list, Lists(list, set), NEW places
  PROVE  /\ Lists(Only(list, places), Of(set, places))
         /\ Lists(Without(list, places), NotOf(set, places))
         /\ Len(Only(list, places)) + Len(Without(list, places)) = Len(list)
         /\ Len(Only(list, places)) \in Nat /\ Len(Without(list, places)) \in Nat
<1>1. /\ Lists(Only(list, places), {r \in set : r.place \in places})
      /\ Lists(Without(list, places), {r \in set : r.place \notin places})
      /\ Len(Only(list, places)) + Len(Without(list, places)) = Len(list)
  BY OnlyLists
<1>2. /\ Lists(Only(list, places), Of(set, places))
      /\ Lists(Without(list, places), NotOf(set, places))
  BY <1>1 DEF Of, NotOf
<1>3. Len(Only(list, places)) \in Nat /\ Len(Without(list, places)) \in Nat
  BY <1>2, ListIsAList
<1> QED BY <1>1, <1>2, <1>3

\* What is left of a queue once the rows of some places are gone, before it hands on.
Left(q, dropped) ==
  Revised([q EXCEPT
    !.order = Without(@, dropped),
    !.next = Without(@, dropped),
    !.unshuffled = Without(@, dropped),
    !.stamp = Less(@, Only(q.order, dropped) \o Only(q.next, dropped)),
    !.playingFrom = Less(@, Only(q.order, dropped)),
    !.after = SeatedPast(q, dropped)])

\* No more is left of the rows before the seat than of all the rows in order.
LEMMA SeatedPastIs ==
  ASSUME NEW set, NEW list, Lists(list, set), NEW n \in Nat, n <= Len(list), NEW dropped
  PROVE  /\ n - Len(Only(First(list, n), dropped)) = Len(Without(First(list, n), dropped))
         /\ Len(Without(First(list, n), dropped)) \in Nat
         /\ Len(Without(list, dropped)) \in Nat
         /\ Len(Without(First(list, n), dropped)) <= Len(Without(list, dropped))
         /\ n = Len(list) =>
              Len(Without(First(list, n), dropped)) = Len(Without(list, dropped))
         /\ \A i \in 1..n : list[i].place \notin dropped =>
              Len(Without(First(list, n), dropped)) > 0
<1> DEFINE first == First(list, n)
           begun == ToSet(first)
           kept == NotOf(begun, dropped)
           left == NotOf(set, dropped)
<1>0. Len(list) \in Nat /\ list \in Seq(set)
  BY DEF Lists
<1>1. Lists(first, begun) /\ begun \in SUBSET set
  BY CutLists
<1>2. /\ Len(first) = n /\ \A i \in 1..n : first[i] = list[i]
  BY <1>0, CutInTwo
<1> HIDE DEF first, begun
<1>3. /\ Lists(Without(first, dropped), kept)
      /\ Len(Only(first, dropped)) + Len(Without(first, dropped)) = Len(first)
      /\ Len(Only(first, dropped)) \in Nat /\ Len(Without(first, dropped)) \in Nat
  BY <1>1, OnlyOf
<1>4. Lists(Without(list, dropped), left) /\ Len(Without(list, dropped)) \in Nat
  BY OnlyOf
<1>5. /\ IsFiniteSet(left) /\ Cardinality(left) = Len(Without(list, dropped))
      /\ IsFiniteSet(kept) /\ Cardinality(kept) = Len(Without(first, dropped))
  BY <1>3, <1>4, ListCounts
<1>6. n - Len(Only(first, dropped)) = Len(Without(first, dropped))
  BY <1>2, <1>3
<1>7. Cardinality(kept) <= Cardinality(left)
  <2>1. kept \in SUBSET left
    BY <1>1 DEF NotOf
  <2> QED BY <1>5, <2>1, FS_Subset
<1>8. ASSUME n = Len(list) PROVE Len(Without(first, dropped)) = Len(Without(list, dropped))
  <2>1. first = list
    BY <1>0, <1>8, CutBeyond DEF first
  <2> QED BY <2>1
<1>9. ASSUME NEW i \in 1..n, list[i].place \notin dropped
      PROVE  Len(Without(first, dropped)) > 0
  <2>1. first[i] \in begun
    <3>1. i \in 1..Len(first)
      BY <1>2
    <3> QED BY <1>1, <3>1, ElementOfSeq DEF Lists
  <2>2. first[i] \in kept
    BY <1>2, <1>9, <2>1 DEF NotOf
  <2>3. Cardinality(kept) # 0
    BY <1>5, <2>2, FS_EmptySet
  <2> QED BY <1>3, <1>5, <2>3
<1> QED BY <1>3, <1>4, <1>5, <1>6, <1>7, <1>8, <1>9 DEF first

LEMMA LeftStands ==
  ASSUME NEW q, Sound(q), q.after <= Len(q.order), NEW dropped, NEW p, p = Left(q, dropped)
  PROVE  /\ Sound(p) /\ p.revised /\ p.places = q.places /\ p.seat = q.seat
         /\ p.repeat = q.repeat /\ p.shuffle = q.shuffle
         /\ p.order = Without(q.order, dropped) /\ p.next = Without(q.next, dropped)
         /\ p.after = Len(Without(First(q.order, q.after), dropped))
         /\ p.after <= Len(p.order)
         /\ q.after = Len(q.order) => p.after = Len(p.order)
         /\ \A i \in 1..q.after : q.order[i].place \notin dropped => p.after > 0
<1>1. PICK inOrder, next : Stands(q, inOrder, next)
  BY DEF Sound
<1>2. Shape(q) /\ Kinds(q) /\ q.after \in Nat
  BY DEF Sound, Kinds
<1> DEFINE kept == NotOf(inOrder, dropped)
           waits == NotOf(next, dropped)
           gone == Of(inOrder, dropped)
           goneNext == Of(next, dropped)
<1>3. /\ Shape(p) /\ p.order = Without(q.order, dropped) /\ p.next = Without(q.next, dropped)
      /\ p.unshuffled = Without(q.unshuffled, dropped) /\ p.places = q.places
      /\ p.after = SeatedPast(q, dropped) /\ p.seat = q.seat /\ p.repeat = q.repeat
      /\ p.shuffle = q.shuffle
      /\ p.stamp = Less(q.stamp, Only(q.order, dropped) \o Only(q.next, dropped))
      /\ p.playingFrom = Less(q.playingFrom, Only(q.order, dropped))
      /\ p.revised
  BY <1>2 DEF Left, Revised, Shape, Fields
<1>4. /\ Lists(q.order, inOrder) /\ Lists(q.next, next)
      /\ inOrder \cap next = {} /\ Apart(inOrder \cup next)
  BY <1>1 DEF Stands
<1>5. /\ Lists(p.order, kept) /\ Lists(p.next, waits)
      /\ Lists(Only(q.order, dropped), gone) /\ Lists(Only(q.next, dropped), goneNext)
  BY <1>3, <1>4, OnlyOf
<1>6. IF p.shuffle THEN Lists(p.unshuffled, kept) ELSE p.unshuffled = <<>>
  <2>1. CASE q.shuffle
    <3>1. Lists(q.unshuffled, inOrder)
      BY <1>1, <2>1 DEF Stands
    <3> QED BY <1>3, <2>1, <3>1, OnlyOf
  <2>2. CASE ~q.shuffle
    <3>1. q.unshuffled = <<>>
      BY <1>1, <2>2 DEF Stands
    <3>2. Lists(<<>>, {})
      BY EmptyLists
    <3>3. Lists(Without(<<>>, dropped), NotOf({}, dropped))
      BY <3>2, OnlyOf
    <3>4. NotOf({}, dropped) = {}
      BY DEF NotOf
    <3> QED BY <1>3, <2>2, <3>1, <3>3, <3>4, EmptyLists
  <2> QED BY <2>1, <2>2
<1>7. p.playingFrom = Marked(kept)
  <2>1. q.playingFrom = Marked(inOrder) /\ Apart(inOrder) /\ gone \in SUBSET inOrder
    BY <1>1, <1>4 DEF Stands, Apart, Of
  <2>2. p.playingFrom = Marked(inOrder \ gone)
    BY <1>3, <1>5, <2>1, LeftStamp
  <2>3. inOrder \ gone = kept
    BY DEF Of, NotOf
  <2> QED BY <2>2, <2>3
<1>8. p.stamp = Marked(kept \cup waits)
  <2>1. gone \cap goneNext = {}
    BY <1>4 DEF Of
  <2>2. Lists(Only(q.order, dropped) \o Only(q.next, dropped), gone \cup goneNext)
    BY <1>5, <2>1, JoinedLists
  <2>3. q.stamp = Marked(inOrder \cup next)
    BY <1>1 DEF Stands
  <2>4. gone \cup goneNext \in SUBSET (inOrder \cup next)
    BY DEF Of
  <2>5. p.stamp = Marked((inOrder \cup next) \ (gone \cup goneNext))
    BY <1>3, <1>4, <2>2, <2>3, <2>4, LeftStamp
  <2>6. (inOrder \cup next) \ (gone \cup goneNext) = kept \cup waits
    BY <1>4 DEF Of, NotOf
  <2> QED BY <2>5, <2>6
<1>9. Stands(p, kept, waits)
  <2>1. kept \cap waits = {} /\ Apart(kept \cup waits)
    BY <1>4 DEF Apart, NotOf
  <2>2. kept \cup waits \in SUBSET GivenOut(p.places)
    <3>1. inOrder \cup next \in SUBSET GivenOut(q.places)
      BY <1>1 DEF Stands
    <3>2. kept \cup waits \in SUBSET (inOrder \cup next)
      BY DEF NotOf
    <3> QED BY <1>3, <3>1, <3>2
  <2> HIDE DEF kept, waits
  <2> QED BY <1>5, <1>6, <1>7, <1>8, <2>1, <2>2 DEF Stands
<1>10. /\ p.after = Len(Without(First(q.order, q.after), dropped)) /\ p.after \in Nat
       /\ p.after <= Len(p.order)
       /\ q.after = Len(q.order) => p.after = Len(p.order)
       /\ \A i \in 1..q.after : q.order[i].place \notin dropped => p.after > 0
  BY <1>2, <1>3, <1>4, SeatedPastIs DEF SeatedPast
<1>11. Kinds(p)
  BY <1>2, <1>3, <1>10 DEF Kinds
<1> QED BY <1>3, <1>9, <1>10, <1>11 DEF Sound

LEMMA RemoveAllKeeps ==
  ASSUME NEW q, Sound(q), Seated(q), NEW positions, NEW p \in RemoveAll(q, positions)
  PROVE  Sound(p) /\ Seated(p) /\ Seen(q, p) /\ p.places = q.places
<1> DEFINE dropped == {Drawn(q)[at + 1].place : at \in positions}
<1>1. PICK left : left = Left(q, dropped)
  OBVIOUS
<1>2. p \in IF HeardPlace(q) \in dropped THEN HandOn(left) ELSE {left}
  BY <1>1 DEF RemoveAll, Left
<1>3. PICK inOrder, next : Stands(q, inOrder, next)
  BY DEF Sound
<1>4. Shape(q) /\ Kinds(q) /\ q.after \in Nat /\ q.after <= Len(q.order)
  BY DEF Sound, Kinds, Seated
<1> HIDE DEF dropped
<1>5. /\ Sound(left) /\ left.revised /\ left.places = q.places /\ left.seat = q.seat
      /\ left.next = Without(q.next, dropped)
      /\ left.after <= Len(left.order)
      /\ q.after = Len(q.order) => left.after = Len(left.order)
      /\ \A i \in 1..q.after : q.order[i].place \notin dropped => left.after > 0
  BY <1>1, <1>4, LeftStands
<1>6. Seen(q, left)
  BY <1>5 DEF Seen
<1>7. CASE HeardPlace(q) \in dropped
  <2>1. p \in HandOn(left)
    BY <1>2, <1>7
  <2>2. Sound(p) /\ Seated(p) /\ Seen(left, p) /\ p.places = left.places
    BY <1>5, <2>1, HandOnKeeps
  <2> QED BY <1>5, <1>6, <2>2, SeenInTurn
<1>8. CASE HeardPlace(q) \notin dropped
  <2>1. p = left
    BY <1>2, <1>8
  <2>2. ASSUME q.seat = "in_order" PROVE left.after > 0
    <3>1. q.after > 0
      BY <2>2 DEF Seated
    <3>2. q.after \in 1..Len(q.order) /\ q.after \in 1..q.after
      BY <1>3, <1>4, <3>1, ListsOfASoundQueue
    <3>3. HeardPlace(q) = q.order[q.after].place
      BY <2>2, <3>2 DEF HeardPlace, LastHeard
    <3> QED BY <1>5, <1>8, <3>2, <3>3
  <2>3. Lists(q.next, next)
    BY <1>3 DEF Stands
  <2>4. Lists(left.next, NotOf(next, dropped))
    BY <1>5, <2>3, OnlyOf
  <2>5. ASSUME q.seat = "next" PROVE left.next # <<>>
    <3>1. q.next # <<>>
      BY <2>5 DEF Seated
    <3>2. HeardPlace(q) = q.next[1].place
      BY <2>5, <3>1 DEF HeardPlace
    <3>3. q.next[1] \in next
      BY <2>3, <3>1, HeadAndRest
    <3>4. q.next[1] \in NotOf(next, dropped)
      BY <1>8, <3>2, <3>3 DEF NotOf
    <3>5. PICK i \in 1..Len(left.next) : left.next[i] = q.next[1]
      BY <2>4, <3>4 DEF Lists
    <3> QED BY <3>5
  <2>6. ASSUME q.seat = "nowhere" PROVE left.next = <<>> /\ left.after = Len(left.order)
    <3>1. q.next = <<>> /\ q.after = Len(q.order)
      BY <2>6 DEF Seated
    <3>2. next = {}
      BY <2>3, <3>1 DEF Lists
    <3>3. NotOf(next, dropped) = {}
      BY <3>2 DEF NotOf
    <3> QED BY <1>5, <2>4, <3>1, <3>3, EmptyLists
  <2>7. Seated(left)
    BY <1>5, <2>2, <2>5, <2>6 DEF Seated
  <2> QED BY <1>5, <1>6, <2>1, <2>7
<1> QED BY <1>7, <1>8

-----------------------------------------------------------------------------
(* Inserting rows.                                                         *)

LEMMA SpliceIs ==
  ASSUME NEW rows, NEW into \in Seq(rows), NEW run \in Seq(rows), NEW at \in Nat, at <= Len(into)
  PROVE  /\ Spliced(into, at, run) \in Seq(rows)
         /\ PutInto(Spliced(into, at, run), into, run, at)
         /\ Len(Spliced(into, at, run)) \in Nat
<1>1. PICK all : all = Spliced(into, at, run)
  OBVIOUS
<1>2. all = First(into, at) \o run \o Past(into, at)
  BY <1>1 DEF Spliced
<1>3. all \in Seq(rows) /\ PutInto(all, into, run, at)
  BY <1>2, SplicedIs
<1> QED BY <1>1, <1>3

PlacedFrom(rows, places) == \A r \in rows : ~(r.place < places)

\* Rows given places one after another.
ArePlaced(landed, places, items) ==
  landed = [i \in DOMAIN items |-> At(places + i - 1, items[i])]

LEMMA GivenPlaces ==
  ASSUME NEW places \in Nat, NEW items \in Seq(Items),
         NEW landed, ArePlaced(landed, places, items)
  PROVE  /\ Lists(landed, ToSet(landed)) /\ Len(landed) = Len(items)
         /\ ToSet(landed) \in SUBSET GivenOut(places + Len(items))
         /\ Apart(ToSet(landed)) /\ PlacedFrom(ToSet(landed), places)
         /\ \A i \in 1..Len(items) : landed[i].place = places + i - 1
<1>0. PICK n \in Nat : n = Len(items)
  OBVIOUS
<1>1. DOMAIN items = 1..n /\ \A i \in 1..n : items[i] \in Items
  BY <1>0, ElementOfSeq
<1>2. landed = [i \in 1..n |-> At(places + i - 1, items[i])]
  BY <1>0, <1>1 DEF ArePlaced
<1>3. ASSUME NEW i \in 1..n
      PROVE  /\ landed[i] \in GivenOut(places + n)
             /\ landed[i].place = places + i - 1 /\ places + i - 1 \in 0..(places + n - 1)
  <2>1. PICK place \in Int : place = places + i - 1
    OBVIOUS
  <2>2. landed[i] = [place |-> place, item |-> items[i], stamped |-> items[i]]
    BY <1>2, <2>1 DEF At
  <2>3. place \in 0..(places + n - 1)
    BY <2>1
  <2> QED BY <1>1, <2>1, <2>2, <2>3 DEF GivenOut
<1>4. landed \in Seq(GivenOut(places + n)) /\ Len(landed) = n
  <2>1. landed \in [1..n -> GivenOut(places + n)]
    BY <1>2, <1>3
  <2> QED BY <2>1
<1>5. ASSUME NEW i \in 1..n, NEW j \in 1..n, landed[i].place = landed[j].place PROVE i = j
  <2>1. places + i - 1 = places + j - 1
    BY <1>3, <1>5
  <2> QED BY <2>1
<1>6. Lists(landed, ToSet(landed)) /\ ToSet(landed) \in SUBSET GivenOut(places + n)
  <2>1. \A i, j \in 1..Len(landed) : landed[i] = landed[j] => i = j
    BY <1>4, <1>5
  <2> QED BY <1>4, <2>1, NoneTwice
<1>7. \A r \in ToSet(landed) : \E i \in 1..n : r = landed[i]
  BY <1>4, <1>6 DEF Lists
<1>8. Apart(ToSet(landed))
  <2>1. ASSUME NEW a \in ToSet(landed), NEW b \in ToSet(landed), a.place = b.place PROVE a = b
    <3>1. PICK i \in 1..n, j \in 1..n : a = landed[i] /\ b = landed[j]
      BY <1>7
    <3>2. i = j
      BY <1>5, <2>1, <3>1
    <3> QED BY <3>1, <3>2
  <2> QED BY <2>1 DEF Apart
<1>9. ASSUME NEW r \in ToSet(landed) PROVE ~(r.place < places)
  <2>1. PICK i \in 1..n : r = landed[i]
    BY <1>7
  <2>2. ~(places + i - 1 < places)
    OBVIOUS
  <2> QED BY <1>3, <2>1, <2>2
<1> QED BY <1>0, <1>3, <1>4, <1>6, <1>8, <1>9 DEF PlacedFrom

\* The rows that arrive have places nobody had.
LEMMA ArrivedLists ==
  ASSUME NEW q, q.places \in Nat, NEW items \in Seq(Items), NEW landed, landed = Arrived(q, items)
  PROVE  /\ Lists(landed, ToSet(landed)) /\ Len(landed) = Len(items)
         /\ ToSet(landed) \in SUBSET GivenOut(q.places + Len(items))
         /\ Apart(ToSet(landed))
         /\ PlacedFrom(ToSet(landed), q.places)
         /\ Len(items) > 0 => landed[1].place = q.places
<1>1. PICK places \in Nat : places = q.places
  OBVIOUS
<1>2. ArePlaced(landed, places, items)
  BY <1>1 DEF Arrived, ArePlaced
<1>3. /\ Lists(landed, ToSet(landed)) /\ Len(landed) = Len(items)
      /\ ToSet(landed) \in SUBSET GivenOut(places + Len(items))
      /\ Apart(ToSet(landed)) /\ PlacedFrom(ToSet(landed), places)
      /\ \A i \in 1..Len(items) : landed[i].place = places + i - 1
  BY <1>2, GivenPlaces
<1>4. ASSUME Len(items) > 0 PROVE landed[1].place = places
  <2>1. 1 \in 1..Len(items) /\ places + 1 - 1 = places
    BY <1>4
  <2> QED BY <1>3, <2>1
<1> QED BY <1>1, <1>3, <1>4

\* Where rows land: never before the row heard of those played next.
LEMMA LandingIs ==
  ASSUME NEW q, q.after \in Nat, Len(q.order) \in Nat, Len(q.next) \in Nat, q.seat \in Seats,
         Seated(q), q.next = <<>> <=> Len(q.next) = 0,
         NEW placement \in {"next", "queued", "at"}, NEW row \in Nat,
         NEW lands, lands = LandingOf(q, placement, row)
  PROVE  \/ /\ lands.waits = "next" /\ q.seat # "nowhere" /\ lands.at \in 0..Len(q.next)
            /\ q.seat = "next" => lands.at > 0
         \/ lands.waits = "in_order" /\ lands.at \in 0..Len(q.order)
<1>0. PICK l \in Nat, n \in Nat, after \in Nat :
        l = Len(q.order) /\ n = Len(q.next) /\ after = q.after
  OBVIOUS
<1>1. /\ after <= l /\ (q.seat = "in_order" => after > 0) /\ (q.seat = "next" => n > 0)
  BY <1>0 DEF Seated
<1>2. \A a \in Int : Least(a, l) \in Int /\ Least(a, l) <= l /\ (a >= 0 => Least(a, l) >= 0)
  BY DEF Least
<1>3. CASE q.seat = "nowhere"
  <2>1. lands = InOrder(IF placement = "at" THEN Least(row, l) ELSE l)
    BY <1>0, <1>3 DEF LandingOf
  <2>2. (IF placement = "at" THEN Least(row, l) ELSE l) \in 0..l
    BY <1>2
  <2> QED BY <1>0, <2>1, <2>2 DEF InOrder
<1>4. CASE q.seat # "nowhere" /\ placement = "next"
  <2>1. lands = NextTo(IF q.seat = "next" THEN 1 ELSE 0)
    BY <1>4 DEF LandingOf
  <2>2. /\ (IF q.seat = "next" THEN 1 ELSE 0) \in 0..n
        /\ q.seat = "next" => (IF q.seat = "next" THEN 1 ELSE 0) > 0
    BY <1>1
  <2> QED BY <1>0, <1>4, <2>1, <2>2 DEF NextTo
<1>5. CASE q.seat # "nowhere" /\ placement = "queued"
  <2>1. lands = NextTo(n)
    BY <1>0, <1>5 DEF LandingOf
  <2> QED BY <1>0, <1>1, <1>5, <2>1 DEF NextTo
<1>6. CASE q.seat # "nowhere" /\ placement = "at"
  <2>1. PICK cursor \in Int : cursor = Cursor(q) /\ cursor = IF q.seat = "next" THEN after ELSE after - 1
    <3>1. Cursor(q) = IF q.seat = "next" THEN after ELSE after - 1
      BY <1>0, <1>6 DEF Cursor, Seats
    <3> QED BY <3>1
  <2>2. CASE row <= cursor
    <3>1. lands = InOrder(row)
      <4>1. ~(row > cursor)
        BY <2>2
      <4> QED BY <1>6, <2>1, <2>2, <4>1 DEF LandingOf
    <3>2. row \in 0..l
      BY <1>1, <2>1, <2>2
    <3> QED BY <1>0, <3>1, <3>2 DEF InOrder
  <2>3. CASE row > cursor /\ row <= after + n
    <3>1. PICK at \in Int : at = row - after
      OBVIOUS
    <3>2. lands = NextTo(at)
      <4>1. ~(row <= cursor)
        BY <2>3
      <4> QED BY <1>0, <1>6, <2>1, <2>3, <3>1, <4>1 DEF LandingOf
    <3>3. at \in 0..n /\ (q.seat = "next" => at > 0)
      BY <2>1, <2>3, <3>1
    <3> QED BY <1>0, <1>6, <3>2, <3>3 DEF NextTo
  <2>4. CASE row > cursor /\ row > after + n
    <3>1. PICK at \in Int : at = row - n
      OBVIOUS
    <3>2. lands = InOrder(Least(at, l))
      <4>1. ~(row <= cursor) /\ ~(row <= after + n)
        BY <2>4
      <4> QED BY <1>0, <1>6, <2>1, <3>1, <4>1 DEF LandingOf
    <3>3. at >= 0
      BY <2>4, <3>1
    <3>4. Least(at, l) \in 0..l
      <4>1. Least(at, l) \in Int /\ Least(at, l) <= l /\ Least(at, l) >= 0
        BY <1>2, <3>3
      <4> QED BY <4>1
    <3> QED BY <1>0, <3>2, <3>4 DEF InOrder
  <2> QED BY <2>1, <2>2, <2>3, <2>4
<1> QED BY <1>3, <1>4, <1>5, <1>6

\* The order to return to once rows have landed among those in order.
StandingWith(q, at, landed) ==
  CASE ~q.shuffle -> q.unshuffled
    [] q.shuffle /\ at = 0 -> landed \o q.unshuffled
    [] q.shuffle /\ at >= Len(q.order) /\ at > 0 -> q.unshuffled \o landed
    [] OTHER -> StandsAfter(q.unshuffled, q.order[at].place, landed)

\* The rows landed come before the one the seat names.
PassedBy(q, at, before) ==
  \/ q.seat = "in_order" /\ at < q.after
  \/ q.seat = "next" /\ (at < q.after \/ (at = q.after /\ before))

LEMMA LandInOrderIs ==
  ASSUME NEW q, Shape(q), NEW at, NEW landed, NEW before,
         NEW p, p = LandInOrder(q, at, landed, before)
  PROVE  /\ Shape(p) /\ p.order = Spliced(q.order, at, landed) /\ p.next = q.next
         /\ p.unshuffled = StandingWith(q, at, landed) /\ p.places = q.places
         /\ p.repeat = q.repeat /\ p.shuffle = q.shuffle /\ p.stamp = q.stamp
         /\ p.playingFrom = q.playingFrom /\ p.revised = q.revised
         /\ p.seat = (IF q.seat = "nowhere" THEN "in_order" ELSE q.seat)
         /\ p.after = (IF q.seat = "nowhere" THEN at + 1
                       ELSE IF PassedBy(q, at, before) THEN q.after + Len(landed) ELSE q.after)
<1> DEFINE joined == [q EXCEPT !.unshuffled = StandingWith(q, at, landed),
                               !.order = Spliced(@, at, landed)]
<1>1. p = CASE q.seat = "nowhere" -> [joined EXCEPT !.after = at + 1, !.seat = "in_order"]
            [] q.seat # "nowhere" /\ PassedBy(q, at, before) ->
                 [joined EXCEPT !.after = @ + Len(landed)]
            [] OTHER -> joined
  BY DEF LandInOrder, StandingWith, PassedBy
<1>2. /\ Shape(joined) /\ joined.order = Spliced(q.order, at, landed) /\ joined.next = q.next
      /\ joined.unshuffled = StandingWith(q, at, landed) /\ joined.places = q.places
      /\ joined.after = q.after /\ joined.seat = q.seat
      /\ joined.repeat = q.repeat /\ joined.shuffle = q.shuffle /\ joined.stamp = q.stamp
      /\ joined.playingFrom = q.playingFrom /\ joined.revised = q.revised
  BY DEF Shape, Fields
<1> HIDE DEF joined
<1>3. CASE q.seat = "nowhere"
  <2>1. p = [joined EXCEPT !.after = at + 1, !.seat = "in_order"]
    BY <1>1, <1>3
  <2>2. /\ Shape(p) /\ p.order = joined.order /\ p.next = joined.next
        /\ p.unshuffled = joined.unshuffled /\ p.places = joined.places
        /\ p.repeat = joined.repeat /\ p.shuffle = joined.shuffle /\ p.stamp = joined.stamp
        /\ p.playingFrom = joined.playingFrom /\ p.revised = joined.revised
        /\ p.seat = "in_order" /\ p.after = at + 1
    BY <1>2, <2>1 DEF Shape, Fields
  <2> QED BY <1>2, <1>3, <2>2
<1>4. CASE q.seat # "nowhere" /\ PassedBy(q, at, before)
  <2>1. p = [joined EXCEPT !.after = @ + Len(landed)]
    BY <1>1, <1>4
  <2>2. /\ Shape(p) /\ p.order = joined.order /\ p.next = joined.next
        /\ p.unshuffled = joined.unshuffled /\ p.places = joined.places
        /\ p.repeat = joined.repeat /\ p.shuffle = joined.shuffle /\ p.stamp = joined.stamp
        /\ p.playingFrom = joined.playingFrom /\ p.revised = joined.revised
        /\ p.seat = joined.seat /\ p.after = joined.after + Len(landed)
    BY <1>2, <2>1 DEF Shape, Fields
  <2> QED BY <1>2, <1>4, <2>2
<1>5. CASE q.seat # "nowhere" /\ ~PassedBy(q, at, before)
  <2>1. p = joined
    BY <1>1, <1>5
  <2> QED BY <1>2, <1>5, <2>1
<1> QED BY <1>3, <1>4, <1>5

LEMMA InsertedIs ==
  ASSUME NEW q, Shape(q), NEW items, NEW placement, NEW row,
         NEW landed, landed = Arrived(q, items),
         NEW lands, lands = LandingOf(q, placement, row),
         NEW before, before = (q.seat = "next" /\ placement = "at" /\ row <= Cursor(q)),
         NEW p, p = Inserted(q, items, placement, row).queue
  PROVE  /\ Inserted(q, items, placement, row).row = DrawnAt(p, lands)
         /\ Shape(p) /\ p.places = q.places + Len(items) /\ p.revised
         /\ p.repeat = q.repeat /\ p.shuffle = q.shuffle /\ p.stamp = With(q.stamp, landed)
         /\ lands.waits = "next" =>
              /\ p.order = q.order /\ p.next = Spliced(q.next, lands.at, landed)
              /\ p.unshuffled = q.unshuffled /\ p.after = q.after /\ p.seat = q.seat
              /\ p.playingFrom = q.playingFrom
         /\ lands.waits = "in_order" =>
              /\ p.order = Spliced(q.order, lands.at, landed) /\ p.next = q.next
              /\ p.unshuffled = StandingWith(q, lands.at, landed)
              /\ p.playingFrom = With(q.playingFrom, landed)
              /\ p.seat = (IF q.seat = "nowhere" THEN "in_order" ELSE q.seat)
              /\ p.after = (IF q.seat = "nowhere" THEN lands.at + 1
                            ELSE IF PassedBy(q, lands.at, before)
                                 THEN q.after + Len(landed) ELSE q.after)
<1> DEFINE joined == [q EXCEPT !.places = @ + Len(items), !.stamp = With(@, landed),
                          !.playingFrom = IF lands.waits = "in_order" THEN With(@, landed)
                                          ELSE @]
           left == IF lands.waits = "next"
                   THEN [joined EXCEPT !.next = Spliced(@, lands.at, landed)]
                   ELSE LandInOrder(joined, lands.at, landed, before)
<1>1. Inserted(q, items, placement, row) =
        [queue |-> Revised(left), row |-> DrawnAt(left, lands)]
  BY DEF Inserted
<1>2. /\ Shape(joined) /\ joined.order = q.order /\ joined.next = q.next
      /\ joined.unshuffled = q.unshuffled /\ joined.places = q.places + Len(items)
      /\ joined.after = q.after /\ joined.seat = q.seat
      /\ joined.repeat = q.repeat /\ joined.shuffle = q.shuffle
      /\ joined.stamp = With(q.stamp, landed)
      /\ joined.playingFrom =
           (IF lands.waits = "in_order" THEN With(q.playingFrom, landed) ELSE q.playingFrom)
      /\ joined.revised = q.revised
  BY DEF Shape, Fields
<1> HIDE DEF joined
<1>3. PICK r : r = left
  OBVIOUS
<1>4. Inserted(q, items, placement, row).row = DrawnAt(r, lands) /\ p = Revised(r)
  BY <1>1, <1>3
<1>5. CASE lands.waits = "next"
  <2>1. r = [joined EXCEPT !.next = Spliced(@, lands.at, landed)]
    BY <1>3, <1>5
  <2>2. /\ Shape(r) /\ r.order = joined.order /\ r.next = Spliced(joined.next, lands.at, landed)
        /\ r.unshuffled = joined.unshuffled /\ r.places = joined.places
        /\ r.after = joined.after /\ r.seat = joined.seat /\ r.repeat = joined.repeat
        /\ r.shuffle = joined.shuffle /\ r.stamp = joined.stamp
        /\ r.playingFrom = joined.playingFrom
    BY <1>2, <2>1 DEF Shape, Fields
  <2>3. /\ Shape(p) /\ p.order = r.order /\ p.next = r.next /\ p.unshuffled = r.unshuffled
        /\ p.places = r.places /\ p.after = r.after /\ p.seat = r.seat
        /\ p.repeat = r.repeat /\ p.shuffle = r.shuffle /\ p.stamp = r.stamp
        /\ p.playingFrom = r.playingFrom /\ p.revised
    BY <1>4, <2>2 DEF Revised, Shape, Fields
  <2>4. DrawnAt(r, lands) = DrawnAt(p, lands)
    BY <2>3 DEF DrawnAt
  <2> QED BY <1>2, <1>4, <1>5, <2>2, <2>3, <2>4
<1>6. CASE lands.waits # "next"
  <2>1. r = LandInOrder(joined, lands.at, landed, before)
    BY <1>3, <1>6
  <2>2. /\ Shape(r) /\ r.order = Spliced(joined.order, lands.at, landed) /\ r.next = joined.next
        /\ r.unshuffled = StandingWith(joined, lands.at, landed) /\ r.places = joined.places
        /\ r.repeat = joined.repeat /\ r.shuffle = joined.shuffle /\ r.stamp = joined.stamp
        /\ r.playingFrom = joined.playingFrom
        /\ r.seat = (IF joined.seat = "nowhere" THEN "in_order" ELSE joined.seat)
        /\ r.after = (IF joined.seat = "nowhere" THEN lands.at + 1
                      ELSE IF PassedBy(joined, lands.at, before)
                           THEN joined.after + Len(landed) ELSE joined.after)
    BY <1>2, <2>1, LandInOrderIs
  <2>3. /\ Shape(p) /\ p.order = r.order /\ p.next = r.next /\ p.unshuffled = r.unshuffled
        /\ p.places = r.places /\ p.after = r.after /\ p.seat = r.seat
        /\ p.repeat = r.repeat /\ p.shuffle = r.shuffle /\ p.stamp = r.stamp
        /\ p.playingFrom = r.playingFrom /\ p.revised
    BY <1>4, <2>2 DEF Revised, Shape, Fields
  <2>4. DrawnAt(r, lands) = DrawnAt(p, lands)
    BY <2>3 DEF DrawnAt
  <2>5. /\ StandingWith(joined, lands.at, landed) = StandingWith(q, lands.at, landed)
        /\ PassedBy(joined, lands.at, before) = PassedBy(q, lands.at, before)
    BY <1>2 DEF StandingWith, PassedBy
  <2> QED BY <1>2, <1>4, <1>6, <2>2, <2>3, <2>4, <2>5
<1> QED BY <1>5, <1>6

LEMMA StandingWithLists ==
  ASSUME NEW q, NEW inOrder, NEW next, Stands(q, inOrder, next), q.shuffle \in BOOLEAN,
         NEW new, NEW landed, Lists(landed, new), inOrder \cap new = {},
         NEW at
  PROVE  IF q.shuffle THEN Lists(StandingWith(q, at, landed), inOrder \cup new)
         ELSE StandingWith(q, at, landed) = <<>>
<1>1. CASE ~q.shuffle
  BY <1>1 DEF StandingWith, Stands
<1>2. CASE q.shuffle
  <2>1. Lists(q.unshuffled, inOrder)
    BY <1>2 DEF Stands
  <2>2. CASE at = 0
    <3>1. StandingWith(q, at, landed) = landed \o q.unshuffled
      <4>1. ~(at > 0)
        BY <2>2
      <4> QED BY <1>2, <2>2, <4>1 DEF StandingWith
    <3>2. new \cap inOrder = {} /\ new \cup inOrder = inOrder \cup new
      OBVIOUS
    <3>3. Lists(landed \o q.unshuffled, new \cup inOrder)
      BY <2>1, <3>2, JoinedLists
    <3> QED BY <1>2, <3>1, <3>2, <3>3
  <2>3. CASE at # 0 /\ at >= Len(q.order) /\ at > 0
    <3>1. StandingWith(q, at, landed) = q.unshuffled \o landed
      BY <1>2, <2>3 DEF StandingWith
    <3>2. Lists(q.unshuffled \o landed, inOrder \cup new)
      BY <2>1, JoinedLists
    <3> QED BY <1>2, <3>1, <3>2
  <2>4. CASE at # 0 /\ ~(at >= Len(q.order) /\ at > 0)
    <3>1. StandingWith(q, at, landed) = StandsAfter(q.unshuffled, q.order[at].place, landed)
      BY <1>2, <2>4 DEF StandingWith
    <3>2. Lists(StandsAfter(q.unshuffled, q.order[at].place, landed), inOrder \cup new)
      BY <2>1, StandsAfterLists
    <3> QED BY <1>2, <3>1, <3>2
  <2> QED BY <2>2, <2>3, <2>4
<1> QED BY <1>1, <1>2

\* Rows that have joined those of a queue: no two share a place, and each is stamped.
Joined(q, inOrder, next, new, landed, places) ==
  /\ new \cap inOrder = {} /\ new \cap next = {} /\ Apart(inOrder \cup next \cup new)
  /\ Apart(inOrder \cup new)
  /\ inOrder \cup next \cup new \in SUBSET GivenOut(places)
  /\ With(q.stamp, landed) = Marked(inOrder \cup next \cup new)
  /\ With(q.playingFrom, landed) = Marked(inOrder \cup new)

LEMMA JoinedStands ==
  ASSUME NEW q, NEW inOrder, NEW next, Stands(q, inOrder, next), Kinds(q), NEW places \in Nat,
         q.places <= places,
         NEW new, NEW landed, Lists(landed, new), new \in SUBSET GivenOut(places),
         Apart(new), PlacedFrom(new, q.places)
  PROVE  Joined(q, inOrder, next, new, landed, places)
<1>0. q.places \in Nat
  BY DEF Kinds
<1>1. \A r \in inOrder \cup next : r.place \in 0..(q.places - 1)
  BY RowsHavePlaces
<1>2. \A n \in 0..(q.places - 1) : n < q.places /\ n \in 0..(places - 1)
  BY <1>0
<1>3. \A r \in inOrder \cup next : \A t \in new : r.place # t.place
  BY <1>1, <1>2 DEF PlacedFrom
<1>4. new \cap inOrder = {} /\ new \cap next = {} /\ new \cap (inOrder \cup next) = {}
  BY <1>3
<1>5. Apart(inOrder \cup next \cup new)
  <2>1. Apart(inOrder \cup next)
    BY DEF Stands
  <2> QED BY <1>3, <2>1 DEF Apart
<1>6. Apart(inOrder \cup new)
  BY <1>5 DEF Apart
<1>7. inOrder \cup next \cup new \in SUBSET GivenOut(places)
  <2>1. inOrder \cup next \in SUBSET GivenOut(q.places)
    BY DEF Stands
  <2>2. GivenOut(q.places) \in SUBSET GivenOut(places)
    BY <1>2 DEF GivenOut
  <2> QED BY <2>1, <2>2
<1>8. With(q.stamp, landed) = Marked(inOrder \cup next \cup new)
  <2>1. q.stamp = Marked(inOrder \cup next)
    BY DEF Stands
  <2>2. (inOrder \cup next) \cap new = {}
    BY <1>4
  <2> QED BY <1>5, <2>1, <2>2, JoinedStamp
<1>9. With(q.playingFrom, landed) = Marked(inOrder \cup new)
  <2>1. q.playingFrom = Marked(inOrder)
    BY DEF Stands
  <2>2. inOrder \cap new = {}
    BY <1>4
  <2> QED BY <1>6, <2>1, <2>2, JoinedStamp
<1> QED BY <1>4, <1>5, <1>6, <1>7, <1>8, <1>9 DEF Joined

LEMMA NextJoined ==
  ASSUME NEW q, NEW inOrder, NEW next, Stands(q, inOrder, next), Kinds(q),
         NEW p, p.places \in Nat, q.places <= p.places,
         NEW new, NEW landed, Lists(landed, new), new \in SUBSET GivenOut(p.places),
         Apart(new), PlacedFrom(new, q.places), NEW at \in Nat,
         p.order = q.order, p.next = Spliced(q.next, at, landed),
         p.unshuffled = q.unshuffled, p.shuffle = q.shuffle,
         p.stamp = With(q.stamp, landed), p.playingFrom = q.playingFrom
  PROVE  /\ Stands(p, inOrder, next \cup new)
         /\ Len(p.next) = Len(q.next) + Len(landed)
<1>1. PICK places \in Nat : places = p.places
  OBVIOUS
<1>2. Joined(q, inOrder, next, new, landed, places)
  <2>1. q.places <= places /\ new \in SUBSET GivenOut(places)
    BY <1>1
  <2> QED BY <2>1, JoinedStands
<1>3. /\ Lists(q.order, inOrder) /\ Lists(q.next, next) /\ inOrder \cap next = {}
      /\ q.playingFrom = Marked(inOrder)
      /\ IF q.shuffle THEN Lists(q.unshuffled, inOrder) ELSE q.unshuffled = <<>>
  BY DEF Stands
<1>4. next \cap new = {}
  BY <1>2 DEF Joined
<1>5. /\ Lists(p.next, next \cup new) /\ Len(p.next) = Len(q.next) + Len(landed)
  <2>1. PICK waits : waits = q.next
    OBVIOUS
  <2>2. Lists(waits, next) /\ Lists(landed, new)
    BY <1>3, <2>1
  <2>3. /\ Lists(Spliced(waits, at, landed), next \cup new)
        /\ Len(Spliced(waits, at, landed)) = Len(waits) + Len(landed)
    BY <1>4, <2>2, SplicedLists
  <2> QED BY <2>1, <2>3
<1>6. inOrder \cup (next \cup new) = inOrder \cup next \cup new
  OBVIOUS
<1>7. inOrder \cap (next \cup new) = {}
  BY <1>2, <1>3 DEF Joined
<1>8. /\ Apart(inOrder \cup (next \cup new))
      /\ inOrder \cup (next \cup new) \in SUBSET GivenOut(p.places)
      /\ p.stamp = Marked(inOrder \cup (next \cup new))
  BY <1>1, <1>2, <1>6 DEF Joined
<1> QED BY <1>3, <1>5, <1>7, <1>8 DEF Stands

LEMMA OrderJoined ==
  ASSUME NEW q, NEW inOrder, NEW next, Stands(q, inOrder, next), Kinds(q),
         NEW p, p.places \in Nat, q.places <= p.places,
         NEW new, NEW landed, Lists(landed, new), new \in SUBSET GivenOut(p.places),
         Apart(new), PlacedFrom(new, q.places), NEW at \in Nat,
         p.next = q.next, p.order = Spliced(q.order, at, landed),
         p.unshuffled = StandingWith(q, at, landed), p.shuffle = q.shuffle,
         p.stamp = With(q.stamp, landed), p.playingFrom = With(q.playingFrom, landed)
  PROVE  /\ Stands(p, inOrder \cup new, next)
         /\ Len(p.order) = Len(q.order) + Len(landed)
<1>1. PICK places \in Nat : places = p.places
  OBVIOUS
<1>2. Joined(q, inOrder, next, new, landed, places)
  <2>1. q.places <= places /\ new \in SUBSET GivenOut(places)
    BY <1>1
  <2> QED BY <2>1, JoinedStands
<1>3. Lists(q.order, inOrder) /\ Lists(q.next, next) /\ inOrder \cap next = {}
  BY DEF Stands
<1>4. inOrder \cap new = {} /\ q.shuffle \in BOOLEAN
  BY <1>2 DEF Joined, Kinds
<1>5. /\ Lists(p.order, inOrder \cup new) /\ Len(p.order) = Len(q.order) + Len(landed)
  <2>1. PICK rows : rows = q.order
    OBVIOUS
  <2>2. Lists(rows, inOrder) /\ Lists(landed, new)
    BY <1>3, <2>1
  <2>3. /\ Lists(Spliced(rows, at, landed), inOrder \cup new)
        /\ Len(Spliced(rows, at, landed)) = Len(rows) + Len(landed)
    BY <1>4, <2>2, SplicedLists
  <2> QED BY <2>1, <2>3
<1>6. (inOrder \cup new) \cup next = inOrder \cup next \cup new
  OBVIOUS
<1>7. (inOrder \cup new) \cap next = {}
  BY <1>2, <1>3 DEF Joined
<1>8. IF p.shuffle THEN Lists(p.unshuffled, inOrder \cup new) ELSE p.unshuffled = <<>>
  <2>1. IF q.shuffle THEN Lists(StandingWith(q, at, landed), inOrder \cup new)
        ELSE StandingWith(q, at, landed) = <<>>
    BY <1>4, StandingWithLists
  <2> QED BY <2>1
<1>9. /\ Apart((inOrder \cup new) \cup next)
      /\ (inOrder \cup new) \cup next \in SUBSET GivenOut(p.places)
      /\ p.stamp = Marked((inOrder \cup new) \cup next)
      /\ p.playingFrom = Marked(inOrder \cup new)
  BY <1>1, <1>2, <1>6 DEF Joined
<1> QED BY <1>3, <1>5, <1>7, <1>8, <1>9 DEF Stands

LEMMA InsertKeeps ==
  ASSUME NEW q, Sound(q), Seated(q), NEW items \in Seq(Items), Len(items) > 0,
         q.places + Len(items) <= MaxPlaces,
         NEW placement \in {"next", "queued", "at"}, NEW row \in Nat,
         NEW p, p = Insert(q, items, placement, row)
  PROVE  Sound(p) /\ Seated(p) /\ Seen(q, p) /\ p.places = q.places + Len(items) /\ p.revised
<1>1. PICK inOrder, next : Stands(q, inOrder, next)
  BY DEF Sound
<1>2. Shape(q) /\ Kinds(q) /\ q.after \in Nat /\ q.places \in Nat
  BY DEF Sound, Kinds
<1>3. PICK landed : landed = Arrived(q, items)
  OBVIOUS
<1>4. PICK lands : lands = LandingOf(q, placement, row)
  OBVIOUS
<1>5. PICK before : before = (q.seat = "next" /\ placement = "at" /\ row <= Cursor(q))
  OBVIOUS
<1>6. /\ Shape(p) /\ p.places = q.places + Len(items) /\ p.revised
      /\ p.repeat = q.repeat /\ p.shuffle = q.shuffle /\ p.stamp = With(q.stamp, landed)
      /\ lands.waits = "next" =>
           /\ p.order = q.order /\ p.next = Spliced(q.next, lands.at, landed)
           /\ p.unshuffled = q.unshuffled /\ p.after = q.after /\ p.seat = q.seat
           /\ p.playingFrom = q.playingFrom
      /\ lands.waits = "in_order" =>
           /\ p.order = Spliced(q.order, lands.at, landed) /\ p.next = q.next
           /\ p.unshuffled = StandingWith(q, lands.at, landed)
           /\ p.playingFrom = With(q.playingFrom, landed)
           /\ p.seat = (IF q.seat = "nowhere" THEN "in_order" ELSE q.seat)
           /\ p.after = (IF q.seat = "nowhere" THEN lands.at + 1
                         ELSE IF PassedBy(q, lands.at, before)
                              THEN q.after + Len(landed) ELSE q.after)
  BY <1>2, <1>3, <1>4, <1>5, InsertedIs DEF Insert
<1>7. PICK new : new = ToSet(landed)
  OBVIOUS
<1>8. /\ Lists(landed, new) /\ Len(landed) = Len(items)
      /\ new \in SUBSET GivenOut(q.places + Len(items)) /\ Apart(new)
      /\ PlacedFrom(new, q.places)
  BY <1>2, <1>3, <1>7, ArrivedLists
<1>9. p.places \in 0..MaxPlaces /\ p.places \in Nat /\ q.places <= p.places
  BY <1>2, <1>6, QueueAssumption
<1>10. new \in SUBSET GivenOut(p.places)
  BY <1>6, <1>8
<1>11. PICK l \in Nat, n \in Nat, k \in Nat, after \in Nat :
         l = Len(q.order) /\ n = Len(q.next) /\ k = Len(landed) /\ after = q.after
  <2>1. Len(q.order) \in Nat /\ Len(q.next) \in Nat
    BY <1>1, ListsOfASoundQueue
  <2>2. Len(landed) \in Nat
    BY <1>8, ListIsAList
  <2> QED BY <1>2, <2>1, <2>2
<1>12. \/ /\ lands.waits = "next" /\ q.seat # "nowhere" /\ lands.at \in 0..n
       \/ lands.waits = "in_order" /\ lands.at \in 0..l
  <2>1. q.next = <<>> <=> Len(q.next) = 0
    BY <1>1, ListsOfASoundQueue
  <2>2. q.seat \in Seats
    BY <1>2 DEF Kinds
  <2>3. Len(q.order) \in Nat /\ Len(q.next) \in Nat
    BY <1>11
  <2>4. \/ /\ lands.waits = "next" /\ q.seat # "nowhere" /\ lands.at \in 0..Len(q.next)
        \/ lands.waits = "in_order" /\ lands.at \in 0..Len(q.order)
    BY <1>2, <1>4, <2>1, <2>2, <2>3, LandingIs
  <2> QED BY <1>11, <2>4
<1>13. after <= l /\ (q.seat = "in_order" => after > 0) /\ (q.seat = "nowhere" => q.next = <<>>)
       /\ (q.seat = "next" => q.next # <<>>) /\ k > 0
  BY <1>8, <1>11 DEF Seated
<1>14. Seen(q, p)
  BY <1>6 DEF Seen
<1>15. CASE lands.waits = "next" /\ q.seat # "nowhere" /\ lands.at \in 0..n
  <2>1. PICK at \in Nat : at = lands.at
    BY <1>15
  <2>2. /\ Stands(p, inOrder, next \cup new)
        /\ Len(p.next) = Len(q.next) + Len(landed)
    <3>1. /\ p.order = q.order /\ p.next = Spliced(q.next, at, landed)
          /\ p.unshuffled = q.unshuffled /\ p.shuffle = q.shuffle
          /\ p.stamp = With(q.stamp, landed) /\ p.playingFrom = q.playingFrom
      BY <1>6, <1>15, <2>1
    <3>2. Lists(landed, new) /\ Apart(new) /\ PlacedFrom(new, q.places)
      BY <1>8
    <3>3. Stands(q, inOrder, next) /\ Kinds(q) /\ p.places \in Nat /\ q.places <= p.places
      BY <1>1, <1>2, <1>9
    <3> QED BY <1>10, <3>1, <3>2, <3>3, NextJoined
  <2>3. Kinds(p)
    BY <1>2, <1>6, <1>9, <1>15 DEF Kinds
  <2>4. p.next # <<>>
    <3>1. Len(p.next) = n + k
      BY <1>11, <2>2
    <3>2. Len(p.next) # 0
      BY <1>13, <3>1
    <3> QED BY <3>2
  <2>5. Seated(p)
    BY <1>6, <1>15, <2>4 DEF Seated
  <2> QED BY <1>6, <1>14, <2>2, <2>3, <2>5 DEF Sound
<1>16. CASE lands.waits = "in_order" /\ lands.at \in 0..l
  <2>1. PICK at \in Nat : at = lands.at
    BY <1>16
  <2>2. /\ Stands(p, inOrder \cup new, next)
        /\ Len(p.order) = Len(q.order) + Len(landed)
    <3>1. /\ p.next = q.next /\ p.order = Spliced(q.order, at, landed)
          /\ p.unshuffled = StandingWith(q, at, landed) /\ p.shuffle = q.shuffle
          /\ p.stamp = With(q.stamp, landed)
          /\ p.playingFrom = With(q.playingFrom, landed)
      BY <1>6, <1>16, <2>1
    <3>2. Lists(landed, new) /\ Apart(new) /\ PlacedFrom(new, q.places)
      BY <1>8
    <3> QED BY <1>1, <1>2, <1>9, <1>10, <3>1, <3>2, OrderJoined
  <2>3. Len(p.order) = l + k
    BY <1>11, <2>2
  <2>4. /\ p.after \in Nat /\ p.after <= l + k
        /\ q.seat = "nowhere" \/ q.seat = "in_order" => p.after > 0
    <3>1. p.after = (IF q.seat = "nowhere" THEN lands.at + 1
                     ELSE IF PassedBy(q, lands.at, before) THEN after + k ELSE after)
      BY <1>6, <1>11, <1>16
    <3> QED BY <1>13, <1>16, <3>1
  <2>5. Kinds(p)
    BY <1>2, <1>6, <1>9, <1>16, <2>4 DEF Kinds, Seats
  <2>6. Seated(p)
    <3>1. p.seat = (IF q.seat = "nowhere" THEN "in_order" ELSE q.seat) /\ p.next = q.next
      BY <1>6, <1>16
    <3> QED BY <1>13, <2>3, <2>4, <3>1 DEF Seated
  <2> QED BY <1>6, <1>14, <2>2, <2>5, <2>6 DEF Sound
<1> QED BY <1>12, <1>15, <1>16

\* The first of the rows inserted is drawn where the insert says.
LEMMA InsertedWhere ==
  ASSUME NEW q, Sound(q), Seated(q), NEW items \in Seq(Items), Len(items) > 0,
         q.places + Len(items) <= MaxPlaces,
         NEW placement \in {"next", "queued", "at"}, NEW row \in Nat,
         NEW p, p = Inserted(q, items, placement, row).queue,
         NEW drawn, drawn = Inserted(q, items, placement, row).row
  PROVE  drawn \in 0..(Size(p) - 1) /\ Drawn(p)[drawn + 1].place = q.places
<1>1. PICK inOrder, next : Stands(q, inOrder, next)
  BY DEF Sound
<1>2. Shape(q) /\ Kinds(q) /\ q.after \in Nat /\ q.places \in Nat
  BY DEF Sound, Kinds
<1>3. PICK landed : landed = Arrived(q, items)
  OBVIOUS
<1>4. PICK lands : lands = LandingOf(q, placement, row)
  OBVIOUS
<1>5. /\ drawn = DrawnAt(p, lands)
      /\ lands.waits = "next" => p.next = Spliced(q.next, lands.at, landed)
      /\ lands.waits = "in_order" => p.order = Spliced(q.order, lands.at, landed)
  BY <1>2, <1>3, <1>4, InsertedIs
<1>6. Sound(p) /\ Seated(p)
  BY InsertKeeps DEF Insert
<1>7. PICK order2, next2 : Stands(p, order2, next2)
  BY <1>6 DEF Sound
<1>8. PICK new : new = ToSet(landed)
  OBVIOUS
<1>9. /\ Lists(landed, new) /\ Len(landed) = Len(items) /\ landed[1].place = q.places
  BY <1>2, <1>3, <1>8, ArrivedLists
<1>10. PICK rows : rows = inOrder \cup next \cup new \cup order2 \cup next2
  OBVIOUS
<1>11. /\ q.order \in Seq(rows) /\ q.next \in Seq(rows) /\ landed \in Seq(rows)
       /\ p.order \in Seq(rows) /\ p.next \in Seq(rows)
  <2>1. /\ inOrder \in SUBSET rows /\ next \in SUBSET rows /\ new \in SUBSET rows
        /\ order2 \in SUBSET rows /\ next2 \in SUBSET rows
    BY <1>10
  <2>2. /\ Lists(q.order, inOrder) /\ Lists(q.next, next) /\ Lists(p.order, order2)
        /\ Lists(p.next, next2)
    BY <1>1, <1>7 DEF Stands
  <2>3. q.order \in Seq(rows) /\ q.next \in Seq(rows)
    BY <2>1, <2>2, ListOfMore
  <2>4. p.order \in Seq(rows) /\ p.next \in Seq(rows)
    BY <2>1, <2>2, ListOfMore
  <2>5. landed \in Seq(rows)
    BY <1>9, <2>1, ListOfMore
  <2> QED BY <2>3, <2>4, <2>5
<1>12. PICK l \in Nat, n \in Nat, k \in Nat :
         l = Len(q.order) /\ n = Len(q.next) /\ k = Len(landed)
  BY <1>11
<1>13. PICK after \in Nat, length \in Nat, waiting \in Nat :
         after = p.after /\ length = Len(p.order) /\ waiting = Len(p.next)
  BY <1>6, <1>11 DEF Sound, Kinds
<1>14. after <= length /\ k > 0
  BY <1>6, <1>9, <1>12, <1>13 DEF Seated
<1>15. PutInto(Drawn(p), p.order, p.next, after)
  BY <1>11, <1>13, <1>14, DrawnIs
<1>16. /\ Size(p) = length + waiting
       /\ \A i \in 1..after : Drawn(p)[i] = p.order[i]
       /\ \A i \in 1..waiting : Drawn(p)[after + i] = p.next[i]
       /\ \A i \in (after + 1)..length : Drawn(p)[waiting + i] = p.order[i]
  BY <1>13, <1>15 DEF PutInto, Size
<1>17. \/ /\ lands.waits = "next" /\ q.seat # "nowhere" /\ lands.at \in 0..n
       \/ lands.waits = "in_order" /\ lands.at \in 0..l
  <2>1. q.next = <<>> <=> Len(q.next) = 0
    BY <1>1, ListsOfASoundQueue
  <2>2. q.seat \in Seats
    BY <1>2 DEF Kinds
  <2>3. Len(q.order) \in Nat /\ Len(q.next) \in Nat
    BY <1>12
  <2>4. \/ /\ lands.waits = "next" /\ q.seat # "nowhere" /\ lands.at \in 0..Len(q.next)
        \/ lands.waits = "in_order" /\ lands.at \in 0..Len(q.order)
    BY <1>2, <1>4, <2>1, <2>2, <2>3, LandingIs
  <2> QED BY <1>12, <2>4
<1>18. CASE lands.waits = "next" /\ lands.at \in 0..n
  <2>1. PICK at \in Nat : at = lands.at /\ at <= n
    BY <1>18
  <2>2. p.next = Spliced(q.next, at, landed)
    BY <1>5, <1>18, <2>1
  <2>3. PutInto(p.next, q.next, landed, at)
    BY <1>11, <1>12, <2>1, <2>2, SpliceIs
  <2>4. waiting = n + k /\ \A i \in 1..k : p.next[at + i] = landed[i]
    BY <1>12, <1>13, <2>3 DEF PutInto
  <2>5. 1 \in 1..k /\ at + 1 \in 1..waiting
    BY <1>14, <2>1, <2>4
  <2>6. drawn = after + at
    BY <1>5, <1>13, <1>18, <2>1 DEF DrawnAt
  <2>7. Drawn(p)[after + (at + 1)] = landed[1]
    BY <1>16, <2>4, <2>5
  <2>8. drawn + 1 = after + (at + 1) /\ drawn \in 0..(length + waiting - 1)
    BY <1>14, <2>5, <2>6
  <2> QED BY <1>9, <1>16, <2>7, <2>8
<1>19. CASE lands.waits = "in_order" /\ lands.at \in 0..l
  <2>1. PICK at \in Nat : at = lands.at /\ at <= l
    BY <1>19
  <2>2. p.order = Spliced(q.order, at, landed)
    BY <1>5, <1>19, <2>1
  <2>3. PutInto(p.order, q.order, landed, at)
    BY <1>11, <1>12, <2>1, <2>2, SpliceIs
  <2>4. length = l + k /\ \A i \in 1..k : p.order[at + i] = landed[i]
    BY <1>12, <1>13, <2>3 DEF PutInto
  <2>5. 1 \in 1..k /\ at + 1 <= length
    BY <1>14, <2>1, <2>4
  <2>6. p.order[at + 1] = landed[1]
    BY <2>4, <2>5
  <2>7. CASE at < after
    <3>1. drawn = at
      BY <1>5, <1>13, <1>19, <2>1, <2>7 DEF DrawnAt
    <3>2. at + 1 \in 1..after /\ drawn \in 0..(length + waiting - 1)
      BY <2>5, <2>7, <3>1
    <3>3. Drawn(p)[at + 1] = p.order[at + 1]
      BY <1>16, <3>2
    <3> QED BY <1>9, <1>16, <2>6, <3>1, <3>2, <3>3
  <2>8. CASE ~(at < after)
    <3>1. drawn = at + waiting
      BY <1>5, <1>13, <1>19, <2>1, <2>8 DEF DrawnAt
    <3>2. at + 1 \in (after + 1)..length /\ drawn \in 0..(length + waiting - 1)
          /\ drawn + 1 = waiting + (at + 1)
      BY <2>5, <2>8, <3>1
    <3>3. Drawn(p)[waiting + (at + 1)] = p.order[at + 1]
      BY <1>16, <3>2
    <3> QED BY <1>9, <1>16, <2>6, <3>2, <3>3
  <2> QED BY <2>7, <2>8
<1> QED BY <1>17, <1>18, <1>19

\* The first of the rows played next stays first, and some of the rest are taken forward.
LEMMA TakenForward ==
  ASSUME NEW set, NEW list, Lists(list, set), list # <<>>, NEW run,
         NEW taken,
         taken = First(list, 1) \o Only(Past(list, 1), run) \o Without(Past(list, 1), run)
  PROVE  Lists(taken, set) /\ taken # <<>> /\ taken[1] = list[1]
<1> DEFINE head == {list[1]}
           rest == set \ {list[1]}
<1>1. /\ Lists(First(list, 1), head) /\ Lists(Past(list, 1), rest) /\ list[1] \in set
      /\ First(list, 1) = <<list[1]>>
  BY HeadAndRest
<1>2. PICK forward, back : forward = Only(Past(list, 1), run) /\ back = Without(Past(list, 1), run)
  OBVIOUS
<1>3. Lists(forward, Of(rest, run)) /\ Lists(back, NotOf(rest, run))
  BY <1>1, <1>2, OnlyOf
<1> HIDE DEF head, rest
<1>4. head \cap Of(rest, run) = {} /\ (head \cup Of(rest, run)) \cap NotOf(rest, run) = {}
      /\ head \cup Of(rest, run) \cup NotOf(rest, run) = set
  BY <1>1 DEF head, rest, Of, NotOf
<1>5. PICK begin : begin = First(list, 1) \o forward
  OBVIOUS
<1>6. Lists(begin, head \cup Of(rest, run))
      /\ Len(begin) = Len(First(list, 1)) + Len(forward)
  BY <1>1, <1>3, <1>4, <1>5, JoinedLists
<1>7. taken = begin \o back
  BY <1>2, <1>5
<1>8. Lists(taken, set)
  <2>1. Lists(begin \o back, (head \cup Of(rest, run)) \cup NotOf(rest, run))
    BY <1>3, <1>4, <1>6, JoinedLists
  <2> QED BY <1>4, <1>7, <2>1
<1>9. list \in Seq(set) /\ forward \in Seq(set) /\ back \in Seq(set)
  <2>1. Of(rest, run) \in SUBSET set /\ NotOf(rest, run) \in SUBSET set
    BY <1>4
  <2>2. forward \in Seq(set)
    BY <1>3, <2>1, ListOfMore
  <2>3. back \in Seq(set)
    BY <1>3, <2>1, ListOfMore
  <2> QED BY <2>2, <2>3 DEF Lists
<1>10. PICK x \in set : x = list[1]
  BY <1>1
<1>11. taken = <<x>> \o forward \o back
  BY <1>1, <1>2, <1>10
<1>12. (<<x>> \o forward) \in Seq(set) /\ Len(<<x>> \o forward) = 1 + Len(forward)
       /\ (<<x>> \o forward)[1] = x
  BY <1>9
<1>13. Len(forward) \in Nat /\ Len(back) \in Nat
  BY <1>9
<1>14. PICK start \in Seq(set) : start = <<x>> \o forward
  BY <1>12
<1>15. taken = start \o back /\ Len(start) >= 1 /\ start[1] = x
  <2>1. Len(start) = 1 + Len(forward) /\ start[1] = x
    BY <1>12, <1>14
  <2>2. Len(start) >= 1
    BY <1>13, <2>1
  <2>3. taken = start \o back
    BY <1>11, <1>14
  <2> QED BY <2>1, <2>2, <2>3
<1>16. (start \o back)[1] = start[1] /\ Len(start \o back) = Len(start) + Len(back)
  BY <1>9, <1>15
<1>17. taken # <<>>
  BY <1>13, <1>15, <1>16
<1> QED BY <1>8, <1>10, <1>15, <1>16, <1>17

LEMMA InsertToHearKeeps ==
  ASSUME NEW q, Sound(q), Seated(q), NEW items \in Seq(Items), Len(items) > 0,
         q.places + Len(items) <= MaxPlaces,
         NEW placement \in {"next", "queued", "at"}, NEW row \in Nat,
         NEW p, p = InsertToHear(q, items, placement, row)
  PROVE  /\ Sound(p) /\ Seated(p) /\ Seen(q, p) /\ p.places = q.places + Len(items)
         /\ HeardPlace(p) = q.places
<1> DEFINE run == q.places..(q.places + Len(items) - 1)
<1>1. PICK inserted : inserted = Inserted(q, items, placement, row)
  OBVIOUS
<1>2. PICK r : r = inserted.queue
  OBVIOUS
<1>3. /\ Sound(r) /\ Seated(r) /\ Seen(q, r) /\ r.places = q.places + Len(items)
  BY <1>1, <1>2, InsertKeeps DEF Insert
<1>4. inserted.row \in 0..(Size(r) - 1) /\ Drawn(r)[inserted.row + 1].place = q.places
  <2>1. PICK drawn : drawn = inserted.row
    OBVIOUS
  <2>2. r = Inserted(q, items, placement, row).queue /\ drawn = Inserted(q, items, placement, row).row
    BY <1>1, <1>2, <2>1
  <2>3. drawn \in 0..(Size(r) - 1) /\ Drawn(r)[drawn + 1].place = q.places
    BY <2>2, InsertedWhere
  <2> QED BY <2>1, <2>3
<1>5. PICK heard : heard = JumpTo(r, inserted.row)
  OBVIOUS
<1>6. /\ Sound(heard) /\ Seated(heard) /\ Seen(r, heard) /\ heard.places = r.places
      /\ HeardPlace(heard) = Drawn(r)[inserted.row + 1].place
  BY <1>3, <1>4, <1>5, JumpToKeeps
<1>7. Seen(q, heard)
  BY <1>3, <1>6, SeenInTurn
<1>8. PICK taken : taken = First(heard.next, 1) \o Only(Past(heard.next, 1), run)
                           \o Without(Past(heard.next, 1), run)
  OBVIOUS
<1>9. p = IF heard.seat # "next" \/ heard.next = <<>> THEN heard
          ELSE Revised([heard EXCEPT !.next = taken])
  <2>1. InsertToHear(q, items, placement, row) =
          IF heard.seat # "next" \/ heard.next = <<>> THEN heard
          ELSE Revised([heard EXCEPT !.next = First(@, 1) \o Only(Past(heard.next, 1), run)
                                              \o Without(Past(heard.next, 1), run)])
    BY <1>1, <1>2, <1>5 DEF InsertToHear
  <2> QED BY <1>8, <2>1
<1> HIDE DEF run
<1>10. CASE heard.seat # "next" \/ heard.next = <<>>
  BY <1>3, <1>4, <1>6, <1>7, <1>9, <1>10
<1>11. CASE ~(heard.seat # "next" \/ heard.next = <<>>)
  <2>1. PICK inOrder, next : Stands(heard, inOrder, next)
    BY <1>6 DEF Sound
  <2>2. Shape(heard) /\ Kinds(heard)
    BY <1>6 DEF Sound
  <2>3. p = Revised([heard EXCEPT !.next = taken])
    BY <1>9, <1>11
  <2>4. /\ Shape(p) /\ p.order = heard.order /\ p.next = taken
        /\ p.unshuffled = heard.unshuffled /\ p.places = heard.places
        /\ p.after = heard.after /\ p.seat = heard.seat /\ p.repeat = heard.repeat
        /\ p.shuffle = heard.shuffle /\ p.stamp = heard.stamp
        /\ p.playingFrom = heard.playingFrom /\ p.revised
    BY <2>2, <2>3 DEF Revised, Shape, Fields
  <2>5. Lists(taken, next) /\ taken # <<>> /\ taken[1] = heard.next[1]
    <3>1. Lists(heard.next, next)
      BY <2>1 DEF Stands
    <3>2. PICK waits : waits = heard.next
      OBVIOUS
    <3>3. /\ Lists(waits, next) /\ waits # <<>>
          /\ taken = First(waits, 1) \o Only(Past(waits, 1), run) \o Without(Past(waits, 1), run)
      BY <1>8, <1>11, <3>1, <3>2
    <3>4. Lists(taken, next) /\ taken # <<>> /\ taken[1] = waits[1]
      BY <3>3, TakenForward
    <3> QED BY <3>2, <3>4
  <2>6. Stands(p, inOrder, next)
    BY <2>1, <2>4, <2>5 DEF Stands
  <2>7. Kinds(p)
    BY <2>2, <2>4 DEF Kinds
  <2>8. Seated(p)
    BY <1>6, <1>11, <2>4, <2>5 DEF Seated
  <2>9. HeardPlace(p) = HeardPlace(heard)
    BY <1>11, <2>4, <2>5 DEF HeardPlace
  <2> QED BY <1>3, <1>4, <1>6, <2>4, <2>6, <2>7, <2>8, <2>9 DEF Sound, Seen
<1> QED BY <1>10, <1>11

-----------------------------------------------------------------------------
(* What a queue is loaded with.                                            *)

Filled(q, inOrder, next) ==
  /\ Lists(q.order, inOrder) /\ Lists(q.next, next)
  /\ inOrder \cap next = {} /\ Apart(inOrder \cup next)

LEMMA StampedAfresh ==
  ASSUME NEW q, Shape(q), NEW inOrder, NEW next, Filled(q, inOrder, next),
         NEW p, p = Revised(StampAfresh(q))
  PROVE  /\ Shape(p) /\ p.order = q.order /\ p.next = q.next /\ p.unshuffled = q.unshuffled
         /\ p.places = q.places /\ p.after = q.after /\ p.seat = q.seat
         /\ p.repeat = q.repeat /\ p.shuffle = q.shuffle
         /\ p.playingFrom = Marked(inOrder) /\ p.stamp = Marked(inOrder \cup next) /\ p.revised
<1>1. PICK order : order = With(Unstamped, q.order)
  OBVIOUS
<1>2. order = Marked(inOrder)
  <2>1. {} \cup inOrder = inOrder /\ {} \cap inOrder = {}
    OBVIOUS
  <2>2. Apart({} \cup inOrder)
    BY <2>1 DEF Apart, Filled
  <2>3. With(Marked({}), q.order) = Marked({} \cup inOrder)
    BY <2>1, <2>2, JoinedStamp DEF Filled
  <2> QED BY <1>1, <2>1, <2>3, UnstampedIs
<1>3. With(order, q.next) = Marked(inOrder \cup next)
  BY <1>2, JoinedStamp DEF Filled
<1>4. p = Revised([q EXCEPT !.playingFrom = order, !.stamp = With(order, q.next)])
  BY <1>1 DEF StampAfresh
<1>5. /\ Shape(p) /\ p.order = q.order /\ p.next = q.next /\ p.unshuffled = q.unshuffled
      /\ p.places = q.places /\ p.after = q.after /\ p.seat = q.seat
      /\ p.repeat = q.repeat /\ p.shuffle = q.shuffle
      /\ p.playingFrom = order /\ p.stamp = With(order, q.next) /\ p.revised
  BY <1>4 DEF Revised, Shape, Fields
<1> QED BY <1>2, <1>3, <1>5

\* What waits to be played next, once the row heard is not counted.
LEMMA WaitingIs ==
  ASSUME NEW q, NEW rows, q.next \in Seq(rows), Seated(q)
  PROVE  /\ Waiting(q) \in Seq(rows)
<1>1. CASE q.seat = "next"
  <2>1. q.next # <<>>
    BY <1>1 DEF Seated
  <2>2. Len(q.next) \in Nat /\ Len(q.next) # 0 /\ 1 \in Nat
    BY <2>1
  <2>3. PICK n \in Nat : n = 1 /\ n <= Len(q.next)
    BY <2>2
  <2>4. Past(q.next, n) \in Seq(rows)
    BY <2>3, CutInTwo
  <2> QED BY <1>1, <2>3, <2>4 DEF Waiting
<1>2. CASE q.seat # "next"
  BY <1>2 DEF Waiting
<1> QED BY <1>1, <1>2

LEMMA LoadKeeps ==
  ASSUME NEW q, Sound(q), Seated(q), NEW items \in Seq(Items),
         Len(items) + Len(Waiting(q)) <= MaxPlaces, NEW startAt \in Nat,
         NEW p \in Load(q, items, startAt)
  PROVE  Sound(p) /\ Seated(p) /\ Seen(q, p)
<1> DEFINE kept == [i \in DOMAIN Waiting(q) |-> Waiting(q)[i].item]
           order == [i \in 1..Len(items) |-> At(i - 1, items[i])]
           next == [i \in DOMAIN kept |-> At(Len(items) + i - 1, kept[i])]
           start == Least(startAt, Len(items) - 1)
           given == [q EXCEPT
                  !.places = Len(items) + Len(kept), !.order = order, !.next = next,
                  !.unshuffled = IF q.shuffle THEN order ELSE <<>>]
           loaded == Revised(StampAfresh(given))
           empty == [loaded EXCEPT !.after = 0,
                              !.seat = IF next = <<>> THEN "nowhere" ELSE "next"]
           seated == [loaded EXCEPT !.after = start + 1, !.seat = "in_order"]
<1>0. Shape(q) /\ Kinds(q)
  BY DEF Sound
<1>1. Load(q, items, startAt) =
        CASE Len(items) = 0 -> {empty}
          [] Len(items) > 0 /\ q.shuffle -> ReshuffleKeeping(seated, start)
          [] OTHER -> {seated}
  BY DEF Load
<1>2. kept \in Seq(Items) /\ Len(kept) = Len(Waiting(q))
  <2>1. PICK inOrder, waits : Stands(q, inOrder, waits)
    BY DEF Sound
  <2>2. q.next \in Seq(waits)
    BY <2>1, ListsOfASoundQueue
  <2>3. Waiting(q) \in Seq(waits)
    BY <2>2, WaitingIs
  <2>4. \A r \in waits : r.item \in Items
    BY <1>0, <2>1, RowsHavePlaces
  <2>5. PICK n \in Nat : n = Len(Waiting(q)) /\ DOMAIN Waiting(q) = 1..n
    BY <2>3
  <2>6. \A i \in 1..n : Waiting(q)[i] \in waits
    BY <2>3, <2>5, ElementOfSeq
  <2>7. kept \in [1..n -> Items]
    BY <2>4, <2>5, <2>6
  <2> QED BY <2>5, <2>7
<1>3. PICK count \in Nat, waiting \in Nat : count = Len(items) /\ waiting = Len(kept)
  <2> HIDE DEF kept
  <2>1. Len(kept) \in Nat /\ Len(items) \in Nat
    BY <1>2
  <2> QED BY <2>1
<1>4. count + waiting <= MaxPlaces /\ count + waiting \in 0..MaxPlaces
  BY <1>2, <1>3, QueueAssumption
<1>5. PICK inOrder : inOrder = ToSet(order)
  OBVIOUS
<1>6. /\ Lists(order, inOrder) /\ Len(order) = count
      /\ inOrder \in SUBSET GivenOut(count) /\ Apart(inOrder)
      /\ \A i \in 1..count : order[i].place = i - 1
  <2>1. DOMAIN items = 1..count
    BY <1>3
  <2>2. \A i \in 1..count : 0 + i - 1 = i - 1
    OBVIOUS
  <2>3. order = [i \in DOMAIN items |-> At(0 + i - 1, items[i])]
    BY <1>3, <2>1, <2>2
  <2> HIDE DEF order
  <2>4. PICK zero \in Nat : zero = 0
    OBVIOUS
  <2>5. ArePlaced(order, zero, items)
    BY <2>3, <2>4 DEF ArePlaced
  <2>6. /\ Lists(order, ToSet(order)) /\ Len(order) = Len(items)
        /\ ToSet(order) \in SUBSET GivenOut(zero + Len(items))
        /\ Apart(ToSet(order))
        /\ \A i \in 1..Len(items) : order[i].place = zero + i - 1
    BY <2>5, GivenPlaces
  <2>7. zero + Len(items) = count
    BY <1>3, <2>4
  <2>8. \A i \in 1..count : zero + i - 1 = i - 1
    BY <2>4
  <2> QED BY <1>3, <1>5, <2>6, <2>7, <2>8
<1>7. PICK waits : waits = ToSet(next)
  OBVIOUS
<1>8. /\ Lists(next, waits) /\ Len(next) = waiting /\ waits \in SUBSET GivenOut(count + waiting)
      /\ Apart(waits) /\ PlacedFrom(waits, count)
  <2> HIDE DEF kept
  <2>1. ArePlaced(next, count, kept)
    BY <1>3 DEF ArePlaced
  <2> HIDE DEF next
  <2>2. /\ Lists(next, ToSet(next)) /\ Len(next) = Len(kept)
        /\ ToSet(next) \in SUBSET GivenOut(count + Len(kept))
        /\ Apart(ToSet(next)) /\ PlacedFrom(ToSet(next), count)
    BY <1>2, <2>1, GivenPlaces
  <2> QED BY <1>3, <1>7, <2>2
<1>9. /\ Shape(given) /\ given.places = count + waiting /\ given.order = order
      /\ given.next = next /\ given.unshuffled = (IF q.shuffle THEN order ELSE <<>>)
      /\ given.after = q.after /\ given.seat = q.seat /\ given.repeat = q.repeat
      /\ given.shuffle = q.shuffle
  <2> HIDE DEF order, next, kept
  <2> QED BY <1>0, <1>3 DEF Shape, Fields
<1> HIDE DEF given, order, next, kept
<1>10. /\ inOrder \cap waits = {} /\ Apart(inOrder \cup waits)
       /\ inOrder \cup waits \in SUBSET GivenOut(count + waiting)
  <2>1. \A r \in inOrder : r.place \in 0..(count - 1)
    BY <1>6 DEF GivenOut
  <2>2. \A n \in 0..(count - 1) : n < count /\ n \in 0..(count + waiting - 1)
    OBVIOUS
  <2>3. \A r \in inOrder : \A t \in waits : r.place # t.place
    BY <1>8, <2>1, <2>2 DEF PlacedFrom
  <2>4. GivenOut(count) \in SUBSET GivenOut(count + waiting)
    BY <2>2 DEF GivenOut
  <2>5. Apart(inOrder \cup waits)
    BY <1>6, <1>8, <2>3 DEF Apart
  <2>6. inOrder \cap waits = {}
    BY <2>3
  <2> QED BY <1>6, <1>8, <2>4, <2>5, <2>6
<1>11. PICK r : r = loaded
  OBVIOUS
<1>12. /\ Shape(r) /\ r.order = order /\ r.next = next
       /\ r.unshuffled = (IF q.shuffle THEN order ELSE <<>>)
       /\ r.places = count + waiting /\ r.after = q.after /\ r.seat = q.seat
       /\ r.repeat = q.repeat /\ r.shuffle = q.shuffle
       /\ r.playingFrom = Marked(inOrder) /\ r.stamp = Marked(inOrder \cup waits) /\ r.revised
  <2>0. PICK g : g = given
    OBVIOUS
  <2>1. Lists(g.order, inOrder) /\ Lists(g.next, waits)
    BY <1>6, <1>8, <1>9, <2>0
  <2>2. r = Revised(StampAfresh(g))
    BY <1>11, <2>0
  <2>3. /\ Shape(r) /\ r.order = g.order /\ r.next = g.next
        /\ r.unshuffled = g.unshuffled
        /\ r.places = g.places /\ r.after = g.after /\ r.seat = g.seat
        /\ r.repeat = g.repeat /\ r.shuffle = g.shuffle
        /\ r.playingFrom = Marked(inOrder) /\ r.stamp = Marked(inOrder \cup waits) /\ r.revised
    <3>1. Shape(g) /\ Filled(g, inOrder, waits)
      BY <1>9, <1>10, <2>0, <2>1 DEF Filled
    <3> QED BY <2>2, <3>1, StampedAfresh
  <2> QED BY <1>9, <2>0, <2>3
<1>13. Stands(r, inOrder, waits)
  BY <1>6, <1>8, <1>10, <1>12 DEF Stands
<1>14. Kinds(r)
  BY <1>0, <1>4, <1>12 DEF Kinds
<1>15. CASE count = 0
  <2>1. p = Reseated(r, 0, IF next = <<>> THEN "nowhere" ELSE "next")
    BY <1>1, <1>3, <1>11, <1>15 DEF Reseated
  <2>2. PICK after \in Nat, seat \in Seats :
          after = 0 /\ seat = IF next = <<>> THEN "nowhere" ELSE "next"
    BY DEF Seats
  <2>3. p = Reseated(r, after, seat)
    BY <2>1, <2>2
  <2>4. /\ Shape(p) /\ Kinds(p) /\ Stands(p, inOrder, waits)
        /\ p.order = r.order /\ p.next = r.next /\ p.after = after /\ p.seat = seat
        /\ p.revised = r.revised
    <3>1. Shape(r)
      BY <1>12
    <3> QED BY <1>13, <1>14, <2>3, <3>1, AfterMoved
  <2>5. Seated(p)
    BY <1>6, <1>12, <1>15, <2>2, <2>4 DEF Seated
  <2> QED BY <1>12, <2>4, <2>5 DEF Sound, Seen
<1>16. CASE count > 0
  <2>1. PICK s \in Nat : s = start /\ s + 1 <= count
    <3>1. startAt \in Nat /\ Len(items) = count
      BY <1>3
    <3>2. Least(startAt, count - 1) \in Nat /\ Least(startAt, count - 1) + 1 <= count
      BY <1>16 DEF Least
    <3> QED BY <3>1, <3>2
  <2>2. PICK after \in Nat : after = s + 1
    OBVIOUS
  <2>3. PICK sat : sat = seated
    OBVIOUS
  <2>4. sat = Reseated(r, after, "in_order") /\ "in_order" \in Seats
    BY <1>11, <2>1, <2>2, <2>3 DEF Reseated, Seats
  <2>5. /\ Shape(sat) /\ Kinds(sat) /\ Stands(sat, inOrder, waits)
        /\ sat.order = r.order /\ sat.next = r.next /\ sat.after = after
        /\ sat.seat = "in_order" /\ sat.revised = r.revised
    <3>1. Shape(r)
      BY <1>12
    <3> QED BY <1>13, <1>14, <2>4, <3>1, AfterMoved
  <2>6. CASE q.shuffle
    <3>1. p \in ReshuffleKeeping(sat, s)
      <4>1. ~(Len(items) = 0) /\ Len(items) > 0
        BY <1>3, <1>16
      <4> QED BY <1>1, <2>1, <2>3, <2>6, <4>1
    <3>2. /\ Shape(p) /\ Kinds(p) /\ Stands(p, inOrder, waits) /\ p.revised
          /\ Len(p.order) = Len(sat.order) /\ p.next = sat.next /\ p.after = 1
          /\ p.seat = sat.seat
      BY <2>5, <3>1, ReshuffleKeepingStands
    <3>3. Seated(p)
      BY <1>6, <1>12, <1>16, <2>5, <3>2 DEF Seated
    <3> QED BY <3>2, <3>3 DEF Sound, Seen
  <2>7. CASE ~q.shuffle
    <3>1. p = sat
      <4>1. ~(Len(items) = 0)
        BY <1>3, <1>16
      <4> QED BY <1>1, <2>3, <2>7, <4>1
    <3>2. Seated(p)
      BY <1>6, <1>12, <2>1, <2>2, <2>5, <3>1 DEF Seated
    <3> QED BY <1>12, <2>5, <3>1, <3>2 DEF Sound, Seen
  <2> QED BY <2>6, <2>7
<1> QED BY <1>15, <1>16

\* What is left of a list, and what is taken out of it, where a span of it is.
CutIn(set, list, from, past, rest, between) ==
  /\ Lists(rest, ToSet(rest)) /\ Lists(between, ToSet(between))
  /\ ToSet(rest) \cap ToSet(between) = {} /\ ToSet(rest) \cup ToSet(between) = set
  /\ Len(rest) = Len(list) - (past - from) /\ Len(between) = past - from

\* A list cut in three: what is before, what lies between and what follows.
LEMMA CutInThree ==
  ASSUME NEW set, NEW list, Lists(list, set), NEW from \in Nat, NEW past \in Nat,
         from <= past, past <= Len(list),
         NEW rest, rest = First(list, from) \o Past(list, past),
         NEW between, between = SubSeq(list, from + 1, past)
  PROVE  CutIn(set, list, from, past, rest, between)
<1>0. PICK l \in Nat : l = Len(list) /\ list \in Seq(set)
  BY DEF Lists
<1>1. PICK begin, end, front : begin = First(list, past) /\ end = Past(list, past)
                               /\ front = First(list, from)
  OBVIOUS
<1>2. /\ begin \in Seq(set) /\ Len(begin) = past /\ Len(end) = l - past
  BY <1>0, <1>1, CutInTwo
<1>3. /\ Lists(begin, ToSet(begin)) /\ Lists(end, ToSet(end))
      /\ ToSet(begin) \cup ToSet(end) = set /\ ToSet(begin) \cap ToSet(end) = {}
  BY <1>1, CutLists
<1>4. begin = SubSeq(list, 1, past)
  <2>1. Least(past, l) = past
    BY <1>0, LeastIs
  <2> QED BY <1>0, <1>1, <2>1 DEF First
<1>5. First(begin, from) = front
  <2>1. Least(from, past) = from /\ Least(from, l) = from
    <3>1. from \in Int /\ past \in Int /\ l \in Int /\ from <= past /\ from <= l
      BY <1>0
    <3>2. Least(from, past) = from
      BY <3>1, LeastIs
    <3>3. Least(from, l) = from
      BY <3>1, LeastIs
    <3> QED BY <3>2, <3>3
  <2>2. SubSeq(begin, 1, from) = SubSeq(list, 1, from)
    <3>1. begin = SubSeq(list, 1, past) /\ past <= l
      BY <1>0, <1>4
    <3>2. SubSeq(SubSeq(list, 1, past), 1, from) = SubSeq(list, 1, from)
      BY <1>0, <3>1
    <3> QED BY <3>1, <3>2
  <2> QED BY <1>0, <1>1, <1>2, <2>1, <2>2 DEF First
<1>6. Past(begin, from) = between
  <2>1. SubSeq(SubSeq(list, 1, past), from + 1, past) = SubSeq(list, from + 1, past)
    BY <1>0
  <2> QED BY <1>2, <1>4, <2>1 DEF Past
<1>7. /\ Lists(front, ToSet(front)) /\ Lists(between, ToSet(between))
      /\ ToSet(front) \cup ToSet(between) = ToSet(begin)
      /\ ToSet(front) \cap ToSet(between) = {}
  <2>1. /\ Lists(First(begin, from), ToSet(First(begin, from)))
        /\ Lists(Past(begin, from), ToSet(Past(begin, from)))
        /\ ToSet(First(begin, from)) \cup ToSet(Past(begin, from)) = ToSet(begin)
        /\ ToSet(First(begin, from)) \cap ToSet(Past(begin, from)) = {}
    BY <1>3, CutLists
  <2> QED BY <1>5, <1>6, <2>1
<1>8. Len(front) = from /\ Len(between) = past - from
  <2>1. /\ Len(First(begin, from)) = from /\ Len(Past(begin, from)) = Len(begin) - from
    BY <1>2, CutInTwo
  <2> QED BY <1>2, <1>5, <1>6, <2>1
<1>9. ToSet(front) \cap ToSet(end) = {}
  BY <1>3, <1>7
<1>10. /\ Lists(rest, ToSet(front) \cup ToSet(end)) /\ Len(rest) = Len(front) + Len(end)
  <2>1. rest = front \o end
    BY <1>1
  <2>2. Lists(front, ToSet(front)) /\ Lists(end, ToSet(end))
    BY <1>3, <1>7
  <2> QED BY <1>9, <2>1, <2>2, JoinedLists
<1>11. ToSet(rest) = ToSet(front) \cup ToSet(end)
  BY <1>10, ListIsAList
<1>12. Len(rest) = l - (past - from)
  BY <1>0, <1>2, <1>8, <1>10
<1> QED BY <1>0, <1>3, <1>7, <1>8, <1>10, <1>11, <1>12 DEF CutIn

\* The rows some numbers name, in the order of the numbers.
Named(rows, numbers) == {rows[n + 1] : n \in numbers}
AreNamed(named, rows, list) == named = [i \in DOMAIN list |-> rows[list[i] + 1]]

LEMMA NamedLists ==
  ASSUME NEW set, NEW rows, Lists(rows, set),
         NEW numbers \in SUBSET (0..(Len(rows) - 1)), NEW list, Lists(list, numbers),
         NEW named, AreNamed(named, rows, list)
  PROVE  /\ Lists(named, Named(rows, numbers)) /\ Len(named) = Len(list)
         /\ Named(rows, numbers) \in SUBSET set
<1>0. PICK count \in Nat : count = Len(rows) /\ rows \in Seq(set)
  BY DEF Lists
<1>1. \A i, j \in 1..count : rows[i] = rows[j] => i = j
  BY <1>0 DEF Lists
<1>2. \A i \in 1..count : rows[i] \in set
  BY <1>0, ElementOfSeq
<1>3. PICK l \in Nat : l = Len(list) /\ DOMAIN list = 1..l
  BY DEF Lists
<1>4. \A i \in 1..l : list[i] \in numbers
  BY <1>3, ElementOfSeq DEF Lists
<1>5. \A n \in numbers : n \in Int /\ n + 1 \in 1..count
  <2>1. \A n \in 0..(count - 1) : n \in Int /\ n + 1 \in 1..count
    OBVIOUS
  <2> QED BY <1>0, <2>1
<1> DEFINE rowSet == {rows[n + 1] : n \in numbers}
<1>6. rowSet \in SUBSET set
  BY <1>2, <1>5
<1>7. named = [i \in 1..l |-> rows[list[i] + 1]] /\ \A i \in 1..l : rows[list[i] + 1] \in rowSet
  BY <1>3, <1>4 DEF AreNamed
<1>8. named \in Seq(rowSet) /\ Len(named) = l
  <2> HIDE DEF rowSet
  <2>1. named \in [1..l -> rowSet]
    BY <1>7
  <2> QED BY <2>1
<1>9. ASSUME NEW x \in rowSet PROVE \E i \in 1..l : named[i] = x
  <2>1. PICK n \in numbers : x = rows[n + 1]
    BY <1>9
  <2>2. PICK i \in 1..l : list[i] = n
    BY <1>3, <2>1 DEF Lists
  <2> QED BY <1>7, <2>1, <2>2
<1>10. ASSUME NEW i \in 1..l, NEW j \in 1..l, named[i] = named[j] PROVE i = j
  <2>1. PICK m \in Int, n \in Int : m = list[i] /\ n = list[j]
    BY <1>4, <1>5
  <2>2. m + 1 \in 1..count /\ n + 1 \in 1..count
    BY <1>4, <1>5, <2>1
  <2>3. rows[m + 1] = rows[n + 1]
    BY <1>7, <1>10, <2>1
  <2>4. m + 1 = n + 1
    BY <1>1, <2>2, <2>3
  <2>5. m = n
    BY <2>4
  <2> QED BY <1>3, <2>1, <2>5 DEF Lists
<1> QED BY <1>3, <1>6, <1>8, <1>9, <1>10 DEF Lists, Named

\* The order a queue resumed plays its rows in: the one named, or the rows' own.
LEMMA NumbersDrawn ==
  ASSUME NEW count \in Nat, NEW named,
         NEW drawn, drawn = IF named \in SetToSeqs(0..(count - 1)) THEN named
                            ELSE [i \in 1..count |-> i - 1]
  PROVE  Lists(drawn, 0..(count - 1)) /\ Len(drawn) = count
<1> DEFINE own == [i \in 1..count |-> i - 1]
           numbers == 0..(count - 1)
<1>1. Lists(own, numbers) /\ Len(own) = count
  <2>1. \A i \in 1..count : i - 1 \in numbers
    OBVIOUS
  <2>2. own \in Seq(numbers) /\ Len(own) = count
    <3>1. own \in [1..count -> numbers]
      BY <2>1
    <3> HIDE DEF own
    <3> QED BY <3>1
  <2>3. \A n \in numbers : n + 1 \in 1..count /\ (n + 1) - 1 = n
    OBVIOUS
  <2>4. \A n \in numbers : \E i \in 1..count : own[i] = n
    BY <2>3
  <2>5. \A i, j \in 1..count : own[i] = own[j] => i = j
    OBVIOUS
  <2> HIDE DEF own, numbers
  <2> QED BY <2>2, <2>4, <2>5 DEF Lists
<1> HIDE DEF own, numbers
<1>2. CASE named \in SetToSeqs(numbers)
  <2>1. ToSet(own) = numbers
    BY <1>1, ListIsAList
  <2>2. named \in Orders(own)
    BY <1>2, <2>1 DEF Orders
  <2>3. Lists(named, numbers) /\ Len(named) = Len(own)
    BY <1>1, <2>2, OrdersList
  <2> QED BY <1>1, <1>2, <2>3 DEF numbers
<1>3. CASE named \notin SetToSeqs(numbers)
  BY <1>1, <1>3 DEF numbers, own
<1> QED BY <1>2, <1>3

\* The rows whose places some numbers are, where a row's place is where it stands.
LEMMA OnlyNamed ==
  ASSUME NEW set, NEW rows, Lists(rows, set), \A i \in 1..Len(rows) : rows[i].place = i - 1,
         NEW numbers \in SUBSET (0..(Len(rows) - 1))
  PROVE  Lists(Only(rows, numbers), Named(rows, numbers))
<1>0. PICK count \in Nat : count = Len(rows) /\ rows \in Seq(set)
  BY DEF Lists
<1>1. \A i \in 1..count : rows[i] \in set
  BY <1>0, ElementOfSeq
<1>2. \A n \in 0..(count - 1) : n + 1 \in 1..count /\ (n + 1) - 1 = n
  OBVIOUS
<1>3. \A r \in set : \E i \in 1..count : r = rows[i]
  BY <1>0 DEF Lists
<1>4. \A i \in 1..count : (i - 1) + 1 = i
  OBVIOUS
<1>5. Of(set, numbers) = Named(rows, numbers)
  <2>1. ASSUME NEW r \in set, r.place \in numbers PROVE \E n \in numbers : r = rows[n + 1]
    <3>1. PICK i \in 1..count : r = rows[i]
      BY <1>3
    <3>2. i - 1 \in numbers /\ rows[(i - 1) + 1] = rows[i]
      BY <1>0, <1>4, <2>1, <3>1
    <3> QED BY <3>1, <3>2
  <2>2. ASSUME NEW n \in numbers PROVE rows[n + 1] \in set /\ rows[n + 1].place \in numbers
    <3>1. n + 1 \in 1..count /\ (n + 1) - 1 = n
      BY <1>0, <1>2
    <3>2. rows[n + 1].place = (n + 1) - 1
      BY <1>0, <3>1
    <3> QED BY <1>1, <3>1, <3>2
  <2> QED BY <2>1, <2>2 DEF Of, Named
<1>6. Lists(Only(rows, numbers), Of(set, numbers))
  BY OnlyOf
<1> QED BY <1>5, <1>6

\* How the numbers are split where a span of them is to be played next, and the seat.
IsASpan(count, row, within, from, past, heardNext) ==
  /\ count > 0 => row < count
  /\ within => from \in Nat /\ past \in Nat /\ from < past /\ past <= count
  /\ heardNext <=> within /\ row \in from..(past - 1)

AreSplit(drawn, within, from, past, plays, waits) ==
  /\ plays = IF within THEN First(drawn, from) \o Past(drawn, past) ELSE drawn
  /\ waits = IF within THEN SubSeq(drawn, from + 1, past) ELSE <<>>

WaitsFrom(heardNext, row, from) == IF heardNext THEN row ELSE from

IsTheSeat(after, count, row, within, past, heardNext, waits) ==
  after = CASE count = 0 -> 0
            [] count > 0 /\ heardNext -> row
            [] count > 0 /\ within /\ ~heardNext /\ row >= past -> row - Len(waits) + 1
            [] OTHER -> row + 1

LEMMA SpanIsPlayedNext ==
  ASSUME NEW count \in Nat, NEW row \in Nat, NEW within \in BOOLEAN, NEW from, NEW past,
         NEW heardNext \in BOOLEAN, IsASpan(count, row, within, from, past, heardNext),
         NEW drawn, Lists(drawn, 0..(count - 1)), Len(drawn) = count, NEW plays, NEW waits,
         AreSplit(drawn, within, WaitsFrom(heardNext, row, from), past, plays, waits),
         NEW after, IsTheSeat(after, count, row, within, past, heardNext, waits)
  PROVE  /\ Lists(plays, ToSet(plays)) /\ Lists(waits, ToSet(waits))
         /\ ToSet(plays) \cap ToSet(waits) = {}
         /\ ToSet(plays) \in SUBSET (0..(count - 1)) /\ ToSet(waits) \in SUBSET (0..(count - 1))
         /\ after \in Nat /\ after <= Len(plays)
         /\ heardNext /\ count > 0 => Len(waits) > 0
         /\ count > 0 /\ ~heardNext => after > 0
         /\ count = 0 => Len(waits) = 0 /\ Len(plays) = 0 /\ after = 0
<1>1. PICK waitsFrom : waitsFrom = IF heardNext THEN row ELSE from
  OBVIOUS
<1>2. /\ count > 0 => row < count
      /\ within => from \in Nat /\ past \in Nat /\ from < past /\ past <= count
      /\ heardNext <=> within /\ row \in from..(past - 1)
  BY DEF IsASpan
<1>3. /\ plays = IF within THEN First(drawn, waitsFrom) \o Past(drawn, past) ELSE drawn
      /\ waits = IF within THEN SubSeq(drawn, waitsFrom + 1, past) ELSE <<>>
  BY <1>1 DEF AreSplit, WaitsFrom
<1>4. CASE within
  <2>1. PICK f \in Nat, p \in Nat, w \in Nat :
          f = from /\ p = past /\ w = waitsFrom /\ f < p /\ p <= count /\ f <= w /\ w < p
    BY <1>1, <1>2, <1>4
  <2>2. plays = First(drawn, w) \o Past(drawn, p) /\ waits = SubSeq(drawn, w + 1, p)
    BY <1>3, <1>4, <2>1
  <2>3. /\ Lists(plays, ToSet(plays)) /\ Lists(waits, ToSet(waits))
        /\ ToSet(plays) \cap ToSet(waits) = {} /\ ToSet(plays) \cup ToSet(waits) = 0..(count - 1)
        /\ Len(plays) = count - (p - w) /\ Len(waits) = p - w
    <3>1. w <= p /\ p <= Len(drawn)
      BY <2>1
    <3>2. PICK numbers : numbers = 0..(count - 1)
      OBVIOUS
    <3>3. Lists(drawn, numbers)
      BY <3>2
    <3>4. CutIn(numbers, drawn, w, p, plays, waits)
      BY <2>2, <3>1, <3>3, CutInThree
    <3> QED BY <3>2, <3>4 DEF CutIn
  <2>4. after \in Nat /\ after <= count - (p - w) /\ (~heardNext => after > 0)
    <3>1. count > 0 /\ ~(count = 0)
      BY <2>1
    <3>2. CASE heardNext
      <4>1. w = row
        BY <1>1, <2>1, <3>2
      <4>2. after = row
        BY <3>1, <3>2 DEF IsTheSeat
      <4> QED BY <2>1, <3>2, <4>1, <4>2
    <3>3. CASE ~heardNext /\ row >= past
      <4>1. w = f /\ row < count /\ row >= p
        BY <1>1, <1>2, <2>1, <3>1, <3>3
      <4>2. after = row - Len(waits) + 1
        BY <1>4, <3>1, <3>3 DEF IsTheSeat
      <4>3. after = row - (p - w) + 1
        BY <2>3, <4>2
      <4> QED BY <2>1, <4>1, <4>3
    <3>4. CASE ~heardNext /\ ~(row >= past)
      <4>1. w = f /\ row < f
        BY <1>1, <1>2, <1>4, <2>1, <3>4
      <4>2. after = row + 1
        BY <3>1, <3>4 DEF IsTheSeat
      <4> QED BY <2>1, <4>1, <4>2
    <3> QED BY <3>2, <3>3, <3>4
  <2>5. ToSet(plays) \in SUBSET (0..(count - 1)) /\ ToSet(waits) \in SUBSET (0..(count - 1))
    BY <2>3
  <2>6. Len(waits) > 0 /\ ~(count = 0)
    BY <2>1, <2>3
  <2>7. after <= Len(plays)
    BY <2>3, <2>4
  <2> QED BY <2>3, <2>4, <2>5, <2>6, <2>7
<1>5. CASE ~within
  <2>1. plays = drawn /\ waits = <<>> /\ ~heardNext
    BY <1>2, <1>3, <1>5
  <2>2. /\ ToSet(drawn) = 0..(count - 1) /\ ToSet(<<>>) = {} /\ Lists(<<>>, {})
    <3>1. ToSet(drawn) = 0..(count - 1)
      BY ListIsAList
    <3>2. Lists(<<>>, {})
      BY EmptyLists
    <3>3. ToSet(<<>>) = {}
      BY <3>2, ListIsAList
    <3> QED BY <3>1, <3>2, <3>3
  <2>3. after = (IF count = 0 THEN 0 ELSE row + 1)
    <3>1. CASE count = 0
      BY <3>1 DEF IsTheSeat
    <3>2. CASE count > 0
      <4>1. ~(count = 0)
        BY <3>2
      <4> QED BY <1>5, <2>1, <3>2, <4>1 DEF IsTheSeat
    <3> QED BY <3>1, <3>2
  <2>4. after \in Nat /\ after <= count /\ (count > 0 => after > 0)
    BY <1>2, <2>3
  <2>5. Len(waits) = 0 /\ Len(plays) = count
    BY <2>1
  <2> QED BY <2>1, <2>2, <2>3, <2>4, <2>5
<1> QED BY <1>4, <1>5

\* A queue resumed is sound, whatever was kept of it.
LEMMA RestoreKeeps ==
  ASSUME NEW q, Sound(q), NEW resumption,
         resumption.rows \in Seq(Items), Len(resumption.rows) <= MaxPlaces,
         resumption.row \in Nat, resumption.shuffle \in BOOLEAN,
         \/ resumption.next = <<>>
         \/ /\ resumption.next[1] \in Nat /\ resumption.next[2] \in Nat
            /\ resumption.next[1] <= resumption.next[2],
         NEW p, p = Restore(q, resumption)
  PROVE  Sound(p) /\ Seated(p) /\ Seen(q, p)
<1> DEFINE length == Len(resumption.rows)
           stood == [i \in 1..length |-> At(i - 1, resumption.rows[i])]
           named == resumption.order
           sorted == IF named \in SetToSeqs(0..(length - 1)) THEN named
                     ELSE [i \in 1..length |-> i - 1]
           at == Least(resumption.row, IF length = 0 THEN 0 ELSE length - 1)
           inside == resumption.next # <<>> /\ resumption.next[2] < length
           begin == resumption.next[1]
           end == resumption.next[2] + 1
           hearsNext == inside /\ at \in begin..(end - 1)
           waitFrom == IF hearsNext THEN at ELSE begin
           playing == IF inside THEN First(sorted, waitFrom) \o Past(sorted, end) ELSE sorted
           waiting == IF inside THEN SubSeq(sorted, waitFrom + 1, end) ELSE <<>>
           follows == CASE length = 0 -> 0
                        [] length > 0 /\ hearsNext -> at
                        [] length > 0 /\ inside /\ ~hearsNext /\ at >= end ->
                             at - Len(waiting) + 1
                        [] OTHER -> at + 1
           of(loaded) == [i \in DOMAIN loaded |-> stood[loaded[i] + 1]]
           given == [q EXCEPT
             !.places = length,
             !.shuffle = resumption.shuffle,
             !.order = of(playing),
             !.next = of(waiting),
             !.unshuffled = IF resumption.shuffle THEN Only(stood, ToSet(playing)) ELSE <<>>,
             !.after = follows,
             !.seat = CASE length = 0 -> "nowhere" [] length > 0 /\ hearsNext -> "next"
                        [] OTHER -> "in_order"]
<1>0. Shape(q) /\ Kinds(q)
  BY DEF Sound
<1>1. p = Revised(StampAfresh(given))
  BY DEF Restore
<1>2. PICK count \in Nat : count = length /\ count <= MaxPlaces /\ count \in 0..MaxPlaces
  BY QueueAssumption
<1>3. PICK rows : rows = stood
  OBVIOUS
<1>4. PICK set : set = ToSet(rows)
  OBVIOUS
<1>5. /\ Lists(rows, set) /\ Len(rows) = count /\ set \in SUBSET GivenOut(count) /\ Apart(set)
      /\ \A i \in 1..count : rows[i].place = i - 1
  <2>1. PICK zero \in Nat : zero = 0
    OBVIOUS
  <2>2. \A i \in 1..count : zero + i - 1 = i - 1
    BY <2>1
  <2>3. DOMAIN resumption.rows = 1..count
    BY <1>2
  <2>4. rows = [i \in DOMAIN resumption.rows |-> At(zero + i - 1, resumption.rows[i])]
    BY <1>2, <1>3, <2>2, <2>3
  <2>5. PICK items \in Seq(Items) : items = resumption.rows
    OBVIOUS
  <2>6. ArePlaced(rows, zero, items)
    BY <2>4, <2>5 DEF ArePlaced
  <2>7. /\ Lists(rows, ToSet(rows)) /\ Len(rows) = Len(items)
        /\ ToSet(rows) \in SUBSET GivenOut(zero + Len(items)) /\ Apart(ToSet(rows))
        /\ \A i \in 1..Len(items) : rows[i].place = zero + i - 1
    BY <2>6, GivenPlaces
  <2>8. zero + Len(items) = count /\ Len(items) = count
    BY <1>2, <2>1, <2>5
  <2> QED BY <1>4, <2>2, <2>7, <2>8
<1> HIDE DEF stood
<1>6. PICK drawn : drawn = sorted
  OBVIOUS
<1>7. Lists(drawn, 0..(count - 1)) /\ Len(drawn) = count
  <2>1. drawn = IF named \in SetToSeqs(0..(count - 1)) THEN named
                ELSE [i \in 1..count |-> i - 1]
    BY <1>2, <1>6
  <2> QED BY <2>1, NumbersDrawn
<1> HIDE DEF sorted
<1>8. PICK row \in Nat : row = at /\ (count > 0 => row < count)
  <2>1. resumption.row \in Int /\ (IF count = 0 THEN 0 ELSE count - 1) \in Nat
    OBVIOUS
  <2>2. at \in Nat /\ at <= (IF count = 0 THEN 0 ELSE count - 1)
    <3>1. PICK a \in Nat : a = resumption.row
      OBVIOUS
    <3>2. PICK b \in Nat : b = IF count = 0 THEN 0 ELSE count - 1
      OBVIOUS
    <3>3. at = Least(a, b)
      BY <1>2, <3>1, <3>2
    <3>4. Least(a, b) \in Nat /\ Least(a, b) <= b
      BY DEF Least
    <3> QED BY <3>2, <3>3, <3>4
  <2> QED BY <2>2
<1> HIDE DEF at
<1>9. PICK within \in BOOLEAN : within = inside
  OBVIOUS
<1>10. PICK from, past : from = begin /\ past = end
  OBVIOUS
<1>11. within => from \in Nat /\ past \in Nat /\ from < past /\ past <= count
  <2>1. SUFFICES ASSUME within
                 PROVE  from \in Nat /\ past \in Nat /\ from < past /\ past <= count
    OBVIOUS
  <2>2. PICK a \in Nat, b \in Nat :
          a = resumption.next[1] /\ b = resumption.next[2] /\ a <= b /\ b < count
    BY <1>2, <1>9, <2>1
  <2> QED BY <1>10, <2>2
<1> HIDE DEF inside, begin, end
<1>12. PICK heardNext \in BOOLEAN : heardNext = hearsNext
  OBVIOUS
<1>13. heardNext <=> within /\ row \in from..(past - 1)
  BY <1>8, <1>9, <1>10, <1>12
<1> HIDE DEF hearsNext
<1>14. PICK waitsFrom : waitsFrom = WaitsFrom(heardNext, row, from)
  OBVIOUS
<1>15. waitsFrom = waitFrom
  BY <1>8, <1>10, <1>12, <1>14 DEF WaitsFrom
<1> HIDE DEF waitFrom
<1>16. PICK plays, waits : plays = playing /\ waits = waiting
  OBVIOUS
<1>17. AreSplit(drawn, within, waitsFrom, past, plays, waits)
  BY <1>6, <1>9, <1>10, <1>15, <1>16 DEF AreSplit
<1> HIDE DEF playing, waiting
<1>18. PICK after : after = follows
  OBVIOUS
<1>19. IsTheSeat(after, count, row, within, past, heardNext, waits)
  BY <1>2, <1>8, <1>9, <1>10, <1>12, <1>16, <1>18 DEF IsTheSeat
<1> HIDE DEF follows
<1>20. /\ Lists(plays, ToSet(plays)) /\ Lists(waits, ToSet(waits))
       /\ ToSet(plays) \cap ToSet(waits) = {}
       /\ ToSet(plays) \in SUBSET (0..(count - 1))
       /\ ToSet(waits) \in SUBSET (0..(count - 1))
       /\ after \in Nat /\ after <= Len(plays)
       /\ heardNext /\ count > 0 => Len(waits) > 0
       /\ count > 0 /\ ~heardNext => after > 0
       /\ count = 0 => Len(waits) = 0 /\ Len(plays) = 0 /\ after = 0
  <2>1. IsASpan(count, row, within, from, past, heardNext)
    BY <1>8, <1>11, <1>13 DEF IsASpan
  <2> QED BY <1>7, <1>14, <1>17, <1>19, <2>1, SpanIsPlayedNext
<1>21. PICK playNumbers, waitNumbers : playNumbers = ToSet(plays) /\ waitNumbers = ToSet(waits)
  OBVIOUS
<1>22. PICK inOrder, next : /\ inOrder = Named(rows, playNumbers)
                            /\ next = Named(rows, waitNumbers)
  OBVIOUS
<1>23. PICK ordered, queued : /\ ordered = [i \in DOMAIN plays |-> rows[plays[i] + 1]]
                              /\ queued = [i \in DOMAIN waits |-> rows[waits[i] + 1]]
  OBVIOUS
<1>24. Lists(ordered, inOrder) /\ Len(ordered) = Len(plays) /\ inOrder \in SUBSET set
  <2>1. /\ playNumbers \in SUBSET (0..(Len(rows) - 1)) /\ Lists(plays, playNumbers)
        /\ AreNamed(ordered, rows, plays)
    BY <1>5, <1>20, <1>21, <1>23 DEF AreNamed
  <2>2. /\ Lists(ordered, Named(rows, playNumbers)) /\ Len(ordered) = Len(plays)
        /\ Named(rows, playNumbers) \in SUBSET set
    BY <1>5, <2>1, NamedLists
  <2> QED BY <1>22, <2>2
<1>25. Lists(queued, next) /\ Len(queued) = Len(waits) /\ next \in SUBSET set
  <2>1. /\ waitNumbers \in SUBSET (0..(Len(rows) - 1)) /\ Lists(waits, waitNumbers)
        /\ AreNamed(queued, rows, waits)
    BY <1>5, <1>20, <1>21, <1>23 DEF AreNamed
  <2>2. /\ Lists(queued, Named(rows, waitNumbers)) /\ Len(queued) = Len(waits)
        /\ Named(rows, waitNumbers) \in SUBSET set
    BY <1>5, <2>1, NamedLists
  <2> QED BY <1>22, <2>2
<1>26. inOrder \cap next = {}
  <2>1. ASSUME NEW n \in playNumbers, NEW m \in waitNumbers, rows[n + 1] = rows[m + 1]
        PROVE  FALSE
    <3>1. n \in 0..(count - 1) /\ m \in 0..(count - 1) /\ n # m
      BY <1>20, <1>21
    <3>2. n + 1 \in 1..count /\ m + 1 \in 1..count /\ (n + 1) - 1 = n /\ (m + 1) - 1 = m
      BY <3>1
    <3>3. rows[n + 1].place = (n + 1) - 1 /\ rows[m + 1].place = (m + 1) - 1
      BY <1>5, <3>2
    <3> QED BY <2>1, <3>1, <3>2, <3>3
  <2> QED BY <1>22, <2>1 DEF Named
<1>27. Apart(inOrder \cup next) /\ inOrder \cup next \in SUBSET GivenOut(count)
  BY <1>5, <1>24, <1>25 DEF Apart
<1>28. PICK standing : standing = Only(rows, playNumbers)
  OBVIOUS
<1>29. Lists(standing, inOrder)
  <2>1. /\ playNumbers \in SUBSET (0..(Len(rows) - 1))
        /\ \A i \in 1..Len(rows) : rows[i].place = i - 1
    BY <1>5, <1>20, <1>21
  <2>2. Lists(Only(rows, playNumbers), Named(rows, playNumbers))
    BY <1>5, <2>1, OnlyNamed
  <2> QED BY <1>22, <1>28, <2>2
<1>30. PICK seat \in Seats :
         seat = CASE length = 0 -> "nowhere" [] length > 0 /\ hearsNext -> "next"
                  [] OTHER -> "in_order"
  BY DEF Seats
<1>31. /\ count = 0 => seat = "nowhere"
       /\ count > 0 => seat = IF heardNext THEN "next" ELSE "in_order"
  BY <1>2, <1>12, <1>30
<1>32. PICK g : g = given
  OBVIOUS
<1>33. g = [q EXCEPT
             !.places = count, !.shuffle = resumption.shuffle, !.order = ordered,
             !.next = queued,
             !.unshuffled = IF resumption.shuffle THEN standing ELSE <<>>,
             !.after = after, !.seat = seat]
  BY <1>2, <1>3, <1>16, <1>18, <1>21, <1>23, <1>28, <1>30, <1>32
<1>34. p = Revised(StampAfresh(g))
  BY <1>1, <1>32
<1> HIDE DEF given, of, length, named
<1>35. /\ Shape(g) /\ g.places = count /\ g.order = ordered /\ g.next = queued
       /\ g.unshuffled = (IF resumption.shuffle THEN standing ELSE <<>>)
       /\ g.after = after /\ g.seat = seat /\ g.repeat = q.repeat
       /\ g.shuffle = resumption.shuffle
  BY <1>0, <1>33 DEF Shape, Fields
<1>36. /\ Shape(p) /\ p.order = g.order /\ p.next = g.next /\ p.unshuffled = g.unshuffled
       /\ p.places = g.places /\ p.after = g.after /\ p.seat = g.seat
       /\ p.repeat = g.repeat /\ p.shuffle = g.shuffle
       /\ p.playingFrom = Marked(inOrder) /\ p.stamp = Marked(inOrder \cup next) /\ p.revised
  <2>1. Lists(g.order, inOrder) /\ Lists(g.next, next)
    BY <1>24, <1>25, <1>35
  <2>2. Shape(g) /\ Filled(g, inOrder, next)
    BY <1>26, <1>27, <1>35, <2>1 DEF Filled
  <2> QED BY <1>34, <2>2, StampedAfresh
<1>37. Stands(p, inOrder, next)
  BY <1>24, <1>25, <1>26, <1>27, <1>29, <1>35, <1>36 DEF Stands
<1>38. Kinds(p)
  BY <1>0, <1>2, <1>20, <1>35, <1>36 DEF Kinds
<1>39. Seated(p)
  <2>1. p.after = after /\ p.order = ordered /\ p.next = queued /\ p.seat = seat
    BY <1>35, <1>36
  <2>2. Len(ordered) \in Nat /\ Len(queued) \in Nat /\ (Len(queued) = 0 <=> queued = <<>>)
    BY <1>24, <1>25 DEF Lists
  <2>3. CASE count = 0
    BY <1>20, <1>24, <1>25, <1>31, <2>1, <2>2, <2>3 DEF Seated
  <2>4. CASE count > 0
    BY <1>20, <1>24, <1>25, <1>31, <2>1, <2>2, <2>4 DEF Seated
  <2> QED BY <2>3, <2>4
<1> QED BY <1>36, <1>37, <1>38, <1>39 DEF Sound, Seen

-----------------------------------------------------------------------------
(* An order given.                                                          *)

Held(list, positions) == {list[i] : i \in positions}

LEMMA PickedHolds ==
  ASSUME NEW set, NEW list, Lists(list, set), NEW positions \in SUBSET (1..Len(list))
  PROVE  /\ Lists(Picked(list, positions), Held(list, positions))
         /\ Len(Picked(list, positions)) = Cardinality(positions)
         /\ IsFiniteSet(positions) /\ positions \in SUBSET Nat
         /\ Held(list, positions) \in SUBSET set
<1>1. /\ Lists(Picked(list, positions), {list[i] : i \in positions})
      /\ Len(Picked(list, positions)) = Cardinality(positions)
      /\ IsFiniteSet(positions)
  BY PickedLists
<1>2. \A i \in 1..Len(list) : list[i] \in set /\ i \in Nat
  <2>1. PICK n \in Nat : n = Len(list) /\ list \in Seq(set)
    BY DEF Lists
  <2> QED BY <2>1, ElementOfSeq
<1> QED BY <1>1, <1>2 DEF Held

\* A list parted by its positions.
LEMMA HeldParts ==
  ASSUME NEW set, NEW list, Lists(list, set),
         NEW a \in SUBSET (1..Len(list)), NEW b \in SUBSET (1..Len(list)), a \cap b = {}
  PROVE  /\ Held(list, a) \cap Held(list, b) = {}
         /\ a \cup b = 1..Len(list) => Held(list, a) \cup Held(list, b) = set
<1>0. PICK n \in Nat : n = Len(list) /\ list \in Seq(set)
  BY DEF Lists
<1>1. /\ \A i, j \in 1..n : list[i] = list[j] => i = j
      /\ \A x \in set : \E i \in 1..n : list[i] = x
  BY <1>0 DEF Lists
<1>2. \A i \in 1..n : list[i] \in set
  BY <1>0, ElementOfSeq
<1>3. \A i \in a : \A j \in b : list[i] # list[j]
  BY <1>0, <1>1
<1>4. ASSUME a \cup b = 1..Len(list), NEW x \in set
      PROVE  x \in Held(list, a) \cup Held(list, b)
  <2>1. PICK i \in 1..n : list[i] = x
    BY <1>1
  <2>2. i \in a \/ i \in b
    BY <1>0, <1>4
  <2> QED BY <2>1, <2>2 DEF Held
<1>5. Held(list, a) \in SUBSET set /\ Held(list, b) \in SUBSET set
  BY <1>0, <1>2 DEF Held
<1> QED BY <1>3, <1>4, <1>5 DEF Held

LEMMA DrawnLists ==
  ASSUME NEW q, NEW inOrder, NEW next, Stands(q, inOrder, next), q.after \in Nat
  PROVE  Lists(Drawn(q), inOrder \cup next)
<1>1. Drawn(q) = Spliced(q.order, q.after, q.next)
  BY DEF Drawn, Spliced
<1>2. PICK after \in Nat : after = q.after
  OBVIOUS
<1>3. Lists(Spliced(q.order, after, q.next), inOrder \cup next)
  BY SplicedLists DEF Stands
<1> QED BY <1>1, <1>2, <1>3

\* The order to return to, where rows leave the order they play in and others join it.
LEMMA StandsAgain ==
  ASSUME NEW inOrder, NEW standing, Lists(standing, inOrder), NEW ordered, NEW order,
         Lists(order, ordered), NEW next, NEW waits, Lists(waits, next),
         ordered \cap next = {}, inOrder \in SUBSET (ordered \cup next),
         Apart(ordered \cup next)
  PROVE  Lists(UnshuffledIn(Without(standing, Places(waits)), order, 0, Len(order)), ordered)
<1>1. PICK kept, left : kept = Without(standing, Places(waits))
                        /\ left = NotOf(inOrder, Places(waits))
  OBVIOUS
<1>2. Lists(kept, left)
  BY <1>1, OnlyOf
<1>3. left \in SUBSET ordered
  <2>1. Places(waits) = {r.place : r \in next}
    BY PlacesAre
  <2> QED BY <1>1, <2>1 DEF NotOf
<1>4. order \in Seq(ordered) /\ Len(order) \in Nat
  BY DEF Lists
<1>5. Apart(left \cup ordered)
  BY <1>3 DEF Apart
<1>6. PICK from \in Nat, count \in Nat : from = 0 /\ count = Len(order)
  BY <1>4
<1>7. Lists(UnshuffledIn(kept, order, from, count),
            left \cup {order[i] : i \in (from + 1)..(from + count)})
  <2>1. from + count <= Len(order)
    BY <1>6
  <2> QED BY <1>2, <1>4, <1>5, <2>1, UnshuffledLists
<1>8. left \cup {order[i] : i \in (from + 1)..(from + count)} = ordered
  <2>1. (from + 1)..(from + count) = 1..count
    BY <1>6
  <2>2. \A i \in 1..count : order[i] \in ordered
    BY <1>4, <1>6, ElementOfSeq
  <2>3. \A r \in ordered : \E i \in 1..count : order[i] = r
    BY <1>6 DEF Lists
  <2> QED BY <1>3, <2>1, <2>2, <2>3
<1> QED BY <1>1, <1>6, <1>7, <1>8

\* The row heard is the one the seat names.
LEMMA HeardIs ==
  ASSUME NEW q, Kinds(q), Seated(q), NEW inOrder, NEW next, Stands(q, inOrder, next)
  PROVE  /\ \A r \in inOrder \cup next : r.place # NoPlace
         /\ q.seat = "nowhere" => HeardPlace(q) = NoPlace
         /\ q.seat = "in_order" =>
              /\ q.after \in 1..Len(q.order) /\ q.order[q.after] \in inOrder
              /\ HeardPlace(q) = q.order[q.after].place
         /\ q.seat = "next" =>
              /\ 1 \in 1..Len(q.next) /\ q.next[1] \in next /\ HeardPlace(q) = q.next[1].place
<1>1. /\ q.order \in Seq(inOrder) /\ q.next \in Seq(next)
      /\ Len(q.order) \in Nat /\ Len(q.next) \in Nat /\ (q.next = <<>> <=> Len(q.next) = 0)
  BY ListsOfASoundQueue
<1>2. \A r \in inOrder \cup next : r.place # NoPlace
  <2>1. \A r \in GivenOut(q.places) : r.place \in 0..(q.places - 1)
    BY DEF GivenOut
  <2>2. \A place \in 0..(q.places - 1) : place # -1
    BY DEF Kinds
  <2> QED BY <2>1, <2>2 DEF Stands, NoPlace
<1>3. CASE q.seat = "nowhere"
  BY <1>2, <1>3 DEF HeardPlace
<1>4. CASE q.seat = "in_order"
  <2>1. q.after \in 1..Len(q.order)
    BY <1>1, <1>4 DEF Seated, Kinds
  <2>2. q.order[q.after] \in inOrder
    BY <1>1, <2>1, ElementOfSeq
  <2> QED BY <1>2, <1>4, <2>1, <2>2 DEF HeardPlace, LastHeard
<1>5. CASE q.seat = "next"
  <2>1. q.next # <<>> /\ Len(q.next) # 0
    BY <1>1, <1>5 DEF Seated
  <2>2. 1 \in 1..Len(q.next)
    BY <1>1, <2>1
  <2>3. q.next[1] \in next
    BY <1>1, <2>2, ElementOfSeq
  <2> QED BY <1>2, <1>5, <2>1, <2>2, <2>3 DEF HeardPlace
<1> QED BY <1>2, <1>3, <1>4, <1>5 DEF Kinds, Seats

\* Rows split again into those in order and those played next are the rows there were,
\* and the row heard keeps its seat.
LEMMA SplitKeeps ==
  ASSUME NEW q, Sound(q), Seated(q), NEW inOrder, NEW next, Stands(q, inOrder, next),
         NEW drawn, NEW given, given = RowsOf(drawn), Lists(given, inOrder \cup next),
         \A i \in DOMAIN drawn : drawn[i].waits = "next" => q.next # <<>>,
         NEW heard, heard = HeardPlace(q), NEW p, p = Split(q, drawn, heard)
  PROVE  /\ Sound(p) /\ Seated(p) /\ p.revised /\ p.places = q.places
         /\ HeardPlace(p) = HeardPlace(q)
<1> DEFINE isHeard(f) == f.row.place = heard
           isNext(f) == IF isHeard(f) THEN q.seat = "next" ELSE f.waits = "next"
           all == inOrder \cup next
<1>0. Shape(q) /\ Kinds(q)
  BY DEF Sound
<1>1. PICK count \in Nat : /\ count = Len(given) /\ DOMAIN drawn = 1..count /\ given \in Seq(all)
                           /\ \A i \in 1..count : given[i] = drawn[i].row /\ given[i] \in all
  <2>1. PICK count \in Nat : count = Len(given) /\ DOMAIN given = 1..count /\ given \in Seq(all)
    BY DEF Lists
  <2>2. \A i \in 1..count : given[i] \in all
    BY <2>1, ElementOfSeq
  <2>3. DOMAIN drawn = DOMAIN given /\ \A i \in DOMAIN drawn : given[i] = drawn[i].row
    BY DEF RowsOf
  <2> QED BY <2>1, <2>2, <2>3
<1>2. PICK ordered, front, behind :
        /\ ordered = {i \in DOMAIN drawn : ~isNext(drawn[i])}
        /\ front = {i \in DOMAIN drawn : isHeard(drawn[i]) /\ isNext(drawn[i])}
        /\ behind = {i \in DOMAIN drawn : ~isHeard(drawn[i]) /\ isNext(drawn[i])}
  OBVIOUS
<1>3. /\ ordered \in SUBSET (1..count) /\ front \in SUBSET (1..count)
      /\ behind \in SUBSET (1..count) /\ front \cap behind = {}
      /\ ordered \cap (front \cup behind) = {} /\ ordered \cup (front \cup behind) = 1..count
  BY <1>1, <1>2
<1>4. PICK order, first, rest, waits :
        /\ order = Picked(given, ordered) /\ first = Picked(given, front)
        /\ rest = Picked(given, behind) /\ waits = first \o rest
  OBVIOUS
<1>5. PICK orderSet, firstSet, restSet, waitSet :
        /\ orderSet = Held(given, ordered) /\ firstSet = Held(given, front)
        /\ restSet = Held(given, behind) /\ waitSet = firstSet \cup restSet
  OBVIOUS
<1>6. /\ Lists(order, orderSet) /\ Len(order) = Cardinality(ordered) /\ IsFiniteSet(ordered)
      /\ ordered \in SUBSET Nat
  BY <1>1, <1>3, <1>4, <1>5, PickedHolds
<1>7. Lists(first, firstSet) /\ Len(first) = Cardinality(front) /\ IsFiniteSet(front)
  BY <1>1, <1>3, <1>4, <1>5, PickedHolds
<1>8. Lists(rest, restSet)
  BY <1>1, <1>3, <1>4, <1>5, PickedHolds
<1>9. Lists(waits, waitSet) /\ Len(waits) = Len(first) + Len(rest)
  <2>1. firstSet \cap restSet = {}
    BY <1>1, <1>3, <1>5, HeldParts
  <2> QED BY <1>4, <1>5, <1>7, <1>8, <2>1, JoinedLists
<1>10. orderSet \cap waitSet = {} /\ orderSet \cup waitSet = all
  <2>1. PICK others : others = front \cup behind
    OBVIOUS
  <2>2. Held(given, others) = waitSet
    BY <1>5, <2>1 DEF Held
  <2>3. /\ Held(given, ordered) \cap Held(given, others) = {}
        /\ ordered \cup others = 1..Len(given) =>
             Held(given, ordered) \cup Held(given, others) = all
    <3>1. /\ ordered \in SUBSET (1..Len(given)) /\ others \in SUBSET (1..Len(given))
          /\ ordered \cap others = {}
      BY <1>1, <1>3, <2>1
    <3>2. PICK set : set = all
      OBVIOUS
    <3>3. Lists(given, set)
      BY <3>2
    <3> QED BY <3>1, <3>2, <3>3, HeldParts
  <2> QED BY <1>1, <1>3, <1>5, <2>1, <2>2, <2>3
<1>11. PICK upTo, after : /\ upTo = Found(given, heard)
                          /\ after = IF upTo = 0 THEN Len(order)
                                     ELSE Cardinality({i \in ordered : i <= upTo})
  OBVIOUS
<1>12. PICK standing : standing = IF q.shuffle
                       THEN UnshuffledIn(Without(q.unshuffled, Places(waits)), order, 0, Len(order))
                       ELSE q.unshuffled
  OBVIOUS
<1>13. p = Revised([q EXCEPT !.order = order, !.next = waits, !.unshuffled = standing,
                             !.after = after, !.playingFrom = With(Unstamped, order)])
  BY <1>2, <1>4, <1>11, <1>12 DEF Split
<1> HIDE DEF isHeard, isNext
<1>14. /\ Shape(p) /\ p.order = order /\ p.next = waits /\ p.unshuffled = standing
       /\ p.after = after /\ p.playingFrom = With(Unstamped, order)
       /\ p.stamp = q.stamp /\ p.places = q.places /\ p.seat = q.seat /\ p.repeat = q.repeat
       /\ p.shuffle = q.shuffle /\ p.revised
  BY <1>0, <1>13 DEF Shape, Fields, Revised
<1>15. Apart(orderSet \cup waitSet) /\ orderSet \cup waitSet \in SUBSET GivenOut(q.places)
  BY <1>10 DEF Stands
<1>16. With(Unstamped, order) = Marked(orderSet)
  <2>1. {} \cup orderSet = orderSet /\ {} \cap orderSet = {}
    OBVIOUS
  <2>2. Apart({} \cup orderSet)
    BY <1>15 DEF Apart
  <2>3. With(Marked({}), order) = Marked({} \cup orderSet)
    BY <1>6, <2>1, <2>2, JoinedStamp
  <2> QED BY <2>1, <2>3, UnstampedIs
<1>17. IF q.shuffle THEN Lists(standing, orderSet) ELSE standing = <<>>
  <2>1. CASE q.shuffle
    <3>1. Lists(q.unshuffled, inOrder)
      BY <2>1 DEF Stands
    <3>2. inOrder \in SUBSET (orderSet \cup waitSet)
      BY <1>10
    <3>3. PICK old : old = q.unshuffled
      OBVIOUS
    <3>4. Lists(UnshuffledIn(Without(old, Places(waits)), order, 0, Len(order)), orderSet)
      BY <1>6, <1>9, <1>10, <1>15, <3>1, <3>2, <3>3, StandsAgain
    <3> QED BY <1>12, <2>1, <3>3, <3>4
  <2>2. CASE ~q.shuffle
    BY <1>12, <2>2 DEF Stands
  <2> QED BY <2>1, <2>2
<1>18. Stands(p, orderSet, waitSet)
  <2>1. p.stamp = Marked(orderSet \cup waitSet)
    BY <1>10, <1>14 DEF Stands
  <2> QED BY <1>6, <1>9, <1>10, <1>14, <1>15, <1>16, <1>17, <2>1 DEF Stands
<1>19. PICK length \in Nat : length = Len(order)
  BY <1>6 DEF Lists
<1>20. /\ \A r \in all : r.place # NoPlace
       /\ q.seat = "nowhere" => heard = NoPlace
       /\ q.seat = "in_order" => \E r \in all : r.place = heard
       /\ q.seat = "next" => \E r \in all : r.place = heard
  BY <1>0, HeardIs
<1>21. \/ upTo = 0 /\ \A i \in 1..count : given[i].place # heard
       \/ upTo \in 1..count /\ given[upTo].place = heard
  BY <1>1, <1>11, FoundIs
<1>22. \A r \in all : \E i \in 1..count : given[i] = r
  BY <1>1 DEF Lists
<1>23. CASE q.seat = "nowhere"
  <2>1. upTo = 0
    BY <1>1, <1>20, <1>21, <1>23
  <2>2. q.next = <<>>
    BY <1>23 DEF Seated
  <2>3. \A i \in 1..count : ~isNext(drawn[i])
    BY <1>1, <1>20, <1>23, <2>2 DEF isNext, isHeard
  <2>4. front = {} /\ behind = {}
    BY <1>1, <1>2, <2>3
  <2>5. waits = <<>>
    <3>1. waitSet = {}
      BY <1>5, <2>4 DEF Held
    <3> QED BY <1>9, <3>1, EmptyLists
  <2>6. Seated(p)
    BY <1>11, <1>14, <1>19, <1>23, <2>1, <2>5 DEF Seated
  <2>7. after \in Nat
    BY <1>11, <1>19, <2>1
  <2>8. Kinds(p)
    BY <1>0, <1>14, <2>7 DEF Kinds
  <2>9. HeardPlace(p) = HeardPlace(q)
    BY <1>14, <1>23 DEF HeardPlace
  <2> QED BY <1>14, <1>18, <2>6, <2>8, <2>9 DEF Sound
<1>24. CASE q.seat # "nowhere"
  <2>1. q.seat \in {"in_order", "next"}
    BY <1>0, <1>24 DEF Kinds, Seats
  <2>2. upTo \in 1..count /\ given[upTo].place = heard /\ upTo # 0
    BY <1>20, <1>21, <1>22, <2>1
  <2>3. PICK passed : passed = UpTo(ordered, upTo)
    OBVIOUS
  <2>4. after = Cardinality(passed) /\ passed \in SUBSET ordered
    BY <1>11, <2>2, <2>3 DEF UpTo
  <2>5. IsFiniteSet(passed) /\ after \in Nat /\ after <= length
    <3>1. IsFiniteSet(passed) /\ Cardinality(passed) <= Cardinality(ordered)
      BY <1>6, <2>4, FS_Subset
    <3>2. Cardinality(passed) \in Nat
      BY <3>1, FS_CardinalityType
    <3> QED BY <1>6, <1>19, <2>4, <3>1, <3>2
  <2>6. Kinds(p)
    BY <1>0, <1>14, <2>5 DEF Kinds
  <2>7. CASE q.seat = "in_order"
    <3>1. upTo \in ordered
      BY <1>1, <1>2, <2>2, <2>7 DEF isNext, isHeard
    <3>2. /\ Cardinality(UpTo(ordered, upTo)) \in 1..Cardinality(ordered)
          /\ Nth(ordered, Cardinality(UpTo(ordered, upTo))) = upTo
      BY <1>6, <3>1, NthIs
    <3>3. after \in 1..length /\ Nth(ordered, after) = upTo
      BY <1>6, <1>19, <2>3, <2>4, <3>2
    <3>4. order[after] = given[upTo]
      BY <1>4, <1>6, <1>19, <3>3 DEF Picked
    <3>5. Seated(p)
      BY <1>14, <1>19, <2>7, <3>3 DEF Seated
    <3>6. HeardPlace(p) = heard
      BY <1>14, <1>19, <2>2, <2>7, <3>3, <3>4 DEF HeardPlace, LastHeard
    <3> QED BY <1>14, <1>18, <2>6, <3>5, <3>6 DEF Sound
  <2>8. CASE q.seat = "next"
    <3>1. upTo \in front
      BY <1>1, <1>2, <2>2, <2>8 DEF isNext, isHeard
    <3>2. \A i \in front : given[i].place = heard
      BY <1>1, <1>2 DEF isHeard
    <3>3. \A r \in firstSet : r.place = heard
      BY <1>5, <3>2 DEF Held
    <3>4. firstSet # {}
      BY <1>5, <3>1 DEF Held
    <3>5. first # <<>> /\ first \in Seq(firstSet)
      BY <1>7, <3>4, EmptyLists, ListIsAList DEF Lists
    <3>6. PICK l \in Nat, m \in Nat : l = Len(first) /\ m = Len(rest) /\ l > 0
      BY <1>8, <3>5 DEF Lists
    <3>7. 1 \in 1..l /\ first[1] \in firstSet
      BY <3>5, <3>6, ElementOfSeq
    <3>8. waits[1] = first[1] /\ waits # <<>>
      <4>1. rest \in Seq(restSet)
        BY <1>8 DEF Lists
      <4>2. waits[1] = first[1]
        BY <1>4, <3>5, <3>6, <3>7, <4>1
      <4>3. Len(waits) > 0
        BY <1>9, <3>6
      <4> QED BY <4>2, <4>3
    <3>9. Seated(p)
      BY <1>14, <1>19, <2>5, <2>8, <3>8 DEF Seated
    <3>10. HeardPlace(p) = heard
      BY <1>14, <2>8, <3>3, <3>7, <3>8 DEF HeardPlace
    <3> QED BY <1>14, <1>18, <2>6, <3>9, <3>10 DEF Sound
  <2> QED BY <2>1, <2>7, <2>8
<1> QED BY <1>23, <1>24

LEMMA ReorderKeeps ==
  ASSUME NEW q, Sound(q), Seated(q), NEW rows \in SetToSeqs(0..(Size(q) - 1)),
         NEW p, p = Reorder(q, rows)
  PROVE  /\ Sound(p) /\ Seated(p) /\ p.revised /\ p.places = q.places
         /\ HeardPlace(p) = HeardPlace(q)
<1>0. PICK inOrder, next : Stands(q, inOrder, next)
  BY DEF Sound
<1>1. Shape(q) /\ Kinds(q)
  BY DEF Sound
<1>2. PICK all : all = inOrder \cup next
  OBVIOUS
<1>3. PICK stood : stood = Drawn(q)
  OBVIOUS
<1>4. PICK count \in Nat : Lists(stood, all) /\ count = Len(stood) /\ count = Size(q)
  <2>1. Lists(Drawn(q), all)
    BY <1>0, <1>1, <1>2, DrawnLists DEF Kinds
  <2>2. q.order \in Seq(all) /\ q.next \in Seq(all)
    BY <1>0, <1>2, ListOfMore DEF Stands
  <2>3. q.after \in Nat /\ q.after <= Len(q.order)
    BY <1>1 DEF Kinds, Seated
  <2>4. Len(Drawn(q)) = Size(q) /\ Size(q) \in Nat
    BY <2>2, <2>3, DrawnIs
  <2> QED BY <1>3, <2>1, <2>4
<1>5. PICK numbers : numbers = 0..(count - 1)
  OBVIOUS
<1>6. Lists(rows, numbers)
  <2>1. PICK drawn : drawn = IF rows \in SetToSeqs(0..(count - 1)) THEN rows
                             ELSE [i \in 1..count |-> i - 1]
    OBVIOUS
  <2>2. Lists(drawn, 0..(count - 1))
    BY <2>1, NumbersDrawn
  <2>3. rows \in SetToSeqs(0..(count - 1))
    BY <1>4
  <2> QED BY <1>5, <2>1, <2>2, <2>3
<1>7. PICK drawn : drawn = [i \in DOMAIN rows |-> Flagged(q)[rows[i] + 1]]
  OBVIOUS
<1>8. PICK l \in Nat : l = Len(rows) /\ DOMAIN rows = 1..l
  BY <1>6 DEF Lists
<1>9. \A i \in 1..l : rows[i] \in 0..(count - 1) /\ rows[i] + 1 \in 1..count
  <2>1. \A i \in 1..l : rows[i] \in numbers
    BY <1>6, <1>8, ElementOfSeq DEF Lists
  <2>2. \A n \in 0..(count - 1) : n + 1 \in 1..count
    OBVIOUS
  <2> QED BY <1>5, <2>1, <2>2
<1>10. DOMAIN Drawn(q) = 1..count
  <2>1. DOMAIN stood = 1..Len(stood)
    BY <1>4, ListIsAList
  <2> QED BY <1>3, <1>4, <2>1
<1>11. \A i \in 1..l : /\ drawn[i].row = stood[rows[i] + 1]
                       /\ drawn[i].waits = "next" => q.next # <<>>
  <2>1. ASSUME NEW n \in 1..count
        PROVE  /\ Flagged(q)[n].row = stood[n]
               /\ Flagged(q)[n].waits = "next" => q.next # <<>>
    <3>1. Flagged(q)[n] = [row |-> stood[n],
                           waits |-> IF stood[n].place \in Places(q.next) THEN "next"
                                     ELSE "in_order"]
      BY <1>3, <1>10 DEF Flagged
    <3>2. q.next = <<>> => Places(q.next) = {}
      BY DEF Places
    <3> QED BY <3>1, <3>2
  <2> QED BY <1>7, <1>8, <1>9, <2>1
<1>12. PICK given : given = RowsOf(drawn)
  OBVIOUS
<1>13. AreNamed(given, stood, rows)
  <2>1. DOMAIN drawn = 1..l
    BY <1>7, <1>8
  <2>2. given = [i \in 1..l |-> stood[rows[i] + 1]]
    BY <1>11, <1>12, <2>1 DEF RowsOf
  <2> QED BY <1>8, <2>2 DEF AreNamed
<1>14. Lists(given, all)
  <2>1. numbers \in SUBSET (0..(Len(stood) - 1))
    BY <1>4, <1>5
  <2>2. Lists(given, Named(stood, numbers)) /\ Named(stood, numbers) \in SUBSET all
    BY <1>4, <1>6, <1>13, <2>1, NamedLists
  <2>3. ASSUME NEW r \in all PROVE r \in Named(stood, numbers)
    <3>1. PICK i \in 1..count : stood[i] = r
      BY <1>4 DEF Lists
    <3>2. i - 1 \in numbers /\ (i - 1) + 1 = i
      BY <1>5
    <3> QED BY <3>1, <3>2 DEF Named
  <2>4. Named(stood, numbers) = all
    BY <2>2, <2>3
  <2> QED BY <2>2, <2>4
<1>15. \A i \in DOMAIN drawn : drawn[i].waits = "next" => q.next # <<>>
  BY <1>7, <1>8, <1>11
<1>16. PICK heard : heard = HeardPlace(q)
  OBVIOUS
<1>17. p = Split(q, drawn, heard)
  BY <1>7, <1>16 DEF Reorder
<1>18. Lists(given, inOrder \cup next)
  BY <1>2, <1>14
<1> QED BY <1>0, <1>12, <1>15, <1>16, <1>17, <1>18, SplitKeeps

-----------------------------------------------------------------------------
(* A span moved.                                                            *)

\* A row picked stands where the rows picked up to it are counted.
LEMMA PickedAt ==
  ASSUME NEW set, NEW list, Lists(list, set), NEW positions \in SUBSET (1..Len(list)),
         NEW at \in positions
  PROVE  /\ Cardinality(UpTo(positions, at)) \in 1..Cardinality(positions)
         /\ Picked(list, positions)[Cardinality(UpTo(positions, at))] = list[at]
         /\ Len(Picked(list, positions)) = Cardinality(positions)
<1>1. /\ IsFiniteSet(positions) /\ positions \in SUBSET Nat
      /\ Len(Picked(list, positions)) = Cardinality(positions)
  BY PickedHolds
<1>2. PICK n : n = Cardinality(UpTo(positions, at))
  OBVIOUS
<1>3. n \in 1..Cardinality(positions) /\ Nth(positions, n) = at
  BY <1>1, <1>2, NthIs
<1>4. Picked(list, positions)[n] = list[at]
  BY <1>3 DEF Picked
<1> QED BY <1>1, <1>2, <1>3, <1>4

\* The first row of a list is the first of those taken or of those left.
LEMMA FirstKept ==
  ASSUME NEW set, NEW list, Lists(list, set), list # <<>>, NEW places
  PROVE  /\ list[1].place \in places => Only(list, places) # <<>> /\ Only(list, places)[1] = list[1]
         /\ list[1].place \notin places =>
              Without(list, places) # <<>> /\ Without(list, places)[1] = list[1]
<1>1. PICK n \in Nat : n = Len(list) /\ DOMAIN list = 1..n /\ n > 0
  <2>1. Len(list) \in Nat /\ DOMAIN list = 1..Len(list)
    BY ListIsAList
  <2>2. Len(list) >= 1
    BY HeadAndRest
  <2>3. PICK n : n = Len(list)
    OBVIOUS
  <2>4. n \in Nat /\ n > 0 /\ DOMAIN list = 1..n
    BY <2>1, <2>2, <2>3
  <2> QED BY <2>3, <2>4
<1>2. ASSUME NEW positions \in SUBSET (1..n), 1 \in positions
      PROVE  Picked(list, positions) # <<>> /\ Picked(list, positions)[1] = list[1]
  <2>1. UpTo(positions, 1) = {1}
    <3>1. \A i \in 1..n : i <= 1 <=> i = 1
      OBVIOUS
    <3> QED BY <1>2, <3>1 DEF UpTo
  <2>2. Cardinality(UpTo(positions, 1)) = 1
    BY <2>1, FS_Singleton
  <2>3. PICK one \in positions : one = 1
    BY <1>2
  <2>4. /\ Cardinality(UpTo(positions, one)) \in 1..Cardinality(positions)
        /\ Picked(list, positions)[Cardinality(UpTo(positions, one))] = list[one]
        /\ Len(Picked(list, positions)) = Cardinality(positions)
    BY <1>1, PickedAt
  <2>5. Len(Picked(list, positions)) # 0
    BY <2>2, <2>3, <2>4
  <2> QED BY <2>2, <2>3, <2>4, <2>5
<1>3. PICK taken, left : /\ taken = {i \in DOMAIN list : list[i].place \in places}
                         /\ left = {i \in DOMAIN list : list[i].place \notin places}
  OBVIOUS
<1>4. Only(list, places) = Picked(list, taken) /\ Without(list, places) = Picked(list, left)
  BY <1>3 DEF Only, Without
<1>5. 1 \in 1..n /\ taken \in SUBSET (1..n) /\ left \in SUBSET (1..n)
  BY <1>1, <1>3
<1>6. (list[1].place \in places => 1 \in taken) /\ (list[1].place \notin places => 1 \in left)
  BY <1>1, <1>3, <1>5
<1> QED BY <1>2, <1>4, <1>5, <1>6

\* A row that ends what is passed is the last of those taken from there, or stands among
\* those left after as many as are left from there.
LEMMA LastKept ==
  ASSUME NEW set, NEW list, Lists(list, set), NEW at \in 1..Len(list), NEW places,
         NEW passed, passed = First(list, at)
  PROVE  /\ list[at].place \in places =>
              /\ Only(passed, places) # <<>>
              /\ Only(passed, places)[Len(Only(passed, places))] = list[at]
         /\ list[at].place \notin places =>
              /\ Len(Without(passed, places)) \in 1..Len(Without(list, places))
              /\ Without(list, places)[Len(Without(passed, places))] = list[at]
<1>1. PICK n \in Nat : n = Len(list) /\ DOMAIN list = 1..n /\ at \in 1..n /\ list \in Seq(set)
  BY ListIsAList DEF Lists
<1>2. Len(passed) = at /\ passed \in Seq(set) /\ \A i \in 1..at : passed[i] = list[i]
  <2>1. PICK m \in Nat : m = at /\ m <= Len(list)
    BY <1>1
  <2>2. /\ First(list, m) \in Seq(set) /\ Len(First(list, m)) = m
        /\ \A i \in 1..m : First(list, m)[i] = list[i]
    BY <1>1, <2>1, CutInTwo
  <2> QED BY <2>1, <2>2
<1>3. DOMAIN passed = 1..at
  BY <1>1, <1>2
<1>4. Lists(passed, ToSet(passed))
  <2>1. PICK m \in Nat : m = at
    BY <1>1
  <2> QED BY <2>1, CutLists
<1>5. CASE list[at].place \in places
  <2>1. PICK taken : taken = {i \in DOMAIN passed : passed[i].place \in places}
    OBVIOUS
  <2>2. taken \in SUBSET (1..Len(passed)) /\ at \in taken /\ UpTo(taken, at) = taken
    BY <1>1, <1>2, <1>3, <1>5, <2>1 DEF UpTo
  <2>3. /\ Cardinality(UpTo(taken, at)) \in 1..Cardinality(taken)
        /\ Picked(passed, taken)[Cardinality(UpTo(taken, at))] = passed[at]
        /\ Len(Picked(passed, taken)) = Cardinality(taken)
    BY <1>4, <2>2, PickedAt
  <2>4. Only(passed, places) = Picked(passed, taken)
    BY <2>1 DEF Only
  <2>5. PICK count : count = Cardinality(taken)
    OBVIOUS
  <2>6. count \in 1..count /\ Len(Only(passed, places)) = count
        /\ Only(passed, places)[count] = passed[at]
    BY <2>2, <2>3, <2>4, <2>5
  <2>7. passed[at] = list[at]
    BY <1>1, <1>2
  <2>8. Only(passed, places) # <<>>
    <3>1. count # 0
      BY <2>6
    <3> QED BY <2>6, <3>1
  <2> QED BY <1>5, <2>6, <2>7, <2>8
<1>6. CASE list[at].place \notin places
  <2>1. PICK left : left = {i \in DOMAIN list : list[i].place \notin places}
    OBVIOUS
  <2>2. left \in SUBSET (1..Len(list)) /\ at \in left
    BY <1>1, <1>6, <2>1
  <2>3. /\ Cardinality(UpTo(left, at)) \in 1..Cardinality(left)
        /\ Picked(list, left)[Cardinality(UpTo(left, at))] = list[at]
        /\ Len(Picked(list, left)) = Cardinality(left)
    BY <2>2, PickedAt
  <2>4. Without(list, places) = Picked(list, left)
    BY <2>1 DEF Without
  <2>5. {i \in DOMAIN passed : passed[i].place \notin places} = UpTo(left, at)
    BY <1>1, <1>2, <1>3, <2>1 DEF UpTo
  <2>6. Len(Without(passed, places)) = Cardinality(UpTo(left, at))
    <3>1. UpTo(left, at) \in SUBSET (1..Len(passed))
      BY <1>2, <1>3, <2>5
    <3> QED BY <1>4, <2>5, <3>1, PickedHolds DEF Without
  <2> QED BY <1>6, <2>3, <2>4, <2>6
<1> QED BY <1>5, <1>6

\* The rows lifted from before the seat, and from after it.
PassedOf(q, lifted)   == Only(First(q.order, q.after), lifted)
UpcomingOf(q, lifted) == Only(Past(q.order, q.after), lifted)

LEMMA LiftedLists ==
  ASSUME NEW q, NEW inOrder, NEW next, Stands(q, inOrder, next), q.after \in Nat,
         q.after <= Len(q.order), NEW lifted
  PROVE  /\ Lists(PassedOf(q, lifted) \o UpcomingOf(q, lifted), Of(inOrder, lifted))
         /\ PassedOf(q, lifted) \in Seq(Of(inOrder, lifted))
         /\ UpcomingOf(q, lifted) \in Seq(Of(inOrder, lifted))
         /\ Lists(Only(q.next, lifted), Of(next, lifted))
         /\ Lists(PassedOf(q, lifted) \o Only(q.next, lifted) \o UpcomingOf(q, lifted),
                  Of(inOrder, lifted) \cup Of(next, lifted))
         /\ Lists(Without(q.order, lifted), NotOf(inOrder, lifted))
         /\ Lists(Without(q.next, lifted), NotOf(next, lifted))
<1>1. PICK front, back : front = First(q.order, q.after) /\ back = Past(q.order, q.after)
  OBVIOUS
<1>2. PICK begun, after : begun = ToSet(front) /\ after = ToSet(back)
  OBVIOUS
<1>3. /\ Lists(front, begun) /\ Lists(back, after)
      /\ begun \cup after = inOrder /\ begun \cap after = {}
  <2>1. PICK n \in Nat : n = q.after
    OBVIOUS
  <2>2. PICK order : order = q.order /\ Lists(order, inOrder)
    BY DEF Stands
  <2>3. /\ Lists(First(order, n), ToSet(First(order, n)))
        /\ Lists(Past(order, n), ToSet(Past(order, n)))
        /\ ToSet(First(order, n)) \cup ToSet(Past(order, n)) = inOrder
        /\ ToSet(First(order, n)) \cap ToSet(Past(order, n)) = {}
    BY <2>2, CutLists
  <2> QED BY <1>1, <1>2, <2>1, <2>2, <2>3
<1>4. PICK passed, upcoming, queued : /\ passed = Only(front, lifted)
                                      /\ upcoming = Only(back, lifted)
                                      /\ queued = Only(q.next, lifted)
  OBVIOUS
<1>5. PICK P, U, Q : P = Of(begun, lifted) /\ U = Of(after, lifted) /\ Q = Of(next, lifted)
  OBVIOUS
<1>6. Lists(passed, P) /\ Lists(upcoming, U) /\ Lists(queued, Q)
  <2>1. Lists(passed, P)
    BY <1>3, <1>4, <1>5, OnlyOf
  <2>2. Lists(upcoming, U)
    BY <1>3, <1>4, <1>5, OnlyOf
  <2>3. Lists(queued, Q)
    BY <1>4, <1>5, OnlyOf DEF Stands
  <2> QED BY <2>1, <2>2, <2>3
<1>7. P \cap U = {} /\ P \cup U = Of(inOrder, lifted) /\ P \cap Q = {} /\ (P \cup Q) \cap U = {}
  <2>1. inOrder \cap next = {}
    BY DEF Stands
  <2> QED BY <1>3, <1>5, <2>1 DEF Of
<1>8. Lists(passed \o upcoming, P \cup U)
  BY <1>6, <1>7, JoinedLists
<1>9. Lists(passed \o queued, P \cup Q)
  BY <1>6, <1>7, JoinedLists
<1>10. Lists(passed \o queued \o upcoming, (P \cup Q) \cup U)
  BY <1>6, <1>7, <1>9, JoinedLists
<1>11. (P \cup Q) \cup U = Of(inOrder, lifted) \cup Of(next, lifted)
  BY <1>5, <1>7
<1>12. passed \in Seq(Of(inOrder, lifted)) /\ upcoming \in Seq(Of(inOrder, lifted))
  <2>1. PICK both : both = Of(inOrder, lifted) /\ P \in SUBSET both /\ U \in SUBSET both
    BY <1>7
  <2> QED BY <1>6, <2>1, ListOfMore
<1>13. /\ Lists(Without(q.order, lifted), NotOf(inOrder, lifted))
       /\ Lists(Without(q.next, lifted), NotOf(next, lifted))
  BY OnlyOf DEF Stands
<1> QED BY <1>1, <1>4, <1>5, <1>6, <1>7, <1>8, <1>10, <1>11, <1>12, <1>13 DEF PassedOf, UpcomingOf

\* As many rows are left as were not in the span.
LEMMA LeftOfASpan ==
  ASSUME NEW q, NEW inOrder, NEW next, Stands(q, inOrder, next), q.after \in Nat,
         q.after <= Len(q.order),
         NEW first \in 0..(Size(q) - 1), NEW last \in 0..(Size(q) - 1), first <= last,
         NEW lifted, lifted = Places(SubSeq(Drawn(q), first + 1, last + 1))
  PROVE  Len(Without(q.order, lifted)) + Len(Without(q.next, lifted))
           = Size(q) - (last - first + 1)
<1>1. PICK all, drawn : all = inOrder \cup next /\ drawn = Drawn(q)
  OBVIOUS
<1>2. PICK size \in Nat : size = Size(q) /\ size = Len(drawn) /\ Lists(drawn, all)
  <2>1. Lists(Drawn(q), inOrder \cup next)
    BY DrawnLists
  <2>2. q.order \in Seq(all) /\ q.next \in Seq(all)
    BY <1>1, ListOfMore DEF Stands
  <2>3. Len(Drawn(q)) = Size(q) /\ Size(q) \in Nat
    BY <2>2, DrawnIs
  <2> QED BY <1>1, <2>1, <2>3
<1>3. PICK from \in Nat, past \in Nat : from = first /\ past = last + 1 /\ from <= past /\ past <= size
  BY <1>2
<1>4. PICK rest, span : rest = First(drawn, from) \o Past(drawn, past)
                        /\ span = SubSeq(drawn, from + 1, past)
  OBVIOUS
<1>5. CutIn(all, drawn, from, past, rest, span)
  BY <1>2, <1>3, <1>4, CutInThree
<1>6. lifted = Places(span)
  BY <1>1, <1>3, <1>4
<1>7. PICK spanned, kept : spanned = ToSet(span) /\ kept = ToSet(rest)
  OBVIOUS
<1>8. /\ Lists(rest, kept) /\ Lists(span, spanned) /\ kept \cap spanned = {}
      /\ kept \cup spanned = all /\ Len(rest) = size - (past - from)
  BY <1>2, <1>5, <1>7 DEF CutIn
<1>9. NotOf(inOrder, lifted) \cup NotOf(next, lifted) = kept
  <2>1. lifted = {r.place : r \in spanned}
    BY <1>6, <1>8, PlacesAre
  <2>2. \A a, b \in all : a.place = b.place => a = b
    BY <1>1 DEF Stands, Apart
  <2>3. \A r \in all : r.place \in lifted <=> r \in spanned
    BY <1>8, <2>1, <2>2
  <2> QED BY <1>1, <1>8, <2>3 DEF NotOf
<1>10. PICK order, waits, A, B : /\ order = Without(q.order, lifted)
                                 /\ waits = Without(q.next, lifted)
                                 /\ A = NotOf(inOrder, lifted) /\ B = NotOf(next, lifted)
  OBVIOUS
<1>11. Lists(order, A) /\ Lists(waits, B)
  BY <1>10, LiftedLists
<1>12. A \cap B = {}
  BY <1>10 DEF NotOf, Stands
<1>13. Lists(order \o waits, kept) /\ Len(order \o waits) = Len(order) + Len(waits)
  <2>1. Lists(order \o waits, A \cup B) /\ Len(order \o waits) = Len(order) + Len(waits)
    BY <1>11, <1>12, JoinedLists
  <2> QED BY <1>9, <1>10, <2>1
<1>14. Len(order \o waits) = Len(rest)
  <2>1. Cardinality(kept) = Len(order \o waits)
    BY <1>13, ListCounts
  <2>2. Cardinality(kept) = Len(rest)
    BY <1>8, ListCounts
  <2> QED BY <2>1, <2>2
<1> QED BY <1>2, <1>3, <1>8, <1>10, <1>13, <1>14

LEMMA LandsInside ==
  ASSUME NEW size \in Nat, NEW first \in 0..(size - 1), NEW last \in 0..(size - 1),
         NEW to \in 0..(size - 1), to \notin first..last
  PROVE  /\ Landing(first, last, to) \in Nat
         /\ first <= last => Landing(first, last, to) <= size - (last - first + 1)
<1>1. CASE to <= first
  <2>1. Landing(first, last, to) = to
    BY <1>1 DEF Landing
  <2>2. first <= last => to < first
    BY <1>1
  <2> QED BY <2>1, <2>2
<1>2. CASE to > first
  <2>1. ~(to <= first)
    BY <1>2
  <2>2. CASE to >= last
    <3>1. Landing(first, last, to) = first + (to - last)
      BY <1>2, <2>1, <2>2 DEF Landing
    <3> QED BY <2>2, <3>1
  <2>3. CASE ~(to >= last)
    BY <1>2, <2>3
  <2> QED BY <2>2, <2>3
<1> QED BY <1>1, <1>2

\* The order to return to, where rows cross between the two lists.
LEMMA StandsMoved ==
  ASSUME NEW inOrder, NEW standing, Lists(standing, inOrder),
         NEW kept, NEW order, Lists(order, kept),
         NEW joins, NEW intoOrder, Lists(intoOrder, joins), kept \cap joins = {},
         NEW leaves, NEW intoNext, Lists(intoNext, leaves),
         Apart(inOrder \cup leaves), Apart(inOrder \cup kept \cup joins),
         (inOrder \ leaves) \cup joins = kept \cup joins,
         NEW at \in Nat, at <= Len(order),
         NEW ordered, ordered = Spliced(order, at, intoOrder)
  PROVE  Lists(UnshuffledIn(Without(standing, Places(intoNext)), ordered, at, Len(intoOrder)),
               kept \cup joins)
<1>1. PICK left, rest, all : /\ left = NotOf(inOrder, Places(intoNext))
                             /\ rest = Without(standing, Places(intoNext))
                             /\ all = kept \cup joins
  OBVIOUS
<1>2. Lists(rest, left)
  BY <1>1, OnlyOf
<1>3. left = inOrder \ leaves
  <2>1. Places(intoNext) = {r.place : r \in leaves}
    BY PlacesAre
  <2>2. \A a, b \in inOrder \cup leaves : a.place = b.place => a = b
    BY DEF Apart
  <2>3. \A r \in inOrder : r.place \in Places(intoNext) <=> r \in leaves
    BY <2>1, <2>2
  <2> QED BY <1>1, <2>3 DEF NotOf
<1>4. Lists(ordered, all) /\ Len(ordered) = Len(order) + Len(intoOrder)
  BY <1>1, SplicedLists
<1>5. PICK l \in Nat, n \in Nat : l = Len(order) /\ n = Len(intoOrder)
  BY DEF Lists
<1>6. ordered \in Seq(all) /\ Len(ordered) = l + n /\ at + n <= Len(ordered)
  BY <1>4, <1>5 DEF Lists
<1>7. \A i \in 1..n : ordered[at + i] = intoOrder[i]
  <2>1. order \in Seq(all) /\ intoOrder \in Seq(all)
    BY <1>1, ListOfMore
  <2>2. PutInto(Spliced(order, at, intoOrder), order, intoOrder, at)
    BY <2>1, SpliceIs
  <2> QED BY <1>5, <2>2 DEF PutInto
<1>8. Apart(left \cup all)
  BY <1>1, <1>3 DEF Apart
<1>9. Lists(UnshuffledIn(rest, ordered, at, n), left \cup {ordered[i] : i \in (at + 1)..(at + n)})
  BY <1>2, <1>6, <1>8, UnshuffledLists
<1>10. {ordered[i] : i \in (at + 1)..(at + n)} = joins
  <2>1. \A i \in (at + 1)..(at + n) : i - at \in 1..n /\ at + (i - at) = i
    OBVIOUS
  <2>2. \A i \in 1..n : intoOrder[i] \in joins /\ at + i \in (at + 1)..(at + n)
    <3>1. intoOrder \in Seq(joins)
      BY DEF Lists
    <3>2. \A i \in 1..n : intoOrder[i] \in joins
      BY <1>5, <3>1, ElementOfSeq
    <3> QED BY <3>2
  <2>3. \A r \in joins : \E i \in 1..n : intoOrder[i] = r
    BY <1>5 DEF Lists
  <2>4. ASSUME NEW r \in joins PROVE \E i \in (at + 1)..(at + n) : ordered[i] = r
    <3>1. PICK i \in 1..n : intoOrder[i] = r
      BY <2>3
    <3>2. PICK j : j = at + i
      OBVIOUS
    <3> QED BY <1>7, <2>2, <3>1, <3>2
  <2>5. ASSUME NEW i \in (at + 1)..(at + n) PROVE ordered[i] \in joins
    <3>1. PICK j \in 1..n : at + j = i
      BY <2>1
    <3> QED BY <1>7, <2>2, <3>1
  <2> QED BY <2>4, <2>5
<1>11. left \cup joins = all
  BY <1>1, <1>3
<1> QED BY <1>1, <1>5, <1>9, <1>10, <1>11

\* Where a span lands and which rows wait, told apart from the queue they are in.
WaitsKind(carries, landing, kept, order, next, heard) ==
  IF carries THEN "kept" ELSE WaitsBeside(landing, kept, order, next, heard)

LEMMA WaitsKinds ==
  ASSUME NEW carries \in BOOLEAN, NEW landing, NEW kept, NEW order, NEW next, NEW heard
  PROVE  /\ WaitsKind(carries, landing, kept, order, next, heard) \in {"kept", "in_order", "next"}
         /\ carries <=> WaitsKind(carries, landing, kept, order, next, heard) = "kept"
<1>1. WaitsBeside(landing, kept, order, next, heard) \in {"in_order", "next"}
  BY DEF WaitsBeside
<1> QED BY <1>1 DEF WaitsKind

\* Rows that wait beside the next land past the first of those, or after the one heard.
LEMMA WaitsWhere ==
  ASSUME NEW landing \in Nat, NEW kept \in Nat, NEW order, NEW next, Len(order) \in Nat,
         Len(next) \in Nat, NEW heard,
         WaitsBeside(landing, kept, order, next, heard) = "next"
  PROVE  \/ landing > kept /\ landing <= kept + Len(next)
         \/ \E i \in 1..Len(order) : order[i].place = heard
<1> DEFINE before == landing - 1
           beside == IF before < kept THEN before ELSE before - Len(next)
<1>1. CASE landing = 0
  BY <1>1 DEF WaitsBeside
<1>2. CASE landing > 0 /\ before >= kept /\ before < kept + Len(next)
  BY <1>2
<1>3. CASE landing > 0 /\ ~(before >= kept /\ before < kept + Len(next))
  <2>1. beside < Len(order) /\ order[beside + 1].place = heard
    <3>1. ~(landing = 0) /\ ~(landing > 0 /\ before >= kept /\ before < kept + Len(next))
      BY <1>3
    <3> QED BY <3>1 DEF WaitsBeside
  <2>2. beside \in Nat
    BY <1>3
  <2>3. PICK b \in Nat : b = beside
    BY <2>2
  <2> HIDE DEF beside
  <2>4. b + 1 \in 1..Len(order) /\ order[b + 1].place = heard
    BY <2>1, <2>3
  <2> QED BY <2>4
<1> QED BY <1>1, <1>2, <1>3

LEMMA FirstPlace ==
  ASSUME NEW set, NEW list, Lists(list, set), NEW place
  PROVE  place \in Places(First(list, 1)) <=> list # <<>> /\ list[1].place = place
<1>1. CASE list = <<>>
  <2>1. First(list, 1) = <<>>
    <3>1. PICK one \in Nat : one = 1
      OBVIOUS
    <3>2. list \in Seq(set) /\ Len(list) <= one
      BY <1>1, <3>1
    <3>3. First(list, one) = list
      BY <3>2, CutBeyond
    <3> QED BY <1>1, <3>1, <3>3
  <2> QED BY <1>1, <2>1 DEF Places
<1>2. CASE list # <<>>
  <2>1. First(list, 1) = <<list[1]>>
    BY <1>2, HeadAndRest
  <2> QED BY <1>2, <2>1 DEF Places
<1> QED BY <1>1, <1>2

\* A span moved leaves the rows there were, and the row heard is heard on.
LEMMA MoveRowsKeeps ==
  ASSUME NEW q, Sound(q), Seated(q),
         NEW first \in 0..(Size(q) - 1), NEW last \in 0..(Size(q) - 1),
         NEW to \in 0..(Size(q) - 1), to \notin first..last,
         NEW p, p = MoveRows(q, first, last, to)
  PROVE  /\ Sound(p) /\ Seated(p) /\ p.revised /\ p.places = q.places
         /\ HeardPlace(p) = HeardPlace(q)
<1> DEFINE heardD == HeardPlace(q)
           liftedD == Places(SubSeq(Drawn(q), first + 1, last + 1))
           passedD == Only(First(q.order, q.after), liftedD)
           queuedD == Only(q.next, liftedD)
           upcomingD == Only(Past(q.order, q.after), liftedD)
           orderD == Without(q.order, liftedD)
           nextD == Without(q.next, liftedD)
           keptD == Least(q.after, Len(q.order)) - Len(passedD)
           landingD == Landing(first, last, to)
           carriesD == heardD # NoPlace /\ heardD \in Places(First(queuedD, 1)) \cup
                   (IF passedD = <<>> THEN {} ELSE {passedD[Len(passedD)].place})
           waitsD == IF carriesD THEN "kept"
                     ELSE WaitsBeside(landingD, keptD, orderD, nextD, heardD)
           runD == passedD \o queuedD \o upcomingD
           intoOrderD == CASE waitsD = "kept" -> passedD \o upcomingD
                     [] waitsD = "in_order" -> runD
                     [] waitsD = "next" -> <<>>
           intoNextD == CASE waitsD = "kept" -> queuedD
                    [] waitsD = "in_order" -> <<>>
                    [] waitsD = "next" -> runD
           crossesD == \/ waitsD = "next" /\ passedD \o upcomingD # <<>>
                       \/ waitsD = "in_order" /\ queuedD # <<>>
           orderAtD == CASE landingD <= keptD -> landingD
                   [] landingD > keptD /\ landingD <= keptD + Len(nextD) -> keptD
                   [] OTHER -> landingD - Len(nextD)
           nextAtD == Least(IF landingD < keptD THEN 0 ELSE landingD - keptD, Len(nextD))
           landsBeforeD == IF q.seat = "next" THEN landingD <= keptD ELSE orderAtD < keptD
           afterD == CASE heardD = NoPlace -> Len(orderD) + Len(intoOrderD)
                 [] heardD # NoPlace /\ carriesD -> orderAtD + Len(passedD)
                 [] OTHER -> keptD + (IF landsBeforeD THEN Len(intoOrderD) ELSE 0)
           orderedD == Spliced(orderD, orderAtD, intoOrderD)
           waitingD == Spliced(nextD, nextAtD, intoNextD)
           playingFromD == CASE waitsD = "kept" -> q.playingFrom
                       [] waitsD = "in_order" -> With(q.playingFrom, queuedD)
                       [] waitsD = "next" -> Less(q.playingFrom, passedD \o upcomingD)
           frontedD == IF carriesD /\ q.seat = "next" /\ nextAtD > 0
                       THEN Fronted(waitingD, nextAtD) ELSE waitingD
           standingD == IF q.shuffle /\ crossesD
                        THEN UnshuffledIn(Without(q.unshuffled, Places(intoNextD)), orderedD,
                                          orderAtD, Len(intoOrderD))
                        ELSE q.unshuffled
<1>1. p = Revised([q EXCEPT !.order = orderedD, !.next = frontedD, !.unshuffled = standingD,
                            !.after = afterD, !.playingFrom = playingFromD])
  BY DEF MoveRows
<1>2. Shape(q) /\ Kinds(q)
  BY DEF Sound
<1>3. PICK inOrder, next : Stands(q, inOrder, next)
  BY DEF Sound
<1>4. PICK lifted : lifted = liftedD
  OBVIOUS
<1>5. PICK heard : heard = heardD
  OBVIOUS
<1>6. PICK passed, queued, upcoming, order, waitsOn :
        /\ passed = PassedOf(q, lifted) /\ queued = Only(q.next, lifted)
        /\ upcoming = UpcomingOf(q, lifted)
        /\ order = Without(q.order, lifted) /\ waitsOn = Without(q.next, lifted)
  OBVIOUS
<1>7. /\ passed = passedD /\ queued = queuedD /\ upcoming = upcomingD
      /\ order = orderD /\ waitsOn = nextD
  BY <1>4, <1>6 DEF PassedOf, UpcomingOf
<1> HIDE DEF passedD, queuedD, upcomingD, orderD, nextD, heardD
<1>8. PICK landing, kept : landing = landingD /\ kept = keptD
  OBVIOUS
<1>9. kept = Least(q.after, Len(q.order)) - Len(passed)
  BY <1>7, <1>8
<1>10. PICK carries \in BOOLEAN : carries = carriesD
  OBVIOUS
<1>11. carries <=> heard # NoPlace /\ heard \in Places(First(queued, 1)) \cup
                   (IF passed = <<>> THEN {} ELSE {passed[Len(passed)].place})
  BY <1>5, <1>7, <1>10
<1> HIDE DEF carriesD, keptD, landingD
<1>12. PICK kind : kind = WaitsKind(carries, landing, kept, order, waitsOn, heard)
  OBVIOUS
<1>13. kind = waitsD
  BY <1>5, <1>7, <1>8, <1>10, <1>12 DEF WaitsKind
<1> HIDE DEF waitsD
<1>14. PICK run : run = passed \o queued \o upcoming
  OBVIOUS
<1>15. run = runD
  BY <1>7, <1>14
<1> HIDE DEF runD
<1>16. PICK intoOrder, intoNext : intoOrder = intoOrderD /\ intoNext = intoNextD
  OBVIOUS
<1>17. /\ kind = "kept" => intoOrder = passed \o upcoming /\ intoNext = queued
       /\ kind = "in_order" => intoOrder = run /\ intoNext = <<>>
       /\ kind = "next" => intoOrder = <<>> /\ intoNext = run
  BY <1>7, <1>13, <1>15, <1>16
<1> HIDE DEF intoOrderD, intoNextD
<1>18. PICK orderAt, nextAt : orderAt = orderAtD /\ nextAt = nextAtD
  OBVIOUS
<1>19. /\ orderAt = CASE landing <= kept -> landing
                      [] landing > kept /\ landing <= kept + Len(waitsOn) -> kept
                      [] OTHER -> landing - Len(waitsOn)
       /\ nextAt = Least(IF landing < kept THEN 0 ELSE landing - kept, Len(waitsOn))
  BY <1>7, <1>8, <1>18
<1> HIDE DEF orderAtD, nextAtD
<1>20. PICK ordered, waiting : /\ ordered = Spliced(order, orderAt, intoOrder)
                               /\ waiting = Spliced(waitsOn, nextAt, intoNext)
  OBVIOUS
<1>21. ordered = orderedD /\ waiting = waitingD
  BY <1>7, <1>16, <1>18, <1>20
<1> HIDE DEF orderedD, waitingD
<1>22. PICK fronted : fronted = IF carries /\ q.seat = "next" /\ nextAt > 0
                                THEN Fronted(waiting, nextAt) ELSE waiting
  OBVIOUS
<1>23. fronted = frontedD
  BY <1>10, <1>18, <1>21, <1>22
<1> HIDE DEF frontedD
<1>24. PICK after : after = afterD
  OBVIOUS
<1>25. /\ heard = NoPlace => after = Len(order) + Len(intoOrder)
       /\ heard # NoPlace /\ carries => after = orderAt + Len(passed)
       /\ heard # NoPlace /\ ~carries =>
            after = kept + (IF (IF q.seat = "next" THEN landing <= kept ELSE orderAt < kept)
                            THEN Len(intoOrder) ELSE 0)
  BY <1>5, <1>7, <1>8, <1>10, <1>16, <1>18, <1>24
<1> HIDE DEF afterD, landsBeforeD
<1>26. PICK playingFrom : playingFrom = playingFromD
  OBVIOUS
<1>27. /\ kind = "kept" => playingFrom = q.playingFrom
       /\ kind = "in_order" => playingFrom = With(q.playingFrom, queued)
       /\ kind = "next" => playingFrom = Less(q.playingFrom, passed \o upcoming)
  BY <1>7, <1>13, <1>26
<1> HIDE DEF playingFromD
<1>28. PICK crosses \in BOOLEAN : crosses = crossesD
  OBVIOUS
<1>29. crosses <=> \/ kind = "next" /\ passed \o upcoming # <<>>
                   \/ kind = "in_order" /\ queued # <<>>
  BY <1>7, <1>13, <1>28
<1> HIDE DEF crossesD
<1>30. PICK standing : standing = IF q.shuffle /\ crosses
                        THEN UnshuffledIn(Without(q.unshuffled, Places(intoNext)), ordered,
                                          orderAt, Len(intoOrder))
                        ELSE q.unshuffled
  OBVIOUS
<1>31. standing = standingD
  BY <1>16, <1>18, <1>21, <1>28, <1>30
<1> HIDE DEF standingD
<1>32. p = Revised([q EXCEPT !.order = ordered, !.next = fronted, !.unshuffled = standing,
                             !.after = after, !.playingFrom = playingFrom])
  BY <1>1, <1>21, <1>23, <1>24, <1>26, <1>31
<1>33. /\ Shape(p) /\ p.order = ordered /\ p.next = fronted /\ p.unshuffled = standing
       /\ p.after = after /\ p.playingFrom = playingFrom
       /\ p.stamp = q.stamp /\ p.places = q.places /\ p.seat = q.seat /\ p.repeat = q.repeat
       /\ p.shuffle = q.shuffle /\ p.revised
  BY <1>2, <1>32 DEF Shape, Fields, Revised
<1>34. q.after \in Nat /\ q.after <= Len(q.order)
  BY <1>2 DEF Kinds, Seated
<1>35. PICK both, Q, KO, KN :
         /\ both = Of(inOrder, lifted) /\ Q = Of(next, lifted)
         /\ KO = NotOf(inOrder, lifted) /\ KN = NotOf(next, lifted)
  OBVIOUS
<1>36. /\ Lists(passed \o upcoming, both) /\ passed \in Seq(both) /\ upcoming \in Seq(both)
       /\ Lists(queued, Q) /\ Lists(run, both \cup Q) /\ Lists(order, KO) /\ Lists(waitsOn, KN)
  BY <1>3, <1>6, <1>14, <1>34, <1>35, LiftedLists
<1>37. /\ both \cup KO = inOrder /\ both \cap KO = {} /\ Q \cup KN = next /\ Q \cap KN = {}
       /\ inOrder \cap next = {} /\ Apart(inOrder \cup next)
  BY <1>3, <1>35 DEF Of, NotOf, Stands
<1>38. PICK no \in Nat, nn \in Nat, np \in Nat, nu \in Nat, nq \in Nat :
         /\ no = Len(order) /\ nn = Len(waitsOn) /\ np = Len(passed)
         /\ nu = Len(upcoming) /\ nq = Len(queued)
  BY <1>36 DEF Lists
<1>39. PICK began : began = First(q.order, q.after)
  OBVIOUS
<1>40. kept = Len(Without(began, lifted)) /\ kept \in Nat /\ kept <= no
  <2>1. Least(q.after, Len(q.order)) = q.after
    <3>1. Len(q.order) \in Nat
      BY <1>3, ListsOfASoundQueue
    <3>2. PICK a \in Int, b \in Int : a = q.after /\ b = Len(q.order) /\ a <= b
      BY <1>34, <3>1
    <3>3. Least(a, b) = a
      BY <3>2, LeastIs
    <3> QED BY <3>2, <3>3
  <2>10. PICK list : list = q.order
    OBVIOUS
  <2>11. PICK n \in Nat : n = q.after
    BY <1>34
  <2>2. n = q.after /\ list = q.order /\ n <= Len(list) /\ Lists(list, inOrder)
    BY <1>3, <1>34, <2>10, <2>11 DEF Stands
  <2>3. /\ n - Len(Only(First(list, n), lifted)) = Len(Without(First(list, n), lifted))
        /\ Len(Without(First(list, n), lifted)) \in Nat
        /\ Len(Without(First(list, n), lifted)) <= Len(Without(list, lifted))
    BY <2>2, SeatedPastIs
  <2>4. Len(passed) = Len(Only(First(list, n), lifted))
    BY <1>6, <2>2 DEF PassedOf
  <2> QED BY <1>6, <1>9, <1>38, <1>39, <2>1, <2>2, <2>3, <2>4
<1>41. landing \in Nat /\ (landing <= no + nn \/ lifted = {})
  <2>1. PICK size \in Nat : size = Size(q)
    <3>1. Len(q.order) \in Nat /\ Len(q.next) \in Nat
      BY <1>3, ListsOfASoundQueue
    <3>2. PICK l \in Nat, n \in Nat : l = Len(q.order) /\ n = Len(q.next)
      BY <3>1
    <3>3. Size(q) = l + n
      BY <3>2 DEF Size
    <3> QED BY <3>3
  <2>2. /\ landing \in Nat
        /\ first <= last => landing <= size - (last - first + 1)
    <3>1. landing = Landing(first, last, to)
      BY <1>8 DEF landingD
    <3>2. first \in 0..(size - 1) /\ last \in 0..(size - 1) /\ to \in 0..(size - 1)
      BY <2>1
    <3> QED BY <3>1, <3>2, LandsInside
  <2>3. lifted = Places(SubSeq(Drawn(q), first + 1, last + 1))
    BY <1>4
  <2>4. CASE first <= last
    <3>1. Len(Without(q.order, lifted)) + Len(Without(q.next, lifted))
            = Size(q) - (last - first + 1)
      BY <1>3, <1>34, <2>3, <2>4, LeftOfASpan
    <3> QED BY <1>6, <1>38, <2>1, <2>2, <2>4, <3>1
  <2>5. CASE ~(first <= last)
    <3>1. SubSeq(Drawn(q), first + 1, last + 1) = <<>>
      <4>1. first \in Nat /\ last \in Nat /\ last + 1 < first + 1
        BY <2>1, <2>5
      <4>2. PICK m \in Nat, n \in Nat : m = first + 1 /\ n = last + 1 /\ n < m
        BY <4>1
      <4>3. 1..(1 + n - m) = {}
        BY <4>2
      <4>4. PICK drawn : drawn = Drawn(q)
        OBVIOUS
      <4>5. drawn \in Seq(inOrder \cup next)
        BY <1>3, <1>34, <4>4, DrawnLists DEF Lists
      <4>6. SubSeq(drawn, m, n) = <<>>
        BY <4>2, <4>5
      <4> QED BY <4>2, <4>4, <4>6
    <3>2. Places(<<>>) = {}
      BY DEF Places
    <3>3. lifted = {}
      BY <2>3, <3>1, <3>2
    <3> QED BY <2>2, <3>3
  <2> QED BY <2>4, <2>5
<1>42. lifted = {} => passed = <<>> /\ upcoming = <<>> /\ queued = <<>> /\ run = <<>>
  <2>1. SUFFICES ASSUME lifted = {}
                 PROVE  passed = <<>> /\ upcoming = <<>> /\ queued = <<>> /\ run = <<>>
    OBVIOUS
  <2>2. both = {} /\ Q = {} /\ both \cup Q = {}
    BY <1>35, <2>1 DEF Of
  <2>3. queued = <<>> /\ run = <<>>
    BY <1>36, <2>2, EmptyLists
  <2>4. passed = <<>> /\ upcoming = <<>>
    BY <1>36, <2>2, EmptySeq
  <2> QED BY <2>3, <2>4
<1>43. /\ orderAt \in Nat /\ (orderAt <= no \/ lifted = {})
       /\ nextAt \in Nat /\ nextAt <= nn
       /\ (landing > kept /\ nn > 0 => nextAt > 0)
  <2>1. orderAt = CASE landing <= kept -> landing
                      [] landing > kept /\ landing <= kept + nn -> kept
                      [] OTHER -> landing - nn
    BY <1>19, <1>38
  <2>2. orderAt \in Nat /\ (landing <= no + nn => orderAt <= no)
    <3>1. CASE landing <= kept
      BY <1>40, <1>41, <2>1, <3>1
    <3>2. CASE landing > kept /\ landing <= kept + nn
      <4>1. ~(landing <= kept)
        BY <1>40, <1>41, <3>2
      <4> QED BY <1>40, <1>41, <2>1, <3>2, <4>1
    <3>3. CASE landing > kept + nn
      <4>1. ~(landing <= kept) /\ ~(landing <= kept + nn)
        BY <1>40, <1>41, <3>3
      <4>2. orderAt = landing - nn
        BY <2>1, <4>1
      <4> QED BY <1>40, <1>41, <3>3, <4>2
    <3> QED BY <1>40, <1>41, <3>1, <3>2, <3>3
  <2>3. PICK past \in Nat : past = (IF landing < kept THEN 0 ELSE landing - kept)
    BY <1>40, <1>41
  <2>4. nextAt = Least(past, nn)
    BY <1>19, <1>38, <2>3
  <2>5. nextAt \in Nat /\ nextAt <= nn /\ (past > 0 /\ nn > 0 => nextAt > 0)
    BY <2>4 DEF Least
  <2> QED BY <1>40, <1>41, <2>2, <2>3, <2>5
<1>44. kind \in {"kept", "in_order", "next"} /\ (carries <=> kind = "kept")
  BY <1>12, WaitsKinds
<1>45. PICK OI, NI :
         /\ kind = "kept" => OI = both /\ NI = Q
         /\ kind = "in_order" => OI = both \cup Q /\ NI = {}
         /\ kind = "next" => OI = {} /\ NI = both \cup Q
  <2>1. CASE kind = "kept"
    BY <2>1
  <2>2. CASE kind = "in_order"
    BY <2>2
  <2>3. CASE kind = "next"
    BY <2>3
  <2> QED BY <1>44, <2>1, <2>2, <2>3
<1>46. Lists(intoOrder, OI) /\ Lists(intoNext, NI)
  BY <1>17, <1>36, <1>44, <1>45, EmptyLists
<1>47. /\ OI \cup NI = both \cup Q /\ OI \cap NI = {} /\ KO \cap OI = {} /\ KN \cap NI = {}
       /\ KO \cap NI = {} /\ KN \cap OI = {}
  BY <1>37, <1>44, <1>45
<1>48. PICK orderSet, waitSet : orderSet = KO \cup OI /\ waitSet = KN \cup NI
  OBVIOUS
<1>49. Lists(ordered, orderSet) /\ Len(ordered) = Len(order) + Len(intoOrder)
  <2>1. Lists(order, KO) /\ Lists(intoOrder, OI) /\ KO \cap OI = {} /\ orderAt \in Nat
    BY <1>36, <1>43, <1>46, <1>47
  <2>2. /\ Lists(Spliced(order, orderAt, intoOrder), KO \cup OI)
        /\ Len(Spliced(order, orderAt, intoOrder)) = Len(order) + Len(intoOrder)
    BY <2>1, SplicedLists
  <2> QED BY <1>20, <1>48, <2>2
<1>50. Lists(waiting, waitSet) /\ Len(waiting) = Len(waitsOn) + Len(intoNext)
  <2>1. Lists(waitsOn, KN) /\ Lists(intoNext, NI) /\ KN \cap NI = {} /\ nextAt \in Nat
    BY <1>36, <1>43, <1>46, <1>47
  <2>2. /\ Lists(Spliced(waitsOn, nextAt, intoNext), KN \cup NI)
        /\ Len(Spliced(waitsOn, nextAt, intoNext)) = Len(waitsOn) + Len(intoNext)
    BY <2>1, SplicedLists
  <2> QED BY <1>20, <1>48, <2>2
<1>51. orderSet \cap waitSet = {} /\ orderSet \cup waitSet = inOrder \cup next
  BY <1>37, <1>47, <1>48
<1>52. PICK ni \in Nat, no2 \in Nat : ni = Len(intoNext) /\ no2 = Len(intoOrder)
  BY <1>46 DEF Lists
<1>53. /\ \A r \in inOrder \cup next : r.place # NoPlace
       /\ q.seat = "nowhere" => heard = NoPlace
       /\ q.seat = "in_order" => /\ q.after \in 1..Len(q.order) /\ q.order[q.after] \in inOrder
                                 /\ heard = q.order[q.after].place
       /\ q.seat = "next" => q.next[1] \in next /\ heard = q.next[1].place
  BY <1>2, <1>3, <1>5, HeardIs DEF heardD
<1>54. \A a, b \in inOrder \cup next : a.place = b.place => a = b
  BY <1>37 DEF Apart
<1>55. /\ both \in SUBSET inOrder /\ Q \in SUBSET next
       /\ queued # <<>> => queued[1] \in Q
       /\ passed # <<>> => passed[np] \in both /\ np \in 1..np
  <2>1. queued # <<>> => queued[1] \in Q
    BY <1>36, HeadAndRest
  <2>2. passed # <<>> => np # 0
    BY <1>36, <1>38
  <2>3. passed # <<>> => np \in 1..np
    BY <2>2
  <2>4. passed # <<>> => passed[np] \in both
    BY <1>36, <1>38, <2>3, ElementOfSeq
  <2> QED BY <1>37, <2>1, <2>3, <2>4
<1>56. /\ carries => heard # NoPlace /\ (queued # <<>> \/ passed # <<>>)
       /\ carries /\ q.seat = "next" => queued # <<>> /\ queued[1].place = heard
       /\ carries /\ q.seat = "in_order" => passed # <<>> /\ passed[np].place = heard
  <2>1. carries => heard # NoPlace /\ (\/ queued # <<>> /\ queued[1].place = heard
                                       \/ passed # <<>> /\ passed[np].place = heard)
    <3>1. heard \in Places(First(queued, 1)) <=> queued # <<>> /\ queued[1].place = heard
      BY <1>36, FirstPlace
    <3> QED BY <1>11, <1>38, <3>1
  <2>2. ASSUME q.seat = "next", passed # <<>>, passed[np].place = heard PROVE FALSE
    BY <1>37, <1>53, <1>54, <1>55, <2>2
  <2>3. ASSUME q.seat = "in_order", queued # <<>>, queued[1].place = heard PROVE FALSE
    BY <1>37, <1>53, <1>54, <1>55, <2>3
  <2> QED BY <2>1, <2>2, <2>3
<1>57. q.seat = "in_order" /\ ~carries => kept \in 1..no /\ order[kept] = q.order[q.after]
  <2>1. SUFFICES ASSUME q.seat = "in_order", ~carries
                 PROVE  kept \in 1..no /\ order[kept] = q.order[q.after]
    OBVIOUS
  <2>2. PICK list, at : list = q.order /\ at = q.after
    OBVIOUS
  <2>3. Lists(list, inOrder) /\ at \in 1..Len(list) /\ began = First(list, at)
    BY <1>3, <1>39, <1>53, <2>1, <2>2 DEF Stands
  <2>4. /\ list[at].place \in lifted =>
              /\ Only(began, lifted) # <<>>
              /\ Only(began, lifted)[Len(Only(began, lifted))] = list[at]
        /\ list[at].place \notin lifted =>
              /\ Len(Without(began, lifted)) \in 1..Len(Without(list, lifted))
              /\ Without(list, lifted)[Len(Without(began, lifted))] = list[at]
    BY <2>3, LastKept
  <2>5. passed = Only(began, lifted)
    BY <1>6, <1>39 DEF PassedOf
  <2>6. CASE list[at].place \in lifted
    <3>1. passed # <<>> /\ passed[Len(passed)] = list[at]
      BY <2>4, <2>5, <2>6
    <3>2. heard = list[at].place /\ heard # NoPlace
      BY <1>53, <2>1, <2>2
    <3> QED BY <1>11, <2>1, <3>1, <3>2
  <2>7. CASE list[at].place \notin lifted
    BY <1>6, <1>38, <1>40, <2>2, <2>4, <2>7
  <2> QED BY <2>6, <2>7
<1>58. q.seat = "next" /\ ~carries => waitsOn # <<>> /\ waitsOn[1].place = heard
  <2>1. SUFFICES ASSUME q.seat = "next", ~carries
                 PROVE  waitsOn # <<>> /\ waitsOn[1].place = heard
    OBVIOUS
  <2>2. PICK list : list = q.next
    OBVIOUS
  <2>3. Lists(list, next) /\ list # <<>> /\ heard = list[1].place /\ heard # NoPlace
    BY <1>3, <1>53, <2>1, <2>2 DEF Stands, Seated
  <2>4. /\ list[1].place \in lifted => Only(list, lifted) # <<>> /\ Only(list, lifted)[1] = list[1]
        /\ list[1].place \notin lifted =>
              Without(list, lifted) # <<>> /\ Without(list, lifted)[1] = list[1]
    BY <2>3, FirstKept
  <2>5. CASE list[1].place \in lifted
    <3>1. queued # <<>> /\ queued[1].place = heard
      BY <1>6, <2>2, <2>3, <2>4, <2>5
    <3>2. heard \in Places(First(queued, 1))
      BY <1>36, <3>1, FirstPlace
    <3> QED BY <1>11, <2>1, <2>3, <3>2
  <2>6. CASE list[1].place \notin lifted
    BY <1>6, <2>2, <2>3, <2>4, <2>6
  <2> QED BY <2>5, <2>6
<1>59. kind = "next" => \/ landing > kept
                        \/ \E r \in inOrder : r.place = heard
  <2>1. SUFFICES ASSUME kind = "next"
                 PROVE  landing > kept \/ \E r \in inOrder : r.place = heard
    OBVIOUS
  <2>2. WaitsBeside(landing, kept, order, waitsOn, heard) = "next"
    BY <1>12, <2>1 DEF WaitsKind
  <2>3. \/ landing > kept /\ landing <= kept + Len(waitsOn)
        \/ \E i \in 1..Len(order) : order[i].place = heard
    BY <1>38, <1>40, <1>41, <2>2, WaitsWhere
  <2>4. \A i \in 1..Len(order) : order[i] \in inOrder
    <3>1. order \in Seq(KO)
      BY <1>36 DEF Lists
    <3> QED BY <1>37, <3>1, ElementOfSeq
  <2> QED BY <2>3, <2>4
<1>60. /\ orderAt <= no => /\ \A i \in 1..orderAt : ordered[i] = order[i]
                           /\ \A i \in 1..no2 : ordered[orderAt + i] = intoOrder[i]
                           /\ \A i \in (orderAt + 1)..no : ordered[no2 + i] = order[i]
       /\ lifted = {} => ordered = order /\ no2 = 0
  <2>1. order \in Seq(orderSet) /\ intoOrder \in Seq(orderSet)
    BY <1>36, <1>46, <1>48, ListOfMore
  <2>2. ASSUME orderAt <= no PROVE PutInto(ordered, order, intoOrder, orderAt)
    BY <1>20, <1>38, <1>43, <2>1, <2>2, SpliceIs
  <2>3. ASSUME lifted = {} PROVE ordered = order /\ no2 = 0
    <3>1. intoOrder = <<>>
      <4>1. passed = <<>> /\ upcoming = <<>> /\ run = <<>> /\ <<>> \o <<>> = <<>>
        BY <1>42, <2>3
      <4> QED BY <1>17, <1>44, <4>1
    <3>2. First(order, orderAt) \o <<>> \o Past(order, orderAt) = order
      BY <1>43, <2>1, CutJoins
    <3> QED BY <1>20, <1>52, <3>1, <3>2 DEF Spliced
  <2>4. orderAt <= no => PutInto(ordered, order, intoOrder, orderAt)
    BY <2>2
  <2> QED BY <1>38, <1>52, <2>3, <2>4 DEF PutInto
<1>61. /\ \A i \in 1..nextAt : waiting[i] = waitsOn[i]
       /\ \A i \in 1..ni : waiting[nextAt + i] = intoNext[i]
       /\ intoNext = <<>> => waiting = waitsOn
  <2>1. waitsOn \in Seq(waitSet) /\ intoNext \in Seq(waitSet)
    BY <1>36, <1>46, <1>48, ListOfMore
  <2>2. PutInto(waiting, waitsOn, intoNext, nextAt)
    BY <1>20, <1>38, <1>43, <2>1, SpliceIs
  <2>3. First(waitsOn, nextAt) \o <<>> \o Past(waitsOn, nextAt) = waitsOn
    BY <1>43, <2>1, CutJoins
  <2> QED BY <1>20, <1>52, <2>2, <2>3 DEF PutInto, Spliced
<1>62. PICK nw \in Nat : nw = Len(waiting) /\ nw = nn + ni
  BY <1>38, <1>50, <1>52
<1>63. /\ Lists(fronted, waitSet)
       /\ q.seat = "next" => fronted # <<>> /\ fronted[1].place = heard
  <2>1. CASE carries /\ q.seat = "next"
    <3>1. intoNext = queued /\ queued # <<>> /\ queued[1].place = heard
      BY <1>17, <1>44, <1>56, <2>1
    <3>2. ni > 0
      <4>1. queued \in Seq(Q)
        BY <1>36 DEF Lists
      <4>2. Len(queued) # 0
        BY <3>1, <4>1, EmptySeq
      <4> QED BY <1>52, <3>1, <4>2
    <3>3. waiting[nextAt + 1] = queued[1]
      <4>1. 1 \in 1..ni
        BY <3>2
      <4> QED BY <1>61, <3>1, <4>1
    <3>4. CASE nextAt > 0
      <4>1. nextAt \in 0..(Len(waiting) - 1)
        BY <1>43, <1>62, <3>2
      <4>2. /\ Lists(Fronted(waiting, nextAt), waitSet)
            /\ Fronted(waiting, nextAt)[1] = waiting[nextAt + 1]
            /\ Fronted(waiting, nextAt) # <<>>
        BY <1>50, <4>1, FrontedLists
      <4> QED BY <1>22, <2>1, <3>1, <3>3, <3>4, <4>2
    <3>5. CASE ~(nextAt > 0)
      <4>1. nextAt = 0 /\ nextAt + 1 = 1
        BY <1>43, <3>5
      <4>2. fronted = waiting
        BY <1>22, <3>5
      <4>3. waiting # <<>>
        <5>1. nw # 0
          BY <1>62, <3>2
        <5> QED BY <1>62, <5>1
      <4>4. waiting[1].place = heard
        BY <3>1, <3>3, <4>1
      <4> QED BY <1>50, <4>2, <4>3, <4>4
    <3> QED BY <3>4, <3>5
  <2>2. CASE ~carries /\ q.seat = "next"
    <3>1. waitsOn # <<>> /\ waitsOn[1].place = heard /\ fronted = waiting
      BY <1>22, <1>58, <2>2
    <3>2. CASE kind = "in_order"
      <4>1. waiting = waitsOn
        BY <1>17, <1>61, <3>2
      <4> QED BY <1>50, <3>1, <4>1
    <3>3. CASE kind = "next"
      <4>1. landing > kept
        <5>1. ~ \E r \in inOrder : r.place = heard
          BY <1>37, <1>53, <1>54, <2>2
        <5> QED BY <1>59, <3>3, <5>1
      <4>2. nn > 0
        <5>1. waitsOn \in Seq(KN)
          BY <1>36 DEF Lists
        <5>2. Len(waitsOn) # 0
          BY <3>1, <5>1, EmptySeq
        <5> QED BY <1>38, <5>2
      <4>3. nextAt > 0 /\ 1 \in 1..nextAt
        BY <1>43, <4>1, <4>2
      <4>4. waiting[1] = waitsOn[1]
        BY <1>61, <4>3
      <4>5. waiting # <<>>
        <5>1. nw # 0
          BY <1>62, <4>2
        <5> QED BY <1>62, <5>1
      <4> QED BY <1>50, <3>1, <4>4, <4>5
    <3> QED BY <1>44, <2>2, <3>2, <3>3
  <2>3. CASE q.seat # "next"
    BY <1>22, <1>50, <2>3
  <2> QED BY <2>1, <2>2, <2>3
<1>64. playingFrom = Marked(orderSet)
  <2>1. q.playingFrom = Marked(inOrder)
    BY <1>3 DEF Stands
  <2>2. CASE kind = "kept"
    <3>1. orderSet = inOrder
      BY <1>37, <1>45, <1>48, <2>2
    <3> QED BY <1>27, <2>1, <2>2, <3>1
  <2>3. CASE kind = "in_order"
    <3>1. orderSet = inOrder \cup Q /\ inOrder \cap Q = {}
      BY <1>37, <1>45, <1>48, <2>3
    <3>2. Apart(inOrder \cup Q)
      BY <1>37, <1>55 DEF Apart
    <3>3. With(Marked(inOrder), queued) = Marked(inOrder \cup Q)
      BY <1>36, <3>1, <3>2, JoinedStamp
    <3> QED BY <1>27, <2>1, <2>3, <3>1, <3>3
  <2>4. CASE kind = "next"
    <3>1. orderSet = inOrder \ both
      BY <1>37, <1>45, <1>48, <2>4
    <3>2. PICK list : list = passed \o upcoming
      OBVIOUS
    <3>3. Lists(list, both) /\ both \in SUBSET inOrder /\ Apart(inOrder)
      BY <1>36, <1>37, <1>55, <3>2 DEF Apart
    <3>4. Less(Marked(inOrder), list) = Marked(inOrder \ both)
      BY <3>3, LeftStamp
    <3> QED BY <1>27, <2>1, <2>4, <3>1, <3>2, <3>4
  <2> QED BY <1>44, <2>2, <2>3, <2>4
<1>65. IF q.shuffle THEN Lists(standing, orderSet) ELSE standing = <<>>
  <2>1. CASE ~q.shuffle
    BY <1>3, <1>30, <2>1 DEF Stands
  <2>2. CASE q.shuffle /\ ~crosses
    <3>1. standing = q.unshuffled /\ Lists(q.unshuffled, inOrder)
      BY <1>3, <1>30, <2>2 DEF Stands
    <3>2. CASE kind = "kept"
      BY <1>37, <1>45, <1>48, <2>2, <3>1, <3>2
    <3>3. CASE kind = "in_order"
      <4>1. queued = <<>>
        BY <1>29, <2>2, <3>3
      <4>2. Q = {}
        <5>1. Lists(<<>>, Q)
          BY <1>36, <4>1
        <5>2. ToSet(<<>>) = Q
          BY <5>1, ListIsAList
        <5>3. ToSet(<<>>) = {}
          BY EmptyLists, ListIsAList
        <5> QED BY <5>2, <5>3
      <4>3. orderSet = inOrder
        BY <1>37, <1>45, <1>48, <3>3, <4>2
      <4> QED BY <2>2, <3>1, <4>3
    <3>4. CASE kind = "next"
      <4>1. passed \o upcoming = <<>>
        BY <1>29, <2>2, <3>4
      <4>2. both = {}
        <5>1. Lists(<<>>, both)
          BY <1>36, <4>1
        <5>2. ToSet(<<>>) = both
          BY <5>1, ListIsAList
        <5>3. ToSet(<<>>) = {}
          BY EmptyLists, ListIsAList
        <5> QED BY <5>2, <5>3
      <4>3. orderSet = inOrder
        BY <1>37, <1>45, <1>48, <3>4, <4>2
      <4> QED BY <2>2, <3>1, <4>3
    <3> QED BY <1>44, <3>2, <3>3, <3>4
  <2>3. CASE q.shuffle /\ crosses
    <3>1. PICK old : old = q.unshuffled
      OBVIOUS
    <3>2. Lists(old, inOrder)
      BY <1>3, <2>3, <3>1 DEF Stands
    <3>3. orderAt <= no
      <4>1. CASE lifted = {}
        <5>1. queued = <<>> /\ passed \o upcoming = <<>>
          <6>1. passed = <<>> /\ upcoming = <<>> /\ queued = <<>> /\ <<>> \o <<>> = <<>>
            BY <1>42, <4>1
          <6> QED BY <6>1
        <5> QED BY <1>29, <2>3, <5>1
      <4> QED BY <1>43, <4>1
    <3>4. (inOrder \ NI) \cup OI = KO \cup OI
      BY <1>29, <1>37, <1>45, <2>3
    <3>5. Apart(inOrder \cup NI) /\ Apart(inOrder \cup KO \cup OI)
      <4>1. NI \in SUBSET (inOrder \cup next) /\ OI \in SUBSET (inOrder \cup next)
            /\ KO \in SUBSET (inOrder \cup next)
        BY <1>37, <1>47
      <4> QED BY <1>54, <4>1 DEF Apart
    <3>6. orderAt \in Nat /\ orderAt <= Len(order)
      BY <1>38, <1>43, <3>3
    <3>7. Lists(UnshuffledIn(Without(old, Places(intoNext)), ordered, orderAt, Len(intoOrder)),
                KO \cup OI)
      BY <1>20, <1>36, <1>46, <1>47, <3>2, <3>4, <3>5, <3>6, StandsMoved
    <3> QED BY <1>30, <1>48, <2>3, <3>1, <3>7
  <2> QED BY <2>1, <2>2, <2>3
<1>66. Stands(p, orderSet, waitSet)
  <2>1. p.stamp = Marked(orderSet \cup waitSet)
    BY <1>3, <1>33, <1>51 DEF Stands
  <2>2. Apart(orderSet \cup waitSet) /\ orderSet \cup waitSet \in SUBSET GivenOut(p.places)
    BY <1>3, <1>33, <1>51 DEF Stands
  <2> QED BY <1>33, <1>49, <1>51, <1>63, <1>64, <1>65, <2>1, <2>2 DEF Stands
<1>67. Len(ordered) = no + no2
  BY <1>38, <1>49, <1>52
<1>68. carries => orderAt <= no /\ no2 = np + nu /\ intoOrder = passed \o upcoming
  <2>1. SUFFICES ASSUME carries PROVE orderAt <= no /\ no2 = np + nu
                                      /\ intoOrder = passed \o upcoming
    OBVIOUS
  <2>2. lifted # {}
    BY <1>42, <1>56, <2>1
  <2>3. intoOrder = passed \o upcoming
    BY <1>17, <1>44, <2>1
  <2>4. Len(passed \o upcoming) = Len(passed) + Len(upcoming)
    BY <1>36
  <2> QED BY <1>38, <1>43, <1>52, <2>2, <2>3, <2>4
<1>69. CASE q.seat = "nowhere"
  <2>1. heard = NoPlace /\ ~carries /\ q.next = <<>>
    BY <1>53, <1>56, <1>69 DEF Seated
  <2>2. after = no + no2
    BY <1>25, <1>38, <1>52, <2>1
  <2>3. kind = "in_order"
    <3>1. CASE kind = "next"
      <4>1. WaitsBeside(landing, kept, order, waitsOn, heard) = "next"
        BY <1>12, <2>1, <3>1 DEF WaitsKind
      <4>2. \/ landing > kept /\ landing <= kept + Len(waitsOn)
            \/ \E i \in 1..Len(order) : order[i].place = heard
        BY <1>38, <1>40, <1>41, <4>1, WaitsWhere
      <4>3. \A i \in 1..Len(order) : order[i] \in inOrder
        <5>1. order \in Seq(KO)
          BY <1>36 DEF Lists
        <5> QED BY <1>37, <5>1, ElementOfSeq
      <4>4. nn = 0
        <5>1. Lists(<<>>, next)
          BY <1>3, <2>1 DEF Stands
        <5>2. next = {}
          BY <5>1, EmptyLists, ListIsAList
        <5>3. KN = {}
          BY <1>37, <5>2
        <5>4. waitsOn = <<>>
          BY <1>36, <5>3, EmptyLists
        <5> QED BY <1>38, <5>4
      <4>5. ~(landing > kept /\ landing <= kept + Len(waitsOn))
        BY <1>38, <1>40, <1>41, <4>4
      <4> QED BY <1>53, <2>1, <4>2, <4>3, <4>5
    <3> QED BY <1>44, <2>1, <3>1
  <2>4. fronted = <<>>
    <3>1. Lists(<<>>, next)
      BY <1>3, <2>1 DEF Stands
    <3>2. next = {}
      BY <3>1, EmptyLists, ListIsAList
    <3>3. waitSet = {}
      BY <1>37, <1>45, <1>48, <2>3, <3>2
    <3> QED BY <1>63, <3>3, EmptyLists
  <2>5. Seated(p)
    BY <1>33, <1>67, <1>69, <2>2, <2>4 DEF Seated
  <2>6. Kinds(p)
    BY <1>2, <1>33, <2>2 DEF Kinds
  <2>7. HeardPlace(p) = heard
    BY <1>33, <1>69, <2>1 DEF HeardPlace
  <2> QED BY <1>5, <1>33, <1>66, <2>5, <2>6, <2>7 DEF Sound, heardD
<1>70. CASE q.seat = "next"
  <2>1. heard # NoPlace
    BY <1>37, <1>53, <1>70
  <2>2. after \in Nat /\ after <= no + no2
    <3>1. CASE carries
      <4>1. after = orderAt + np
        BY <1>25, <1>38, <2>1, <3>1
      <4> QED BY <1>43, <1>68, <3>1, <4>1
    <3>2. CASE ~carries
      <4>1. after = kept + (IF landing <= kept THEN no2 ELSE 0)
        BY <1>25, <1>52, <1>70, <2>1, <3>2
      <4> QED BY <1>40, <1>41, <4>1
    <3> QED BY <3>1, <3>2
  <2>3. Seated(p)
    BY <1>33, <1>63, <1>67, <1>70, <2>2 DEF Seated
  <2>4. Kinds(p)
    BY <1>2, <1>33, <2>2 DEF Kinds
  <2>5. HeardPlace(p) = heard
    BY <1>33, <1>63, <1>70 DEF HeardPlace
  <2> QED BY <1>5, <1>33, <1>66, <2>3, <2>4, <2>5 DEF Sound, heardD
<1>71. CASE q.seat = "in_order"
  <2>1. heard # NoPlace
    BY <1>37, <1>53, <1>71
  <2>2. after \in 1..(no + no2) /\ ordered[after].place = heard
    <3>1. CASE carries
      <4>1. after = orderAt + np /\ passed # <<>> /\ passed[np].place = heard /\ np \in 1..np
        BY <1>25, <1>38, <1>55, <1>56, <1>71, <2>1, <3>1
      <4>2. orderAt <= no /\ no2 = np + nu /\ intoOrder = passed \o upcoming
        BY <1>68, <3>1
      <4>3. np \in 1..no2
        BY <4>1, <4>2
      <4>4. intoOrder[np] = passed[np]
        BY <1>36, <1>38, <4>1, <4>2
      <4>5. ordered[orderAt + np] = intoOrder[np]
        BY <1>60, <4>2, <4>3
      <4>6. orderAt + np \in 1..(no + no2)
        BY <1>43, <4>1, <4>2, <4>3
      <4> QED BY <4>1, <4>4, <4>5, <4>6
    <3>2. CASE ~carries
      <4>1. kept \in 1..no /\ order[kept].place = heard
        BY <1>53, <1>57, <1>71, <3>2
      <4>2. after = kept + (IF orderAt < kept THEN no2 ELSE 0)
        BY <1>25, <1>52, <1>71, <2>1, <3>2
      <4>3. CASE orderAt <= no /\ orderAt < kept
        <5>1. after = no2 + kept /\ kept \in (orderAt + 1)..no
          BY <1>40, <1>43, <4>1, <4>2, <4>3
        <5>2. ordered[no2 + kept] = order[kept]
          BY <1>60, <4>3, <5>1
        <5>3. after \in 1..(no + no2)
          BY <4>1, <5>1
        <5> QED BY <4>1, <5>1, <5>2, <5>3
      <4>4. CASE orderAt <= no /\ ~(orderAt < kept)
        <5>1. after = kept /\ kept \in 1..orderAt
          BY <1>40, <1>43, <4>1, <4>2, <4>4
        <5>2. ordered[kept] = order[kept]
          BY <1>60, <4>4, <5>1
        <5>3. after \in 1..(no + no2)
          BY <4>1, <5>1
        <5> QED BY <4>1, <5>1, <5>2, <5>3
      <4>5. CASE lifted = {}
        <5>1. ordered = order /\ no2 = 0
          BY <1>60, <4>5
        <5>2. after = kept
          BY <4>1, <4>2, <5>1
        <5> QED BY <4>1, <5>1, <5>2
      <4> QED BY <1>43, <4>3, <4>4, <4>5
    <3> QED BY <3>1, <3>2
  <2>3. after \in Nat /\ after <= no + no2 /\ after > 0
    BY <2>2
  <2>4. Seated(p)
    BY <1>33, <1>67, <1>71, <2>3 DEF Seated
  <2>5. Kinds(p)
    BY <1>2, <1>33, <2>3 DEF Kinds
  <2>6. HeardPlace(p) = heard
    BY <1>33, <1>67, <1>71, <2>2 DEF HeardPlace, LastHeard
  <2> QED BY <1>5, <1>33, <1>66, <2>4, <2>5, <2>6 DEF Sound, heardD
<1> QED BY <1>2, <1>69, <1>70, <1>71 DEF Kinds, Seats


-----------------------------------------------------------------------------
(* Every command.                                                           *)

LEMMA BoundedLists ==
  ASSUME NEW set, NEW n \in Int, NEW list \in BoundedSeq(set, n)
  PROVE  list \in Seq(set) /\ Len(list) <= n /\ Len(list) \in Nat
<1>1. PICK m \in 0..n : list \in [1..m -> set]
  BY DEF BoundedSeq, SeqOf
<1>2. m \in Nat /\ m <= n
  BY <1>1
<1>3. list \in Seq(set) /\ Len(list) = m
  BY <1>1, <1>2
<1> QED BY <1>2, <1>3

LEMMA ArrivingLists ==
  ASSUME NEW items \in Arrivals
  PROVE  items \in Seq(Items) /\ Len(items) > 0 /\ Len(items) <= MaxArrivals
<1>1. items \in BoundedSeq(Items, MaxArrivals) /\ items # <<>>
  BY DEF Arrivals
<1>2. MaxArrivals \in Int
  BY QueueAssumption
<1>3. items \in Seq(Items) /\ Len(items) <= MaxArrivals /\ Len(items) \in Nat
  BY <1>1, <1>2, BoundedLists
<1>4. Len(items) # 0
  BY <1>1, <1>3, EmptySeq
<1> QED BY <1>3, <1>4

LEMMA PlacesBounded ==
  ASSUME NEW q, Kinds(q)
  PROVE  q.places \in Nat /\ q.places <= MaxPlaces
BY QueueAssumption DEF Kinds

\* A command that keeps the queue sound shows what it leaves.
LEMMA CommandedKeeps ==
  ASSUME IInv, NEW queues, \A q \in queues : Sound(q) /\ Seated(q) /\ Seen(queue, q),
         Commanded(queues)
  PROVE  IInv'
<1>1. PICK q \in queues :
        /\ queue' = [q EXCEPT !.revised = FALSE]
        /\ shown' = IF q.revised THEN Published(q) ELSE shown
  BY DEF Commanded, PublishQueue
<1>2. Sound(q) /\ Seated(q) /\ Seen(queue, q) /\ Shape(q) /\ Kinds(q)
  BY <1>1 DEF Sound
<1> PICK p : p = queue'
  OBVIOUS
<1>3. p = [q EXCEPT !.revised = FALSE]
  BY <1>1
<1>4. /\ Shape(p) /\ p.order = q.order /\ p.next = q.next /\ p.unshuffled = q.unshuffled
      /\ p.places = q.places /\ p.after = q.after /\ p.seat = q.seat /\ p.repeat = q.repeat
      /\ p.shuffle = q.shuffle /\ p.stamp = q.stamp /\ p.playingFrom = q.playingFrom
      /\ p.revised = FALSE
  BY <1>2, <1>3 DEF Shape, Fields
<1>5. Kinds(p)
  BY <1>2, <1>4 DEF Kinds
<1>6. PICK inOrder, next : Stands(q, inOrder, next)
  BY <1>2 DEF Sound
<1>7. Stands(p, inOrder, next)
  BY <1>4, <1>6 DEF Stands
<1>8. Sound(p) /\ Seated(p)
  BY <1>2, <1>4, <1>5, <1>7 DEF Sound, Seated
<1>9. Published(p) = Published(q)
  BY <1>4, SameShown
<1>10. shown' = Published(q)
  <2>1. CASE q.revised
    BY <1>1, <2>1
  <2>2. CASE ~q.revised
    <3>1. Published(q) = Published(queue)
      BY <1>2, <2>2 DEF Seen
    <3> QED BY <1>1, <2>2, <3>1 DEF IInv
  <2> QED BY <2>1, <2>2
<1> QED BY <1>4, <1>8, <1>9, <1>10 DEF IInv

LEMMA PositionsAre ==
  ASSUME NEW q, Sound(q), Seated(q)
  PROVE  Size(q) \in Nat /\ Len(Waiting(q)) \in Nat
<1>1. PICK inOrder, next : Stands(q, inOrder, next)
  BY DEF Sound
<1>2. Len(q.order) \in Nat /\ Len(q.next) \in Nat /\ q.next \in Seq(next)
  BY <1>1, ListsOfASoundQueue
<1>3. Waiting(q) \in Seq(next)
  BY <1>2, WaitingIs
<1>4. Len(Waiting(q)) \in Nat
  <2> PICK waiting : waiting = Waiting(q)
    OBVIOUS
  <2>1. waiting \in Seq(next)
    BY <1>3
  <2> QED BY <2>1
<1>5. \A m, n \in Nat : m + n \in Nat
  OBVIOUS
<1>6. Size(q) \in Nat
  BY <1>2, <1>5 DEF Size
<1> QED BY <1>4, <1>6

LEMMA LoadCommanded == ASSUME IInv, CommandLoad PROVE IInv'
<1>1. PICK items \in BoundedSeq(Items, MaxPlaces - Len(Waiting(queue))),
           start \in 0..MaxPlaces : Commanded(Load(queue, items, start))
  BY DEF CommandLoad
<1>2. Sound(queue) /\ Seated(queue)
  BY DEF IInv
<1>3. Len(Waiting(queue)) \in Nat /\ MaxPlaces \in Nat
  BY <1>2, PositionsAre, QueueAssumption
<1>4. items \in Seq(Items) /\ Len(items) + Len(Waiting(queue)) <= MaxPlaces
  <2>1. PICK n \in Int : n = MaxPlaces - Len(Waiting(queue))
    BY <1>3
  <2>2. items \in Seq(Items) /\ Len(items) <= n /\ Len(items) \in Nat
    BY <1>1, <2>1, BoundedLists
  <2> QED BY <1>3, <2>1, <2>2
<1>5. start \in Nat
  BY <1>3
<1>6. \A q \in Load(queue, items, start) : Sound(q) /\ Seated(q) /\ Seen(queue, q)
  BY <1>2, <1>4, <1>5, LoadKeeps
<1> QED BY <1>1, <1>6, CommandedKeeps

LEMMA ResumeCommanded == ASSUME IInv, CommandResume PROVE IInv'
<1>0. PICK rows \in BoundedSeq(Items, MaxPlaces) :
        \E order \in SetToSeqs(0..(Len(rows) - 1)) \cup {<<>>}, row \in 0..Len(rows),
           next \in {<<>>} \cup {span \in (0..Len(rows)) \X (0..Len(rows)) : span[1] <= span[2]},
           shuffle \in BOOLEAN :
          Commanded({Restore(queue, [rows |-> rows, order |-> order, row |-> row,
                                     next |-> next, shuffle |-> shuffle])})
  BY DEF CommandResume
<1>1. PICK order \in SetToSeqs(0..(Len(rows) - 1)) \cup {<<>>}, row \in 0..Len(rows),
           next \in {<<>>} \cup {span \in (0..Len(rows)) \X (0..Len(rows)) : span[1] <= span[2]},
           shuffle \in BOOLEAN :
        Commanded({Restore(queue, [rows |-> rows, order |-> order, row |-> row,
                                   next |-> next, shuffle |-> shuffle])})
  BY <1>0
<1>2. Sound(queue)
  BY DEF IInv
<1>3. PICK resumption : resumption = [rows |-> rows, order |-> order, row |-> row,
                                      next |-> next, shuffle |-> shuffle]
  OBVIOUS
<1>4. MaxPlaces \in Int
  BY QueueAssumption
<1>5. rows \in Seq(Items) /\ Len(rows) <= MaxPlaces /\ Len(rows) \in Nat
  BY <1>4, BoundedLists
<1>6. next = <<>> \/ (next[1] \in Nat /\ next[2] \in Nat /\ next[1] <= next[2])
  BY <1>5
<1>7. row \in Nat
  BY <1>5
<1>8. /\ resumption.rows \in Seq(Items) /\ Len(resumption.rows) <= MaxPlaces
      /\ resumption.row \in Nat /\ resumption.shuffle \in BOOLEAN
      /\ \/ resumption.next = <<>>
         \/ /\ resumption.next[1] \in Nat /\ resumption.next[2] \in Nat
            /\ resumption.next[1] <= resumption.next[2]
  BY <1>3, <1>5, <1>6, <1>7
<1>9. PICK p : p = Restore(queue, resumption)
  OBVIOUS
<1>10. Sound(p) /\ Seated(p) /\ Seen(queue, p)
  BY <1>2, <1>8, <1>9, RestoreKeeps
<1>11. Commanded({p})
  BY <1>1, <1>3, <1>9
<1>12. \A q \in {p} : Sound(q) /\ Seated(q) /\ Seen(queue, q)
  BY <1>10
<1> QED BY <1>11, <1>12, CommandedKeeps

LEMMA InsertsCommanded ==
  ASSUME IInv, CommandInsert \/ CommandInsertAt
  PROVE  IInv'
<1>1. PICK items \in Arrivals, placement \in {"next", "queued", "at"},
           row \in 0..(Size(queue) + 1) :
        Bounded(items) /\ Commanded({Insert(queue, items, placement, row)})
  <2>1. CASE CommandInsert
    <3>1. 0 \in 0..(Size(queue) + 1)
      BY PositionsAre DEF IInv
    <3> QED BY <2>1, <3>1 DEF CommandInsert
  <2>2. CASE CommandInsertAt
    BY <2>2 DEF CommandInsertAt
  <2> QED BY <2>1, <2>2
<1>2. Sound(queue) /\ Seated(queue)
  BY DEF IInv
<1>3. items \in Seq(Items) /\ Len(items) > 0
  BY ArrivingLists
<1>4. queue.places + Len(items) <= MaxPlaces
  BY <1>1 DEF Bounded
<1>5. row \in Nat
  BY <1>2, PositionsAre
<1>6. PICK p : p = Insert(queue, items, placement, row)
  OBVIOUS
<1>7. Sound(p) /\ Seated(p) /\ Seen(queue, p)
  BY <1>2, <1>3, <1>4, <1>5, <1>6, InsertKeeps
<1>8. Commanded({p}) /\ \A q \in {p} : Sound(q) /\ Seated(q) /\ Seen(queue, q)
  BY <1>1, <1>6, <1>7
<1> QED BY <1>8, CommandedKeeps

LEMMA InsertToHearCommanded == ASSUME IInv, CommandInsertToHear PROVE IInv'
<1>1. PICK items \in Arrivals, placement \in {"next", "queued", "at"},
           row \in 0..(Size(queue) + 1) :
        Bounded(items) /\ Commanded({InsertToHear(queue, items, placement, row)})
  BY DEF CommandInsertToHear
<1>2. Sound(queue) /\ Seated(queue)
  BY DEF IInv
<1>3. items \in Seq(Items) /\ Len(items) > 0
  BY ArrivingLists
<1>4. queue.places + Len(items) <= MaxPlaces
  BY <1>1 DEF Bounded
<1>5. row \in Nat
  BY <1>2, PositionsAre
<1>6. PICK p : p = InsertToHear(queue, items, placement, row)
  OBVIOUS
<1>7. Sound(p) /\ Seated(p) /\ Seen(queue, p)
  BY <1>2, <1>3, <1>4, <1>5, <1>6, InsertToHearKeeps
<1>8. Commanded({p}) /\ \A q \in {p} : Sound(q) /\ Seated(q) /\ Seen(queue, q)
  BY <1>1, <1>6, <1>7
<1> QED BY <1>8, CommandedKeeps

LEMMA RowsCommanded ==
  ASSUME IInv, CommandRemoveAll \/ CommandMove \/ CommandOrder
  PROVE  IInv'
<1>2. Sound(queue) /\ Seated(queue)
  BY DEF IInv
<1>3. CASE CommandRemoveAll
  <2>1. PICK positions \in SUBSET Positions : Commanded(RemoveAll(queue, positions))
    BY <1>3 DEF CommandRemoveAll
  <2>2. \A q \in RemoveAll(queue, positions) : Sound(q) /\ Seated(q) /\ Seen(queue, q)
    BY <1>2, RemoveAllKeeps
  <2> QED BY <2>1, <2>2, CommandedKeeps
<1>4. CASE CommandMove
  <2>1. PICK first \in Positions, last \in Positions, to \in Positions :
          to \notin first..last /\ Commanded({MoveRows(queue, first, last, to)})
    BY <1>4 DEF CommandMove
  <2>2. /\ first \in 0..(Size(queue) - 1) /\ last \in 0..(Size(queue) - 1)
        /\ to \in 0..(Size(queue) - 1)
    BY DEF Positions
  <2>3. PICK p : p = MoveRows(queue, first, last, to)
    OBVIOUS
  <2>4. Sound(p) /\ Seated(p) /\ p.revised
    BY <1>2, <2>1, <2>2, <2>3, MoveRowsKeeps
  <2>5. Commanded({p}) /\ \A q \in {p} : Sound(q) /\ Seated(q) /\ Seen(queue, q)
    BY <2>1, <2>3, <2>4 DEF Seen
  <2> QED BY <2>5, CommandedKeeps
<1>5. CASE CommandOrder
  <2>1. PICK rows \in SetToSeqs(0..(Size(queue) - 1)) : Commanded({Reorder(queue, rows)})
    BY <1>5 DEF CommandOrder, Positions
  <2>2. PICK p : p = Reorder(queue, rows)
    OBVIOUS
  <2>3. Sound(p) /\ Seated(p) /\ p.revised
    BY <1>2, <2>2, ReorderKeeps
  <2>4. Commanded({p}) /\ \A q \in {p} : Sound(q) /\ Seated(q) /\ Seen(queue, q)
    BY <2>1, <2>2, <2>3 DEF Seen
  <2> QED BY <2>4, CommandedKeeps
<1> QED BY <1>3, <1>4, <1>5

LEMMA PlayingCommanded ==
  ASSUME IInv,
         \/ CommandSetRepeat \/ CommandSetShuffle \/ CommandNext \/ TrackEnds
         \/ CommandPrevious \/ CommandJumpTo
  PROVE  IInv'
<1>2. Sound(queue) /\ Seated(queue)
  BY DEF IInv
<1>3. CASE CommandSetRepeat
  <2>1. PICK repeat \in Repeats : Commanded({[queue EXCEPT !.repeat = repeat]})
    BY <1>3 DEF CommandSetRepeat
  <2>2. PICK p : p = [queue EXCEPT !.repeat = repeat]
    OBVIOUS
  <2>3. Sound(p) /\ Seated(p) /\ Seen(queue, p)
    BY <1>2, <2>2, SetRepeatKeeps
  <2>4. Commanded({p}) /\ \A q \in {p} : Sound(q) /\ Seated(q) /\ Seen(queue, q)
    BY <2>1, <2>2, <2>3
  <2> QED BY <2>4, CommandedKeeps
<1>4. CASE CommandSetShuffle
  <2>1. Commanded(SetShuffle(queue, ~queue.shuffle))
    BY <1>4 DEF CommandSetShuffle
  <2>2. PICK shuffle \in BOOLEAN : shuffle = ~queue.shuffle
    OBVIOUS
  <2>3. \A q \in SetShuffle(queue, shuffle) : Sound(q) /\ Seated(q) /\ Seen(queue, q)
    BY <1>2, SetShuffleKeeps
  <2>4. Commanded(SetShuffle(queue, shuffle))
    BY <2>1, <2>2
  <2> QED BY <2>3, <2>4, CommandedKeeps
<1>5. CASE CommandNext \/ TrackEnds
  <2>1. PICK natural \in BOOLEAN : Commanded(Advance(queue, natural))
    BY <1>5 DEF CommandNext, TrackEnds
  <2>2. \A q \in Advance(queue, natural) : Sound(q) /\ Seated(q) /\ Seen(queue, q)
    BY <1>2, AdvanceKeeps
  <2> QED BY <2>1, <2>2, CommandedKeeps
<1>6. CASE CommandPrevious
  <2>1. PICK p : p = Retreat(queue)
    OBVIOUS
  <2>2. Sound(p) /\ Seated(p) /\ Seen(queue, p)
    BY <1>2, <2>1, RetreatKeeps
  <2>3. Commanded({p}) /\ \A q \in {p} : Sound(q) /\ Seated(q) /\ Seen(queue, q)
    BY <1>6, <2>1, <2>2 DEF CommandPrevious
  <2> QED BY <2>3, CommandedKeeps
<1>7. CASE CommandJumpTo
  <2>1. PICK drawn \in 0..(Size(queue) - 1) : Commanded({JumpTo(queue, drawn)})
    BY <1>7 DEF CommandJumpTo, Positions
  <2>2. PICK p : p = JumpTo(queue, drawn)
    OBVIOUS
  <2>3. Sound(p) /\ Seated(p) /\ Seen(queue, p)
    BY <1>2, <2>2, JumpToKeeps
  <2>4. Commanded({p}) /\ \A q \in {p} : Sound(q) /\ Seated(q) /\ Seen(queue, q)
    BY <2>1, <2>2, <2>3
  <2> QED BY <2>4, CommandedKeeps
<1> QED BY <1>3, <1>4, <1>5, <1>6, <1>7

LEMMA NewIsSound == ASSUME Init PROVE IInv
<1>1. queue = New /\ shown = Published(queue)
  BY DEF Init
<1>2. Shape(queue)
  BY <1>1 DEF New, Shape, Fields
<1>3. Kinds(queue)
  BY <1>1, QueueAssumption DEF New, Kinds, Seats, Repeats
<1>4. Lists(<<>>, {}) /\ Unstamped = Marked({})
  BY EmptyLists, UnstampedIs
<1>5. Apart({} \cup {})
  BY DEF Apart
<1>6. Stands(queue, {}, {})
  <2>1. /\ queue.order = <<>> /\ queue.next = <<>> /\ queue.unshuffled = <<>>
        /\ queue.shuffle = FALSE /\ queue.playingFrom = Unstamped /\ queue.stamp = Unstamped
    BY <1>1 DEF New
  <2>2. {} \cup {} = {}
    OBVIOUS
  <2> QED BY <1>4, <1>5, <2>1, <2>2 DEF Stands
<1>7. Seated(queue)
  <2>1. Len(<<>>) = 0
    BY EmptySeq
  <2> QED BY <1>1, <2>1 DEF New, Seated
<1> QED BY <1>1, <1>2, <1>3, <1>6, <1>7 DEF IInv, Sound, New

LEMMA NextKeeps == ASSUME IInv, [Next]_vars PROVE IInv'
<1>1. CASE UNCHANGED vars
  BY <1>1 DEF vars, IInv
<1>2. CASE Next
  BY <1>2, LoadCommanded, ResumeCommanded, InsertsCommanded, InsertToHearCommanded,
     RowsCommanded, PlayingCommanded DEF Next
<1> QED BY <1>1, <1>2

\* Whatever the queue is asked to do and however many rows it holds, its lists hold the
\* same rows each once, its stamps are theirs, its seat names one of them, and what it
\* published is what it holds (the engine's commands and publish_queue).
THEOREM QueueStaysSound == Spec => []IInv
<1>1. Init => IInv
  BY NewIsSound
<1>2. IInv /\ [Next]_vars => IInv'
  BY NextKeeps
<1> QED BY <1>1, <1>2, PTL DEF Spec


-----------------------------------------------------------------------------
(* What a queue that stays sound shows.                                     *)

LEMMA QueueHolds ==
  ASSUME IInv
  PROVE  /\ Sound(queue) /\ Seated(queue) /\ Shape(queue) /\ Kinds(queue)
         /\ \E inOrder, next : Stands(queue, inOrder, next)
BY DEF IInv, Sound

\* The places of a list of rows apart, each of them once.
LEMMA PlacesCount ==
  ASSUME NEW set, NEW list, Lists(list, set), Apart(set)
  PROVE  Cardinality(Places(list)) = Len(list)
<1> PICK places : places = [i \in 1..Len(list) |-> list[i].place]
  OBVIOUS
<1>1. Len(list) \in Nat /\ DOMAIN list = 1..Len(list) /\ list \in [1..Len(list) -> set]
  BY ListIsAList
<1>2. Places(list) = {list[i].place : i \in 1..Len(list)}
  BY <1>1 DEF Places
<1>3. places \in [1..Len(list) -> Places(list)]
  BY <1>2
<1>4. places \in Seq(Places(list)) /\ Len(places) = Len(list)
  BY <1>1, <1>3
<1>5. \A x \in Places(list) : \E i \in 1..Len(places) : places[i] = x
  BY <1>2, <1>4
<1>6. \A i, j \in 1..Len(places) : places[i] = places[j] => i = j
  <2> SUFFICES ASSUME NEW i \in 1..Len(list), NEW j \in 1..Len(list), places[i] = places[j]
               PROVE  i = j
    BY <1>4
  <2>1. list[i] \in set /\ list[j] \in set /\ list[i].place = list[j].place
    BY <1>1
  <2>2. list[i] = list[j]
    BY <2>1 DEF Apart
  <2> QED BY <2>2 DEF Lists
<1>7. Lists(places, Places(list))
  BY <1>4, <1>5, <1>6 DEF Lists
<1> QED BY <1>4, <1>7, ListCounts

LEMMA RowsStand ==
  ASSUME NEW set, NEW list, Lists(list, set), Apart(set), set \in SUBSET Rows
  PROVE  Standing(list)
<1>1. list \in Seq(Rows)
  BY ListOfMore
<1> QED BY <1>1, PlacesCount DEF Standing

\* No more rows stand than places were given out.
LEMMA AsManyAsPlaces ==
  ASSUME NEW places \in Nat, NEW set \in SUBSET GivenOut(places), NEW list, Lists(list, set),
         Apart(set)
  PROVE  Len(list) <= places
<1>1. Places(list) = {r.place : r \in set}
  BY PlacesAre
<1>2. \A r \in GivenOut(places) : r.place \in 0..(places - 1)
  BY DEF GivenOut
<1>3. Places(list) \in SUBSET (0..(places - 1))
  BY <1>1, <1>2
<1>4. IsFiniteSet(0..(places - 1)) /\ Cardinality(0..(places - 1)) = places
  <2>1. PICK top \in Int : top = places - 1
    OBVIOUS
  <2>2. 0 \in Int
    OBVIOUS
  <2>3. IsFiniteSet(0..top) /\ Cardinality(0..top) = IF 0 > top THEN 0 ELSE top - 0 + 1
    BY <2>1, <2>2, FS_Interval
  <2> QED BY <2>1, <2>3
<1>5. Cardinality(Places(list)) <= places
  BY <1>3, <1>4, FS_Subset
<1> QED BY <1>5, PlacesCount

LEMMA TypeHolds == ASSUME IInv PROVE TypeOK
<1>1. Sound(queue) /\ Seated(queue) /\ Kinds(queue)
  BY QueueHolds
<1>2. PICK inOrder, next : Stands(queue, inOrder, next)
  BY QueueHolds
<1>3. queue.places \in Nat /\ queue.places <= MaxPlaces /\ MaxPlaces \in Nat
  BY <1>1, QueueAssumption DEF Kinds
<1>4. GivenOut(queue.places) \in SUBSET Rows
  <2>1. \A n \in 0..(queue.places - 1) : n \in 0..(MaxPlaces - 1)
    BY <1>3
  <2> QED BY <2>1 DEF GivenOut, Rows
<1>5. /\ Lists(queue.order, inOrder) /\ Lists(queue.next, next) /\ inOrder \cap next = {}
      /\ Apart(inOrder \cup next) /\ inOrder \cup next \in SUBSET GivenOut(queue.places)
  BY <1>2 DEF Stands
<1>6. Apart(inOrder) /\ inOrder \in SUBSET Rows /\ inOrder \cup next \in SUBSET Rows
      /\ inOrder \in SUBSET GivenOut(queue.places)
  BY <1>4, <1>5 DEF Apart
<1>7. Standing(queue.order \o queue.next)
  <2>1. Lists(queue.order \o queue.next, inOrder \cup next)
    BY <1>5, JoinedLists
  <2> QED BY <1>5, <1>6, <2>1, RowsStand
<1>8. Standing(queue.unshuffled)
  <2>1. CASE queue.shuffle
    <3>1. Lists(queue.unshuffled, inOrder)
      BY <1>2, <2>1 DEF Stands
    <3> QED BY <1>6, <3>1, RowsStand
  <2>2. CASE ~queue.shuffle
    <3>1. Lists(queue.unshuffled, {})
      BY <1>2, <2>2, EmptyLists DEF Stands
    <3>2. Apart({}) /\ {} \in SUBSET Rows
      BY DEF Apart
    <3> QED BY <3>1, <3>2, RowsStand
  <2> QED BY <2>1, <2>2
<1>9. queue.after \in 0..MaxPlaces
  <2>1. Len(queue.order) <= queue.places
    BY <1>3, <1>5, <1>6, AsManyAsPlaces
  <2>2. queue.after \in Nat /\ queue.after <= Len(queue.order) /\ Len(queue.order) \in Nat
    BY <1>1, <1>2, ListsOfASoundQueue DEF Kinds, Seated
  <2> QED BY <1>3, <2>1, <2>2
<1> QED BY <1>1, <1>7, <1>8, <1>9 DEF TypeOK, Kinds, IInv

\* Each list holds rows of the queue, none of them twice, and no more rows stand than
\* places were given out (Queue).
THEOREM QueueTypes == Spec => []TypeOK
<1>1. IInv => TypeOK
  BY TypeHolds
<1> QED BY <1>1, QueueStaysSound, PTL

\* However the rows are edited, the seat names a row that is there (after and Seat).
THEOREM TheSeatStands == Spec => []SeatStands
<1>1. IInv => SeatStands
  BY DEF IInv, Seated, SeatStands
<1> QED BY <1>1, QueueStaysSound, PTL

\* What the panes and the clients were shown is what the queue holds (publish_queue).
THEOREM ShownStands == Spec => []ShownIsWhatStands
<1>1. IInv => ShownIsWhatStands
  BY DEF IInv, ShownIsWhatStands
<1> QED BY <1>1, QueueStaysSound, PTL

LEMMA StampsHold == ASSUME IInv PROVE StampsAgree
<1>1. Shape(queue)
  BY QueueHolds
<1>2. PICK inOrder, next : Stands(queue, inOrder, next)
  BY QueueHolds
<1>3. /\ Lists(queue.order, inOrder) /\ Lists(queue.next, next) /\ inOrder \cap next = {}
      /\ Apart(inOrder \cup next) /\ Apart(inOrder)
      /\ queue.playingFrom = Marked(inOrder) /\ queue.stamp = Marked(inOrder \cup next)
  BY <1>2 DEF Stands, Apart
<1>4. PICK order : order = With(Unstamped, queue.order)
  OBVIOUS
<1>5. order = Marked(inOrder)
  <2>1. {} \cup inOrder = inOrder /\ {} \cap inOrder = {}
    OBVIOUS
  <2>2. Apart({} \cup inOrder)
    BY <1>3, <2>1
  <2>3. With(Marked({}), queue.order) = Marked({} \cup inOrder)
    BY <1>3, <2>1, <2>2, JoinedStamp
  <2> QED BY <1>4, <2>1, <2>3, UnstampedIs
<1>6. With(order, queue.next) = Marked(inOrder \cup next)
  BY <1>3, <1>5, JoinedStamp
<1>7. PICK afresh : afresh = StampAfresh(queue)
  OBVIOUS
<1>8. afresh = [queue EXCEPT !.playingFrom = order, !.stamp = With(order, queue.next)]
  BY <1>4, <1>7 DEF StampAfresh
<1>9. afresh.playingFrom = order /\ afresh.stamp = With(order, queue.next)
  BY <1>1, <1>8 DEF Shape, Fields
<1> QED BY <1>3, <1>5, <1>6, <1>7, <1>9 DEF StampsAgree

\* The stamps kept edit by edit are those of the rows held (stamp, playing_from).
THEOREM TheStampsAgree == Spec => []StampsAgree
<1>1. IInv => StampsAgree
  BY StampsHold
<1> QED BY <1>1, QueueStaysSound, PTL


\* The list a client pages through is the one drawn once the shuffle is off.
LEMMA UnshuffledIsListed ==
  ASSUME NEW q, Sound(q), Seated(q), q.shuffle, NEW p \in SetShuffle(q, FALSE)
  PROVE  /\ Places(q.unshuffled) = Places(q.order)
         /\ Drawn(p) = InListOrder(q)
<1>1. Shape(q) /\ Kinds(q) /\ q.after \in Nat
  BY DEF Sound, Kinds
<1>2. PICK inOrder, next : Stands(q, inOrder, next)
  BY DEF Sound
<1>3. /\ Lists(q.order, inOrder) /\ Lists(q.next, next) /\ inOrder \cap next = {}
      /\ Lists(q.unshuffled, inOrder)
  BY <1>2 DEF Stands
<1>4. Places(q.unshuffled) = Places(q.order)
  <2>1. Places(q.unshuffled) = {r.place : r \in inOrder}
    BY <1>3, PlacesAre
  <2>2. Places(q.order) = {r.place : r \in inOrder}
    BY <1>3, PlacesAre
  <2> QED BY <2>1, <2>2
<1>5. Len(q.unshuffled) = Len(q.order) /\ Len(q.order) \in Nat /\ Len(q.next) \in Nat
  <2>1. Cardinality(inOrder) = Len(q.unshuffled)
    BY <1>3, ListCounts
  <2>2. Cardinality(inOrder) = Len(q.order)
    BY <1>3, ListCounts
  <2> QED BY <1>2, <2>1, <2>2, ListsOfASoundQueue
<1>6. PICK rows : rows = inOrder \cup next
  OBVIOUS
<1>7. q.unshuffled \in Seq(rows) /\ q.next \in Seq(rows)
  <2>1. inOrder \in SUBSET rows /\ next \in SUBSET rows
    BY <1>6
  <2>2. q.unshuffled \in Seq(rows)
    BY <1>3, <2>1, ListOfMore
  <2>3. q.next \in Seq(rows)
    BY <1>3, <2>1, ListOfMore
  <2> QED BY <2>2, <2>3
<1>8. PICK heard : heard = Found(q.unshuffled, LastHeard(q))
  OBVIOUS
<1>9. heard \in Nat /\ heard <= Len(q.unshuffled)
  <2>1. heard = 0 \/ heard \in 1..Len(q.unshuffled)
    BY <1>7, <1>8, FoundIs
  <2> QED BY <1>5, <2>1
<1>10. /\ Shape(p) /\ p.order = q.unshuffled /\ p.next = q.next
       /\ p.after = IF q.seat = "nowhere" THEN Len(q.unshuffled) ELSE heard
  <2> DEFINE turned == Revised([q EXCEPT !.shuffle = FALSE])
             stopped == [turned EXCEPT !.order = q.unshuffled, !.unshuffled = <<>>]
             at == Found(stopped.order, LastHeard(q))
  <2>1. Shape(stopped) /\ stopped.order = q.unshuffled /\ stopped.next = q.next
    BY <1>1 DEF Shape, Fields, Revised
  <2>2. p = [stopped EXCEPT !.after = IF q.seat = "nowhere" THEN Len(stopped.order) ELSE at]
    <3>1. ~(FALSE = q.shuffle) /\ ~(FALSE /\ ~q.shuffle)
      BY <1>1 DEF Kinds
    <3> QED BY <3>1 DEF SetShuffle
  <2> HIDE DEF stopped, turned
  <2>3. at = heard
    BY <1>8, <2>1
  <2> QED BY <2>1, <2>2, <2>3 DEF Shape, Fields
<1>11. PICK listed : listed = First(q.unshuffled, heard) \o q.next \o Past(q.unshuffled, heard)
  OBVIOUS
<1>12. listed \in Seq(rows) /\ Len(listed) = Size(q)
  <2>1. listed \in Seq(rows) /\ PutInto(listed, q.unshuffled, q.next, heard)
    BY <1>7, <1>9, <1>11, SplicedIs
  <2> QED BY <1>5, <2>1 DEF PutInto, Size
<1>13. Only(listed, Places(Drawn(q))) = listed
  <2>1. Lists(Drawn(q), rows)
    BY <1>1, <1>2, <1>6, DrawnLists
  <2>2. Places(Drawn(q)) = {r.place : r \in rows}
    BY <2>1, PlacesAre
  <2>3. \A r \in rows : r.place \in Places(Drawn(q))
    BY <2>2
  <2> QED BY <1>12, <2>3, OnlyAll
<1>14. InListOrder(q) = listed
  BY <1>8, <1>11, <1>12, <1>13 DEF InListOrder
<1>15. Drawn(p) = listed
  <2>1. CASE q.seat # "nowhere"
    BY <1>10, <1>11, <2>1 DEF Drawn
  <2>2. CASE q.seat = "nowhere"
    <3>1. q.next = <<>>
      BY <2>2 DEF Seated
    <3>2. listed = q.unshuffled
      BY <1>7, <1>9, <1>11, <3>1, CutJoins
    <3>3. PICK n \in Nat : n = Len(q.unshuffled)
      BY <1>5
    <3>4. Drawn(p) = First(q.unshuffled, n) \o <<>> \o Past(q.unshuffled, n)
      BY <1>10, <2>2, <3>1, <3>3 DEF Drawn
    <3>5. Drawn(p) = q.unshuffled
      BY <1>7, <3>4, CutJoins
    <3> QED BY <3>2, <3>5
  <2> QED BY <2>1, <2>2
<1> QED BY <1>4, <1>14, <1>15

LEMMA ThereIsAnUnshuffled == ASSUME NEW q, q.shuffle = TRUE PROVE SetShuffle(q, FALSE) # {}
<1>1. ~(FALSE = q.shuffle) /\ ~(FALSE /\ ~q.shuffle)
  OBVIOUS
<1> QED BY <1>1 DEF SetShuffle

\* While shuffled, every row in order stands in the order to return to, and a client
\* pages through the list that turning the shuffle off would draw (unshuffled,
\* Queued::in_list_order, set_shuffle).
THEOREM ListsAreWhatUnshufflingDraws == Spec => []ListIsWhatUnshufflingDraws
<1>1. ASSUME IInv PROVE ListIsWhatUnshufflingDraws
  <2>1. Sound(queue) /\ Seated(queue) /\ queue.shuffle \in BOOLEAN
    BY <1>1, QueueHolds DEF Kinds
  <2>2. ASSUME queue.shuffle
        PROVE  /\ Places(queue.unshuffled) = Places(queue.order)
               /\ \A q \in SetShuffle(queue, FALSE) : Drawn(q) = InListOrder(queue)
    <3>1. PICK p : p \in SetShuffle(queue, FALSE)
      BY <2>1, <2>2, ThereIsAnUnshuffled
    <3>2. Places(queue.unshuffled) = Places(queue.order)
      BY <2>1, <2>2, <3>1, UnshuffledIsListed
    <3>3. \A q \in SetShuffle(queue, FALSE) : Drawn(q) = InListOrder(queue)
      BY <2>1, <2>2, UnshuffledIsListed
    <3> QED BY <3>2, <3>3
  <2> QED BY <2>2 DEF ListIsWhatUnshufflingDraws
<1> QED BY <1>1, QueueStaysSound, PTL

LEMMA InsertedDrawn ==
  ASSUME NEW q, Sound(q), Seated(q), NEW items \in Seq(Items), Len(items) > 0,
         q.places + Len(items) <= MaxPlaces,
         NEW placement \in {"next", "queued", "at"}, NEW row \in Nat,
         NEW inserted, inserted = Inserted(q, items, placement, row)
  PROVE  Drawn(inserted.queue)[inserted.row + 1].place = q.places
<1>1. PICK p : p = inserted.queue
  OBVIOUS
<1>2. PICK drawn : drawn = inserted.row
  OBVIOUS
<1>3. /\ p = Inserted(q, items, placement, row).queue
      /\ drawn = Inserted(q, items, placement, row).row
  BY <1>1, <1>2
<1>4. drawn \in 0..(Size(p) - 1) /\ Drawn(p)[drawn + 1].place = q.places
  BY <1>3, InsertedWhere
<1> QED BY <1>1, <1>2, <1>4

LEMMA RowsDrawn == ASSUME IInv PROVE RowsAreWhereTheyAreDrawn
<1>1. Sound(queue) /\ Seated(queue)
  BY QueueHolds
<1>2. ASSUME NEW row \in Positions
      PROVE  HeardPlace(JumpTo(queue, row)) = Drawn(queue)[row + 1].place
  <2>1. row \in 0..(Size(queue) - 1)
    BY DEF Positions
  <2>2. PICK p : p = JumpTo(queue, row)
    OBVIOUS
  <2>3. HeardPlace(p) = Drawn(queue)[row + 1].place
    BY <1>1, <2>1, <2>2, JumpToKeeps
  <2> QED BY <2>2, <2>3
<1>3. ASSUME NEW items \in Arrivals, Bounded(items), NEW row \in 0..(Size(queue) + 1)
      PROVE  /\ Drawn(Inserted(queue, items, "at", row).queue)
                  [Inserted(queue, items, "at", row).row + 1].place = queue.places
             /\ HeardPlace(InsertToHear(queue, items, "at", row)) = queue.places
  <2>1. items \in Seq(Items) /\ Len(items) > 0
    BY ArrivingLists
  <2>2. queue.places + Len(items) <= MaxPlaces
    BY <1>3 DEF Bounded
  <2>3. row \in Nat
    BY <1>1, PositionsAre
  <2>4. PICK placement \in {"next", "queued", "at"} : placement = "at"
    OBVIOUS
  <2>5. PICK inserted : inserted = Inserted(queue, items, placement, row)
    OBVIOUS
  <2>7. Drawn(inserted.queue)[inserted.row + 1].place = queue.places
    BY <1>1, <2>1, <2>2, <2>3, <2>5, InsertedDrawn
  <2>8. PICK h : h = InsertToHear(queue, items, placement, row)
    OBVIOUS
  <2>9. HeardPlace(h) = queue.places
    BY <1>1, <2>1, <2>2, <2>3, <2>8, InsertToHearKeeps
  <2> QED BY <2>4, <2>5, <2>7, <2>8, <2>9
<1> QED BY <1>2, <1>3 DEF RowsAreWhereTheyAreDrawn

\* A row chosen in the list drawn is the row heard, and rows inserted are drawn, and
\* heard, where the insert says (jump_to, insert, insert_to_hear).
THEOREM RowsAreDrawnWhereTheyAre == Spec => []RowsAreWhereTheyAreDrawn
<1>1. IInv => RowsAreWhereTheyAreDrawn
  BY RowsDrawn
<1> QED BY <1>1, QueueStaysSound, PTL


\* Rows inserted never land before the row heard of those played next, and the seat
\* follows the row heard past those that land before it.
LEMMA InsertHears ==
  ASSUME NEW q, Sound(q), Seated(q), HeardPlace(q) # NoPlace, NEW items \in Seq(Items),
         NEW placement \in {"next", "queued", "at"}, NEW row \in Nat,
         NEW p, p = Insert(q, items, placement, row)
  PROVE  HeardPlace(p) = HeardPlace(q)
<1>1. PICK inOrder, next : Stands(q, inOrder, next)
  BY DEF Sound
<1>2. Shape(q) /\ Kinds(q) /\ q.after \in Nat /\ q.places \in Nat /\ q.seat \in Seats
  BY DEF Sound, Kinds
<1>3. PICK landed : landed = Arrived(q, items)
  OBVIOUS
<1>4. PICK lands : lands = LandingOf(q, placement, row)
  OBVIOUS
<1>5. PICK before : before = (q.seat = "next" /\ placement = "at" /\ row <= Cursor(q))
  OBVIOUS
<1>6. /\ lands.waits = "next" =>
           /\ p.order = q.order /\ p.next = Spliced(q.next, lands.at, landed)
           /\ p.after = q.after /\ p.seat = q.seat
      /\ lands.waits = "in_order" =>
           /\ p.order = Spliced(q.order, lands.at, landed) /\ p.next = q.next
           /\ p.seat = (IF q.seat = "nowhere" THEN "in_order" ELSE q.seat)
           /\ p.after = (IF q.seat = "nowhere" THEN lands.at + 1
                         ELSE IF PassedBy(q, lands.at, before)
                              THEN q.after + Len(landed) ELSE q.after)
  BY <1>2, <1>3, <1>4, <1>5, InsertedIs DEF Insert
<1>7. Lists(landed, ToSet(landed)) /\ Len(landed) = Len(items)
  BY <1>2, <1>3, ArrivedLists
<1>8. /\ q.seat = "in_order" =>
           /\ q.after \in 1..Len(q.order) /\ HeardPlace(q) = q.order[q.after].place
      /\ q.seat = "next" =>
           /\ 1 \in 1..Len(q.next) /\ HeardPlace(q) = q.next[1].place
      /\ q.seat # "nowhere"
  BY <1>1, <1>2, HeardIs
<1>9. PICK l \in Nat, n \in Nat, k \in Nat, after \in Nat :
        l = Len(q.order) /\ n = Len(q.next) /\ k = Len(landed) /\ after = q.after
  BY <1>1, <1>2, <1>7, ListsOfASoundQueue
<1>10. \/ /\ lands.waits = "next" /\ lands.at \in 0..Len(q.next)
          /\ q.seat = "next" => lands.at > 0
       \/ lands.waits = "in_order" /\ lands.at \in 0..Len(q.order)
  <2>1. q.next = <<>> <=> Len(q.next) = 0
    BY <1>1, ListsOfASoundQueue
  <2>2. Len(q.order) \in Nat /\ Len(q.next) \in Nat
    BY <1>9
  <2> QED BY <1>2, <1>4, <2>1, <2>2, LandingIs
<1>11. PICK rows : /\ q.order \in Seq(rows) /\ q.next \in Seq(rows) /\ landed \in Seq(rows)
  <2>1. PICK rows : rows = (inOrder \cup next) \cup ToSet(landed)
    OBVIOUS
  <2>2. inOrder \in SUBSET rows /\ next \in SUBSET rows /\ ToSet(landed) \in SUBSET rows
    BY <2>1
  <2>3. Lists(q.order, inOrder) /\ Lists(q.next, next)
    BY <1>1 DEF Stands
  <2>4. q.order \in Seq(rows)
    BY <2>2, <2>3, ListOfMore
  <2>5. q.next \in Seq(rows)
    BY <2>2, <2>3, ListOfMore
  <2>6. landed \in Seq(rows)
    BY <1>7, <2>2, ListOfMore
  <2> QED BY <2>4, <2>5, <2>6
<1>12. PICK at \in Nat : at = lands.at
  BY <1>9, <1>10
<1>13. CASE lands.waits = "next" /\ q.seat = "in_order"
  BY <1>6, <1>13 DEF HeardPlace, LastHeard
<1>14. CASE lands.waits = "next" /\ q.seat = "next"
  <2>1. at > 0 /\ at <= n
    BY <1>9, <1>10, <1>12, <1>14
  <2>2. PICK all : all = First(q.next, at) \o landed \o Past(q.next, at)
    OBVIOUS
  <2>3. PutInto(all, q.next, landed, at)
    BY <1>9, <1>11, <2>1, <2>2, SplicedIs
  <2>4. all[1] = q.next[1] /\ Len(all) = n + k
    BY <1>9, <2>1, <2>3 DEF PutInto
  <2>5. p.next = all /\ p.seat = "next"
    BY <1>6, <1>12, <1>14, <2>2 DEF Spliced
  <2>6. all # <<>>
    <3>1. Len(all) # 0
      BY <2>1, <2>4
    <3> QED BY <3>1, EmptySeq
  <2>7. HeardPlace(p) = all[1].place
    BY <2>5, <2>6 DEF HeardPlace
  <2> QED BY <1>8, <1>14, <2>4, <2>7
<1>15. CASE lands.waits = "in_order" /\ q.seat = "next"
  BY <1>6, <1>15 DEF HeardPlace
<1>16. CASE lands.waits = "in_order" /\ q.seat = "in_order"
  <2>1. at <= l
    BY <1>9, <1>10, <1>12, <1>16
  <2>2. PICK all : all = First(q.order, at) \o landed \o Past(q.order, at)
    OBVIOUS
  <2>3. PutInto(all, q.order, landed, at)
    BY <1>9, <1>11, <2>1, <2>2, SplicedIs
  <2>4. /\ Len(all) = l + k
        /\ \A i \in 1..at : all[i] = q.order[i]
        /\ \A i \in (at + 1)..l : all[k + i] = q.order[i]
    BY <1>9, <2>3 DEF PutInto
  <2>5. /\ p.order = all /\ p.seat = "in_order"
        /\ p.after = IF at < after THEN after + k ELSE after
    BY <1>6, <1>9, <1>12, <1>16, <2>2 DEF Spliced, PassedBy
  <2>6. after \in 1..l
    BY <1>8, <1>9, <1>16
  <2>7. p.after \in 1..Len(all) /\ all[p.after] = q.order[after]
    <3>1. CASE at < after
      <4>1. after \in (at + 1)..l /\ p.after = k + after
        BY <2>5, <2>6, <3>1
      <4> QED BY <2>4, <4>1
    <3>2. CASE ~(at < after)
      <4>1. after \in 1..at /\ p.after = after
        BY <2>5, <2>6, <3>2
      <4> QED BY <2>4, <2>6, <4>1
    <3> QED BY <3>1, <3>2
  <2>8. HeardPlace(p) = all[p.after].place
    BY <2>5, <2>7 DEF HeardPlace, LastHeard
  <2> QED BY <1>8, <1>9, <1>16, <2>7, <2>8
<1> QED BY <1>2, <1>8, <1>10, <1>13, <1>14, <1>15, <1>16 DEF Seats

\* A shuffle turned on brings the row heard to the front; turned off, the seat is where
\* the row stands again.
LEMMA SetShuffleHears ==
  ASSUME NEW q, Sound(q), Seated(q), HeardPlace(q) # NoPlace, NEW shuffle \in BOOLEAN,
         NEW p \in SetShuffle(q, shuffle)
  PROVE  HeardPlace(p) = HeardPlace(q)
<1> DEFINE turned == Revised([q EXCEPT !.shuffle = shuffle])
           started == [turned EXCEPT !.unshuffled = q.order]
           stopped == [turned EXCEPT !.order = q.unshuffled, !.unshuffled = <<>>]
           at == Found(stopped.order, LastHeard(q))
<1>1. PICK inOrder, next : Stands(q, inOrder, next)
  BY DEF Sound
<1>2. Shape(q) /\ Kinds(q)
  BY DEF Sound
<1>3. /\ q.seat = "in_order" =>
           /\ q.after \in 1..Len(q.order) /\ q.order[q.after] \in inOrder
           /\ HeardPlace(q) = q.order[q.after].place
      /\ q.seat # "nowhere"
  BY <1>1, <1>2, HeardIs
<1>4. q.seat = "in_order" \/ q.seat = "next"
  BY <1>2, <1>3 DEF Kinds, Seats
<1>5. CASE shuffle = q.shuffle
  BY <1>5 DEF SetShuffle
<1>6. CASE shuffle /\ ~q.shuffle
  <2>1. /\ Shape(started) /\ started.order = q.order /\ started.next = q.next
        /\ started.unshuffled = q.order /\ started.places = q.places
        /\ started.after = q.after /\ started.seat = q.seat /\ started.repeat = q.repeat
        /\ started.shuffle = shuffle /\ started.stamp = q.stamp
        /\ started.playingFrom = q.playingFrom /\ started.revised = TRUE
    BY <1>2 DEF Shape, Fields, Revised
  <2> HIDE DEF started, turned
  <2>2. Stands(started, inOrder, next)
    BY <1>1, <1>6, <2>1 DEF Stands
  <2>3. Kinds(started)
    BY <1>2, <2>1 DEF Kinds
  <2>4. CASE LastHeard(q) # NoPlace
    <3>1. p \in ReshuffleKeeping(started, LastHeard(q))
      BY <1>3, <1>6, <2>4 DEF SetShuffle, started, turned
    <3>2. /\ Len(p.order) = Len(q.order) /\ p.next = q.next /\ p.after = 1
          /\ p.seat = q.seat
          /\ LastHeard(q) \in Places(q.order) => p.order[1].place = LastHeard(q)
      BY <2>1, <2>2, <2>3, <3>1, ReshuffleKeepingStands
    <3>3. CASE q.seat = "next"
      BY <3>2, <3>3 DEF HeardPlace
    <3>4. CASE q.seat = "in_order"
      <4>1. LastHeard(q) = q.order[q.after].place /\ q.after \in 1..Len(q.order)
        BY <1>3, <3>4 DEF LastHeard
      <4>2. q.after \in DOMAIN q.order
        <5>1. DOMAIN q.order = 1..Len(q.order)
          BY <1>1, ListIsAList DEF Stands
        <5> QED BY <4>1, <5>1
      <4>3. p.order[1].place = LastHeard(q)
        BY <3>2, <4>1, <4>2 DEF Places
      <4>4. p.after \in 1..Len(p.order)
        <5>1. Len(q.order) \in Nat
          BY <1>1, ListsOfASoundQueue
        <5> QED BY <3>2, <4>1, <5>1
      <4>5. HeardPlace(p) = p.order[1].place
        BY <3>2, <3>4, <4>4 DEF HeardPlace, LastHeard
      <4> QED BY <1>3, <3>4, <4>1, <4>3, <4>5
    <3> QED BY <1>4, <3>3, <3>4
  <2>5. CASE LastHeard(q) = NoPlace
    <3>1. p \in Reshuffle(started)
      BY <1>6, <2>5 DEF SetShuffle, started, turned
    <3>2. p.next = q.next /\ p.seat = q.seat
      BY <2>1, <2>2, <2>3, <3>1, ReshuffleStands
    <3>3. q.seat = "next"
      BY <1>4, <2>5 DEF HeardPlace
    <3> QED BY <3>2, <3>3 DEF HeardPlace
  <2> QED BY <2>4, <2>5
<1>7. CASE ~shuffle /\ q.shuffle
  <2>1. Shape(stopped) /\ stopped.order = q.unshuffled /\ stopped.next = q.next
        /\ stopped.seat = q.seat
    BY <1>2 DEF Shape, Fields, Revised
  <2>2. p = [stopped EXCEPT !.after = IF q.seat = "nowhere" THEN Len(stopped.order) ELSE at]
    <3>1. ~(shuffle = q.shuffle) /\ ~(shuffle /\ ~q.shuffle)
      BY <1>7
    <3> QED BY <3>1 DEF SetShuffle
  <2> HIDE DEF stopped, turned
  <2>3. p.order = q.unshuffled /\ p.next = q.next /\ p.seat = q.seat /\ p.after = at
    BY <1>3, <2>1, <2>2 DEF Shape, Fields
  <2>4. CASE q.seat = "next"
    BY <2>3, <2>4 DEF HeardPlace
  <2>5. CASE q.seat = "in_order"
    <3>1. LastHeard(q) = q.order[q.after].place /\ q.order[q.after] \in inOrder
      BY <1>3, <2>5 DEF LastHeard
    <3>2. Lists(q.unshuffled, inOrder)
      BY <1>1, <1>7 DEF Stands
    <3>3. PICK i \in 1..Len(q.unshuffled) : q.unshuffled[i].place = LastHeard(q)
      BY <3>1, <3>2 DEF Lists
    <3>4. q.unshuffled \in Seq(inOrder)
      BY <3>2 DEF Lists
    <3>5. at = Found(q.unshuffled, LastHeard(q))
      BY <2>1
    <3>6. /\ Found(q.unshuffled, LastHeard(q)) \in 1..Len(q.unshuffled)
          /\ q.unshuffled[Found(q.unshuffled, LastHeard(q))].place = LastHeard(q)
      BY <3>3, <3>4, FoundIs
    <3>7. p.after \in 1..Len(p.order) /\ p.order[p.after].place = LastHeard(q)
      BY <2>3, <3>5, <3>6
    <3>8. HeardPlace(p) = p.order[p.after].place
      BY <2>3, <2>5, <3>7 DEF HeardPlace, LastHeard
    <3> QED BY <1>3, <2>5, <3>1, <3>7, <3>8
  <2> QED BY <1>4, <2>4, <2>5
<1>8. q.shuffle \in BOOLEAN
  BY <1>2 DEF Kinds
<1> QED BY <1>5, <1>6, <1>7, <1>8

\* A span dropped on one of its own rows stays where it is.
LEMMA DroppedWithin ==
  ASSUME NEW q, NEW first, NEW last, NEW to, to \in first..last
  PROVE  MoveRows(q, first, last, to) = q
BY Zenon DEF MoveRows

LEMMA ShuffleTurnedHears ==
  ASSUME NEW q, Sound(q), Seated(q), HeardPlace(q) # NoPlace,
         NEW p \in SetShuffle(q, ~q.shuffle)
  PROVE  HeardPlace(p) = HeardPlace(q)
<1>1. PICK shuffle \in BOOLEAN : shuffle = ~q.shuffle
  OBVIOUS
<1>2. p \in SetShuffle(q, shuffle)
  BY <1>1
<1> QED BY <1>2, SetShuffleHears

LEMMA EditsHear == ASSUME IInv PROVE EditsKeepWhatIsHeard
<1> SUFFICES ASSUME HeardPlace(queue) # NoPlace,
                    NEW q \in {Insert(queue, items, placement, row) :
                                 items \in Arrivals, placement \in {"next", "queued", "at"},
                                 row \in 0..(Size(queue) + 1)}
                              \cup {MoveRows(queue, first, last, to) :
                                     first \in Positions, last \in Positions,
                                     to \in Positions}
                              \cup {Reorder(queue, rows) : rows \in SetToSeqs(Positions)}
                              \cup SetShuffle(queue, ~queue.shuffle)
             PROVE  HeardPlace(q) = HeardPlace(queue)
  BY DEF EditsKeepWhatIsHeard
<1>1. Sound(queue) /\ Seated(queue)
  BY QueueHolds
<1>2. ASSUME NEW items \in Arrivals, NEW placement \in {"next", "queued", "at"},
             NEW row \in 0..(Size(queue) + 1), q = Insert(queue, items, placement, row)
      PROVE  HeardPlace(q) = HeardPlace(queue)
  <2>1. items \in Seq(Items)
    BY ArrivingLists
  <2>2. row \in Nat
    BY <1>1, PositionsAre
  <2> QED BY <1>1, <1>2, <2>1, <2>2, InsertHears
<1>3. ASSUME NEW first \in Positions, NEW last \in Positions, NEW to \in Positions,
             q = MoveRows(queue, first, last, to)
      PROVE  HeardPlace(q) = HeardPlace(queue)
  <2>1. CASE to \in first..last
    BY <1>3, <2>1, DroppedWithin
  <2>2. CASE to \notin first..last
    <3>1. /\ first \in 0..(Size(queue) - 1) /\ last \in 0..(Size(queue) - 1)
          /\ to \in 0..(Size(queue) - 1)
      BY DEF Positions
    <3> QED BY <1>1, <1>3, <2>2, <3>1, MoveRowsKeeps
  <2> QED BY <2>1, <2>2
<1>4. ASSUME NEW rows \in SetToSeqs(Positions), q = Reorder(queue, rows)
      PROVE  HeardPlace(q) = HeardPlace(queue)
  <2>1. rows \in SetToSeqs(0..(Size(queue) - 1))
    BY DEF Positions
  <2> QED BY <1>1, <1>4, <2>1, ReorderKeeps
<1>5. ASSUME q \in SetShuffle(queue, ~queue.shuffle)
      PROVE  HeardPlace(q) = HeardPlace(queue)
  BY <1>1, <1>5, ShuffleTurnedHears
<1> QED BY <1>2, <1>3, <1>4, <1>5

\* The row heard is not taken away by an insert, a drag, an order given or a shuffle
\* turned on or off (insert, move_rows, reorder, set_shuffle).
THEOREM EditsKeepTheRowHeard == Spec => []EditsKeepWhatIsHeard
<1>1. IInv => EditsKeepWhatIsHeard
  BY EditsHear
<1> QED BY <1>1, QueueStaysSound, PTL


-----------------------------------------------------------------------------
(* What is heard once rows are gone.                                        *)

\* As many rows are left of the first of a list as stand there and are not taken out.
LEMMA KeptCount ==
  ASSUME NEW set, NEW list, Lists(list, set), NEW n \in Nat, n <= Len(list), NEW places,
         NEW kept, kept = {i \in 1..Len(list) : list[i].place \notin places}
  PROVE  Len(Without(First(list, n), places)) = Cardinality(UpTo(kept, n))
<1>1. PICK l \in Nat : l = Len(list) /\ list \in Seq(set)
  BY ListIsAList DEF Lists
<1>2. PICK first : first = First(list, n)
  OBVIOUS
<1>3. Len(first) = n /\ first \in Seq(set) /\ \A i \in 1..n : first[i] = list[i]
  BY <1>1, <1>2, CutInTwo
<1>4. Lists(first, ToSet(first))
  BY <1>2, CutLists
<1>5. DOMAIN first = 1..n
  BY <1>3
<1>6. {i \in DOMAIN first : first[i].place \notin places} = UpTo(kept, n)
  <2>1. \A i \in 1..l : i <= n <=> i \in 1..n
    OBVIOUS
  <2>2. 1..n \in SUBSET (1..l)
    BY <1>1
  <2> QED BY <1>1, <1>3, <1>5, <2>1, <2>2 DEF UpTo
<1>7. UpTo(kept, n) \in SUBSET (1..Len(first))
  BY <1>3, <1>5, <1>6
<1>8. Len(Picked(first, UpTo(kept, n))) = Cardinality(UpTo(kept, n))
  BY <1>4, <1>7, PickedHolds
<1> QED BY <1>2, <1>6, <1>8 DEF Without

\* After the first n of a list none is left, or the first left follows the `before` that
\* are left of those.
FirstIsLeft(list, n, places, before, left) ==
  \/ /\ before = Len(left)
     /\ \A i \in (n + 1)..Len(list) : list[i].place \in places
  \/ \E j \in (n + 1)..Len(list) :
       /\ list[j].place \notin places
       /\ \A i \in (n + 1)..(j - 1) : list[i].place \in places
       /\ before + 1 \in 1..Len(left) /\ left[before + 1] = list[j]

LEMMA FirstLeft ==
  ASSUME NEW set, NEW list, Lists(list, set), NEW n \in Nat, n <= Len(list), NEW places
  PROVE  FirstIsLeft(list, n, places, Len(Without(First(list, n), places)),
                     Without(list, places))
<1>a. PICK before, left : /\ before = Len(Without(First(list, n), places))
                          /\ left = Without(list, places)
  OBVIOUS
<1> SUFFICES \/ /\ before = Len(left)
                /\ \A i \in (n + 1)..Len(list) : list[i].place \in places
             \/ \E j \in (n + 1)..Len(list) :
                  /\ list[j].place \notin places
                  /\ \A i \in (n + 1)..(j - 1) : list[i].place \in places
                  /\ before + 1 \in 1..Len(left) /\ left[before + 1] = list[j]
  BY <1>a DEF FirstIsLeft
<1>1. PICK l \in Nat : l = Len(list) /\ DOMAIN list = 1..l
  BY ListIsAList
<1>2. PICK kept : kept = {i \in 1..Len(list) : list[i].place \notin places}
  OBVIOUS
<1>3. kept \in SUBSET (1..Len(list)) /\ kept \in SUBSET Nat
  BY <1>1, <1>2
<1>4. /\ IsFiniteSet(kept) /\ Len(Picked(list, kept)) = Cardinality(kept)
  BY <1>3, PickedHolds
<1>5. left = Picked(list, kept)
  BY <1>a, <1>1, <1>2 DEF Without
<1>6. before = Cardinality(UpTo(kept, n))
  BY <1>a, <1>2, KeptCount
<1>7. CASE \A i \in (n + 1)..l : list[i].place \in places
  <2>1. \A i \in kept : i <= n
    <3>1. \A i \in 1..l : ~(i <= n) => i \in (n + 1)..l
      OBVIOUS
    <3> QED BY <1>1, <1>2, <1>7, <3>1
  <2>2. UpTo(kept, n) = kept
    BY <2>1 DEF UpTo
  <2> QED BY <1>1, <1>4, <1>5, <1>6, <1>7, <2>2
<1>8. CASE \E i \in (n + 1)..l : list[i].place \notin places
  <2>1. PICK later : later = {i \in (n + 1)..l : list[i].place \notin places}
    OBVIOUS
  <2>2. later \in SUBSET Nat /\ later # {} /\ later \in SUBSET kept
    <3>1. \A i \in (n + 1)..l : i \in Nat /\ i \in 1..l
      OBVIOUS
    <3> QED BY <1>1, <1>2, <1>8, <2>1, <3>1
  <2>3. IsFiniteSet(later)
    BY <1>4, <2>2, FS_Subset
  <2>4. PICK j \in later : \A i \in later : j <= i
    BY <2>2, <2>3, LeastIsThere
  <2>5. j \in (n + 1)..l /\ list[j].place \notin places /\ j \in kept /\ j \in Nat
    BY <2>1, <2>2, <2>4
  <2>6. ASSUME NEW i \in (n + 1)..(j - 1) PROVE list[i].place \in places
    <3>1. i \in (n + 1)..l /\ ~(j <= i)
      BY <2>5
    <3> QED BY <2>1, <2>4, <3>1
  <2>7. UpTo(kept, j) = UpTo(kept, n) \cup {j} /\ j \notin UpTo(kept, n)
    <3>1. j > n
      BY <2>5
    <3>2. \A i \in kept : i <= j <=> i <= n \/ i = j
      <4> SUFFICES ASSUME NEW i \in kept PROVE i <= j <=> i <= n \/ i = j
        OBVIOUS
      <4>1. i \in 1..l /\ list[i].place \notin places
        BY <1>1, <1>2
      <4>2. i \in (n + 1)..(j - 1) => FALSE
        BY <2>6, <4>1
      <4> QED BY <2>5, <3>1, <4>1, <4>2
    <3>3. j \in kept /\ ~(j <= n)
      BY <2>5, <3>1
    <3> QED BY <3>2, <3>3 DEF UpTo
  <2>8. Cardinality(UpTo(kept, j)) = before + 1
    <3>1. UpTo(kept, n) \in SUBSET kept
      BY DEF UpTo
    <3>2. IsFiniteSet(UpTo(kept, n))
      BY <1>4, <3>1, FS_Subset
    <3> QED BY <1>6, <2>7, <3>2, FS_AddElement
  <2>9. /\ Cardinality(UpTo(kept, j)) \in 1..Cardinality(kept)
        /\ Picked(list, kept)[Cardinality(UpTo(kept, j))] = list[j]
    BY <1>3, <2>5, PickedAt
  <2>10. before + 1 \in 1..Len(left) /\ left[before + 1] = list[j]
    BY <1>4, <1>5, <2>8, <2>9
  <2> QED BY <1>1, <2>5, <2>6, <2>10
<1> QED BY <1>7, <1>8

\* The row heard is drawn where the cursor is.
LEMMA CursorIs ==
  ASSUME NEW q, Sound(q), Seated(q), HeardPlace(q) # NoPlace
  PROVE  /\ Cursor(q) \in 0..(Size(q) - 1)
         /\ HeardPlace(q) = Drawn(q)[Cursor(q) + 1].place
         /\ \/ q.seat = "in_order" /\ Cursor(q) = q.after - 1 /\ q.after \in 1..Len(q.order)
               /\ HeardPlace(q) = q.order[q.after].place
            \/ q.seat = "next" /\ Cursor(q) = q.after /\ Len(q.next) > 0
               /\ HeardPlace(q) = q.next[1].place
<1>1. PICK inOrder, next : Stands(q, inOrder, next)
  BY DEF Sound
<1>2. Kinds(q) /\ q.after \in Nat /\ q.seat \in Seats
  BY DEF Sound, Kinds
<1>3. /\ q.seat # "nowhere"
      /\ q.seat = "in_order" =>
           /\ q.after \in 1..Len(q.order) /\ HeardPlace(q) = q.order[q.after].place
      /\ q.seat = "next" => 1 \in 1..Len(q.next) /\ HeardPlace(q) = q.next[1].place
  BY <1>1, <1>2, HeardIs
<1>4. PICK l \in Nat, n \in Nat, after \in Nat :
        l = Len(q.order) /\ n = Len(q.next) /\ after = q.after
  BY <1>1, <1>2, ListsOfASoundQueue
<1>5. after <= l
  BY <1>4 DEF Seated
<1>6. PutInto(Drawn(q), q.order, q.next, after) /\ Size(q) = l + n
  <2>1. PICK rows : q.order \in Seq(rows) /\ q.next \in Seq(rows)
    <3>1. PICK rows : rows = inOrder \cup next
      OBVIOUS
    <3>2. inOrder \in SUBSET rows /\ next \in SUBSET rows
      BY <3>1
    <3>3. Lists(q.order, inOrder) /\ Lists(q.next, next)
      BY <1>1 DEF Stands
    <3>4. q.order \in Seq(rows)
      BY <3>2, <3>3, ListOfMore
    <3>5. q.next \in Seq(rows)
      BY <3>2, <3>3, ListOfMore
    <3> QED BY <3>4, <3>5
  <2>2. PutInto(Drawn(q), q.order, q.next, after)
    BY <1>4, <1>5, <2>1, DrawnIs
  <2> QED BY <1>4, <2>2 DEF Size
<1>7. CASE q.seat = "in_order"
  <2>1. Cursor(q) = after - 1 /\ after \in 1..l
    BY <1>3, <1>4, <1>7 DEF Cursor
  <2>2. Drawn(q)[after] = q.order[after]
    <3>1. after \in 1..after
      BY <2>1
    <3> QED BY <1>6, <3>1 DEF PutInto
  <2>3. PICK cursor \in 0..(l + n - 1) : cursor = after - 1 /\ cursor + 1 = after
    BY <2>1
  <2>4. Cursor(q) = cursor /\ Cursor(q) = q.after - 1
    BY <1>4, <2>1, <2>3
  <2>5. Cursor(q) \in 0..(Size(q) - 1)
    BY <1>6, <2>4
  <2>6. HeardPlace(q) = Drawn(q)[Cursor(q) + 1].place
    BY <1>3, <1>4, <1>7, <2>2, <2>3, <2>4
  <2> QED BY <1>3, <1>7, <2>4, <2>5, <2>6
<1>8. CASE q.seat = "next"
  <2>1. Cursor(q) = after /\ 1 \in 1..n
    BY <1>3, <1>4, <1>8 DEF Cursor
  <2>2. Drawn(q)[after + 1] = q.next[1]
    BY <1>4, <1>6, <2>1 DEF PutInto
  <2>3. after \in 0..(l + n - 1) /\ n > 0
    BY <1>5, <2>1
  <2>4. Cursor(q) \in 0..(Size(q) - 1)
    BY <1>6, <2>1, <2>3
  <2>5. HeardPlace(q) = Drawn(q)[Cursor(q) + 1].place
    BY <1>3, <1>8, <2>1, <2>2
  <2>6. Cursor(q) = q.after /\ Len(q.next) > 0
    BY <1>4, <2>1, <2>3
  <2> QED BY <1>3, <1>8, <2>4, <2>5, <2>6
<1> QED BY <1>2, <1>3, <1>7, <1>8 DEF Seats

DroppedFrom(q, positions) == {Drawn(q)[at + 1].place : at \in positions}

LEMMA DroppedIs ==
  ASSUME NEW q, Sound(q), Seated(q), NEW positions \in SUBSET (0..(Size(q) - 1)),
         NEW dropped, dropped = DroppedFrom(q, positions), NEW at \in 0..(Size(q) - 1)
  PROVE  Drawn(q)[at + 1].place \in dropped <=> at \in positions
<1>1. PICK inOrder, next : Stands(q, inOrder, next)
  BY DEF Sound
<1>2. q.after \in Nat /\ Size(q) \in Nat
  BY PositionsAre DEF Sound, Kinds
<1>3. Lists(Drawn(q), inOrder \cup next) /\ Apart(inOrder \cup next)
  BY <1>1, <1>2, DrawnLists DEF Stands
<1>4. PICK size \in Nat : size = Size(q)
  BY <1>2
<1>5. PICK drawn : drawn = Drawn(q)
  OBVIOUS
<1>6. Len(drawn) = size
  <2>1. PICK set : set = inOrder \cup next
    OBVIOUS
  <2>2. inOrder \in SUBSET set /\ next \in SUBSET set /\ q.after <= Len(q.order)
    BY <2>1 DEF Seated
  <2>3. Lists(q.order, inOrder) /\ Lists(q.next, next)
    BY <1>1 DEF Stands
  <2>4. q.order \in Seq(set)
    BY <2>2, <2>3, ListOfMore
  <2>5. q.next \in Seq(set)
    BY <2>2, <2>3, ListOfMore
  <2> QED BY <1>2, <1>4, <1>5, <2>2, <2>4, <2>5, DrawnIs
<1>7. ASSUME NEW a \in 0..(size - 1), NEW b \in 0..(size - 1), drawn[a + 1].place = drawn[b + 1].place
      PROVE  a = b
  <2>1. a + 1 \in 1..size /\ b + 1 \in 1..size
    OBVIOUS
  <2>2. drawn \in [1..size -> inOrder \cup next]
    BY <1>3, <1>5, <1>6, ListIsAList
  <2>3. drawn[a + 1] \in inOrder \cup next /\ drawn[b + 1] \in inOrder \cup next
    BY <2>1, <2>2
  <2>4. drawn[a + 1] = drawn[b + 1]
    BY <1>3, <1>7, <2>3 DEF Apart
  <2>5. a + 1 = b + 1
    BY <1>3, <1>5, <1>6, <2>1, <2>4 DEF Lists
  <2> QED BY <2>5
<1>8. positions \in SUBSET (0..(size - 1)) /\ at \in 0..(size - 1)
  BY <1>4
<1>9. dropped = {drawn[i + 1].place : i \in positions}
  BY <1>5 DEF DroppedFrom
<1> QED BY <1>5, <1>7, <1>8, <1>9


\* The row heard plays on where it stays.
LEMMA StaysHeard ==
  ASSUME NEW q, Sound(q), Seated(q), HeardPlace(q) # NoPlace,
         NEW dropped, HeardPlace(q) \notin dropped, NEW p, p = Left(q, dropped)
  PROVE  HeardPlace(p) = HeardPlace(q)
<1>1. PICK inOrder, next : Stands(q, inOrder, next)
  BY DEF Sound
<1>2. Lists(q.order, inOrder) /\ Lists(q.next, next) /\ q.after \in Nat
  BY <1>1 DEF Stands, Sound, Kinds
<1>3. /\ p.order = Without(q.order, dropped) /\ p.next = Without(q.next, dropped)
      /\ p.after = Len(Without(First(q.order, q.after), dropped)) /\ p.seat = q.seat
  <2>1. q.after <= Len(q.order)
    BY DEF Seated
  <2> QED BY <2>1, LeftStands
<1>4. \/ q.seat = "in_order" /\ q.after \in 1..Len(q.order)
           /\ HeardPlace(q) = q.order[q.after].place
      \/ q.seat = "next" /\ Len(q.next) > 0 /\ HeardPlace(q) = q.next[1].place
  BY CursorIs
<1>5. CASE q.seat = "in_order"
  <2>1. q.after \in 1..Len(q.order) /\ HeardPlace(q) = q.order[q.after].place
    BY <1>4, <1>5
  <2>2. PICK passed : passed = First(q.order, q.after)
    OBVIOUS
  <2>3. /\ Len(Without(passed, dropped)) \in 1..Len(Without(q.order, dropped))
        /\ Without(q.order, dropped)[Len(Without(passed, dropped))] = q.order[q.after]
    BY <1>2, <2>1, <2>2, LastKept
  <2>4. p.after \in 1..Len(p.order) /\ p.order[p.after] = q.order[q.after]
    BY <1>3, <2>2, <2>3
  <2>5. HeardPlace(p) = p.order[p.after].place
    BY <1>3, <1>5, <2>4 DEF HeardPlace, LastHeard
  <2> QED BY <2>1, <2>4, <2>5
<1>6. CASE q.seat = "next"
  <2>1. Len(q.next) > 0 /\ HeardPlace(q) = q.next[1].place
    BY <1>4, <1>6
  <2>2. q.next # <<>>
    BY <2>1
  <2>3. Without(q.next, dropped) # <<>> /\ Without(q.next, dropped)[1] = q.next[1]
    BY <1>2, <2>1, <2>2, FirstKept
  <2>4. HeardPlace(p) = p.next[1].place
    BY <1>3, <1>6, <2>3 DEF HeardPlace
  <2> QED BY <1>3, <2>1, <2>3, <2>4
<1> QED BY <1>4, <1>5, <1>6

\* The first row drawn after the one heard that is not taken out, or none.
IsTheNextLeft(q, dropped, j) ==
  /\ j \in 1..Size(q) /\ j - 1 > Cursor(q) /\ Drawn(q)[j].place \notin dropped
  /\ \A i \in 1..(j - 1) : i - 1 > Cursor(q) => Drawn(q)[i].place \in dropped

NoneLeft(q, dropped) ==
  \A i \in 1..Size(q) : i - 1 > Cursor(q) => Drawn(q)[i].place \in dropped

\* Where the rows after the one heard are drawn.
LEMMA PastTheSeat ==
  ASSUME NEW l \in Nat, NEW n \in Nat, NEW after \in Nat, NEW cursor \in Int,
         cursor >= after - 1, NEW i \in 1..(l + n), i - 1 > cursor
  PROVE  (i > after /\ i - after \in 1..n) \/ i - n \in (after + 1)..l
<1>1. i > after /\ i <= l + n
  OBVIOUS
<1>2. CASE i <= after + n
  BY <1>1, <1>2
<1>3. CASE i > after + n
  BY <1>1, <1>3
<1> QED BY <1>2, <1>3

AreTheLengths(q, l, n, after) == l = Len(q.order) /\ n = Len(q.next) /\ after = q.after

LEMMA DrawnAfterTheCursor ==
  ASSUME NEW q, Sound(q), Seated(q), HeardPlace(q) # NoPlace,
         NEW l \in Nat, NEW n \in Nat, NEW after \in Nat, AreTheLengths(q, l, n, after)
  PROVE  /\ Size(q) = l + n /\ after <= l
         /\ \A i \in 1..n : Drawn(q)[after + i] = q.next[i]
         /\ \A i \in (after + 1)..l : Drawn(q)[n + i] = q.order[i]
         /\ \A i \in 1..(l + n) : i - 1 > Cursor(q) =>
              \/ i > after /\ i - after \in 1..n
              \/ i - n \in (after + 1)..l
         /\ \A i \in (after + 1)..l : n + i - 1 > Cursor(q)
         /\ \A i \in 1..n : q.next[i].place # HeardPlace(q) => after + i - 1 > Cursor(q)
<1> l = Len(q.order) /\ n = Len(q.next) /\ after = q.after
  BY DEF AreTheLengths
<1>1. PICK inOrder, next : Stands(q, inOrder, next)
  BY DEF Sound
<1>2. after <= l
  BY DEF Seated
<1>3. PutInto(Drawn(q), q.order, q.next, after)
  <2>1. PICK rows : rows = inOrder \cup next
    OBVIOUS
  <2>2. inOrder \in SUBSET rows /\ next \in SUBSET rows
    BY <2>1
  <2>3. Lists(q.order, inOrder) /\ Lists(q.next, next)
    BY <1>1 DEF Stands
  <2>4. q.order \in Seq(rows)
    BY <2>2, <2>3, ListOfMore
  <2>5. q.next \in Seq(rows)
    BY <2>2, <2>3, ListOfMore
  <2> QED BY <1>2, <2>4, <2>5, DrawnIs
<1>4. \/ Cursor(q) = after - 1
      \/ Cursor(q) = after /\ n > 0 /\ HeardPlace(q) = q.next[1].place
  BY CursorIs
<1>5. PICK cursor \in Int : /\ cursor = Cursor(q)
                            /\ \/ cursor = after - 1
                               \/ cursor = after /\ n > 0 /\ HeardPlace(q) = q.next[1].place
  <2>1. after - 1 \in Int /\ after \in Int
    OBVIOUS
  <2> QED BY <1>4, <2>1
<1>6. Size(q) = l + n
  BY DEF Size
<1>7. \A i \in 1..n : Drawn(q)[after + i] = q.next[i]
  BY <1>3 DEF PutInto
<1>8. \A i \in (after + 1)..l : Drawn(q)[n + i] = q.order[i]
  BY <1>3 DEF PutInto
<1>9. \A i \in 1..(l + n) : i - 1 > cursor =>
        \/ i > after /\ i - after \in 1..n
        \/ i - n \in (after + 1)..l
  <2>1. cursor >= after - 1
    BY <1>5
  <2> QED BY <2>1, PastTheSeat
<1>10. \A i \in (after + 1)..l : n + i - 1 > cursor
  <2>1. cursor = after - 1 \/ (cursor = after /\ n > 0)
    BY <1>5
  <2> QED BY <2>1
<1>11. ASSUME NEW i \in 1..n, q.next[i].place # HeardPlace(q)
       PROVE  after + i - 1 > cursor
  <2>1. CASE cursor = after - 1
    BY <2>1
  <2>2. CASE cursor = after /\ HeardPlace(q) = q.next[1].place
    <3>1. i # 1
      BY <1>11, <2>2
    <3> QED BY <2>2, <3>1
  <2> QED BY <1>5, <2>1, <2>2
<1> QED BY <1>2, <1>5, <1>6, <1>7, <1>8, <1>9, <1>10, <1>11

\* What is left of those played next comes first.
LEMMA NextIsLeft ==
  ASSUME NEW q, Sound(q), Seated(q), HeardPlace(q) # NoPlace,
         NEW dropped, HeardPlace(q) \in dropped, Without(q.next, dropped) # <<>>
  PROVE  \E j : IsTheNextLeft(q, dropped, j)
                /\ Without(q.next, dropped)[1].place = Drawn(q)[j].place
<1>1. PICK inOrder, next : Stands(q, inOrder, next)
  BY DEF Sound
<1>2. PICK l \in Nat, n \in Nat, after \in Nat :
        l = Len(q.order) /\ n = Len(q.next) /\ after = q.after
  BY <1>1, ListsOfASoundQueue DEF Sound, Kinds
<1>3. Lists(q.next, next)
  BY <1>1 DEF Stands
<1>4. PICK cursor : cursor = Cursor(q)
  OBVIOUS
<1>5. /\ Size(q) = l + n /\ after <= l
      /\ \A i \in 1..n : Drawn(q)[after + i] = q.next[i]
      /\ \A i \in 1..(l + n) : i - 1 > cursor =>
           \/ i > after /\ i - after \in 1..n
           \/ i - n \in (after + 1)..l
      /\ \A i \in 1..n : q.next[i].place # HeardPlace(q) => after + i - 1 > cursor
  <2>1. AreTheLengths(q, l, n, after)
    BY <1>2 DEF AreTheLengths
  <2> QED BY <1>4, <2>1, DrawnAfterTheCursor
<1>6. PICK none \in Nat : none = 0
  OBVIOUS
<1>7. PICK before : before = Len(Without(First(q.next, none), dropped))
  OBVIOUS
<1>8. before = 0
  <2>1. PICK kept : kept = {i \in 1..Len(q.next) : q.next[i].place \notin dropped}
    OBVIOUS
  <2>2. before = Cardinality(UpTo(kept, none))
    BY <1>2, <1>3, <1>6, <1>7, <2>1, KeptCount
  <2>3. UpTo(kept, none) = {}
    BY <1>2, <1>6, <2>1 DEF UpTo
  <2> QED BY <2>2, <2>3, FS_EmptySet
<1>9. PICK left : left = Without(q.next, dropped)
  OBVIOUS
<1>10. \/ /\ before = Len(left)
          /\ \A i \in (none + 1)..Len(q.next) : q.next[i].place \in dropped
       \/ \E j \in (none + 1)..Len(q.next) :
            /\ q.next[j].place \notin dropped
            /\ \A i \in (none + 1)..(j - 1) : q.next[i].place \in dropped
            /\ before + 1 \in 1..Len(left) /\ left[before + 1] = q.next[j]
  <2>1. none <= Len(q.next)
    BY <1>2, <1>6
  <2>2. FirstIsLeft(q.next, none, dropped, Len(Without(First(q.next, none), dropped)),
                    Without(q.next, dropped))
    BY <1>3, <2>1, FirstLeft
  <2>3. FirstIsLeft(q.next, none, dropped, before, left)
    BY <1>7, <1>9, <2>2
  <2> QED BY <2>3 DEF FirstIsLeft
<1>11. Len(left) # 0
  <2>1. Lists(left, NotOf(next, dropped))
    BY <1>3, <1>9, OnlyOf
  <2>2. left # <<>>
    BY <1>9
  <2>3. left \in Seq(NotOf(next, dropped))
    BY <2>1 DEF Lists
  <2> QED BY <2>2, <2>3, EmptySeq
<1>12. PICK j \in 1..n : /\ q.next[j].place \notin dropped
                         /\ \A i \in 1..(j - 1) : q.next[i].place \in dropped
                         /\ left[1] = q.next[j]
  BY <1>2, <1>6, <1>8, <1>10, <1>11
<1>13. PICK at \in 1..(l + n) : at = after + j
  BY <1>5
<1>14. Drawn(q)[at] = q.next[j] /\ at - 1 > cursor
  <2>1. q.next[j].place # HeardPlace(q)
    BY <1>12
  <2> QED BY <1>5, <1>13, <2>1
<1>15. ASSUME NEW i \in 1..(at - 1), i - 1 > cursor PROVE Drawn(q)[i].place \in dropped
  <2>1. i \in 1..(l + n) /\ i < after + j
    BY <1>13
  <2>2. i - after \in 1..(j - 1)
    <3>1. (i > after /\ i - after \in 1..n) \/ i - n \in (after + 1)..l
      BY <1>5, <1>15, <2>1
    <3> QED BY <2>1, <3>1
  <2>3. PICK k \in 1..(j - 1) : k = i - after /\ i = after + k /\ k \in 1..n
    BY <2>2
  <2>4. Drawn(q)[i] = q.next[k] /\ q.next[k].place \in dropped
    BY <1>5, <1>12, <2>3
  <2> QED BY <2>4
<1>16. IsTheNextLeft(q, dropped, at)
  BY <1>4, <1>5, <1>12, <1>14, <1>15 DEF IsTheNextLeft
<1> QED BY <1>9, <1>12, <1>14, <1>16

\* Then what is left of those in order after the seat.
LEMMA OrderIsLeft ==
  ASSUME NEW q, Sound(q), Seated(q), HeardPlace(q) # NoPlace,
         NEW dropped, Without(q.next, dropped) = <<>>,
         NEW before, before = Len(Without(First(q.order, q.after), dropped)),
         NEW left, left = Without(q.order, dropped)
  PROVE  \/ before = Len(left) /\ NoneLeft(q, dropped)
         \/ \E j : /\ IsTheNextLeft(q, dropped, j)
                   /\ before + 1 \in 1..Len(left)
                   /\ left[before + 1].place = Drawn(q)[j].place
<1>1. PICK inOrder, next : Stands(q, inOrder, next)
  BY DEF Sound
<1>2. PICK l \in Nat, n \in Nat, after \in Nat :
        l = Len(q.order) /\ n = Len(q.next) /\ after = q.after
  BY <1>1, ListsOfASoundQueue DEF Sound, Kinds
<1>3. Lists(q.next, next) /\ Lists(q.order, inOrder)
  BY <1>1 DEF Stands
<1>4. PICK cursor : cursor = Cursor(q)
  OBVIOUS
<1>5. /\ Size(q) = l + n /\ after <= l
      /\ \A i \in 1..n : Drawn(q)[after + i] = q.next[i]
      /\ \A i \in (after + 1)..l : Drawn(q)[n + i] = q.order[i]
      /\ \A i \in 1..(l + n) : i - 1 > cursor =>
           \/ i > after /\ i - after \in 1..n
           \/ i - n \in (after + 1)..l
      /\ \A i \in (after + 1)..l : n + i - 1 > cursor
  <2>1. AreTheLengths(q, l, n, after)
    BY <1>2 DEF AreTheLengths
  <2> QED BY <1>4, <2>1, DrawnAfterTheCursor
<1>6. \A i \in 1..n : q.next[i].place \in dropped
  <2>1. Lists(<<>>, NotOf(next, dropped))
    BY <1>3, OnlyOf
  <2>2. NotOf(next, dropped) = {}
    <3>1. \A r \in NotOf(next, dropped) : \E i \in 1..Len(<<>>) : <<>>[i] = r
      BY <2>1 DEF Lists
    <3>2. Len(<<>>) = 0
      BY EmptySeq
    <3>3. \A i \in 1..0 : FALSE
      OBVIOUS
    <3> QED BY <3>1, <3>2, <3>3
  <2>3. \A i \in 1..n : q.next[i] \in next
    <3>1. q.next \in [1..n -> next]
      BY <1>2, <1>3, ListIsAList
    <3> QED BY <3>1
  <2> QED BY <2>2, <2>3 DEF NotOf
<1>7. \/ /\ before = Len(left)
         /\ \A i \in (after + 1)..l : q.order[i].place \in dropped
      \/ \E j \in (after + 1)..l :
           /\ q.order[j].place \notin dropped
           /\ \A i \in (after + 1)..(j - 1) : q.order[i].place \in dropped
           /\ before + 1 \in 1..Len(left) /\ left[before + 1] = q.order[j]
  <2>1. FirstIsLeft(q.order, after, dropped, Len(Without(First(q.order, after), dropped)),
                    Without(q.order, dropped))
    BY <1>2, <1>3, <1>5, FirstLeft
  <2>2. FirstIsLeft(q.order, after, dropped, before, left)
    BY <1>2, <2>1
  <2> QED BY <1>2, <2>2 DEF FirstIsLeft
<1>8. CASE before = Len(left) /\ \A i \in (after + 1)..l : q.order[i].place \in dropped
  <2>1. ASSUME NEW i \in 1..(l + n), i - 1 > cursor PROVE Drawn(q)[i].place \in dropped
    <3>1. CASE i > after /\ i - after \in 1..n
      <4>1. PICK k \in 1..n : i = after + k
        BY <3>1
      <4> QED BY <1>5, <1>6, <4>1
    <3>2. CASE i - n \in (after + 1)..l
      <4>1. PICK k \in (after + 1)..l : i = n + k
        BY <3>2
      <4> QED BY <1>5, <1>8, <4>1
    <3> QED BY <1>5, <2>1, <3>1, <3>2
  <2> QED BY <1>4, <1>5, <1>8, <2>1 DEF NoneLeft
<1>9. ASSUME NEW j \in (after + 1)..l, q.order[j].place \notin dropped,
             \A i \in (after + 1)..(j - 1) : q.order[i].place \in dropped,
             before + 1 \in 1..Len(left), left[before + 1] = q.order[j]
      PROVE  \E k : /\ IsTheNextLeft(q, dropped, k)
                    /\ before + 1 \in 1..Len(left)
                    /\ left[before + 1].place = Drawn(q)[k].place
  <2>1. PICK at \in 1..(l + n) : at = n + j
    BY <1>5
  <2>2. Drawn(q)[at] = q.order[j] /\ at - 1 > cursor
    <3>1. Drawn(q)[n + j] = q.order[j]
      BY <1>5
    <3>2. n + j - 1 > cursor
      BY <1>5
    <3> QED BY <2>1, <3>1, <3>2
  <2>3. ASSUME NEW i \in 1..(at - 1), i - 1 > cursor PROVE Drawn(q)[i].place \in dropped
    <3>1. i \in 1..(l + n) /\ i < n + j
      BY <2>1
    <3>2. CASE i > after /\ i - after \in 1..n
      <4>1. PICK k \in 1..n : i = after + k
        BY <3>2
      <4> QED BY <1>5, <1>6, <4>1
    <3>3. CASE i - n \in (after + 1)..l
      <4>1. PICK k \in (after + 1)..l : i = n + k /\ k \in (after + 1)..(j - 1)
        BY <3>1, <3>3
      <4> QED BY <1>5, <1>9, <4>1
    <3> QED BY <1>5, <2>3, <3>1, <3>2, <3>3
  <2>4. IsTheNextLeft(q, dropped, at)
    BY <1>4, <1>5, <1>9, <2>2, <2>3 DEF IsTheNextLeft
  <2> QED BY <1>9, <2>2, <2>4
<1> QED BY <1>7, <1>8, <1>9


\* The row heard taken out hands on to the first left after it, then to a new pass.
LEMMA HandedOn ==
  ASSUME NEW q, Sound(q), Seated(q), HeardPlace(q) # NoPlace,
         NEW dropped, HeardPlace(q) \in dropped, NEW left, left = Left(q, dropped),
         NEW p \in HandOn(left)
  PROVE  \/ \E j : IsTheNextLeft(q, dropped, j) /\ HeardPlace(p) = Drawn(q)[j].place
         \/ /\ NoneLeft(q, dropped)
            /\ HeardPlace(p) = NoPlace <=> q.repeat # "queue" \/ p.order = <<>>
            /\ HeardPlace(p) # NoPlace => HeardPlace(p) = Drawn(p)[1].place
<1>1. /\ Sound(left) /\ left.repeat = q.repeat
      /\ left.order = Without(q.order, dropped) /\ left.next = Without(q.next, dropped)
      /\ left.after = Len(Without(First(q.order, q.after), dropped))
      /\ left.after <= Len(left.order)
  <2>1. q.after <= Len(q.order)
    BY DEF Seated
  <2> QED BY <2>1, LeftStands
<1>2. Shape(left) /\ Kinds(left) /\ left.after \in Nat
  BY <1>1 DEF Sound, Kinds
<1>3. Len(left.order) \in Nat /\ (left.order = <<>> <=> Len(left.order) = 0)
  BY <1>1, ListsOfASoundQueue DEF Sound
<1>4. CASE left.next # <<>>
  <2>1. p = [left EXCEPT !.seat = "next"]
    BY <1>4 DEF HandOn
  <2>2. p.next = left.next /\ p.seat = "next"
    BY <1>2, <2>1 DEF Shape, Fields
  <2>3. HeardPlace(p) = left.next[1].place
    BY <1>4, <2>2 DEF HeardPlace
  <2>4. Without(q.next, dropped) # <<>>
    BY <1>1, <1>4
  <2>5. \E j : IsTheNextLeft(q, dropped, j)
               /\ Without(q.next, dropped)[1].place = Drawn(q)[j].place
    BY <2>4, NextIsLeft
  <2> QED BY <1>1, <2>3, <2>5
<1>5. ASSUME left.next = <<>>
      PROVE  \/ left.after = Len(left.order) /\ NoneLeft(q, dropped)
             \/ \E j : /\ IsTheNextLeft(q, dropped, j)
                       /\ left.after + 1 \in 1..Len(left.order)
                       /\ left.order[left.after + 1].place = Drawn(q)[j].place
  <2>1. Without(q.next, dropped) = <<>>
    BY <1>1, <1>5
  <2>2. PICK before : before = Len(Without(First(q.order, q.after), dropped))
    OBVIOUS
  <2>3. PICK order : order = Without(q.order, dropped)
    OBVIOUS
  <2>4. \/ before = Len(order) /\ NoneLeft(q, dropped)
        \/ \E j : /\ IsTheNextLeft(q, dropped, j)
                  /\ before + 1 \in 1..Len(order)
                  /\ order[before + 1].place = Drawn(q)[j].place
    BY <2>1, <2>2, <2>3, OrderIsLeft
  <2>5. before = left.after /\ order = left.order
    BY <1>1, <2>2, <2>3
  <2> QED BY <2>4, <2>5
<1>6. CASE left.next = <<>> /\ left.after < Len(left.order)
  <2>1. p = [left EXCEPT !.after = left.after + 1, !.seat = "in_order"]
    <3>1. ~(left.after >= Len(left.order))
      BY <1>2, <1>3, <1>6
    <3> QED BY <1>6, <3>1 DEF HandOn
  <2>2. p.order = left.order /\ p.seat = "in_order" /\ p.after = left.after + 1
    BY <1>2, <2>1 DEF Shape, Fields
  <2>3. left.after + 1 \in 1..Len(left.order)
    BY <1>2, <1>3, <1>6
  <2>4. HeardPlace(p) = left.order[left.after + 1].place
    BY <2>2, <2>3 DEF HeardPlace, LastHeard
  <2>5. left.after # Len(left.order)
    BY <1>2, <1>3, <1>6
  <2>6. \E j : /\ IsTheNextLeft(q, dropped, j)
               /\ left.order[left.after + 1].place = Drawn(q)[j].place
    BY <1>5, <1>6, <2>5
  <2> QED BY <2>4, <2>6
<1>7. CASE left.next = <<>> /\ ~(left.after < Len(left.order))
  <2>1. NoneLeft(q, dropped)
    <3>1. left.after + 1 \notin 1..Len(left.order)
      BY <1>2, <1>3, <1>7
    <3> QED BY <1>5, <1>7, <3>1
  <2>2. left.after >= Len(left.order)
    BY <1>2, <1>3, <1>7
  <2>3. CASE left.repeat = "queue" /\ left.order # <<>>
    <3>1. p \in WrapToTheStart(left)
      BY <1>7, <2>2, <2>3 DEF HandOn
    <3>2. Sound(p) /\ Seated(p) /\ p.seat = "in_order" /\ p.after = 1 /\ p.order # <<>>
      BY <1>1, <1>7, <2>3, <3>1, WrapStands
    <3>3. PICK inOrder, next : Stands(p, inOrder, next)
      BY <3>2 DEF Sound
    <3>4. /\ \A r \in inOrder \cup next : r.place # NoPlace
          /\ p.after \in 1..Len(p.order) /\ p.order[p.after] \in inOrder
          /\ HeardPlace(p) = p.order[p.after].place
      BY <3>2, <3>3, HeardIs DEF Sound
    <3>5. HeardPlace(p) # NoPlace
      BY <3>4
    <3>6. Cursor(p) + 1 = 1
      BY <3>2 DEF Cursor
    <3>7. HeardPlace(p) = Drawn(p)[Cursor(p) + 1].place
      BY <3>2, <3>5, CursorIs
    <3> QED BY <1>1, <2>1, <2>3, <3>2, <3>5, <3>6, <3>7
  <2>4. CASE ~(left.repeat = "queue" /\ left.order # <<>>)
    <3>1. p = [left EXCEPT !.seat = "nowhere"]
      BY <1>7, <2>2, <2>4 DEF HandOn
    <3>2. p.order = left.order /\ p.seat = "nowhere"
      BY <1>2, <3>1 DEF Shape, Fields
    <3>3. HeardPlace(p) = NoPlace
      BY <3>2 DEF HeardPlace
    <3> QED BY <1>1, <2>1, <2>4, <3>2, <3>3
  <2> QED BY <2>3, <2>4
<1> QED BY <1>4, <1>6, <1>7

\* What RemovalHandsOn finds drawn after the row heard.
LeftDrawn(list, cursor, positions) ==
  SelectInSeq([i \in DOMAIN list |-> i - 1], LAMBDA at : at > cursor /\ at \notin positions)

LEMMA LeftDrawnIs ==
  ASSUME NEW set, NEW list \in Seq(set), NEW cursor, NEW positions,
         NEW found, found = LeftDrawn(list, cursor, positions)
  PROVE  \/ /\ found = 0
            /\ \A i \in 1..Len(list) : ~(i - 1 > cursor /\ i - 1 \notin positions)
         \/ /\ found \in 1..Len(list) /\ found - 1 > cursor /\ found - 1 \notin positions
            /\ \A i \in 1..Len(list) :
                 i - 1 > cursor /\ i - 1 \notin positions => found <= i
<1>1. PICK n \in Nat : n = Len(list) /\ DOMAIN list = 1..n
  OBVIOUS
<1>2. PICK numbers : numbers = [i \in 1..n |-> i - 1]
  OBVIOUS
<1>3. Len(numbers) = n /\ \A i \in 1..n : numbers[i] = i - 1
  BY <1>2
<1>4. PICK where : where = {i \in 1..n : i - 1 > cursor /\ i - 1 \notin positions}
  OBVIOUS
<1>5. where = {i \in 1..Len(numbers) : numbers[i] > cursor /\ numbers[i] \notin positions}
  BY <1>3, <1>4
<1>6. found = IF where # {} THEN Min(where) ELSE 0
  BY <1>1, <1>2, <1>5 DEF LeftDrawn, SelectInSeq
<1>7. IsFiniteSet(where) /\ where \in SUBSET Nat
  <2>1. IsFiniteSet(1..n) /\ where \in SUBSET (1..n)
    BY <1>4, FS_Interval
  <2>2. IsFiniteSet(where)
    BY <2>1, FS_Subset
  <2> QED BY <2>1, <2>2
<1>8. CASE where = {}
  BY <1>1, <1>4, <1>6, <1>8
<1>9. CASE where # {}
  <2>1. Min(where) \in where /\ \A i \in where : Min(where) <= i
    BY <1>7, <1>9, LeastIsThere
  <2>2. found \in where /\ \A i \in where : found <= i
    BY <1>6, <1>9, <2>1
  <2> QED BY <1>1, <1>4, <2>2
<1> QED BY <1>8, <1>9


\* The row found is the first left after the row heard, where there is one.
LEMMA FoundIsTheNextLeft ==
  ASSUME NEW q, Sound(q), Seated(q), NEW positions \in SUBSET (0..(Size(q) - 1)),
         Cursor(q) \in 0..(Size(q) - 1),
         NEW dropped, dropped = DroppedFrom(q, positions),
         NEW found, found = LeftDrawn(Drawn(q), Cursor(q), positions)
  PROVE  /\ \A j : IsTheNextLeft(q, dropped, j) => found = j /\ found > 0
         /\ NoneLeft(q, dropped) => found = 0
<1>1. PICK inOrder, next : Stands(q, inOrder, next)
  BY DEF Sound
<1>2. q.after \in Nat /\ q.after <= Len(q.order)
  BY DEF Sound, Kinds, Seated
<1>3. PICK drawn, rows : drawn = Drawn(q) /\ rows = inOrder \cup next
  OBVIOUS
<1>4. drawn \in Seq(rows) /\ Len(drawn) = Size(q)
  <2>1. inOrder \in SUBSET rows /\ next \in SUBSET rows
    BY <1>3
  <2>2. Lists(q.order, inOrder) /\ Lists(q.next, next)
    BY <1>1 DEF Stands
  <2>3. q.order \in Seq(rows)
    BY <2>1, <2>2, ListOfMore
  <2>4. q.next \in Seq(rows)
    BY <2>1, <2>2, ListOfMore
  <2> QED BY <1>2, <1>3, <2>3, <2>4, DrawnIs
<1>5. PICK size \in Nat : size = Size(q)
  BY PositionsAre
<1>6. PICK cursor \in Int : cursor = Cursor(q)
  BY <1>5
<1>7. \/ /\ found = 0
         /\ \A i \in 1..Len(drawn) : ~(i - 1 > cursor /\ i - 1 \notin positions)
      \/ /\ found \in 1..Len(drawn) /\ found - 1 > cursor /\ found - 1 \notin positions
         /\ \A i \in 1..Len(drawn) : i - 1 > cursor /\ i - 1 \notin positions => found <= i
  <2>1. found = LeftDrawn(drawn, cursor, positions)
    BY <1>3, <1>6
  <2> QED BY <1>4, <2>1, LeftDrawnIs
<1>8. \/ /\ found = 0
         /\ \A i \in 1..size : ~(i - 1 > cursor /\ i - 1 \notin positions)
      \/ /\ found \in 1..size /\ found - 1 > cursor /\ found - 1 \notin positions
         /\ \A i \in 1..size : i - 1 > cursor /\ i - 1 \notin positions => found <= i
  BY <1>4, <1>5, <1>7
<1>9. ASSUME NEW i \in 1..size PROVE drawn[i].place \in dropped <=> i - 1 \in positions
  <2>1. PICK at \in 0..(size - 1) : at = i - 1 /\ at + 1 = i
    OBVIOUS
  <2>2. at \in 0..(Size(q) - 1)
    BY <1>5, <2>1
  <2>3. Drawn(q)[at + 1].place \in dropped <=> at \in positions
    BY <2>2, DroppedIs
  <2> QED BY <1>3, <2>1, <2>3
<1>10. ASSUME NEW j, IsTheNextLeft(q, dropped, j) PROVE found = j /\ found > 0
  <2>1. /\ j \in 1..size /\ j - 1 > cursor /\ drawn[j].place \notin dropped
        /\ \A i \in 1..(j - 1) : i - 1 > cursor => drawn[i].place \in dropped
    BY <1>3, <1>5, <1>6, <1>10 DEF IsTheNextLeft
  <2>2. j - 1 \notin positions
    BY <1>9, <2>1
  <2>3. found \in 1..size /\ found - 1 > cursor /\ found - 1 \notin positions /\ found <= j
    BY <1>8, <2>1, <2>2
  <2>4. drawn[found].place \notin dropped
    BY <1>9, <2>3
  <2>5. found \notin 1..(j - 1)
    BY <2>1, <2>3, <2>4
  <2> QED BY <2>1, <2>3, <2>5
<1>11. ASSUME NoneLeft(q, dropped) PROVE found = 0
  <2>1. \A i \in 1..size : i - 1 > cursor => drawn[i].place \in dropped
    BY <1>3, <1>5, <1>6, <1>11 DEF NoneLeft
  <2>2. \A i \in 1..size : i - 1 > cursor => i - 1 \in positions
    BY <1>9, <2>1
  <2> QED BY <1>8, <2>2
<1> QED BY <1>10, <1>11

LEMMA RemovalHears ==
  ASSUME NEW q, Sound(q), Seated(q), HeardPlace(q) # NoPlace,
         NEW positions \in SUBSET (0..(Size(q) - 1)), NEW p \in RemoveAll(q, positions),
         NEW found, found = LeftDrawn(Drawn(q), Cursor(q), positions)
  PROVE  /\ Cursor(q) \notin positions => HeardPlace(p) = HeardPlace(q)
         /\ Cursor(q) \in positions /\ found > 0 => HeardPlace(p) = Drawn(q)[found].place
         /\ Cursor(q) \in positions /\ ~(found > 0) =>
              /\ HeardPlace(p) = NoPlace <=> q.repeat # "queue" \/ p.order = <<>>
              /\ HeardPlace(p) # NoPlace => HeardPlace(p) = Drawn(p)[1].place
<1>1. PICK dropped : dropped = DroppedFrom(q, positions)
  OBVIOUS
<1>2. PICK left : left = Left(q, dropped)
  OBVIOUS
<1>3. p \in IF HeardPlace(q) \in dropped THEN HandOn(left) ELSE {left}
  BY <1>1, <1>2 DEF RemoveAll, Left, DroppedFrom
<1>4. PICK cursor : cursor = Cursor(q)
  OBVIOUS
<1>5. cursor \in 0..(Size(q) - 1) /\ HeardPlace(q) = Drawn(q)[cursor + 1].place
  BY <1>4, CursorIs
<1>6. HeardPlace(q) \in dropped <=> cursor \in positions
  BY <1>1, <1>5, DroppedIs
<1>7. /\ \A j : IsTheNextLeft(q, dropped, j) => found = j /\ found > 0
      /\ NoneLeft(q, dropped) => found = 0
  <2>1. Cursor(q) \in 0..(Size(q) - 1)
    BY <1>4, <1>5
  <2> QED BY <1>1, <2>1, FoundIsTheNextLeft
<1>8. CASE cursor \notin positions
  <2>1. HeardPlace(q) \notin dropped /\ p = left
    BY <1>3, <1>6, <1>8
  <2>2. HeardPlace(p) = HeardPlace(q)
    BY <1>2, <2>1, StaysHeard
  <2> QED BY <1>4, <1>8, <2>2
<1>9. CASE cursor \in positions
  <2>1. HeardPlace(q) \in dropped /\ p \in HandOn(left)
    BY <1>3, <1>6, <1>9
  <2>2. \/ \E j : IsTheNextLeft(q, dropped, j) /\ HeardPlace(p) = Drawn(q)[j].place
        \/ /\ NoneLeft(q, dropped)
           /\ HeardPlace(p) = NoPlace <=> q.repeat # "queue" \/ p.order = <<>>
           /\ HeardPlace(p) # NoPlace => HeardPlace(p) = Drawn(p)[1].place
    BY <1>2, <2>1, HandedOn
  <2>3. CASE \E j : IsTheNextLeft(q, dropped, j) /\ HeardPlace(p) = Drawn(q)[j].place
    <3>1. found > 0 /\ HeardPlace(p) = Drawn(q)[found].place
      BY <1>7, <2>3
    <3> QED BY <1>4, <1>9, <3>1
  <2>4. CASE /\ NoneLeft(q, dropped)
             /\ HeardPlace(p) = NoPlace <=> q.repeat # "queue" \/ p.order = <<>>
             /\ HeardPlace(p) # NoPlace => HeardPlace(p) = Drawn(p)[1].place
    <3>1. found = 0 /\ ~(found > 0)
      BY <1>7, <2>4
    <3> QED BY <1>4, <1>9, <2>4, <3>1
  <2> QED BY <2>2, <2>3, <2>4
<1> QED BY <1>8, <1>9

LEMMA RemovalsHandOn == ASSUME IInv PROVE RemovalHandsOn
<1> SUFFICES ASSUME NEW positions \in SUBSET Positions, NEW q \in RemoveAll(queue, positions),
                    HeardPlace(queue) # NoPlace,
                    NEW left, left = LeftDrawn(Drawn(queue), Cursor(queue), positions)
             PROVE  CASE Cursor(queue) \notin positions -> HeardPlace(q) = HeardPlace(queue)
                      [] Cursor(queue) \in positions /\ left > 0 ->
                           HeardPlace(q) = Drawn(queue)[left].place
                      [] OTHER ->
                           /\ HeardPlace(q) = NoPlace
                                <=> queue.repeat # "queue" \/ q.order = <<>>
                           /\ ~q.shuffle /\ HeardPlace(q) # NoPlace =>
                                HeardPlace(q) = Drawn(q)[1].place
  BY DEF RemovalHandsOn, LeftDrawn
<1>1. Sound(queue) /\ Seated(queue)
  BY QueueHolds
<1>2. positions \in SUBSET (0..(Size(queue) - 1))
  BY DEF Positions
<1>3. /\ Cursor(queue) \notin positions => HeardPlace(q) = HeardPlace(queue)
      /\ Cursor(queue) \in positions /\ left > 0 => HeardPlace(q) = Drawn(queue)[left].place
      /\ Cursor(queue) \in positions /\ ~(left > 0) =>
           /\ HeardPlace(q) = NoPlace <=> queue.repeat # "queue" \/ q.order = <<>>
           /\ HeardPlace(q) # NoPlace => HeardPlace(q) = Drawn(q)[1].place
  BY <1>1, <1>2, RemovalHears
<1> QED BY <1>3

\* Whatever rows are taken out, the one heard plays on; taken out itself, it hands on to
\* the first row left that was drawn after it, then to a new pass, then to nothing
\* (remove_all, hand_on).
THEOREM RemovalsHandOnWhatIsHeard == Spec => []RemovalHandsOn
<1>1. IInv => RemovalHandsOn
  BY RemovalsHandOn
<1> QED BY <1>1, QueueStaysSound, PTL

-----------------------------------------------------------------------------
(* What follows, reckoned before it plays.                                  *)

\* Where the queue is reckoned to be, a row further ahead at a time.
ReckoningsInTurn(f, q, count) ==
  f = [n \in 0..count |-> IF n = 0 THEN Reckoning(q) ELSE AdvancedFrom(q, f[n - 1])]

LEMMA ThereAreReckonings ==
  ASSUME NEW q, NEW count \in Nat
  PROVE  \E f : ReckoningsInTurn(f, q, count)
<1> DEFINE None == {n \in 0..count : ~ \E f : ReckoningsInTurn(f, q, n)}
<1>1. ASSUME None # {} PROVE FALSE
  <2>1. None \in SUBSET Nat /\ IsFiniteSet(None)
    <3>1. IsFiniteSet(0..count) /\ None \in SUBSET (0..count)
      BY FS_Interval
    <3> HIDE DEF None
    <3>2. IsFiniteSet(None)
      BY <3>1, FS_Subset
    <3> QED BY <3>1, <3>2
  <2>2. PICK m \in None : \A n \in None : m <= n
    <3> HIDE DEF None
    <3> QED BY <1>1, <2>1, LeastIsThere
  <2>3. m \in 0..count /\ ~ \E f : ReckoningsInTurn(f, q, m)
    BY <2>2
  <2>4. CASE m = 0
    <3>1. ReckoningsInTurn([n \in 0..0 |-> Reckoning(q)], q, 0)
      BY DEF ReckoningsInTurn
    <3> QED BY <2>3, <2>4, <3>1
  <2>5. CASE m # 0
    <3>1. m - 1 \in 0..count /\ ~(m <= m - 1) /\ m \in Nat
      BY <2>3, <2>5
    <3>2. m - 1 \notin None
      BY <2>2, <3>1
    <3>3. PICK g : ReckoningsInTurn(g, q, m - 1)
      BY <3>1, <3>2
    <3> DEFINE f == [n \in 0..m |-> IF n = m THEN AdvancedFrom(q, g[m - 1]) ELSE g[n]]
    <3>4. \A n \in 0..(m - 1) : g[n] = IF n = 0 THEN Reckoning(q) ELSE AdvancedFrom(q, g[n - 1])
      BY <3>3 DEF ReckoningsInTurn
    <3>5. \A n \in 0..m : n # m => n \in 0..(m - 1) /\ (n # 0 => n - 1 \in 0..m /\ n - 1 # m)
      BY <3>1
    <3>6. m - 1 \in 0..m /\ m - 1 # m
      BY <2>5, <3>1
    <3>7. \A n \in 0..m : f[n] = IF n = 0 THEN Reckoning(q) ELSE AdvancedFrom(q, f[n - 1])
      BY <2>5, <3>4, <3>5, <3>6
    <3>8. ReckoningsInTurn(f, q, m)
      <4>1. f = [n \in 0..m |-> f[n]]
        OBVIOUS
      <4> HIDE DEF f
      <4> QED BY <3>7, <4>1 DEF ReckoningsInTurn
    <3> QED BY <2>3, <3>8
  <2> QED BY <2>4, <2>5
<1>2. count \in 0..count
  OBVIOUS
<1> QED BY <1>1, <1>2

LEMMA ReckoningsAgree ==
  ASSUME NEW q, NEW count \in Nat, NEW f, ReckoningsInTurn(f, q, count), NEW g, ReckoningsInTurn(g, q, count + 1),
         NEW n \in 0..count
  PROVE  f[n] = g[n]
<1> DEFINE Differ == {k \in 0..count : f[k] # g[k]}
<1>1. ASSUME Differ # {} PROVE FALSE
  <2>1. Differ \in SUBSET Nat /\ IsFiniteSet(Differ)
    <3>1. IsFiniteSet(0..count) /\ Differ \in SUBSET (0..count)
      BY FS_Interval
    <3> HIDE DEF Differ
    <3>2. IsFiniteSet(Differ)
      BY <3>1, FS_Subset
    <3> QED BY <3>1, <3>2
  <2>2. PICK m \in Differ : \A k \in Differ : m <= k
    <3> HIDE DEF Differ
    <3> QED BY <1>1, <2>1, LeastIsThere
  <2>3. m \in 0..count /\ m \in 0..(count + 1) /\ f[m] # g[m]
    BY <2>2
  <2>4. /\ f[m] = IF m = 0 THEN Reckoning(q) ELSE AdvancedFrom(q, f[m - 1])
        /\ g[m] = IF m = 0 THEN Reckoning(q) ELSE AdvancedFrom(q, g[m - 1])
    BY <2>3 DEF ReckoningsInTurn
  <2>5. m # 0 => m - 1 \in 0..count /\ ~(m <= m - 1)
    BY <2>3
  <2>6. m # 0 => f[m - 1] = g[m - 1]
    BY <2>2, <2>5
  <2> QED BY <2>3, <2>4, <2>6
<1> QED BY <1>1

LEMMA ReckoningsAre ==
  ASSUME NEW q, q.repeat # "track", NEW count \in Nat
  PROVE  \E f : ReckoningsInTurn(f, q, count) /\ ReckonedAfter(q, count) = f[count]
<1> DEFINE f == CHOOSE g : g = [n \in 0..count |-> IF n = 0 THEN Reckoning(q) ELSE AdvancedFrom(q, g[n - 1])]
<1>1. \E g : g = [n \in 0..count |-> IF n = 0 THEN Reckoning(q) ELSE AdvancedFrom(q, g[n - 1])]
  <2>1. PICK g : ReckoningsInTurn(g, q, count)
    BY ThereAreReckonings
  <2> QED BY <2>1 DEF ReckoningsInTurn
<1>2. ReckoningsInTurn(f, q, count)
  BY <1>1 DEF ReckoningsInTurn
<1>3. ReckonedAfter(q, count) = f[count]
  BY DEF ReckonedAfter
<1> HIDE DEF f
<1> QED BY <1>2, <1>3

LEMMA ReckoningsOneByOne ==
  ASSUME NEW q, q.repeat # "track", NEW count \in Nat
  PROVE  ReckonedAfter(q, 0) = Reckoning(q) /\ ReckonedAfter(q, count + 1) = AdvancedFrom(q, ReckonedAfter(q, count))
<1>1. PICK f : ReckoningsInTurn(f, q, count) /\ ReckonedAfter(q, count) = f[count]
  BY ReckoningsAre
<1>2. PICK g : ReckoningsInTurn(g, q, count + 1) /\ ReckonedAfter(q, count + 1) = g[count + 1]
  BY ReckoningsAre
<1>3. PICK h : ReckoningsInTurn(h, q, 0) /\ ReckonedAfter(q, 0) = h[0]
  BY ReckoningsAre
<1>4. /\ count \in 0..count /\ count + 1 \in 0..(count + 1) /\ count + 1 # 0
      /\ (count + 1) - 1 = count /\ 0 \in 0..0
  OBVIOUS
<1>5. f[count] = g[count]
  BY <1>1, <1>2, <1>4, ReckoningsAgree
<1>6. g[count + 1] = AdvancedFrom(q, g[count])
  BY <1>2, <1>4 DEF ReckoningsInTurn
<1>7. h[0] = Reckoning(q)
  BY <1>3, <1>4 DEF ReckoningsInTurn
<1> QED BY <1>1, <1>2, <1>3, <1>5, <1>6, <1>7

\* The queues left as one row after another ends.
QueuesAheadInTurn(f, count) ==
  f = [n \in 0..count |-> IF n = 0 THEN {queue} ELSE UNION {Advance(p, TRUE) : p \in f[n - 1]}]

LEMMA ThereAreQueuesAhead ==
  ASSUME NEW count \in Nat
  PROVE  \E f : QueuesAheadInTurn(f, count)
<1> DEFINE None == {n \in 0..count : ~ \E f : QueuesAheadInTurn(f, n)}
<1>1. ASSUME None # {} PROVE FALSE
  <2>1. None \in SUBSET Nat /\ IsFiniteSet(None)
    <3>1. IsFiniteSet(0..count) /\ None \in SUBSET (0..count)
      BY FS_Interval
    <3> HIDE DEF None
    <3>2. IsFiniteSet(None)
      BY <3>1, FS_Subset
    <3> QED BY <3>1, <3>2
  <2>2. PICK m \in None : \A n \in None : m <= n
    <3> HIDE DEF None
    <3> QED BY <1>1, <2>1, LeastIsThere
  <2>3. m \in 0..count /\ ~ \E f : QueuesAheadInTurn(f, m)
    BY <2>2
  <2>4. CASE m = 0
    <3>1. QueuesAheadInTurn([n \in 0..0 |-> {queue}], 0)
      BY DEF QueuesAheadInTurn
    <3> QED BY <2>3, <2>4, <3>1
  <2>5. CASE m # 0
    <3>1. m - 1 \in 0..count /\ ~(m <= m - 1) /\ m \in Nat
      BY <2>3, <2>5
    <3>2. m - 1 \notin None
      BY <2>2, <3>1
    <3>3. PICK g : QueuesAheadInTurn(g, m - 1)
      BY <3>1, <3>2
    <3> DEFINE f == [n \in 0..m |-> IF n = m THEN UNION {Advance(p, TRUE) : p \in g[m - 1]} ELSE g[n]]
    <3>4. \A n \in 0..(m - 1) : g[n] = IF n = 0 THEN {queue} ELSE UNION {Advance(p, TRUE) : p \in g[n - 1]}
      BY <3>3 DEF QueuesAheadInTurn
    <3>5. \A n \in 0..m : n # m => n \in 0..(m - 1) /\ (n # 0 => n - 1 \in 0..m /\ n - 1 # m)
      BY <3>1
    <3>6. m - 1 \in 0..m /\ m - 1 # m
      BY <2>5, <3>1
    <3>7. \A n \in 0..m : f[n] = IF n = 0 THEN {queue} ELSE UNION {Advance(p, TRUE) : p \in f[n - 1]}
      BY <2>5, <3>4, <3>5, <3>6
    <3>8. QueuesAheadInTurn(f, m)
      <4>1. f = [n \in 0..m |-> f[n]]
        OBVIOUS
      <4> HIDE DEF f
      <4> QED BY <3>7, <4>1 DEF QueuesAheadInTurn
    <3> QED BY <2>3, <3>8
  <2> QED BY <2>4, <2>5
<1>2. count \in 0..count
  OBVIOUS
<1> QED BY <1>1, <1>2

LEMMA QueuesAheadAgree ==
  ASSUME NEW count \in Nat, NEW f, QueuesAheadInTurn(f, count), NEW g, QueuesAheadInTurn(g, count + 1),
         NEW n \in 0..count
  PROVE  f[n] = g[n]
<1> DEFINE Differ == {k \in 0..count : f[k] # g[k]}
<1>1. ASSUME Differ # {} PROVE FALSE
  <2>1. Differ \in SUBSET Nat /\ IsFiniteSet(Differ)
    <3>1. IsFiniteSet(0..count) /\ Differ \in SUBSET (0..count)
      BY FS_Interval
    <3> HIDE DEF Differ
    <3>2. IsFiniteSet(Differ)
      BY <3>1, FS_Subset
    <3> QED BY <3>1, <3>2
  <2>2. PICK m \in Differ : \A k \in Differ : m <= k
    <3> HIDE DEF Differ
    <3> QED BY <1>1, <2>1, LeastIsThere
  <2>3. m \in 0..count /\ m \in 0..(count + 1) /\ f[m] # g[m]
    BY <2>2
  <2>4. /\ f[m] = IF m = 0 THEN {queue} ELSE UNION {Advance(p, TRUE) : p \in f[m - 1]}
        /\ g[m] = IF m = 0 THEN {queue} ELSE UNION {Advance(p, TRUE) : p \in g[m - 1]}
    BY <2>3 DEF QueuesAheadInTurn
  <2>5. m # 0 => m - 1 \in 0..count /\ ~(m <= m - 1)
    BY <2>3
  <2>6. m # 0 => f[m - 1] = g[m - 1]
    BY <2>2, <2>5
  <2> QED BY <2>3, <2>4, <2>6
<1> QED BY <1>1

LEMMA QueuesAheadAre ==
  ASSUME NEW count \in Nat
  PROVE  \E f : QueuesAheadInTurn(f, count) /\ AheadOf(count) = f[count]
<1> DEFINE f == CHOOSE g : g = [n \in 0..count |-> IF n = 0 THEN {queue} ELSE UNION {Advance(p, TRUE) : p \in g[n - 1]}]
<1>1. \E g : g = [n \in 0..count |-> IF n = 0 THEN {queue} ELSE UNION {Advance(p, TRUE) : p \in g[n - 1]}]
  <2>1. PICK g : QueuesAheadInTurn(g, count)
    BY ThereAreQueuesAhead
  <2> QED BY <2>1 DEF QueuesAheadInTurn
<1>2. QueuesAheadInTurn(f, count)
  BY <1>1 DEF QueuesAheadInTurn
<1>3. AheadOf(count) = f[count]
  BY DEF AheadOf
<1> HIDE DEF f
<1> QED BY <1>2, <1>3

LEMMA QueuesAheadOneByOne ==
  ASSUME NEW count \in Nat
  PROVE  AheadOf(0) = {queue} /\ AheadOf(count + 1) = UNION {Advance(p, TRUE) : p \in AheadOf(count)}
<1>1. PICK f : QueuesAheadInTurn(f, count) /\ AheadOf(count) = f[count]
  BY QueuesAheadAre
<1>2. PICK g : QueuesAheadInTurn(g, count + 1) /\ AheadOf(count + 1) = g[count + 1]
  BY QueuesAheadAre
<1>3. PICK h : QueuesAheadInTurn(h, 0) /\ AheadOf(0) = h[0]
  BY QueuesAheadAre
<1>4. /\ count \in 0..count /\ count + 1 \in 0..(count + 1) /\ count + 1 # 0
      /\ (count + 1) - 1 = count /\ 0 \in 0..0
  OBVIOUS
<1>5. f[count] = g[count]
  BY <1>1, <1>2, <1>4, QueuesAheadAgree
<1>6. g[count + 1] = UNION {Advance(p, TRUE) : p \in g[count]}
  BY <1>2, <1>4 DEF QueuesAheadInTurn
<1>7. h[0] = {queue}
  BY <1>3, <1>4 DEF QueuesAheadInTurn
<1> QED BY <1>1, <1>2, <1>3, <1>5, <1>6, <1>7


\* The rows past some are past both where they are the rest of the rest.
LEMMA PastAndPast ==
  ASSUME NEW set, NEW list \in Seq(set), NEW m \in Nat, NEW n \in Nat, m + n <= Len(list)
  PROVE  Past(Past(list, m), n) = Past(list, m + n)
<1>1. Len(list) \in Nat /\ m <= Len(list) /\ m + n \in Nat
  BY LenProperties
<1>2. /\ Past(list, m) \in Seq(set) /\ Len(Past(list, m)) = Len(list) - m
      /\ \A i \in 1..(Len(list) - m) : Past(list, m)[i] = list[m + i]
  BY <1>1, CutInTwo
<1>3. /\ Past(list, m + n) \in Seq(set) /\ Len(Past(list, m + n)) = Len(list) - (m + n)
      /\ \A i \in 1..(Len(list) - (m + n)) : Past(list, m + n)[i] = list[(m + n) + i]
  BY <1>1, CutInTwo
<1>4. PICK rest \in Seq(set) : rest = Past(list, m)
  BY <1>2
<1>5. n <= Len(rest) /\ Len(rest) = Len(list) - m
  BY <1>1, <1>2, <1>4
<1>6. /\ Past(rest, n) \in Seq(set) /\ Len(Past(rest, n)) = Len(rest) - n
      /\ \A i \in 1..(Len(rest) - n) : Past(rest, n)[i] = rest[n + i]
  BY <1>5, CutInTwo
<1>7. Len(Past(rest, n)) = Len(Past(list, m + n))
  BY <1>1, <1>3, <1>5, <1>6
<1>8. \A i \in 1..Len(Past(rest, n)) : Past(rest, n)[i] = Past(list, m + n)[i]
  <2> SUFFICES ASSUME NEW i \in 1..Len(Past(rest, n))
               PROVE  Past(rest, n)[i] = Past(list, m + n)[i]
    OBVIOUS
  <2>1. /\ i \in 1..(Len(rest) - n) /\ i \in 1..(Len(list) - (m + n))
        /\ n + i \in 1..(Len(list) - m) /\ m + (n + i) = (m + n) + i
    BY <1>1, <1>5, <1>6
  <2>2. Past(rest, n)[i] = rest[n + i]
    BY <1>6, <2>1
  <2>3. rest[n + i] = list[m + (n + i)]
    BY <1>2, <1>4, <2>1
  <2>4. Past(list, m + n)[i] = list[(m + n) + i]
    BY <1>3, <2>1
  <2> QED BY <2>1, <2>2, <2>3, <2>4
<1>9. Past(rest, n) = Past(list, m + n)
  BY <1>3, <1>6, <1>7, <1>8, SeqEqual
<1> QED BY <1>4, <1>9

\* A queue that shows the seat elsewhere and is the same for the rest.
Turned(q, p, next, after, seat) ==
  /\ p.order = q.order /\ p.next = next /\ p.after = after /\ p.seat = seat
  /\ p.repeat = q.repeat /\ p.shuffle = q.shuffle

\* What hands on where, by what is left of the rows.
LEMMA HandOnTurns ==
  ASSUME NEW q, Sound(q), q.after <= Len(q.order), NEW p \in HandOn(q)
  PROVE  /\ q.next # <<>> => Turned(q, p, q.next, q.after, "next")
         /\ q.next = <<>> /\ q.after < Len(q.order) =>
              Turned(q, p, <<>>, q.after + 1, "in_order")
         /\ q.next = <<>> /\ ~(q.after < Len(q.order)) =>
              IF q.repeat = "queue" /\ q.order # <<>>
              THEN /\ p.seat = "in_order" /\ p.after = 1
                   /\ ~q.shuffle => Turned(q, p, <<>>, 1, "in_order")
              ELSE p.seat = "nowhere"
<1>1. PICK inOrder, next : Stands(q, inOrder, next)
  BY DEF Sound
<1>2. Shape(q) /\ Kinds(q) /\ q.after \in Nat
  BY DEF Sound, Kinds
<1>3. Len(q.order) \in Nat
  BY <1>1, ListsOfASoundQueue
<1>4. "next" \in Seats /\ "in_order" \in Seats /\ "nowhere" \in Seats
  BY DEF Seats
<1>5. ASSUME q.next # <<>> PROVE Turned(q, p, q.next, q.after, "next")
  <2>1. p = Reseated(q, q.after, "next")
    BY <1>2, <1>5, SeatAlone DEF HandOn
  <2>2. /\ p.order = q.order /\ p.next = q.next /\ p.after = q.after /\ p.seat = "next"
        /\ p.repeat = q.repeat /\ p.shuffle = q.shuffle
    <3>1. "next" \in Seats /\ q.after \in Nat
      BY <1>2, <1>4
    <3> QED BY <2>1, <3>1, Reseats
  <2> QED BY <2>2 DEF Turned
<1>6. ASSUME q.next = <<>>, q.after < Len(q.order)
      PROVE  Turned(q, p, <<>>, q.after + 1, "in_order")
  <2>1. PICK after \in Nat : after = q.after + 1
    BY <1>2
  <2>2. p = Reseated(q, after, "in_order")
    <3>1. ~(q.after >= Len(q.order))
      BY <1>2, <1>3, <1>6
    <3>2. p = [q EXCEPT !.after = q.after + 1, !.seat = "in_order"]
      BY <1>6, <3>1 DEF HandOn
    <3> QED BY <2>1, <3>2 DEF Reseated
  <2>3. /\ p.order = q.order /\ p.next = q.next /\ p.after = after /\ p.seat = "in_order"
        /\ p.repeat = q.repeat /\ p.shuffle = q.shuffle
    <3>1. "in_order" \in Seats
      BY <1>4
    <3> QED BY <2>2, <3>1, Reseats
  <2> QED BY <1>6, <2>1, <2>3 DEF Turned
<1>7. ASSUME q.next = <<>>, ~(q.after < Len(q.order)), q.repeat = "queue", q.order # <<>>
      PROVE  /\ p.seat = "in_order" /\ p.after = 1
             /\ ~q.shuffle => Turned(q, p, <<>>, 1, "in_order")
  <2>1. p \in WrapToTheStart(q)
    BY <1>2, <1>3, <1>7 DEF HandOn
  <2>2. p.seat = "in_order" /\ p.after = 1
    BY <1>7, <2>1, WrapStands
  <2>3. ASSUME ~q.shuffle PROVE Turned(q, p, <<>>, 1, "in_order")
    <3>1. PICK after \in Nat : after = 1
      OBVIOUS
    <3>2. p = Reseated(q, after, "in_order")
      BY <2>1, <2>3, <3>1 DEF WrapToTheStart, Reseated
    <3> QED BY <1>4, <1>7, <3>1, <3>2, Reseats DEF Turned
  <2> QED BY <2>2, <2>3
<1>8. ASSUME q.next = <<>>, ~(q.after < Len(q.order)), ~(q.repeat = "queue" /\ q.order # <<>>)
      PROVE  p.seat = "nowhere"
  <2>1. p = [q EXCEPT !.seat = "nowhere"]
    BY <1>8 DEF HandOn
  <2>2. p = Reseated(q, q.after, "nowhere")
    BY <1>2, <2>1, SeatAlone
  <2> QED BY <1>2, <1>4, <2>2, Reseats
<1> QED BY <1>5, <1>6, <1>7, <1>8

\* Whether a pass is over: nothing waits, and the order is played.
PassedAll(q) == Waiting(q) = <<>> /\ ~(q.after < Len(q.order))

\* What a row that ends hands on to.
LEMMA EndedTurns ==
  ASSUME NEW q, Sound(q), Seated(q), q.seat # "nowhere", q.repeat # "track",
         NEW p \in Advance(q, TRUE)
  PROVE  /\ Sound(p) /\ Seated(p)
         /\ Waiting(q) # <<>> => Turned(q, p, Waiting(q), q.after, "next")
         /\ Waiting(q) = <<>> /\ q.after < Len(q.order) =>
              Turned(q, p, <<>>, q.after + 1, "in_order")
         /\ PassedAll(q) =>
              IF q.repeat = "queue" /\ q.order # <<>>
              THEN /\ p.seat = "in_order" /\ p.after = 1
                   /\ ~q.shuffle => Turned(q, p, <<>>, 1, "in_order")
              ELSE p.seat = "nowhere"
<1>1. Sound(p) /\ Seated(p)
  BY AdvanceKeeps
<1>2. PICK r : r = IF q.seat = "next" THEN LetGoOfWhatWasHeard(q) ELSE q
  OBVIOUS
<1>3. p \in HandOn(r)
  BY <1>2 DEF Advance
<1>4. /\ Sound(r) /\ r.order = q.order /\ r.after = q.after
      /\ r.repeat = q.repeat /\ r.shuffle = q.shuffle /\ r.next = Waiting(q)
  <2>1. CASE q.seat = "next"
    <3>1. q.next # <<>>
      BY <2>1 DEF Seated
    <3> QED BY <1>2, <2>1, <3>1, LetGoKeeps DEF Waiting
  <2>2. CASE q.seat # "next"
    BY <1>2, <2>2 DEF Waiting
  <2> QED BY <2>1, <2>2
<1>5. r.after <= Len(r.order)
  BY <1>4 DEF Seated
<1>6. /\ r.next # <<>> => Turned(r, p, r.next, r.after, "next")
      /\ r.next = <<>> /\ r.after < Len(r.order) =>
           Turned(r, p, <<>>, r.after + 1, "in_order")
      /\ r.next = <<>> /\ ~(r.after < Len(r.order)) =>
           IF r.repeat = "queue" /\ r.order # <<>>
           THEN /\ p.seat = "in_order" /\ p.after = 1
                /\ ~r.shuffle => Turned(r, p, <<>>, 1, "in_order")
           ELSE p.seat = "nowhere"
  BY <1>3, <1>4, <1>5, HandOnTurns
<1> QED BY <1>1, <1>4, <1>6 DEF Turned, PassedAll

\* A reckoning made of `q` of where the queue `p` is.
LetGoBy(r) == r.letGo + (IF r.seat = "next" THEN 1 ELSE 0)

Reckoned(q, r, p) ==
  /\ Sound(p) /\ Seated(p) /\ r.seat # "nowhere" /\ r.letGo \in Nat
  /\ r = [seat |-> r.seat, after |-> r.after, letGo |-> r.letGo]
  /\ r.letGo <= Len(q.next)
  /\ Turned(q, p, Past(q.next, r.letGo), r.after, r.seat)

\* What waits where the queue is reckoned to be.
LEMMA WaitingReckoned ==
  ASSUME NEW q, Sound(q), NEW r, NEW p, Reckoned(q, r, p)
  PROVE  /\ LetGoBy(r) \in Nat /\ LetGoBy(r) <= Len(q.next)
         /\ Waiting(p) = Past(q.next, LetGoBy(r))
         /\ Waiting(p) = <<>> <=> Len(q.next) <= LetGoBy(r)
<1>1. PICK inOrder, next : Stands(q, inOrder, next)
  BY DEF Sound
<1>2. q.next \in Seq(next) /\ Len(q.next) \in Nat
  BY <1>1, ListsOfASoundQueue
<1>3. /\ r.letGo \in Nat /\ r.letGo <= Len(q.next) /\ p.next = Past(q.next, r.letGo)
      /\ p.seat = r.seat /\ Seated(p)
  BY DEF Reckoned, Turned
<1>4. Past(q.next, r.letGo) \in Seq(next) /\ Len(Past(q.next, r.letGo)) = Len(q.next) - r.letGo
  BY <1>2, <1>3, CutInTwo
<1>5. CASE r.seat = "next"
  <2>1. p.next # <<>>
    BY <1>3, <1>5 DEF Seated
  <2>2. Len(q.next) - r.letGo # 0
    BY <1>3, <1>4, <2>1, EmptySeq
  <2>3. PICK one \in Nat : one = 1
    OBVIOUS
  <2>4. r.letGo + one <= Len(q.next) /\ r.letGo + one \in Nat
    BY <1>2, <1>3, <2>2, <2>3
  <2>5. Past(Past(q.next, r.letGo), one) = Past(q.next, r.letGo + one)
    BY <1>2, <1>3, <2>4, PastAndPast
  <2>6. LetGoBy(r) = r.letGo + one
    BY <1>5, <2>3 DEF LetGoBy
  <2>7. Waiting(p) = Past(q.next, LetGoBy(r))
    BY <1>3, <1>5, <2>3, <2>5, <2>6 DEF Waiting
  <2>8. Past(q.next, r.letGo + one) \in Seq(next)
        /\ Len(Past(q.next, r.letGo + one)) = Len(q.next) - (r.letGo + one)
    BY <1>2, <2>4, CutInTwo
  <2>9. Past(q.next, r.letGo + one) = <<>> <=> Len(q.next) - (r.letGo + one) = 0
    BY <2>8, EmptySeq
  <2>10. Len(q.next) - (r.letGo + one) = 0 <=> Len(q.next) <= r.letGo + one
    BY <1>2, <2>4
  <2> QED BY <2>4, <2>6, <2>7, <2>9, <2>10
<1>6. CASE r.seat # "next"
  <2>1. LetGoBy(r) = r.letGo
    BY <1>3, <1>6 DEF LetGoBy
  <2>2. Waiting(p) = Past(q.next, r.letGo)
    BY <1>3, <1>6 DEF Waiting
  <2>3. Past(q.next, r.letGo) = <<>> <=> Len(q.next) - r.letGo = 0
    BY <1>4, EmptySeq
  <2>4. Len(q.next) - r.letGo = 0 <=> Len(q.next) <= r.letGo
    BY <1>2, <1>3
  <2> QED BY <1>3, <2>1, <2>2, <2>3, <2>4
<1> QED BY <1>5, <1>6

\* As a row ends where more is reckoned to play, what it leaves is reckoned on.
LEMMA ReckonedOn ==
  ASSUME NEW q, Sound(q), q.repeat # "track", NEW r, NEW p, Reckoned(q, r, p),
         ~PassedAll(p) \/ (q.repeat = "queue" /\ ~q.shuffle /\ q.order # <<>>),
         NEW t \in Advance(p, TRUE)
  PROVE  Reckoned(q, AdvancedFrom(q, r), t)
<1>1. /\ LetGoBy(r) \in Nat /\ LetGoBy(r) <= Len(q.next)
      /\ Waiting(p) = Past(q.next, LetGoBy(r))
      /\ Waiting(p) = <<>> <=> Len(q.next) <= LetGoBy(r)
  BY WaitingReckoned
<1>2. /\ Sound(p) /\ Seated(p) /\ r.seat # "nowhere" /\ r.letGo \in Nat
      /\ r = [seat |-> r.seat, after |-> r.after, letGo |-> r.letGo]
      /\ p.order = q.order /\ p.seat = r.seat /\ p.after = r.after
      /\ p.repeat = q.repeat /\ p.shuffle = q.shuffle
  BY DEF Reckoned, Turned
<1>3. PICK inOrder, next : Stands(q, inOrder, next)
  BY DEF Sound
<1>4. Len(q.next) \in Nat /\ Len(q.order) \in Nat /\ r.after \in Nat
  BY <1>2, <1>3, ListsOfASoundQueue DEF Sound, Kinds
<1>5. /\ Sound(t) /\ Seated(t)
      /\ Waiting(p) # <<>> => Turned(p, t, Waiting(p), p.after, "next")
      /\ Waiting(p) = <<>> /\ p.after < Len(p.order) =>
           Turned(p, t, <<>>, p.after + 1, "in_order")
      /\ PassedAll(p) =>
           IF p.repeat = "queue" /\ p.order # <<>>
           THEN /\ t.seat = "in_order" /\ t.after = 1
                /\ ~p.shuffle => Turned(p, t, <<>>, 1, "in_order")
           ELSE t.seat = "nowhere"
  BY <1>2, EndedTurns
<1>6. CASE Waiting(p) # <<>>
  <2>1. ~(Len(q.next) <= LetGoBy(r)) /\ Len(q.next) > LetGoBy(r)
    BY <1>1, <1>4, <1>6
  <2>2. AdvancedFrom(q, r) = [r EXCEPT !.seat = "next", !.letGo = LetGoBy(r)]
    BY <1>2, <2>1 DEF AdvancedFrom, LetGoBy
  <2>3. AdvancedFrom(q, r) = [seat |-> "next", after |-> r.after, letGo |-> LetGoBy(r)]
    BY <1>2, <2>2
  <2>4. Turned(q, t, Past(q.next, LetGoBy(r)), r.after, "next")
    BY <1>1, <1>2, <1>5, <1>6 DEF Turned
  <2> QED BY <1>1, <1>5, <2>3, <2>4 DEF Reckoned
<1>7. CASE Waiting(p) = <<>> /\ p.after < Len(p.order)
  <2>1. Len(q.next) <= LetGoBy(r) /\ ~(Len(q.next) > LetGoBy(r)) /\ r.after < Len(q.order)
        /\ ~(r.after >= Len(q.order))
    BY <1>1, <1>2, <1>4, <1>7
  <2>2. AdvancedFrom(q, r) = [seat |-> "in_order", after |-> r.after + 1, letGo |-> LetGoBy(r)]
    BY <1>2, <2>1 DEF AdvancedFrom, LetGoBy
  <2>3. Turned(q, t, Past(q.next, LetGoBy(r)), r.after + 1, "in_order")
    BY <1>1, <1>2, <1>5, <1>7 DEF Turned
  <2> QED BY <1>1, <1>5, <2>2, <2>3 DEF Reckoned
<1>8. CASE PassedAll(p)
  <2>1. q.repeat = "queue" /\ ~q.shuffle /\ q.order # <<>> /\ Waiting(p) = <<>>
    BY <1>8 DEF PassedAll
  <2>2. Len(q.next) <= LetGoBy(r) /\ ~(Len(q.next) > LetGoBy(r)) /\ ~(r.after < Len(q.order))
        /\ r.after >= Len(q.order)
    BY <1>1, <1>2, <1>4, <1>8 DEF PassedAll
  <2>3. AdvancedFrom(q, r) = [seat |-> "in_order", after |-> 1, letGo |-> LetGoBy(r)]
    BY <1>2, <2>1, <2>2 DEF AdvancedFrom, LetGoBy
  <2>4. Turned(q, t, Past(q.next, LetGoBy(r)), 1, "in_order")
    BY <1>1, <1>2, <1>5, <1>8, <2>1 DEF Turned
  <2> QED BY <1>1, <1>5, <2>3, <2>4 DEF Reckoned
<1> QED BY <1>6, <1>7, <1>8 DEF PassedAll


\* The row said to follow, from where the queue is reckoned to be.
FollowingRow(p) ==
  CASE Waiting(p) # <<>> -> Waiting(p)[1].place
    [] Waiting(p) = <<>> /\ p.after < Len(p.order) -> p.order[p.after + 1].place
    [] PassedAll(p) /\ p.repeat = "queue" /\ ~p.shuffle /\ p.order # <<>> -> p.order[1].place
    [] OTHER -> NoPlace

\* The rows of a list joined from three, by where the first is.
LEMMA FirstOfThree ==
  ASSUME NEW set, NEW a \in Seq(set), NEW b \in Seq(set), NEW c \in Seq(set)
  PROVE  /\ a # <<>> => a \o b \o c # <<>> /\ (a \o b \o c)[1] = a[1]
         /\ a = <<>> /\ b # <<>> => a \o b \o c # <<>> /\ (a \o b \o c)[1] = b[1]
         /\ a = <<>> /\ b = <<>> => a \o b \o c = c
<1>1. Len(a) \in Nat /\ Len(b) \in Nat /\ Len(c) \in Nat
  BY LenProperties
<1>2. /\ a \o b \in Seq(set) /\ Len(a \o b) = Len(a) + Len(b)
      /\ \A i \in 1..(Len(a) + Len(b)) :
           (a \o b)[i] = IF i <= Len(a) THEN a[i] ELSE b[i - Len(a)]
  BY ConcatProperties
<1>3. PICK ab \in Seq(set) : ab = a \o b
  BY <1>2
<1>4. /\ ab \o c \in Seq(set) /\ Len(ab \o c) = Len(ab) + Len(c)
      /\ \A i \in 1..(Len(ab) + Len(c)) :
           (ab \o c)[i] = IF i <= Len(ab) THEN ab[i] ELSE c[i - Len(ab)]
  BY ConcatProperties
<1>5. Len(ab) = Len(a) + Len(b)
  BY <1>2, <1>3
<1>6. /\ a = <<>> <=> Len(a) = 0
      /\ b = <<>> <=> Len(b) = 0
      /\ ab \o c = <<>> <=> Len(ab \o c) = 0
  BY <1>4, EmptySeq
<1>7. ASSUME Len(ab) # 0 PROVE ab \o c # <<>> /\ (ab \o c)[1] = ab[1]
  <2>1. 1 \in 1..(Len(ab) + Len(c)) /\ 1 <= Len(ab) /\ Len(ab) + Len(c) # 0
    BY <1>1, <1>5, <1>7
  <2> QED BY <1>4, <1>6, <2>1
<1>8. ASSUME Len(a) # 0 PROVE Len(ab) # 0 /\ ab[1] = a[1]
  <2>1. 1 \in 1..(Len(a) + Len(b)) /\ 1 <= Len(a) /\ Len(a) + Len(b) # 0
    BY <1>1, <1>8
  <2> QED BY <1>2, <1>3, <1>5, <2>1
<1>9. ASSUME Len(a) = 0, Len(b) # 0 PROVE Len(ab) # 0 /\ ab[1] = b[1]
  <2>1. 1 \in 1..(Len(a) + Len(b)) /\ ~(1 <= Len(a)) /\ Len(a) + Len(b) # 0 /\ 1 - Len(a) = 1
    BY <1>1, <1>9
  <2> QED BY <1>2, <1>3, <1>5, <2>1
<1>10. ASSUME a = <<>>, b = <<>> PROVE ab \o c = c
  <2>1. ab = <<>>
    BY <1>1, <1>3, <1>5, <1>6, <1>10, EmptySeq
  <2> QED BY <2>1, ConcatEmptySeq
<1> QED BY <1>3, <1>6, <1>7, <1>8, <1>9, <1>10

LEMMA SaysWhatFollows ==
  ASSUME NEW q, Sound(q), q.seat # "nowhere", q.repeat # "track", NEW rowsAhead, NEW p,
         Reckoned(q, ReckonedAfter(q, rowsAhead), p)
  PROVE  /\ FollowsNaturallyAfter(q, rowsAhead) = FollowingRow(p)
         /\ FollowingRow(p) = NoPlace =>
              PassedAll(p) /\ ~(p.repeat = "queue" /\ ~p.shuffle /\ p.order # <<>>)
<1>1. PICK r : r = ReckonedAfter(q, rowsAhead)
  OBVIOUS
<1>2. Reckoned(q, r, p)
  BY <1>1
<1>3. /\ LetGoBy(r) \in Nat /\ LetGoBy(r) <= Len(q.next)
      /\ Waiting(p) = Past(q.next, LetGoBy(r))
  BY <1>2, WaitingReckoned
<1>4. /\ Sound(p) /\ Seated(p) /\ r.seat # "nowhere"
      /\ p.order = q.order /\ p.after = r.after
      /\ p.repeat = q.repeat /\ p.shuffle = q.shuffle
  BY <1>2 DEF Reckoned, Turned
<1>5. PICK inOrder, next : Stands(q, inOrder, next)
  BY DEF Sound
<1>6. /\ q.order \in Seq(inOrder \cup next) /\ q.next \in Seq(inOrder \cup next)
      /\ Len(q.order) \in Nat
  BY <1>5, ListsOfASoundQueue, ListOfMore
<1>7. p.after \in Nat /\ p.after <= Len(q.order)
  BY <1>4 DEF Sound, Kinds, Seated
<1>8. \A row \in inOrder \cup next : row.place # NoPlace
  <2>1. inOrder \cup next \in SUBSET GivenOut(q.places) /\ q.places \in Nat
    BY <1>5, QueueAssumption DEF Stands, Sound, Kinds
  <2>2. \A row \in GivenOut(q.places) : row.place \in 0..(q.places - 1)
    BY DEF GivenOut
  <2> QED BY <2>1, <2>2 DEF NoPlace
<1> DEFINE wrapped == IF q.repeat = "queue" /\ ~q.shuffle THEN First(q.order, 1) ELSE <<>>
           rows == Past(q.next, LetGoBy(r)) \o Past(q.order, p.after) \o wrapped
<1>9. FollowsNaturallyAfter(q, rowsAhead) = IF rows = <<>> THEN NoPlace ELSE rows[1].place
  <2>1. r # NoReckoning
    BY <1>4 DEF NoReckoning
  <2> QED BY <1>1, <1>4, <2>1 DEF FollowsNaturallyAfter, LetGoBy
<1>10. /\ Past(q.next, LetGoBy(r)) \in Seq(inOrder \cup next)
       /\ Past(q.order, p.after) \in Seq(inOrder \cup next)
       /\ Len(Past(q.order, p.after)) = Len(q.order) - p.after
       /\ \A i \in 1..(Len(q.order) - p.after) : Past(q.order, p.after)[i] = q.order[p.after + i]
  BY <1>3, <1>6, <1>7, CutInTwo
<1>11. /\ wrapped \in Seq(inOrder \cup next)
       /\ IF q.repeat = "queue" /\ ~q.shuffle /\ q.order # <<>>
          THEN wrapped # <<>> /\ wrapped[1] = q.order[1] ELSE wrapped = <<>>
  <2>1. CASE q.order = <<>>
    <3>1. First(q.order, 1) = <<>>
      <4>1. PICK one \in Nat : one = 1
        OBVIOUS
      <4>2. Len(q.order) <= one
        BY <2>1, <4>1, EmptySeq
      <4> QED BY <1>6, <2>1, <4>1, <4>2, CutBeyond
    <3>2. <<>> \in Seq(inOrder \cup next)
      BY EmptySeq
    <3> QED BY <2>1, <3>1, <3>2
  <2>2. CASE q.order # <<>>
    <3>1. PICK one \in Nat : one = 1
      OBVIOUS
    <3>2. one <= Len(q.order)
      BY <1>6, <2>2, <3>1, EmptySeq
    <3>3. /\ First(q.order, one) \in Seq(inOrder \cup next) /\ Len(First(q.order, one)) = one
          /\ \A i \in 1..one : First(q.order, one)[i] = q.order[i]
      BY <1>6, <3>2, CutInTwo
    <3>4. 1 \in 1..one /\ one # 0
      BY <3>1
    <3>5. First(q.order, one) # <<>>
      BY <3>3, <3>4, EmptySeq
    <3>6. <<>> \in Seq(inOrder \cup next)
      BY EmptySeq
    <3> QED BY <2>2, <3>1, <3>3, <3>4, <3>5, <3>6
  <2> QED BY <2>1, <2>2
<1>12. ASSUME Waiting(p) # <<>>
       PROVE  rows # <<>> /\ rows[1] = Waiting(p)[1] /\ rows[1] \in inOrder \cup next
  <2>1. rows # <<>> /\ rows[1] = Waiting(p)[1]
    <3> HIDE DEF wrapped
    <3> QED BY <1>3, <1>10, <1>11, <1>12, FirstOfThree
  <2>2. Waiting(p) \in Seq(inOrder \cup next) /\ Waiting(p) # <<>>
    BY <1>3, <1>10, <1>12
  <2>3. Waiting(p)[1] \in inOrder \cup next
    BY <2>2
  <2> QED BY <2>1, <2>3
<1>13. ASSUME Waiting(p) = <<>>, p.after < Len(q.order)
       PROVE  /\ rows # <<>> /\ rows[1] = q.order[p.after + 1] /\ rows[1] \in inOrder \cup next
  <2>1. Len(q.order) - p.after # 0 /\ 1 \in 1..(Len(q.order) - p.after)
        /\ p.after + 1 \in 1..Len(q.order)
    BY <1>6, <1>7, <1>13
  <2>2. Past(q.order, p.after) # <<>> /\ Past(q.order, p.after)[1] = q.order[p.after + 1]
    BY <1>10, <2>1, EmptySeq
  <2>3. rows # <<>> /\ rows[1] = Past(q.order, p.after)[1]
    <3> HIDE DEF wrapped
    <3> QED BY <1>3, <1>10, <1>11, <1>13, <2>2, FirstOfThree
  <2>4. q.order[p.after + 1] \in inOrder \cup next
    BY <1>6, <2>1, LenProperties
  <2> QED BY <2>2, <2>3, <2>4
<1>14. ASSUME PassedAll(p)
       PROVE  rows = wrapped
  <2>1. Waiting(p) = <<>> /\ ~(p.after < Len(q.order))
    BY <1>4, <1>14 DEF PassedAll
  <2>2. Len(q.order) - p.after = 0
    BY <1>6, <1>7, <2>1
  <2>3. Past(q.order, p.after) = <<>>
    BY <1>10, <2>2, EmptySeq
  <2> HIDE DEF wrapped
  <2> QED BY <1>3, <1>10, <1>11, <2>1, <2>3, FirstOfThree
<1>15. ASSUME q.order # <<>> PROVE q.order[1] \in inOrder \cup next
  BY <1>6, <1>15
<1> HIDE DEF rows, wrapped
<1>16. CASE Waiting(p) # <<>>
  BY <1>4, <1>8, <1>9, <1>12, <1>16 DEF FollowingRow, PassedAll
<1>17. CASE Waiting(p) = <<>> /\ p.after < Len(q.order)
  BY <1>4, <1>8, <1>9, <1>13, <1>17 DEF FollowingRow, PassedAll
<1>18. CASE PassedAll(p)
  BY <1>4, <1>8, <1>9, <1>11, <1>14, <1>15, <1>18 DEF FollowingRow, PassedAll
<1> QED BY <1>4, <1>16, <1>17, <1>18 DEF PassedAll

\* While a row is known to follow each one ahead, the queues left are where they were
\* reckoned to be.
Unheard(rowsAhead) ==
  \E ahead \in 0..(rowsAhead - 1) : FollowsNaturallyAfter(queue, ahead) = NoPlace

ReckonedWell(rowsAhead) ==
  \A p \in AheadOf(rowsAhead) : Reckoned(queue, ReckonedAfter(queue, rowsAhead), p)

LEMMA ReckonedFromTheStart ==
  ASSUME IInv, queue.seat # "nowhere", queue.repeat # "track"
  PROVE  ReckonedWell(0)
<1>1. Sound(queue) /\ Seated(queue)
  BY QueueHolds
<1>2. PICK zero \in Nat : zero = 0
  OBVIOUS
<1>3. AheadOf(0) = {queue} /\ ReckonedAfter(queue, 0) = Reckoning(queue)
  BY <1>2, ReckoningsOneByOne, QueuesAheadOneByOne
<1>4. PICK inOrder, next : Stands(queue, inOrder, next)
  BY <1>1 DEF Sound
<1>5. queue.next \in Seq(next) /\ Len(queue.next) \in Nat
  BY <1>4, ListsOfASoundQueue
<1>6. Past(queue.next, 0) = queue.next
  BY <1>5, SubSeqFull DEF Past
<1>7. PICK r : r = Reckoning(queue)
  OBVIOUS
<1>8. /\ r = [seat |-> r.seat, after |-> r.after, letGo |-> r.letGo]
      /\ r.seat = queue.seat /\ r.after = queue.after /\ r.letGo = 0
  BY <1>7 DEF Reckoning
<1>9. Reckoned(queue, r, queue)
  BY <1>1, <1>5, <1>6, <1>8 DEF Reckoned, Turned
<1> QED BY <1>3, <1>7, <1>9 DEF ReckonedWell

LEMMA ReckonedOneMore ==
  ASSUME IInv, queue.seat # "nowhere", queue.repeat # "track", NEW ahead \in Nat,
         ReckonedWell(ahead), FollowsNaturallyAfter(queue, ahead) # NoPlace
  PROVE  ReckonedWell(ahead + 1)
<1>1. Sound(queue) /\ Seated(queue)
  BY QueueHolds
<1>2. /\ AheadOf(ahead + 1) = UNION {Advance(p, TRUE) : p \in AheadOf(ahead)}
      /\ ReckonedAfter(queue, ahead + 1) = AdvancedFrom(queue, ReckonedAfter(queue, ahead))
  BY ReckoningsOneByOne, QueuesAheadOneByOne
<1> SUFFICES ASSUME NEW p \in AheadOf(ahead), NEW t \in Advance(p, TRUE)
             PROVE  Reckoned(queue, ReckonedAfter(queue, ahead + 1), t)
  BY <1>2 DEF ReckonedWell
<1>3. Reckoned(queue, ReckonedAfter(queue, ahead), p)
  BY DEF ReckonedWell
<1>4. FollowingRow(p) # NoPlace
  BY <1>1, <1>3, SaysWhatFollows
<1>5. p.order = queue.order /\ p.repeat = queue.repeat /\ p.shuffle = queue.shuffle
  BY <1>3 DEF Reckoned, Turned
<1>6. ~PassedAll(p) \/ (p.repeat = "queue" /\ ~p.shuffle /\ p.order # <<>>)
  BY <1>4 DEF FollowingRow, PassedAll
<1>7. Reckoned(queue, AdvancedFrom(queue, ReckonedAfter(queue, ahead)), t)
  BY <1>1, <1>3, <1>5, <1>6, ReckonedOn
<1> QED BY <1>2, <1>7

LEMMA ReckonedAhead ==
  ASSUME IInv, queue.seat # "nowhere", queue.repeat # "track",
         NEW rowsAhead \in Nat, ~Unheard(rowsAhead)
  PROVE  ReckonedWell(rowsAhead)
<1> DEFINE Missed == {n \in 0..rowsAhead : ~ReckonedWell(n)}
<1>1. ASSUME Missed # {} PROVE FALSE
  <2>1. Missed \in SUBSET Nat /\ IsFiniteSet(Missed)
    <3>1. IsFiniteSet(0..rowsAhead) /\ Missed \in SUBSET (0..rowsAhead)
      BY FS_Interval
    <3> HIDE DEF Missed
    <3>2. IsFiniteSet(Missed)
      BY <3>1, FS_Subset
    <3> QED BY <3>1, <3>2
  <2>2. PICK m \in Missed : \A n \in Missed : m <= n
    <3> HIDE DEF Missed
    <3> QED BY <1>1, <2>1, LeastIsThere
  <2>3. m \in 0..rowsAhead /\ ~ReckonedWell(m)
    BY <2>2
  <2>4. CASE m = 0
    BY <2>3, <2>4, ReckonedFromTheStart
  <2>5. CASE m # 0
    <3>1. PICK ahead \in Nat : ahead = m - 1
      BY <2>3, <2>5
    <3>2. /\ ahead \in 0..rowsAhead /\ ahead \in 0..(rowsAhead - 1) /\ ~(m <= ahead)
          /\ m = ahead + 1
      BY <2>3, <2>5, <3>1
    <3>3. ReckonedWell(ahead)
      BY <2>2, <3>2
    <3>4. FollowsNaturallyAfter(queue, ahead) # NoPlace
      BY <3>2 DEF Unheard
    <3>5. ReckonedWell(ahead + 1)
      BY <3>3, <3>4, ReckonedOneMore
    <3> QED BY <2>3, <3>2, <3>5
  <2> QED BY <2>4, <2>5
<1>2. rowsAhead \in 0..rowsAhead
  OBVIOUS
<1> QED BY <1>1, <1>2

\* A row that repeats stays where it is.
LEMMA StaysAtTheTrack ==
  ASSUME queue.repeat = "track", NEW rowsAhead \in Nat
  PROVE  AheadOf(rowsAhead) = {queue}
<1> DEFINE Gone == {n \in 0..rowsAhead : AheadOf(n) # {queue}}
<1>1. ASSUME Gone # {} PROVE FALSE
  <2>1. Gone \in SUBSET Nat /\ IsFiniteSet(Gone)
    <3>1. IsFiniteSet(0..rowsAhead) /\ Gone \in SUBSET (0..rowsAhead)
      BY FS_Interval
    <3> HIDE DEF Gone
    <3>2. IsFiniteSet(Gone)
      BY <3>1, FS_Subset
    <3> QED BY <3>1, <3>2
  <2>2. PICK m \in Gone : \A n \in Gone : m <= n
    <3> HIDE DEF Gone
    <3> QED BY <1>1, <2>1, LeastIsThere
  <2>3. m \in 0..rowsAhead /\ AheadOf(m) # {queue}
    BY <2>2
  <2>4. m # 0
    <3>1. PICK zero \in Nat : zero = 0
      OBVIOUS
    <3>2. AheadOf(0) = {queue}
      BY <3>1, QueuesAheadOneByOne
    <3> QED BY <2>3, <3>2
  <2>5. PICK ahead \in Nat : ahead = m - 1
    BY <2>3, <2>4
  <2>6. ahead \in 0..rowsAhead /\ ~(m <= ahead) /\ m = ahead + 1
    BY <2>3, <2>4, <2>5
  <2>7. AheadOf(ahead) = {queue}
    BY <2>2, <2>6
  <2>8. AheadOf(m) = UNION {Advance(p, TRUE) : p \in AheadOf(ahead)}
    BY <2>6, QueuesAheadOneByOne
  <2>9. Advance(queue, TRUE) = {queue}
    BY DEF Advance
  <2>10. AheadOf(m) = {queue}
    BY <2>7, <2>8, <2>9
  <2> QED BY <2>3, <2>10
<1>2. rowsAhead \in 0..rowsAhead
  OBVIOUS
<1> QED BY <1>1, <1>2

\* A seat that is somewhere hears a row.
LEMMA SeatedIsHeard ==
  ASSUME NEW q, Sound(q), Seated(q), q.seat # "nowhere"
  PROVE  HeardPlace(q) # NoPlace
<1>1. PICK inOrder, next : Stands(q, inOrder, next)
  BY DEF Sound
<1>2. /\ q.order \in Seq(inOrder) /\ q.next \in Seq(next) /\ Len(q.order) \in Nat
      /\ q.after \in Nat /\ q.seat \in Seats
  BY <1>1, ListsOfASoundQueue DEF Sound, Kinds
<1>3. \A row \in inOrder \cup next : row.place # NoPlace
  <2>1. inOrder \cup next \in SUBSET GivenOut(q.places) /\ q.places \in Nat
    BY <1>1, QueueAssumption DEF Stands, Sound, Kinds
  <2>2. \A row \in GivenOut(q.places) : row.place \in 0..(q.places - 1)
    BY DEF GivenOut
  <2> QED BY <2>1, <2>2 DEF NoPlace
<1>4. CASE q.seat = "in_order"
  <2>1. q.after \in 1..Len(q.order)
    BY <1>2, <1>4 DEF Seated
  <2>2. q.order[q.after] \in inOrder
    BY <1>2, <2>1
  <2> QED BY <1>3, <1>4, <2>1, <2>2 DEF HeardPlace, LastHeard
<1>5. CASE q.seat = "next"
  <2>1. q.next # <<>>
    BY <1>5 DEF Seated
  <2>2. q.next[1] \in next
    BY <1>2, <2>1
  <2> QED BY <1>3, <1>5, <2>1, <2>2 DEF HeardPlace
<1> QED BY <1>2, <1>4, <1>5 DEF Seats

\* What FollowsIsWhatPlays asks of one queue left and of what plays after it.
FollowedBy(q, then, says, lasts) ==
  /\ says # NoPlace => HeardPlace(then) = says
  /\ says = NoPlace => then.seat = "nowhere" \/ (q.shuffle /\ q.repeat = "queue")
  /\ lasts <=> \/ then.seat = "nowhere"
               \/ q.repeat = "queue" /\ then.seat = "in_order" /\ then.after <= q.after

LEMMA WhatFollowsIsHeard ==
  ASSUME NEW q, Sound(q), Seated(q), q.seat # "nowhere", q.repeat # "track",
         NEW then \in Advance(q, TRUE),
         FollowingRow(q) = NoPlace =>
           PassedAll(q) /\ ~(q.repeat = "queue" /\ ~q.shuffle /\ q.order # <<>>)
  PROVE  FollowedBy(q, then, FollowingRow(q), PassedAll(q))
<1>1. /\ Waiting(q) # <<>> => Turned(q, then, Waiting(q), q.after, "next")
      /\ Waiting(q) = <<>> /\ q.after < Len(q.order) =>
           Turned(q, then, <<>>, q.after + 1, "in_order")
      /\ PassedAll(q) =>
           IF q.repeat = "queue" /\ q.order # <<>>
           THEN /\ then.seat = "in_order" /\ then.after = 1
                /\ ~q.shuffle => Turned(q, then, <<>>, 1, "in_order")
           ELSE then.seat = "nowhere"
  BY EndedTurns
<1>2. PICK inOrder, next : Stands(q, inOrder, next)
  BY DEF Sound
<1>3. q.order \in Seq(inOrder) /\ Len(q.order) \in Nat /\ q.after \in Nat
  BY <1>2, ListsOfASoundQueue DEF Sound, Kinds
<1>4. CASE Waiting(q) # <<>>
  <2>1. then.next = Waiting(q) /\ then.seat = "next"
    BY <1>1, <1>4 DEF Turned
  <2>2. ~PassedAll(q)
    BY <1>4 DEF PassedAll
  <2>3. FollowingRow(q) = Waiting(q)[1].place
    BY <1>4, <2>2 DEF FollowingRow
  <2>4. HeardPlace(then) = FollowingRow(q)
    BY <1>4, <2>1, <2>3 DEF HeardPlace
  <2>5. FollowingRow(q) # NoPlace
    BY <2>2
  <2> QED BY <2>1, <2>2, <2>4, <2>5 DEF FollowedBy
<1>5. CASE Waiting(q) = <<>> /\ q.after < Len(q.order)
  <2>1. then.order = q.order /\ then.seat = "in_order" /\ then.after = q.after + 1
    BY <1>1, <1>5 DEF Turned
  <2>2. ~PassedAll(q)
    BY <1>5 DEF PassedAll
  <2>3. FollowingRow(q) = q.order[q.after + 1].place
    BY <1>5, <2>2 DEF FollowingRow
  <2>4. q.after + 1 \in 1..Len(q.order) /\ ~(q.after + 1 <= q.after)
    BY <1>3, <1>5
  <2>5. HeardPlace(then) = FollowingRow(q)
    BY <2>1, <2>3, <2>4 DEF HeardPlace, LastHeard
  <2>6. FollowingRow(q) # NoPlace
    BY <2>2
  <2> QED BY <2>1, <2>2, <2>4, <2>5, <2>6 DEF FollowedBy
<1>6. CASE PassedAll(q) /\ q.repeat = "queue" /\ q.order # <<>>
  <2>1. /\ then.seat = "in_order" /\ then.after = 1
        /\ ~q.shuffle => Turned(q, then, <<>>, 1, "in_order")
    BY <1>1, <1>6
  <2>2. Waiting(q) = <<>> /\ ~(q.after < Len(q.order))
    BY <1>6 DEF PassedAll
  <2>3. Len(q.order) # 0
    BY <1>3, <1>6, EmptySeq
  <2>4. 1 \in 1..Len(q.order) /\ 1 <= q.after
    BY <1>3, <2>2, <2>3
  <2>5. ASSUME ~q.shuffle PROVE FollowingRow(q) # NoPlace /\ HeardPlace(then) = FollowingRow(q)
    <3>1. then.order = q.order
      BY <2>1, <2>5 DEF Turned
    <3>2. FollowingRow(q) = q.order[1].place
      BY <1>6, <2>2, <2>5 DEF FollowingRow
    <3>3. HeardPlace(then) = q.order[1].place
      BY <2>1, <2>4, <3>1 DEF HeardPlace, LastHeard
    <3>4. FollowingRow(q) # NoPlace
      BY <1>6, <2>5
    <3> QED BY <3>2, <3>3, <3>4
  <2>6. q.shuffle => FollowingRow(q) = NoPlace
    BY <2>2 DEF FollowingRow
  <2>7. q.shuffle \in BOOLEAN
    BY DEF Sound, Kinds
  <2> QED BY <1>6, <2>1, <2>4, <2>5, <2>6, <2>7 DEF FollowedBy
<1>7. CASE PassedAll(q) /\ ~(q.repeat = "queue" /\ q.order # <<>>)
  <2>1. then.seat = "nowhere"
    BY <1>1, <1>7
  <2>2. Waiting(q) = <<>> /\ ~(q.after < Len(q.order))
    BY <1>7 DEF PassedAll
  <2>3. FollowingRow(q) = NoPlace
    BY <1>7, <2>2 DEF FollowingRow
  <2> QED BY <1>7, <2>1, <2>3 DEF FollowedBy
<1> QED BY <1>4, <1>5, <1>6, <1>7 DEF PassedAll

\* A row is the last of a pass where its reckoning has passed all.
LEMMA LastIsPassedAll ==
  ASSUME NEW q, Sound(q), NEW rowsAhead, NEW p, Reckoned(q, ReckonedAfter(q, rowsAhead), p)
  PROVE  IsLastAfter(q, rowsAhead) <=> PassedAll(p)
<1>1. PICK r : r = ReckonedAfter(q, rowsAhead)
  OBVIOUS
<1>2. Reckoned(q, r, p)
  BY <1>1
<1>3. Waiting(p) = <<>> <=> Len(q.next) <= LetGoBy(r)
  BY <1>2, WaitingReckoned
<1>4. r.seat # "nowhere" /\ p.order = q.order /\ p.after = r.after /\ p.after \in Nat
  BY <1>2 DEF Reckoned, Turned, Sound, Kinds
<1>5. PICK inOrder, next : Stands(q, inOrder, next)
  BY DEF Sound
<1>6. Len(q.order) \in Nat
  BY <1>5, ListsOfASoundQueue
<1>7. r.after >= Len(q.order) <=> ~(p.after < Len(p.order))
  BY <1>4, <1>6
<1> QED BY <1>1, <1>3, <1>4, <1>7 DEF IsLastAfter, PassedAll, LetGoBy

LEMMA WhatIsReckonedPlays ==
  ASSUME IInv, NEW rowsAhead \in Nat, ~Unheard(rowsAhead),
         NEW q \in AheadOf(rowsAhead), q.seat # "nowhere", NEW then \in Advance(q, TRUE)
  PROVE  FollowedBy(q, then, FollowsNaturallyAfter(queue, rowsAhead),
                    WrapsNextAfter(queue, rowsAhead) \/ EndsWithTheRowAfter(queue, rowsAhead))
<1>1. Sound(queue) /\ Seated(queue)
  BY QueueHolds
<1>2. CASE queue.seat = "nowhere"
  <2>1. CASE rowsAhead = 0
    <3>1. AheadOf(rowsAhead) = {queue}
      BY <2>1, QueuesAheadOneByOne
    <3> QED BY <1>2, <3>1
  <2>2. CASE rowsAhead # 0
    <3>1. 0 \in 0..(rowsAhead - 1)
      BY <2>2
    <3>2. FollowsNaturallyAfter(queue, 0) = NoPlace
      BY <1>2 DEF FollowsNaturallyAfter
    <3> QED BY <3>1, <3>2 DEF Unheard
  <2> QED BY <2>1, <2>2
<1>3. CASE queue.seat # "nowhere" /\ queue.repeat = "track"
  <2>1. AheadOf(rowsAhead) = {queue}
    BY <1>3, StaysAtTheTrack
  <2>2. q = queue /\ then = queue
    BY <1>3, <2>1 DEF Advance
  <2>3. FollowsNaturallyAfter(queue, rowsAhead) = HeardPlace(queue)
    BY <1>3 DEF FollowsNaturallyAfter
  <2>4. HeardPlace(queue) # NoPlace
    BY <1>1, <1>3, SeatedIsHeard
  <2>5. ~(WrapsNextAfter(queue, rowsAhead) \/ EndsWithTheRowAfter(queue, rowsAhead))
    BY <1>3 DEF WrapsNextAfter, EndsWithTheRowAfter
  <2> QED BY <1>3, <2>2, <2>3, <2>4, <2>5 DEF FollowedBy
<1>4. CASE queue.seat # "nowhere" /\ queue.repeat # "track"
  <2>1. Reckoned(queue, ReckonedAfter(queue, rowsAhead), q)
    BY <1>4, ReckonedAhead DEF ReckonedWell
  <2>2. Sound(q) /\ Seated(q) /\ q.repeat = queue.repeat
    BY <2>1 DEF Reckoned, Turned
  <2>3. /\ FollowsNaturallyAfter(queue, rowsAhead) = FollowingRow(q)
        /\ FollowingRow(q) = NoPlace =>
             PassedAll(q) /\ ~(q.repeat = "queue" /\ ~q.shuffle /\ q.order # <<>>)
    BY <1>1, <1>4, <2>1, SaysWhatFollows
  <2>4. IsLastAfter(queue, rowsAhead) <=> PassedAll(q)
    BY <1>1, <2>1, LastIsPassedAll
  <2>5. queue.repeat \in {"off", "queue"}
    BY <1>1, <1>4 DEF Sound, Kinds, Repeats
  <2>6. (WrapsNextAfter(queue, rowsAhead) \/ EndsWithTheRowAfter(queue, rowsAhead))
          <=> PassedAll(q)
    BY <2>4, <2>5 DEF WrapsNextAfter, EndsWithTheRowAfter
  <2>7. FollowedBy(q, then, FollowingRow(q), PassedAll(q))
    BY <1>4, <2>2, <2>3, WhatFollowsIsHeard
  <2> QED BY <2>3, <2>6, <2>7 DEF FollowedBy
<1> QED BY <1>2, <1>3, <1>4

LEMMA FollowsHolds == ASSUME IInv PROVE FollowsIsWhatPlays
<1> SUFFICES ASSUME NEW rowsAhead \in 0..MaxPlaces, ~Unheard(rowsAhead),
                    NEW q \in AheadOf(rowsAhead), q.seat # "nowhere",
                    NEW then \in Advance(q, TRUE)
             PROVE  FollowedBy(q, then, FollowsNaturallyAfter(queue, rowsAhead),
                      WrapsNextAfter(queue, rowsAhead) \/ EndsWithTheRowAfter(queue, rowsAhead))
  BY DEF FollowsIsWhatPlays, FollowedBy, Unheard
<1>1. rowsAhead \in Nat
  BY QueueAssumption
<1> QED BY <1>1, WhatIsReckonedPlays

\* What is rendered ahead is what plays, for as many rows ahead as can be told, and a
\* pass is said to end or to wrap where it does (follows_naturally_after,
\* wraps_next_after, ends_with_the_row_after).
THEOREM WhatFollowsIsWhatPlays == Spec => []FollowsIsWhatPlays
<1>1. IInv => FollowsIsWhatPlays
  BY FollowsHolds
<1> QED BY <1>1, QueueStaysSound, PTL

=============================================================================
