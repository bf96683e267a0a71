------------------------------- MODULE Queue --------------------------------
(***************************************************************************)
(* The play queue (crates/resonate-engine/src/queue.rs): the rows that     *)
(* play in order, the rows played next, and where in them the engine is.   *)
(* Edits, shuffling, repeating, removals and the queue saved by the last   *)
(* run all keep one seat in two lists, a third list that remembers the     *)
(* order rows stand in unshuffled, two stamps kept edit by edit, and a     *)
(* view of it all that is published only when the revision has moved.      *)
(*                                                                         *)
(* An operation is an operator from a queue to the queue it leaves, or to  *)
(* the set of those it may leave where it shuffles; an action applies one  *)
(* and publishes.  Positions count from zero, as in the code.  Not here:   *)
(* the ids of rows, which a row's place stands for, and the labels that    *)
(* keep the unshuffled order searchable, which is a sequence here.         *)
(***************************************************************************)
EXTENDS Integers, SequencesExt

CONSTANTS
  Items,        \* what a row may play: a file, or a span of one
  Resumes,      \* the queue of an earlier run may be resumed
  MaxPlaces,    \* bound: places given out since the last load
  MaxArrivals   \* bound: rows one insert brings

ASSUME QueueAssumption ==
  /\ MaxPlaces \in Nat /\ MaxArrivals \in Nat /\ Resumes \in BOOLEAN

VARIABLES
  queue,   \* the Queue of the engine thread
  shown    \* what it last published

vars == <<queue, shown>>

NoPlace == -1
Seats   == {"nowhere", "in_order", "next"}
Repeats == {"off", "track", "queue"}

\* A row remembers what it was stamped as: relocating it changes what it plays and
\* not the stamp.
At(place, item) == [place |-> place, item |-> item, stamped |-> item]
Rows  == [place : 0..(MaxPlaces - 1), item : Items, stamped : Items]
Marks == (0..(MaxPlaces - 1)) \X Items

Least(a, b)   == IF a < b THEN a ELSE b
Places(rows)  == {rows[i].place : i \in DOMAIN rows}
First(rows, n) == SubSeq(rows, 1, Least(n, Len(rows)))
Past(rows, n)  == SubSeq(rows, n + 1, Len(rows))

\* The rows at some of the positions, in the order they stand in.
Nth(positions, n) == CHOOSE at \in positions : Cardinality({i \in positions : i <= at}) = n
Picked(rows, positions) == [n \in 1..Cardinality(positions) |-> rows[Nth(positions, n)]]

Only(rows, places)    == Picked(rows, {i \in DOMAIN rows : rows[i].place \in places})
Without(rows, places) == Picked(rows, {i \in DOMAIN rows : rows[i].place \notin places})

\* Where the row of a place stands, 0 where it does not.
Found(rows, place) == SelectInSeq(rows, LAMBDA r : r.place = place)
Spliced(into, at, run) == First(into, at) \o run \o Past(into, at)

\* Altered: a row brought to the front is also left where it was.
FrontedAsACopy(rows, at) == <<rows[at + 1]>> \o rows

Fronted(rows, at) == <<rows[at + 1]>> \o RemoveAt(rows, at + 1)

-----------------------------------------------------------------------------
(* Stamps: the wrapping sum of a hash per row, so a count of each hash.     *)

Unstamped == [mark \in Marks |-> 0]
Counted(rows, mark) ==
  Cardinality({i \in DOMAIN rows : <<rows[i].place, rows[i].stamped>> = mark})
With(stamp, rows) == [mark \in Marks |-> stamp[mark] + Counted(rows, mark)]
Less(stamp, rows) == [mark \in Marks |-> stamp[mark] - Counted(rows, mark)]

StampAfresh(q) ==
  LET order == With(Unstamped, q.order)
  IN  [q EXCEPT !.playingFrom = order, !.stamp = With(order, q.next)]

-----------------------------------------------------------------------------
(* What a queue shows.                                                     *)

LastHeard(q) == IF q.after \in 1..Len(q.order) THEN q.order[q.after].place ELSE NoPlace
HeardPlace(q) ==
  CASE q.seat = "nowhere"  -> NoPlace
    [] q.seat = "in_order" -> LastHeard(q)
    [] q.seat = "next"     -> IF q.next = <<>> THEN NoPlace ELSE q.next[1].place

Size(q)    == Len(q.order) + Len(q.next)
Drawn(q)   == First(q.order, q.after) \o q.next \o Past(q.order, q.after)
Waiting(q) == IF q.seat = "next" THEN Past(q.next, 1) ELSE q.next
Cursor(q)  == CASE q.seat = "nowhere"  -> NoPlace
                [] q.seat = "in_order" -> q.after - 1
                [] q.seat = "next"     -> q.after
PlayingNext(q) ==
  IF q.next = <<>> THEN <<>> ELSE <<q.after, q.after + Len(q.next) - 1>>

\* Altered: the rows played next are listed where the seat is, counted in the order drawn.
InListOrderBySeat(q) ==
  LET listed == First(q.unshuffled, q.after) \o q.next \o Past(q.unshuffled, q.after)
  IN  IF q.shuffle /\ Len(listed) = Size(q) THEN listed ELSE Drawn(q)

\* Listing and in_list_order: the rows as they would stand unshuffled, those played
\* next after the last one heard; the rows as drawn when that is not all of them.
InListOrder(q) ==
  LET heard  == Found(q.unshuffled, LastHeard(q))
      listed == Only(First(q.unshuffled, heard) \o q.next \o Past(q.unshuffled, heard),
                     Places(Drawn(q)))
  IN  IF q.shuffle /\ Len(listed) = Size(q) THEN listed ELSE Drawn(q)

Published(q) ==
  [rows |-> Drawn(q), next |-> PlayingNext(q), listed |-> InListOrder(q),
   stamp |-> q.stamp]

Revised(q) == [q EXCEPT !.revised = TRUE]

-----------------------------------------------------------------------------
(* Shuffling.                                                              *)

\* The orders a shuffle may leave the rows in.
Orders(rows) == SetToSeqs(ToSet(rows))

Reshuffle(q) == {[Revised(q) EXCEPT !.order = order] : order \in Orders(q.order)}

\* Altered: the row playing is not brought to the front of what a shuffle draws.
ReshuffleKeepingNothing(q, playing) == {[p EXCEPT !.after = 1] : p \in Reshuffle(q)}

ReshuffleKeeping(q, playing) ==
  {[p EXCEPT !.after = 1] :
     p \in {r \in Reshuffle(q) :
              playing \in Places(q.order) => r.order[1].place = playing}}

\* A new pass does not open on the row the last one ended on.
ReshuffleAfterAPass(q) ==
  {p \in Reshuffle(q) :
     Len(q.order) > 1 => p.order[1].place # q.order[Len(q.order)].place}

WrapToTheStart(q) ==
  {[p EXCEPT !.after = 1, !.seat = "in_order"] :
     p \in IF q.shuffle THEN ReshuffleAfterAPass(q) ELSE {q}}

-----------------------------------------------------------------------------
(* What plays when.                                                        *)

\* Altered: the row let go of is left in the stamp.
LetGoOfAllButTheStamp(q) == IF q.next = <<>> THEN q ELSE Revised([q EXCEPT !.next = Tail(q.next)])

\* The row heard next leaves the queue once it is passed.
LetGoOfWhatWasHeard(q) ==
  IF q.next = <<>> THEN q
  ELSE Revised([q EXCEPT !.next = Tail(q.next), !.stamp = Less(q.stamp, First(q.next, 1))])

\* The rows played next come first, then the rest in order, then a new pass.
HandOn(q) ==
  CASE q.next # <<>> -> {[q EXCEPT !.seat = "next"]}
    [] q.next = <<>> /\ q.after < Len(q.order) ->
         {[q EXCEPT !.after = q.after + 1, !.seat = "in_order"]}
    [] q.next = <<>> /\ q.after >= Len(q.order) /\ q.repeat = "queue" /\ q.order # <<>> ->
         WrapToTheStart(q)
    [] OTHER -> {[q EXCEPT !.seat = "nowhere"]}

Advance(q, natural) ==
  CASE q.seat = "nowhere" \/ (natural /\ q.repeat = "track") -> {q}
    [] OTHER -> HandOn(IF q.seat = "next" THEN LetGoOfWhatWasHeard(q) ELSE q)

\* Altered: the span shown is not drawn again where the seat moves under it.
SeatAfterUnseen(q, after) == [q EXCEPT !.after = after]

\* Where rows wait to be played next, moving the seat moves them too.
SeatAfter(q, after) ==
  [q EXCEPT !.after = after, !.revised = @ \/ (after # q.after /\ q.next # <<>>)]

Retreat(q) ==
  LET toTheEnd == [SeatAfter(q, Len(q.order)) EXCEPT !.seat = "in_order"]
  IN  CASE q.seat = "next" /\ q.after > 0 -> [q EXCEPT !.seat = "in_order"]
        [] q.seat = "next" /\ q.after = 0 /\ q.repeat = "queue" /\ q.order # <<>> -> toTheEnd
        [] q.seat = "in_order" /\ q.after > 1 -> SeatAfter(q, q.after - 1)
        [] q.seat = "in_order" /\ q.after <= 1 /\ q.repeat = "queue" -> toTheEnd
        [] OTHER -> q

\* The row a drawn position names.
RowAt(q, drawn) ==
  CASE drawn < q.after -> [waits |-> "in_order", at |-> drawn]
    [] drawn >= q.after /\ drawn < q.after + Len(q.next) ->
         [waits |-> "next", at |-> drawn - q.after]
    [] OTHER -> [waits |-> "in_order", at |-> drawn - Len(q.next)]

DrawnAt(q, row) ==
  CASE row.waits = "next" -> q.after + row.at
    [] row.waits = "in_order" /\ row.at < q.after -> row.at
    [] OTHER -> row.at + Len(q.next)

\* Altered: the row let go of is not counted when a row played next is chosen.
JumpToPastTheOneLetGo(q, drawn) ==
  LET row == RowAt(q, drawn)
      passed == IF q.seat = "next" THEN LetGoOfWhatWasHeard(q) ELSE q
  IN  IF row.waits = "next"
      THEN IF row.at >= Len(passed.next) THEN q
           ELSE Revised([passed EXCEPT !.next = Fronted(@, row.at), !.seat = "next"])
      ELSE [SeatAfter(passed, row.at + 1) EXCEPT !.seat = "in_order"]

JumpTo(q, drawn) ==
  LET row == RowAt(q, drawn)
      passed == IF q.seat = "next" THEN LetGoOfWhatWasHeard(q) ELSE q
      wanted == row.at - (IF q.seat = "next" THEN 1 ELSE 0)
  IN  CASE row.waits = "next" /\ row.at = 0 /\ q.seat = "next" -> q
        [] row.waits = "next" /\ wanted >= 0 ->
             Revised([passed EXCEPT !.next = Fronted(@, wanted), !.seat = "next"])
        [] OTHER -> [SeatAfter(passed, row.at + 1) EXCEPT !.seat = "in_order"]

-----------------------------------------------------------------------------
(* What will play: asked before it does, to render it ahead.               *)

Reckoning(q) == [seat |-> q.seat, after |-> q.after, letGo |-> 0]
NoReckoning  == [seat |-> "nowhere", after |-> 0, letGo |-> 0]

\* Altered: the row heard next is not let go of as the queue is advanced.
AdvancedFromKeeping(q, r) ==
  CASE r.seat = "nowhere" -> NoReckoning
    [] r.seat # "nowhere" /\ Len(q.next) > r.letGo -> [r EXCEPT !.seat = "next"]
    [] OTHER -> [r EXCEPT !.seat = "in_order", !.after = @ + 1]

AdvancedFrom(q, r) ==
  LET letGo == r.letGo + (IF r.seat = "next" THEN 1 ELSE 0)
  IN  CASE r.seat = "nowhere" -> NoReckoning
        [] r.seat # "nowhere" /\ Len(q.next) > letGo ->
             [r EXCEPT !.seat = "next", !.letGo = letGo]
        [] r.seat # "nowhere" /\ Len(q.next) <= letGo /\ r.after < Len(q.order) ->
             [seat |-> "in_order", after |-> r.after + 1, letGo |-> letGo]
        [] r.seat # "nowhere" /\ Len(q.next) <= letGo /\ r.after >= Len(q.order)
             /\ q.repeat = "queue" /\ ~q.shuffle /\ q.order # <<>> ->
             [seat |-> "in_order", after |-> 1, letGo |-> letGo]
        [] OTHER -> NoReckoning

\* NoReckoning is the code's None: what plays then cannot be told.
ReckonedAfter(q, rowsAhead) ==
  LET reckoned[ahead \in 0..rowsAhead] ==
        IF ahead = 0 THEN Reckoning(q) ELSE AdvancedFrom(q, reckoned[ahead - 1])
  IN  IF q.repeat = "track" THEN Reckoning(q) ELSE reckoned[rowsAhead]

IsLastAfter(q, rowsAhead) ==
  LET r == ReckonedAfter(q, rowsAhead)
  IN  /\ r.seat # "nowhere"
      /\ Len(q.next) <= r.letGo + (IF r.seat = "next" THEN 1 ELSE 0)
      /\ r.after >= Len(q.order)

WrapsNextAfter(q, rowsAhead)      == q.repeat = "queue" /\ IsLastAfter(q, rowsAhead)
EndsWithTheRowAfter(q, rowsAhead) == q.repeat = "off" /\ IsLastAfter(q, rowsAhead)

\* Where the row that follows is, one position past the end for none.
FollowsNaturallyAfter(q, rowsAhead) ==
  LET r == ReckonedAfter(q, rowsAhead)
      waiting == r.letGo + (IF r.seat = "next" THEN 1 ELSE 0)
  IN  CASE q.seat = "nowhere" -> NoPlace
        [] q.seat # "nowhere" /\ q.repeat = "track" -> HeardPlace(q)
        [] q.seat # "nowhere" /\ q.repeat # "track" /\ r = NoReckoning -> NoPlace
        [] OTHER ->
             LET rows == Past(q.next, waiting) \o Past(q.order, r.after) \o
                         (IF q.repeat = "queue" /\ ~q.shuffle THEN First(q.order, 1) ELSE <<>>)
             IN  IF rows = <<>> THEN NoPlace ELSE rows[1].place

-----------------------------------------------------------------------------
(* The order rows stand in unshuffled.                                     *)

\* A run goes in front, or after the row named, or at the back where it is not there.
StandsAfter(standing, place, run) ==
  LET found == Found(standing, place)
  IN  Spliced(standing, IF found = 0 THEN Len(standing) ELSE found, run)

\* The row of `order` at `at` stands after the one before it there, unless it stands
\* already; one that ends the order ends the standing too.
Stood(standing, order, at) ==
  LET row == order[at + 1]
  IN  CASE row.place \in Places(standing) -> standing
        [] row.place \notin Places(standing) /\ at = 0 -> <<row>> \o standing
        [] row.place \notin Places(standing) /\ at = Len(order) - 1 /\ at > 0 ->
             Append(standing, row)
        [] OTHER -> StandsAfter(standing, order[at].place, <<row>>)

UnshuffledIn(standing, order, from, count) ==
  LET stood[n \in 0..count] ==
        IF n = 0 THEN standing ELSE Stood(stood[n - 1], order, from + n - 1)
  IN  stood[count]

-----------------------------------------------------------------------------
(* Edits.                                                                  *)

Arrived(q, items)  == [i \in DOMAIN items |-> At(q.places + i - 1, items[i])]
InOrder(at) == [waits |-> "in_order", at |-> at]
NextTo(at)  == [waits |-> "next", at |-> at]

\* placement is "next", "queued" or "at" with the drawn row to land at.
LandingOf(q, placement, row) ==
  LET end == Len(q.order)
  IN  CASE q.seat = "nowhere" -> InOrder(IF placement = "at" THEN Least(row, end) ELSE end)
        [] q.seat # "nowhere" /\ placement = "next" ->
             NextTo(IF q.seat = "next" THEN 1 ELSE 0)
        [] q.seat # "nowhere" /\ placement = "queued" -> NextTo(Len(q.next))
        [] q.seat # "nowhere" /\ placement = "at" /\ row <= Cursor(q) -> InOrder(row)
        [] q.seat # "nowhere" /\ placement = "at" /\ row > Cursor(q)
             /\ row <= q.after + Len(q.next) -> NextTo(row - q.after)
        [] OTHER -> InOrder(Least(row - Len(q.next), end))

LandInOrder(q, at, landed, beforeTheQueued) ==
  LET standing ==
        CASE ~q.shuffle -> q.unshuffled
          [] q.shuffle /\ at = 0 -> landed \o q.unshuffled
          [] q.shuffle /\ at >= Len(q.order) /\ at > 0 -> q.unshuffled \o landed
          [] OTHER -> StandsAfter(q.unshuffled, q.order[at].place, landed)
      joined == [q EXCEPT !.unshuffled = standing, !.order = Spliced(@, at, landed)]
      passed == \/ q.seat = "in_order" /\ at < q.after
                \/ q.seat = "next" /\ (at < q.after \/ (at = q.after /\ beforeTheQueued))
  IN  CASE q.seat = "nowhere" -> [joined EXCEPT !.after = at + 1, !.seat = "in_order"]
        [] q.seat # "nowhere" /\ passed -> [joined EXCEPT !.after = @ + Len(landed)]
        [] OTHER -> joined

\* The queue an insert leaves, and the drawn row the first of its rows landed at.
Inserted(q, items, placement, row) ==
  LET landed == Arrived(q, items)
      lands == LandingOf(q, placement, row)
      before == q.seat = "next" /\ placement = "at" /\ row <= Cursor(q)
      joined == [q EXCEPT !.places = @ + Len(items), !.stamp = With(@, landed),
                          !.playingFrom = IF lands.waits = "in_order" THEN With(@, landed)
                                          ELSE @]
      left == IF lands.waits = "next"
              THEN [joined EXCEPT !.next = Spliced(@, lands.at, landed)]
              ELSE LandInOrder(joined, lands.at, landed, before)
  IN  [queue |-> Revised(left), row |-> DrawnAt(left, lands)]

Insert(q, items, placement, row) == Inserted(q, items, placement, row).queue

\* The first row inserted is heard and the others follow it.
InsertToHear(q, items, placement, row) ==
  LET run == q.places..(q.places + Len(items) - 1)
      inserted == Inserted(q, items, placement, row)
      heard == JumpTo(inserted.queue, inserted.row)
      rest == Past(heard.next, 1)
  IN  IF heard.seat # "next" \/ heard.next = <<>> THEN heard
      ELSE Revised([heard EXCEPT
             !.next = First(@, 1) \o Only(rest, run) \o Without(rest, run)])

\* Altered: the rows removed before the one heard do not pull it back.
SeatedAfterTheRemoval(q, dropped) == Least(q.after, Len(Without(q.order, dropped)))

\* Altered: the seat follows as many rows as it did.
SeatedWhereItWas(q, dropped) == q.after

\* How many rows the seat follows once `dropped` are gone.
SeatedPast(q, dropped) == q.after - Len(Only(First(q.order, q.after), dropped))

\* The drawn positions of the runs given leave the queue; the one heard hands on.
RemoveAll(q, positions) ==
  LET dropped == {Drawn(q)[at + 1].place : at \in positions}
      fromOrder == Only(q.order, dropped)
      left == Revised([q EXCEPT
                !.order = Without(@, dropped),
                !.next = Without(@, dropped),
                !.unshuffled = Without(@, dropped),
                !.stamp = Less(@, fromOrder \o Only(q.next, dropped)),
                !.playingFrom = Less(@, fromOrder),
                !.after = SeatedPast(q, dropped)])
  IN  IF HeardPlace(q) \in dropped THEN HandOn(left) ELSE {left}

\* Where a span of rows dropped on row `to` begins once it is lifted out.
Landing(first, last, to) ==
  CASE to <= first -> to
    [] to > first /\ to >= last -> first + (to - last)
    [] OTHER -> first

\* Altered: rows dropped after the one heard are not played next.
WaitsBesideTheNext(landing, keptPassed, order, next, heard) ==
  IF landing - 1 \in keptPassed..(keptPassed + Len(next) - 1) THEN "next" ELSE "in_order"

\* Whether the rows lifted join those played next, beside the row they land after.
WaitsBeside(landing, keptPassed, order, next, heard) ==
  LET before == landing - 1
      beside == IF before < keptPassed THEN before ELSE before - Len(next)
  IN  CASE landing = 0 -> "in_order"
        [] landing > 0 /\ before >= keptPassed /\ before < keptPassed + Len(next) -> "next"
        [] OTHER -> IF beside < Len(order) /\ order[beside + 1].place = heard
                    THEN "next" ELSE "in_order"

\* A span dropped among the rows played next joins them; one that carries the row
\* heard keeps each row in its list.
MoveRows(q, first, last, to) ==
  LET heard == HeardPlace(q)
      lifted == Places(SubSeq(Drawn(q), first + 1, last + 1))
      passed == Only(First(q.order, q.after), lifted)
      queued == Only(q.next, lifted)
      upcoming == Only(Past(q.order, q.after), lifted)
      order == Without(q.order, lifted)
      next == Without(q.next, lifted)
      keptPassed == Least(q.after, Len(q.order)) - Len(passed)
      landing == Landing(first, last, to)
      carries == heard # NoPlace /\ heard \in Places(First(queued, 1)) \cup
                   (IF passed = <<>> THEN {} ELSE {passed[Len(passed)].place})
      waits == IF carries THEN "kept"
               ELSE WaitsBeside(landing, keptPassed, order, next, heard)
      run == passed \o queued \o upcoming
      intoOrder == CASE waits = "kept" -> passed \o upcoming
                     [] waits = "in_order" -> run
                     [] waits = "next" -> <<>>
      intoNext == CASE waits = "kept" -> queued
                    [] waits = "in_order" -> <<>>
                    [] waits = "next" -> run
      crosses == \/ waits = "next" /\ passed \o upcoming # <<>>
                 \/ waits = "in_order" /\ queued # <<>>
      orderAt == CASE landing <= keptPassed -> landing
                   [] landing > keptPassed /\ landing <= keptPassed + Len(next) -> keptPassed
                   [] OTHER -> landing - Len(next)
      nextAt == Least(IF landing < keptPassed THEN 0 ELSE landing - keptPassed, Len(next))
      landsBefore == IF q.seat = "next" THEN landing <= keptPassed ELSE orderAt < keptPassed
      after == CASE heard = NoPlace -> Len(order) + Len(intoOrder)
                 [] heard # NoPlace /\ carries -> orderAt + Len(passed)
                 [] OTHER -> keptPassed + (IF landsBefore THEN Len(intoOrder) ELSE 0)
      ordered == Spliced(order, orderAt, intoOrder)
      waiting == Spliced(next, nextAt, intoNext)
      playingFrom == CASE waits = "kept" -> q.playingFrom
                       [] waits = "in_order" -> With(q.playingFrom, queued)
                       [] waits = "next" -> Less(q.playingFrom, passed \o upcoming)
  IN  IF to \in first..last THEN q
      ELSE Revised([q EXCEPT
             !.order = ordered,
             !.next = IF carries /\ q.seat = "next" /\ nextAt > 0
                      THEN Fronted(waiting, nextAt) ELSE waiting,
             !.unshuffled =
               IF q.shuffle /\ crosses
               THEN UnshuffledIn(Without(@, Places(intoNext)), ordered, orderAt,
                                 Len(intoOrder))
               ELSE @,
             !.after = after,
             !.playingFrom = playingFrom])

\* Every row drawn, and whether it waits to be played next.
Flagged(q) == [i \in DOMAIN Drawn(q) |->
                 [row |-> Drawn(q)[i],
                  waits |-> IF Drawn(q)[i].place \in Places(q.next) THEN "next"
                            ELSE "in_order"]]
RowsOf(flagged) == [i \in DOMAIN flagged |-> flagged[i].row]

\* The rows drawn as given, split again into those in order and those played next;
\* the one heard keeps its seat.
Split(q, drawn, heard) ==
  LET isHeard(f) == f.row.place = heard
      isNext(f) == IF isHeard(f) THEN q.seat = "next" ELSE f.waits = "next"
      rows == RowsOf(drawn)
      ordered == {i \in DOMAIN drawn : ~isNext(drawn[i])}
      order == Picked(rows, ordered)
      next == Picked(rows, {i \in DOMAIN drawn : isHeard(drawn[i]) /\ isNext(drawn[i])})
              \o Picked(rows, {i \in DOMAIN drawn : ~isHeard(drawn[i]) /\ isNext(drawn[i])})
      upTo == Found(rows, heard)
      after == Cardinality({i \in ordered : i <= upTo})
  IN  Revised([q EXCEPT
        !.order = order,
        !.next = next,
        !.unshuffled = IF q.shuffle
                       THEN UnshuffledIn(Without(@, Places(next)), order, 0, Len(order))
                       ELSE @,
        !.after = IF upTo = 0 THEN Len(order) ELSE after,
        !.playingFrom = With(Unstamped, order)])

\* The drawn rows in the order given.
Reorder(q, rows) ==
  Split(q, [i \in DOMAIN rows |-> Flagged(q)[rows[i] + 1]], HeardPlace(q))

SetShuffle(q, shuffle) ==
  LET turned == Revised([q EXCEPT !.shuffle = shuffle])
      started == [turned EXCEPT !.unshuffled = q.order]
      heard == LastHeard(q)
      stopped == [turned EXCEPT !.order = q.unshuffled, !.unshuffled = <<>>]
      at == Found(stopped.order, heard)
  IN  CASE shuffle = q.shuffle -> {q}
        [] shuffle /\ ~q.shuffle ->
             IF q.seat # "nowhere" /\ heard # NoPlace
             THEN ReshuffleKeeping(started, heard) ELSE Reshuffle(started)
        [] OTHER ->
             {[stopped EXCEPT !.after = IF q.seat = "nowhere" THEN Len(stopped.order)
                                        ELSE at]}

\* Every row that plays `from` plays `to`; the stamps stand.
Relocate(q, from, to) ==
  LET moved(rows) == [i \in DOMAIN rows |->
                        IF rows[i].item = from THEN [rows[i] EXCEPT !.item = to]
                        ELSE rows[i]]
  IN  IF \E i \in DOMAIN Drawn(q) : Drawn(q)[i].item = from
      THEN Revised([q EXCEPT !.order = moved(@), !.next = moved(@),
                             !.unshuffled = moved(@)])
      ELSE q

-----------------------------------------------------------------------------
(* What a queue is loaded with.                                            *)

\* What waited to be played next still does.
Load(q, items, startAt) ==
  LET kept == [i \in DOMAIN Waiting(q) |-> Waiting(q)[i].item]
      count == Len(items)
      order == [i \in 1..count |-> At(i - 1, items[i])]
      next == [i \in DOMAIN kept |-> At(count + i - 1, kept[i])]
      start == Least(startAt, count - 1)
      loaded == Revised(StampAfresh([q EXCEPT
                  !.places = count + Len(kept), !.order = order, !.next = next,
                  !.unshuffled = IF q.shuffle THEN order ELSE <<>>]))
      empty == [loaded EXCEPT !.after = 0,
                              !.seat = IF next = <<>> THEN "nowhere" ELSE "next"]
      seated == [loaded EXCEPT !.after = start + 1, !.seat = "in_order"]
  IN  CASE count = 0 -> {empty}
        [] count > 0 /\ q.shuffle -> ReshuffleKeeping(seated, start)
        [] OTHER -> {seated}

\* resumption.order is the place of each row in the order it played, or no order of
\* the rows at all; next is the span of it played next, or empty.
Restore(q, resumption) ==
  LET count == Len(resumption.rows)
      rows == [i \in 1..count |-> At(i - 1, resumption.rows[i])]
      named == resumption.order
      drawn == IF named \in SetToSeqs(0..(count - 1)) THEN named
               ELSE [i \in 1..count |-> i - 1]
      row == Least(resumption.row, IF count = 0 THEN 0 ELSE count - 1)
      within == resumption.next # <<>> /\ resumption.next[2] < count
      from == resumption.next[1]
      past == resumption.next[2] + 1
      heardNext == within /\ row \in from..(past - 1)
      waitsFrom == IF heardNext THEN row ELSE from
      plays == IF within THEN First(drawn, waitsFrom) \o Past(drawn, past) ELSE drawn
      waits == IF within THEN SubSeq(drawn, waitsFrom + 1, past) ELSE <<>>
      after == CASE count = 0 -> 0
                 [] count > 0 /\ heardNext -> row
                 [] count > 0 /\ within /\ ~heardNext /\ row >= past -> row - Len(waits) + 1
                 [] OTHER -> row + 1
      of(loaded) == [i \in DOMAIN loaded |-> rows[loaded[i] + 1]]
  IN  Revised(StampAfresh([q EXCEPT
        !.places = count,
        !.shuffle = resumption.shuffle,
        !.order = of(plays),
        !.next = of(waits),
        !.unshuffled = IF resumption.shuffle THEN Only(rows, ToSet(plays))
                       ELSE <<>>,
        !.after = after,
        !.seat = CASE count = 0 -> "nowhere" [] count > 0 /\ heardNext -> "next"
                   [] OTHER -> "in_order"]))

-----------------------------------------------------------------------------
(* The engine's commands, one at a time, each followed by publish_queue:    *)
(* what is shown is drawn again only where the revision moved.              *)

New == [order |-> <<>>, next |-> <<>>, unshuffled |-> <<>>, places |-> 0, after |-> 0,
        seat |-> "nowhere", repeat |-> "off", shuffle |-> FALSE, stamp |-> Unstamped,
        playingFrom |-> Unstamped, revised |-> FALSE]

Init == queue = New /\ shown = Published(New)

PublishQueue(q) == shown' = IF q.revised THEN Published(q) ELSE shown

Commanded(queues) ==
  \E q \in queues : /\ queue' = [q EXCEPT !.revised = FALSE]
                    /\ PublishQueue(q)

Bounded(arrivals) == queue.places + Len(arrivals) <= MaxPlaces
Arrivals == BoundedSeq(Items, MaxArrivals) \ {<<>>}
Positions == 0..(Size(queue) - 1)

CommandLoad ==
  \E items \in BoundedSeq(Items, MaxPlaces - Len(Waiting(queue))), start \in 0..MaxPlaces :
    start <= Len(items) /\ Commanded(Load(queue, items, start))

\* The queue of an earlier run is resumed before anything is loaded.
CommandResume ==
  /\ Resumes /\ queue.places = 0
  /\ \E rows \in BoundedSeq(Items, MaxPlaces) :
     \E order \in SetToSeqs(0..(Len(rows) - 1)) \cup {<<>>}, row \in 0..Len(rows),
        next \in {<<>>} \cup {span \in (0..Len(rows)) \X (0..Len(rows)) : span[1] <= span[2]},
        shuffle \in BOOLEAN :
       Commanded({Restore(queue, [rows |-> rows, order |-> order, row |-> row,
                                  next |-> next, shuffle |-> shuffle])})

CommandInsert ==
  \E items \in Arrivals, placement \in {"next", "queued"} :
    Bounded(items) /\ Commanded({Insert(queue, items, placement, 0)})

CommandInsertAt ==
  \E items \in Arrivals, row \in 0..(Size(queue) + 1) :
    Bounded(items) /\ Commanded({Insert(queue, items, "at", row)})

CommandInsertToHear ==
  \E items \in Arrivals, placement \in {"next", "queued", "at"},
     row \in 0..(Size(queue) + 1) :
    /\ Bounded(items) /\ (placement # "at" => row = 0)
    /\ Commanded({InsertToHear(queue, items, placement, row)})

CommandRemoveAll ==
  \E positions \in SUBSET Positions \ {{}} : Commanded(RemoveAll(queue, positions))

CommandMove ==
  \E first, last, to \in Positions :
    first <= last /\ to \notin first..last /\ Commanded({MoveRows(queue, first, last, to)})

CommandOrder ==
  /\ Size(queue) > 0
  /\ \E rows \in SetToSeqs(Positions) : Commanded({Reorder(queue, rows)})

CommandSetRepeat ==
  \E repeat \in Repeats \ {queue.repeat} : Commanded({[queue EXCEPT !.repeat = repeat]})

CommandSetShuffle == Commanded(SetShuffle(queue, ~queue.shuffle))

CommandNext == HeardPlace(queue) # NoPlace /\ Commanded(Advance(queue, FALSE))

\* What was heard came to its end.
TrackEnds == HeardPlace(queue) # NoPlace /\ Commanded(Advance(queue, TRUE))

CommandPrevious == HeardPlace(queue) # NoPlace /\ Commanded({Retreat(queue)})

CommandJumpTo == \E row \in Positions : Commanded({JumpTo(queue, row)})

Next ==
  \/ CommandLoad \/ CommandResume \/ CommandInsert \/ CommandInsertAt \/ CommandInsertToHear
  \/ CommandRemoveAll \/ CommandMove \/ CommandOrder
  \/ CommandSetRepeat \/ CommandSetShuffle
  \/ CommandNext \/ TrackEnds \/ CommandPrevious \/ CommandJumpTo

Spec == Init /\ [][Next]_vars

-----------------------------------------------------------------------------
(* Properties.                                                             *)

Standing(rows) == rows \in Seq(Rows) /\ Cardinality(Places(rows)) = Len(rows)

\* Each list holds rows of the queue, none of them twice (Queue).
TypeOK ==
  /\ Standing(queue.order \o queue.next) /\ Standing(queue.unshuffled)
  /\ queue.places \in 0..MaxPlaces /\ queue.after \in 0..MaxPlaces
  /\ queue.seat \in Seats /\ queue.repeat \in Repeats /\ queue.shuffle \in BOOLEAN
  /\ ~queue.revised

\* However the rows are edited, the seat names a row: one in order that is not past the
\* end, or the first of those played next; a queue that has ended has nothing left to
\* play (after and Seat; load, restore, remove_all and move_rows each set them).
SeatStands ==
  /\ queue.after <= Len(queue.order)
  /\ queue.seat = "in_order" => queue.after > 0
  /\ queue.seat = "next" => queue.next # <<>>
  /\ queue.seat = "nowhere" => queue.next = <<>> /\ queue.after = Len(queue.order)

\* While shuffled, every row in order stands once in the order to return to, and the
\* list a client pages through is the one that turning the shuffle off would draw
\* (unshuffled, Queued::in_list_order, set_shuffle).
ListIsWhatUnshufflingDraws ==
  queue.shuffle =>
    /\ Places(queue.unshuffled) = Places(queue.order)
    /\ \A q \in SetShuffle(queue, FALSE) : Drawn(q) = InListOrder(queue)

\* The stamps kept edit by edit are those of the rows held (stamp, playing_from).
StampsAgree ==
  LET afresh == StampAfresh(queue)
  IN  queue.stamp = afresh.stamp /\ queue.playingFrom = afresh.playingFrom

\* What the panes and the clients were shown is what the queue holds: no edit, no seat
\* moved under the rows played next, goes by without a revision (publish_queue).
ShownIsWhatStands == shown = Published(queue)

\* A move made by taking the rows out of the drawn list, dropping them where they were
\* asked for and splitting the list again.
MovedByRebuilding(q, first, last, to) ==
  LET drawn == Flagged(q)
      heard == HeardPlace(q)
      landing == Landing(first, last, to)
      moved == SubSeq(drawn, first + 1, last + 1)
      left == First(drawn, first) \o Past(drawn, last + 1)
      beside == First(left, landing)
      joins == IF landing = 0 THEN "in_order"
               ELSE IF beside[landing].waits = "next" \/ beside[landing].row.place = heard
                    THEN "next" ELSE "in_order"
      carries == heard # NoPlace /\ heard \in Places(RowsOf(moved))
      joined == IF carries THEN moved
                ELSE [i \in DOMAIN moved |-> [moved[i] EXCEPT !.waits = joins]]
  IN  IF to \in first..last THEN q
      ELSE Split(q, Spliced(left, landing, joined), heard)

\* The rows are spliced in place, on both sides of the seat, in the queue's two lists
\* and in the list to return to: what is left is what rebuilding the queue from the
\* list drawn would leave (move_rows).
MoveIsARebuild ==
  \A first, last, to \in Positions :
    first <= last => MoveRows(queue, first, last, to) = MovedByRebuilding(queue, first, last, to)

\* The queues that as many rows ended naturally leave, a shuffled pass once over.
AheadOf(rowsAhead) ==
  LET left[ahead \in 0..rowsAhead] ==
        IF ahead = 0 THEN {queue} ELSE UNION {Advance(q, TRUE) : q \in left[ahead - 1]}
  IN  left[rowsAhead]

\* What is rendered ahead is what plays: for as many rows ahead as can be told, the row
\* said to follow is the one heard next, and the pass is said to end or to wrap exactly
\* where advancing finds nothing after it or goes back (follows_naturally_after,
\* wraps_next_after, ends_with_the_row_after).
FollowsIsWhatPlays ==
  \A rowsAhead \in 0..MaxPlaces :
    LET unheard == \E ahead \in 0..(rowsAhead - 1) :
                     FollowsNaturallyAfter(queue, ahead) = NoPlace
        says == FollowsNaturallyAfter(queue, rowsAhead)
        lasts == WrapsNextAfter(queue, rowsAhead) \/ EndsWithTheRowAfter(queue, rowsAhead)
    IN  unheard \/ \A q \in AheadOf(rowsAhead) : q.seat # "nowhere" =>
          \A then \in Advance(q, TRUE) :
            /\ says # NoPlace => HeardPlace(then) = says
            /\ says = NoPlace => then.seat = "nowhere" \/ (q.shuffle /\ q.repeat = "queue")
            /\ lasts <=> \/ then.seat = "nowhere"
                         \/ q.repeat = "queue" /\ then.seat = "in_order"
                            /\ then.after <= q.after

\* Whatever rows are taken out, the one heard plays on; taken out itself, it hands on to
\* the first row left that was drawn after it, then to a new pass, then to nothing
\* (remove_all, hand_on).
RemovalHandsOn ==
  \A positions \in SUBSET Positions : \A q \in RemoveAll(queue, positions) :
    LET cursor == Cursor(queue)
        left == SelectInSeq([i \in DOMAIN Drawn(queue) |-> i - 1],
                            LAMBDA at : at > cursor /\ at \notin positions)
    IN  HeardPlace(queue) # NoPlace =>
          CASE cursor \notin positions -> HeardPlace(q) = HeardPlace(queue)
            [] cursor \in positions /\ left > 0 -> HeardPlace(q) = Drawn(queue)[left].place
            [] OTHER -> /\ HeardPlace(q) = NoPlace <=> queue.repeat # "queue" \/ q.order = <<>>
                        /\ ~q.shuffle /\ HeardPlace(q) # NoPlace =>
                             HeardPlace(q) = Drawn(q)[1].place

\* A row chosen in the list drawn is the row heard, and rows inserted are drawn, and
\* heard where they were to be, where the insert says (jump_to, insert, insert_to_hear).
RowsAreWhereTheyAreDrawn ==
  /\ \A row \in Positions : HeardPlace(JumpTo(queue, row)) = Drawn(queue)[row + 1].place
  /\ \A items \in {i \in Arrivals : Bounded(i)}, row \in 0..(Size(queue) + 1) :
       LET inserted == Inserted(queue, items, "at", row)
       IN  /\ Drawn(inserted.queue)[inserted.row + 1].place = queue.places
           /\ HeardPlace(InsertToHear(queue, items, "at", row)) = queue.places

\* The row heard is not taken away by an insert, a drag, an order given or a shuffle
\* turned on or off (insert, move_rows, reorder, set_shuffle).
EditsKeepWhatIsHeard ==
  HeardPlace(queue) # NoPlace =>
    \A q \in {Insert(queue, items, placement, row) :
               items \in Arrivals, placement \in {"next", "queued", "at"},
               row \in 0..(Size(queue) + 1)}
            \cup {MoveRows(queue, first, last, to) :
                 first \in Positions, last \in Positions, to \in Positions}
            \cup {Reorder(queue, rows) : rows \in SetToSeqs(Positions)}
            \cup SetShuffle(queue, ~queue.shuffle) :
      HeardPlace(q) = HeardPlace(queue)

=============================================================================
