------------------------------ MODULE Resumed -------------------------------
(***************************************************************************)
(* The kept queue read back (crates/resonate-library/src/resumed.rs): rows *)
(* that name nothing openable any more are left out, and the order, the    *)
(* row playing and the span of rows played next are renumbered around      *)
(* them before the engine restores the queue.                              *)
(***************************************************************************)
EXTENDS Queue

ItemsOf(rows) == [i \in DOMAIN rows |-> rows[i].item]

\* queue_position: none where nothing is heard.
Playing == Cursor(queue) # NoPlace
KeptRow == IF Playing THEN Cursor(queue) ELSE 0

\* The rows as they were loaded, and for each row shown which of them it is.
InLoadOrder(rows) ==
  LET loaded == SetToSortSeq(ToSet(rows), LAMBDA a, b : a.place < b.place)
      at(row) == Cardinality({i \in DOMAIN rows : rows[i].place < row.place})
  IN  [rows |-> ItemsOf(loaded), order |-> [i \in DOMAIN rows |-> at(rows[i])]]

ResumptionOf(view) ==
  [rows |-> InLoadOrder(view.rows).rows, order |-> InLoadOrder(view.rows).order,
   row |-> KeptRow, shuffle |-> queue.shuffle, next |-> view.next]

SurvivingBefore(drawn, lost, position) ==
  Len(SelectSeq(First(drawn, position), LAMBDA loaded : loaded \notin lost))

\* Altered: the span closes on its last row, lost or not.
SpanLeftToItsEnd(drawn, lost, next) ==
  <<SurvivingBefore(drawn, lost, next[1]), SurvivingBefore(drawn, lost, next[2])>>

\* The span of rows played next, closed over the rows lost; empty where all are.
SpanLeft(drawn, lost, next) ==
  LET first == SurvivingBefore(drawn, lost, next[1])
      past == SurvivingBefore(drawn, lost, next[2] + 1)
  IN  IF past > first THEN <<first, past - 1>> ELSE <<>>

\* What Kept::resumed makes of the tables.
WhatIsLeft(resumption, lost) ==
  LET drawn == resumption.order
      left == SetToSortSeq((0..(Len(resumption.rows) - 1)) \ lost, <)
      loadedAs(loaded) == SelectInSeq(left, LAMBDA row : row = loaded) - 1
      playing == Least(resumption.row, Len(drawn) - 1)
      survive == SelectSeq(drawn, LAMBDA loaded : loaded \notin lost)
  IN  IF lost = {} THEN resumption
      ELSE [rows |-> [i \in DOMAIN left |-> resumption.rows[left[i] + 1]],
            order |-> [i \in DOMAIN survive |-> loadedAs(survive[i])],
            row |-> SurvivingBefore(drawn, lost, playing),
            shuffle |-> resumption.shuffle,
            next |-> IF resumption.next = <<>> THEN <<>>
                     ELSE SpanLeft(drawn, lost, resumption.next)]

-----------------------------------------------------------------------------
(* Properties.                                                             *)

\* Rows lost between two runs take no other row with them: the rest play in the order
\* they played in, those played next are still played next, unshuffling gives them back
\* as they stood, and what is heard is the row that was, or the first left that was drawn
\* after it, or the last left of all (Kept::resumed and Queue::restore agree on the
\* renumbering).
TheRestStand ==
  LET resumption == ResumptionOf(shown)
      rows == 0..(Len(resumption.rows) - 1)
      whole == Restore(New, resumption)
  IN  \A lost \in SUBSET rows \ {rows} :
        LET kept == SetToSortSeq(rows \ lost, <)
            back == Restore(New, WhatIsLeft(resumption, lost))
            named(list) == [i \in DOMAIN list |-> kept[list[i].place + 1]]
            left(list) == SelectSeq([i \in DOMAIN list |-> list[i].place], LAMBDA row : row \notin lost)
            after == left(Past(Drawn(whole), Cursor(whole)))
            all == left(Drawn(whole))
        IN  /\ named(Drawn(back)) = all
            /\ named(back.next) = left(whole.next)
            /\ named(back.unshuffled) = left(whole.unshuffled)
            /\ named(Drawn(back))[Cursor(back) + 1] = IF after # <<>> THEN after[1] ELSE all[Len(all)]

=============================================================================
