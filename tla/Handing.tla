------------------------------ MODULE Handing -------------------------------
(***************************************************************************)
(* Playing from row to row (crates/resonate-engine/src/engine.rs): the     *)
(* engine decodes a row into the ring, opens the row that follows ahead    *)
(* of time, hands the ring on to it while the end of the row leaving is    *)
(* still unheard, and moves the queue on only when the graph has read as   *)
(* far.  Until then the queue is edited, a seek takes the boundary back,   *)
(* a row fails, the device goes, and the sleep timer is set.               *)
(*                                                                         *)
(* A handler is an operator from an engine to the engine it leaves; an     *)
(* action applies one.  The engine's loop runs its handlers in one order;  *)
(* here they run in any, which the loop's order is one case of.            *)
(*                                                                         *)
(* Not here: shuffling, rows that cannot seek, a row that changes its      *)
(* format as it plays, timers by the clock, a graph that goes altogether,  *)
(* the sink's own latency, fades (an output replaced is not heard again),  *)
(* the front of a chain carried into one of another shape, and the         *)
(* transport state published, which follows from the rest.  A stream is    *)
(* asked for and opens in one step, and a row waits for the ring while it  *)
(* holds anything, whatever time that is.                                  *)
(***************************************************************************)
EXTENDS Integers, SequencesExt

CONSTANTS
  Items,        \* what a row may play; rows of one item render alike
  Stream,       \* the format of the stream each item is heard on
  Unopenable,   \* items that will not open
  Breaking,     \* items whose decoding may fail
  Loads,        \* the lists loaded
  Length,       \* bound: frames in a row
  Capacity,     \* bound: frames the ring holds
  Latency,      \* frames the chain holds back
  TurnsWaiting,      \* TURNS_WAITING_AT_MOST
  MaxPlaces,    \* bound: rows a queue ever holds
  Overrun,      \* bound: frames read past a boundary before the engine looks
  SeekTargets,  \* where a seek is asked to land
  MaxAsked      \* bound: commands and losses of the device

ASSUME HandingAssumption ==
  /\ Stream \in [Items -> Nat] /\ Unopenable \subseteq Items /\ Breaking \subseteq Items
  /\ Loads \subseteq Seq(Items) /\ \A rows \in Loads : Len(rows) \in 1..MaxPlaces
  /\ Length \in Nat \ {0, 1} /\ Capacity \in Nat \ {0} /\ Latency \in {0, 1}
  /\ TurnsWaiting \in Nat \ {0} /\ Overrun \in 1..(Length - 1) /\ MaxAsked \in Nat /\ SeekTargets \subseteq Nat

VARIABLES
  engine,  \* the Engine
  heard,   \* what the listener has heard of it
  asked    \* how much has been asked of it

vars == <<engine, heard, asked>>

Q == INSTANCE Queue WITH Resumes <- FALSE, MaxArrivals <- 1,
                         queue <- engine.queue, shown <- engine.queue

None    == -1
NoRow   == Q!NoPlace
Sleeps  == {"none", "track", "queue"}

\* A row being decoded, or one being opened to start at `done`.
Track(row, done) == [row |-> row.place, item |-> row.item, done |-> done]
NoTrack          == [row |-> NoRow, item |-> "none", done |-> 0]

Output(made, item) ==
  [made |-> made, shape |-> item, ring |-> <<>>, chain |-> <<>>, stream |-> FALSE,
   link |-> "off", draining |-> FALSE, ended |-> FALSE, discarding |-> FALSE,
   forAnother |-> FALSE]
NoOutput == Output(None, "none")

Most(a, b) == IF a > b THEN a ELSE b
Least(a, b) == IF a < b THEN a ELSE b

Sounds(e)    == e.out # NoOutput
HeardRow(e)  == Q!HeardPlace(e.queue)
RowOf(e, place) == CHOOSE row \in ToSet(Q!Drawn(e.queue)) : row.place = place
Room(e)      == Capacity - Len(e.out.ring)
Say(e, what, row) == [e EXCEPT !.said = Append(@, <<what, row>>)]

\* Without shuffling there is one queue to go on to.
Advanced(queue, natural) == CHOOSE then \in Q!Advance(queue, natural) : TRUE

-----------------------------------------------------------------------------
(* Where what is heard has got to.                                         *)

HeardTrack(e) == IF e.boundaries = <<>> THEN e.track ELSE e.boundaries[1].leaving

\* position: what was decoded, less what has not been heard of it.  A boundary is as far
\* away as the ring is read short of it.
Position(e) ==
  CASE e.boundaries # <<>> /\ Sounds(e) ->
         Most(0, e.boundaries[1].leaving.done - Most(0, e.boundaries[1].away))
    [] ~(e.boundaries # <<>> /\ Sounds(e)) /\ e.track = NoTrack -> 0
    [] ~(e.boundaries # <<>> /\ Sounds(e)) /\ e.track # NoTrack /\ ~Sounds(e) ->
         IF e.unbound = None THEN e.track.done ELSE e.unbound
    [] OTHER -> IF e.out.discarding THEN e.track.done
                ELSE Most(0, e.track.done - Len(e.out.ring) - Latency)

\* heard_position leaves what it answered as a floor under the next answer.
HeardAt(e) == Most(Position(e), e.atLeast)
Floored(e) == [e EXCEPT !.atLeast = IF e.track = NoTrack THEN None ELSE HeardAt(e)]

\* The graph read on past a boundary before the engine looked.
ReadPast == Len(heard.whole) > 1 \/ (heard.whole # <<>> /\ heard.n < Length - 1)

\* The row leaving plays again; what the ring holds was rendered for another.
TakeTheBoundaryBack(e) ==
  IF e.boundaries = <<>> THEN e
  ELSE [Floored(e) EXCEPT !.boundaries = <<>>, !.track = e.boundaries[1].leaving,
                          !.out.forAnother = Sounds(e), !.slipped = @ \/ ReadPast]

-----------------------------------------------------------------------------
(* Starting and stopping.                                                  *)

Stop(e) ==
  [e EXCEPT !.playing = FALSE, !.failures = 0, !.out = NoOutput, !.track = NoTrack,
            !.boundaries = <<>>, !.ahead = NoRow, !.opening = NoTrack, !.unbound = None,
            !.atLeast = None, !.jumped = TRUE]

FinishTheQueue(e) ==
  Say([Stop(e) EXCEPT !.sleep = IF @ = "queue" THEN "none" ELSE @], "queue_finished", NoRow)

NodsOff(e) == [e EXCEPT !.sleep = "none", !.playing = FALSE]

\* The row the queue is at is opened, to play from `at`.
Start(e, at) ==
  [e EXCEPT !.out = NoOutput, !.track = NoTrack, !.boundaries = <<>>, !.atLeast = None,
            !.ahead = NoRow, !.opening = Track(RowOf(e, HeardRow(e)), at)]

\* Started where the listener did not get to by listening.
JumpTo(e, at) == [Start(e, at) EXCEPT !.jumped = TRUE]

\* Position takes a chain's worth off, whether the chain holds one or has yet to fill, or drained.
ChainUnderfull(e) == Sounds(e) /\ Len(e.out.chain) < Latency

\* Altered: the boundaries waiting stay, and the output they are in goes.
RebindKeepingTheBoundaries(e, at) ==
  IF e.track = NoTrack THEN e
  ELSE [e EXCEPT !.track.done = at, !.made = 1 - @,
                 !.out = Output(1 - e.made, e.track.item)]

\* The row heard is bound to an output of its own at `at`: not while paused before it
\* was ever bound, nor while the list of devices is known wrong.
Rebind(e, at) ==
  LET back == TakeTheBoundaryBack(e)
      bare == [back EXCEPT !.out = NoOutput, !.track.done = at, !.slipped = @ \/ ChainUnderfull(e)]
  IN  CASE e.track = NoTrack -> e
        [] e.track # NoTrack /\ ((~e.playing /\ e.unbound # None) \/ (e.surveying /\ e.waiting)) ->
             [bare EXCEPT !.unbound = at]
        [] OTHER -> [bare EXCEPT !.made = 1 - @,
                                 !.out = Output(1 - e.made, bare.track.item)]

Play(e) ==
  LET plays == [e EXCEPT !.playing = TRUE]
      bound == Rebind(plays, e.unbound)
  IN  CASE e.track = NoTrack /\ e.opening = NoTrack /\ HeardRow(e) = NoRow -> e
        [] e.opening # NoTrack -> plays
        [] e.track = NoTrack /\ e.opening = NoTrack /\ HeardRow(e) # NoRow -> JumpTo(plays, 0)
        [] e.track # NoTrack /\ e.unbound # None ->
             IF Sounds(bound) THEN [bound EXCEPT !.unbound = None] ELSE bound
        [] OTHER -> [plays EXCEPT !.out.link = IF plays.out.stream THEN "on" ELSE @]

Pause(e) ==
  CASE e.opening # NoTrack -> [e EXCEPT !.playing = FALSE]
    [] e.opening = NoTrack /\ e.track = NoTrack -> e
    [] OTHER -> [e EXCEPT !.playing = FALSE,
                          !.out.link = IF @ = "on" THEN "quietening" ELSE @]

-----------------------------------------------------------------------------
(* Passing a boundary, and going on without one.                           *)

SleepsAtTheEndOf(e, rowsAhead) ==
  \/ e.sleep = "track"
  \/ /\ e.sleep = "queue"
     /\ \/ Q!WrapsNextAfter(e.queue, rowsAhead)
        \/ Q!EndsWithTheRowAfter(e.queue, rowsAhead)

\* The row heard once boundary `at` is passed.
Entering(e, at) ==
  IF Len(e.boundaries) > at THEN e.boundaries[at + 1].leaving.row ELSE e.track.row

\* Altered: whether the timer is due is asked once the queue has moved on.
PassTheBoundaryThenAsk(e) ==
  LET entering == Entering(e, 1)
      finished == Say([e EXCEPT !.boundaries = Tail(@)], "finished", e.boundaries[1].leaving.row)
      moved == [finished EXCEPT !.queue = Advanced(@, TRUE)]
      heardOn == Say([moved EXCEPT !.atLeast = None, !.failures = 0], "started", entering)
  IN  CASE HeardRow(moved) = NoRow -> [engine |-> FinishTheQueue(moved), goesOn |-> FALSE]
        [] HeardRow(moved) \notin {NoRow, entering} ->
             [engine |-> JumpTo(moved, 0), goesOn |-> FALSE]
        [] OTHER -> [engine |-> IF SleepsAtTheEndOf(moved, 0) /\ e.sleep = "queue"
                                THEN Pause([heardOn EXCEPT !.sleep = "none"]) ELSE heardOn,
                     goesOn |-> TRUE]

\* The row leaving has been heard: the queue moves on, and where it has been edited under
\* the row entering, the row it moved on to starts afresh.
PassTheBoundary(e) ==
  LET entering == Entering(e, 1)
      finished == Say([e EXCEPT !.boundaries = Tail(@)], "finished", e.boundaries[1].leaving.row)
      sleeps == SleepsAtTheEndOf(e, 0)
      moved == [finished EXCEPT !.queue = Advanced(@, TRUE)]
      heardOn == Say([moved EXCEPT !.atLeast = None, !.failures = 0], "started", entering)
  IN  CASE HeardRow(moved) = NoRow -> [engine |-> FinishTheQueue(moved), goesOn |-> FALSE]
        [] HeardRow(moved) \notin {NoRow, entering} ->
             [engine |-> JumpTo(IF sleeps THEN NodsOff(moved) ELSE moved, 0), goesOn |-> FALSE]
        [] OTHER -> [engine |-> IF sleeps THEN Pause([heardOn EXCEPT !.sleep = "none"])
                                ELSE heardOn,
                     goesOn |-> TRUE]

\* Boundaries read as far as, or `every` one, are passed until one does not go on.
Passed(e, every) ==
  FoldLeft(LAMBDA so, i : IF /\ so.goesOn /\ so.engine.boundaries # <<>>
                             /\ every \/ so.engine.boundaries[1].away <= 0
                          THEN PassTheBoundary(so.engine) ELSE so,
           [engine |-> e, goesOn |-> TRUE], e.boundaries)

PassEveryBoundary(e) == Passed(e, TRUE)

\* Altered: a row whose end was reached is not told of before the next is started.
SkipUntold(e, natural) ==
  LET moved == [e EXCEPT !.queue = Advanced(@, natural)]
  IN  IF HeardRow(e) = NoRow THEN e
      ELSE IF HeardRow(moved) = NoRow THEN FinishTheQueue(moved) ELSE Start(moved, 0)

\* The queue moves on: to nothing, or to a row that opens, paused where it wraps round to it
\* under a timer.
GoOn(e, natural) ==
  LET moved == [e EXCEPT !.queue = Advanced(@, natural)]
      wraps == e.sleep = "queue" /\ Q!WrapsNextAfter(e.queue, 0)
  IN  IF HeardRow(moved) = NoRow THEN FinishTheQueue(moved)
      ELSE Start(IF wraps THEN NodsOff(moved) ELSE moved, 0)

\* The row decoded was heard to its end.
EndTheRow(e) ==
  LET told == IF e.track # NoTrack THEN Say(e, "finished", e.track.row) ELSE e
  IN  IF e.sleep = "track" THEN NodsOff(told) ELSE told

SkipOnceHeard(passed) ==
  IF passed.goesOn THEN GoOn(EndTheRow(passed.engine), TRUE) ELSE passed.engine

\* The queue moves on, by hand or because the row ended.
Skip(e, natural) ==
  CASE HeardRow(e) = NoRow -> e
    [] HeardRow(e) # NoRow /\ natural -> SkipOnceHeard(PassEveryBoundary(e))
    [] HeardRow(e) # NoRow /\ ~natural -> GoOn(e, FALSE)

\* Gives the row up and tries the next, until every row has failed.
GiveUp(e, row) ==
  LET failed == Say([e EXCEPT !.failures = @ + 1, !.jumped = TRUE], "failed", row)
  IN  IF failed.failures > Q!Size(e.queue) \/ HeardRow(e) = NoRow THEN FinishTheQueue(failed)
      ELSE Skip(failed, FALSE)

\* The row being decoded failed: it is the one heard at once, whatever waits.
GiveUpOnceHeard(passed, row) == IF passed.goesOn THEN GiveUp(passed.engine, row) ELSE passed.engine
FailRow(e, row) == GiveUpOnceHeard(PassEveryBoundary(e), row)

\* The stream failed: the row heard waits for a device, unless one was just lost.
Parked(e) ==
  LET back == TakeTheBoundaryBack(e)
  IN  [Floored(back) EXCEPT !.unbound = IF @ = None THEN HeardAt(back) ELSE @,
                            !.out = NoOutput, !.waiting = TRUE, !.surveying = TRUE]

-----------------------------------------------------------------------------
(* Rendering ahead.                                                        *)

MayHandOn(e) ==
  /\ Len(e.boundaries) < TurnsWaiting /\ ~SleepsAtTheEndOf(e, Len(e.boundaries))
  /\ ~e.out.draining /\ ~e.out.ended /\ ~e.out.forAnother /\ ~e.out.discarding

\* What the chain holds goes into the ring as there is room, and then the output ends.
Drain(e) ==
  LET laid == Least(Room(e), Len(e.out.chain))
      left == SubSeq(e.out.chain, laid + 1, Len(e.out.chain))
  IN  [e EXCEPT !.out.ring = @ \o SubSeq(e.out.chain, 1, laid), !.out.chain = left,
                !.out.draining = left # <<>>, !.out.ended = left = <<>>]

\* Altered: a row of another shape entering leaves what the chain held unheard.
HandOnToDroppingTheChain(e, row) ==
  LET alike == row.item = e.out.shape
  IN  [e EXCEPT !.out.chain = IF alike THEN @ ELSE <<>>,
                !.out.shape = row.item,
                !.boundaries = Append(@, [away |-> Len(e.out.ring) + (IF alike THEN Latency ELSE 0),
                                          made |-> e.out.made, leaving |-> e.track]),
                !.track = Track(row, 0), !.ahead = NoRow]

\* Altered: the boundary is set where the ring is written to, whatever the chain holds.
HandOnToAtTheRing(e, row) ==
  LET alike == row.item = e.out.shape
      ring == IF alike THEN e.out.ring ELSE e.out.ring \o e.out.chain
  IN  [e EXCEPT !.out.ring = ring, !.out.chain = IF alike THEN @ ELSE <<>>,
                !.out.shape = row.item,
                !.boundaries = Append(@, [away |-> Len(ring), made |-> e.out.made,
                                          leaving |-> e.track]),
                !.track = Track(row, 0), !.ahead = NoRow]

\* The row entering is decoded after the one leaving: behind what the chain holds of it
\* where they render alike, and otherwise once the chain has given that up.
HandOnTo(e, row) ==
  LET alike == row.item = e.out.shape
      ring == IF alike THEN e.out.ring ELSE e.out.ring \o e.out.chain
      held == IF alike THEN Latency ELSE 0
  IN  [e EXCEPT !.out.ring = ring, !.out.chain = IF alike THEN @ ELSE <<>>,
                !.out.shape = row.item,
                !.boundaries = Append(@, [away |-> Len(ring) + held, made |-> e.out.made,
                                          leaving |-> e.track]),
                !.track = Track(row, 0), !.ahead = NoRow]

WaitsWhileTheRingHolds(e) ==
  IF ~e.out.stream \/ e.out.ring # <<>> THEN e ELSE Drain(e)

\* hand_on and what end_the_track does of it.  A chain may be settling, and the row ahead
\* may not have opened yet: then it waits.
EndTheTrack(e) ==
  LET follows == Q!FollowsNaturallyAfter(e.queue, Len(e.boundaries))
      begun == [e EXCEPT !.ahead = follows]
      next == RowOf(e, follows)
      opened == CASE next.item \in Unopenable -> Drain(begun)
                  [] Stream[next.item] # Stream[e.out.shape] -> Drain(begun)
                  [] next.item \notin Unopenable /\ Stream[next.item] = Stream[e.out.shape] ->
                       IF next.item # e.out.shape /\ Room(e) < Len(e.out.chain)
                       THEN WaitsWhileTheRingHolds(begun) ELSE HandOnTo(begun, next)
  IN  CASE ~MayHandOn(e) -> {Drain(e)}
        [] MayHandOn(e) /\ follows = NoRow -> {WaitsWhileTheRingHolds(e), Drain(e)}
        [] OTHER -> {WaitsWhileTheRingHolds(e), WaitsWhileTheRingHolds(begun), opened}

\* Decodes a frame, and writes the one the chain gives up for it.
Convert(e) ==
  LET chain == Append(e.out.chain, [row |-> e.track.row, n |-> e.track.done])
      full == Len(chain) > Latency
  IN  [e EXCEPT !.track.done = @ + 1,
                !.out.chain = IF full THEN Tail(chain) ELSE chain,
                !.out.ring = IF full THEN Append(@, Head(chain)) ELSE @]

-----------------------------------------------------------------------------
(* The engine's handlers, each taken whole.                                *)

New ==
  [queue |-> Q!New, playing |-> FALSE, sleep |-> "none", track |-> NoTrack,
   boundaries |-> <<>>, ahead |-> NoRow, opening |-> NoTrack, out |-> NoOutput, made |-> 0,
   unbound |-> None, waiting |-> FALSE, surveying |-> FALSE, failures |-> 0,
   atLeast |-> None, said |-> <<>>, jumped |-> TRUE, slipped |-> FALSE]

Init == engine = New /\ heard = [last |-> NoRow, n |-> 0, whole |-> <<>>, again |-> FALSE] /\ asked = 0

e0 == [engine EXCEPT !.said = <<>>]
Finished(said) == SelectSeq(said, LAMBDA event : event[1] = "finished")

\* What was heard whole is owed an event until it is told of or the listener moves; on another
\* output only the row leaving is, and where its end is decoded `again` it is counted once.
Do(e) ==
  LET moved == e.jumped /\ ~engine.jumped
      rebuilt == engine.track # NoTrack /\ Sounds(e) /\ e.out.made # engine.out.made
      owed == SubSeq(heard.whole, Len(Finished(e.said)) + 1, Len(heard.whole))
      kept == CASE moved -> <<>>
                [] ~moved /\ rebuilt -> SubSeq(owed, 1, Least(1, Len(owed)))
                [] OTHER -> owed
  IN  /\ engine' = e
      /\ heard' = [heard EXCEPT !.whole = kept,
                     !.again = kept # <<>> /\ IF rebuilt THEN e.track.done < Length ELSE @]

\* A row that opens plays if it may; one that does not is passed over.
LandTheOpening ==
  LET row == e0.opening.row
      landed == [e0 EXCEPT !.opening = NoTrack]
      placed == [landed EXCEPT !.track = e0.opening,
                               !.unbound = IF e0.playing THEN None ELSE e0.opening.done]
  IN  /\ e0.opening # NoTrack /\ UNCHANGED asked
      /\ Do(CASE e0.opening.item \notin Unopenable ->
                   Say(Rebind(placed, e0.opening.done), "started", row)
              [] e0.opening.item \in Unopenable /\ e0.playing -> GiveUp(landed, row)
              [] OTHER -> Say([landed EXCEPT !.jumped = TRUE], "failed", row))

\* A seek the graph does not take up, or cannot while nothing pulls, is given a new ring.
WatchDiscard ==
  /\ e0.out.discarding /\ UNCHANGED asked
  /\ Do(Rebind(e0, Position(e0)))

\* Boundaries the graph has read past are passed.
ReachTheBoundary ==
  /\ e0.boundaries # <<>> /\ UNCHANGED asked
  /\ IF Sounds(e0) /\ e0.out.made = e0.boundaries[1].made
     THEN /\ e0.boundaries[1].away <= 0
          /\ Do(Passed(e0, FALSE).engine)
     ELSE Do(TakeTheBoundaryBack(e0))

Fills == e0.track # NoTrack /\ Sounds(e0) /\ ~e0.out.ended /\ ~e0.out.discarding

\* fill, as far as one frame: what it decodes may fail, and the row may be at its end.
Pump ==
  /\ Fills /\ ~e0.out.draining /\ e0.track.done < Length /\ Room(e0) > 0
  /\ Do(Convert(e0)) /\ UNCHANGED asked

PumpFails ==
  /\ Fills /\ ~e0.out.draining /\ e0.track.done < Length /\ e0.track.item \in Breaking
  /\ Do(FailRow(e0, e0.track.row)) /\ UNCHANGED asked

PumpEnds ==
  /\ Fills /\ ~e0.out.draining /\ e0.track.done >= Length
  /\ \E e \in EndTheTrack(e0) : Do(e)
  /\ UNCHANGED asked

PumpDrains == Fills /\ e0.out.draining /\ Room(e0) > 0 /\ Do(Drain(e0)) /\ UNCHANGED asked

\* The row that follows is opened ahead; one begun for another row is let go of.
OpenAhead ==
  LET follows == Q!FollowsNaturallyAfter(e0.queue, Len(e0.boundaries))
  IN  /\ e0.playing /\ e0.opening = NoTrack /\ e0.track # NoTrack /\ Sounds(e0)
      /\ follows # e0.ahead
      /\ Do([e0 EXCEPT !.ahead = follows]) /\ UNCHANGED asked

FinishFading ==
  /\ e0.out.link = "quietening" /\ UNCHANGED asked
  /\ Do([e0 EXCEPT !.out.link = "off"])

Primed(e) == Sounds(e) /\ ~e.out.stream /\ (e.out.ended \/ 2 * Len(e.out.ring) >= Capacity)

\* A stream opens over a ring that is half full.
Promote ==
  /\ Primed(e0) /\ UNCHANGED asked
  /\ Do([e0 EXCEPT !.out.stream = TRUE, !.out.link = IF e0.playing THEN "on" ELSE "off"])

\* The stream would not open, or failed: the row heard is parked, or passed over where a
\* device was lost just before.
LoseTheDevice ==
  LET heardTo == Floored(e0)
      lost == IF e0.out.stream THEN e0
              ELSE [heardTo EXCEPT !.out = NoOutput,
                                   !.unbound = IF @ = None THEN HeardAt(e0) ELSE @]
  IN  /\ e0.out.stream \/ Primed(e0)
      /\ asked < MaxAsked /\ asked' = asked + 1
      /\ \/ Do(Parked(lost))
         \/ Do(GiveUp(TakeTheBoundaryBack(lost), e0.track.row))

\* The list of devices is back: the row waiting for one is bound where it was heard.
TakeTheSurvey ==
  LET known == [e0 EXCEPT !.surveying = FALSE]
      waits == e0.unbound # None /\ e0.track # NoTrack /\ ~Sounds(e0)
  IN  /\ e0.surveying /\ UNCHANGED asked
      /\ Do(CASE ~e0.waiting -> known
              [] e0.waiting /\ ~waits -> [known EXCEPT !.waiting = FALSE]
              [] e0.waiting /\ waits /\ ~e0.playing -> known
              [] OTHER -> [Rebind(known, e0.unbound) EXCEPT !.unbound = None, !.waiting = FALSE])

\* The ring has run out after the last of the row: it was heard.
Settle ==
  /\ Sounds(e0) /\ e0.out.ended /\ e0.out.ring = <<>> /\ e0.playing
  /\ Do(Skip([e0 EXCEPT !.failures = 0], TRUE)) /\ UNCHANGED asked

-----------------------------------------------------------------------------
(* What is asked of it.                                                    *)

Ask(e) == asked < MaxAsked /\ asked' = asked + 1 /\ Do(e)

Begin(e) == IF HeardRow(e) = NoRow THEN e ELSE JumpTo(e, 0)

CommandLoad ==
  \E items \in Loads :
    LET loaded == [Stop(e0) EXCEPT !.queue = CHOOSE q \in Q!Load(@, items, 0) : TRUE]
    IN  /\ Len(items) + Len(Q!Waiting(e0.queue)) <= MaxPlaces
        /\ Ask(Begin([loaded EXCEPT !.playing = TRUE]))

CommandPlay  == Ask(Play(e0))
CommandPause == Ask(Pause(e0))
CommandStop  == Ask(Stop(e0))

\* Skipping by hand goes on repeating the queue, where it was repeating the track.
SkippedByHand(e) == [e EXCEPT !.queue.repeat = IF @ = "track" THEN "queue" ELSE @]

CommandNext ==
  LET byHand == SkippedByHand([e0 EXCEPT !.failures = 0])
  IN  Ask([Skip(byHand, FALSE) EXCEPT !.jumped = TRUE])

\* seek, in the ring where the stream is live and otherwise in one of its own.
Sought(e, to) ==
  LET back == TakeTheBoundaryBack(e)
      reuses == back.playing /\ back.out.stream /\ ~back.out.ended /\ ~back.out.draining
                /\ ~back.out.discarding /\ ~back.out.forAnother
      inPlace == [back EXCEPT !.track.done = to, !.out.chain = <<>>, !.out.discarding = TRUE]
      landed == IF reuses THEN inPlace ELSE Rebind(back, to)
  IN  CASE back.opening # NoTrack -> [back EXCEPT !.opening.done = to, !.jumped = TRUE]
        [] back.opening = NoTrack /\ (back.track = NoTrack \/ to > Length) -> back
        [] OTHER -> [landed EXCEPT !.atLeast = None, !.jumped = TRUE]

CommandSeek == \E to \in SeekTargets : Ask(Sought(e0, to))

\* The row heard starts over once it is past its opening, where the settings say so.
CommandPrevious ==
  LET back == [TakeTheBoundaryBack(e0) EXCEPT !.failures = 0]
      byHand == SkippedByHand(back)
      retreated == [byHand EXCEPT !.queue = Q!Retreat(@)]
  IN  \/ back.track # NoTrack /\ HeardAt(back) > 0 /\ Ask(Sought(Floored(back), 0))
      \/ HeardRow(back) = NoRow /\ Ask(byHand)
      \/ HeardRow(back) # NoRow /\ Ask(JumpTo(retreated, 0))

CommandJumpTo ==
  \E at \in 0..(Q!Size(e0.queue) - 1) :
    Ask(JumpTo([e0 EXCEPT !.queue = Q!JumpTo(@, at), !.failures = 0, !.playing = TRUE], 0))

CommandInsert ==
  /\ e0.queue.places < MaxPlaces
  /\ \E item \in Items, placement \in {"next", "queued"} :
       Ask([e0 EXCEPT !.queue = Q!Insert(@, <<item>>, placement, 0)])

\* What is heard is taken out of the queue: the row it goes on to starts afresh.
CommandRemove ==
  \E at \in 0..(Q!Size(e0.queue) - 1) :
    LET left == [e0 EXCEPT !.queue = CHOOSE q \in Q!RemoveAll(@, {at}) : TRUE]
    IN  Ask(CASE Q!Cursor(e0.queue) # at \/ (e0.track = NoTrack /\ e0.opening = NoTrack) -> left
              [] OTHER -> IF HeardRow(left) = NoRow THEN FinishTheQueue(left)
                          ELSE JumpTo(left, 0))

CommandMove ==
  \E at, to \in 0..(Q!Size(e0.queue) - 1) :
    at # to /\ Ask([e0 EXCEPT !.queue = Q!MoveRows(@, at, at, to)])

CommandSetRepeat ==
  \E repeat \in Q!Repeats \ {e0.queue.repeat} : Ask([e0 EXCEPT !.queue.repeat = repeat])

CommandSleepUntil == \E until \in Sleeps \ {e0.sleep} : Ask([e0 EXCEPT !.sleep = until])

\* A setting the plan reads, or another device chosen.
CommandRebind == e0.track # NoTrack /\ Ask(Rebind(e0, Position(e0)))

-----------------------------------------------------------------------------
(* The graph.                                                              *)

Pulls == e0.out.stream /\ e0.out.link # "off"

\* The graph reads a frame, and `Overrun` of them at most past a boundary before the engine
\* looks.
Pull ==
  LET frame == Head(e0.out.ring)
  IN  /\ Pulls /\ ~e0.out.discarding /\ e0.out.ring # <<>> /\ UNCHANGED asked
      /\ \A i \in DOMAIN e0.boundaries : e0.boundaries[i].away > -Overrun
      /\ engine' = [e0 EXCEPT !.out.ring = Tail(@), !.jumped = FALSE, !.slipped = FALSE,
                              !.boundaries = [i \in DOMAIN @ |->
                                                [@[i] EXCEPT !.away = @ - 1]]]
      /\ heard' = [last |-> frame.row, n |-> frame.n,
                   again |-> heard.again /\ frame.n < Length - 1,
                   whole |-> IF frame.n = Length - 1 /\ ~heard.again
                             THEN Append(heard.whole, frame.row) ELSE heard.whole]

TakeUpTheSeek ==
  /\ Pulls /\ e0.out.discarding /\ UNCHANGED asked
  /\ Do([e0 EXCEPT !.out.ring = <<>>, !.out.discarding = FALSE])

-----------------------------------------------------------------------------
Handlers ==
  \/ LandTheOpening \/ WatchDiscard \/ ReachTheBoundary
  \/ Pump \/ PumpEnds \/ PumpDrains \/ OpenAhead
  \/ FinishFading \/ Promote \/ TakeTheSurvey \/ Settle

Commands ==
  \/ CommandLoad \/ CommandPlay \/ CommandPause \/ CommandStop \/ CommandNext
  \/ CommandSeek \/ CommandPrevious \/ CommandJumpTo \/ CommandInsert \/ CommandRemove
  \/ CommandMove \/ CommandSetRepeat \/ CommandSleepUntil \/ CommandRebind

Next == Handlers \/ PumpFails \/ LoseTheDevice \/ Commands \/ Pull \/ TakeUpTheSeek

Spec == Init /\ [][Next]_vars

-----------------------------------------------------------------------------
(* Properties.                                                             *)

\* The row the queue is at is the row heard, or being opened to be heard, whatever was
\* edited, failed or rendered ahead; and what is rendered ahead is in the ring that plays.
TheRowShownIsTheRowHeard ==
  /\ engine.opening # NoTrack => engine.track = NoTrack /\ engine.opening.row = HeardRow(engine)
  /\ engine.track # NoTrack => HeardTrack(engine).row = HeardRow(engine)
  /\ \A i \in DOMAIN engine.boundaries : engine.boundaries[i].made = engine.out.made

\* Once a boundary is reached, the next frame the graph will read is of the row then shown.
TheBoundaryIsWhereTheRowEnters ==
  [][ReachTheBoundary =>
       LET left == engine'.out.ring \o engine'.out.chain
       IN  ~engine'.out.forAnother /\ left # <<>> => left[1].row = HeardRow(engine')]_vars

\* Unless the listener moved, frames are heard in turn: across a boundary, a boundary taken
\* back, another output and a device lost and found, no frame is left out, and none heard
\* again but those the chain held.
HeardInTurn ==
  [][Pull =>
       LET frame == Head(engine.out.ring)
       IN  \/ engine.jumped \/ engine.slipped
           \/ frame.row = heard.last /\ frame.n \in (heard.n + 1 - Latency)..(heard.n + 1)
           \/ /\ heard.n = Length - 1 /\ frame.n = 0
              /\ \/ frame.row # heard.last \/ heard.whole = <<>>
                 \/ \E i \in DOMAIN engine.boundaries :
                      engine.boundaries[i].leaving.row = Entering(engine, i)]_vars

\* A row is said to be finished when the last of it was heard, once, in its turn; unless
\* a row rendered after it failed.
FinishedOnceHeard ==
  [][~PumpFails =>
       \A i \in DOMAIN Finished(engine'.said) :
         i <= Len(heard.whole) /\ heard.whole[i] = Finished(engine'.said)[i][2]]_vars

\* A row is said to be finished only once the last of it was heard.
AnnouncedAsTheGraphReachesIt ==
  [][\A i \in DOMAIN Finished(engine'.said) :
       i <= Len(heard.whole) /\ heard.whole[i] = Finished(engine'.said)[i][2]]_vars

\* Where a timer ends the row, or ends the queue where it wraps, nothing plays on past it.
SleepsWhenDue ==
  [][Finished(engine'.said) # <<>>
       /\ (engine.sleep = "track" \/ (engine.sleep = "queue" /\ Q!WrapsNextAfter(engine.queue, 0)))
     => ~engine'.playing]_vars

=============================================================================
