------------------------------ MODULE Keeping -------------------------------
(***************************************************************************)
(* The queue kept for the next run.  Every second, and once on leaving,    *)
(* the interface compares what the engine shows with what it saw last      *)
(* (crates/resonate-engine/src/kept.rs) and writes to the library as       *)
(* little as says the difference: the whole queue where the stamp moved,   *)
(* the order where only the revision did, the place where neither did.     *)
(* A run may be cut at any moment; the next one restores what was kept.    *)
(*                                                                         *)
(* Files are moved underneath: organising the library rewrites the kept    *)
(* rows as each batch lands, and tells the engine when it is done.  The    *)
(* position in the song is left out, and a write never fails.              *)
(***************************************************************************)
EXTENDS Resumed

CONSTANTS
  Moves,            \* the moves of files an organising run makes, <<from, to>>
  TellsAtOnce,      \* the engine hears of a moved file before anything else happens
  TurnsResumingOff  \* the user may stop keeping the queue, and start again

VARIABLES
  resumption,  \* the library's resume tables
  held,        \* Keeping: what it saw last, nothing before the first look
  resume,      \* the setting
  telling,     \* the moves made that the engine has not been told of
  standing     \* what there is to play, where it now is

keepingVars == <<queue, shown, resumption, held, resume, telling, standing>>

Nothing   == [rows |-> <<>>, order |-> <<>>, row |-> 0, shuffle |-> FALSE, next |-> <<>>]
Unseen    == [seen |-> FALSE, stamp |-> Unstamped, revised |-> FALSE, shuffle |-> FALSE,
              row |-> 0]

\* The engine has heard of every move made, where it is told at once.
Told == TellsAtOnce => telling = {}

-----------------------------------------------------------------------------

\* Altered: a shuffle turned on or off is not kept.
ReorderedKeepingTheShuffle(view) ==
  [resumption EXCEPT !.order = InLoadOrder(view.rows).order, !.row = KeptRow,
                     !.next = view.next]

Reordered(view) ==
  [resumption EXCEPT !.order = InLoadOrder(view.rows).order, !.row = KeptRow,
                     !.shuffle = queue.shuffle, !.next = view.next]

HeldNow == [seen |-> TRUE, stamp |-> shown.stamp, revised |-> FALSE,
            shuffle |-> queue.shuffle, row |-> KeptRow]

\* held.revised: the revision moved since the last look.
MovedSince == held.revised \/ held.shuffle # queue.shuffle

\* Keeping::kept, and the library writing what it says.
KeepWhatMoved ==
  /\ \/ /\ ~held.seen \/ held.stamp # shown.stamp
        /\ resumption' = ResumptionOf(shown) /\ held' = HeldNow
     \/ /\ held.seen /\ held.stamp = shown.stamp /\ MovedSince
        /\ resumption' = Reordered(shown) /\ held' = HeldNow
     \/ /\ held.seen /\ held.stamp = shown.stamp /\ ~MovedSince
        /\ Playing /\ held.row # KeptRow
        /\ resumption' = [resumption EXCEPT !.row = KeptRow]
        /\ held' = [held EXCEPT !.row = KeptRow]
  /\ UNCHANGED <<queue, shown, resume, telling, standing>>

\* keep_the_queue: nothing is looked at while the setting is off.
Keep == resume /\ Told /\ KeepWhatMoved

\* The run is over, and another one restores what was kept, but the rows that name a file
\* gone since.
Restart ==
  /\ Told
  /\ LET left == WhatIsLeft(resumption, {row \in 0..(Len(resumption.rows) - 1) :
                                           resumption.rows[row + 1] \notin standing})
     IN  Commanded({Revised(IF left.rows = <<>> THEN New ELSE Restore(New, left))})
  /\ held' = Unseen /\ telling' = {}
  /\ UNCHANGED <<resumption, resume, standing>>

\* Organising the library: the files of a batch are renamed, and the kept rows with them.
FilesMoved ==
  \E move \in Moves :
    /\ Told /\ move[1] \in standing /\ move[2] \notin standing
    /\ standing' = (standing \ {move[1]}) \cup {move[2]}
    /\ resumption' = [resumption EXCEPT !.rows =
                        [i \in DOMAIN @ |-> IF @[i] = move[1] THEN move[2] ELSE @[i]]]
    /\ telling' = telling \cup {move}
    /\ UNCHANGED <<queue, shown, held, resume>>

\* Turned off, what was kept is discarded; the Keeping of each zone stays.
SetResume ==
  /\ TurnsResumingOff /\ Told /\ resume' = ~resume
  /\ resumption' = IF resume THEN Nothing ELSE resumption
  /\ UNCHANGED <<queue, shown, held, telling, standing>>

\* The revision moved wherever what is shown did.
Noticed == held' = [held EXCEPT !.revised = @ \/ shown' # shown]

\* The engine is told once the organising is done.
TellWhereFilesWent ==
  \E move \in telling :
    /\ Commanded({Relocate(queue, move[1], move[2])})
    /\ telling' = telling \ {move} /\ Noticed
    /\ UNCHANGED <<resumption, resume, standing>>

\* Rows that arrive play what there is; rows kept waiting through a load play what they did.
Command ==
  /\ Told
  /\ \/ CommandLoad \/ CommandInsert \/ CommandInsertAt \/ CommandInsertToHear
     \/ CommandRemoveAll \/ CommandMove \/ CommandOrder \/ CommandSetShuffle
     \/ CommandSetRepeat \/ CommandNext \/ TrackEnds \/ CommandPrevious \/ CommandJumpTo
  /\ \A row \in ToSet(Drawn(queue')) \ ToSet(Drawn(queue)) :
       row.item \in standing \cup ToSet(ItemsOf(Waiting(queue)))
  /\ Noticed
  /\ UNCHANGED <<resumption, resume, telling, standing>>

KeepingInit ==
  /\ Init /\ resumption = Nothing /\ held = Unseen /\ resume = TRUE /\ telling = {}
  /\ standing = Items \ {move[2] : move \in Moves}

KeepingNext ==
  Keep \/ Restart \/ FilesMoved \/ TellWhereFilesWent \/ SetResume \/ Command

KeepingSpec == KeepingInit /\ [][KeepingNext]_keepingVars

-----------------------------------------------------------------------------
(* Properties.                                                             *)

\* Nothing is left to keep: the last look saw what stands, and no move is still to be
\* told.
Settled ==
  /\ resume /\ held.seen /\ held.stamp = shown.stamp /\ ~MovedSince
  /\ Playing => held.row = KeptRow
  /\ telling = {}

\* Whatever was done between two looks, and however little each of them wrote, a run cut
\* then comes back to the rows shown, playing what it played, with the same rows to play
\* next and the same shuffle, unless nothing was kept since resuming was turned off
\* (Keeping::kept_by, Queue::restore).
KeptIsWhatStands ==
  Settled /\ Playing /\ resumption.rows # <<>> =>
    LET back == Restore(New, resumption)
    IN  /\ ItemsOf(Drawn(back)) = ItemsOf(shown.rows)
        /\ Cursor(back) = Cursor(queue) /\ back.seat = queue.seat
        /\ PlayingNext(back) = shown.next /\ back.shuffle = queue.shuffle

=============================================================================
