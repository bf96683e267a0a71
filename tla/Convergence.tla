---------------------------- MODULE Convergence -----------------------------
(***************************************************************************)
(* What the operations of a shared playlist promise those who keep it      *)
(* (crates/resonate-sync/src/shared/op.rs): readers of one list say        *)
(* operations, and hear those of the others one at a time, in any order    *)
(* and any number of times.  Shared is how they come to be heard; here it  *)
(* is of no account, and any number of them may be said.                   *)
(*                                                                         *)
(* Not here: snapshots, which say again what stands.                       *)
(***************************************************************************)
EXTENDS SharedList

CONSTANTS
  Readers,  \* those who keep the list
  Places,   \* where a row may be put
  Stamps    \* what an operation may be stamped

VARIABLES
  said,   \* the operations said so far, by anyone
  heard,  \* of each reader, the operations applied to its list
  lists   \* of each reader, the list
vars == <<said, heard, lists>>

Ops == UNION {{Added(entry, song, place, stamp), Moved(entry, place, stamp), Removed(entry, stamp)} :
                entry \in Entries, song \in Songs, place \in Places, stamp \in Stamps}

Placing(op) == op.op # "removed"

\* An id is minted for one song, and a stamp says one word.
Consistent(ops) ==
  \A a, b \in ops : a.entry = b.entry =>
    /\ a.op = "added" /\ b.op = "added" => a.song = b.song
    /\ Placing(a) /\ Placing(b) /\ a.stamp = b.stamp => a.place = b.place

-----------------------------------------------------------------------------
Init ==
  /\ said = {}
  /\ heard = [reader \in Readers |-> {}]
  /\ lists = [reader \in Readers |-> NoList]

Apply(reader, op) ==
  /\ lists' = [lists EXCEPT ![reader] = Applied(@, op)]
  /\ heard' = [heard EXCEPT ![reader] = @ \cup {op}]

\* edited: what is said is applied where it is said.
Say(reader) ==
  \E op \in Ops :
    /\ Consistent(said \cup {op})
    /\ said' = said \cup {op}
    /\ Apply(reader, op)

\* heard_a_record: each operation of a record in turn, heard before or not.
Hear(reader) ==
  /\ \E op \in said : Apply(reader, op)
  /\ UNCHANGED said

Next == \E reader \in Readers : Say(reader) \/ Hear(reader)

Spec == Init /\ [][Next]_vars

-----------------------------------------------------------------------------
(* What a list is, of the operations it was made of, in no order.          *)

AnyRow == [song : Songs \cup {NoSong}, place : Places \cup {NoPlace},
           stamp : Stamps \cup {NoStamp}, removed : Stamps \cup {NoStamp}]

Removals(ops) == {op \in ops : ~Placing(op)}
Placings(ops) == {op \in ops : Placing(op)}
Additions(ops) == {op \in ops : op.op = "added"}

Latest(stamp, ops) == /\ \E op \in ops : op.stamp = stamp
                      /\ \A op \in ops : ~Later(op.stamp, stamp)

\* A row removed is nothing but that, since the latest removal.
StandsRemoved(row, ops) ==
  row = [NoRow EXCEPT !.removed = row.removed] /\ Latest(row.removed, Removals(ops))

\* Any other plays what it was added for, and is where it was put last.
StandsPlaced(row, ops) ==
  /\ row.removed = NoStamp
  /\ IF Additions(ops) = {} THEN row.song = NoSong
     ELSE \E op \in Additions(ops) : row.song = op.song
  /\ IF Placings(ops) = {} THEN row.place = NoPlace /\ row.stamp = NoStamp
     ELSE /\ \E op \in Placings(ops) : row.place = op.place /\ row.stamp = op.stamp
          /\ Latest(row.stamp, Placings(ops))

RowStandsFor(row, ops) ==
  IF Removals(ops) # {} THEN StandsRemoved(row, ops) ELSE StandsPlaced(row, ops)

Of(entry, ops) == {op \in ops : op.entry = entry}
StandsFor(list, ops) == \A entry \in Entries : RowStandsFor(list[entry], Of(entry, ops))

-----------------------------------------------------------------------------
(* Properties.                                                             *)

\* Readers who heard the same operations hold the same list, whatever order they came in
\* and however often (SharedList::apply).
HeardAlikeHoldAlike ==
  \A a, b \in Readers : heard[a] = heard[b] => lists[a] = lists[b]

\* A list is what its operations make of it by definition: a row removed by any is gone, any
\* other is where the latest put it (SharedList::apply, placed_later).
ListsStandForWhatWasHeard == \A reader \in Readers : StandsFor(lists[reader], heard[reader])

\* A row once removed is never listed again, by whatever is said of it later and heard
\* earlier (SharedList::apply).
RemovedStaysRemoved ==
  [][\A reader \in Readers, entry \in Entries :
       lists[reader][entry].removed # NoStamp =>
         /\ lists'[reader][entry].removed # NoStamp
         /\ ~IsListed(lists'[reader][entry])]_vars

=============================================================================
