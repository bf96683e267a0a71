------------------------------- MODULE Shared -------------------------------
(***************************************************************************)
(* People editing one playlist: each has a copy in the library, edited by  *)
(* hand, and a service (crates/resonate-sync/src/shared/service.rs) that   *)
(* looks at the copy, says what was done to it, and visits a server, which *)
(* numbers what it is told (crates/resonate-server/src/serve.rs, store.rs) *)
(* and hands it to the others.  Visits of several members interleave at    *)
(* every frame, break, and are cut short by a death; a member that heard   *)
(* enough has the server keep a snapshot in place of what it covers.       *)
(*                                                                         *)
(* Not here: people who may only view, names, leaving, moving to a new     *)
(* space, and a server that forgot the space.                              *)
(***************************************************************************)
EXTENDS SharedList

CONSTANTS
  SharedAtFirst,  \* the songs of the list as the first member shares it
  Lacks,          \* of each member, the songs not in its library
  Skew,           \* of each member, how far its wall clock is ahead
  CompactPast,    \* COMPACT_PAST_RECORDS
  MaxTroubles,    \* edits made by hand, rescans, visits that break and services that die, in all
  Mishaps         \* the schedules allowed that part the copies

Members == DOMAIN Skew

ASSUME SharedAssumption ==
  /\ Members = 1..Len(Skew) /\ Skew \in Seq(Nat) /\ Lacks \in [Members -> SUBSET Songs]
  /\ SharedAtFirst \in Seq(Songs) /\ Len(SharedAtFirst) \in Entries
  /\ CompactPast \in Nat \ {0} /\ MaxTroubles \in Nat
  /\ Mishaps \subseteq {"overlap", "edit_meanwhile", "break_after_hearing",
                        "death_while_writing", "slow_clock", "rescan"}

VARIABLES
  copy,    \* of each member, the songs of its playlist in the library
  library, \* of each member and song, whether rescans "kept" it, "lost" it or "found" it again
  mem,     \* of each member, the list as its service holds it: Kept
  kept,    \* of each member, the list as its store holds it
  visit,   \* of each member, the visit under way: visited
  clock,   \* of each member, Clock::last
  server,  \* what the server keeps: a snapshot through a number, and the records past it
  now,     \* stamps made so far, the instant every wall clock is about
  minted,  \* rows minted so far
  meant,   \* the songs the hands of all the members leave on the list
  used,    \* the songs that were ever on it
  tied,    \* two rows were ever at one place in a member's list
  unnamed, \* a look ever met a row without a track
  troubles
vars == <<copy, library, mem, kept, visit, clock, server, now, minted, meant, used, tied, unnamed, troubles>>

-----------------------------------------------------------------------------
LastSeq == server.through + Len(server.log)

\* The songs a rescan no longer finds.
Absent(m) == {song \in Songs : library[m][song] = "lost"}

\* What the library can name of the rows of a list: resolved entries of written_with.
Held(m, list) ==
  SelectSeq([i \in DOMAIN Rows(list) |-> list[Rows(list)[i]].song],
            LAMBDA song : song \notin Lacks[m] \cup Absent(m))

\* The copy as the service reads it, a row with no track unnamed: entries_of.
Listed(m) == [at \in DOMAIN copy[m] |-> IF copy[m][at] \in Absent(m) THEN NoSong ELSE copy[m][at]]

Tied(list) ==
  \E e, f \in Entries : e # f /\ IsListed(list[e]) /\ IsListed(list[f]) /\ list[e].place = list[f].place

NoVisit == [phase |-> "none", target |-> 0, changed |-> FALSE]

Idle(m) == visit[m].phase = "none"
Looked(m) == mem[m].at => Listed(m) = mem[m].seen
Rested(m) == Idle(m) /\ mem[m].at /\ Looked(m) /\ mem[m].owed = <<>> /\ mem[m].cursor = LastSeq

Holds(m, record) == /\ mem' = [mem EXCEPT ![m] = record]
                    /\ tied' = (tied \/ Tied(record.list))
Goes(m, phase) == visit' = [visit EXCEPT ![m].phase = phase]

\* share by the first member: a row for each song, each after the one before it.
SharedOps ==
  LET place[i \in DOMAIN SharedAtFirst] == IF i = 1 THEN FirstPlace ELSE After(place[i - 1])
  IN  [i \in DOMAIN SharedAtFirst |->
         Added(i, SharedAtFirst[i], place[i], [nanos |-> Skew[1] + i, device |-> 1])]

\* joined_as by the others: a list nothing was heard of, that no playlist shows yet.
Joined == [list |-> NoList, cursor |-> 0, owed |-> <<>>, written |-> <<>>, seen |-> <<>>,
           at |-> FALSE, since |-> 0]
JustShared ==
  [list |-> AppliedAll(NoList, SharedOps), cursor |-> 0, owed |-> SharedOps,
   written |-> [i \in DOMAIN SharedAtFirst |-> i], seen |-> SharedAtFirst, at |-> TRUE, since |-> 0]

Init ==
  /\ copy = [m \in Members |-> IF m = 1 THEN SharedAtFirst ELSE <<>>]
  /\ library = [m \in Members |-> [song \in Songs |-> "kept"]]
  /\ mem = [m \in Members |-> IF m = 1 THEN JustShared ELSE Joined]
  /\ kept = mem
  /\ visit = [m \in Members |-> NoVisit]
  /\ now = Len(SharedAtFirst) /\ minted = now
  /\ clock = [m \in Members |-> IF m = 1 THEN Skew[1] + now ELSE 0]
  /\ server = [through |-> 0, parts |-> <<>>, log |-> <<>>]
  /\ meant = ToSet(SharedAtFirst) /\ used = meant
  /\ tied = FALSE /\ unnamed = FALSE /\ troubles = 0

-----------------------------------------------------------------------------
(* A hand: a song put in, taken out or moved.  Each song is put in once,   *)
(* the first of those left.                                                *)

Insert(m) ==
  LET new == Songs \ (used \cup Lacks[m] \cup Absent(m))
  IN  \E song \in new, at \in 1..(Len(copy[m]) + 1) :
    /\ \A other \in new : song <= other
    /\ copy' = [copy EXCEPT ![m] = InsertAt(@, at, song)]
    /\ meant' = meant \cup {song} /\ used' = used \cup {song}

TakeOut(m) ==
  \E at \in DOMAIN copy[m] :
    /\ copy' = [copy EXCEPT ![m] = RemoveAt(@, at)]
    /\ meant' = meant \ {copy[m][at]}
    /\ UNCHANGED used

Shift(m) ==
  \E at, to \in DOMAIN copy[m] :
    /\ at # to
    /\ copy' = [copy EXCEPT ![m] = InsertAt(RemoveAt(@, at), to, @[at])]
    /\ UNCHANGED <<meant, used>>

\* Premise: no edit falls between a look and the end of the visit that follows it.
Edit(m) ==
  /\ mem[m].at /\ troubles < MaxTroubles
  /\ "edit_meanwhile" \in Mishaps \/ Idle(m)
  /\ Insert(m) \/ TakeOut(m) \/ Shift(m)
  /\ troubles' = troubles + 1
  /\ UNCHANGED <<library, mem, kept, visit, clock, server, now, minted, tied, unnamed>>

\* A rescan no longer finds a song of the library, or finds it again: a row that plays it
\* stays in the playlist, without a track.
Rescan(m) ==
  /\ "rescan" \in Mishaps /\ troubles < MaxTroubles
  /\ \E song \in Songs \ Lacks[m] :
       library' = [library EXCEPT ![m][song] = IF @ = "lost" THEN "found" ELSE "lost"]
  /\ troubles' = troubles + 1
  /\ UNCHANGED <<copy, mem, kept, visit, clock, server, now, minted, meant, used, tied, unnamed>>

-----------------------------------------------------------------------------
(* The service, between visits.                                            *)

\* look, edited: what was done to the copy is applied, owed and kept.
Look(m) ==
  /\ Idle(m) /\ ~Looked(m)
  /\ LET wall == now + 1 + Skew[m]
         first == IF wall > clock[m] THEN wall ELSE clock[m] + 1
     IN  \E said \in EditsSeen(mem[m].list, mem[m].written, Listed(m), [nanos |-> first, device |-> m], minted) :
           LET list == AppliedAll(mem[m].list, said.ops)
           IN  /\ minted' = said.minted
               /\ now' = now + Len(said.ops)
               /\ clock' = [clock EXCEPT ![m] = IF said.ops = <<>> THEN @ ELSE first + Len(said.ops) - 1]
               /\ Holds(m, [mem[m] EXCEPT !.list = list, !.owed = @ \o said.ops, !.seen = Listed(m),
                                          !.written = WrittenOrder(list, Listed(m))])
               /\ kept' = [kept EXCEPT ![m] = mem'[m]]
  /\ unnamed' = (unnamed \/ NoSong \in ToSet(Listed(m)))
  /\ UNCHANGED <<copy, library, visit, server, meant, used, troubles>>

\* Altered: what is owed waits for the others to say something.
NeededOnceItMoved(m) == LastSeq > mem[m].cursor \/ ~mem[m].at

\* exchange: the server is visited when it has more, when no playlist shows the list
\* yet, or when something is owed.
Needed(m) == LastSeq > mem[m].cursor \/ ~mem[m].at \/ mem[m].owed # <<>>

\* exchange, after a look; visited: Share, answered by Welcome.
Reach(m) ==
  /\ Idle(m) /\ Looked(m) /\ Needed(m)
  /\ visit' = [visit EXCEPT ![m] = [phase |-> "reading", target |-> LastSeq, changed |-> FALSE]]
  /\ UNCHANGED <<copy, library, mem, kept, clock, server, now, minted, meant, used, tied, unnamed, troubles>>

-----------------------------------------------------------------------------
(* A visit.                                                                *)

Reading(m) == visit[m].phase = "reading" /\ mem[m].cursor < visit[m].target

\* heard_a_record, of every blob of a frame.
Hears(m, ops, cursor, since) ==
  LET list == AppliedAll(mem[m].list, ops)
      stamps == {ops[i].stamp.nanos : i \in DOMAIN ops} \cup {clock[m]}
  IN  /\ Holds(m, [mem[m] EXCEPT !.list = list, !.cursor = cursor, !.since = since])
      /\ visit' = [visit EXCEPT ![m].changed = @ \/ list # mem[m].list]
      /\ clock' = [clock EXCEPT ![m] = CHOOSE last \in stamps : \A other \in stamps : other <= last]

\* A reader behind the snapshot is sent it: catch_up.
HearSnapshot(m) ==
  /\ Reading(m) /\ mem[m].cursor < server.through
  /\ Hears(m, server.parts, server.through, 0)
  /\ UNCHANGED <<copy, library, kept, server, now, minted, meant, used, unnamed, troubles>>

\* A record of one's own comes back as its number alone: send_records.
HearRecord(m) ==
  /\ Reading(m) /\ mem[m].cursor >= server.through
  /\ LET record == server.log[mem[m].cursor + 1 - server.through]
     IN  Hears(m, IF record.from = m THEN <<>> ELSE record.ops, mem[m].cursor + 1, mem[m].since + 1)
  /\ UNCHANGED <<copy, library, kept, server, now, minted, meant, used, unnamed, troubles>>

\* The head Welcome named is reached, and nothing is left to say.
Caught(m) == visit[m].phase = "reading" /\ mem[m].cursor >= visit[m].target
Pushed(m) == Caught(m) /\ mem[m].owed = <<>>

\* pushed: records that come before the answer to Append are counted and not applied.
\* Premise: they say nothing new, as one does that was said again after a visit broke.
HearWhilePushing(m) ==
  LET from == IF mem[m].cursor < server.through THEN server.through ELSE mem[m].cursor
      record == SubSeq(server.log, from + 1 - server.through, Len(server.log))
  IN  /\ Caught(m) /\ ~Pushed(m) /\ record # <<>>
      /\ \/ "overlap" \in Mishaps
         \/ \A i \in DOMAIN record : AppliedAll(mem[m].list, record[i].ops) = mem[m].list
      /\ mem' = [mem EXCEPT ![m].cursor = LastSeq, ![m].since = @ + Len(record)]
      /\ UNCHANGED <<copy, library, kept, visit, clock, server, now, minted, meant, used, tied, unnamed, troubles>>

\* Append, and Store::append: sealed anew at each attempt, what is said twice is kept twice.
Push(m) ==
  /\ Caught(m) /\ ~Pushed(m)
  /\ server' = [server EXCEPT !.log = Append(@, [from |-> m, ops |-> mem[m].owed])]
  /\ Goes(m, "appended")
  /\ UNCHANGED <<copy, library, mem, kept, clock, now, minted, meant, used, tied, unnamed, troubles>>

HearAppended(m) ==
  /\ visit[m].phase = "appended"
  /\ mem' = [mem EXCEPT ![m].owed = <<>>]
  /\ Goes(m, "reading")
  /\ UNCHANGED <<copy, library, kept, clock, server, now, minted, meant, used, tied, unnamed, troubles>>

\* compacted, Store::compact: the list stands for every record heard, unless another
\* snapshot came as far.
Compact(m) ==
  /\ Pushed(m) /\ mem[m].since >= CompactPast
  /\ LET stale == mem[m].cursor <= server.through \/ mem[m].cursor > LastSeq
     IN  server' = IF stale THEN server
                   ELSE [through |-> mem[m].cursor, parts |-> AsOps(mem[m].list),
                         log |-> SubSeq(server.log, mem[m].cursor - server.through + 1, Len(server.log))]
  /\ Goes(m, "compacting")
  /\ UNCHANGED <<copy, library, mem, kept, clock, now, minted, meant, used, tied, unnamed, troubles>>

HearCompacted(m) ==
  /\ visit[m].phase = "compacting"
  /\ mem' = [mem EXCEPT ![m].since = 0]
  /\ Goes(m, "reading")
  /\ UNCHANGED <<copy, library, kept, clock, server, now, minted, meant, used, tied, unnamed, troubles>>

Done(m) == Pushed(m) /\ mem[m].since < CompactPast
Unshown(m) == visit[m].changed \/ ~mem[m].at

\* materialised: the copy is written over with what the library holds of the list.
Materialise(m) ==
  /\ Done(m) /\ Unshown(m)
  /\ LET shown == Held(m, mem[m].list)
     IN  /\ copy' = [copy EXCEPT ![m] = shown]
         /\ mem' = [mem EXCEPT ![m].written = WrittenOrder(mem[m].list, shown),
                               ![m].seen = shown, ![m].at = TRUE]
  /\ Goes(m, "written")
  /\ UNCHANGED <<library, kept, clock, server, now, minted, meant, used, tied, unnamed, troubles>>

\* The end of visited: Store::keep.
KeepList(m) ==
  /\ visit[m].phase = "written" \/ (Done(m) /\ ~Unshown(m))
  /\ kept' = [kept EXCEPT ![m] = mem[m]]
  /\ visit' = [visit EXCEPT ![m] = NoVisit]
  /\ UNCHANGED <<copy, library, mem, clock, server, now, minted, meant, used, tied, unnamed, troubles>>

-----------------------------------------------------------------------------
(* What goes wrong.                                                        *)

\* The connection breaks, or an answer is too long in coming.
\* Premise: not once something was heard that the playlist is to show.
Break(m) ==
  /\ troubles < MaxTroubles
  /\ visit[m].phase \in {"reading", "appended", "compacting"}
  /\ "break_after_hearing" \in Mishaps \/ ~(visit[m].changed /\ mem[m].at)
  /\ visit' = [visit EXCEPT ![m] = NoVisit]
  /\ troubles' = troubles + 1
  /\ UNCHANGED <<copy, library, mem, kept, clock, server, now, minted, meant, used, tied, unnamed>>

\* The program ends anywhere, and starts from what is kept, with a clock that saw nothing.
\* Premises: not between the copy written and the list kept, nor with a wall clock still
\* behind a stamp the list bears.
Die(m) ==
  /\ troubles < MaxTroubles
  /\ "death_while_writing" \in Mishaps \/ visit[m].phase # "written"
  /\ "slow_clock" \in Mishaps \/ clock[m] <= now + Skew[m]
  /\ Holds(m, [kept[m] EXCEPT !.list = AppliedAll(NoList, AsOps(@))])
  /\ visit' = [visit EXCEPT ![m] = NoVisit]
  /\ clock' = [clock EXCEPT ![m] = 0]
  /\ troubles' = troubles + 1
  /\ UNCHANGED <<copy, library, kept, server, now, minted, meant, used, unnamed>>

-----------------------------------------------------------------------------
Proceed(m) ==
  \/ Look(m) \/ Reach(m) \/ HearSnapshot(m) \/ HearRecord(m)
  \/ Push(m) \/ HearAppended(m) \/ Compact(m) \/ HearCompacted(m)
  \/ Materialise(m) \/ KeepList(m)

Next == \E m \in Members :
  Proceed(m) \/ HearWhilePushing(m) \/ Edit(m) \/ Rescan(m) \/ Break(m) \/ Die(m)

\* When a service has a step to take: the guards of Proceed, in its order.
CanProceed(m) ==
  \/ Idle(m) /\ (Needed(m) \/ ~Looked(m))
  \/ Reading(m) \/ Caught(m)
  \/ visit[m].phase \in {"appended", "compacting", "written"}

\* The service of each member polls on, and the server answers: WF_vars(Proceed(m)), with
\* what enables it said outright.  Every step of Proceed changes one of the two, and other
\* steps do so only as often as there are troubles.
Fairness ==
  \A m \in Members :
    <>[]CanProceed(m) => []<><<<<mem[m], visit[m]>>' # <<mem[m], visit[m]>>>>_vars

Spec == Init /\ [][Next]_vars /\ Fairness

-----------------------------------------------------------------------------
(* What people sharing a list are promised.                                *)

\* Two members with nothing left to say or to hear hold one list, row for row, whatever
\* order it came in, however often, and from records or a snapshot (SharedList::apply,
\* as_ops, Store::compact).
RestedMembersAgree ==
  \A m, n \in Members : Rested(m) /\ Rested(n) => mem[m].list = mem[n].list

\* A row of the list as it was shared is removed only where a hand took its song out.
OnlyHandsRemove ==
  \A m \in Members : \A e \in DOMAIN SharedAtFirst :
    SharedAtFirst[e] \in meant => mem[m].list[e].removed = NoStamp

\* No row is ever removed for want of a track, be it that a library lacks the song or that a
\* rescan lost it. Once everyone rests, each song a hand put in is on the list once and each
\* taken out is gone, while no look met a row without a track (edits_seen, written_order).
EditsAreKept ==
  /\ OnlyHandsRemove
  /\ (\A m \in Members : Rested(m)) /\ ~unnamed =>
       \A m \in Members :
         LET list == mem[m].list
         IN  /\ {list[e].song : e \in ToSet(Rows(list))} = meant
             /\ Len(Rows(list)) = Cardinality(meant)

\* Between visits a copy looked at shows what the library holds of the list, in its order
\* (placed_after, written_order, materialised), while no two rows were put at one place and no look met a row without a
\* track; of the songs no rescan ever lost, since one found again waits for what is heard next.
CopyShowsTheList ==
  \A m \in Members :
    LET Stood(songs) == SelectSeq(songs, LAMBDA song : library[m][song] = "kept")
    IN  Idle(m) /\ mem[m].at /\ Looked(m) /\ ~tied /\ ~unnamed =>
          Stood(copy[m]) = Stood(Held(m, mem[m].list))

\* Once the hands are still and nothing breaks any more, every member comes to rest
\* (exchange, visited).
EveryoneComesToRest == <>[](\A m \in Members : Rested(m))

=============================================================================
