------------------------------- MODULE Ledger -------------------------------
(***************************************************************************)
(* Favourites kept alike on the devices of one listener                    *)
(* (crates/resonate-sync/src/ledger.rs, change.rs, service.rs): a look at  *)
(* the catalog stamps what changed here, a push appends it to the server's *)
(* log, what another device appended arrives and the later stamp wins, and *)
(* a device that has read far compacts the log to a snapshot               *)
(* (crates/resonate-server/src/store.rs, serve.rs).  Links break, devices  *)
(* die, neighbours tell each other, and the server may lose the space.     *)
(***************************************************************************)
EXTENDS Integers, Sequences, FiniteSets

CONSTANTS
  Devices,       \* the devices of one key, numbered: stamps of one instant are ordered by device
  Keys,          \* recordings, numbered: a look stamps them in order
  HeldAtFirst,   \* the recordings the catalogs may hold at first
  Wall,          \* the wall clock of each device, standing still
  WallMovesOn,   \* whether a device that starts over finds its wall past every instant it lost
  CompactPast,   \* COMPACT_PAST_RECORDS
  MaxEdits,      \* bound: favourites added or removed by hand
  MaxTurns       \* bound: songs that land, neighbours told, links and spaces lost, deaths

ASSUME LedgerAssumption ==
  /\ Devices \subseteq Nat \ {0} /\ Keys \subseteq Nat /\ IsFiniteSet(Keys)
  /\ HeldAtFirst \subseteq [Devices -> SUBSET Keys] /\ Wall \in [Devices -> Nat]
  /\ WallMovesOn \in BOOLEAN
  /\ CompactPast \in Nat \ {0}
  /\ MaxEdits \in Nat /\ MaxTurns \in Nat

VARIABLES
  favourites,  \* the favourites of each catalog
  holds,       \* the recordings each catalog holds
  rows,        \* the favourites of each ledger
  clock,       \* the clock of each device, kept once its rows are
  read,        \* how far each ledger has read the log, of which space, and since which snapshot
  link,        \* each device's link to the server, both ends of it
  caughtUp,    \* the devices that once caught up, with the server or with a neighbour
  server,      \* the space: its log, its snapshot, its head, and how many came before it
  edits, turns

vars == <<favourites, holds, rows, clock, read, link, caughtUp, server,
          edits, turns>>

catalogs == <<favourites, holds>>
kept == <<rows, clock>>
bounds == <<edits, turns>>

-----------------------------------------------------------------------------
(* Stamps, rows and notes.                                                 *)

Greatest(a, b) == IF a > b THEN a ELSE b

\* Stamp's order: the instant, then the device.
Later(a, b) == a.nanos > b.nanos \/ (a.nanos = b.nanos /\ a.device > b.device)

NoStamp == [nanos |-> 0, device |-> 0]
NoSpace == [head |-> 0, log |-> {}, snapshot |-> [through |-> 0, notes |-> {}], space |-> 1]
NoRow == [favoured |-> FALSE, here |-> FALSE, stamp |-> NoStamp, owed |-> FALSE]
Known(row) == row.stamp # NoStamp

Note(ledger, key) == [key |-> key, favoured |-> ledger[key].favoured, stamp |-> ledger[key].stamp]

\* owed and snapshot.
Owed(ledger) == {Note(ledger, key) : key \in {k \in Keys : ledger[k].owed}}
Whole(ledger) == {Note(ledger, key) : key \in {k \in Keys : Known(ledger[k])}}

\* Altered: what was edited since it was sent is no longer owed either.
SentAnyhow(ledger, notes) ==
  [key \in Keys |-> [ledger[key] EXCEPT !.owed = @ /\ ~\E note \in notes : note.key = key]]

\* sent: only what still stands as it was sent is no longer owed.
Sent(ledger, notes) ==
  [key \in Keys |->
     [ledger[key] EXCEPT !.owed =
        @ /\ ~\E note \in notes : note.key = key /\ note.stamp = ledger[key].stamp]]

\* space_made_anew: OWE_EVERYTHING.
OweEverything(ledger) == [key \in Keys |-> [ledger[key] EXCEPT !.owed = Known(ledger[key])]]

-----------------------------------------------------------------------------
(* A look at the catalog, and notes that arrive.                           *)

\* settle: a favourite passed on is taken up once its recording is held.
TakenUp(device) ==
  {key \in holds[device] : rows[device][key].favoured /\ ~rows[device][key].here}
Settled(device) ==
  [key \in Keys |-> [rows[device][key] EXCEPT !.here = @ \/ key \in TakenUp(device)]]

\* The keys a look asks the clock a stamp for: favourites not here, and those here no more.
Differing(marked, ledger) ==
  {key \in marked : ~ledger[key].here} \cup {key \in Keys \ marked : ledger[key].here}

\* Favourites are stamped first, each side in the order of its keys.
StampedBefore(marked, asked, key) ==
  {other \in asked : \/ other \in marked /\ key \notin marked
                     \/ (other \in marked <=> key \in marked) /\ other < key}

\* Altered: the wall clock alone.
StampedByTheWall(device, last, wall, marked, asked, key) ==
  [nanos  |-> wall + 1 + Cardinality(StampedBefore(marked, asked, key)), device |-> device]

\* Clock::now, asked for each key in turn.
Stamped(device, last, wall, marked, asked, key) ==
  [nanos  |-> Greatest(wall, last + 1) + Cardinality(StampedBefore(marked, asked, key)),
   device |-> device]

Ticked(last, wall, asked) ==
  IF asked = {} THEN last ELSE Greatest(wall, last + 1) + Cardinality(asked) - 1

\* look_at_favourites; a look at what is held adds no row.
Looked(device, marked, ledger, last, wall, everything) ==
  LET asked == Differing(marked, ledger)
      stamp(key) == Stamped(device, last, wall, marked, asked, key)
      newly(key) == [favoured |-> TRUE, here |-> TRUE, stamp |-> stamp(key), owed |-> TRUE]
      looked(key) ==
        CASE key \notin asked -> ledger[key]
          [] key \in asked \ marked ->
               [favoured |-> FALSE, here |-> FALSE, stamp |-> stamp(key), owed |-> TRUE]
          [] key \in asked \cap marked /\ ~Known(ledger[key]) ->
               IF everything THEN newly(key) ELSE ledger[key]
          [] key \in asked \cap marked /\ Known(ledger[key]) ->
               IF ledger[key].favoured THEN [ledger[key] EXCEPT !.here = TRUE] ELSE newly(key)
  IN  [key \in Keys |-> looked(key)]

\* Altered: a note of the same instant wins too.
WinningAtOneInstant(ledger, notes) ==
  {note \in notes : note.stamp.nanos >= ledger[note.key].stamp.nanos}

\* The notes that win over what is held.
Winning(ledger, notes) == {note \in notes : Later(note.stamp, ledger[note.key].stamp)}

\* favourite_arrived: what the catalog takes of the notes, and what the ledger keeps.
Favoured(device, marked, ledger, notes) ==
  LET won == Winning(ledger, notes) IN
    (marked \cup {note.key : note \in {n \in won : n.favoured /\ n.key \in holds[device]}})
      \ {note.key : note \in {n \in won : ~n.favoured /\ Known(ledger[n.key])}}

Taken(device, ledger, notes) ==
  LET won == Winning(ledger, notes)
      row(note) == [favoured |-> note.favoured, here |-> note.favoured /\ note.key \in holds[device],
                    stamp |-> note.stamp, owed |-> FALSE]
  IN  [key \in Keys |->
         IF \E note \in won : note.key = key
         THEN row(CHOOSE note \in won : note.key = key)
         ELSE ledger[key]]

\* Altered: what arrives is not seen by the clock.
SawNone(last, notes) == {last}

\* Clock::saw of every note: the latest instant.
SawAll(last, notes) ==
  {nanos \in {last} \cup {note.stamp.nanos : note \in notes} :
     nanos >= last /\ \A note \in notes : nanos >= note.stamp.nanos}

-----------------------------------------------------------------------------
(* Links.  What is on its way to a device is what the server has past what  *)
(* the device has read.                                                      *)

Down == [up |-> FALSE, head |-> 0, caughtUp |-> FALSE, says |-> <<>>, inFlight |-> {},
         appended |-> 0, compacting |-> 0, stale |-> FALSE, notices |-> <<>>]

\* push: one append in flight at a time.
Pushed(end, ledger) ==
  IF end.up /\ end.inFlight = {} /\ Owed(ledger) # {}
  THEN [end EXCEPT !.inFlight = Owed(ledger),
                   !.says = Append(@, [say |-> "append", through |-> 0, notes |-> Owed(ledger)])]
  ELSE end

\* compact: a device that has caught up and read far since the last snapshot.
Compacting(end, through, since, ledger) ==
  IF end.caughtUp /\ end.compacting = 0 /\ since >= CompactPast
  THEN [end EXCEPT !.compacting = through,
                   !.says = Append(@, [say |-> "compact", through |-> through,
                                       notes |-> Whole(ledger)])]
  ELSE end

\* Altered: the last record of the head it was welcomed with is not enough.
CaughtUpPast(end, through) ==
  IF through > end.head THEN [end EXCEPT !.caughtUp = TRUE, !.head = 0] ELSE end

\* caught_up_through: the head it was welcomed with is of no use after.
CaughtUpThrough(end, through) ==
  IF through >= end.head THEN [end EXCEPT !.caughtUp = TRUE, !.head = 0] ELSE end

\* may_look.
MayLook(device) ==
  IF link[device].up THEN link[device].caughtUp \/ "neighbour" \in caughtUp[device]
  ELSE caughtUp[device] # {}

SetLink(device, end) == link' = [link EXCEPT ![device] = end]

Reached(device, end) ==
  caughtUp' = [caughtUp EXCEPT ![device] = IF end.caughtUp THEN @ \cup {"server"} ELSE @]

-----------------------------------------------------------------------------
(* What a device does.                                                     *)

\* A favourite added or taken away by hand.
Edit(device, key) ==
  /\ edits < MaxEdits /\ key \in holds[device]
  /\ favourites' = [favourites EXCEPT ![device] =
       IF key \in @ THEN @ \ {key} ELSE @ \cup {key}]
  /\ edits' = edits + 1
  /\ UNCHANGED <<holds, kept, read, link, caughtUp, server, turns>>

\* A song that another device held lands.
Land(device, key) ==
  /\ turns < MaxTurns /\ key \notin holds[device]
  /\ holds' = [holds EXCEPT ![device] = @ \cup {key}]
  /\ turns' = turns + 1
  /\ UNCHANGED <<favourites, kept, read, link, caughtUp, server, edits>>

\* settle and look: the rows, and the instant the clock ticked to.
Looks(device) ==
  LET marked == favourites[device] \cup TakenUp(device) IN
    /\ favourites' = [favourites EXCEPT ![device] = marked]
    /\ rows' = [rows EXCEPT ![device] =
         Looked(device, marked, Settled(device), clock[device], Wall[device], TRUE)]
LookedAt(device) ==
  Ticked(clock[device], Wall[device],
         Differing(favourites[device] \cup TakenUp(device), Settled(device)))

\* The rows are committed, then the clock is kept, then what is owed is pushed.
Look(device) ==
  /\ MayLook(device) /\ Looks(device)
  /\ clock' = [clock EXCEPT ![device] = LookedAt(device)]
  /\ SetLink(device, Pushed(link[device], rows'[device]))
  /\ UNCHANGED <<holds, read, caughtUp, server, bounds>>

\* Altered: what was set by hand since the last look is not stamped first.
ArrivedUnlooked(device, notes) ==
  /\ favourites' = [favourites EXCEPT ![device] = Favoured(device, @, rows[device], notes)]
  /\ rows' = [rows EXCEPT ![device] = Taken(device, @, notes)]
  /\ \E nanos \in SawAll(clock[device], notes) : clock' = [clock EXCEPT ![device] = nanos]

\* arrived: a look at what is held, then every note; and the instant the clock saw.
Arrives(device, notes) ==
  LET marked == favourites[device]
      ledger == Looked(device, marked, rows[device], clock[device], Wall[device], FALSE)
  IN  /\ favourites' = [favourites EXCEPT ![device] = Favoured(device, marked, ledger, notes)]
      /\ rows' = [rows EXCEPT ![device] = Taken(device, ledger, notes)]
ArrivedAt(device, notes) ==
  SawAll(Ticked(clock[device], Wall[device], Differing(favourites[device], rows[device])), notes)

\* The rows are committed one by one, then the clock is kept.
Arrived(device, notes) ==
  /\ Arrives(device, notes)
  /\ \E nanos \in ArrivedAt(device, notes) : clock' = [clock EXCEPT ![device] = nanos]

\* passed and compacted.
Read(device, through, since) ==
  read' = [read EXCEPT ![device].cursor = Greatest(@, through), ![device].since = since]

RecordsPast(device) ==
  {record \in server.log : record.through > read[device].cursor}
BehindTheSnapshot(device) == read[device].cursor < server.snapshot.through
HasRead(device) == ~BehindTheSnapshot(device) /\ RecordsPast(device) = {}

\* What is past the record that was appended follows its answer.
FollowsTheAnswer(device, through) ==
  link[device].appended # 0 /\ through >= link[device].appended

\* What the server sends a device next: the snapshot, or the first record past its cursor.
SnapshotIsNext(device) ==
  /\ link[device].up /\ BehindTheSnapshot(device)
  /\ ~FollowsTheAnswer(device, server.snapshot.through)
RecordIsNext(device, record) ==
  /\ link[device].up /\ ~BehindTheSnapshot(device)
  /\ \A other \in RecordsPast(device) : record.through <= other.through
  /\ ~FollowsTheAnswer(device, record.through)

HearSnapshot(device) ==
  LET end == CaughtUpThrough(link[device], server.snapshot.through) IN
  /\ SnapshotIsNext(device)
  /\ Arrived(device, server.snapshot.notes)
  /\ Read(device, server.snapshot.through, 0)
  /\ SetLink(device, end) /\ Reached(device, end)
  /\ UNCHANGED <<holds, server, bounds>>

\* A record this device appended comes back with nothing in it.
HearRecord(device) ==
  \E record \in RecordsPast(device) :
    LET end == CaughtUpThrough(link[device], record.through) IN
      /\ RecordIsNext(device, record)
      /\ IF record.from = device THEN UNCHANGED <<favourites, kept>>
                                 ELSE Arrived(device, record.notes)
      /\ Read(device, record.through, read[device].since + 1)
      /\ SetLink(device, Compacting(end, read'[device].cursor, read'[device].since, rows'[device]))
      /\ Reached(device, end)
      /\ UNCHANGED <<holds, server, bounds>>

\* What was appended is no longer owed, and what is owed since is pushed.
HearAppended(device) ==
  LET ledger == Sent(rows[device], link[device].inFlight) IN
  /\ link[device].appended # 0
  /\ rows' = [rows EXCEPT ![device] = ledger]
  /\ SetLink(device, Pushed([link[device] EXCEPT !.inFlight = {}, !.appended = 0], ledger))
  /\ UNCHANGED <<catalogs, clock, read, caughtUp, server, bounds>>

\* Told of once every record has been sent; one by another owes the kinds an older build
\* would have let go of: not these.
HearCompacted(device) ==
  LET through == Head(link[device].notices)
      end == [link[device] EXCEPT !.notices = Tail(@)]
      mine == end.compacting = through
  IN  /\ link[device].notices # <<>> /\ HasRead(device)
      /\ Read(device, through, 0)
      /\ SetLink(device, IF mine THEN [end EXCEPT !.compacting = 0] ELSE Pushed(end, rows[device]))
      /\ UNCHANGED <<catalogs, kept, caughtUp, server, bounds>>

HearStale(device) ==
  /\ link[device].stale
  /\ SetLink(device, [link[device] EXCEPT !.compacting = 0, !.stale = FALSE])
  /\ UNCHANGED <<catalogs, kept, read, caughtUp, server, bounds>>

\* tell: a neighbour is told all that is held.
Tell(teller, device) ==
  /\ turns < MaxTurns /\ teller # device
  /\ Arrived(device, Whole(rows[teller]))
  /\ caughtUp' = [caughtUp EXCEPT ![device] = @ \cup {"neighbour"}]
  /\ turns' = turns + 1
  /\ UNCHANGED <<holds, read, link, server, edits>>

\* linked: a server that holds the space it read is one whose head is no less.
Connect(device) ==
  LET caught == read[device].cursor >= server.head
      end == [Down EXCEPT !.up = TRUE, !.caughtUp = caught, !.head = IF caught THEN 0 ELSE server.head]
  IN  /\ ~link[device].up /\ server.head >= read[device].cursor
      /\ SetLink(device, end) /\ Reached(device, end)
      /\ read' = [read EXCEPT ![device].space =
                    IF read[device].space = 0 THEN server.space ELSE @]
      /\ UNCHANGED <<catalogs, kept, server, bounds>>

\* space_made_anew: a head that is behind is that of another space.
FindAnew(device) ==
  /\ ~link[device].up /\ server.head < read[device].cursor
  /\ rows' = [rows EXCEPT ![device] = OweEverything(@)]
  /\ read' = [read EXCEPT ![device] = [cursor |-> 0, since |-> 0, space |-> server.space]]
  /\ UNCHANGED <<catalogs, clock, link, caughtUp, server, bounds>>

-----------------------------------------------------------------------------
(* What the server does.                                                   *)

\* append: a blob this device sent before and the log still holds is kept once.
Appended(from, notes) ==
  \/ server' = [server EXCEPT
       !.head = @ + 1,
       !.log = @ \cup {[from |-> from, notes |-> notes, through |-> server.head + 1]}]
  \/ /\ \E record \in server.log : record.from = from /\ record.notes = notes
     /\ UNCHANGED server

\* compact: the log up to there gives way to the snapshot.
Compacted(through, notes) ==
  server' = [server EXCEPT
    !.log = {record \in @ : record.through > through},
    !.snapshot = [through |-> through, notes |-> notes]]

Stale(through) == through <= server.snapshot.through \/ through > server.head

\* The server reads what a device said.
TakesOf(device, say) ==
  /\ link[device].says # <<>> /\ Head(link[device].says).say = say
  /\ UNCHANGED <<catalogs, kept, read, caughtUp, bounds>>
Took(device) == [link[device] EXCEPT !.says = Tail(@)]

TakeAppend(device) ==
  /\ TakesOf(device, "append")
  /\ Appended(device, Head(link[device].says).notes)
  /\ SetLink(device, [Took(device) EXCEPT !.appended = server'.head])

\* Everyone is told, the one that asked among them.
TakeCompact(device) ==
  LET asked == Head(link[device].says) IN
  /\ TakesOf(device, "compact") /\ ~Stale(asked.through)
  /\ Compacted(asked.through, asked.notes)
  /\ link' = [d \in Devices |->
       LET end == IF d = device THEN Took(d) ELSE link[d] IN
       IF end.up THEN [end EXCEPT !.notices = Append(@, asked.through)] ELSE end]

RefuseCompact(device) ==
  /\ TakesOf(device, "compact") /\ Stale(Head(link[device].says).through)
  /\ SetLink(device, [Took(device) EXCEPT !.stale = TRUE])
  /\ UNCHANGED server

-----------------------------------------------------------------------------
(* What goes wrong.                                                        *)

\* unlinked: what was said and is not yet taken is lost, and every answer.
Break(device) ==
  /\ turns < MaxTurns /\ link[device].up
  /\ SetLink(device, Down)
  /\ turns' = turns + 1
  /\ UNCHANGED <<catalogs, kept, read, caughtUp, server, edits>>

\* A device dies and starts over: what its ledger keeps is what it has.
Die(device) ==
  /\ turns < MaxTurns /\ caughtUp[device] # {}
  /\ SetLink(device, Down)
  /\ caughtUp' = [caughtUp EXCEPT ![device] = {}]
  /\ turns' = turns + 1
  /\ UNCHANGED <<catalogs, kept, read, server, edits>>

\* What may be reaching a device: the server's next, or what a neighbour tells.
Reaching(device) ==
  (IF SnapshotIsNext(device) THEN {server.snapshot.notes} ELSE {})
    \cup {record.notes : record \in {r \in RecordsPast(device) :
                                       RecordIsNext(device, r) /\ r.from # device}}
    \cup {Whole(rows[teller]) : teller \in Devices \ {device}}

\* A death once rows are committed and before the clock is kept: what was lost is of no
\* consequence where the wall has moved past it, and the clock is the old one where not.
DieBeforeTheClock(device, nanos) ==
  /\ turns < MaxTurns
  /\ \E last \in {nanos} \cup (IF WallMovesOn THEN {} ELSE {clock[device]}) :
       clock' = [clock EXCEPT ![device] = last]
  /\ SetLink(device, Down)
  /\ caughtUp' = [caughtUp EXCEPT ![device] = {}]
  /\ turns' = turns + 1
  /\ UNCHANGED <<holds, read, server, edits>>

DieWhileLooking(device) ==
  /\ MayLook(device) /\ Looks(device)
  /\ DieBeforeTheClock(device, LookedAt(device))

\* Some of the notes arrived, and the cursor has not passed them.
DieWhileHearing(device) ==
  \E told \in Reaching(device) : \E notes \in SUBSET told :
    /\ Arrives(device, notes)
    /\ \E nanos \in ArrivedAt(device, notes) : DieBeforeTheClock(device, nanos)

\* The space was untouched too long and is swept, or the server starts over.
Lose ==
  /\ turns < MaxTurns
  /\ server' = [NoSpace EXCEPT !.space = server.space + 1]
  /\ link' = [device \in Devices |-> Down]
  /\ turns' = turns + 1
  /\ UNCHANGED <<catalogs, kept, read, caughtUp, edits>>

-----------------------------------------------------------------------------
Init ==
  /\ holds \in HeldAtFirst
  /\ favourites = [device \in Devices |-> {}]
  /\ rows = [device \in Devices |-> [key \in Keys |-> NoRow]]
  /\ clock = [device \in Devices |-> 0]
  /\ read = [device \in Devices |-> [cursor |-> 0, since |-> 0, space |-> 0]]
  /\ link = [device \in Devices |-> Down]
  /\ caughtUp = [device \in Devices |-> {}]
  /\ server = NoSpace
  /\ edits = 0 /\ turns = 0

Hear(device) == \/ HearSnapshot(device) \/ HearRecord(device) \/ HearAppended(device)
                \/ HearCompacted(device) \/ HearStale(device)
Links(device) == Connect(device) \/ FindAnew(device)
Take(device) == TakeAppend(device) \/ TakeCompact(device) \/ RefuseCompact(device)

Dies(device) == Die(device) \/ DieWhileLooking(device) \/ DieWhileHearing(device)

\* What devices and the server do of themselves.
Works(device) == Look(device) \/ Hear(device) \/ Links(device) \/ Take(device)

Next ==
  \/ \E device \in Devices : Works(device) \/ Break(device) \/ Dies(device)
  \/ \E device \in Devices, key \in Keys : Edit(device, key) \/ Land(device, key)
  \/ \E teller, device \in Devices : Tell(teller, device)
  \/ Lose

\* Whoever can, looks, links, says, takes and hears.
Fairness == WF_vars(\E device \in Devices : Works(device))

Spec == Init /\ [][Next]_vars /\ Fairness

-----------------------------------------------------------------------------
(* Properties.                                                             *)

Stamps == [nanos : Nat, device : Nat]
AllRows == [favoured : BOOLEAN, here : BOOLEAN, stamp : Stamps, owed : BOOLEAN]
AllNotes == [key : Keys, favoured : BOOLEAN, stamp : Stamps]
AllSaid == [say : {"append", "compact"}, through : Nat, notes : SUBSET AllNotes]
AllRecords == [from : Devices, notes : SUBSET AllNotes, through : Nat]
AllLinks ==
  [up : BOOLEAN, head : Nat, caughtUp : BOOLEAN, says : Seq(AllSaid), inFlight : SUBSET AllNotes,
   appended : Nat, compacting : Nat, stale : BOOLEAN, notices : Seq(Nat)]
AllSpaces ==
  [head : Nat, log : SUBSET AllRecords, snapshot : [through : Nat, notes : SUBSET AllNotes],
   space : Nat]

\* What a device and the server keep is of its kind (ledger.rs, service.rs, store.rs).
TypeOK ==
  /\ favourites \in [Devices -> SUBSET Keys] /\ holds \in [Devices -> SUBSET Keys]
  /\ rows \in [Devices -> [Keys -> AllRows]]
  /\ clock \in [Devices -> Nat]
  /\ read \in [Devices -> [cursor : Nat, since : Nat, space : Nat]]
  /\ link \in [Devices -> AllLinks]
  /\ caughtUp \in [Devices -> SUBSET {"server", "neighbour"}]
  /\ server \in AllSpaces
  /\ edits \in Nat /\ turns \in Nat

\* A device that has read all the log holds, and has said all that changed.
AtRest(device) ==
  /\ link[device].up /\ link[device].says = <<>> /\ HasRead(device)
  /\ Owed(rows[device]) = {}
  /\ favourites[device] =
       {key \in holds[device] : rows[device][key].favoured /\ rows[device][key].here}

Agree(one, other) ==
  \A key \in Keys : Note(rows[one], key) = Note(rows[other], key)

\* Devices that rest agree: each knows the last word of every favourite.
RestedDevicesAgree ==
  \A one, other \in Devices : AtRest(one) /\ AtRest(other) => Agree(one, other)

\* Every device that read a space read the one the server holds.
OneSpaceRead == \A device \in Devices : read[device].space \in {0, server.space}

\* Two devices agree on a favourite, or a third still owes a word as late as either's: one
\* it set, or that a neighbour told it.
AgreeOrAreOwed(one, other) ==
  \A key \in Keys :
    \/ Note(rows[one], key) = Note(rows[other], key)
    \/ \E owing \in Devices \ {one, other} :
         /\ rows[owing][key].owed
         /\ \A device \in {one, other} : ~Later(rows[device][key].stamp, rows[owing][key].stamp)

\* Devices that rest agree on all that no other owes, once each device has found out what
\* the server lost.
RestedReadersAgree ==
  OneSpaceRead =>
    \A one, other \in Devices : AtRest(one) /\ AtRest(other) => AgreeOrAreOwed(one, other)

Said(end) == UNION {end.says[i].notes : i \in DOMAIN end.says}
Logged == UNION {record.notes : record \in server.log}

\* No word is forgotten: what a device knows is with the server, or owed by some device,
\* or a later word of it is.
NoWordIsForgotten ==
  OneSpaceRead =>
    \A device \in Devices : \A key \in {k \in Keys : Known(rows[device][k])} :
      \/ \E note \in server.snapshot.notes \cup Logged :
           note.key = key /\ ~Later(rows[device][key].stamp, note.stamp)
      \/ \E other \in Devices : /\ rows[other][key].owed
                                /\ ~Later(rows[device][key].stamp, rows[other][key].stamp)

\* Every note there is, in a ledger, on its way or with the server.
Notes ==
  Logged \cup server.snapshot.notes
    \cup UNION {Whole(rows[device]) \cup link[device].inFlight \cup Said(link[device]) :
                  device \in Devices}

\* One stamp is one word: no two notes of a recording that differ have one stamp.
OneWordAStamp ==
  \A one, other \in Notes : one.key = other.key /\ one.stamp = other.stamp => one = other

\* What a ledger knows only gives way to a later word.
RowsOnlyMoveOn ==
  [][\A device \in Devices, key \in Keys :
       Note(rows'[device], key) # Note(rows[device], key) =>
         Later(rows'[device][key].stamp, rows[device][key].stamp)]_vars

\* A favourite set by hand is undone only by a later word of another device, one that is
\* later than all this device knew where the ledger does not say of itself what the hand set
\* and no look had stamped it yet.
EditsStand ==
  [][\A device \in Devices, key \in Keys :
       edits' = edits /\ (key \in favourites[device]) # (key \in favourites'[device]) =>
         LET row == rows[device][key]
             word == rows'[device][key].stamp
             marked == key \in favourites[device]
             unlooked == marked # row.here /\ marked # row.favoured
         IN  \/ key \in TakenUp(device) \cap favourites'[device]
             \/ /\ Later(word, row.stamp) /\ word.device # device
                /\ unlooked => Known(row) /\ word.nanos > clock[device]]_vars

\* Once nothing is edited, lost or broken any more, every device comes to rest and they
\* agree for good, unless one takes the space the server holds for the one it read.
DevicesComeToAgree ==
  <>[](OneSpaceRead => \A one, other \in Devices : AtRest(one) /\ Agree(one, other))

=============================================================================
