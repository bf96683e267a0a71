# Resonate, specified

TLA+ models of Resonate, a music player written in Rust (`src/crates/`). The models are kept beside
the code: each module names the file it is translated from, each definition keeps the name of the
function it stands for where TLA+ allows it, and `PROJECT.json` maps every definition to its lines.

- [What the system is](#what-the-system-is): components, state, operations, hard behaviours
- [What is modelled](#what-is-modelled): modules, and how they correspond to the code
- [What is checked](#what-is-checked): runs, bounds, fairness
- [What the runs found](#what-the-runs-found)
- [What is proved](#what-is-proved)
- [What is not modelled](#what-is-not-modelled), and [the plan](#the-plan)

Run everything from this directory: `tlc -workers 2 -config MCRingSounds.cfg MCRing` checks one
model, `tlapm RingProofs.tla` one module's proofs; the others are `RingSpliceProofs`,
`LedgerProofs`, `LedgerReachProofs`, `ConvergenceProofs`, `JournalProofs`, `QueueLists` and `QueueProofs`.

## What the system is

Resonate plays local and streamed music through a graph (PipeWire, WASAPI, a cast device), keeps a
library in SQLite, and keeps several devices in step: their catalogs, their shared playlists, and
the song a party listens to. One process holds these parts.

| Component | State it keeps | Operations | How it interacts | Correct when |
|---|---|---|---|---|
| **Ring** `resonate-engine/src/ring.rs` | a lock-free queue of frames; the atomics of a seek, a splice, a fade, a stamp, a hold | write, finish, discard, splice, fade in and out, lead in; the callback's pull | written by the engine thread, read by the graph's real-time callback; nothing blocks | every frame is heard once and in order; nothing rendered before a seek is heard after it; what stops is faded first |
| **Engine transport** `engine.rs`, `player.rs`, `command.rs`, `state.rs` | the track, its output, boundaries, the playback state | some forty commands; a loop that renders, answers and publishes | commands over a channel; state published under locks; opens codecs and sinks | a command always leaves a stream that can play on, and what is shown is what is heard |
| **Splicing** `engine/splicing.rs`, `engine/arms.rs` | two render arms | render the tail of the ring again under new settings | through the ring | the change is heard soon, with no hole and no repeat |
| **Queue** `queue.rs` | rows in order, rows played next, the unshuffled order, a seat, repeat, shuffle, two stamps | load, restore, insert, remove, move, reorder, shuffle, repeat, advance, retreat, jump, relocate | owned by the engine thread, published as a view when its revision moves | no row is lost or played out of turn; what is predicted is what plays |
| **Kept queue** `kept.rs`, `resonate-library/src/resumed.rs`, `resonate-core/src/resume.rs` | what the last look saw; the resume tables | look once a second; restore at the start; rows lost | the interface looks, the library stores, organising rewrites underneath | a run that was cut comes back as it stood |
| **Zones and lockstep** `zones.rs`, `lockstep.rs`, `seat.rs`, `lending.rs` | players by zone, the device each holds | hand over, nudge, keep in step | several engines, one device | one bit-perfect holder to a device; two players in step stay so |
| **Gapless and sleep** `heard.rs`, `sleep.rs`, `turns.rs`, `pipeline.rs`, `streaming.rs`, `tap.rs` | boundaries rendered and not yet heard | cross a boundary, take it back, sleep at an end | between queue and ring | the track shown is the one heard, not the one rendered |
| **Ledger** `resonate-sync/src/ledger.rs`, `change.rs`, `merge.rs` | the last word of everything a listener keeps, each with its stamp; what is owed; how far the log was read | look, arrive, sent, snapshot, a space made anew | looks at the catalog and writes it; said and heard by the sync service | devices that have read the same words hold the same catalog, and none is forgotten |
| **Sync service** `service.rs`, `peer.rs`, `relay.rs`, `remote.rs`, ... | a link to the server, neighbours told, the append in flight, whether it caught up | link, push, compact, hear, tell | QUIC between devices, a relay between networks | what is owed arrives in the end, across links that break |
| **Shared playlists** `resonate-sync/src/shared/` | of each list: its rows, each with a place and a stamp; what is owed; how far the records were heard; what its copy in the library showed last | look, apply, visit, push, compact, write the copy | edits are read back from the library's playlist, which is written over with what was heard; visits to the sync server | replicas converge, the copy shows the list, and an edit is not lost |
| **Party** `resonate-sync/src/party/` | who hosts, a clock estimate, what is ahead | host, follow, leave, pass on | over the sync service, into the engine | followers hear what the host hears |
| **Sync server** `resonate-server` | by space: a log of sealed changes, a snapshot | append, send, compact, sweep | devices | what is compacted is still delivered |
| **Edit journal** `resonate-codec/src/journal.rs`, `overlay.rs`, `insert.rs` | a record beside a track of what a write is about to change | keep, land, take back, mend | tag writers; a scan mends what was left | a crash leaves the old track, the new one, or a record from which one of them is had |
| **Vault** `resonate-vault` | imported files by content | import, validate, publish | library, server | only what was validated is published |
| **Library** `resonate-library` | SQLite: tracks, playlists, kept places | scan, organise, query | everything above | files and rows agree |
| **Fetching and providers** `resonate-fetch`, `resonate-providers` | a partial download, racing sources | range, resume, race | the vault, the engine | a resumed file is whole |
| **Formats** `resonate-codec` | none | decode, encode, write tags | engine, library | bytes |
| **Outputs** `resonate-pipewire`, `resonate-wasapi`, `resonate-audio` | a stream | open, pull, lose a device | calls the ring's callback | device APIs |
| **Signal processing** `resonate-dsp`, `resonate-analysis`, `resonate-eq` | filter state | process | engine | numbers |
| **Online, lyrics, listening, casting, remote control** | sessions | ask, send | services outside | protocols |
| **Front ends** `resonate`, `resonate-ui`, `resonate-mobile` | windows, the command line | commands | the player | presentation |

The hard behaviours, and where each bites, are the `hazards` of `PROJECT.json`. In short: the engine
and the graph's callback interleave at every atomic of the ring; seeks, splices, pauses and ends
overlap; the queue is edited in long sequences by arithmetic on positions counted in several lists;
the next track is rendered before the one playing ends; the queue is kept piecemeal while files
move underneath; changes reach devices late, twice and out of order; what people did to a shared playlist is read back
from a copy that the same service writes over; a tag written in place may be cut at any write.

## What is modelled

| Module | Of | Extends |
|---|---|---|
| `Ring` | `ring.rs`, and the handlers of `engine.rs` and `engine/splicing.rs` that drive it | |
| `RingProofs` | theorems about `Ring`: types and seeks | `Ring` |
| `RingSpliceProofs` | theorems about `Ring`: the level, splices, the room they take, and the order frames are heard in | `RingProofs` |
| `Queue` | `queue.rs`, `Span::landing`, and the arms of `Engine::apply` that call it | |
| `QueueLists` | facts about the lists a queue is made of: joined, cut, spliced, picked from, shuffled | `Queue` |
| `QueueProofs` | theorems about `Queue`: its lists and stamps, what it shows, and the row that is heard | `QueueLists` |
| `Resumed` | `resumed.rs`: the tables a queue leaves, and what is left of them once rows are lost | `Queue` |
| `Keeping` | `kept.rs`, the resume tables of `db.rs`, `files_moved`, `set_resume` | `Resumed` |
| `Handing` | the loop and commands of `engine.rs` by which one row follows another, over an output kept small | instantiates `Queue` |
| `Ledger` | `ledger.rs` and `service.rs` of `resonate-sync`, `store.rs` and `serve.rs` of `resonate-server`, for favourites | |
| `LedgerProofs` | theorems about `Ledger`: types, stamps and rows | `Ledger` |
| `LedgerReachProofs` | theorems about `Ledger`: no word is forgotten, devices at rest agree, and what may undo a favourite set by hand | `LedgerProofs` |
| `SharedList` | `op.rs`, `place.rs` and `diff.rs` of `resonate-sync/src/shared`: operators | |
| `Shared` | `service.rs` there, and the server that numbers what members say | `SharedList` |
| `Convergence` | what the operations of `op.rs` promise, heard in any order and any number of times | `SharedList` |
| `ConvergenceProofs` | theorems about `Convergence` | `Convergence` |
| `Retag` | what a tag written over a track promises, in three variables | |
| `Journal` | `journal.rs`, `overlay.rs` and `insert.rs` of `resonate-codec`, shown to implement `Retag` | instantiates `Retag` |
| `JournalProofs` | theorems about `Journal`: nothing torn, the promise, other programs' pages | `Journal` |
| `MCRing`, `MCQueue`, `MCKeeping`, `MCHanding`, `MCLedger`, `MCShared`, `MCJournal` | small instances for TLC | the module each is named for (`MCQueue`: `Resumed`) |

A definition headed "Altered:" is not part of the system. It states a definition with a plausible
mistake in it, and is there to show which property would notice.

### Ring

Two actors, `Producer` (the engine thread) and `Callback` (the graph's thread), share the queue of
frames `ring` and the atomics. A frame is the pair of the seek it was rendered after (`epoch`) and
its place in the song since (`plays`); a sample's value does not matter to who hears what when.

- The variables are the code's: `requested` and `applied` are `Discard`, `asked`, `spliceAt`,
  `spliceTo` and `taken` the atomics of `Splice`, `silenced`, `over`, `quiet`, `whole` and `lead`
  the `Fader`; `written`, `splicing`, `splicedAway` are the producer's fields, `seen`,
  `splicesSeen`, `pending`, `level`, `read`, `silent` the consumer's. `heard`, `inOrder`,
  `surplus` and `amid` are history: the frame heard last and whether all came in order; the longest stale run
  the engine took for room while it was being passed over; whether `whole` was loaded while a seek waited
  or a pull hushed.
- A producer operation is one action, except where the callback can see between two of its stores:
  a splice is `BeginSplice`, `WriteSpliced`, `Splice`, fading in is `FadeIn`, `FadedIn`, and a fade towards
  sleep is `AskWhetherAudible`, which loads `whole`, and then `FadeTowardsSleep` or `NotAudible`, by the seeks
  answered at the second load of `is_audible`.
- A pull is a run of actions: `Pull` looks for a splice; `FadeBeforeTheDiscard` or `NothingToFade`
  looks for a seek; `Take` and `PassOver` fade out before one; `Drain` and `AnswerTheDiscard` apply
  it; `Held`, `LeadIn`, `Refilling` hold back; `Hush`, `Sound`, `Take`, `PassOver`, `TakenWhole`,
  `GoQuiet` make the sound; `EndPull` stores `whole`. `pulling` is where the callback stands. `PassOver` commits
  the head of the ring and `TellItIsPassed` stores `taken`: a write in between takes the stale run away
  from what is held a second time, and overfills the capacity by it.
- An action is the run of code between two such accesses, but some still take several together, each
  because the other orders lead nowhere new: `free_frames` counts the ring and loads `taken`, then counts the
  ring again (the callback only takes frames out, so a later count only writes more, as a later `Write` does);
  `splice_point` counts the ring and loads `pulled`, which moves where a splice begins by no more than one
  pull; `Pull` stores `pulled` and loads what was asked; `AnswerTheDiscard` stores `taken`,
  `whole` and `applied`, of which the engine acts on the last; `fade_out` stores `over` and then
  `silenced`, which is what the callback loads first; `fade_toward_sleep` loads `quiet` with `whole`.
- The level of a fade is counted in `Whole` steps instead of being a float between zero and one.
- Two premises are constants, so that a run can do without them. `RendersInTime`: a splice is
  published before the graph has read past the old frames, which `SPLICED_AHEAD_AT_LEAST` and
  `2 * pulled` are there for and nothing enforces. `GraphPulls`: an active stream is pulled and
  hears a fade out within `quiet_within`; without it a stream may stand down at any time.

### Queue

`queue` is the `Queue` of the engine thread, and `shown` the view `publish_queue` last published. An
operation of `queue.rs` is an operator from a queue to the queue it leaves, or to the set of those
it may leave where it shuffles. An action applies one operator and publishes, as a command does.

- A row is the place it was loaded at, what it plays, and what it was stamped as: relocating a row
  changes what it plays and leaves its stamp.
- The wrapping sum of row hashes is the bag of rows hashed, so two stamps agree when the rows do.
- The order rows stand in unshuffled is a sequence; the labels `Standing` spaces and respaces so as
  to insert into it are left out, and so are the ids minted for rows.
- A shuffle is any permutation; `ReshuffleAfterAPass` excludes those that open on the last row.

### Resumed

Operators only. `ResumptionOf` is what the tables hold of a queue, `WhatIsLeft` what `Kept::resumed` makes of
them where some rows name nothing openable any more: the order, the row playing and the span of rows
played next are renumbered around those lost. The run `queue` asks `TheRestStand` of every queue it
reaches and every loss but that of all rows.

### Keeping

Adds to `Resumed` the resume tables, what `Keeping` saw last, the setting, the files there are, and the
moves the engine has not been told of. `Keep` is a look by `keep_the_queue` together with the write
it asks for; `Restart` cuts a run wherever it is and restores what is left of the tables into a new queue;
`FilesMoved` is a batch of an organising run, which renames files and rewrites the tables in one
transaction; `TellWhereFilesWent` is the `Command::Relocate` sent when the run is done; `SetResume`
turns keeping off, which empties the tables, and on. `TellsAtOnce` makes the engine hear of a move
before anything else happens, which the code does not; see what was met below.

### Handing

Three actors: the engine, the listener who asks, and the graph that pulls. `engine` is the `Engine`:
its queue (the record `Queue` is about), the row being decoded (`track`), the row being opened
(`opening`), the row opened ahead (`ahead`), the boundaries not yet heard, the output, what it waits
for, and the sleep timer. `heard` is what the listener has heard.

- A handler of the code (`pass_the_boundary`, `take_the_boundary_back`, `skip`, `seek`, `rebind`,
  `fail`, `hand_on_to`, ...) is an operator from an engine to the engine it leaves; an action applies
  one, with every handler it calls. So `Settle` is `skip`, which passes what boundaries there are,
  moves the queue on and opens what follows, and `CommandSeek` takes the boundary back first.
- The loop's own order (commands, opening, boundaries, filling, ...) is not kept: its handlers run in
  any order, which includes the code's.
- The output is `Ring` seen from far off: frames written and unread, frames the chain holds back, and
  whether a seek is unanswered. Nothing fades: an output replaced is not heard again.
- A boundary keeps how many frames the graph has yet to read before it (`away`) instead of the count of
  frames written, which grows without end.
- `said` are the events of the last step. `jumped`, `slipped`, `heard` are history: the listener was
  moved, by hand or by an error; the position was read where the code's arithmetic steps back; and
  what was heard to its end and not yet announced.

### Ledger

Devices of one listener, each with a catalog (`favourites`, and the recordings it `holds`), a ledger of
favourites (`rows`, with the `clock` kept beside it and how far the log was `read`), a `link`, and a
note of whom it caught up with; and one `server` that holds the space's log, snapshot and head.

- `Look` is `look` and the push after it; `Tell`, `HearSnapshot` and `HearRecord` are `arrived`, which first
  looks at what is held, then takes every note whose stamp is later, then keeps the clock
  (`Arrived`). `Looked`, `Settled`, `Taken`, `Favoured` are `look_at_favourites`, `settle` and
  `favourite_arrived`, row by row; `Stamped` is `Clock::now` asked for each key in turn.
- A link holds both ends of a connection: what was said and not yet taken (`says`), the append that
  waits for its answer, the head it was welcomed with, the compaction it asked for, the notices.
  What is on its way *to* a device is not kept: frames come in order, so it is what the server has past
  what the device read. Where a compaction overtakes the reader, it is the snapshot that is next.
- `TakeAppend`, `TakeCompact`, `RefuseCompact` are the server's: a blob sent again is kept once if the
  log still holds it (either way is allowed here, since sealing decides), a snapshot lets go of the
  log behind it, all are told.
- A look and an arrival commit their rows first and keep the clock last. `Looks` and `Arrives` are the rows,
  `LookedAt` and `ArrivedAt` the instants the clock came to; `DieWhileLooking` and `DieWhileHearing` are a death
  between the two, the latter after any of the notes that were arriving and before the cursor passed them. Then
  the device starts from the clock it kept before. That is of no consequence once its wall clock is past
  the stamps it lost, which `WallMovesOn` says it is: the premise of the passing run and of the theorems, and
  what "met while modelling" says of favourites. The death is not put between the rows of favourites and the other tables of a
  look, which are not modelled, between what `settle` wrote and the look after it, nor within
  `favourite_arrived` between the catalog's write and the row's.
- What goes wrong: `Break` loses what was said and not taken, `Die` starts a device over on what it
  keeps, `Lose` has the server start over, or sweep a space untouched for `--idle-days`.
- Wall clocks stand still at different instants (`Wall`): every word but the first of a device is
  then stamped by the clock's own counting, which is the case a running wall clock hides.

### Shared, and SharedList

A list is a function from the ids of rows to what is known of each: its song, its place, the stamp of
the place, the stamp of its removal. `Applied`, `AsOps`, `Rows` are `SharedList::apply`, `as_ops` and `rows`;
`Between`, `After`, `Ahead` are `Place`, over `Base` values of a byte; `EditsSeen` and `WrittenOrder` are the
same of `diff.rs`, and `Paired`, `LongestRising`, `PlacedAfter` what they call. Ids are minted in rising
order instead of at random, so that rows at one place stand in the order they were minted; which
of several longest rising runs is left in place is any of them.

A row of a copy whose track a rescan no longer finds stands without a name (`entries_of`), `NoSong` here. `EditsSeen`
pairs and orders only rows that are named (`Named`), and says no removal while some row is not (`Gone`).

Each member of `Shared` has a `copy` in its library, some songs of which may be `Absent` (`Listed` is how it reads), the list as its service holds it (`mem`: `Kept`), and
as its store does (`kept`). `Edit` is a hand, in the library, and `Rescan` loses or finds a song there. `Look` is `look` and `edited`; `Reach` begins
`visited` where `exchange` finds cause (`Needed`). A visit is then a step for each frame: `HearSnapshot`
and `HearRecord` until the head `Welcome` named, `Push` and `HearAppended`, `Compact` and
`HearCompacted`, `Materialise` the copy, `KeepList`. The server takes a frame as it is sent, and a member
hears one record at a time, which is finer than the frames of the code; the answer to what was
sent is a step of its own, so that a visit may break in between. `Break` ends a visit with what was
heard so far in memory; `Die` goes back to what is kept, `as_ops` read back by `apply`, with a clock that
saw nothing.

`Convergence` looks at the same operations without the visits: readers say operations and hear any that were
said, one at a time (`Apply` is `SharedList::apply`). It assumes that an id is minted for one song and that
one stamp puts a row in one place (`Consistent`), which is what `EntryId`s and `Clock` are for; without
it the order would tell.

`meant`, `used`, `tied` and `unnamed` are history: the songs the hands leave on the list, those that were ever on
it, whether two rows were ever at one place and whether a look met a row without a track. `Mishaps` names the
schedules under which the code parts the copies. Each but `rescan` is left out of the passing run, by a
premise stated at the action it guards; finding 4 and "met while modelling" say what happens without it.
Rescans are let in, and what they part is a premise of the properties (`unnamed`):

| In `Mishaps` | What may happen |
|---|---|
| `overlap` | another member's record, heard for the first time, comes between `Append` and its answer |
| `edit_meanwhile` | a hand edits the copy while a visit is under way |
| `break_after_hearing` | a visit that heard something breaks before the copy is written |
| `death_while_writing` | the program ends between the copy written and the list kept |
| `slow_clock` | it starts again with a wall clock behind a stamp the list bears |
| `rescan` | a rescan no longer finds a song of a library, or finds it again (the passing run lets it) |

### Journal, and Retag

A `track` is a sequence of pages, the `disk` the set of files a power cut may leave (parted where pages
were moved, since what was written back before a move and after it cannot mix). `left` are the records
beside the track, `filed` those the folder holds on disk. Two actors, a writer and a mender, each go
through a job: a list of calls (`Laid`, `Lengthened`, `Restored`, `TakenBack`, `Mending`, ...) of
which `Step` makes one. Any call may fail, which takes the job back or leaves the record; `Die` loses
the job; `PowerCut` picks a file from `disk` and brings back any record whose removal was not synced.
`Meddle` is another program.

- Three ways of landing a tag: over its own pages, with room opened at the head of the file
  (`fallocate`), and by a whole copy of what moves.
- `Retag` is the abstract specification: mended, the track is what stood or what was meant, and once a
  write has landed it stays so. `Journal` implements it under `Stands`, what the track comes to once
  mended, while a record was kept and nobody meddled.
- Premises, as constants. `Bare`: a folder may refuse the record of a write over pages, which is then
  promised nothing (`last.kept`). `WritesBack`: what one job left unsynced is on disk before the
  next begins; a mend that finds the track whole removes the record without syncing. `TornWays`: the
  ways a power cut may leave a page half written; not "whole", whose mend compares pages it copied.
  `ShrinksInPlace`: left out of the passing run because of finding 2.

## What is checked

| Run | Question | States |
|---|---|---|
| `ring_sounds` | Does a seek, two splices, a lead in and a pause or sleep fade, in any interleaving, ever let a frame be heard stale, twice, out of order or not at all? Do both sides count alike, is the capacity exceeded by more than the run counted twice, and is what was found whole still so when it is acted on? | 7,694,462 |
| `ring_live` | Is a seek answered, does what it silenced sound again, with a tail shorter than the mark too, does a fade out end, does a paused stream stand down? | 86,667 |
| `queue` | After any commands on any resumed queue: do seat, stamps, unshuffled order and view agree with the rows, and is what is moved, removed, predicted and drawn what it is by definition? Whatever rows are lost before the next run, do the rest come back as they stood? | 20,004 |
| `keeping` | Does a run that is cut come back as it stood, whatever was played, edited or filed elsewhere between two looks? | 157,308 |
| `handing` | Whatever is asked while rows are handed on ahead of what is heard: is the row shown the row heard, does the queue move on where its next row enters, is nothing left out or heard over, is each row finished once and in turn, does a timer end what it was set to end? | 425,871 |
| `journal` | Tags are written over a track, calls fail, programs die, power goes and records come back, another program edits: is `Retag` kept, does what others wrote stand, is what was left mended? | 751,935 |
| `ledger` | Favourites are edited on two devices of unlike clocks while links break, devices die, between the rows and the clock too, neighbours tell each other, songs land, the log is compacted and the space is lost: do devices at rest agree, is no word forgotten, is a stamp one word, do rows only move on, do hand edits stand, and do devices come to rest? | 500,325 |
| `shared` | Two people put songs in, take them out and move them while visits interleave and break, programs die, the log is compacted and rescans lose songs and find them again, and one of them lacks a song: do rested members hold one list, with every edit in it, does each copy show its list, is no row removed that no hand took out, and does everyone come to rest? | 407,681 |
| `handing_fails`, `journal_shrinks`, `ledger_lost`, `shared_missed` | violated: see below | |

The properties, most of which take several steps of two actors to break:

- `StaleNeverHeard`, `HeardInOrder`, `SpliceLandsWhole`: what is heard. `ReadAgrees`,
  `HeldWithinCapacity`, `AudibleMeansWhole`: what the engine believes of a ring it cannot look into. The last two
  say how far it may be wrong: by the one stale run counted twice, and by a seek that waited at the first load.
- `SeatStands`, `StampsAgree`, `ShownIsWhatStands`, `ListIsWhatUnshufflingDraws`: four things kept
  edit by edit beside the rows, each of which could drift from them. `MoveIsARebuild` compares the
  in-place splicing of `move_rows` with lifting the rows out of the drawn list and splitting it
  again, which the code did before (`moved_by_rebuilding` in its tests). `FollowsIsWhatPlays` compares
  the reckoning of what follows, so many rows ahead, with advancing that often. `RemovalHandsOn`,
  `RowsAreWhereTheyAreDrawn`, `EditsKeepWhatIsHeard` say what is heard after an edit.
- `TheRowShownIsTheRowHeard`, `TheBoundaryIsWhereTheRowEnters`, `FinishedOnceHeard`: the queue, the events
  and the ring are moved by different handlers, and have to tell one story. `HeardInTurn` follows
  single frames across boundaries, boundaries taken back, outputs replaced and devices lost.
  It lets the listener be moved (`jumped`); lets the frames a chain held be heard again after a
  rebinding; and does not hold where the position steps back (`slipped`), which the code allows in two
  places: a boundary taken back after the graph has read past it, and a rebinding under a chain that
  is not full, from which a full chain's latency is taken all the same. `SleepsWhenDue` is
  the timer's promise at every end it can meet: of a row, of a queue, of a queue that wraps.
- `KeptIsWhatStands` says that the pieces written look by look are one queue, by restoring them; `TheRestStand`
  that `Kept::resumed` and `Queue::restore`, in two crates, agree on where rows stand once some are gone.
- `RestedReadersAgree` is what replication is for, and `DevicesComeToAgree` that it gets there: both in any
  space all devices read (`OneSpaceRead`; finding 3 is what happens otherwise), and the first but for a word a
  third device still owes. `NoWordIsForgotten` relates
  what a device knows to the server's log and to what all devices owe: it breaks if an answer clears a word
  edited after it was sent. `OneWordAStamp` is what makes "the later stamp wins" a rule at all.
  `EditsStand` says when a favourite set by hand may be undone: by a later word of another device, and
  where no look had stamped it yet and the ledger did not say the same of itself, by one later than all
  this device knew.
- `RestedMembersAgree`: rows added, moved and removed come late, twice, in records and in snapshots, and make one
  list all the same. `EditsAreKept`: what hands did reaches everyone, though it is never told but read
  back from copies that lack songs and are written over. `CopyShowsTheList` relates three orders:
  that of a copy, that of its rows and that of their places; where two rows were put at one place by
  two people nothing fits between them, and it asks nothing (`tied`). Where rescans lose songs and
  find them again `EditsAreKept` still says, of every state, that what a copy does not show for want of a track is
  not taken for what a hand took out (`OnlyHandsRemove`).
- `KeepsItsPromise` (refinement of `Retag`), `OthersStand`, `LeftIsMended`: what a tag write promises the
  listener, other programs, and the next scan. `OthersStand` excepts a page of another program's that
  is as the write had found it, which the code cannot tell from one nobody has touched.

### Bounds, and why they are enough

- **Ring.** `MaxWritten`, `MaxDiscards`, `MaxSplices` and `MaxFades` bound what is asked for.
  Capacity 4 (a room of 8, primed at 2), pulls of 1 and 2 frames and 7 frames written let a splice be reached
  exactly, late, in the middle of a pull or be discarded, and the capacity be overfilled: one frame read, one
  stale, four held and one more beside them. Two splices let the second begin on top of
  the first; one seek separates two epochs, and a second one waits for the first to be answered, so
  it meets nothing the first did not. Fades of two steps have a level that is neither silent nor
  whole. `ring_live` keeps only what liveness needs, and no splice: three frames over the same ring, so that
  what is left after a seek may be one frame, fewer than the mark.
- **Queue.** `MaxPlaces` is the number of rows that may have joined since the last load, `MaxArrivals`
  the rows one insert brings. Four rows hold a seat with rows before it, rows played next and rows
  after it, which is every boundary that `move_rows` and `landing` count past; the queue of an
  earlier run may be any (`Resumes`), so no state is missed for being far from a load. One item is
  enough: rows are told apart by place. Every loss from such a queue is tried. `CHECK_DEADLOCK` is
  off where a queue may run out of places.
- **Keeping.** Two rows, two files and one move from one name to the other: the shortest in which
  the tables hold a row of each name.
- **Handing.** Rows of three frames over a ring of two with one in the chain: a row may be handed on to
  while frames of the one before are in the ring and the chain, and two rows are ahead only when
  the middle one is nearly spent, so boundaries pend singly and together (`TurnsWaiting` is
  `TURNS_WAITING_AT_MOST` made small). The graph overruns a boundary by one frame (`Overrun`), which
  is enough to come after it. The lists hold rows that render alike, unalike and on another stream,
  and one that will not open; the item whose decoding fails does so at any frame. Three asks, the load
  among them, put any two commands or losses against each other at any point of the playing; the run
  also holds with four over rows of two frames. Seeks land short of the end.
  `CHECK_DEADLOCK` is off: a queue that is over, with nothing left to ask, stops.
- **Ledger.** Two devices, one recording, held by both or by one, and unlike clocks. Notes of two
  recordings never meet but in the clock that stamps them, which the proofs take for any number. Three
  edits let each device say a word and one take it back; one turn is one break, death, landing,
  neighbour told or space lost, so each meets every state of the rest. `COMPACT_PAST_RECORDS` is 2, so
  that both devices compact. Larger instances (two turns; two recordings; three edits and two turns
  without liveness) were run while the model was made and hold as well.
- **Shared.** Two members, a list of two songs one of which the second lacks, a first member whose wall clock is
  ahead, so that its stamps win where the other's came later; four songs and rows in all. Two troubles: two
  edits of any kind by anyone, or an edit and a break or death at any point, or two of those.
  `CompactPast` (`COMPACT_PAST_RECORDS`) is 2, so that both compact and read snapshots; `Base` 4 and `Width` 3
  make places grow past their width. One run of three troubles, two edits and a break or a death (about four
  million states, without liveness), was made while the model was, and holds as well. A song lost and
  a song found are a trouble each, so one is lost and found again, or lost beside an edit, a break or a death.
- **Journal.** Tracks of up to three pages over two values: one page kept, one changed, one added or
  taken away. Two writes put one on top of what the last left; two faults put a fault into the mend of
  the first. With two edits of another program (two million states) it holds as well.

### Fairness

- **Ring.** The engine's loop runs (`Write`, `Finish`, the two halves of a splice, fading in once begun,
  standing down), the graph calls back an active stream (`Pull`), and a callback once begun returns
  (`Callback`): all weakly fair, since each stays possible until it is done. Commands are never
  fair: no property rests on a listener doing anything. The liveness properties hold with `GraphPulls`
  set; a graph that stops pulling is answered by rebuilding the stream (`watch_discard`), which is not
  modelled yet.
- **Ledger.** One weak fairness: while some device or the server can look, link, say, take or hear, some
  one does. The service's loop dials again after every failure and looks once it may; the server
  answers every frame. Edits, breaks, deaths and losses are never fair, and are bounded.
- **Shared.** Each member's service takes a step again and again while it has one to take: it polls the server and looks
  at its copy whether or not anything failed before, and the server answers each frame. This is
  `WF_vars(Proceed(m))`, with what enables it written out (`CanProceed`), since TLC would enumerate every
  outcome of a look to find that one is enabled. Hands, breaks and deaths are never fair, and bounded.
- **Journal.** A job that was begun makes its next call, and what was left is mended by the next scan.

## What the runs found

1. **A row that fails ahead of time cuts the one before it** (`handing_fails`,
   `AnnouncedAsTheGraphReachesIt`). `fail` makes the row being decoded the one heard by passing every
   boundary. The row really heard is announced as finished before its end was read, and the frames left
   of it go with the output when the queue skips on.
2. **A write that shrinks a track can be left torn** (`journal_shrinks`, `NothingTorn`). Taking it
   back gives the track its length first and its bytes after. Cut short in between, the tail is zeros,
   which are neither what stood nor what was meant, so the mend takes them for another program's edit
   and removes the record that could have put them right.
3. **A space the server lost may be taken for the one it held** (`ledger_lost`, `RestedDevicesAgree`).
   A space is told by its head alone. Once another device has filled the new space as far as this
   one had read the old, this one never says again what it knows and never reads what was filled in.
4. **A record heard while pushing is lost** (`shared_missed`, `EditsAreKept`). `pushed`, waiting for the answer to
   `Append`, moves the cursor over records without opening them. What another member said there is
   never applied here, and never asked for again.

Met while modelling. The first three groups are steps the models have, and show when a premise is let go of;
the last are read from the code.

Of the ring and the kept queue:

- `pulled` looks for a seek, finds none to fade for, and calls `apply_discard`, which looks again: a seek asked
  for in between drains a ring at full level. A callback that loaded `silenced` may store `quiet` after
  `fade_in` cleared both, and the next pause then cuts. Both are clicks, a few instructions wide.
- `is_audible` loads `whole` and only then asks whether a seek waits (crates/resonate-engine/src/ring.rs:401). With one
  waiting at the first load, the callback may drain the ring, take `whole` away and answer before the second. A
  fade towards sleep then silences a ring of which the graph has heard nothing: it goes quiet at once and what was
  sought to is not played. A few instructions wide; `AudibleMeansWhole` fails without `amid`.
- Organising rewrites the kept rows batch by batch and tells the engine at the end. A look in between that
  writes the whole queue puts the old places back, and relocating then moves the revision and not the
  stamp, so only the order is written again. `KeptIsWhatStands` fails with `TellsAtOnce` FALSE.

Of favourites:

- A look commits its rows before it keeps the clock (crates/resonate-sync/src/ledger.rs:1505, 638; `arrived` likewise,
  1887). A device that dies in between starts from the clock it kept before (486) and not from the stamps its rows
  bear. Its wall clock behind them, as where it follows a device whose clock is ahead, it stamps its next word as
  it had stamped the last. `OneWordAStamp` fails with `WallMovesOn` FALSE, over two edits.
- A favourite that was passed on before its song was held is in the ledger and not in the catalog until the
  next look takes it up. Set by hand in between, it is no news to the ledger: `look_at_favourites` marks the
  row as here and gives it no stamp (`newly` is false). A removal another device made after the word passed
  on then undoes what the hand set, though the hand was later and the removal was not known here.

Of shared playlists, each by a name in `Mishaps` but the third, and the last two by the premise `unnamed`:

- `materialised` writes the copy over with the list as it stands, so an edit made by hand since the look
  before the visit is lost (`edit_meanwhile`).
- A visit that heard something and broke leaves the list ahead of the copy. The next visit hears nothing more, so
  `changed` stays false and the copy is not written until someone says something else
  (`break_after_hearing`).
- Two members who add a row at one spot at once give both rows one place. `Place::between` finds nothing between
  equal places, and a row put between the two by hand comes after both (`tied`).
- A death between the copy written and the list kept leaves rows in the copy that the list, on the
  next start, hears of again: they are taken for rows put in by hand, and doubled (`death_while_writing`).
- The clock starts anew from nothing, not from the stamps the list bears: with a wall clock that was set
  back, a row moved after the start is stamped before the place it had (`slow_clock`, three troubles).
- While some row of a copy is unnamed `edits_seen` says no removal (crates/resonate-sync/src/shared/diff.rs:44), and
  `edited` takes the copy as seen all the same: a row a hand took out beside it stays on the list for good.
- The look that finds a row unnamed forgets that the copy shows it (crates/resonate-sync/src/shared/service.rs:730); the
  look after its song was found again takes it for one put in by hand, and the list has it twice.

Read, and not stepped through by a model:

- Resuming turned off and on over one queue empties the tables and not what `Keeping` saw last, so the queue
  is taken to be kept until it changes. A look is recorded before it is written, so a write that fails,
  or is let go while a party is followed, is not made up for.
- `OWE_EVERYTHING`, by which a space made anew is owed all a device knows, does not name `shares`.
- A tag write begun over a record whose mend failed goes on over it (crates/resonate-codec/src/writing.rs:1285,
  crates/resonate-codec/src/journal.rs:969); `Begin` waits until nothing is left to mend.
- A seek that is refused has already taken the boundary back, so the ring plays the row that was to follow
  and then plays it again; `position` takes the nominal latency off a chain that is fresh or drained; a
  timer to the end of the track is still set after the queue ended at a boundary.
- `quiet` may be stored by a callback that was stale by then; a splice is published after its replacement is
  in the ring, where a callback that reads too far has passed the seam; a ring kept in step with another may be
  held while the engine waits for it.
- Resetting the people of a shared list seals it for those the list names as it was last heard, without
  reading the log first.

## What is proved

`RingProofs` proves for every value of the constants allowed by `RingAssumption`, with no bound on
the ring, the number of seeks, splices, fades or pulls beyond the `Max...` constants, which may be
any natural number:

- `TypeCorrect`: `Spec => []TypeOK`.
- `ReadAgreesAlways`: `Spec => []ReadAgrees`. With no seek waiting, the engine's reckoning of what the
  graph has read is exact. `splice_point` and the position shown rest on it.
- `StaleIsNeverHeard`: `Spec => StaleNeverHeard`. No frame rendered before a seek is heard once it
  is answered.

`TypeOK` is not inductive: while a splice is rendered it has to be known that the room it needs is
ahead of what was written, so `TypeInv` adds `RenderingAhead`. The other two follow from
`SeekInv`, which says what the two threads can hold each other to at every access:
a request is answered in order (`applied <= requested`); between draining and answering the ring is
empty, nothing has been read and the seek seen is the one asked for; while a seek waits the engine
has written nothing and renders nothing; and every frame in the ring was rendered after the seek
that was answered last. The step from `SeekInv` to `StaleNeverHeard` is then immediate: what
is heard is taken from the ring. Each action has its own step; what a pull takes (`TakenFromTheRing`)
and what leaves the front of the ring (`SeekTaken`) are lemmas about sequences that `Take` and
`PassOver` share.

`RingSpliceProofs` proves, with as few bounds, the rest of what the run `ring_sounds`
checks. Every safety property of `Ring` is then proved.

- `AudibleMeansWholeAlways`: `Spec => []AudibleMeansWhole`. Between the two loads of `is_audible` the level found
  whole stays so, provided no seek waited and no fade hushed at the first; "met while modelling" says what happens otherwise.
- `HeldWithinCapacityAlways`: `Spec => []HeldWithinCapacity`, whether or not the graph keeps ahead of a splice. The
  bound is the capacity and `surplus`, the one run that was counted twice.
- `SpliceLandsWholeAlways`: `RendersInTime` implies `Spec => []SpliceLandsWhole`.
- `HeardInOrderAlways`: `RendersInTime` implies `Spec => []HeardInOrder`.

Each has an invariant of its own over `SeekInv`, so each can be read alone:

- `LevelInv`. What the engine reads of the level (`whole`) is the level between pulls. Within a pull it may
  lag, but only behind a fade that hushes or one into a seek not yet answered, and the answer
  stores `whole` before it is seen.
- `SpliceInv`. With no seek waiting, at most one splice is under way, and its four copies agree: the engine's
  (`splicing`), the published one (`spliceAt`, `spliceTo`), the callback's (`pending`), and what `asked`,
  `taken` and `splicesSeen` say of where it has got to.
- `RoomInv`, from `SpliceInv`. The ring holds at most the capacity, the surplus and the stale run that is still
  ahead, and what is still to be rendered has room. `held_frames` subtracts the stale run while the splice is
  awaited, so the surplus is what a write adds between the head that is committed and `taken`.
- `TimeInv`, from `SpliceInv` and `RendersInTime`. `Under` is the splice under way, whoever knows of it,
  a seek or none. Until the callback has picked it up its end is ahead of all this pull may still take,
  which is why a splice begins two pulls ahead (`BegunAhead`) and a pull already under way cannot overrun it.
- `OrderInv`, from `TimeInv`. A frame plays as far past the one due as it lies behind it in the ring, less the stale
  run if it lies behind that (`Placed`), and the engine's `spliced_away` is what the callback has passed over and
  is yet to (`CountedAway`). Frames rendered at the back then play what is due there (`OrderWritten`), and a
  splice passed over anywhere in its stale run, early or late, leaves what is due unchanged.

`RendersInTime` is assumed because nothing in the code ensures it: the engine renders a splice while the graph
plays towards it, with two pulls and `SPLICED_AHEAD_AT_LEAST` in hand. Of a graph that outruns it nothing is
proved about order.

`LedgerProofs` proves for any set of devices and of recordings, any wall clocks and any bounds:

- `LedgerTypeCorrect`: `Spec => []TypeOK`.
- `OneWordAStampAlways`: `WallMovesOn` implies `Spec => []OneWordAStamp`. Wherever two notes of a recording bear one stamp, in a
  ledger, on a link, in the log or the snapshot, they are one note.
- `RowsMoveOn`: `WallMovesOn` implies `Spec => RowsOnlyMoveOn`. A row gives way only to a later word.

The premise is about a death between rows and clock and is needed: without it no word of a device
need be behind its clock. The theorems of `LedgerReachProofs` are under it as well.

None is inductive by itself. `WordsInv` adds that every word of a device is behind that device's clock
wherever it is (`WordsBehindTheClock`), that every row is behind the clock of the device that holds it
(`RowsBehindTheClock`), and that one stamp is one word among all there are, the rows nothing is known of
among them (`OneWord`). The argument has two halves. Whatever a step does, the words after it are words
that were there before or, at one device, words stamped past its clock (`LedgerMoves`, `Moved`): one
lemma for each action (`LookKeeps`, `HearRecordKeeps`, `TakeCompactKeeps`, ...) over lemmas about
what a look, an arrival and a link make of rows and notes. And whatever moves the words so keeps the
invariant and moves rows on (`MovedKeeps`): a new word is past its device's clock, which no old word of
that device is, so it shares a stamp with none.

`LedgerReachProofs` proves, as generally, what replication is for:

- `NoWordIsForgottenAlways`: `WallMovesOn` implies `Spec => []NoWordIsForgotten`.
- `RestedReadersAgreeAlways`: `WallMovesOn` implies `Spec => []RestedReadersAgree`.

Both follow from one invariant, `ReachInv`, kept beside `WordsInv` and `OneNoteAKey`. What it weighs are
copies: a set of notes and how far into the log it reaches (`Copy`). The server's snapshot is one, so is the
ledger of every device that read this space, up to its cursor, and so is every compaction that was asked for
and is still on its way (`Copies`). `UpToDate` says of a copy no older than the snapshot that it has a note
for every word logged behind its cursor; that with the log past it, it has one for what was appended and
not yet answered; and that with what devices still owe besides, it has one for every word any ledger knows.
"Has a note for" is `Subsumes`: the word itself or a later one of its recording. A compaction taken then
only puts one copy in another's place, a record read moves one record from the log past a cursor to the
copy behind it (`NextIsUpToDate`), and an answer heard lets go only of words the server's log holds for
every copy (`HearAppendedReaches`). No single copy could be the invariant: the snapshot to come is some
device's ledger as it stood when it asked, so every one of them has to be good at all times.

The space the server loses is what the rest is about. A device is `Astray` if it read another space than the one
there is; when it finds out it owes all it knows, so until then all it knows is counted as answered for
(`Answers`). `Survives` says that this would be enough if the space were lost now. Copies are up to date as long
as every device astray can tell, by a cursor past the head (`Sound`); finding 3 is what happens when one
cannot. `Remembered` (what is said, logged or held by the server is subsumed by some ledger) makes an
arrival harmless wherever it is heard, and `OneNoteAKey` (what is said, logged and held has one note to a
recording) makes the order in which notes of one batch are taken of no matter.

Trying to prove the second theorem showed that it was stated too strongly. With three devices, two may rest and not
agree: one was told a word by a neighbour, who still owes it, and the other has read all there is. No run
met this, since two devices have no third. `RestedReadersAgree` now says that two devices at rest agree on
every recording, or another device owes a word of it as late as either's; with two devices that is
agreement. TLC found the invariant to hold of instances of two devices, and of three as far as it got, before it
was proved.

It also proves `EditsStandAlways`: `WallMovesOn` implies `Spec => EditsStand`. What arrives only changes a favourite where
a note won over the row that the look before it left, so the argument is what that look does to a row
(`LookedAgrees`): where the hand changed what the ledger knows it stamps past the clock, and a note that
wins over it is later still; where it changed what the ledger does not know it leaves the row alone, and
then no note removes it, for a removal met for the first time is not told to the catalog. Two facts are
needed of every state. A row that is here is favoured and one favoured is known (`RowsAgreed`); and no
word of a device is past that device's own row of it, wherever the word has got to (`OwnWords`), so what wins
is another device's. That the batch has one note to a recording (`OneNoteAKey`) makes the note that won the
row that is kept. The property had first asked the same of every favourite set by hand and not looked at.
The proof did not go through where the ledger already waited to take it up, and TLC, given two recordings of
which one lands late and four edits, showed the case listed above.

`ConvergenceProofs` proves for any readers, songs, places and any number of operations, provided no place is
empty and stamps are counted from one (`PlacesAndStamps`):

- `ListsStand`: `Spec => []ListsStandForWhatWasHeard`. A list is what the operations heard come to, said without
  an order: a row any of them removes is gone and bears the latest removal, any other plays the song it
  was added for and is where the latest put it.
- `Convergent`: `Spec => []HeardAlikeHoldAlike`. Readers who heard the same hold the same.
- `RemovedForGood`: `Spec => RemovedStaysRemoved`.

`HeardAlikeHoldAlike` is not inductive: it says nothing of readers who have not heard alike yet. `Inv` is: it
says of each reader alone that its list stands for what it heard, which determines the list
(`OneRowStands`, by the order of stamps and `Consistent`). That it is kept is the case split of `apply`: a removal
(`RemovedStandsRemoved`), anything said of a row removed (`NothingStandsOverARemoval`), and a row put
somewhere (`PlacedStandsPlaced`). No run checks `Convergence`; small instances of it (one row, two songs, two
places, three stamps, two readers) were, before it was proved. What it leaves to the run `shared` is
that members do come to hear alike, from records and snapshots, and that what they say is what was done.

`JournalProofs` proves for tracks of any pages, any number of writes, failures, deaths, power cuts and edits by
another program:

- `KeepsItsPromiseAlways`: `Spec => KeepsItsPromise`, that `Journal` implements `Retag`.
- `NothingTornAlways`: `Spec => []NothingTorn`, which `journal_shrinks` shows to fail without a premise.
- `OthersStandAlways`: `Spec => OthersStand`.

`Premises` are the values the passing run gives three constants: `WritesBack`, no `ShrinksInPlace`, no whole copy
torn within a page. The last two are needed by what is proved, as finding 2 shows of one; the first is assumed of
the kernel, where a mend removes a record without a sync. `Bare` and the other `TornWays` are left open.

What has to be kept in every state (`Inv`) is about files nobody may ever read. `Between` says of a file that every
page of the record's is the one the write found or the one it meant, or half of each, and every
other page is as the write found it. Of each part of what the disk may hold either all files are `Between`, or it is
the one file from before the room was opened (`Holds`); that survivors of a power cut take each page from any of them
is then harmless (`SurvivorIsBetween`), and a file that is `Between` is one the mend can bring to an end of
the write (`MendingBrings`). `Brings` says of a list of calls that it puts only pages of the record, each as the
end it goes to has it, and puts every page that differs from it; a call takes the track a page closer and
leaves the rest of the list one that brings (`CallBringsCloser`), so a job that is finished has arrived. Nothing
is said of the order of puts, so writing a page twice or out of turn would do; what the order of *other* calls
is needed for shows in `Taking`, which follows a lengthened head back call by call: its room may be taken away
only after its old page is behind it. Each action has its lemma (`BeginKeeps`, `TakeBackKeeps`,
`PowerCutKeeps`, `MenderStepKeeps`, ...). The refinement follows from `AsPromised`, that `Stands` is an end
of the write and the meant one after it landed: `Begin` is `Ask` and everything else is `Settle`. For `OthersStand`
the invariant adds that a mend spares a page that is neither of the write nor found by it, now and in what
it has left to do (`Spares`), and that every file the disk may hold has it (`OnDisk`).

Trying to prove the last showed that `OthersStand` was stated too strongly: it had no exception. Where another
program puts a page back to what the write had found, between the write's death and its mend, the mend takes
the page for one the write had yet to reach and lays what was meant over it (`finished_writing_back`,
`carried_on`). TLC finds this with `MaxMeddlings = 2`, where the run has one: the first edit makes the page
what the second write finds.

`QueueProofs` proves for any items and any bounds, whether or not earlier runs are resumed:

- `QueueStaysSound`: `Spec => []IInv`, the invariant the others rest on.
- `QueueTypes`, `TheSeatStands`, `TheStampsAgree`, `ShownStands`: `TypeOK`, `SeatStands`, `StampsAgree` and
  `ShownIsWhatStands` always hold.
- `ListsAreWhatUnshufflingDraws`: `Spec => []ListIsWhatUnshufflingDraws`.
- `RowsAreDrawnWhereTheyAre`, `EditsKeepTheRowHeard`, `RemovalsHandOnWhatIsHeard`: from every queue reached, what
  inserts, jumps, drags, orders, shuffles and removals make of the row heard and of where rows are drawn
  (`RowsAreWhereTheyAreDrawn`, `EditsKeepWhatIsHeard`, `RemovalHandsOn`).
- `WhatFollowsIsWhatPlays`: `Spec => []FollowsIsWhatPlays`, for as many rows ahead as can be told, what is rendered ahead is
  what plays.

None of the first four is inductive: each says something of the lists and nothing of the rows in them, and
an operation that splices three lists by places keeps them in step only if no place stands twice. `IInv`
therefore names the rows in order and the rows played next as two sets (`Stands`). Each list has every row
of its set once (`Lists`), no two rows share a place (`Apart`), every place was given out since the last
load, the order to return to is the rows in order while shuffled and nothing otherwise, and the stamps are
the marks of those sets. To this it adds that the seat names a row (`Seated`) and that what is shown is what stands.
With the sets named, most of an operation is what it moves from one to the other, and the lists follow by
lemmas that know nothing of a queue (`QueueLists`). Every operation has one (`InsertKeeps`, `RemoveAllKeeps`,
`MoveRowsKeeps`, `ReorderKeeps`, `LoadKeeps`, `RestoreKeeps`, `AdvanceKeeps`, ...), and each command follows from those
it calls. What keeps `shown` true is `Seen`: an operation either revises or leaves all that is
published as it was, with one lemma for moving the seat unseen (`SeatUnseen`): the seat
shows only by where the rows played next are, so an advance in order need not revise, and a retreat, a jump
and a row played next let go must.

`TypeOK` bounds `after` and the lists by `MaxPlaces`, which the invariant does not say: it follows by counting, as
many rows as places at most (`AsManyAsPlaces`). For the list drawn when shuffle is turned off, `UnshuffledIsListed` follows
`in_list_order` and `set_shuffle`, which merge the rows played next into the order to return to by different paths.
For removals, the row heard next is found twice, by the queue as it hands on in what is left of its lists and by the property
in the list drawn before; `FirstLeft` says of one list that the first row left past a point is the one at the point past as
many rows as were kept, and `HandedOn` takes that through both lists and the seat.

For what follows, the code advances a reckoning of three words (`AdvancedFrom`) where playing advances the queue
itself, which lets rows go, moves the seat, draws a shuffled pass anew and may turn back. `Reckoned` says when the two
agree: the queue left has the same order and modes, the reckoned seat and place, and waiting in it the rows played next past
those the reckoning let go. `ReckonedOn` keeps that one row further wherever the row after can be told, and
`ReckonedAhead` for any number of rows; the installed provers cannot instantiate the library's induction theorem,
so it takes the least count that would fail (as do `ReckoningsAre` and `QueuesAheadAre`, which show that
the two recursive functions exist and go one by one). What is left is one row: `SaysWhatFollows`, that the row named is
the first of those waiting, in order and wrapped to, `LastIsPassedAll`, and `WhatFollowsIsHeard`, that
advancing the queue left seats that row. A row on repeat is a case apart (`StaysAtTheTrack`).

TLC found `IInv` to hold of the
run's constants and of an instance of two items before it was proved.

Only model-checked:

- `MoveIsARebuild` of `Queue`, which equates two ways to move rows list by list, the order to return to with
  them, where what is proved of `MoveRows` is which rows stand where.
- `TheRestStand` of `Resumed`, and everything about `Keeping`, `Handing` and `Shared`.
- All liveness: fairness is out of the prover's reach.

## What is not modelled

- Of the ring: the gain turned between two rows and its announcements, the hold of a ring kept in
  step with another, the sequence lock of the stamp that says which frame is heard, the markers of
  DSD, the counters of starvation, pauses measured in seconds downstream, and a nudge.
- Of the engine: which sink and format an output gets, renegotiation, reshaping, the second arm, gain
  and volume, the timer by the clock, a graph that goes altogether, a stream that is asked for and
  answers later. Of what `Handing` models: shuffling, rows that cannot seek, rows that change format.
- Of the kept queue: the position within the song, a write that fails (it is only warned of), zones
  beside the first (each has its own tables and its own `Keeping`, so they do not meet), and a party
  followed, during which a look is recorded but not written.
- Of the ledger: everything but favourites (playlists, queries, listens, answers, handoffs, shares, folds;
  each has rules of its own for what arrives), words of a lost link read after the next one is up, a server
  that has no room (`SpaceFull`) or refuses a record (`TooLarge`, after which it is let go of as sent), and
  devices with no server at all but neighbours.
- Of shared playlists: the name of a list and who is on it, people who may only view, joining by a link, leaving, a
  space closed and the move to another, a server that forgot the space, songs fetched for rows the library
  lacks, and `COMPACT_PAST_BYTES`. Each song is put in once by the hands, so that two rows of one
  song come only of mistakes.
- Of the journal: a copy kept elsewhere when the folder has no room, the ten seconds a record nobody holds is
  left alone, a record cut short as it was written, and two that mend at once or mend while the next
  write begins. Lengths are whole pages.
- Byte formats, numerical code, SQL queries, services outside, windows: data rather than control, or
  input and output. `PROJECT.json` lists each component with its status.

## The plan

In order, most important first. Each is a module, its instance for TLC, and the theorems named.

1. `Handing`, further: liveness under the loop's fairness (a row playing ends, a row waiting for one that
   never opens goes on), a graph that goes and comes back, a row that cannot seek, `Ring` shown to
   implement its output.
2. `Lockstep` and `Stamp`: the two protocols of the ring that are left, with the theorem that a stamp
   read whole was written whole.
3. `Party`: hosting and following. `Shared`, further: people and their seats, a space closed and moved from, and
   snapshots in `Convergence`.
4. `Zones`, `Vault`, `Fetching`: handing a device over; import, validate, publish; ranged resume.
5. `Ledger`, further: the writes of a look one by one, playlists, and shares.
6. Proofs: `TheRestStand` of `Resumed`, `MoveIsARebuild` of `Queue`, then `Keeping`.
