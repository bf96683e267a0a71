------------------------------ MODULE Journal -------------------------------
(***************************************************************************)
(* A tag written over a track where it stands                              *)
(* (crates/resonate-codec/src/journal.rs, overlay.rs, insert.rs): a record *)
(* is kept beside the track before its pages are written over, a write     *)
(* that fails is taken back, and what a dead writer left is mended by the  *)
(* next write or scan.  A track is a sequence of pages; the disk holds any *)
(* mix of what was written since it was last synced.                       *)
(***************************************************************************)
EXTENDS Integers, Sequences, FiniteSets

CONSTANTS
  Cells,           \* what a page of a track may hold
  MaxPages,        \* bound: pages of a track
  Ways,            \* how a tag may be landed: over its pages, a longer head, or a whole copy
  ShrinksInPlace,  \* whether a write over its pages may cut the track
  Bare,            \* whether a folder may refuse the record of a write over pages
  WritesBack,      \* whether the kernel writes back what one job left before the next begins
  TornWays,        \* the ways of which a power cut may leave a page half written
  MaxWrites,       \* bound: writes
  MaxFaults,       \* bound: failed calls, deaths and power cuts
  MaxMeddlings     \* bound: edits by another program

ASSUME JournalAssumption ==
  /\ MaxPages \in Nat \ {0} /\ Ways \subseteq {"pages", "head", "whole"}
  /\ TornWays \subseteq Ways /\ ShrinksInPlace \in BOOLEAN /\ Bare \in BOOLEAN
  /\ WritesBack \in BOOLEAN
  /\ MaxWrites \in Nat /\ MaxFaults \in Nat /\ MaxMeddlings \in Nat
  /\ Cells \cap {"zeros", "mixed", "other", "none"} = {}

VARIABLES
  track,      \* the track as it reads
  disk,       \* what the disk may hold: sets of files, parted where pages were moved
  left,       \* the records beside the track
  filed,      \* the records the disk's folder holds
  job,        \* what the writer and the mender are about
  last,       \* the last write: the track before and after it, and its answer
  meddled,    \* whether another program edited the track while a record stood
  faults, writes, meddlings

vars == <<track, disk, left, filed, job, last, meddled, faults, writes, meddlings>>

-----------------------------------------------------------------------------
(* Files and the calls that change them.                                   *)

Greatest(a, b) == IF a > b THEN a ELSE b
Least(a, b) == IF a < b THEN a ELSE b

\* A page of a file, or none past its end.
Cell(file, page) == IF page <= Len(file) THEN file[page] ELSE "none"

\* set_len: zeros fill what it adds.
Cut(file, length) == [page \in 1..length |-> IF page <= Len(file) THEN file[page] ELSE "zeros"]

\* write_all_at, one page of it.
Put(file, at, cell) ==
  [page \in 1..Greatest(Len(file), at) |->
     IF page = at THEN cell ELSE IF page <= Len(file) THEN file[page] ELSE "zeros"]

\* fallocate: room opened at the head of the file, or taken out of it.
Opened(file, by) == [page \in 1..by |-> "zeros"] \o file
Closed(file, by) == SubSeq(file, by + 1, Len(file))

\* Some pages, from the first of them on.
InTurn(pages) ==
  CHOOSE order \in [1..Cardinality(pages) -> pages] :
    \A i, j \in 1..Cardinality(pages) : i < j => order[i] < order[j]

\* A call is made of the file, or waits for the disk to hold what was written.
Puts(file, pages) ==
  [i \in 1..Cardinality(pages) |->
     [call |-> "put", page |-> InTurn(pages)[i], cell |-> file[InTurn(pages)[i]]]]
SetLen(length) == <<[call |-> "cut", to |-> length]>>
Insert(by) == <<[call |-> "open", by |-> by]>>
Collapse(by) == <<[call |-> "close", by |-> by]>>
Sync == <<[call |-> "sync"]>>

Made(file, step) ==
  CASE step.call = "put"   -> Put(file, step.page, step.cell)
    [] step.call = "cut"   -> Cut(file, step.to)
    [] step.call = "open"  -> Opened(file, step.by)
    [] step.call = "close" -> Closed(file, step.by)
    [] step.call = "sync"  -> file

-----------------------------------------------------------------------------
(* What is kept of a write, and what each way of landing one does.         *)

\* A record names the track before and after, and how much longer its head becomes.
Record(way, before, after, shift) ==
  [way |-> way, before |-> before, after |-> after, shift |-> shift]
NoRecord == Record("pages", <<>>, <<>>, 0)

PagesOf(record) == 1..Greatest(Len(record.before), Len(record.after))
Changed(record) ==
  {page \in PagesOf(record) : Cell(record.before, page) # Cell(record.after, page)}

\* The pages of a head that was lengthened: it was one page and is one and the shift.
HeadOf(record) == 1..(record.shift + 1)

\* Overlay::laid.
Laid(record) ==
  Puts(record.after, Changed(record) \cap DOMAIN record.after)
    \o (IF Len(record.after) < Len(record.before) THEN SetLen(Len(record.after)) ELSE <<>>)
    \o Sync

\* Altered: the track is given its length back once its pages are.
RestoredLengthLast(record) ==
  Puts(record.before, Changed(record) \cap DOMAIN record.before)
    \o Sync \o SetLen(Len(record.before))

\* restored: the length first, then the pages.
Restored(record) ==
  SetLen(Len(record.before))
    \o Puts(record.before, Changed(record) \cap DOMAIN record.before) \o Sync

\* lengthened: room is opened and synced before the head is laid.
Lengthened(record) ==
  Insert(record.shift) \o Sync \o Puts(record.after, HeadOf(record)) \o Sync

\* taken_back: the old head behind the room, then the room away.
TakenBack(record) ==
  Puts(Opened(record.before, record.shift), {record.shift + 1})
    \o Sync \o Collapse(record.shift) \o Sync

\* laid_over: the pages that differ from what stands, the length, the disk.
LaidOver(record, standing) ==
  Puts(record.after, {page \in DOMAIN record.after : Cell(standing, page) # record.after[page]})
    \o SetLen(Len(record.after)) \o Sync

Landing(record) ==
  CASE record.way = "pages" -> Laid(record)
    [] record.way = "head"  -> Lengthened(record)
    [] record.way = "whole" -> LaidOver(record, track)

-----------------------------------------------------------------------------
(* What a mend makes of a record and the track it finds.                   *)

Standing(file, of, pages) == \A page \in pages : Cell(file, page) = Cell(of, page)

WithinLengths(file, record) ==
  /\ Len(file) >= Least(Len(record.before), Len(record.after))
  /\ Len(file) <= Greatest(Len(record.before), Len(record.after))

\* Altered: a page is taken to be of this write without a look.
OursUnread(file, record) == TRUE

\* rolled_back: every byte present is one the write found or one it laid.
Ours(file, record) ==
  \A page \in Changed(record) \cap DOMAIN file :
    file[page] \in {Cell(record.before, page), Cell(record.after, page), "mixed"}

RolledBack(file, record) ==
  IF \/ ~WithinLengths(file, record) \/ ~Ours(file, record)
     \/ Len(file) = Len(record.before) /\ Standing(file, record.before, Changed(record))
     \/ Len(file) = Len(record.after) /\ Standing(file, record.after, Changed(record))
  THEN <<>>
  ELSE Restored(record)

\* carried_on: a head the room was opened for is laid again, whole.
CarriedOn(file, record) ==
  LET was == Opened(record.before, record.shift)
  IN  IF \/ Len(file) # Len(record.after)
         \/ \E page \in HeadOf(record) : file[page] \notin {was[page], record.after[page], "mixed"}
         \/ Standing(file, record.after, HeadOf(record))
      THEN <<>>
      ELSE Puts(record.after, HeadOf(record)) \o Sync

\* finished_writing_back: every page is the copy's or stands as it stood.
FinishedWritingBack(file, record) ==
  IF \/ ~WithinLengths(file, record)
     \/ \E page \in DOMAIN file :
          file[page] \notin {Cell(record.after, page), Cell(record.before, page)}
     \/ file = record.after
  THEN <<>>
  ELSE LaidOver(record, file)

Mending(file, record) ==
  CASE record.way = "pages" -> RolledBack(file, record)
    [] record.way = "head"  -> CarriedOn(file, record)
    [] record.way = "whole" -> FinishedWritingBack(file, record)

-----------------------------------------------------------------------------
(* The writer and the mender.                                              *)

Idle == [doing |-> "nothing", todo |-> <<>>, record |-> NoRecord]
Actors == {"writer", "mender"}
IsIdle(actor) == job[actor].doing = "nothing"

About(actor, doing, todo, record) ==
  job' = [job EXCEPT ![actor] = [doing |-> doing, todo |-> todo, record |-> record]]
\* Time passes between jobs.
WrittenBack == disk' = IF WritesBack THEN <<{track}>> ELSE disk
Rest(actor) == job' = [job EXCEPT ![actor] = Idle]

\* What was written since the last sync may be on the disk.
Written(file) == disk' = [disk EXCEPT ![Len(disk)] = @ \cup {file}]

Versions == UNION {[1..length -> Cells] : length \in 1..MaxPages}

\* What a write of this way may make of the track.
Makes(way, after, shift) ==
  CASE way = "pages" -> /\ shift = 0 /\ after # track
                        /\ ~ShrinksInPlace => Len(after) >= Len(track)
    [] way = "whole" -> shift = 0
    [] way = "head"  -> /\ shift > 0 /\ Len(after) = Len(track) + shift
                        /\ SubSeq(after, shift + 2, Len(after)) = Tail(track)

\* A write mends what it finds first, then keeps its record beside the track, syncs it and
\* the folder (Undo::kept, WholeCopy::named_beside), and lands.
Begin ==
  /\ IsIdle("writer") /\ left = {} /\ writes < MaxWrites
  /\ \E way \in Ways, after \in Versions, shift \in 0..1 :
       /\ Makes(way, after, shift)
       /\ LET record == Record(way, track, after, shift) IN
            /\ left' = {record} /\ filed' = {record}
            /\ About("writer", "landing", Landing(record), record)
       /\ last' = [before |-> track, after |-> after, answer |-> "none", kept |-> TRUE]
  /\ meddled' = FALSE
  /\ writes' = writes + 1
  /\ WrittenBack
  /\ UNCHANGED <<track, faults, meddlings>>

\* Overlay::land where the folder takes no record: only at the length that stood.
BeginBare ==
  /\ Bare /\ "pages" \in Ways /\ IsIdle("writer") /\ left = {} /\ writes < MaxWrites
  /\ \E after \in Versions :
       /\ after # track /\ Len(after) = Len(track)
       /\ About("writer", "landing", Laid(Record("pages", track, after, 0)), NoRecord)
       /\ last' = [before |-> track, after |-> after, answer |-> "none", kept |-> FALSE]
  /\ meddled' = FALSE
  /\ writes' = writes + 1
  /\ WrittenBack
  /\ UNCHANGED <<track, left, filed, faults, meddlings>>

\* The next call of a job.
Step(actor) ==
  LET step == Head(job[actor].todo) IN
    /\ job[actor].todo # <<>>
    /\ track' = Made(track, step)
    /\ CASE step.call \in {"put", "cut"}    -> Written(track')
         [] step.call \in {"open", "close"} -> disk' = Append(disk, {track'})
         [] step.call = "sync"              -> disk' = <<{track}>>
    /\ job' = [job EXCEPT ![actor].todo = Tail(@)]
    /\ UNCHANGED <<left, filed, last, meddled, faults, writes, meddlings>>

Answered(answer) == last' = [last EXCEPT !.answer = answer]

\* A write that landed, or one that was taken back, lets go of its record.
Done ==
  /\ ~IsIdle("writer") /\ job["writer"].todo = <<>>
  /\ left' = left \ {job["writer"].record}
  /\ Answered(IF job["writer"].doing = "landing" THEN "landed" ELSE "failed")
  /\ Rest("writer")
  /\ UNCHANGED <<track, disk, filed, meddled, faults, writes, meddlings>>

\* names_a_cut_short_write: a living writer holds its record locked.
LeftByTheDead == left \ {job["writer"].record}

\* mend_a_cut_short_write and mend_what_a_dead_writer_left.
Mend ==
  /\ IsIdle("mender")
  /\ \E record \in LeftByTheDead :
       About("mender", "mending", Mending(track, record), record)
  /\ WrittenBack
  /\ UNCHANGED <<track, left, filed, last, meddled, faults, writes, meddlings>>

\* Altered: the record of a track that changed since is left where it is.
MendedUnlessChanged ==
  /\ ~IsIdle("mender") /\ job["mender"].todo = <<>>
  /\ left' = IF meddled THEN left ELSE left \ {job["mender"].record}
  /\ Rest("mender")
  /\ UNCHANGED <<track, disk, filed, last, meddled, faults, writes, meddlings>>

\* Once mended, the record is removed, whatever was made of it.
Mended ==
  /\ ~IsIdle("mender") /\ job["mender"].todo = <<>>
  /\ left' = left \ {job["mender"].record}
  /\ Rest("mender")
  /\ UNCHANGED <<track, disk, filed, last, meddled, faults, writes, meddlings>>

-----------------------------------------------------------------------------
(* What goes wrong.                                                        *)

Fault == /\ faults < MaxFaults
         /\ faults' = faults + 1

\* A call that fails may have written part of its page.
Partly(step) ==
  \/ UNCHANGED <<track, disk>>
  \/ /\ step.call = "put" /\ job["writer"].record.way # "whole"
     /\ track' = Put(track, step.page, "mixed")
     /\ Written(track')

\* A write over pages that fails is restored, a longer head taken back.
TakeBack ==
  LET doing == job["writer"]
      step == Head(doing.todo)
      back == IF doing.record.way = "pages" THEN Restored(doing.record)
              ELSE TakenBack(doing.record)
  IN  /\ Fault /\ doing.doing = "landing" /\ doing.todo # <<>> /\ step.call # "open"
      /\ doing.record # NoRecord /\ doing.record.way # "whole"
      /\ Partly(step)
      /\ About("writer", "taking_back", back, doing.record)
      /\ UNCHANGED <<left, filed, last, meddled, writes, meddlings>>

\* The filesystem opens no room: the head is not lengthened in place.
NoRoom ==
  /\ Fault /\ job["writer"].doing = "landing" /\ job["writer"].todo # <<>>
  /\ Head(job["writer"].todo).call = "open"
  /\ left' = left \ {job["writer"].record}
  /\ Answered("failed") /\ Rest("writer")
  /\ UNCHANGED <<track, disk, filed, meddled, writes, meddlings>>

\* A copy torn part way, a bare write, or a write that cannot be taken back is answered
\* for, its record left for the next write or scan.
GiveUp ==
  LET doing == job["writer"] IN
  /\ Fault /\ doing.todo # <<>>
  /\ doing.doing = "taking_back" \/ doing.record = NoRecord \/ doing.record.way = "whole"
  /\ Partly(Head(doing.todo))
  /\ Answered("failed") /\ Rest("writer")
  /\ UNCHANGED <<left, filed, meddled, writes, meddlings>>

\* A mend that fails, or dies, leaves the record; a writer that dies answers nothing.
Die(actor) ==
  /\ Fault /\ ~IsIdle(actor)
  /\ Rest(actor)
  /\ UNCHANGED <<track, disk, left, filed, last, meddled, writes, meddlings>>

\* What a page may hold once the power was cut: any of what was written since the sync.
Surviving(files, page) ==
  LET held == {file[page] : file \in {some \in files : page <= Len(some)}}
      tears == \E record \in left : record.way \in TornWays
  IN  held \cup (IF tears /\ Cardinality(held) > 1 THEN {"mixed"} ELSE {})

Survivors(files) ==
  UNION {{file \in [1..length -> UNION {Surviving(files, page) : page \in 1..length}] :
            \A page \in 1..length : file[page] \in Surviving(files, page)} :
         length \in {Len(file) : file \in files}}

\* Records removed since the folder was synced may be back.
PowerCut ==
  /\ Fault
  /\ \E i \in DOMAIN disk : \E file \in Survivors(disk[i]) : track' = file /\ disk' = <<{file}>>
  /\ \E records \in {left, filed} : left' = records /\ filed' = records
  /\ job' = [actor \in Actors |-> Idle]
  /\ UNCHANGED <<last, meddled, writes, meddlings>>

\* Another program edits a page of the track between a death and its mend.
Meddle ==
  /\ left # {} /\ \A actor \in Actors : IsIdle(actor)
  /\ meddlings < MaxMeddlings
  /\ \E page \in DOMAIN track : track' = Put(track, page, "other")
  /\ disk' = <<{track'}>>
  /\ meddled' = TRUE /\ meddlings' = meddlings + 1
  /\ UNCHANGED <<left, filed, job, last, faults, writes>>

-----------------------------------------------------------------------------
\* Cells are alike: the first page holds any one of them.
Init ==
  /\ track \in {file \in Versions : Head(file) = CHOOSE cell \in Cells : TRUE}
  /\ disk = <<{track}>>
  /\ left = {} /\ filed = {}
  /\ job = [actor \in Actors |-> Idle]
  /\ last = [before |-> track, after |-> track, answer |-> "none", kept |-> TRUE]
  /\ meddled = FALSE
  /\ faults = 0 /\ writes = 0 /\ meddlings = 0

Faults == TakeBack \/ NoRoom \/ GiveUp \/ PowerCut \/ \E actor \in Actors : Die(actor)

Next == \/ Begin \/ BeginBare \/ Done \/ Mend \/ Mended \/ Meddle \/ Faults
        \/ \E actor \in Actors : Step(actor)

\* A job that was begun goes on, and a library is scanned again.
Fairness == /\ WF_vars(Done) /\ WF_vars(Mend) /\ WF_vars(Mended)
            /\ \A actor \in Actors : WF_vars(Step(actor))

Spec == Init /\ [][Next]_vars /\ Fairness

-----------------------------------------------------------------------------
(* Properties.                                                             *)

AtRest == left = {} /\ \A actor \in Actors : IsIdle(actor)

\* Once nothing of a write is left to mend, the track is what stood before it or what it
\* meant, whatever failed, died or lost its power, and however often (rolled_back,
\* carried_on, finished_writing_back): never pages of each.
NothingTorn ==
  AtRest /\ last.kept /\ ~meddled => track \in {last.before, last.after}

\* What the track comes to once what is left of a write is mended.
Stands ==
  LET outcome(record) ==
        IF Mending(track, record) = <<>> THEN track
        ELSE IF record.way = "pages" THEN record.before ELSE record.after
  IN  IF left = {} THEN track ELSE outcome(CHOOSE record \in left : TRUE)

\* The track is at every moment, once mended, what stood before the write or what it meant;
\* a write answered for as landed stays, a record that comes back with the power
\* notwithstanding (Undo::kept syncs the folder, laid the track before its record goes).
Promised == INSTANCE Retag WITH
  Files <- Versions, stands <- Stands, trusted <- last.kept /\ ~meddled
KeepsItsPromise == Promised!Spec

\* The pages a record's write found, where they stand once the room it needs is opened.
Found(record) ==
  IF record.way = "head" THEN Opened(record.before, record.shift) ELSE record.before

\* What another program wrote between a death and its mend is never written over, unless it
\* is as the write had found it, and so cannot be told from what nobody touched (rolled_back,
\* carried_on, finished_writing_back look at every page they would write before they write one).
OthersStand ==
  [][\A page \in DOMAIN track :
       /\ meddled /\ job["mender"].doing = "mending"
       /\ track[page] = "other" /\ Cell(Found(job["mender"].record), page) # "other"
       => page \in DOMAIN track' /\ track'[page] = "other"]_vars

\* What was left is mended in the end.
LeftIsMended == left # {} ~> left = {}

=============================================================================
