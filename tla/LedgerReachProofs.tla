------------------------- MODULE LedgerReachProofs -------------------------
(***************************************************************************)
(* What Ledger promises of words, for any devices, recordings, clocks and  *)
(* bounds: no word is forgotten, devices that rest agree, and only a later *)
(* word of another device undoes a favourite set by hand.  What a          *)
(* device has read is weighed as a copy: a set of notes and how far it     *)
(* reaches.  The server's snapshot is a copy, and so is every compaction   *)
(* on its way to it.                                                       *)
(***************************************************************************)
EXTENDS LedgerProofs, SequenceTheorems

-----------------------------------------------------------------------------
(* Notes that stand for words.                                             *)

\* The one is the other's word, or a later word of its recording.
StandsFor(one, other) == one.key = other.key /\ ~Later(other.stamp, one.stamp)

\* Every word has a note that stands for it.
Subsumes(notes, words) == \A word \in words : \E note \in notes : StandsFor(note, word)

LEMMA StandsForItself ==
  ASSUME NEW note \in AllNotes
  PROVE  StandsFor(note, note)
  BY DEF StandsFor, Later, AllNotes, Stamps

LEMMA StandsForAll ==
  ASSUME NEW a \in AllNotes, NEW b \in AllNotes, NEW c \in AllNotes,
         StandsFor(a, b), StandsFor(b, c)
  PROVE  StandsFor(a, c)
<1>1. a.stamp \in Stamps /\ b.stamp \in Stamps /\ c.stamp \in Stamps
  BY DEF AllNotes
<1>2. ~Later(b.stamp, a.stamp) /\ ~Later(c.stamp, b.stamp)
  BY DEF StandsFor
<1>3. ~Later(c.stamp, a.stamp)
  BY <1>1, <1>2 DEF Later, Stamps
<1>4. QED
  BY <1>3 DEF StandsFor

\* A later word stands for what an earlier one stands for.
LEMMA LaterStandsFor ==
  ASSUME NEW a \in AllNotes, NEW b \in AllNotes, a.key = b.key, Later(a.stamp, b.stamp)
  PROVE  StandsFor(a, b) /\ ~StandsFor(b, a)
<1>1. a.stamp \in Stamps /\ b.stamp \in Stamps
  BY DEF AllNotes
<1>2. QED
  BY <1>1 DEF StandsFor, Later, Stamps

LEMMA SubsumesItsOwn ==
  ASSUME NEW notes \in SUBSET AllNotes, NEW words \in SUBSET notes
  PROVE  Subsumes(notes, words)
  BY StandsForItself DEF Subsumes

LEMMA SubsumesAll ==
  ASSUME NEW a \in SUBSET AllNotes, NEW b \in SUBSET AllNotes, NEW c \in SUBSET AllNotes,
         Subsumes(a, b), Subsumes(b, c)
  PROVE  Subsumes(a, c)
<1> SUFFICES ASSUME NEW word \in c
             PROVE  \E note \in a : StandsFor(note, word)
  BY DEF Subsumes
<1>1. PICK middle \in b : StandsFor(middle, word)
  BY DEF Subsumes
<1>2. PICK note \in a : StandsFor(note, middle)
  BY DEF Subsumes
<1>3. StandsFor(note, word)
  BY <1>1, <1>2, StandsForAll
<1>4. QED
  BY <1>3

\* More notes subsume fewer words.
LEMMA SubsumesFewer ==
  ASSUME NEW a, NEW b, NEW c \in SUBSET b, Subsumes(a, b)
  PROVE  Subsumes(a, c)
  BY DEF Subsumes

LEMMA MoreSubsume ==
  ASSUME NEW a, NEW b \in SUBSET a, NEW c, Subsumes(b, c)
  PROVE  Subsumes(a, c)
  BY DEF Subsumes

LEMMA SubsumesBoth ==
  ASSUME NEW a, NEW b, NEW c, Subsumes(a, b), Subsumes(a, c)
  PROVE  Subsumes(a, b \cup c)
  BY DEF Subsumes

LEMMA SubsumesTogether ==
  ASSUME NEW a \in SUBSET AllNotes, NEW b \in SUBSET AllNotes, NEW c \in SUBSET AllNotes,
         Subsumes(a, b)
  PROVE  Subsumes(a \cup c, b \cup c)
<1>1. Subsumes(a \cup c, b)
  BY MoreSubsume
<1>2. Subsumes(a \cup c, c)
  BY SubsumesItsOwn
<1>3. QED
  BY <1>1, <1>2, SubsumesBoth

-----------------------------------------------------------------------------
(* The notes of logs and ledgers.                                          *)

NotesIn(records) == UNION {record.notes : record \in records}
Past(log, cursor) == NotesIn({record \in log : record.through > cursor})
Behind(log, cursor) == NotesIn({record \in log : record.through <= cursor})

\* All that is known.
Ledgers(of) == UNION {Whole(of[device]) : device \in Devices}

\* What a device still says of itself: all it knows, if it owes it all, or what it owes.
Answer(ledger, all) == IF all THEN Whole(ledger) ELSE Owed(ledger)
Answers(of, all) == UNION {Answer(of[device], device \in all) : device \in Devices}

AllLedgers == [Devices -> [Keys -> AllRows]]

\* Nothing is owed that is not known.
OwesWhatItKnows(ledger) == \A key \in Keys : ledger[key].owed => Known(ledger[key])

LEMMA LogNotesType ==
  ASSUME NEW log \in SUBSET AllRecords, NEW cursor
  PROVE  Past(log, cursor) \in SUBSET AllNotes /\ Behind(log, cursor) \in SUBSET AllNotes
  BY DEF Past, Behind, NotesIn, AllRecords

LEMMA LedgerNotesType ==
  ASSUME NEW of \in AllLedgers, NEW all
  PROVE  /\ Ledgers(of) \in SUBSET AllNotes /\ Answers(of, all) \in SUBSET AllNotes
         /\ \A device \in Devices : Whole(of[device]) \in SUBSET AllNotes
                                    /\ Owed(of[device]) \in SUBSET AllNotes
<1>1. ASSUME NEW device \in Devices
      PROVE  Whole(of[device]) \in SUBSET AllNotes /\ Owed(of[device]) \in SUBSET AllNotes
  <2>1. of[device] \in [Keys -> AllRows]
    BY DEF AllLedgers
  <2>2. QED
    BY <2>1, NotesOfType
<1>2. QED
  BY <1>1 DEF Ledgers, Answers, Answer

\* The notes of a ledger are those of its keys.
LEMMA NoteOfWhole ==
  ASSUME NEW ledger \in [Keys -> AllRows], NEW note \in Whole(ledger)
  PROVE  note.key \in Keys /\ note = Note(ledger, note.key) /\ Known(ledger[note.key])
  BY NoteType DEF Whole

LEMMA NoteOfOwed ==
  ASSUME NEW ledger \in [Keys -> AllRows], NEW note \in Owed(ledger)
  PROVE  note.key \in Keys /\ note = Note(ledger, note.key) /\ ledger[note.key].owed
  BY NoteType DEF Owed

LEMMA OwedIsWhole ==
  ASSUME NEW ledger, OwesWhatItKnows(ledger)
  PROVE  Owed(ledger) \subseteq Whole(ledger)
  BY DEF Owed, Whole, OwesWhatItKnows

LEMMA LaterIsKnown ==
  ASSUME NEW row \in AllRows, NEW stamp \in Stamps, Later(row.stamp, stamp)
  PROVE  Known(row)
<1>1. row.stamp \in Stamps
  BY DEF AllRows
<1>2. QED
  BY <1>1 DEF Known, NoStamp, Later, Stamps

\* What stands for a known row of a ledger is known.
LEMMA StandsForTheKnown ==
  ASSUME NEW row \in AllRows, NEW other \in AllRows, Known(row), ~Later(row.stamp, other.stamp)
  PROVE  Known(other)
<1>1. row.stamp \in Stamps /\ other.stamp \in Stamps
  BY DEF AllRows
<1>2. QED
  BY <1>1 DEF Known, NoStamp, Later, Stamps

-----------------------------------------------------------------------------
(* How one ledger moves, and what it still answers for.                    *)

\* Every row stands and is owed if it was, or gives way to a later word: its device's own,
\* and owed, or one of these notes.
Moves(old, new, device, notes) ==
  /\ \A other \in Devices \ {device} : new[other] = old[other]
  /\ \A key \in Keys :
       \/ /\ Note(new[device], key) = Note(old[device], key)
          /\ old[device][key].owed => new[device][key].owed
       \/ /\ Later(new[device][key].stamp, old[device][key].stamp)
          /\ new[device][key].owed \/ Note(new[device], key) \in notes

LEMMA RowOfLedgers ==
  ASSUME NEW of \in AllLedgers, NEW device \in Devices, NEW key \in Keys
  PROVE  /\ of[device] \in [Keys -> AllRows] /\ of[device][key] \in AllRows
         /\ of[device][key].stamp \in Stamps /\ of[device][key].owed \in BOOLEAN
         /\ Note(of[device], key) \in AllNotes
         /\ Note(of[device], key).key = key /\ Note(of[device], key).stamp = of[device][key].stamp
<1>1. of[device] \in [Keys -> AllRows] /\ of[device][key] \in AllRows
  BY DEF AllLedgers
<1>2. QED
  BY <1>1, NoteType DEF AllRows

\* A word that is later than the row of a device is answered for by another, or by those
\* notes that are not the devices' own.
LEMMA LaterIsAnsweredElsewhere ==
  ASSUME NEW old \in AllLedgers, NEW new \in AllLedgers, NEW device \in Devices,
         NEW held \in SUBSET AllNotes, NEW all, NEW notes \in SUBSET AllNotes,
         \A one \in Devices : OwesWhatItKnows(old[one]),
         Moves(old, new, device, notes),
         Subsumes(held \cup Answers(old, all), Ledgers(old)), Subsumes(Ledgers(old), notes),
         NEW note \in notes, note.key \in Keys, Later(note.stamp, old[device][note.key].stamp)
  PROVE  \E other \in held \cup Answers(new, all) : StandsFor(other, note)
<1>1. PICK middle \in Ledgers(old) : StandsFor(middle, note)
  BY DEF Subsumes
<1>2. PICK other \in held \cup Answers(old, all) : StandsFor(other, middle)
  BY <1>1 DEF Subsumes
<1>3. /\ held \cup Answers(old, all) \in SUBSET AllNotes /\ Ledgers(old) \in SUBSET AllNotes
      /\ note \in AllNotes /\ middle \in AllNotes /\ other \in AllNotes
  BY <1>1, <1>2, LedgerNotesType
<1>4. StandsFor(other, note)
  BY <1>1, <1>2, <1>3, StandsForAll
<1>5. CASE other \in held
  BY <1>4, <1>5
<1>6. CASE other \in Answers(old, all)
  <2>1. PICK one \in Devices : other \in Answer(old[one], one \in all)
    BY <1>6 DEF Answers
  <2>2. CASE one # device
    <3>1. new[one] = old[one]
      BY <2>2 DEF Moves
    <3>2. other \in Answers(new, all)
      BY <2>1, <3>1 DEF Answers
    <3>3. QED
      BY <1>4, <3>2
  <2>3. CASE one = device
    <3>1. other \in Whole(old[device])
      BY <2>1, <2>3, OwedIsWhole DEF Answer
    <3>2. other.key \in Keys /\ other = Note(old[device], other.key)
      BY <3>1, NoteOfWhole, RowOfLedgers DEF AllLedgers
    <3>3. other.key = note.key /\ ~Later(note.stamp, other.stamp)
      BY <1>4 DEF StandsFor
    <3>4. other.stamp = old[device][note.key].stamp
      BY <3>2, <3>3, RowOfLedgers
    <3>5. QED
      BY <3>3, <3>4
  <2>4. QED
    BY <2>2, <2>3
<1>7. QED
  BY <1>2, <1>5, <1>6

\* What was answered for when a ledger moves still is.
LEMMA AnswersKeep ==
  ASSUME NEW old \in AllLedgers, NEW new \in AllLedgers, NEW device \in Devices,
         NEW held \in SUBSET AllNotes, NEW all, NEW notes \in SUBSET AllNotes,
         \A one \in Devices : OwesWhatItKnows(old[one]) /\ OwesWhatItKnows(new[one]),
         Moves(old, new, device, notes),
         Subsumes(held \cup Answers(old, all), Ledgers(old)), Subsumes(Ledgers(old), notes)
  PROVE  Subsumes(held \cup Answers(new, all), held \cup Answers(old, all))
<1> SUFFICES ASSUME NEW word \in held \cup Answers(old, all)
             PROVE  \E other \in held \cup Answers(new, all) : StandsFor(other, word)
  BY DEF Subsumes
<1>1. /\ held \cup Answers(old, all) \in SUBSET AllNotes
      /\ held \cup Answers(new, all) \in SUBSET AllNotes
  BY LedgerNotesType
<1>2. word \in AllNotes /\ StandsFor(word, word)
  BY <1>1, StandsForItself
<1>3. CASE word \in held
  BY <1>2, <1>3
<1>4. CASE word \in Answers(old, all)
  <2>1. PICK one \in Devices : word \in Answer(old[one], one \in all)
    BY <1>4 DEF Answers
  <2>2. CASE one # device
    <3>1. new[one] = old[one]
      BY <2>2 DEF Moves
    <3>2. word \in Answers(new, all)
      BY <2>1, <3>1 DEF Answers
    <3>3. QED
      BY <1>2, <3>2
  <2>3. CASE one = device
    <3> DEFINE key == word.key
    <3>1. old[device] \in [Keys -> AllRows]
      BY DEF AllLedgers
    <3>2. /\ key \in Keys /\ word = Note(old[device], key) /\ Known(old[device][key])
          /\ device \notin all => old[device][key].owed
      <4>1. word \in Whole(old[device])
        BY <2>1, <2>3, OwedIsWhole DEF Answer
      <4>2. device \notin all => word \in Owed(old[device])
        BY <2>1, <2>3 DEF Answer
      <4>3. QED
        BY <3>1, <4>1, <4>2, NoteOfWhole, NoteOfOwed
    <3> HIDE DEF key
    <3>3. /\ old[device][key] \in AllRows /\ new[device][key] \in AllRows
          /\ Note(new[device], key) \in AllNotes /\ Note(new[device], key).key = word.key
          /\ Note(new[device], key).stamp = new[device][key].stamp
          /\ old[device][key].stamp \in Stamps /\ word.stamp = old[device][key].stamp
      BY <3>2, RowOfLedgers
    <3>4. ASSUME new[device][key].owed \/ (device \in all /\ Known(new[device][key]))
          PROVE  Note(new[device], key) \in Answers(new, all)
      <4>1. new[device][key].owed => Known(new[device][key])
        BY <3>2 DEF OwesWhatItKnows
      <4>2. CASE device \in all
        BY <3>2, <3>4, <4>1, <4>2 DEF Answers, Answer, Whole
      <4>3. CASE device \notin all
        BY <3>2, <3>4, <4>3 DEF Answers, Answer, Owed
      <4>4. QED
        BY <4>2, <4>3
    <3>5. CASE /\ Note(new[device], key) = Note(old[device], key)
               /\ old[device][key].owed => new[device][key].owed
      <4>1. new[device][key].stamp = old[device][key].stamp
        BY <3>2, <3>3, <3>5
      <4>2. Known(new[device][key])
        BY <3>2, <4>1 DEF Known
      <4>3. word \in Answers(new, all)
        BY <3>2, <3>4, <3>5, <4>2
      <4>4. QED
        BY <1>2, <4>3
    <3>6. CASE Later(new[device][key].stamp, old[device][key].stamp)
      <4>1. Known(new[device][key])
        BY <3>3, <3>6, LaterIsKnown
      <4>2. StandsFor(Note(new[device], key), word) /\ ~StandsFor(word, Note(new[device], key))
        BY <1>2, <3>3, <3>6, LaterStandsFor
      <4>3. CASE new[device][key].owed \/ device \in all
        BY <3>4, <4>1, <4>2, <4>3
      <4>4. CASE ~new[device][key].owed
        <5> DEFINE note == Note(new[device], key)
        <5>1. note # word
          BY <1>2, <4>2
        <5>2. note \in notes
          BY <3>2, <4>4, <5>1 DEF Moves
        <5>3. note.key = key /\ Later(note.stamp, old[device][note.key].stamp)
          BY <3>2, <3>3, <3>6, RowOfLedgers
        <5> HIDE DEF note
        <5>4. PICK other \in held \cup Answers(new, all) : StandsFor(other, note)
          BY <3>2, <5>2, <5>3, LaterIsAnsweredElsewhere
        <5>5. other \in AllNotes /\ note \in AllNotes /\ StandsFor(note, word)
          BY <1>1, <3>3, <4>2, <5>4 DEF note
        <5>6. StandsFor(other, word)
          BY <1>2, <5>4, <5>5, StandsForAll
        <5>7. QED
          BY <5>4, <5>6
      <4>5. QED
        BY <4>3, <4>4
    <3>7. QED
      BY <3>2, <3>5, <3>6 DEF Moves
  <2>4. QED
    BY <2>2, <2>3
<1>5. QED
  BY <1>3, <1>4

\* What is known after a ledger moves is what was, or what its device owes.
LEMMA LedgersMove ==
  ASSUME NEW old \in AllLedgers, NEW new \in AllLedgers, NEW device \in Devices,
         NEW held \in SUBSET AllNotes, NEW all, NEW notes \in SUBSET AllNotes,
         \A one \in Devices : OwesWhatItKnows(old[one]) /\ OwesWhatItKnows(new[one]),
         Moves(old, new, device, notes),
         Subsumes(held \cup Answers(old, all), Ledgers(old)), Subsumes(Ledgers(old), notes)
  PROVE  Subsumes(held \cup Answers(new, all), Ledgers(new))
<1> DEFINE before == held \cup Answers(old, all)
           after == held \cup Answers(new, all)
<1>1. /\ before \in SUBSET AllNotes /\ after \in SUBSET AllNotes /\ Ledgers(old) \in SUBSET AllNotes
      /\ Ledgers(new) \in SUBSET AllNotes
  BY LedgerNotesType
<1>2. Subsumes(after, before)
  BY AnswersKeep
<1>3. Subsumes(after, Ledgers(old))
  BY <1>1, <1>2, SubsumesAll
<1>4. Subsumes(after, notes)
  BY <1>1, <1>3, SubsumesAll
<1>5. ASSUME NEW word \in Ledgers(new)
      PROVE  word \in Ledgers(old) \cup notes \cup after
  <2>1. PICK one \in Devices : word \in Whole(new[one])
    BY <1>5 DEF Ledgers
  <2>2. CASE one # device
    <3>1. new[one] = old[one]
      BY <2>2 DEF Moves
    <3>2. QED
      BY <2>1, <3>1 DEF Ledgers
  <2>3. CASE one = device
    <3>1. PICK key \in Keys : word = Note(new[device], key) /\ Known(new[device][key])
      BY <2>1, <2>3 DEF Whole
    <3>2. CASE Note(new[device], key) = Note(old[device], key)
      <4>1. new[device][key].stamp = old[device][key].stamp
        BY <3>2, RowOfLedgers
      <4>2. Known(old[device][key])
        BY <3>1, <4>1 DEF Known
      <4>3. QED
        BY <3>1, <3>2, <4>2 DEF Ledgers, Whole
    <3>3. CASE new[device][key].owed
      BY <3>1, <3>3 DEF Answers, Answer, Owed, Whole
    <3>4. QED
      BY <3>1, <3>2, <3>3 DEF Moves
  <2>4. QED
    BY <2>2, <2>3
<1> HIDE DEF before, after
<1>6. Subsumes(after, after)
  BY <1>1, SubsumesItsOwn
<1>7. Subsumes(after, Ledgers(new))
  BY <1>3, <1>4, <1>5, <1>6 DEF Subsumes
<1>8. QED
  BY <1>7 DEF after

-----------------------------------------------------------------------------
(* Links, and the copies on their way to the server.                       *)

\* What is held of the log up to a cursor.
Copy(cursor, notes) == [cursor |-> cursor, notes |-> notes]

\* The compactions a device has asked for and the server has not taken.
Compactions(end) ==
  {Copy(end.says[i].through, end.says[i].notes) :
     i \in {j \in DOMAIN end.says : end.says[j].say = "compact"}}

\* What was appended, and whose answer is on its way.
Answering(end) == IF end.appended # 0 THEN end.inFlight ELSE {}

\* One append is said at a time, and is what is in flight until its answer is heard.
AppendsInTurn(end) ==
  /\ end.appended # 0 => end.inFlight # {}
  /\ \A i \in DOMAIN end.says : end.says[i].say = "append" =>
       /\ end.appended = 0 /\ end.inFlight # {} /\ end.says[i].notes = end.inFlight
       /\ \A j \in DOMAIN end.says : end.says[j].say = "append" => i = j

\* Nothing on a link is past the server, and a link that is down holds nothing.
LinkHolds(end, through, head) ==
  /\ ~end.up => end = Down
  /\ \A i \in DOMAIN end.notices : end.notices[i] <= through
  /\ \A copy \in Compactions(end) : copy.cursor <= head
  /\ AppendsInTurn(end)

\* A link that carries no more than it did, or these notes and copies.
LinkFollows(end, next, notes, copies) ==
  /\ Answering(next) \subseteq Answering(end)
  /\ Carried(next) \subseteq Carried(end) \cup notes
  /\ Compactions(next) \subseteq Compactions(end) \cup copies

\* What one more thing said adds to a link.
LEMMA SaysMore ==
  ASSUME NEW end \in AllLinks, NEW said \in AllSaid
  PROVE  LET next == [end EXCEPT !.says = Append(end.says, said)] IN
           /\ next \in AllLinks /\ next.says = Append(end.says, said)
           /\ Said(next) = Said(end) \cup said.notes
           /\ said.say # "compact" => Compactions(next) = Compactions(end)
           /\ Compactions(next) \subseteq Compactions(end) \cup {Copy(said.through, said.notes)}
<1> DEFINE says == end.says
           next == [end EXCEPT !.says = Append(says, said)]
<1>1. says \in Seq(AllSaid)
  BY DEF AllLinks
<1>2. Append(says, said) \in Seq(AllSaid)
      /\ Len(says) \in Nat /\ DOMAIN says = 1..Len(says)
      /\ DOMAIN Append(says, said) = 1..(Len(says) + 1)
      /\ Append(says, said)[Len(says) + 1] = said
      /\ \A i \in 1..Len(says) : Append(says, said)[i] = says[i]
  BY <1>1
<1>3. next \in AllLinks /\ next.says = Append(says, said)
  BY <1>2 DEF AllLinks
<1> HIDE DEF next
<1>4. \A i \in DOMAIN next.says : \/ i \in DOMAIN says /\ next.says[i] = says[i]
                               \/ next.says[i] = said
  BY <1>2, <1>3
<1>5. \A i \in DOMAIN says : i \in DOMAIN next.says /\ next.says[i] = says[i]
  BY <1>2, <1>3
<1>6. \E i \in DOMAIN next.says : next.says[i] = said
  <2>1. Len(says) + 1 \in DOMAIN next.says
    BY <1>2, <1>3
  <2>2. QED
    BY <1>2, <1>3, <2>1
<1>7. Said(next) = Said(end) \cup said.notes
  BY <1>4, <1>5, <1>6 DEF Said
<1>8. said.say # "compact" => Compactions(next) = Compactions(end)
  BY <1>4, <1>5 DEF Compactions
<1>9. Compactions(next) \subseteq Compactions(end) \cup {Copy(said.through, said.notes)}
  BY <1>4 DEF Compactions
<1>10. QED
  BY <1>3, <1>7, <1>8, <1>9 DEF next

LEMMA PushedFollows ==
  ASSUME NEW end \in AllLinks, NEW ledger \in [Keys -> AllRows], NEW through, NEW head,
         LinkHolds(end, through, head)
  PROVE  LET next == Pushed(end, ledger) IN
           /\ LinkHolds(next, through, head) /\ next.up = end.up
           /\ LinkFollows(end, next, Owed(ledger), {})
<1> DEFINE owed == Owed(ledger)
           said == [say |-> "append", through |-> 0, notes |-> owed]
           flying == [end EXCEPT !.inFlight = owed]
           next == [flying EXCEPT !.says = Append(flying.says, said)]
<1>1. CASE Pushed(end, ledger) = end
  BY <1>1 DEF LinkFollows
<1>2. CASE Pushed(end, ledger) # end
  <2>1. owed \in SUBSET AllNotes
    BY NotesOfType
  <2>2. end.up /\ end.inFlight = {} /\ owed # {}
        /\ Pushed(end, ledger) = [end EXCEPT !.inFlight = owed, !.says = Append(end.says, said)]
    BY <1>2 DEF Pushed
  <2> HIDE DEF owed
  <2>3. said \in AllSaid /\ said.say = "append" /\ said.notes = owed
    BY <2>1 DEF AllSaid
  <2>4. flying \in AllLinks /\ flying.says = end.says /\ flying.inFlight = owed
        /\ flying.up = end.up /\ flying.appended = end.appended /\ flying.notices = end.notices
    BY <2>1 DEF AllLinks
  <2>5. next = Pushed(end, ledger)
    BY <2>2, <2>4 DEF AllLinks
  <2> HIDE DEF said, flying
  <2>6. /\ next \in AllLinks /\ next.says = Append(end.says, said)
        /\ Said(next) = Said(flying) \cup owed /\ Compactions(next) = Compactions(flying)
    BY <2>3, <2>4, SaysMore
  <2>7. next.up /\ next.inFlight = owed /\ next.appended = end.appended
        /\ next.notices = end.notices
    BY <2>2, <2>4, <2>6 DEF AllLinks
  <2> HIDE DEF next
  <2>8. Said(flying) = Said(end) /\ Compactions(flying) = Compactions(end)
    BY <2>4 DEF Said, Compactions
  <2>9. end.appended = 0 /\ \A i \in DOMAIN end.says : end.says[i].say # "append"
    BY <2>2 DEF LinkHolds, AppendsInTurn
  <2>10. Answering(next) = Answering(end)
    BY <2>7, <2>9 DEF Answering
  <2>11. AppendsInTurn(next)
    <3>1. end.says \in Seq(AllSaid)
      BY DEF AllLinks
    <3>2. \A i \in DOMAIN next.says : \/ i \in DOMAIN end.says /\ next.says[i] = end.says[i]
                                      \/ i = Len(end.says) + 1 /\ next.says[i] = said
      BY <2>6, <3>1
    <3>3. \A i \in DOMAIN next.says : next.says[i].say = "append" =>
            i = Len(end.says) + 1 /\ next.says[i].notes = owed
      BY <2>3, <2>9, <3>2
    <3>4. QED
      BY <2>2, <2>7, <2>9, <3>3 DEF AppendsInTurn
  <2>12. LinkHolds(next, through, head)
    BY <2>6, <2>7, <2>8, <2>11 DEF LinkHolds
  <2>13. LinkFollows(end, next, owed, {})
    BY <2>6, <2>7, <2>8, <2>10 DEF LinkFollows, Carried
  <2>14. QED
    BY <2>2, <2>5, <2>7, <2>12, <2>13 DEF owed
<1>3. QED
  BY <1>1, <1>2

LEMMA CompactingFollows ==
  ASSUME NEW end \in AllLinks, NEW ledger \in [Keys -> AllRows], NEW cursor \in Nat, NEW since,
         NEW through, NEW head \in Nat, LinkHolds(end, through, head), end.up, cursor <= head
  PROVE  LET next == Compacting(end, cursor, since, ledger) IN
           /\ LinkHolds(next, through, head) /\ next.up
           /\ LinkFollows(end, next, Whole(ledger), {Copy(cursor, Whole(ledger))})
<1> DEFINE whole == Whole(ledger)
           said == [say |-> "compact", through |-> cursor, notes |-> whole]
           asking == [end EXCEPT !.compacting = cursor]
           next == [asking EXCEPT !.says = Append(asking.says, said)]
<1>1. CASE Compacting(end, cursor, since, ledger) = end
  BY <1>1 DEF LinkFollows
<1>2. CASE Compacting(end, cursor, since, ledger) # end
  <2>1. whole \in SUBSET AllNotes
    BY NotesOfType
  <2>2. Compacting(end, cursor, since, ledger)
          = [end EXCEPT !.compacting = cursor, !.says = Append(end.says, said)]
    BY <1>2 DEF Compacting
  <2> HIDE DEF whole
  <2>3. said \in AllSaid /\ said.say = "compact" /\ said.notes = whole /\ said.through = cursor
    BY <2>1 DEF AllSaid
  <2>4. asking \in AllLinks /\ asking.says = end.says /\ asking.inFlight = end.inFlight
        /\ asking.up = end.up /\ asking.appended = end.appended /\ asking.notices = end.notices
    BY DEF AllLinks
  <2>5. next = Compacting(end, cursor, since, ledger)
    BY <2>2, <2>4 DEF AllLinks
  <2> HIDE DEF said, asking
  <2>6. /\ next \in AllLinks /\ next.says = Append(end.says, said)
        /\ Said(next) = Said(asking) \cup whole
        /\ Compactions(next) \subseteq Compactions(asking) \cup {Copy(cursor, whole)}
    BY <2>3, <2>4, SaysMore
  <2>7. next.up /\ next.inFlight = end.inFlight /\ next.appended = end.appended
        /\ next.notices = end.notices
    BY <2>4, <2>6 DEF AllLinks
  <2> HIDE DEF next
  <2>8. Said(asking) = Said(end) /\ Compactions(asking) = Compactions(end)
    BY <2>4 DEF Said, Compactions
  <2>9. Answering(next) = Answering(end)
    BY <2>7 DEF Answering
  <2>10. AppendsInTurn(next)
    <3>1. end.says \in Seq(AllSaid)
      BY DEF AllLinks
    <3>2. \A i \in DOMAIN next.says : \/ i \in DOMAIN end.says /\ next.says[i] = end.says[i]
                                      \/ next.says[i] = said
      BY <2>6, <3>1
    <3>3. QED
      BY <2>3, <2>7, <3>2 DEF LinkHolds, AppendsInTurn
  <2>11. \A copy \in Compactions(next) : copy.cursor <= head
    <3>1. Copy(cursor, whole).cursor = cursor
      BY DEF Copy
    <3>2. QED
      BY <2>6, <2>8, <3>1 DEF LinkHolds
  <2>12. LinkHolds(next, through, head)
    BY <2>7, <2>10, <2>11 DEF LinkHolds
  <2>13. LinkFollows(end, next, whole, {Copy(cursor, whole)})
    BY <2>6, <2>7, <2>8, <2>9 DEF LinkFollows, Carried
  <2>14. QED
    BY <2>5, <2>7, <2>12, <2>13 DEF whole
<1>3. QED
  BY <1>1, <1>2

\* What a link says, and what of it awaits an answer, is all these lemmas are about.
LEMMA SameSaid ==
  ASSUME NEW end \in AllLinks, NEW next \in AllLinks, NEW through, NEW head,
         LinkHolds(end, through, head), next.up = end.up, end.up,
         next.says = end.says, next.inFlight = end.inFlight, next.appended = end.appended,
         \A i \in DOMAIN next.notices : next.notices[i] <= through
  PROVE  LinkHolds(next, through, head) /\ LinkFollows(end, next, {}, {})
<1>1. /\ Compactions(next) = Compactions(end) /\ Answering(next) = Answering(end)
      /\ Carried(next) = Carried(end)
  BY DEF Compactions, Answering, Carried, Said
<1>2. AppendsInTurn(next)
  BY DEF LinkHolds, AppendsInTurn
<1>3. QED
  BY <1>1, <1>2 DEF LinkHolds, LinkFollows

LEMMA CaughtUpFollows ==
  ASSUME NEW end \in AllLinks, NEW through, NEW head, NEW cursor,
         LinkHolds(end, through, head), end.up
  PROVE  LET next == CaughtUpThrough(end, cursor) IN
           /\ next \in AllLinks /\ next.up /\ LinkHolds(next, through, head)
           /\ LinkFollows(end, next, {}, {})
<1> DEFINE next == CaughtUpThrough(end, cursor)
<1>1. next \in AllLinks
  BY CaughtUpLink
<1>2. /\ next.up = end.up /\ next.says = end.says /\ next.inFlight = end.inFlight
      /\ next.appended = end.appended /\ next.notices = end.notices
  BY DEF CaughtUpThrough, AllLinks
<1> HIDE DEF next
<1>3. \A i \in DOMAIN next.notices : next.notices[i] <= through
  BY <1>2 DEF LinkHolds
<1>4. LinkHolds(next, through, head) /\ LinkFollows(end, next, {}, {})
  BY <1>1, <1>2, <1>3, SameSaid
<1>5. QED
  BY <1>1, <1>2, <1>4 DEF next

\* Following is followed.
LEMMA FollowsAll ==
  ASSUME NEW a, NEW b, NEW c, NEW notes, NEW copies,
         LinkFollows(a, b, {}, {}), LinkFollows(b, c, notes, copies)
  PROVE  LinkFollows(a, c, notes, copies)
  BY DEF LinkFollows

\* A link that is made, or broken, carries nothing.
LEMMA EmptyLink ==
  ASSUME NEW end, NEW before, NEW through, NEW head, end.says = <<>>, end.inFlight = {},
         end.appended = 0, end.notices = <<>>, end.up \/ end = Down
  PROVE  LinkHolds(end, through, head) /\ LinkFollows(before, end, {}, {})
<1>1. Compactions(end) = {} /\ Answering(end) = {} /\ Carried(end) = {}
  BY DEF Compactions, Answering, Carried, Said
<1>2. AppendsInTurn(end)
  BY DEF AppendsInTurn
<1>3. QED
  BY <1>1, <1>2 DEF LinkHolds, LinkFollows

\* What a server takes off a link.
LEMMA TakenOff ==
  ASSUME NEW end \in AllLinks, NEW through, NEW head, LinkHolds(end, through, head),
         end.says # <<>>
  PROVE  LET next == [end EXCEPT !.says = Tail(end.says)] IN
           /\ next \in AllLinks /\ next.up /\ LinkHolds(next, through, head)
           /\ LinkFollows(end, next, {}, {})
           /\ next.inFlight = end.inFlight /\ next.appended = end.appended
           /\ next.notices = end.notices
           /\ Head(end.says) \in AllSaid /\ Head(end.says).notes \subseteq Carried(end)
           /\ Head(end.says).say = "compact" =>
                Copy(Head(end.says).through, Head(end.says).notes) \in Compactions(end)
           /\ Head(end.says).say = "append" =>
                /\ end.inFlight = Head(end.says).notes /\ end.inFlight # {} /\ end.appended = 0
                /\ \A i \in DOMAIN next.says : next.says[i].say # "append"
<1> DEFINE next == [end EXCEPT !.says = Tail(end.says)]
<1>1. end.says \in Seq(AllSaid) /\ Down.says = <<>>
  BY DEF AllLinks, Down
<1>2. /\ Tail(end.says) \in Seq(AllSaid) /\ Head(end.says) \in AllSaid
      /\ 1 \in DOMAIN end.says /\ Head(end.says) = end.says[1]
      /\ \A i \in DOMAIN Tail(end.says) :
           /\ i + 1 \in DOMAIN end.says /\ i + 1 # 1
           /\ Tail(end.says)[i] = end.says[i + 1]
  BY <1>1
<1>3. /\ next \in AllLinks /\ next.says = Tail(end.says) /\ next.up = end.up
      /\ next.inFlight = end.inFlight /\ next.appended = end.appended
      /\ next.notices = end.notices
  BY <1>2 DEF AllLinks
<1> HIDE DEF next
<1>4. end.up
  BY <1>1 DEF LinkHolds
<1>5. \A i \in DOMAIN next.says : \E j \in DOMAIN end.says : j = i + 1 /\ next.says[i] = end.says[j]
  BY <1>2, <1>3
<1>6. Compactions(next) \subseteq Compactions(end)
  BY <1>5 DEF Compactions
<1>7. Carried(next) \subseteq Carried(end)
  BY <1>3, <1>5 DEF Carried, Said
<1>8. DOMAIN next.says \subseteq Nat
  BY <1>2, <1>3
<1>9. AppendsInTurn(next)
  <2>1. AppendsInTurn(end)
    BY DEF LinkHolds
  <2>2. ASSUME NEW i \in DOMAIN next.says, next.says[i].say = "append"
        PROVE  /\ next.appended = 0 /\ next.inFlight # {} /\ next.says[i].notes = next.inFlight
               /\ \A j \in DOMAIN next.says : next.says[j].say = "append" => i = j
    <3>1. i + 1 \in DOMAIN end.says /\ end.says[i + 1] = next.says[i]
      BY <1>5
    <3>2. ASSUME NEW j \in DOMAIN next.says, next.says[j].say = "append"
          PROVE  i = j
      <4>1. j + 1 \in DOMAIN end.says /\ end.says[j + 1] = next.says[j]
        BY <1>5
      <4>2. i + 1 = j + 1
        BY <2>1, <2>2, <3>1, <3>2, <4>1 DEF AppendsInTurn
      <4>3. QED
        BY <1>8, <4>2
    <3>3. QED
      BY <1>3, <2>1, <2>2, <3>1, <3>2 DEF AppendsInTurn
  <2>3. QED
    BY <1>3, <2>1, <2>2 DEF AppendsInTurn
<1>10. LinkHolds(next, through, head)
  BY <1>3, <1>4, <1>6, <1>9 DEF LinkHolds
<1>11. LinkFollows(end, next, {}, {})
  BY <1>3, <1>6, <1>7 DEF LinkFollows, Answering
<1>12. /\ Head(end.says).notes \subseteq Carried(end)
       /\ Head(end.says).say = "compact" =>
            Copy(Head(end.says).through, Head(end.says).notes) \in Compactions(end)
  BY <1>2 DEF Carried, Said, Compactions
<1>13. ASSUME Head(end.says).say = "append"
       PROVE  /\ end.inFlight = Head(end.says).notes /\ end.inFlight # {} /\ end.appended = 0
              /\ \A i \in DOMAIN next.says : next.says[i].say # "append"
  <2>1. end.says[1].say = "append" /\ AppendsInTurn(end)
    BY <1>2, <1>13 DEF LinkHolds
  <2>2. ASSUME NEW i \in DOMAIN next.says, next.says[i].say = "append"
        PROVE  FALSE
    <3>1. i + 1 \in DOMAIN end.says /\ end.says[i + 1].say = "append" /\ i + 1 # 1
      BY <1>2, <1>3, <2>2
    <3>2. QED
      BY <1>2, <2>1, <3>1 DEF AppendsInTurn
  <2>3. QED
    BY <1>2, <2>1, <2>2 DEF AppendsInTurn
<1>14. QED
  BY <1>2, <1>3, <1>4, <1>10, <1>11, <1>12, <1>13 DEF next

-----------------------------------------------------------------------------
(* The inductive invariant.                                                *)

\* The devices that have read a space, and those that read another than the server holds.
Readers == {device \in Devices : read[device].space # 0}
Astray == {device \in Readers : read[device].space # server.space}

\* Every device that is astray will find out when it links: its cursor is past the head.
Sound == \A device \in Astray : read[device].cursor > server.head

AllCopies == [cursor : Nat, notes : SUBSET AllNotes]

OwnCopy(device) == Copy(read[device].cursor, Whole(rows[device]))

\* Everything that holds what the log held up to a cursor: the snapshot, the devices that
\* read this space, and the compactions on their way.
Copies ==
  {Copy(server.snapshot.through, server.snapshot.notes)}
    \cup {OwnCopy(device) : device \in Readers \ Astray}
    \cup UNION {Compactions(link[device]) : device \in Devices}

\* A copy no older than the snapshot subsumes the log behind its cursor; with the log past
\* it, what was appended and is not answered yet; and with what devices still answer for,
\* every word.
UpToDate(copy) ==
  copy.cursor >= server.snapshot.through =>
    LET reach == copy.notes \cup Past(server.log, copy.cursor) IN
      /\ Subsumes(copy.notes, Behind(server.log, copy.cursor))
      /\ \A device \in Devices : Subsumes(reach, Answering(link[device]))
      /\ Subsumes(reach \cup Answers(rows, Astray), Ledgers(rows))

\* The log lies between the snapshot and the head, one record to a number.
ServerInOrder ==
  /\ server.space # 0 /\ server.snapshot.through <= server.head
  /\ server.snapshot.through = 0 => server.snapshot.notes = {}
  /\ \A record \in server.log : /\ server.snapshot.through < record.through
                                /\ record.through <= server.head
  /\ \A one, other \in server.log : one.through = other.through => one = other

\* A device reads the space it knows, never past its head.
ReadInOrder(reading, up, space, head) ==
  /\ reading.space <= space
  /\ reading.space = 0 => reading.cursor = 0
  /\ reading.space = space => reading.cursor <= head
  /\ up => reading.space # 0 /\ reading.cursor <= head

ReadsInOrder ==
  \A device \in Devices : ReadInOrder(read[device], link[device].up, server.space, server.head)

LinksInOrder ==
  \A device \in Devices : LinkHolds(link[device], server.snapshot.through, server.head)

\* What a device sent is in its ledger, or a later word is; what the snapshot holds is in
\* some ledger so.
Remembered ==
  /\ \A device \in Devices : Subsumes(Whole(rows[device]), Carried(link[device]))
  /\ \A record \in server.log : Subsumes(Whole(rows[record.from]), record.notes)
  /\ Subsumes(Ledgers(rows), server.snapshot.notes)
  /\ \A device \in Devices : OwesWhatItKnows(rows[device])

\* Should the server lose the space now, nothing is lost.
Survives == Subsumes(Answers(rows, Readers), Ledgers(rows))

CopiesAreUpToDate == Sound => \A copy \in Copies : UpToDate(copy)

InOrder == ServerInOrder /\ ReadsInOrder /\ LinksInOrder /\ Remembered

ReachInv == InOrder /\ Survives /\ CopiesAreUpToDate

-----------------------------------------------------------------------------
(* What a step of one device does to them, when the server stands.         *)

LEMMA RowsType ==
  ASSUME TypeOK
  PROVE  rows \in AllLedgers /\ \A device \in Devices : rows[device] \in [Keys -> AllRows]
  BY DEF TypeOK, AllLedgers

LEMMA NextRowsType ==
  ASSUME TypeOK'
  PROVE  rows' \in AllLedgers /\ \A device \in Devices : rows'[device] \in [Keys -> AllRows]
  BY DEF TypeOK, AllLedgers

LEMMA ReadingType ==
  ASSUME TypeOK, NEW device \in Devices
  PROVE  read[device].cursor \in Nat /\ read[device].space \in Nat /\ read[device].since \in Nat
  BY DEF TypeOK

LEMMA NextReadingType ==
  ASSUME TypeOK', NEW device \in Devices
  PROVE  read'[device].cursor \in Nat /\ read'[device].space \in Nat
  BY DEF TypeOK

LEMMA ServerType ==
  ASSUME TypeOK
  PROVE  /\ server.head \in Nat /\ server.space \in Nat /\ server.snapshot.through \in Nat
         /\ server.snapshot.notes \in SUBSET AllNotes /\ server.log \in SUBSET AllRecords
         /\ \A record \in server.log : /\ record.through \in Nat /\ record.from \in Devices
                                       /\ record.notes \in SUBSET AllNotes
  BY DEF TypeOK, AllSpaces, AllRecords

LEMMA NextServerType ==
  ASSUME TypeOK'
  PROVE  /\ server'.head \in Nat /\ server'.space \in Nat /\ server'.snapshot.through \in Nat
         /\ server'.snapshot.notes \in SUBSET AllNotes /\ server'.log \in SUBSET AllRecords
         /\ \A record \in server'.log : /\ record.through \in Nat /\ record.from \in Devices
                                        /\ record.notes \in SUBSET AllNotes
  BY DEF TypeOK, AllSpaces, AllRecords

LEMMA LinkNotesType ==
  ASSUME NEW end \in AllLinks
  PROVE  /\ Carried(end) \in SUBSET AllNotes /\ Answering(end) \in SUBSET AllNotes
         /\ Compactions(end) \in SUBSET AllCopies
<1>1. Carried(end) \in SUBSET AllNotes
  BY CarriedType
<1>2. Answering(end) \in SUBSET AllNotes
  BY DEF Answering, AllLinks
<1>3. ASSUME NEW i \in DOMAIN end.says
      PROVE  Copy(end.says[i].through, end.says[i].notes) \in AllCopies
  <2>1. end.says \in Seq(AllSaid)
    BY DEF AllLinks
  <2>2. end.says[i] \in AllSaid
    BY <2>1
  <2>3. QED
    BY <2>2 DEF AllSaid, Copy, AllCopies
<1>4. QED
  BY <1>1, <1>2, <1>3 DEF Compactions

LEMMA CopiesType ==
  ASSUME TypeOK
  PROVE  Copies \in SUBSET AllCopies
<1>1. Copy(server.snapshot.through, server.snapshot.notes) \in AllCopies
  BY ServerType DEF Copy, AllCopies
<1>2. ASSUME NEW device \in Devices
      PROVE  OwnCopy(device) \in AllCopies /\ Compactions(link[device]) \in SUBSET AllCopies
  <2>1. Whole(rows[device]) \in SUBSET AllNotes
    BY RowsType, LedgerNotesType
  <2>2. QED
    BY <2>1, ReadingType, LinkType, LinkNotesType DEF OwnCopy, Copy, AllCopies
<1>3. QED
  BY <1>1, <1>2 DEF Copies, Readers

\* Rows that only move on still stand for what they knew.
LEMMA WholeMovesOn ==
  ASSUME TypeOK, TypeOK', RowsMoved, NEW device \in Devices
  PROVE  Subsumes(Whole(rows'[device]), Whole(rows[device]))
<1> SUFFICES ASSUME NEW word \in Whole(rows[device])
             PROVE  \E note \in Whole(rows'[device]) : StandsFor(note, word)
  BY DEF Subsumes
<1> DEFINE key == word.key
<1>1. /\ rows[device] \in [Keys -> AllRows] /\ rows'[device] \in [Keys -> AllRows]
      /\ rows \in AllLedgers /\ rows' \in AllLedgers
  BY RowsType, NextRowsType
<1>2. key \in Keys /\ word = Note(rows[device], key) /\ Known(rows[device][key])
  BY <1>1, NoteOfWhole
<1> HIDE DEF key
<1>3. /\ Note(rows[device], key) \in AllNotes /\ Note(rows[device], key).key = key
      /\ Note(rows[device], key).stamp = rows[device][key].stamp
      /\ rows[device][key].stamp \in Stamps
  BY <1>1, <1>2, RowOfLedgers
<1>4. /\ Note(rows'[device], key) \in AllNotes /\ Note(rows'[device], key).key = key
      /\ Note(rows'[device], key).stamp = rows'[device][key].stamp
      /\ rows'[device][key] \in AllRows
  BY <1>1, <1>2, RowOfLedgers
<1>5. CASE Note(rows'[device], key) = Note(rows[device], key)
  <2>1. Known(rows'[device][key])
    BY <1>2, <1>3, <1>4, <1>5 DEF Known
  <2>2. QED
    BY <1>2, <1>3, <1>5, <2>1, StandsForItself DEF Whole
<1>6. CASE Later(rows'[device][key].stamp, rows[device][key].stamp)
  <2>1. Known(rows'[device][key])
    BY <1>3, <1>4, <1>6, LaterIsKnown
  <2>2. StandsFor(Note(rows'[device], key), word)
    BY <1>2, <1>3, <1>4, <1>6, LaterStandsFor
  <2>3. QED
    BY <1>2, <2>1, <2>2 DEF Whole
<1>7. QED
  BY <1>2, <1>5, <1>6 DEF RowsMoved

LEMMA LedgersMoveOn ==
  ASSUME TypeOK, TypeOK', RowsMoved
  PROVE  Subsumes(Ledgers(rows'), Ledgers(rows))
  BY WholeMovesOn DEF Ledgers, Subsumes

\* A step of one device, which the server has no part in.
DeviceStep(device) ==
  /\ UNCHANGED server
  /\ \A other \in Devices \ {device} :
       rows'[other] = rows[other] /\ read'[other] = read[other] /\ link'[other] = link[other]
  /\ OwesWhatItKnows(rows'[device])
  /\ LinkHolds(link'[device], server.snapshot.through, server.head)
  /\ LinkFollows(link[device], link'[device], Whole(rows'[device]),
                 IF link'[device].up THEN {Copy(read'[device].cursor, Whole(rows'[device]))} ELSE {})
  /\ ReadInOrder(read'[device], link'[device].up, server.space, server.head)
  /\ read[device].space # 0 => read'[device].space # 0
  /\ read'[device].space # read[device].space =>
       read[device].space = 0 \/ read[device].cursor > server.head
  /\ read'[device].cursor = read[device].cursor \/ read'[device].cursor <= server.head

LEMMA DeviceStepRemembers ==
  ASSUME TypeOK, TypeOK', RowsMoved, Remembered, NEW device \in Devices, DeviceStep(device)
  PROVE  Remembered'
<1>1. /\ rows \in AllLedgers /\ rows' \in AllLedgers
      /\ \A one \in Devices : /\ Whole(rows[one]) \in SUBSET AllNotes
                              /\ Whole(rows'[one]) \in SUBSET AllNotes
      /\ Ledgers(rows) \in SUBSET AllNotes /\ Ledgers(rows') \in SUBSET AllNotes
  BY RowsType, NextRowsType, LedgerNotesType
<1>2. \A one \in Devices : Carried(link[one]) \in SUBSET AllNotes
  BY LinkType, LinkNotesType
<1>3. server' = server
  BY DEF DeviceStep
<1>4. ASSUME NEW one \in Devices
      PROVE  Subsumes(Whole(rows'[one]), Carried(link'[one]))
  <2>1. Subsumes(Whole(rows'[one]), Carried(link[one]))
    BY <1>1, <1>2, WholeMovesOn, SubsumesAll DEF Remembered
  <2>2. Subsumes(Whole(rows'[one]), Whole(rows'[one]))
    BY <1>1, SubsumesItsOwn
  <2>3. Carried(link'[one]) \subseteq Carried(link[one]) \cup Whole(rows'[one])
    BY DEF DeviceStep, LinkFollows
  <2>4. QED
    BY <2>1, <2>2, <2>3 DEF Subsumes
<1>5. ASSUME NEW record \in server'.log
      PROVE  Subsumes(Whole(rows'[record.from]), record.notes)
  <2>1. /\ record.from \in Devices /\ record.notes \in SUBSET AllNotes
        /\ Subsumes(Whole(rows[record.from]), record.notes)
    BY <1>3, <1>5, ServerType DEF Remembered
  <2>2. QED
    BY <1>1, <2>1, WholeMovesOn, SubsumesAll
<1>6. Subsumes(Ledgers(rows'), server'.snapshot.notes)
  <2>1. Subsumes(Ledgers(rows), server.snapshot.notes) /\ server.snapshot.notes \in SUBSET AllNotes
    BY ServerType DEF Remembered
  <2>2. Subsumes(Ledgers(rows'), server.snapshot.notes)
    BY <1>1, <2>1, LedgersMoveOn, SubsumesAll
  <2>3. QED
    BY <1>3, <2>2
<1>7. \A one \in Devices : OwesWhatItKnows(rows'[one])
  BY DEF Remembered, DeviceStep
<1>8. QED
  BY <1>4, <1>5, <1>6, <1>7 DEF Remembered

LEMMA DeviceStepKeepsOrder ==
  ASSUME TypeOK, TypeOK', RowsMoved, InOrder, NEW device \in Devices, DeviceStep(device)
  PROVE  InOrder' /\ Readers \subseteq Readers' /\ (Sound' => Sound)
<1>1. server' = server
  BY DEF DeviceStep
<1>2. ServerInOrder'
  BY <1>1 DEF ServerInOrder, InOrder
<1>3. ReadsInOrder'
  BY <1>1 DEF ReadsInOrder, InOrder, DeviceStep
<1>4. LinksInOrder'
  BY <1>1 DEF LinksInOrder, InOrder, DeviceStep
<1>5. Remembered'
  BY DeviceStepRemembers DEF InOrder
<1>6. Readers \subseteq Readers'
  BY DEF Readers, DeviceStep
<1>7. ASSUME Sound', NEW one \in Astray
      PROVE  read[one].cursor > server.head
  <2>1. one \in Devices /\ read[one].space # 0 /\ read[one].space # server.space
    BY DEF Astray, Readers
  <2>2. /\ read[one].cursor \in Nat /\ read'[one].cursor \in Nat /\ server.head \in Nat
    BY <2>1, ReadingType, NextReadingType, ServerType
  <2>3. CASE one # device
    <3>1. read'[one] = read[one]
      BY <2>1, <2>3 DEF DeviceStep
    <3>2. one \in Astray'
      BY <1>1, <2>1, <3>1 DEF Astray, Readers
    <3>3. QED
      BY <1>1, <1>7, <3>1, <3>2 DEF Sound
  <2>4. CASE one = device
    <3>1. CASE read'[device].space # read[device].space
      BY <2>1, <2>4, <3>1 DEF DeviceStep
    <3>2. CASE read'[device].space = read[device].space
      <4>1. one \in Astray'
        BY <1>1, <2>1, <2>4, <3>2 DEF Astray, Readers
      <4>2. read'[device].cursor > server.head
        BY <1>1, <1>7, <2>4, <4>1 DEF Sound
      <4>3. read'[device].cursor = read[device].cursor
        BY <2>2, <2>4, <4>2 DEF DeviceStep
      <4>4. QED
        BY <2>4, <4>2, <4>3
    <3>3. QED
      BY <3>1, <3>2
  <2>5. QED
    BY <2>3, <2>4
<1>8. Sound' => Sound
  BY <1>7 DEF Sound
<1>9. QED
  BY <1>2, <1>3, <1>4, <1>5, <1>6, <1>8 DEF InOrder

\* The copies after a step of a device are those there were, but for its own.
LEMMA CopiesOfAStep ==
  ASSUME TypeOK, TypeOK', InOrder', Sound', NEW device \in Devices, DeviceStep(device),
         NEW copy \in Copies'
  PROVE  copy \in Copies \/ (device \in Readers' \ Astray' /\ copy = OwnCopy(device)')
<1>1. server' = server
  BY DEF DeviceStep
<1>2. CASE copy = Copy(server'.snapshot.through, server'.snapshot.notes)
  BY <1>1, <1>2 DEF Copies
<1>3. ASSUME NEW one \in Readers' \ Astray', copy = OwnCopy(one)'
      PROVE  copy \in Copies \/ (device \in Readers' \ Astray' /\ copy = OwnCopy(device)')
  <2>1. CASE one = device
    BY <1>3, <2>1
  <2>2. CASE one # device
    <3>1. one \in Devices
      BY DEF Readers
    <3>2. read'[one] = read[one] /\ rows'[one] = rows[one]
      BY <2>2, <3>1 DEF DeviceStep
    <3>3. one \in Readers \ Astray
      BY <1>1, <3>1, <3>2 DEF Readers, Astray
    <3>4. copy = OwnCopy(one)
      BY <1>3, <3>2 DEF OwnCopy
    <3>5. QED
      BY <3>3, <3>4 DEF Copies
  <2>3. QED
    BY <2>1, <2>2
<1>4. ASSUME NEW one \in Devices, copy \in Compactions(link'[one])
      PROVE  copy \in Copies \/ (device \in Readers' \ Astray' /\ copy = OwnCopy(device)')
  <2>1. CASE one # device
    <3>1. copy \in Compactions(link[one])
      BY <1>4, <2>1 DEF DeviceStep
    <3>2. QED
      BY <3>1 DEF Copies
  <2>2. CASE one = device
    <3>1. CASE copy \in Compactions(link[device])
      BY <3>1 DEF Copies
    <3>2. CASE copy \notin Compactions(link[device])
      <4>1. link'[device].up /\ copy = Copy(read'[device].cursor, Whole(rows'[device]))
        BY <1>4, <2>2, <3>2 DEF DeviceStep, LinkFollows
      <4>2. read'[device].space # 0 /\ read'[device].cursor <= server'.head
        BY <1>1, <4>1 DEF DeviceStep, ReadInOrder
      <4>3. device \in Readers'
        BY <4>2 DEF Readers
      <4>4. read'[device].cursor \in Nat /\ server'.head \in Nat
        BY NextReadingType, NextServerType
      <4>5. device \notin Astray'
        BY <4>2, <4>4 DEF Sound
      <4>6. QED
        BY <4>1, <4>3, <4>5 DEF OwnCopy
    <3>3. QED
      BY <3>1, <3>2
  <2>3. QED
    BY <2>1, <2>2
<1>5. QED
  BY <1>2, <1>3, <1>4 DEF Copies

\* The rows of the device stand, or notes that all are subsumed reach it.
RowsStep(device) ==
  \/ UNCHANGED rows
  \/ \E notes \in SUBSET AllNotes :
       Subsumes(Ledgers(rows), notes) /\ Moves(rows, rows', device, notes)

LEMMA AnswersGoOn ==
  ASSUME TypeOK, TypeOK', Remembered, Remembered', NEW device \in Devices, RowsStep(device),
         NEW held \in SUBSET AllNotes, NEW all,
         Subsumes(held \cup Answers(rows, all), Ledgers(rows))
  PROVE  Subsumes(held \cup Answers(rows', all), Ledgers(rows'))
<1>1. CASE UNCHANGED rows
  BY <1>1
<1>2. CASE \E notes \in SUBSET AllNotes :
             Subsumes(Ledgers(rows), notes) /\ Moves(rows, rows', device, notes)
  <2>1. PICK notes \in SUBSET AllNotes :
          Subsumes(Ledgers(rows), notes) /\ Moves(rows, rows', device, notes)
    BY <1>2
  <2>2. rows \in AllLedgers /\ rows' \in AllLedgers
    BY RowsType, NextRowsType
  <2>3. \A one \in Devices : OwesWhatItKnows(rows[one]) /\ OwesWhatItKnows(rows'[one])
    BY DEF Remembered
  <2>4. QED
    BY <2>1, <2>2, <2>3, LedgersMove
<1>3. QED
  BY <1>1, <1>2 DEF RowsStep

\* Whatever subsumes what the device awaits the answer of is good for as much as it was.
AnswersStand(device) ==
  \A held \in SUBSET AllNotes :
    Subsumes(held, Answering(link[device])) /\ Subsumes(held \cup Answers(rows, Astray), Ledgers(rows))
      => Subsumes(held \cup Answers(rows', Astray'), Ledgers(rows'))

LEMMA RowsStepAnswers ==
  ASSUME TypeOK, TypeOK', Remembered, Remembered', NEW device \in Devices, RowsStep(device),
         Astray' = Astray
  PROVE  AnswersStand(device)
  BY AnswersGoOn DEF AnswersStand

\* Something more or later than a copy that is up to date is so after the step.
LEMMA CopyGoesOn ==
  ASSUME TypeOK, TypeOK', Remembered, Remembered', NEW device \in Devices, DeviceStep(device),
         AnswersStand(device), NEW copy \in AllCopies, NEW later \in AllCopies,
         later.cursor = copy.cursor, Subsumes(later.notes, copy.notes), UpToDate(copy)
  PROVE  UpToDate(later)'
<1>1. server' = server
  BY DEF DeviceStep
<1> DEFINE past == Past(server.log, copy.cursor)
           reach == copy.notes \cup past
           next == later.notes \cup past
<1>2. CASE ~(copy.cursor >= server.snapshot.through)
  BY <1>1, <1>2 DEF UpToDate
<1>3. CASE copy.cursor >= server.snapshot.through
  <2>1. /\ copy.notes \in SUBSET AllNotes /\ later.notes \in SUBSET AllNotes
        /\ past \in SUBSET AllNotes /\ Behind(server.log, copy.cursor) \in SUBSET AllNotes
    BY ServerType, LogNotesType DEF AllCopies
  <2>2. reach \in SUBSET AllNotes /\ next \in SUBSET AllNotes
    BY <2>1
  <2>3. Subsumes(next, reach)
    BY <2>1, SubsumesTogether
  <2>4. /\ Subsumes(copy.notes, Behind(server.log, copy.cursor))
        /\ \A one \in Devices : Subsumes(reach, Answering(link[one]))
        /\ Subsumes(reach \cup Answers(rows, Astray), Ledgers(rows))
    BY <1>3 DEF UpToDate
  <2> HIDE DEF reach, next, past
  <2>5. Subsumes(later.notes, Behind(server.log, copy.cursor))
    BY <2>1, <2>4, SubsumesAll
  <2>6. ASSUME NEW one \in Devices
        PROVE  Subsumes(next, Answering(link'[one]))
    <3>1. Answering(link[one]) \in SUBSET AllNotes /\ Subsumes(reach, Answering(link[one]))
      BY <2>4, LinkType, LinkNotesType
    <3>2. Subsumes(next, Answering(link[one]))
      BY <2>2, <2>3, <3>1, SubsumesAll
    <3>3. Answering(link'[one]) \subseteq Answering(link[one])
      BY DEF DeviceStep, LinkFollows
    <3>4. QED
      BY <3>2, <3>3, SubsumesFewer
  <2>7. Subsumes(next \cup Answers(rows', Astray'), Ledgers(rows'))
    <3>1. Subsumes(reach \cup Answers(rows', Astray'), Ledgers(rows'))
      BY <2>2, <2>4 DEF AnswersStand
    <3>2. Answers(rows', Astray') \in SUBSET AllNotes /\ Ledgers(rows') \in SUBSET AllNotes
      BY NextRowsType, LedgerNotesType
    <3>3. Subsumes(next \cup Answers(rows', Astray'), reach \cup Answers(rows', Astray'))
      BY <2>2, <2>3, <3>2, SubsumesTogether
    <3>4. QED
      BY <2>2, <3>1, <3>2, <3>3, SubsumesAll
  <2>8. QED
    BY <1>1, <2>5, <2>6, <2>7 DEF UpToDate, next, past
<1>4. QED
  BY <1>2, <1>3

LEMMA CopiesGoOn ==
  ASSUME TypeOK, TypeOK', InOrder, InOrder', NEW device \in Devices, DeviceStep(device),
         AnswersStand(device), Sound' => Sound, CopiesAreUpToDate,
         Sound' => \A copy \in AllCopies :
                     device \in Readers' \ Astray' /\ copy = OwnCopy(device)' => UpToDate(copy)'
  PROVE  CopiesAreUpToDate'
<1> SUFFICES ASSUME Sound', NEW copy \in Copies'
             PROVE  UpToDate(copy)'
  BY DEF CopiesAreUpToDate
<1>1. copy \in AllCopies
  <2>1. Whole(rows'[device]) \in SUBSET AllNotes
    BY NextRowsType, LedgerNotesType
  <2>2. OwnCopy(device)' \in AllCopies
    BY <2>1, NextReadingType DEF OwnCopy, Copy, AllCopies
  <2>3. QED
    BY <2>2, CopiesType, CopiesOfAStep
<1>2. CASE copy \in Copies
  <2>1. UpToDate(copy)
    BY <1>2 DEF CopiesAreUpToDate
  <2>2. Subsumes(copy.notes, copy.notes)
    BY <1>1, SubsumesItsOwn DEF AllCopies
  <2>3. QED
    BY <1>1, <2>1, <2>2, CopyGoesOn DEF InOrder
<1>3. CASE device \in Readers' \ Astray' /\ copy = OwnCopy(device)'
  BY <1>1, <1>3
<1>4. QED
  BY <1>2, <1>3, CopiesOfAStep

LEMMA MoreAnswer ==
  ASSUME NEW of, NEW all, NEW more, all \subseteq more,
         \A device \in Devices : OwesWhatItKnows(of[device])
  PROVE  Answers(of, all) \subseteq Answers(of, more)
<1> SUFFICES ASSUME NEW device \in Devices
             PROVE  Answer(of[device], device \in all) \subseteq Answer(of[device], device \in more)
  BY DEF Answers
<1>1. Owed(of[device]) \subseteq Whole(of[device])
  BY OwedIsWhole
<1>2. QED
  BY <1>1 DEF Answer

LEMMA SurvivesGoesOn ==
  ASSUME TypeOK, TypeOK', Remembered, Remembered', NEW device \in Devices, RowsStep(device),
         Readers \subseteq Readers', Survives
  PROVE  Survives'
<1>1. {} \cup Answers(rows, Readers) = Answers(rows, Readers)
      /\ {} \cup Answers(rows', Readers) = Answers(rows', Readers)
  OBVIOUS
<1>2. Subsumes({} \cup Answers(rows, Readers), Ledgers(rows))
  BY <1>1 DEF Survives
<1>3. Subsumes({} \cup Answers(rows', Readers), Ledgers(rows'))
  BY <1>2, AnswersGoOn
<1>4. Subsumes(Answers(rows', Readers), Ledgers(rows'))
  BY <1>1, <1>3
<1>5. Answers(rows', Readers) \subseteq Answers(rows', Readers')
  BY MoreAnswer DEF Remembered
<1>6. Subsumes(Answers(rows', Readers'), Ledgers(rows'))
  BY <1>4, <1>5, MoreSubsume
<1>7. QED
  BY <1>6 DEF Survives

LEMMA AstrayStands ==
  ASSUME NEW device \in Devices, DeviceStep(device), read'[device].space = read[device].space
  PROVE  Astray' = Astray /\ Readers' = Readers
<1>1. \A one \in Devices : read'[one].space = read[one].space
  BY DEF DeviceStep
<1>2. server' = server
  BY DEF DeviceStep
<1>3. QED
  BY <1>1, <1>2 DEF Astray, Readers

\* A device whose copy now goes as far as one that was up to date, or not as far as the
\* snapshot.
OwnFollows(device) ==
  device \in Readers' \ Astray' =>
    \/ read'[device].cursor < server.snapshot.through
    \/ \E copy \in AllCopies : /\ copy \in Copies \/ UpToDate(copy)
                               /\ copy.cursor = read'[device].cursor
                               /\ Subsumes(Whole(rows'[device]), copy.notes)

LEMMA StepReaches ==
  ASSUME TypeOK, TypeOK', RowsMoved, ReachInv, NEW device \in Devices, DeviceStep(device),
         AnswersStand(device), Survives', Sound => OwnFollows(device)
  PROVE  ReachInv'
<1>1. InOrder' /\ (Sound' => Sound)
  BY DeviceStepKeepsOrder DEF ReachInv
<1>2. ASSUME Sound', NEW copy \in AllCopies, device \in Readers' \ Astray',
             copy = OwnCopy(device)'
      PROVE  UpToDate(copy)'
  <2>1. copy.cursor = read'[device].cursor /\ copy.notes = Whole(rows'[device])
    BY <1>2 DEF OwnCopy, Copy
  <2>2. CASE read'[device].cursor < server.snapshot.through
    <3>1. ~(copy.cursor >= server.snapshot.through)
      BY <2>1, <2>2, NextReadingType, ServerType
    <3>2. QED
      BY <3>1 DEF UpToDate, DeviceStep
  <2>3. CASE \E old \in AllCopies : /\ old \in Copies \/ UpToDate(old)
                                    /\ old.cursor = read'[device].cursor
                                    /\ Subsumes(Whole(rows'[device]), old.notes)
    <3>1. PICK old \in AllCopies : /\ old \in Copies \/ UpToDate(old)
                                   /\ old.cursor = read'[device].cursor
                                   /\ Subsumes(Whole(rows'[device]), old.notes)
      BY <2>3
    <3>2. UpToDate(old)
      BY <1>1, <1>2, <3>1 DEF ReachInv, CopiesAreUpToDate
    <3>3. QED
      BY <1>1, <2>1, <3>1, <3>2, CopyGoesOn DEF ReachInv, InOrder
  <2>4. QED
    BY <1>1, <1>2, <2>2, <2>3 DEF OwnFollows
<1>3. CopiesAreUpToDate'
  BY <1>1, <1>2, CopiesGoOn DEF ReachInv
<1>4. QED
  BY <1>1, <1>3 DEF ReachInv

LEMMA SameReading ==
  ASSUME TypeOK, TypeOK', RowsMoved, NEW device \in Devices, DeviceStep(device),
         read'[device].space = read[device].space, read'[device].cursor = read[device].cursor
  PROVE  OwnFollows(device)
<1> SUFFICES ASSUME device \in Readers' \ Astray'
             PROVE  \E copy \in AllCopies :
                      /\ copy \in Copies /\ copy.cursor = read'[device].cursor
                      /\ Subsumes(Whole(rows'[device]), copy.notes)
  BY DEF OwnFollows
<1> DEFINE copy == OwnCopy(device)
<1>1. copy \in Copies /\ copy \in AllCopies
  BY AstrayStands, CopiesType DEF Copies
<1>2. copy.cursor = read'[device].cursor /\ copy.notes = Whole(rows[device])
  BY DEF OwnCopy, Copy
<1>3. Subsumes(Whole(rows'[device]), copy.notes)
  BY <1>2, WholeMovesOn
<1> HIDE DEF copy
<1>4. QED
  BY <1>1, <1>2, <1>3

\* A device that reads nothing new leaves every copy as good as it was.
LEMMA QuietStep ==
  ASSUME TypeOK, TypeOK', RowsMoved, ReachInv, NEW device \in Devices, DeviceStep(device),
         RowsStep(device), read'[device].space = read[device].space,
         read'[device].cursor = read[device].cursor
  PROVE  ReachInv'
<1>1. InOrder' /\ Readers \subseteq Readers'
  BY DeviceStepKeepsOrder DEF ReachInv
<1>2. Astray' = Astray
  BY AstrayStands
<1>3. AnswersStand(device) /\ Survives'
  BY <1>1, <1>2, RowsStepAnswers, SurvivesGoesOn DEF ReachInv, InOrder
<1>4. QED
  BY <1>3, SameReading, StepReaches

-----------------------------------------------------------------------------
(* A look, and notes that arrive, move one ledger so.                      *)

\* What is stamped past the clock is later than every row.
LEMMA FreshIsLater ==
  ASSUME WordsInv, NEW device \in Devices, NEW key \in Keys, NEW stamp \in Stamps, NEW next \in Nat,
         Fresh(stamp, device, clock[device], next)
  PROVE  Later(stamp, rows[device][key].stamp)
<1>1. rows[device][key].stamp \in Stamps
  BY RowsType, RowOfLedgers DEF WordsInv
<1>2. rows[device][key].stamp.nanos <= clock[device] /\ clock[device] \in Nat
  BY DEF WordsInv, RowsBehindTheClock, TypeOK
<1>3. QED
  BY <1>1, <1>2 DEF Fresh, Later, Stamps

\* A row that stands, or is owed and fresh, is owed only if known.
LEMMA LookedOwes ==
  ASSUME WordsInv, NEW device \in Devices, NEW ledger \in [Keys -> AllRows], NEW next \in Nat,
         OwesWhatItKnows(rows[device]), NEW key \in Keys,
         \/ Note(ledger, key) = Note(rows[device], key) /\ ledger[key].owed = rows[device][key].owed
         \/ Fresh(ledger[key].stamp, device, clock[device], next) /\ ledger[key].owed
  PROVE  /\ \/ /\ Note(ledger, key) = Note(rows[device], key)
               /\ ledger[key].owed = rows[device][key].owed
            \/ Later(ledger[key].stamp, rows[device][key].stamp) /\ ledger[key].owed
         /\ ledger[key].owed => Known(ledger[key])
<1>1. /\ rows[device] \in [Keys -> AllRows] /\ rows[device][key] \in AllRows
      /\ rows[device][key].stamp \in Stamps
      /\ ledger[key] \in AllRows /\ ledger[key].stamp \in Stamps
  BY RowsType, RowOfLedgers DEF WordsInv, AllRows
<1>2. CASE Note(ledger, key) = Note(rows[device], key) /\ ledger[key].owed = rows[device][key].owed
  <2>1. ledger[key].stamp = rows[device][key].stamp
    BY <1>1, <1>2, NoteType
  <2>2. QED
    BY <1>2, <2>1 DEF OwesWhatItKnows, Known
<1>3. CASE Fresh(ledger[key].stamp, device, clock[device], next) /\ ledger[key].owed
  <2>1. Later(ledger[key].stamp, rows[device][key].stamp)
    BY <1>1, <1>3, FreshIsLater
  <2>2. Known(ledger[key])
    BY <1>1, <2>1, LaterIsKnown
  <2>3. QED
    BY <1>3, <2>1, <2>2
<1>4. QED
  BY <1>2, <1>3

LEMMA LookRows ==
  ASSUME WordsInv, NEW device \in Devices, OwesWhatItKnows(rows[device]), Looks(device)
  PROVE  Moves(rows, rows', device, {}) /\ OwesWhatItKnows(rows'[device])
<1> DEFINE marked == favourites[device] \cup TakenUp(device)
           settled == Settled(device)
           asked == Differing(marked, settled)
           ledger == Looked(device, marked, settled, clock[device], Wall[device], TRUE)
           ticked == Ticked(clock[device], Wall[device], asked)
<1>1. TypeOK
  BY DEF WordsInv
<1>2. /\ settled \in [Keys -> AllRows] /\ TakenUp(device) \in SUBSET Keys
      /\ \A key \in Keys : /\ Note(settled, key) = Note(rows[device], key)
                           /\ settled[key].owed = rows[device][key].owed
  BY <1>1, SettledRows
<1>3. /\ marked \in SUBSET Keys /\ clock[device] \in Nat /\ Wall[device] \in Nat
      /\ TRUE \in BOOLEAN
  BY <1>1, <1>2, LedgerAssumption DEF TypeOK, LedgerAssumption
<1>4. asked \in SUBSET Keys /\ IsFiniteSet(asked)
  BY <1>3, DifferingKeys
<1>5. ticked \in Nat
  BY <1>3, <1>4, TickedType
<1>6. /\ ledger \in [Keys -> AllRows]
      /\ \A key \in Keys :
           \/ Note(ledger, key) = Note(settled, key) /\ ledger[key].owed = settled[key].owed
           \/ Fresh(ledger[key].stamp, device, clock[device], ticked) /\ ledger[key].owed
  BY <1>2, <1>3, LookedRows
<1>7. rows' = [rows EXCEPT ![device] = ledger]
  BY DEF Looks
<1> HIDE DEF marked, settled, asked, ledger, ticked
<1>8. ASSUME NEW key \in Keys
      PROVE  /\ \/ /\ Note(ledger, key) = Note(rows[device], key)
                   /\ ledger[key].owed = rows[device][key].owed
                \/ Later(ledger[key].stamp, rows[device][key].stamp) /\ ledger[key].owed
             /\ ledger[key].owed => Known(ledger[key])
  BY <1>2, <1>5, <1>6, LookedOwes
<1>9. rows'[device] = ledger /\ \A other \in Devices \ {device} : rows'[other] = rows[other]
  BY <1>1, <1>7, RowsType DEF AllLedgers
<1>10. QED
  BY <1>8, <1>9 DEF Moves, OwesWhatItKnows

LEMMA ArrivedRows ==
  ASSUME WordsInv, NEW device \in Devices, OwesWhatItKnows(rows[device]),
         NEW notes \in SUBSET AllNotes, Arrives(device, notes)
  PROVE  Moves(rows, rows', device, notes) /\ OwesWhatItKnows(rows'[device])
<1> DEFINE marked == favourites[device]
           asked == Differing(marked, rows[device])
           ledger == Looked(device, marked, rows[device], clock[device], Wall[device], FALSE)
           ticked == Ticked(clock[device], Wall[device], asked)
           taken == Taken(device, ledger, notes)
<1>1. TypeOK
  BY DEF WordsInv
<1>2. /\ marked \in SUBSET Keys /\ rows[device] \in [Keys -> AllRows] /\ clock[device] \in Nat
      /\ Wall[device] \in Nat /\ FALSE \in BOOLEAN
  BY <1>1, LedgerAssumption DEF TypeOK, LedgerAssumption
<1>3. asked \in SUBSET Keys /\ IsFiniteSet(asked)
  BY <1>2, DifferingKeys
<1>4. ticked \in Nat
  BY <1>2, <1>3, TickedType
<1>5. /\ ledger \in [Keys -> AllRows]
      /\ \A key \in Keys :
           \/ Note(ledger, key) = Note(rows[device], key) /\ ledger[key].owed = rows[device][key].owed
           \/ Fresh(ledger[key].stamp, device, clock[device], ticked) /\ ledger[key].owed
  BY <1>2, LookedRows
<1>6. rows' = [rows EXCEPT ![device] = taken]
  BY DEF Arrives
<1> HIDE DEF marked, asked, ledger, ticked
<1>7. /\ taken \in [Keys -> AllRows]
      /\ \A key \in Keys : \/ taken[key] = ledger[key]
                           \/ /\ Note(taken, key) \in notes
                              /\ Later(taken[key].stamp, ledger[key].stamp)
  BY <1>5, TakenRows
<1> HIDE DEF taken
<1>8. ASSUME NEW key \in Keys
      PROVE  /\ \/ /\ Note(ledger, key) = Note(rows[device], key)
                   /\ ledger[key].owed = rows[device][key].owed
                \/ Later(ledger[key].stamp, rows[device][key].stamp) /\ ledger[key].owed
             /\ ledger[key].owed => Known(ledger[key])
  BY <1>4, <1>5, LookedOwes
<1>9. ASSUME NEW key \in Keys
      PROVE  /\ \/ /\ Note(taken, key) = Note(rows[device], key)
                   /\ taken[key].owed = rows[device][key].owed
                \/ /\ Later(taken[key].stamp, rows[device][key].stamp)
                   /\ taken[key].owed \/ Note(taken, key) \in notes
             /\ taken[key].owed => Known(taken[key])
  <2>1. /\ taken[key].stamp \in Stamps /\ ledger[key].stamp \in Stamps
        /\ rows[device][key].stamp \in Stamps /\ taken[key] \in AllRows
    BY <1>2, <1>5, <1>7 DEF AllRows
  <2>2. CASE taken[key] = ledger[key]
    <3>1. Note(taken, key) = Note(ledger, key)
      BY <2>2 DEF Note
    <3>2. QED
      BY <1>8, <2>2, <3>1
  <2>3. CASE Note(taken, key) \in notes /\ Later(taken[key].stamp, ledger[key].stamp)
    <3>1. Later(taken[key].stamp, rows[device][key].stamp)
      <4>1. CASE Note(ledger, key) = Note(rows[device], key)
        <5>1. ledger[key].stamp = rows[device][key].stamp
          BY <1>2, <1>5, <4>1, NoteType
        <5>2. QED
          BY <2>3, <5>1
      <4>2. CASE Later(ledger[key].stamp, rows[device][key].stamp)
        BY <2>1, <2>3, <4>2, LaterIsTransitive
      <4>3. QED
        BY <1>8, <4>1, <4>2
    <3>2. Known(taken[key])
      BY <2>1, <3>1, LaterIsKnown
    <3>3. QED
      BY <2>3, <3>1, <3>2
  <2>4. QED
    BY <1>7, <2>2, <2>3
<1>10. rows'[device] = taken /\ \A other \in Devices \ {device} : rows'[other] = rows[other]
  BY <1>1, <1>6, RowsType DEF AllLedgers
<1>11. QED
  BY <1>9, <1>10 DEF Moves, OwesWhatItKnows

-----------------------------------------------------------------------------
(* One note of a recording to a record, a snapshot and what is said.       *)

\* Known words, one to a recording.
Sheet(notes) ==
  /\ \A one, other \in notes : one.key = other.key => one = other
  /\ \A note \in notes : note.stamp # NoStamp

SaysOf(end) == {end.says[i].notes : i \in DOMAIN end.says}

\* What is logged, held and said is a sheet each.
OneNoteAKey ==
  /\ Sheet(server.snapshot.notes)
  /\ \A record \in server.log : Sheet(record.notes)
  /\ \A device \in Devices : \A notes \in SaysOf(link[device]) : Sheet(notes)

LEMMA LedgerSheets ==
  ASSUME NEW ledger \in [Keys -> AllRows], OwesWhatItKnows(ledger)
  PROVE  Sheet(Whole(ledger)) /\ Sheet(Owed(ledger))
<1>1. ASSUME NEW note \in Whole(ledger)
      PROVE  note = Note(ledger, note.key) /\ note.stamp # NoStamp
  <2>1. /\ note.key \in Keys /\ note = Note(ledger, note.key) /\ Known(ledger[note.key])
        /\ ledger[note.key] \in AllRows
    BY NoteOfWhole
  <2>2. note.stamp = ledger[note.key].stamp
    BY <2>1, NoteType
  <2>3. QED
    BY <2>1, <2>2 DEF Known
<1>2. Sheet(Whole(ledger))
  BY <1>1 DEF Sheet
<1>3. QED
  BY <1>2, OwedIsWhole DEF Sheet

\* Of a sheet that arrives, each note is taken, or an earlier word than is held.
LEMMA TakenCovers ==
  ASSUME NEW device \in Devices, NEW ledger \in [Keys -> AllRows], NEW notes \in SUBSET AllNotes,
         Sheet(notes)
  PROVE  Subsumes(Whole(Taken(device, ledger, notes)), notes)
<1> DEFINE taken == Taken(device, ledger, notes)
           won == Winning(ledger, notes)
<1> SUFFICES ASSUME NEW note \in notes
             PROVE  \E word \in Whole(taken) : StandsFor(word, note)
  BY DEF Subsumes
<1>1. note \in AllNotes /\ note.key \in Keys /\ note.stamp \in Stamps /\ note.stamp # NoStamp
  BY DEF Sheet, AllNotes
<1>2. /\ taken \in [Keys -> AllRows] /\ taken[note.key] \in AllRows
      /\ taken[note.key].stamp \in Stamps
      /\ Note(taken, note.key) \in AllNotes /\ Note(taken, note.key).key = note.key
      /\ Note(taken, note.key).stamp = taken[note.key].stamp
  BY <1>1, TakenRows, NoteType DEF AllRows
<1>3. ~Later(note.stamp, taken[note.key].stamp)
  <2>1. CASE note \in won
    <3>1. \A other \in won : other.key = note.key => other = note
      BY DEF Sheet, Winning
    <3>2. (CHOOSE other \in won : other.key = note.key) = note
      BY <2>1, <3>1
    <3>3. taken[note.key].stamp = note.stamp
      BY <1>1, <2>1, <3>2 DEF Taken
    <3>4. QED
      BY <1>1, <3>3 DEF Later, Stamps
  <2>2. CASE note \notin won
    <3>1. ~Later(note.stamp, ledger[note.key].stamp)
      BY <2>2 DEF Winning
    <3>2. ~\E other \in won : other.key = note.key
      BY <2>2 DEF Sheet, Winning
    <3>3. taken[note.key] = ledger[note.key]
      BY <1>1, <3>2 DEF Taken
    <3>4. QED
      BY <3>1, <3>3
  <2>3. QED
    BY <2>1, <2>2
<1> HIDE DEF taken
<1>4. Known(taken[note.key])
  BY <1>1, <1>2, <1>3 DEF Known, NoStamp, Later, Stamps
<1>5. Note(taken, note.key) \in Whole(taken)
  BY <1>1, <1>4 DEF Whole
<1>6. StandsFor(Note(taken, note.key), note)
  BY <1>2, <1>3 DEF StandsFor
<1>7. QED
  BY <1>5, <1>6

-----------------------------------------------------------------------------
(* Steps that read nothing of the log.                                     *)

\* What is known of a step from the words alone.
Going == WordsInv /\ ReachInv /\ OneNoteAKey /\ TypeOK' /\ RowsMoved

LEMMA ReachStands ==
  ASSUME ReachInv, UNCHANGED <<rows, read, link, server>>
  PROVE  ReachInv'
  BY DEF ReachInv, InOrder, ServerInOrder, ReadsInOrder, LinksInOrder, Remembered, Survives,
     CopiesAreUpToDate, Sound, Astray, Readers, Copies, OwnCopy, UpToDate

LEMMA FollowsMore ==
  ASSUME NEW a, NEW b, NEW notes, NEW copies, NEW moreNotes, NEW moreCopies,
         LinkFollows(a, b, notes, copies), notes \subseteq moreNotes, copies \subseteq moreCopies
  PROVE  LinkFollows(a, b, moreNotes, moreCopies)
  BY DEF LinkFollows

LEMMA FollowsItself ==
  ASSUME NEW end, NEW notes, NEW copies
  PROVE  LinkFollows(end, end, notes, copies)
  BY DEF LinkFollows

LEMMA OneLink ==
  ASSUME TypeOK, NEW device \in Devices, NEW end, SetLink(device, end)
  PROVE  link'[device] = end /\ \A other \in Devices \ {device} : link'[other] = link[other]
  BY DEF TypeOK, SetLink

\* A step of one device that reads nothing, and says no more than it owes.
LEMMA QuietDevice ==
  ASSUME Going, NEW device \in Devices, NEW end, SetLink(device, end), UNCHANGED server,
         \A other \in Devices \ {device} : rows'[other] = rows[other] /\ read'[other] = read[other],
         OwesWhatItKnows(rows'[device]),
         LinkHolds(end, server.snapshot.through, server.head),
         NEW notes \in SUBSET Whole(rows'[device]), LinkFollows(link[device], end, notes, {}),
         end.up => link[device].up,
         read'[device].space = read[device].space, read'[device].cursor = read[device].cursor
  PROVE  DeviceStep(device)
<1>1. link'[device] = end /\ \A other \in Devices \ {device} : link'[other] = link[other]
  BY OneLink DEF Going, WordsInv
<1>2. LinkFollows(link[device], end, Whole(rows'[device]),
                  IF end.up THEN {Copy(read'[device].cursor, Whole(rows'[device]))} ELSE {})
  BY FollowsMore
<1>3. ReadInOrder(read[device], link[device].up, server.space, server.head)
  BY DEF Going, ReachInv, InOrder, ReadsInOrder
<1>4. ReadInOrder(read'[device], end.up, server.space, server.head)
  BY <1>3 DEF ReadInOrder
<1>5. QED
  BY <1>1, <1>2, <1>4 DEF DeviceStep

LEMMA OwnsUp ==
  ASSUME Going, NEW device \in Devices
  PROVE  /\ OwesWhatItKnows(rows[device]) /\ link[device] \in AllLinks
         /\ LinkHolds(link[device], server.snapshot.through, server.head)
         /\ Subsumes(Whole(rows[device]), Carried(link[device]))
         /\ ReadInOrder(read[device], link[device].up, server.space, server.head)
         /\ rows[device] \in [Keys -> AllRows] /\ rows'[device] \in [Keys -> AllRows]
         /\ server.head \in Nat /\ server.space \in Nat /\ server.snapshot.through \in Nat
         /\ read[device].cursor \in Nat /\ read[device].space \in Nat
<1>1. TypeOK /\ TypeOK'
  BY DEF Going, WordsInv
<1>2. QED
  BY <1>1, LinkType, RowsType, NextRowsType, ServerType, ReadingType
     DEF Going, ReachInv, InOrder, Remembered, LinksInOrder, ReadsInOrder

LEMMA EditReaches ==
  ASSUME Going, NEW device \in Devices, NEW key \in Keys,
         Edit(device, key) \/ Land(device, key)
  PROVE  ReachInv'
  BY ReachStands DEF Edit, Land, kept, Going

LEMMA LookReaches ==
  ASSUME Going, NEW device \in Devices, Look(device)
  PROVE  ReachInv'
<1>1. Moves(rows, rows', device, {}) /\ OwesWhatItKnows(rows'[device])
  BY LookRows, OwnsUp DEF Going, Look
<1>2. UNCHANGED <<read, server>>
  BY DEF Look
<1>4. \A other \in Devices \ {device} : rows'[other] = rows[other]
  BY <1>1 DEF Moves
<1> DEFINE end == Pushed(link[device], rows'[device])
<1>5. SetLink(device, end)
  BY DEF Look
<1>6. /\ LinkHolds(end, server.snapshot.through, server.head) /\ end.up = link[device].up
      /\ LinkFollows(link[device], end, Owed(rows'[device]), {})
  BY OwnsUp, PushedFollows
<1>7. Owed(rows'[device]) \in SUBSET Whole(rows'[device])
  BY <1>1, OwedIsWhole
<1> HIDE DEF end
<1>8. DeviceStep(device)
  BY <1>1, <1>2, <1>4, <1>5, <1>6, <1>7, QuietDevice
<1>9. RowsStep(device)
  BY <1>1 DEF RowsStep, Subsumes
<1>10. QED
  BY <1>2, <1>8, <1>9, QuietStep DEF Going, WordsInv

LEMMA TellReaches ==
  ASSUME Going, NEW teller \in Devices, NEW device \in Devices, Tell(teller, device)
  PROVE  ReachInv'
<1> DEFINE notes == Whole(rows[teller])
<1>1. notes \in SUBSET AllNotes /\ notes \subseteq Ledgers(rows) /\ Ledgers(rows) \in SUBSET AllNotes
  BY RowsType, LedgerNotesType DEF Going, WordsInv, Ledgers
<1>2. Subsumes(Ledgers(rows), notes)
  BY <1>1, SubsumesItsOwn
<1>3. Arrives(device, notes) /\ UNCHANGED <<read, link, server>>
  BY DEF Tell, Arrived
<1> HIDE DEF notes
<1>4. Moves(rows, rows', device, notes) /\ OwesWhatItKnows(rows'[device])
  BY <1>1, <1>3, ArrivedRows, OwnsUp DEF Going
<1>5. SetLink(device, link[device])
  BY <1>3 DEF SetLink, Going, WordsInv, TypeOK
<1>6. LinkFollows(link[device], link[device], {}, {}) /\ {} \in SUBSET Whole(rows'[device])
  BY FollowsItself
<1>7. \A other \in Devices \ {device} : rows'[other] = rows[other]
  BY <1>4 DEF Moves
<1>8. DeviceStep(device)
  BY <1>3, <1>4, <1>5, <1>6, <1>7, OwnsUp, QuietDevice
<1>9. RowsStep(device)
  BY <1>1, <1>2, <1>4 DEF RowsStep
<1>10. QED
  BY <1>3, <1>8, <1>9, QuietStep DEF Going, WordsInv

\* A link that says nothing new, of a device whose ledger stands.
LEMMA LinkReaches ==
  ASSUME Going, NEW device \in Devices, NEW end, SetLink(device, end),
         UNCHANGED <<rows, server>>,
         \A other \in Devices \ {device} : read'[other] = read[other],
         LinkHolds(end, server.snapshot.through, server.head),
         LinkFollows(link[device], end, Owed(rows[device]), {}), end.up => link[device].up,
         read'[device].space = read[device].space, read'[device].cursor = read[device].cursor
  PROVE  ReachInv'
<1>1. OwesWhatItKnows(rows'[device]) /\ Owed(rows[device]) \in SUBSET Whole(rows'[device])
  BY OwnsUp, OwedIsWhole
<1>2. DeviceStep(device)
  BY <1>1, QuietDevice
<1>3. RowsStep(device)
  BY DEF RowsStep
<1>4. QED
  BY <1>2, <1>3, QuietStep DEF Going, WordsInv

LEMMA BreakReaches ==
  ASSUME Going, NEW device \in Devices, Break(device) \/ Die(device)
  PROVE  ReachInv'
<1>1. SetLink(device, Down) /\ UNCHANGED <<rows, read, server>>
  BY DEF Break, Die, kept
<1>2. /\ Down.says = <<>> /\ Down.inFlight = {} /\ Down.appended = 0 /\ Down.notices = <<>>
      /\ ~Down.up
  BY DEF Down
<1>3. /\ LinkHolds(Down, server.snapshot.through, server.head)
      /\ LinkFollows(link[device], Down, {}, {})
  BY <1>2, EmptyLink
<1>4. LinkFollows(link[device], Down, Owed(rows[device]), {})
  BY <1>3, FollowsMore
<1>5. QED
  BY <1>1, <1>2, <1>3, <1>4, LinkReaches

\* What may be reaching a device is known already, one note to a recording.
LEMMA ReachingIsKnown ==
  ASSUME TypeOK, ReachInv, OneNoteAKey, NEW device \in Devices, NEW told \in Reaching(device)
  PROVE  Sheet(told) /\ told \in SUBSET AllNotes /\ Subsumes(Ledgers(rows), told)
<1>1. told \in SUBSET AllNotes /\ Ledgers(rows) \in SUBSET AllNotes /\ rows \in AllLedgers
  BY ReachingWords, LedgerNotesType, RowsType
<1>2. CASE told = server.snapshot.notes
  BY <1>1, <1>2 DEF OneNoteAKey, ReachInv, InOrder, Remembered
<1>3. CASE \E record \in server.log : told = record.notes
  <2>1. PICK record \in server.log : told = record.notes
    BY <1>3
  <2>2. Sheet(told) /\ record.from \in Devices /\ Subsumes(Whole(rows[record.from]), told)
    BY <2>1, ServerType DEF OneNoteAKey, ReachInv, InOrder, Remembered
  <2>3. QED
    BY <1>1, <2>2, MoreSubsume DEF Ledgers
<1>4. CASE \E teller \in Devices : told = Whole(rows[teller])
  <2>1. PICK teller \in Devices : told = Whole(rows[teller])
    BY <1>4
  <2>2. told \subseteq Ledgers(rows)
    BY <2>1 DEF Ledgers
  <2>3. OwesWhatItKnows(rows[teller]) /\ rows[teller] \in [Keys -> AllRows]
    BY RowsType DEF ReachInv, InOrder, Remembered
  <2>4. Sheet(told)
    BY <2>1, <2>3, LedgerSheets
  <2>5. QED
    BY <1>1, <2>2, <2>4, SubsumesItsOwn
<1>5. QED
  BY <1>1, <1>2, <1>3, <1>4 DEF Reaching, RecordsPast

\* A death once some notes were taken in: its link is lost, and its cursor stands.
LEMMA DieBeforeTheClockReaches ==
  ASSUME Going, NEW device \in Devices, NEW notes \in SUBSET AllNotes,
         Subsumes(Ledgers(rows), notes),
         Moves(rows, rows', device, notes), OwesWhatItKnows(rows'[device]),
         SetLink(device, Down), UNCHANGED <<read, server>>
  PROVE  ReachInv'
<1>1. /\ Down.says = <<>> /\ Down.inFlight = {} /\ Down.appended = 0 /\ Down.notices = <<>>
      /\ ~Down.up
  BY DEF Down
<1>2. /\ LinkHolds(Down, server.snapshot.through, server.head)
      /\ LinkFollows(link[device], Down, {}, {}) /\ {} \in SUBSET Whole(rows'[device])
  BY <1>1, EmptyLink
<1>3. \A other \in Devices \ {device} : rows'[other] = rows[other] /\ read'[other] = read[other]
  BY DEF Moves
<1>4. read'[device].space = read[device].space /\ read'[device].cursor = read[device].cursor
  OBVIOUS
<1>5. DeviceStep(device)
  BY <1>1, <1>2, <1>3, <1>4, QuietDevice
<1>6. RowsStep(device)
  BY DEF RowsStep
<1>7. QED
  BY <1>4, <1>5, <1>6, QuietStep DEF Going, WordsInv

LEMMA DieWhileLookingReaches ==
  ASSUME Going, NEW device \in Devices, DieWhileLooking(device)
  PROVE  ReachInv'
<1>1. Moves(rows, rows', device, {}) /\ OwesWhatItKnows(rows'[device])
  BY LookRows, OwnsUp DEF Going, DieWhileLooking
<1>2. SetLink(device, Down) /\ UNCHANGED <<read, server>>
  BY DEF DieWhileLooking, DieBeforeTheClock
<1>3. Subsumes(Ledgers(rows), {}) /\ {} \in SUBSET AllNotes
  BY DEF Subsumes
<1>4. QED
  BY <1>1, <1>2, <1>3, DieBeforeTheClockReaches

\* The notes that arrived before the death are some of what was reaching the device.
LEMMA DieWhileHearingArrives ==
  ASSUME WordsInv, ReachInv, OneNoteAKey, NEW device \in Devices, DieWhileHearing(device)
  PROVE  /\ SetLink(device, Down) /\ UNCHANGED <<read, server>>
         /\ \E notes \in SUBSET AllNotes :
              /\ Arrives(device, notes) /\ Sheet(notes) /\ notes \in SUBSET Words
              /\ Subsumes(Ledgers(rows), notes)
<1>1. PICK told \in Reaching(device) : \E notes \in SUBSET told :
        /\ Arrives(device, notes)
        /\ \E nanos \in ArrivedAt(device, notes) : DieBeforeTheClock(device, nanos)
  BY DEF DieWhileHearing
<1>2. PICK notes \in SUBSET told :
        /\ Arrives(device, notes)
        /\ \E nanos \in ArrivedAt(device, notes) : DieBeforeTheClock(device, nanos)
  BY <1>1
<1>3. SetLink(device, Down) /\ UNCHANGED <<read, server>>
  BY <1>2 DEF DieBeforeTheClock
<1>4. TypeOK
  BY DEF WordsInv
<1>5. Sheet(told) /\ told \in SUBSET AllNotes /\ told \subseteq Words /\ Subsumes(Ledgers(rows), told)
  BY <1>4, ReachingIsKnown, ReachingWords
<1>6. Sheet(notes) /\ notes \in SUBSET AllNotes /\ notes \in SUBSET Words
  BY <1>5 DEF Sheet
<1>7. Subsumes(Ledgers(rows), notes)
  BY <1>5 DEF Subsumes
<1>8. QED
  BY <1>2, <1>3, <1>6, <1>7

LEMMA DieWhileHearingReaches ==
  ASSUME Going, NEW device \in Devices, DieWhileHearing(device)
  PROVE  ReachInv'
<1>1. SetLink(device, Down) /\ UNCHANGED <<read, server>>
  BY DieWhileHearingArrives DEF Going
<1>2. PICK notes \in SUBSET AllNotes :
        Arrives(device, notes) /\ Subsumes(Ledgers(rows), notes)
  BY DieWhileHearingArrives DEF Going
<1>3. Moves(rows, rows', device, notes) /\ OwesWhatItKnows(rows'[device])
  BY <1>2, ArrivedRows, OwnsUp DEF Going
<1>4. QED
  BY <1>1, <1>2, <1>3, DieBeforeTheClockReaches

\* A link that is not down is up.
LEMMA LinkIsUp ==
  ASSUME Going, NEW device \in Devices,
         \/ link[device].says # <<>> \/ link[device].notices # <<>>
         \/ link[device].appended # 0 \/ link[device].stale
  PROVE  link[device].up
  BY OwnsUp DEF LinkHolds, Down

LEMMA HearStaleReaches ==
  ASSUME Going, NEW device \in Devices, HearStale(device)
  PROVE  ReachInv'
<1> DEFINE end == [link[device] EXCEPT !.compacting = 0, !.stale = FALSE]
<1>1. SetLink(device, end) /\ UNCHANGED <<rows, read, server>> /\ link[device].up
  BY LinkIsUp DEF HearStale, kept
<1>2. /\ end \in AllLinks /\ end.up = link[device].up /\ end.says = link[device].says
      /\ end.inFlight = link[device].inFlight /\ end.appended = link[device].appended
      /\ end.notices = link[device].notices
  BY OwnsUp DEF AllLinks
<1> HIDE DEF end
<1>3. \A i \in DOMAIN end.notices : end.notices[i] <= server.snapshot.through
  BY <1>2, OwnsUp DEF LinkHolds
<1>4. LinkHolds(end, server.snapshot.through, server.head) /\ LinkFollows(link[device], end, {}, {})
  BY <1>1, <1>2, <1>3, OwnsUp, SameSaid
<1>5. LinkFollows(link[device], end, Owed(rows[device]), {})
  BY <1>4, FollowsMore
<1>6. QED
  BY <1>1, <1>4, <1>5, LinkReaches

LEMMA RefuseCompactReaches ==
  ASSUME Going, NEW device \in Devices, RefuseCompact(device)
  PROVE  ReachInv'
<1> DEFINE took == [link[device] EXCEPT !.says = Tail(link[device].says)]
           end == [took EXCEPT !.stale = TRUE]
<1>1. SetLink(device, end) /\ UNCHANGED <<rows, read, server>> /\ link[device].says # <<>>
  BY DEF RefuseCompact, TakesOf, kept, Took
<1>2. link[device].up
  BY <1>1, LinkIsUp
<1>3. /\ took \in AllLinks /\ took.up
      /\ LinkHolds(took, server.snapshot.through, server.head)
      /\ LinkFollows(link[device], took, {}, {})
  BY <1>1, OwnsUp, TakenOff
<1> HIDE DEF took
<1>4. /\ end \in AllLinks /\ end.up = took.up /\ end.says = took.says
      /\ end.inFlight = took.inFlight /\ end.appended = took.appended
      /\ end.notices = took.notices
  BY <1>3 DEF AllLinks
<1> HIDE DEF end
<1>5. \A i \in DOMAIN end.notices : end.notices[i] <= server.snapshot.through
  BY <1>3, <1>4 DEF LinkHolds
<1>6. LinkHolds(end, server.snapshot.through, server.head) /\ LinkFollows(took, end, {}, {})
  BY <1>3, <1>4, <1>5, SameSaid
<1>7. LinkFollows(link[device], end, Owed(rows[device]), {})
  BY <1>3, <1>6, FollowsAll, FollowsMore
<1>8. QED
  BY <1>1, <1>2, <1>6, <1>7, LinkReaches

\* How far a device has read after it reads to there.
LEMMA ReadTo ==
  ASSUME TypeOK, NEW device \in Devices, NEW through \in Nat, NEW since, Read(device, through, since)
  PROVE  /\ read'[device].space = read[device].space
         /\ read'[device].cursor = Greatest(read[device].cursor, through)
         /\ \A other \in Devices \ {device} : read'[other] = read[other]
  BY DEF Read, TypeOK

LEMMA HearCompactedReaches ==
  ASSUME Going, NEW device \in Devices, HearCompacted(device)
  PROVE  ReachInv'
<1> DEFINE notices == link[device].notices
           through == Head(notices)
           end == [link[device] EXCEPT !.notices = Tail(notices)]
           mine == [end EXCEPT !.compacting = 0]
           asking == IF end.compacting = through THEN mine ELSE Pushed(end, rows[device])
<1>1. /\ SetLink(device, asking) /\ UNCHANGED <<rows, server>> /\ Read(device, through, 0)
      /\ notices # <<>> /\ HasRead(device)
  BY DEF HearCompacted, kept
<1>2. link[device].up
  BY <1>1, LinkIsUp
<1>3. notices \in Seq(Nat)
  BY OwnsUp DEF AllLinks
<1>4. \A i \in DOMAIN notices : notices[i] <= server.snapshot.through
  BY OwnsUp DEF LinkHolds
<1> HIDE DEF notices
<1>5. /\ through \in Nat /\ through <= server.snapshot.through /\ Tail(notices) \in Seq(Nat)
      /\ \A i \in DOMAIN Tail(notices) : Tail(notices)[i] <= server.snapshot.through
  BY <1>1, <1>3, <1>4
<1>6. through <= read[device].cursor
  BY <1>1, <1>5, OwnsUp DEF HasRead, BehindTheSnapshot
<1>7. /\ read'[device].space = read[device].space /\ read'[device].cursor = read[device].cursor
      /\ \A other \in Devices \ {device} : read'[other] = read[other]
  <2>1. Greatest(read[device].cursor, through) = read[device].cursor
    BY <1>5, <1>6, OwnsUp DEF Greatest
  <2>2. TypeOK
    BY DEF Going, WordsInv
  <2> HIDE DEF through
  <2>3. QED
    BY <1>1, <1>5, <2>1, <2>2, ReadTo
<1>8. /\ end \in AllLinks /\ end.up = link[device].up /\ end.says = link[device].says
      /\ end.inFlight = link[device].inFlight /\ end.appended = link[device].appended
      /\ end.notices = Tail(notices)
  BY <1>5, OwnsUp DEF AllLinks
<1> HIDE DEF end, through
<1>9. LinkHolds(end, server.snapshot.through, server.head) /\ LinkFollows(link[device], end, {}, {})
  BY <1>2, <1>5, <1>8, OwnsUp, SameSaid
<1>10. /\ mine \in AllLinks /\ mine.up = end.up /\ mine.says = end.says
       /\ mine.inFlight = end.inFlight /\ mine.appended = end.appended
       /\ mine.notices = end.notices
  BY <1>8 DEF AllLinks
<1> HIDE DEF mine
<1>11. LinkHolds(mine, server.snapshot.through, server.head) /\ LinkFollows(end, mine, {}, {})
  BY <1>2, <1>5, <1>8, <1>9, <1>10, SameSaid
<1>12. /\ LinkHolds(Pushed(end, rows[device]), server.snapshot.through, server.head)
       /\ Pushed(end, rows[device]).up = end.up
       /\ LinkFollows(end, Pushed(end, rows[device]), Owed(rows[device]), {})
  BY <1>8, <1>9, OwnsUp, PushedFollows
<1>13. /\ LinkHolds(asking, server.snapshot.through, server.head) /\ asking.up
       /\ LinkFollows(link[device], asking, Owed(rows[device]), {})
  <2>1. LinkFollows(link[device], mine, Owed(rows[device]), {})
    BY <1>9, <1>11, FollowsAll, FollowsMore
  <2>2. LinkFollows(link[device], Pushed(end, rows[device]), Owed(rows[device]), {})
    BY <1>9, <1>12, FollowsAll
  <2>3. QED
    BY <1>2, <1>8, <1>10, <1>11, <1>12, <2>1, <2>2
<1> HIDE DEF asking
<1>14. QED
  BY <1>1, <1>2, <1>7, <1>13, LinkReaches

-----------------------------------------------------------------------------
(* An answer, and what is no longer owed.                                  *)

LEMMA SentAnswers ==
  ASSUME NEW old \in AllLedgers, NEW new \in AllLedgers, NEW device \in Devices, NEW notes,
         \A other \in Devices \ {device} : new[other] = old[other],
         new[device] = Sent(old[device], notes), OwesWhatItKnows(old[device])
  PROVE  /\ Whole(new[device]) = Whole(old[device]) /\ Ledgers(new) = Ledgers(old)
         /\ OwesWhatItKnows(new[device])
         /\ \A all : device \in all => Answers(new, all) = Answers(old, all)
         /\ \A held \in SUBSET AllNotes : \A all :
              Subsumes(held, notes) => Subsumes(held \cup Answers(new, all), Answers(old, all))
<1>1. ASSUME NEW key \in Keys
      PROVE  /\ Note(new[device], key) = Note(old[device], key)
             /\ Known(new[device][key]) <=> Known(old[device][key])
             /\ new[device][key].owed => old[device][key].owed
             /\ old[device][key].owed /\ ~new[device][key].owed =>
                  \E note \in notes : note.key = key /\ note.stamp = old[device][key].stamp
  <2>1. old[device] \in [Keys -> AllRows] /\ old[device][key] \in AllRows
        /\ new[device][key].stamp \in Stamps
    BY RowOfLedgers
  <2>2. Note(new[device], key) = Note(old[device], key)
    BY <2>1, SentRows
  <2>3. new[device][key].stamp = old[device][key].stamp
    BY <2>2, RowOfLedgers
  <2>4. new[device][key] =
          [old[device][key] EXCEPT !.owed =
             old[device][key].owed /\ ~\E note \in notes : note.key = key
                                                           /\ note.stamp = old[device][key].stamp]
    BY DEF Sent
  <2>5. new[device][key].owed =
          (old[device][key].owed /\ ~\E note \in notes : note.key = key
                                                         /\ note.stamp = old[device][key].stamp)
    BY <2>1, <2>4 DEF AllRows
  <2>6. QED
    BY <2>2, <2>3, <2>5, Zenon DEF Known
<1>2. Whole(new[device]) = Whole(old[device])
  BY <1>1 DEF Whole
<1>3. Ledgers(new) = Ledgers(old)
  BY <1>2 DEF Ledgers
<1>4. OwesWhatItKnows(new[device])
  BY <1>1 DEF OwesWhatItKnows
<1>5. ASSUME NEW all, device \in all
      PROVE  Answers(new, all) = Answers(old, all)
  BY <1>2, <1>5 DEF Answers, Answer
<1>6. ASSUME NEW all, NEW held \in SUBSET AllNotes, Subsumes(held, notes),
             NEW word \in Answers(old, all)
      PROVE  \E note \in held \cup Answers(new, all) : StandsFor(note, word)
  <2>1. PICK one \in Devices : word \in Answer(old[one], one \in all)
    BY <1>6 DEF Answers
  <2>2. word \in AllNotes /\ StandsFor(word, word)
    BY <1>6, LedgerNotesType, StandsForItself
  <2>3. CASE word \in Answers(new, all)
    BY <2>2, <2>3
  <2>4. CASE word \notin Answers(new, all)
    <3>1. one = device /\ device \notin all
      BY <1>2, <2>1, <2>4 DEF Answers, Answer
    <3>2. word \in Owed(old[device]) /\ word \notin Owed(new[device])
      BY <2>1, <2>4, <3>1 DEF Answers, Answer
    <3>3. old[device] \in [Keys -> AllRows]
      BY DEF AllLedgers
    <3>4. word.key \in Keys /\ word = Note(old[device], word.key) /\ old[device][word.key].owed
      BY <3>2, <3>3, NoteOfOwed
    <3>5. ~new[device][word.key].owed
      BY <1>1, <3>2, <3>4 DEF Owed
    <3>6. PICK note \in notes : note.key = word.key /\ note.stamp = old[device][word.key].stamp
      BY <1>1, <3>4, <3>5
    <3>7. note.stamp = word.stamp
      BY <3>4, <3>6, RowOfLedgers
    <3>8. PICK other \in held : StandsFor(other, note)
      BY <1>6 DEF Subsumes
    <3>9. StandsFor(other, word)
      BY <3>6, <3>7, <3>8 DEF StandsFor
    <3>10. QED
      BY <3>9
  <2>5. QED
    BY <2>3, <2>4
<1>7. QED
  BY <1>2, <1>3, <1>4, <1>5, <1>6 DEF Subsumes

LEMMA HearAppendedReaches ==
  ASSUME Going, NEW device \in Devices, HearAppended(device)
  PROVE  ReachInv'
<1> DEFINE notes == link[device].inFlight
           ledger == Sent(rows[device], notes)
           heard == [link[device] EXCEPT !.inFlight = {}, !.appended = 0]
           end == Pushed(heard, ledger)
<1>1. /\ rows' = [rows EXCEPT ![device] = ledger] /\ SetLink(device, end)
      /\ UNCHANGED <<read, server>> /\ link[device].appended # 0
  BY DEF HearAppended
<1>2. link[device].up /\ AppendsInTurn(link[device])
  BY <1>1, LinkIsUp, OwnsUp DEF LinkHolds
<1>3. rows \in AllLedgers /\ rows' \in AllLedgers /\ TypeOK /\ TypeOK'
      /\ Ledgers(rows) \in SUBSET AllNotes
      /\ \A all : Answers(rows, all) \in SUBSET AllNotes /\ Answers(rows', all) \in SUBSET AllNotes
  BY RowsType, NextRowsType, LedgerNotesType DEF Going, WordsInv
<1>4. /\ rows'[device] = ledger /\ \A other \in Devices \ {device} : rows'[other] = rows[other]
  BY <1>1, <1>3 DEF AllLedgers
<1>5. notes = Answering(link[device]) /\ notes \in SUBSET AllNotes
  BY <1>1, OwnsUp, LinkNotesType DEF Answering
<1>6. /\ heard \in AllLinks /\ heard.up /\ heard.says = link[device].says /\ heard.inFlight = {}
      /\ heard.appended = 0 /\ heard.notices = link[device].notices
  BY <1>2, OwnsUp DEF AllLinks
<1> HIDE DEF heard
<1>7. /\ LinkHolds(heard, server.snapshot.through, server.head)
      /\ LinkFollows(link[device], heard, {}, {})
  <2>1. \A i \in DOMAIN heard.says : heard.says[i].say # "append"
    BY <1>1, <1>2, <1>6 DEF AppendsInTurn
  <2>2. AppendsInTurn(heard)
    BY <1>6, <2>1 DEF AppendsInTurn
  <2>3. Compactions(heard) = Compactions(link[device]) /\ Said(heard) = Said(link[device])
    BY <1>6 DEF Compactions, Said
  <2>4. LinkHolds(heard, server.snapshot.through, server.head)
    BY <1>6, <2>2, <2>3, OwnsUp DEF LinkHolds
  <2>5. LinkFollows(link[device], heard, {}, {})
    BY <1>6, <2>3 DEF LinkFollows, Answering, Carried
  <2>6. QED
    BY <2>4, <2>5
<1>8. /\ LinkHolds(end, server.snapshot.through, server.head) /\ end.up
      /\ LinkFollows(heard, end, Owed(rows'[device]), {})
  BY <1>4, <1>6, <1>7, OwnsUp, PushedFollows
<1>9. LinkFollows(link[device], end, Owed(rows'[device]), {})
  BY <1>7, <1>8, FollowsAll
<1>10. rows'[device] = Sent(rows[device], notes)
  BY <1>4
<1> HIDE DEF end, ledger, notes
<1>11. /\ Whole(rows'[device]) = Whole(rows[device]) /\ Ledgers(rows') = Ledgers(rows)
       /\ OwesWhatItKnows(rows'[device])
       /\ \A all : device \in all => Answers(rows', all) = Answers(rows, all)
       /\ \A held \in SUBSET AllNotes : \A all :
            Subsumes(held, notes) => Subsumes(held \cup Answers(rows', all), Answers(rows, all))
  BY <1>3, <1>4, <1>10, OwnsUp, SentAnswers
<1>12. Owed(rows'[device]) \in SUBSET Whole(rows'[device])
  BY <1>11, OwedIsWhole
<1>13. DeviceStep(device)
  BY <1>1, <1>2, <1>4, <1>8, <1>9, <1>11, <1>12, QuietDevice
<1>14. Astray' = Astray /\ Readers' = Readers
  BY <1>1, <1>13, AstrayStands
<1>15. AnswersStand(device)
  <2> SUFFICES ASSUME NEW held \in SUBSET AllNotes, Subsumes(held, Answering(link[device])),
                      Subsumes(held \cup Answers(rows, Astray), Ledgers(rows))
               PROVE  Subsumes(held \cup Answers(rows', Astray'), Ledgers(rows'))
    BY DEF AnswersStand
  <2>1. Subsumes(held \cup Answers(rows', Astray), Answers(rows, Astray))
    BY <1>5, <1>11
  <2>2. Subsumes(held \cup Answers(rows', Astray), held)
    BY <1>3, SubsumesItsOwn
  <2>3. Subsumes(held \cup Answers(rows', Astray), held \cup Answers(rows, Astray))
    BY <2>1, <2>2, SubsumesBoth
  <2>4. Subsumes(held \cup Answers(rows', Astray), Ledgers(rows))
    BY <1>3, <2>3, SubsumesAll
  <2>5. QED
    BY <1>11, <1>14, <2>4
<1>16. Survives'
  <2>1. device \in Readers
    BY <1>2, OwnsUp DEF Readers, ReadInOrder
  <2>2. QED
    BY <1>11, <1>14, <2>1 DEF Survives, Going, ReachInv
<1>17. OwnFollows(device)
  BY <1>1, <1>13, SameReading DEF Going, WordsInv
<1>18. QED
  BY <1>13, <1>15, <1>16, <1>17, StepReaches DEF Going, WordsInv

-----------------------------------------------------------------------------
(* Links that are made, and spaces found anew.                             *)

\* A device that has read nothing follows the snapshot, if there is none yet.
LEMMA FromNothing ==
  ASSUME Going, NEW device \in Devices, read'[device].cursor = 0
  PROVE  OwnFollows(device)
<1> DEFINE copy == Copy(server.snapshot.through, server.snapshot.notes)
<1>1. ServerInOrder
  BY DEF Going, ReachInv, InOrder
<1>2. CASE server.snapshot.through = 0
  <2>1. copy \in Copies /\ copy \in AllCopies
    BY CopiesType DEF Copies, Going, WordsInv
  <2>2. copy.cursor = 0 /\ copy.notes = {}
    BY <1>1, <1>2 DEF Copy, ServerInOrder
  <2> HIDE DEF copy
  <2>3. Subsumes(Whole(rows'[device]), copy.notes)
    BY <2>2 DEF Subsumes
  <2>4. QED
    BY <2>1, <2>2, <2>3 DEF OwnFollows
<1>3. CASE server.snapshot.through # 0
  BY <1>3, OwnsUp DEF OwnFollows
<1>4. QED
  BY <1>2, <1>3

LEMMA ConnectReaches ==
  ASSUME Going, NEW device \in Devices, Connect(device)
  PROVE  ReachInv'
<1> DEFINE caught == read[device].cursor >= server.head
           end == [Down EXCEPT !.up = TRUE, !.caughtUp = caught,
                               !.head = IF caught THEN 0 ELSE server.head]
<1>1. /\ SetLink(device, end) /\ UNCHANGED <<rows, server>> /\ server.head >= read[device].cursor
      /\ read' = [read EXCEPT ![device].space =
                    IF read[device].space = 0 THEN server.space ELSE read[device].space]
  BY DEF Connect, kept
<1>2. /\ end.says = <<>> /\ end.inFlight = {} /\ end.appended = 0 /\ end.notices = <<>> /\ end.up
  BY DEF Down
<1> HIDE DEF end
<1>3. /\ LinkHolds(end, server.snapshot.through, server.head)
      /\ LinkFollows(link[device], end, {}, {})
  BY <1>2, EmptyLink
<1>4. link'[device] = end /\ \A other \in Devices \ {device} : link'[other] = link[other]
  BY <1>1, OneLink DEF Going, WordsInv
<1>5. /\ read'[device].cursor = read[device].cursor
      /\ read'[device].space = IF read[device].space = 0 THEN server.space ELSE read[device].space
      /\ \A other \in Devices \ {device} : read'[other] = read[other]
  BY <1>1 DEF Going, WordsInv, TypeOK
<1>6. server.space # 0
  BY DEF Going, ReachInv, InOrder, ServerInOrder
<1>7. ReadInOrder(read'[device], end.up, server.space, server.head)
  BY <1>1, <1>5, <1>6, OwnsUp DEF ReadInOrder
<1>8. LinkFollows(link[device], end, Whole(rows'[device]),
                  IF end.up THEN {Copy(read'[device].cursor, Whole(rows'[device]))} ELSE {})
  BY <1>3, FollowsMore
<1>9. DeviceStep(device)
  BY <1>1, <1>3, <1>4, <1>5, <1>6, <1>7, <1>8, OwnsUp DEF DeviceStep
<1>10. CASE read[device].space # 0
  <2>1. RowsStep(device)
    BY <1>1 DEF RowsStep
  <2>2. QED
    BY <1>5, <1>9, <1>10, <2>1, QuietStep DEF Going, WordsInv
<1>11. CASE read[device].space = 0
  <2>1. read'[device].cursor = 0
    BY <1>5, <1>11, OwnsUp DEF ReadInOrder
  <2>2. Astray' = Astray /\ Readers \subseteq Readers'
    BY <1>1, <1>5, <1>6, <1>11 DEF Astray, Readers
  <2>3. InOrder' /\ RowsStep(device)
    BY <1>1, <1>9, DeviceStepKeepsOrder DEF Going, WordsInv, ReachInv, RowsStep
  <2>4. AnswersStand(device) /\ Survives'
    BY <2>2, <2>3, RowsStepAnswers, SurvivesGoesOn DEF Going, WordsInv, ReachInv, InOrder
  <2>5. QED
    BY <1>9, <2>1, <2>4, FromNothing, StepReaches DEF Going, WordsInv
<1>12. QED
  BY <1>10, <1>11

LEMMA FindAnewReaches ==
  ASSUME Going, NEW device \in Devices, FindAnew(device)
  PROVE  ReachInv'
<1>1. /\ ~link[device].up /\ server.head < read[device].cursor /\ UNCHANGED <<link, server>>
      /\ rows' = [rows EXCEPT ![device] = OweEverything(rows[device])]
      /\ read' = [read EXCEPT ![device] = [cursor |-> 0, since |-> 0, space |-> server.space]]
  BY DEF FindAnew
<1>2. rows \in AllLedgers /\ rows' \in AllLedgers /\ TypeOK /\ TypeOK'
  BY RowsType, NextRowsType DEF Going, WordsInv
<1>3. /\ rows'[device] = OweEverything(rows[device])
      /\ \A other \in Devices \ {device} : rows'[other] = rows[other]
  BY <1>1, <1>2 DEF AllLedgers
<1>4. /\ read'[device].cursor = 0 /\ read'[device].space = server.space
      /\ \A other \in Devices \ {device} : read'[other] = read[other]
  BY <1>1, <1>2 DEF TypeOK
<1>5. server.space # 0 /\ read[device].space # 0 /\ read[device].space # server.space
  BY <1>1, OwnsUp DEF Going, ReachInv, InOrder, ServerInOrder, ReadInOrder
<1>6. ASSUME NEW key \in Keys
      PROVE  /\ Note(rows'[device], key) = Note(rows[device], key)
             /\ Known(rows'[device][key]) <=> Known(rows[device][key])
             /\ rows'[device][key].owed <=> Known(rows[device][key])
  <2>1. rows[device][key] \in AllRows
    BY <1>2, RowOfLedgers
  <2>2. rows'[device][key] = [rows[device][key] EXCEPT !.owed = Known(rows[device][key])]
    BY <1>3 DEF OweEverything
  <2>3. /\ rows'[device][key].stamp = rows[device][key].stamp
        /\ rows'[device][key].favoured = rows[device][key].favoured
        /\ rows'[device][key].owed = Known(rows[device][key])
    BY <2>1, <2>2 DEF AllRows
  <2>4. QED
    BY <2>3 DEF Note, Known
<1>7. /\ Whole(rows'[device]) = Whole(rows[device]) /\ Owed(rows'[device]) = Whole(rows'[device])
      /\ OwesWhatItKnows(rows'[device])
  BY <1>6 DEF Whole, Owed, OwesWhatItKnows
<1>8. Ledgers(rows') = Ledgers(rows)
  BY <1>3, <1>7 DEF Ledgers
<1>9. DeviceStep(device)
  <2>1. ReadInOrder(read'[device], link'[device].up, server.space, server.head)
    BY <1>1, <1>4, <1>5, OwnsUp DEF ReadInOrder
  <2>2. LinkFollows(link[device], link'[device], Whole(rows'[device]),
                    IF link'[device].up THEN {Copy(read'[device].cursor, Whole(rows'[device]))} ELSE {})
    BY <1>1, FollowsItself
  <2>3. QED
    BY <1>1, <1>3, <1>4, <1>5, <1>7, <2>1, <2>2, OwnsUp DEF DeviceStep
<1>10. device \in Astray /\ Astray' = Astray \ {device} /\ device \in Readers /\ Readers' = Readers
  <2>1. server' = server
    BY <1>1
  <2>2. device \in Readers /\ device \in Astray
    BY <1>5 DEF Astray, Readers
  <2>3. Readers' = Readers
    BY <1>4, <1>5 DEF Readers
  <2>4. Astray' = Astray \ {device}
    <3>1. \A one \in Devices : one # device => read'[one].space = read[one].space
      BY <1>4
    <3>2. Readers \in SUBSET Devices
      BY DEF Readers
    <3>3. \A one : one \in Astray' <=> one \in Readers /\ read'[one].space # server.space
      BY <2>1, <2>3 DEF Astray
    <3>4. \A one : one \in Astray <=> one \in Readers /\ read[one].space # server.space
      BY DEF Astray
    <3>5. QED
      BY <1>4, <3>1, <3>2, <3>3, <3>4
  <2>5. QED
    BY <2>2, <2>3, <2>4
<1>11. Answers(rows', Astray') = Answers(rows, Astray)
  <2>1. \A other \in Devices : Answer(rows'[other], other \in Astray') = Answer(rows[other], other \in Astray)
    BY <1>3, <1>7, <1>10 DEF Answer
  <2>2. QED
    BY <2>1 DEF Answers
<1>12. Answers(rows', Readers') = Answers(rows, Readers)
  <2>1. \A other \in Devices : Answer(rows'[other], other \in Readers') = Answer(rows[other], other \in Readers)
    BY <1>3, <1>7, <1>10 DEF Answer
  <2>2. QED
    BY <2>1 DEF Answers
<1>13. AnswersStand(device) /\ Survives'
  BY <1>8, <1>11, <1>12 DEF AnswersStand, Survives, Going, ReachInv
<1>14. OwnFollows(device)
  BY <1>4, FromNothing
<1>15. QED
  BY <1>2, <1>9, <1>13, <1>14, StepReaches DEF Going

-----------------------------------------------------------------------------
(* What is read of the log, and of the snapshot.                           *)

\* After notes arrive, the ledger subsumes them.
LEMMA ArrivedCovers ==
  ASSUME Going, NEW device \in Devices, NEW notes \in SUBSET AllNotes, Sheet(notes),
         Arrives(device, notes)
  PROVE  Subsumes(Whole(rows'[device]), notes)
<1> DEFINE marked == favourites[device]
           asked == Differing(marked, rows[device])
           ledger == Looked(device, marked, rows[device], clock[device], Wall[device], FALSE)
<1>1. /\ marked \in SUBSET Keys /\ rows[device] \in [Keys -> AllRows] /\ clock[device] \in Nat
      /\ Wall[device] \in Nat /\ FALSE \in BOOLEAN /\ rows \in AllLedgers
  BY RowsType, LedgerAssumption DEF Going, WordsInv, TypeOK, LedgerAssumption
<1>2. asked \in SUBSET Keys /\ IsFiniteSet(asked)
  BY <1>1, DifferingKeys
<1>3. ledger \in [Keys -> AllRows]
  BY <1>1, LookedRows
<1>4. rows' = [rows EXCEPT ![device] = Taken(device, ledger, notes)]
  BY DEF Arrives
<1> HIDE DEF ledger
<1>5. rows'[device] = Taken(device, ledger, notes)
  BY <1>1, <1>4 DEF AllLedgers
<1>6. QED
  BY <1>3, <1>5, TakenCovers

LEMMA HearSnapshotReaches ==
  ASSUME Going, NEW device \in Devices, HearSnapshot(device)
  PROVE  ReachInv'
<1> DEFINE notes == server.snapshot.notes
           through == server.snapshot.through
           end == CaughtUpThrough(link[device], through)
<1>1. /\ link[device].up /\ read[device].cursor < through /\ Arrives(device, notes)
      /\ Read(device, through, 0) /\ SetLink(device, end) /\ UNCHANGED server
  BY DEF HearSnapshot, SnapshotIsNext, BehindTheSnapshot, Arrived
<1>2. TypeOK /\ TypeOK' /\ notes \in SUBSET AllNotes /\ through \in Nat /\ through <= server.head
  BY ServerType DEF Going, WordsInv, ReachInv, InOrder, ServerInOrder
<1>3. Sheet(notes) /\ Subsumes(Ledgers(rows), notes)
  BY DEF Going, OneNoteAKey, ReachInv, InOrder, Remembered
<1>4. /\ Moves(rows, rows', device, notes) /\ OwesWhatItKnows(rows'[device])
      /\ Subsumes(Whole(rows'[device]), notes)
  BY <1>1, <1>2, <1>3, ArrivedRows, ArrivedCovers, OwnsUp DEF Going
<1>5. /\ read'[device].space = read[device].space /\ read'[device].cursor = through
      /\ \A other \in Devices \ {device} : read'[other] = read[other]
  <2>1. Greatest(read[device].cursor, through) = through
    BY <1>1, <1>2, OwnsUp DEF Greatest
  <2>2. QED
    BY <1>1, <1>2, <2>1, ReadTo
<1>6. /\ end.up /\ LinkHolds(end, through, server.head)
      /\ LinkFollows(link[device], end, {}, {})
  BY <1>1, OwnsUp, CaughtUpFollows
<1>7. LinkFollows(link[device], end, Whole(rows'[device]),
                  IF end.up THEN {Copy(read'[device].cursor, Whole(rows'[device]))} ELSE {})
  BY <1>6, FollowsMore
<1>8. link'[device] = end /\ \A other \in Devices \ {device} : link'[other] = link[other]
  BY <1>1, <1>2, OneLink
<1> HIDE DEF end
<1>9. DeviceStep(device)
  <2>1. ReadInOrder(read'[device], end.up, server.space, server.head)
    BY <1>1, <1>2, <1>5, <1>6, OwnsUp DEF ReadInOrder
  <2>2. \A other \in Devices \ {device} : rows'[other] = rows[other]
    BY <1>4 DEF Moves
  <2>3. QED
    BY <1>1, <1>2, <1>4, <1>5, <1>6, <1>7, <1>8, <2>1, <2>2, OwnsUp DEF DeviceStep
<1>10. RowsStep(device)
  BY <1>2, <1>3, <1>4 DEF RowsStep
<1>11. Astray' = Astray /\ Readers' = Readers
  BY <1>5, <1>9, AstrayStands
<1>12. InOrder'
  BY <1>2, <1>9, DeviceStepKeepsOrder DEF Going, ReachInv
<1>13. AnswersStand(device) /\ Survives'
  BY <1>2, <1>10, <1>11, <1>12, RowsStepAnswers, SurvivesGoesOn DEF Going, ReachInv, InOrder
<1>14. OwnFollows(device)
  <2>1. Copy(through, notes) \in Copies /\ Copy(through, notes) \in AllCopies
    BY <1>2, CopiesType DEF Copies
  <2>2. Copy(through, notes).cursor = through /\ Copy(through, notes).notes = notes
    BY DEF Copy
  <2>3. QED
    BY <1>4, <1>5, <2>1, <2>2 DEF OwnFollows
<1>15. QED
  BY <1>2, <1>9, <1>13, <1>14, StepReaches DEF Going

\* A copy that is up to date is so with the next record read.
LEMMA NextIsUpToDate ==
  ASSUME TypeOK, NEW copy \in AllCopies, copy.cursor >= server.snapshot.through, UpToDate(copy),
         NEW record \in server.log, record.through > copy.cursor,
         \A other \in server.log : other.through > copy.cursor => record.through <= other.through,
         \A other \in server.log : other.through = record.through => other = record
  PROVE  UpToDate(Copy(record.through, copy.notes \cup record.notes))
<1> DEFINE log == server.log
           next == Copy(record.through, copy.notes \cup record.notes)
<1>1. /\ log \in SUBSET AllRecords /\ record.through \in Nat /\ copy.cursor \in Nat
      /\ copy.notes \in SUBSET AllNotes /\ record.notes \in SUBSET AllNotes
      /\ \A other \in log : other.through \in Nat
  BY ServerType DEF AllCopies
<1>2. next.cursor = record.through /\ next.notes = copy.notes \cup record.notes
  BY DEF Copy
<1> HIDE DEF next
<1>3. \A other \in log : /\ other.through > copy.cursor <=> other = record \/ other.through > record.through
                         /\ other.through <= record.through <=> other = record \/ other.through <= copy.cursor
  BY <1>1
<1>4. Past(log, copy.cursor) = record.notes \cup Past(log, record.through)
  BY <1>3 DEF Past, NotesIn
<1>5. Behind(log, record.through) = record.notes \cup Behind(log, copy.cursor)
  BY <1>3 DEF Behind, NotesIn
<1>6. next.notes \cup Past(log, next.cursor) = copy.notes \cup Past(log, copy.cursor)
  BY <1>2, <1>4
<1>7. Subsumes(copy.notes, Behind(log, copy.cursor))
  BY DEF UpToDate
<1>8. Subsumes(next.notes, Behind(log, next.cursor))
  <2>1. next.notes \in SUBSET AllNotes
    BY <1>1, <1>2
  <2>2. Subsumes(next.notes, record.notes)
    BY <1>2, <2>1, SubsumesItsOwn
  <2>3. Subsumes(next.notes, Behind(log, copy.cursor))
    BY <1>2, <1>7, MoreSubsume
  <2>4. QED
    BY <1>2, <1>5, <2>2, <2>3, SubsumesBoth
<1>9. UpToDate(next)
  BY <1>6, <1>8 DEF UpToDate
<1>10. QED
  BY <1>9 DEF next

LEMMA HearRecordReaches ==
  ASSUME Going, NEW device \in Devices, HearRecord(device)
  PROVE  ReachInv'
<1>1. PICK record \in server.log :
        /\ record.through > read[device].cursor /\ link[device].up
        /\ ~(read[device].cursor < server.snapshot.through)
        /\ \A other \in RecordsPast(device) : record.through <= other.through
        /\ IF record.from = device THEN UNCHANGED rows ELSE Arrives(device, record.notes)
        /\ Read(device, record.through, read[device].since + 1)
        /\ SetLink(device, Compacting(CaughtUpThrough(link[device], record.through),
                                      read'[device].cursor, read'[device].since, rows'[device]))
        /\ UNCHANGED server
  BY DEF HearRecord, RecordIsNext, RecordsPast, BehindTheSnapshot, kept, Arrived
<1> DEFINE through == record.through
           notes == record.notes
           caught == CaughtUpThrough(link[device], through)
           end == Compacting(caught, read'[device].cursor, read'[device].since, rows'[device])
<1>2. /\ TypeOK /\ TypeOK' /\ notes \in SUBSET AllNotes /\ through \in Nat /\ through <= server.head
      /\ record.from \in Devices
  BY ServerType DEF Going, WordsInv, ReachInv, InOrder, ServerInOrder
<1>3. /\ rows \in AllLedgers /\ rows' \in AllLedgers
      /\ \A one \in Devices : Whole(rows[one]) \in SUBSET AllNotes /\ Whole(rows'[one]) \in SUBSET AllNotes
      /\ Ledgers(rows) \in SUBSET AllNotes
  BY <1>2, RowsType, NextRowsType, LedgerNotesType
<1>4. Sheet(notes) /\ Subsumes(Whole(rows[record.from]), notes)
  BY DEF Going, OneNoteAKey, ReachInv, InOrder, Remembered
<1>5. Subsumes(Ledgers(rows), notes)
  BY <1>2, <1>4, MoreSubsume DEF Ledgers
<1>6. /\ OwesWhatItKnows(rows'[device]) /\ RowsStep(device) /\ Subsumes(Whole(rows'[device]), notes)
      /\ \A other \in Devices \ {device} : rows'[other] = rows[other]
  <2>1. CASE record.from = device
    BY <1>1, <1>4, <2>1, OwnsUp DEF RowsStep
  <2>2. CASE record.from # device
    <3>1. Arrives(device, notes)
      BY <1>1, <2>2
    <3>2. /\ Moves(rows, rows', device, notes) /\ OwesWhatItKnows(rows'[device])
          /\ Subsumes(Whole(rows'[device]), notes)
      BY <1>2, <1>4, <3>1, ArrivedRows, ArrivedCovers, OwnsUp DEF Going
    <3>3. QED
      BY <1>2, <1>5, <3>2 DEF RowsStep, Moves
  <2>3. QED
    BY <2>1, <2>2
<1>7. /\ read'[device].space = read[device].space /\ read'[device].cursor = through
      /\ \A other \in Devices \ {device} : read'[other] = read[other]
  <2>1. Greatest(read[device].cursor, through) = through
    BY <1>1, <1>2, OwnsUp DEF Greatest
  <2>2. QED
    BY <1>1, <1>2, <2>1, ReadTo
<1>8. /\ caught \in AllLinks /\ caught.up
      /\ LinkHolds(caught, server.snapshot.through, server.head)
      /\ LinkFollows(link[device], caught, {}, {})
  BY <1>1, OwnsUp, CaughtUpFollows
<1> HIDE DEF caught
<1>9. /\ LinkHolds(end, server.snapshot.through, server.head) /\ end.up
      /\ LinkFollows(caught, end, Whole(rows'[device]), {Copy(read'[device].cursor, Whole(rows'[device]))})
  BY <1>2, <1>7, <1>8, OwnsUp, CompactingFollows
<1>10. LinkFollows(link[device], end, Whole(rows'[device]),
                   {Copy(read'[device].cursor, Whole(rows'[device]))})
  BY <1>8, <1>9, FollowsAll
<1>11. link'[device] = end /\ \A other \in Devices \ {device} : link'[other] = link[other]
  BY <1>1, <1>2, OneLink DEF caught
<1> HIDE DEF end
<1>12. DeviceStep(device)
  <2>1. ReadInOrder(read'[device], end.up, server.space, server.head)
    BY <1>1, <1>2, <1>7, <1>9, OwnsUp DEF ReadInOrder
  <2>2. QED
    BY <1>1, <1>2, <1>6, <1>7, <1>9, <1>10, <1>11, <2>1 DEF DeviceStep
<1>13. Astray' = Astray /\ Readers' = Readers
  BY <1>7, <1>12, AstrayStands
<1>14. InOrder'
  BY <1>2, <1>12, DeviceStepKeepsOrder DEF Going, ReachInv
<1>15. AnswersStand(device) /\ Survives'
  BY <1>2, <1>6, <1>13, <1>14, RowsStepAnswers, SurvivesGoesOn DEF Going, ReachInv, InOrder
<1>16. ASSUME Sound
       PROVE  OwnFollows(device)
  <2> SUFFICES ASSUME device \in Readers \ Astray
               PROVE  OwnFollows(device)
    BY <1>13 DEF OwnFollows
  <2> DEFINE own == OwnCopy(device)
             next == Copy(record.through, own.notes \cup record.notes)
  <2>1. own \in Copies /\ own \in AllCopies
    BY <1>2, CopiesType DEF Copies
  <2>2. own.cursor = read[device].cursor /\ own.notes = Whole(rows[device])
    BY DEF OwnCopy, Copy
  <2>3. UpToDate(own)
    BY <1>16, <2>1 DEF Going, ReachInv, CopiesAreUpToDate
  <2> HIDE DEF own
  <2>4. /\ own.cursor >= server.snapshot.through /\ record.through > own.cursor
        /\ \A other \in server.log : other.through > own.cursor => record.through <= other.through
    BY <1>1, <2>2, OwnsUp DEF RecordsPast
  <2>5. \A other \in server.log : other.through = record.through => other = record
    BY DEF Going, ReachInv, InOrder, ServerInOrder
  <2>6. UpToDate(next)
    BY <1>2, <2>1, <2>3, <2>4, <2>5, NextIsUpToDate
  <2>7. next.cursor = read'[device].cursor /\ next.notes = Whole(rows[device]) \cup notes
    BY <1>7, <2>2 DEF Copy
  <2>8. next \in AllCopies
    BY <1>2, <2>1 DEF Copy, AllCopies
  <2> HIDE DEF next
  <2>9. Subsumes(Whole(rows'[device]), Whole(rows[device]))
    BY <1>2, WholeMovesOn DEF Going
  <2>10. Subsumes(Whole(rows'[device]), next.notes)
    BY <1>6, <2>7, <2>9, SubsumesBoth
  <2>11. QED
    BY <2>6, <2>7, <2>8, <2>10 DEF OwnFollows
<1>17. QED
  BY <1>2, <1>12, <1>15, <1>16, StepReaches DEF Going

-----------------------------------------------------------------------------
(* What the server takes.                                                  *)

\* Under a space that every reader could tell from another, no copy is past the head.
LEMMA CopiesBehindTheHead ==
  ASSUME Going, Sound, NEW copy \in Copies
  PROVE  copy.cursor <= server.head /\ copy.cursor \in Nat
<1>1. TypeOK
  BY DEF Going, WordsInv
<1>2. CASE copy = Copy(server.snapshot.through, server.snapshot.notes)
  BY <1>1, <1>2, ServerType DEF Copy, Going, ReachInv, InOrder, ServerInOrder
<1>3. CASE \E device \in Readers \ Astray : copy = OwnCopy(device)
  BY <1>3, OwnsUp DEF OwnCopy, Copy, Readers, Astray, ReadInOrder
<1>4. CASE \E device \in Devices : copy \in Compactions(link[device])
  <2>1. copy.cursor <= server.head
    BY <1>4, OwnsUp DEF LinkHolds
  <2>2. copy \in AllCopies
    BY <1>1, CopiesType
  <2>3. QED
    BY <2>1, <2>2 DEF AllCopies
<1>5. QED
  BY <1>2, <1>3, <1>4 DEF Copies

\* What a link holds it holds of a server that has more.
LEMMA LinkHoldsMore ==
  ASSUME NEW end \in AllLinks, NEW through \in Nat, NEW head \in Nat, NEW after \in Nat,
         NEW more \in Nat, LinkHolds(end, through, head), through <= after, head <= more
  PROVE  LinkHolds(end, after, more)
<1>1. ASSUME NEW i \in DOMAIN end.notices
      PROVE  end.notices[i] <= after
  <2>1. end.notices \in Seq(Nat)
    BY DEF AllLinks
  <2>2. end.notices[i] \in Nat /\ end.notices[i] <= through
    BY <2>1 DEF LinkHolds
  <2>3. QED
    BY <2>2
<1>2. ASSUME NEW copy \in Compactions(end)
      PROVE  copy.cursor <= more
  <2>1. copy.cursor \in Nat /\ copy.cursor <= head
    BY LinkNotesType DEF LinkHolds, AllCopies
  <2>2. QED
    BY <2>1
<1>3. QED
  BY <1>1, <1>2 DEF LinkHolds

\* A longer log leaves what a copy is good for, or a record that was there before.
LEMMA AppendedIsUpToDate ==
  ASSUME TypeOK, NEW copy \in AllCopies, UpToDate(copy), copy.cursor <= server.head,
         NEW record \in AllRecords, server'.log = server.log \cup {record},
         server'.snapshot = server.snapshot, record.through > server.head \/ record \in server.log,
         \A device \in Devices : \/ Answering(link'[device]) \subseteq Answering(link[device])
                                 \/ Answering(link'[device]) \subseteq record.notes,
         UNCHANGED rows, Astray' = Astray
  PROVE  UpToDate(copy)'
<1> DEFINE past == Past(server.log, copy.cursor)
           reach == copy.notes \cup past
           next == copy.notes \cup Past(server'.log, copy.cursor)
<1>1. CASE ~(copy.cursor >= server.snapshot.through)
  BY <1>1 DEF UpToDate
<1>2. CASE copy.cursor >= server.snapshot.through
  <2>1. /\ server.log \in SUBSET AllRecords /\ server'.log \in SUBSET AllRecords
        /\ copy.cursor \in Nat /\ server.head \in Nat /\ record.through \in Nat
        /\ copy.notes \in SUBSET AllNotes /\ record.notes \in SUBSET AllNotes
    BY ServerType DEF AllCopies, AllRecords
  <2>2. next \in SUBSET AllNotes /\ reach \in SUBSET AllNotes
    BY <2>1, LogNotesType
  <2>3. reach \subseteq next
    BY DEF Past, NotesIn
  <2>4. /\ Subsumes(copy.notes, Behind(server.log, copy.cursor))
        /\ \A device \in Devices : Subsumes(reach, Answering(link[device]))
        /\ Subsumes(reach \cup Answers(rows, Astray), Ledgers(rows))
    BY <1>2 DEF UpToDate
  <2>5. Behind(server'.log, copy.cursor) = Behind(server.log, copy.cursor)
    <3>1. record.through <= copy.cursor => record \in server.log
      BY <2>1
    <3>2. QED
      BY <3>1 DEF Behind, NotesIn
  <2>6. Subsumes(next, record.notes)
    <3>1. CASE record.through > copy.cursor
      <4>1. record.notes \subseteq next
        BY <3>1 DEF Past, NotesIn
      <4>2. QED
        BY <2>2, <4>1, SubsumesItsOwn
    <3>2. CASE ~(record.through > copy.cursor)
      <4>1. record.through <= copy.cursor /\ record \in server.log
        BY <2>1, <3>2
      <4>2. record.notes \subseteq Behind(server.log, copy.cursor)
        BY <4>1 DEF Behind, NotesIn
      <4>3. Subsumes(copy.notes, record.notes)
        BY <2>4, <4>2, SubsumesFewer
      <4>4. QED
        BY <4>3, MoreSubsume
    <3>3. QED
      BY <3>1, <3>2
  <2> HIDE DEF next, reach
  <2>7. ASSUME NEW device \in Devices
        PROVE  Subsumes(next, Answering(link'[device]))
    <3>1. CASE Answering(link'[device]) \subseteq Answering(link[device])
      <4>1. Subsumes(next, Answering(link[device]))
        BY <2>3, <2>4, MoreSubsume
      <4>2. QED
        BY <3>1, <4>1, SubsumesFewer
    <3>2. CASE Answering(link'[device]) \subseteq record.notes
      BY <2>6, <3>2, SubsumesFewer
    <3>3. QED
      BY <3>1, <3>2
  <2>8. Subsumes(next \cup Answers(rows, Astray), Ledgers(rows))
    BY <2>3, <2>4, MoreSubsume
  <2>9. QED
    BY <2>4, <2>5, <2>7, <2>8 DEF UpToDate, next
<1>3. QED
  BY <1>1, <1>2

LEMMA TakeAppendReaches ==
  ASSUME Going, NEW device \in Devices, TakeAppend(device)
  PROVE  ReachInv'
<1> DEFINE says == link[device].says
           notes == Head(says).notes
           took == [link[device] EXCEPT !.says = Tail(says)]
           end == [took EXCEPT !.appended = server'.head]
<1>1. /\ says # <<>> /\ Head(says).say = "append" /\ Appended(device, notes) /\ SetLink(device, end)
      /\ UNCHANGED <<rows, read>>
  BY DEF TakeAppend, TakesOf, Took, kept
<1>2. /\ TypeOK /\ TypeOK' /\ server.head \in Nat /\ server'.head \in Nat
      /\ server.snapshot.through \in Nat /\ server \in AllSpaces
  BY ServerType, NextServerType DEF Going, WordsInv, TypeOK
<1>3. PICK record \in AllRecords :
        /\ record.from = device /\ record.notes = notes /\ server'.log = server.log \cup {record}
        /\ record.through > server.head \/ record \in server.log
        /\ record \in server.log => server'.head = server.head
        /\ record \notin server.log => record.through = server'.head
        /\ server'.head >= server.head /\ server'.snapshot = server.snapshot
        /\ server'.space = server.space
  <2>1. notes \in SUBSET AllNotes
    BY <1>1, OwnsUp, TakenOff DEF AllSaid
  <2> HIDE DEF notes
  <2>2. CASE server' = [server EXCEPT
               !.head = server.head + 1,
               !.log = server.log \cup {[from |-> device, notes |-> notes, through |-> server.head + 1]}]
    <3> DEFINE record == [from |-> device, notes |-> notes, through |-> server.head + 1]
    <3>1. record \in AllRecords
      BY <1>2, <2>1 DEF AllRecords
    <3>2. server'.head = server.head + 1 /\ server'.log = server.log \cup {record}
          /\ server'.snapshot = server.snapshot /\ server'.space = server.space
      BY <1>2, <2>2 DEF AllSpaces
    <3>3. record \notin server.log
      BY <1>2, ServerType DEF Going, ReachInv, InOrder, ServerInOrder
    <3>4. record.through = server.head + 1 /\ record.from = device /\ record.notes = notes
      OBVIOUS
    <3> HIDE DEF record
    <3>5. QED
      BY <1>2, <3>1, <3>2, <3>3, <3>4
  <2>3. CASE (\E record \in server.log : record.from = device /\ record.notes = notes)
             /\ UNCHANGED server
    <3>1. PICK record \in server.log : record.from = device /\ record.notes = notes
      BY <2>3
    <3>2. record \in AllRecords
      BY <1>2, ServerType
    <3>3. QED
      BY <1>2, <2>3, <3>1, <3>2
  <2>4. QED
    BY <1>1, <2>2, <2>3 DEF Appended
<1>4. /\ took \in AllLinks /\ took.up
      /\ LinkHolds(took, server.snapshot.through, server.head)
      /\ LinkFollows(link[device], took, {}, {})
      /\ notes \subseteq Carried(link[device])
      /\ took.inFlight = notes /\ took.inFlight # {}
      /\ \A i \in DOMAIN took.says : took.says[i].say # "append"
  BY <1>1, OwnsUp, TakenOff
<1> HIDE DEF took, notes
<1>5. /\ end \in AllLinks /\ end.up /\ end.says = took.says /\ end.inFlight = took.inFlight
      /\ end.notices = took.notices /\ end.appended = server'.head
  BY <1>2, <1>4 DEF AllLinks
<1> HIDE DEF end
<1>6. /\ LinkHolds(end, server.snapshot.through, server.head)
      /\ Carried(end) \subseteq Carried(link[device]) /\ Answering(end) \subseteq notes
      /\ Compactions(end) \subseteq Compactions(link[device])
  <2>1. Compactions(end) = Compactions(took) /\ Carried(end) = Carried(took)
    BY <1>5 DEF Compactions, Carried, Said
  <2>2. AppendsInTurn(end)
    BY <1>4, <1>5 DEF AppendsInTurn
  <2>3. LinkHolds(end, server.snapshot.through, server.head)
    BY <1>4, <1>5, <2>1, <2>2 DEF LinkHolds
  <2>4. QED
    BY <1>4, <1>5, <2>1, <2>3 DEF LinkFollows, Answering
<1>7. link'[device] = end /\ \A other \in Devices \ {device} : link'[other] = link[other]
  BY <1>1, <1>2, OneLink
<1>8. Readers' = Readers /\ Astray' = Astray
  BY <1>1, <1>3 DEF Readers, Astray
<1>9. Sound' => Sound
  <2> SUFFICES ASSUME Sound', NEW one \in Astray
               PROVE  read[one].cursor > server.head
    BY DEF Sound
  <2>1. read[one].cursor > server'.head /\ one \in Devices
    BY <1>1, <1>8 DEF Sound, Astray, Readers
  <2>2. QED
    BY <1>2, <1>3, <2>1, ReadingType
<1>10. ServerInOrder'
  <2>1. ServerInOrder
    BY DEF Going, ReachInv, InOrder
  <2>2. \A one \in server.log : one.through \in Nat /\ record.through \in Nat
    BY <1>2, ServerType DEF AllRecords
  <2>3. ASSUME NEW one \in server'.log
        PROVE  server.snapshot.through < one.through /\ one.through <= server'.head
    <3>1. CASE one \in server.log
      BY <1>2, <1>3, <2>1, <2>2, <3>1 DEF ServerInOrder
    <3>2. CASE one \notin server.log
      BY <1>2, <1>3, <2>1, <3>2 DEF ServerInOrder
    <3>3. QED
      BY <3>1, <3>2
  <2>4. ASSUME NEW one \in server'.log, NEW other \in server'.log, one.through = other.through
        PROVE  one = other
    <3>1. \A old \in server.log : old.through <= server.head
      BY <2>1 DEF ServerInOrder
    <3>2. record \notin server.log => record.through > server.head
      BY <1>3
    <3>3. QED
      BY <1>2, <1>3, <2>1, <2>2, <2>4, <3>1, <3>2 DEF ServerInOrder
  <2>5. QED
    BY <1>2, <1>3, <2>1, <2>3, <2>4 DEF ServerInOrder
<1>11. ReadsInOrder'
  <2>1. ASSUME NEW one \in Devices
        PROVE  ReadInOrder(read'[one], link'[one].up, server'.space, server'.head)
    <3>1. ReadInOrder(read[one], link[one].up, server.space, server.head) /\ read[one].cursor \in Nat
      BY OwnsUp
    <3>2. link'[one].up = link[one].up
      <4>1. link[device].up
        BY <1>1, LinkIsUp
      <4>2. link[device].up \in BOOLEAN /\ end.up \in BOOLEAN
        BY <1>5, OwnsUp DEF AllLinks
      <4>3. end.up = link[device].up
        BY <1>5, <4>1, <4>2
      <4>4. QED
        BY <1>7, <4>3
    <3>3. QED
      BY <1>1, <1>2, <1>3, <3>1, <3>2 DEF ReadInOrder
  <2>2. QED
    BY <2>1 DEF ReadsInOrder
<1>12. LinksInOrder'
  <2>1. ASSUME NEW one \in Devices
        PROVE  LinkHolds(link'[one], server'.snapshot.through, server'.head)
    <3>1. LinkHolds(link'[one], server.snapshot.through, server.head) /\ link'[one] \in AllLinks
      BY <1>5, <1>6, <1>7, OwnsUp
    <3>2. QED
      BY <1>2, <1>3, <3>1, LinkHoldsMore
  <2>2. QED
    BY <2>1 DEF LinksInOrder
<1>13. Remembered'
  <2>1. Remembered
    BY DEF Going, ReachInv, InOrder
  <2>2. Subsumes(Whole(rows[device]), Carried(link[device]))
    BY OwnsUp
  <2>3. \A one \in Devices : Subsumes(Whole(rows'[one]), Carried(link'[one]))
    BY <1>1, <1>6, <1>7, <2>1, <2>2, SubsumesFewer DEF Remembered
  <2>4. \A one \in server'.log : Subsumes(Whole(rows'[one.from]), one.notes)
    <3>1. Subsumes(Whole(rows[record.from]), record.notes)
      BY <1>3, <1>4, <2>2, SubsumesFewer
    <3>2. QED
      BY <1>1, <1>3, <2>1, <3>1 DEF Remembered
  <2>5. QED
    BY <1>1, <1>3, <2>1, <2>3, <2>4 DEF Remembered
<1>14. Survives'
  BY <1>1, <1>8 DEF Survives, Going, ReachInv
<1>15. CopiesAreUpToDate'
  <2> SUFFICES ASSUME Sound', NEW copy \in Copies'
               PROVE  UpToDate(copy)'
    BY DEF CopiesAreUpToDate
  <2>1. \A one \in Devices : Compactions(link'[one]) \subseteq Compactions(link[one])
    BY <1>6, <1>7
  <2>2. copy \in Copies
    BY <1>1, <1>3, <1>8, <2>1 DEF Copies, OwnCopy
  <2>3. UpToDate(copy) /\ copy \in AllCopies /\ copy.cursor <= server.head
    BY <1>2, <1>9, <2>2, CopiesType, CopiesBehindTheHead DEF Going, ReachInv, CopiesAreUpToDate
  <2>4. \A one \in Devices : \/ Answering(link'[one]) \subseteq Answering(link[one])
                             \/ Answering(link'[one]) \subseteq record.notes
    BY <1>3, <1>6, <1>7
  <2>5. QED
    BY <1>1, <1>2, <1>3, <1>8, <2>3, <2>4, AppendedIsUpToDate
<1>16. QED
  BY <1>10, <1>11, <1>12, <1>13, <1>14, <1>15 DEF ReachInv, InOrder

\* A compaction taken leaves what a copy past it is good for.
LEMMA CompactedIsUpToDate ==
  ASSUME TypeOK, NEW copy \in AllCopies, UpToDate(copy), NEW through \in Nat,
         server.snapshot.through < through, server'.snapshot.through = through,
         server'.log = {record \in server.log : record.through > through},
         \A device \in Devices : Answering(link'[device]) \subseteq Answering(link[device]),
         UNCHANGED rows, Astray' = Astray
  PROVE  UpToDate(copy)'
<1>1. CASE ~(copy.cursor >= through)
  BY <1>1 DEF UpToDate
<1>2. CASE copy.cursor >= through
  <2>1. /\ copy.cursor \in Nat /\ server.snapshot.through \in Nat
        /\ \A record \in server.log : record.through \in Nat
    BY ServerType DEF AllCopies
  <2>2. copy.cursor >= server.snapshot.through
    BY <1>2, <2>1
  <2>3. /\ Subsumes(copy.notes, Behind(server.log, copy.cursor))
        /\ \A device \in Devices :
             Subsumes(copy.notes \cup Past(server.log, copy.cursor), Answering(link[device]))
        /\ Subsumes((copy.notes \cup Past(server.log, copy.cursor)) \cup Answers(rows, Astray), Ledgers(rows))
    BY <2>2 DEF UpToDate
  <2>4. Past(server'.log, copy.cursor) = Past(server.log, copy.cursor)
    <3>1. \A record \in server.log : record.through > copy.cursor => record.through > through
      BY <1>2, <2>1
    <3>2. {record \in server'.log : record.through > copy.cursor}
            = {record \in server.log : record.through > copy.cursor}
      BY <3>1
    <3>3. QED
      BY <3>2 DEF Past
  <2>5. Behind(server'.log, copy.cursor) \subseteq Behind(server.log, copy.cursor)
    BY DEF Behind, NotesIn
  <2>6. Subsumes(copy.notes, Behind(server'.log, copy.cursor))
    BY <2>3, <2>5, SubsumesFewer
  <2>7. \A device \in Devices :
          Subsumes(copy.notes \cup Past(server.log, copy.cursor), Answering(link'[device]))
    BY <2>3, SubsumesFewer
  <2>8. QED
    BY <2>3, <2>4, <2>6, <2>7 DEF UpToDate
<1>3. QED
  BY <1>1, <1>2

\* A link that is told of a compaction.
LEMMA ToldLink ==
  ASSUME NEW end \in AllLinks, NEW through \in Nat, NEW head \in Nat, NEW after \in Nat,
         LinkHolds(end, through, head), through <= after
  PROVE  LET next == IF end.up THEN [end EXCEPT !.notices = Append(end.notices, after)] ELSE end IN
           LinkHolds(next, after, head) /\ LinkFollows(end, next, {}, {}) /\ next.up = end.up
<1> DEFINE told == [end EXCEPT !.notices = Append(end.notices, after)]
<1>1. LinkHolds(end, after, head)
  BY LinkHoldsMore
<1>2. CASE ~end.up
  BY <1>1, <1>2, FollowsItself
<1>3. CASE end.up
  <2>1. end.notices \in Seq(Nat)
    BY DEF AllLinks
  <2>2. /\ Append(end.notices, after) \in Seq(Nat)
        /\ \A i \in DOMAIN Append(end.notices, after) :
             \/ i \in DOMAIN end.notices /\ Append(end.notices, after)[i] = end.notices[i]
             \/ Append(end.notices, after)[i] = after
    BY <2>1
  <2>3. /\ told \in AllLinks /\ told.up = end.up /\ told.says = end.says
        /\ told.inFlight = end.inFlight /\ told.appended = end.appended
        /\ told.notices = Append(end.notices, after)
    BY <2>2 DEF AllLinks
  <2> HIDE DEF told
  <2>4. \A i \in DOMAIN told.notices : told.notices[i] <= after
    BY <1>1, <2>2, <2>3 DEF LinkHolds
  <2>5. LinkHolds(told, after, head) /\ LinkFollows(end, told, {}, {})
    BY <1>1, <1>3, <2>3, <2>4, SameSaid
  <2>6. QED
    BY <1>3, <2>3, <2>5 DEF told
<1>4. QED
  BY <1>2, <1>3

LEMMA TakeCompactReaches ==
  ASSUME Going, NEW device \in Devices, TakeCompact(device)
  PROVE  ReachInv'
<1> DEFINE asked == Head(link[device].says)
           took == [link[device] EXCEPT !.says = Tail(link[device].says)]
           end(one) == IF one = device THEN took ELSE link[one]
           told(one) == IF end(one).up
                        THEN [end(one) EXCEPT !.notices = Append(end(one).notices, asked.through)]
                        ELSE end(one)
           copy == Copy(asked.through, asked.notes)
<1>1. /\ link[device].says # <<>> /\ asked.say = "compact" /\ ~Stale(asked.through)
      /\ Compacted(asked.through, asked.notes) /\ UNCHANGED <<rows, read>>
      /\ \A one \in Devices : link'[one] = told(one)
  BY DEF TakeCompact, TakesOf, Took, kept
<1>2. TypeOK /\ TypeOK' /\ server \in AllSpaces /\ server.head \in Nat /\ server.snapshot.through \in Nat
  BY ServerType DEF Going, WordsInv, TypeOK
<1>3. /\ took \in AllLinks /\ took.up
      /\ LinkHolds(took, server.snapshot.through, server.head)
      /\ LinkFollows(link[device], took, {}, {})
      /\ asked \in AllSaid /\ asked.notes \subseteq Carried(link[device])
      /\ copy \in Compactions(link[device])
  BY <1>1, OwnsUp, TakenOff
<1>4. /\ asked.through \in Nat /\ asked.notes \in SUBSET AllNotes
      /\ server.snapshot.through < asked.through /\ asked.through <= server.head
  <2>1. asked.through \in Nat /\ asked.notes \in SUBSET AllNotes
    BY <1>3 DEF AllSaid
  <2>2. QED
    BY <1>1, <1>2, <2>1 DEF Stale
<1>5. /\ server'.head = server.head /\ server'.space = server.space
      /\ server'.log = {record \in server.log : record.through > asked.through}
      /\ server'.snapshot.through = asked.through /\ server'.snapshot.notes = asked.notes
  BY <1>1, <1>2 DEF Compacted, AllSpaces
<1>6. copy.cursor = asked.through /\ copy.notes = asked.notes
  BY DEF Copy
<1>7. link[device].up
  BY <1>1, LinkIsUp
<1>8. took.up = link[device].up
  BY <1>2, OwnsUp DEF AllLinks
<1>9. ASSUME NEW one \in Devices
      PROVE  /\ LinkHolds(link'[one], asked.through, server.head) /\ link'[one].up = link[one].up
             /\ LinkFollows(link[one], link'[one], {}, {})
  <2>1. /\ end(one) \in AllLinks /\ LinkHolds(end(one), server.snapshot.through, server.head)
        /\ LinkFollows(link[one], end(one), {}, {}) /\ end(one).up = link[one].up
    <3> HIDE DEF took
    <3>1. CASE one = device
      BY <1>3, <1>8, <3>1
    <3>2. CASE one # device
      BY <3>2, OwnsUp, FollowsItself
    <3>3. QED
      BY <3>1, <3>2
  <2> HIDE DEF end, asked
  <2>2. LinkHolds(told(one), asked.through, server.head) /\ LinkFollows(end(one), told(one), {}, {})
        /\ told(one).up = end(one).up
    <3> DEFINE before == end(one)
    <3>1. before \in AllLinks /\ LinkHolds(before, server.snapshot.through, server.head)
      BY <2>1
    <3>2. told(one) = IF before.up THEN [before EXCEPT !.notices = Append(before.notices, asked.through)]
                                   ELSE before
      OBVIOUS
    <3> HIDE DEF before, told
    <3>3. LinkHolds(told(one), asked.through, server.head) /\ LinkFollows(before, told(one), {}, {})
          /\ told(one).up = before.up
      BY <1>2, <1>4, <3>1, <3>2, ToldLink
    <3>4. QED
      BY <3>3 DEF before
  <2> HIDE DEF told
  <2>3. QED
    BY <1>1, <2>1, <2>2, FollowsAll
<1> HIDE DEF took, end, told, asked, copy
<1>10. Readers' = Readers /\ Astray' = Astray /\ (Sound' => Sound)
  BY <1>1, <1>5 DEF Readers, Astray, Sound
<1>11. ServerInOrder'
  BY <1>2, <1>4, <1>5 DEF ServerInOrder, Going, ReachInv, InOrder
<1>12. ReadsInOrder'
  BY <1>1, <1>5, <1>9 DEF ReadsInOrder, Going, ReachInv, InOrder
<1>13. LinksInOrder'
  BY <1>5, <1>9 DEF LinksInOrder
<1>14. Remembered'
  <2>1. Remembered
    BY DEF Going, ReachInv, InOrder
  <2>2. \A one \in Devices : Carried(link'[one]) \subseteq Carried(link[one])
    BY <1>9 DEF LinkFollows
  <2>3. \A one \in Devices : Subsumes(Whole(rows'[one]), Carried(link'[one]))
    BY <1>1, <2>1, <2>2, SubsumesFewer DEF Remembered
  <2>4. \A record \in server'.log : Subsumes(Whole(rows'[record.from]), record.notes)
    BY <1>1, <1>5, <2>1 DEF Remembered
  <2>5. Subsumes(Ledgers(rows'), server'.snapshot.notes)
    <3>1. Subsumes(Whole(rows[device]), asked.notes)
      BY <1>3, <2>1, SubsumesFewer DEF Remembered
    <3>2. Subsumes(Ledgers(rows), asked.notes)
      BY <3>1, MoreSubsume DEF Ledgers
    <3>3. QED
      BY <1>1, <1>5, <3>2
  <2>6. QED
    BY <1>1, <2>1, <2>3, <2>4, <2>5 DEF Remembered
<1>15. Survives'
  BY <1>1, <1>10 DEF Survives, Going, ReachInv
<1>16. CopiesAreUpToDate'
  <2> SUFFICES ASSUME Sound', NEW one \in Copies'
               PROVE  UpToDate(one)'
    BY DEF CopiesAreUpToDate
  <2>1. \A d \in Devices : Compactions(link'[d]) \subseteq Compactions(link[d])
                           /\ Answering(link'[d]) \subseteq Answering(link[d])
    BY <1>9 DEF LinkFollows
  <2>2. Copy(server'.snapshot.through, server'.snapshot.notes) \in Copies
    BY <1>3, <1>5 DEF Copies, copy
  <2>3. one \in Copies
    BY <1>1, <1>10, <2>1, <2>2 DEF Copies, OwnCopy
  <2>4. UpToDate(one) /\ one \in AllCopies
    BY <1>2, <1>10, <2>3, CopiesType DEF Going, ReachInv, CopiesAreUpToDate
  <2>5. QED
    BY <1>1, <1>2, <1>4, <1>5, <1>10, <2>1, <2>4, CompactedIsUpToDate
<1>17. QED
  BY <1>11, <1>12, <1>13, <1>14, <1>15, <1>16 DEF ReachInv, InOrder

\* What the server held is all answered for by those that read it.
LEMMA LoseReaches ==
  ASSUME Going, Lose
  PROVE  ReachInv'
<1>1. /\ server' = [NoSpace EXCEPT !.space = server.space + 1]
      /\ link' = [device \in Devices |-> Down] /\ UNCHANGED <<rows, read>>
  BY DEF Lose, kept
<1>2. TypeOK /\ TypeOK' /\ server.space \in Nat
  BY ServerType DEF Going, WordsInv
<1>3. /\ server'.head = 0 /\ server'.log = {} /\ server'.snapshot.through = 0
      /\ server'.snapshot.notes = {} /\ server'.space = server.space + 1
  BY <1>1 DEF NoSpace
<1>4. /\ Carried(Down) = {} /\ Answering(Down) = {} /\ Compactions(Down) = {} /\ ~Down.up
      /\ LinkHolds(Down, 0, 0)
  <2>1. /\ Down.says = <<>> /\ Down.inFlight = {} /\ Down.appended = 0 /\ Down.notices = <<>>
        /\ ~Down.up
    BY DEF Down
  <2>2. QED
    BY <2>1, EmptyLink DEF Carried, Answering, Compactions, Said
<1>5. \A device \in Devices : link'[device] = Down
  BY <1>1
<1>6. Readers' = Readers /\ Astray' = Readers
  <2>1. Readers' = Readers
    BY <1>1 DEF Readers
  <2>2. \A device \in Readers : read[device].space # server.space + 1
    <3>1. \A device \in Devices : read[device].space <= server.space /\ read[device].space \in Nat
      BY OwnsUp DEF ReadInOrder
    <3>2. QED
      BY <1>2, <3>1 DEF Readers
  <2>3. QED
    BY <1>1, <1>3, <2>1, <2>2 DEF Astray
<1>7. ServerInOrder'
  BY <1>2, <1>3 DEF ServerInOrder
<1>8. ReadsInOrder'
  <2>1. ASSUME NEW device \in Devices
        PROVE  ReadInOrder(read'[device], link'[device].up, server'.space, server'.head)
    <3>1. ReadInOrder(read[device], link[device].up, server.space, server.head)
          /\ read[device].space \in Nat /\ read[device].cursor \in Nat
      BY OwnsUp
    <3>2. QED
      BY <1>1, <1>2, <1>3, <1>4, <1>5, <3>1 DEF ReadInOrder
  <2>2. QED
    BY <2>1 DEF ReadsInOrder
<1>9. LinksInOrder'
  BY <1>3, <1>4, <1>5 DEF LinksInOrder
<1>10. Remembered'
  <2>1. \A device \in Devices : OwesWhatItKnows(rows'[device])
    BY <1>1, OwnsUp
  <2>2. QED
    BY <1>3, <1>4, <1>5, <2>1 DEF Remembered, Subsumes
<1>11. Subsumes(Answers(rows, Readers), Ledgers(rows))
  BY DEF Going, ReachInv, Survives
<1>12. Survives'
  BY <1>1, <1>6, <1>11 DEF Survives
<1>13. CopiesAreUpToDate'
  <2> SUFFICES ASSUME NEW copy \in Copies'
               PROVE  UpToDate(copy)'
    BY DEF CopiesAreUpToDate
  <2>1. \A device \in Devices : Answering(link'[device]) = {} /\ Compactions(link'[device]) = {}
    BY <1>4, <1>5
  <2>2. copy = Copy(0, {})
    BY <1>3, <1>6, <2>1 DEF Copies
  <2>3. copy.cursor = 0 /\ copy.notes = {}
    BY <2>2 DEF Copy
  <2>4. Past(server'.log, copy.cursor) = {} /\ Behind(server'.log, copy.cursor) = {}
    BY <1>3 DEF Past, Behind, NotesIn
  <2>5. copy.notes \cup Past(server'.log, copy.cursor) = {}
    BY <2>3, <2>4
  <2>6. Subsumes({} \cup Answers(rows', Astray'), Ledgers(rows'))
    BY <1>1, <1>6, <1>11, MoreSubsume
  <2>7. QED
    BY <2>1, <2>4, <2>5, <2>6 DEF UpToDate, Subsumes
<1>14. QED
  BY <1>7, <1>8, <1>9, <1>10, <1>12, <1>13 DEF ReachInv, InOrder

-----------------------------------------------------------------------------
(* What is said and logged is a ledger's, one note of a recording.         *)

LEMMA MoreIsSaid ==
  ASSUME NEW end \in AllLinks, NEW next, NEW said, next.says = Append(end.says, said)
  PROVE  SaysOf(next) \subseteq SaysOf(end) \cup {said.notes}
<1>1. end.says \in Seq(AllSaid)
  BY DEF AllLinks
<1>2. \A i \in DOMAIN Append(end.says, said) :
        \/ i \in DOMAIN end.says /\ Append(end.says, said)[i] = end.says[i]
        \/ Append(end.says, said)[i] = said
  BY <1>1
<1>3. QED
  BY <1>2 DEF SaysOf

LEMMA PushedSays ==
  ASSUME NEW end \in AllLinks, NEW ledger
  PROVE  SaysOf(Pushed(end, ledger)) \subseteq SaysOf(end) \cup {Owed(ledger)}
<1> DEFINE said == [say |-> "append", through |-> 0, notes |-> Owed(ledger)]
<1>1. \/ Pushed(end, ledger) = end
      \/ Pushed(end, ledger).says = Append(end.says, said)
  BY DEF Pushed, AllLinks
<1>2. said.notes = Owed(ledger)
  OBVIOUS
<1> HIDE DEF said
<1>3. QED
  BY <1>1, <1>2, MoreIsSaid

LEMMA CompactingSays ==
  ASSUME NEW end \in AllLinks, NEW through, NEW since, NEW ledger
  PROVE  SaysOf(Compacting(end, through, since, ledger)) \subseteq SaysOf(end) \cup {Whole(ledger)}
<1> DEFINE said == [say |-> "compact", through |-> through, notes |-> Whole(ledger)]
<1>1. \/ Compacting(end, through, since, ledger) = end
      \/ Compacting(end, through, since, ledger).says = Append(end.says, said)
  BY DEF Compacting, AllLinks
<1>2. said.notes = Whole(ledger)
  OBVIOUS
<1> HIDE DEF said
<1>3. QED
  BY <1>1, <1>2, MoreIsSaid

LEMMA TakenSays ==
  ASSUME NEW end \in AllLinks, end.says # <<>>, NEW next, next.says = Tail(end.says)
  PROVE  SaysOf(next) \subseteq SaysOf(end) /\ Head(end.says).notes \in SaysOf(end)
<1>1. end.says \in Seq(AllSaid)
  BY DEF AllLinks
<1>2. /\ 1 \in DOMAIN end.says /\ Head(end.says) = end.says[1]
      /\ \A i \in DOMAIN Tail(end.says) :
           i + 1 \in DOMAIN end.says /\ Tail(end.says)[i] = end.says[i + 1]
  BY <1>1
<1>3. QED
  BY <1>2 DEF SaysOf

\* One link says what its device knows or owes, or what was said before.
LEMMA LinkSheets ==
  ASSUME Going, Remembered', NEW device \in Devices, NEW end, SetLink(device, end), UNCHANGED server,
         SaysOf(end) \subseteq SaysOf(link[device])
           \cup {Whole(rows[device]), Owed(rows[device]), Whole(rows'[device]), Owed(rows'[device])}
  PROVE  OneNoteAKey'
<1>1. OwesWhatItKnows(rows[device]) /\ OwesWhatItKnows(rows'[device])
  BY OwnsUp DEF Remembered
<1>2. /\ Sheet(Whole(rows[device])) /\ Sheet(Owed(rows[device]))
      /\ Sheet(Whole(rows'[device])) /\ Sheet(Owed(rows'[device]))
  BY <1>1, OwnsUp, LedgerSheets
<1>3. link'[device] = end /\ \A other \in Devices \ {device} : link'[other] = link[other]
  BY OneLink DEF Going, WordsInv
<1>4. \A notes \in SaysOf(end) : Sheet(notes)
  BY <1>2 DEF Going, OneNoteAKey
<1>5. QED
  BY <1>3, <1>4 DEF Going, OneNoteAKey

LEMMA QuietSheets ==
  ASSUME OneNoteAKey, UNCHANGED <<link, server>>
  PROVE  OneNoteAKey'
  BY DEF OneNoteAKey

\* What a device hears it answers with what it owes and knows.
LEMMA HearSheets ==
  ASSUME Going, Remembered', NEW device \in Devices, Hear(device) \/ Look(device)
  PROVE  OneNoteAKey'
<1>1. TypeOK /\ link[device] \in AllLinks
  BY OwnsUp DEF Going, WordsInv
<1>2. ASSUME NEW through
      PROVE  /\ CaughtUpThrough(link[device], through) \in AllLinks
             /\ SaysOf(CaughtUpThrough(link[device], through)) = SaysOf(link[device])
  <2>1. CaughtUpThrough(link[device], through) \in AllLinks
    BY <1>1, CaughtUpLink
  <2>2. CaughtUpThrough(link[device], through).says = link[device].says
    BY <1>1 DEF CaughtUpThrough, AllLinks
  <2>3. QED
    BY <2>1, <2>2 DEF SaysOf
<1>3. CASE Look(device)
  <2>1. SetLink(device, Pushed(link[device], rows'[device])) /\ UNCHANGED server
    BY <1>3 DEF Look
  <2>2. SaysOf(Pushed(link[device], rows'[device]))
          \subseteq SaysOf(link[device]) \cup {Owed(rows'[device])}
    BY <1>1, PushedSays
  <2>3. QED
    BY <2>1, <2>2, LinkSheets
<1>4. CASE HearSnapshot(device)
  <2> DEFINE end == CaughtUpThrough(link[device], server.snapshot.through)
  <2>1. SetLink(device, end) /\ UNCHANGED server /\ SaysOf(end) = SaysOf(link[device])
    BY <1>2, <1>4 DEF HearSnapshot
  <2> HIDE DEF end
  <2>2. QED
    BY <2>1, LinkSheets
<1>5. CASE HearRecord(device)
  <2>1. PICK record :
          /\ UNCHANGED server
          /\ SetLink(device, Compacting(CaughtUpThrough(link[device], record.through),
                                        read'[device].cursor, read'[device].since, rows'[device]))
    BY <1>5 DEF HearRecord
  <2> DEFINE end == Compacting(CaughtUpThrough(link[device], record.through),
                               read'[device].cursor, read'[device].since, rows'[device])
  <2>2. SaysOf(end) \subseteq SaysOf(link[device]) \cup {Whole(rows'[device])}
    BY <1>2, CompactingSays
  <2>3. SetLink(device, end)
    BY <2>1
  <2> HIDE DEF end
  <2>4. QED
    BY <2>1, <2>2, <2>3, LinkSheets
<1>6. CASE HearAppended(device)
  <2> DEFINE heard == [link[device] EXCEPT !.inFlight = {}, !.appended = 0]
  <2>1. PICK ledger : /\ rows' = [rows EXCEPT ![device] = ledger]
                      /\ SetLink(device, Pushed(heard, ledger)) /\ UNCHANGED server
    BY <1>6 DEF HearAppended
  <2>2. rows'[device] = ledger
    BY <1>1, <2>1, RowsType DEF AllLedgers
  <2>3. heard \in AllLinks /\ heard.says = link[device].says
    BY <1>1 DEF AllLinks
  <2> HIDE DEF heard
  <2>4. SaysOf(heard) = SaysOf(link[device])
    BY <2>3 DEF SaysOf
  <2>5. SaysOf(Pushed(heard, ledger)) \subseteq SaysOf(link[device]) \cup {Owed(rows'[device])}
    BY <2>2, <2>3, <2>4, PushedSays
  <2>6. QED
    BY <2>1, <2>5, LinkSheets
<1>7. CASE HearCompacted(device)
  <2> DEFINE end == [link[device] EXCEPT !.notices = Tail(link[device].notices)]
             mine == [end EXCEPT !.compacting = 0]
  <2>1. /\ SetLink(device, mine) \/ SetLink(device, Pushed(end, rows[device]))
        /\ UNCHANGED server /\ link[device].notices # <<>>
    BY <1>7 DEF HearCompacted
  <2>2. Tail(link[device].notices) \in Seq(Nat)
    BY <1>1, <2>1 DEF AllLinks
  <2>3. end \in AllLinks /\ end.says = link[device].says
    BY <1>1, <2>2 DEF AllLinks
  <2> HIDE DEF end
  <2>4. mine.says = end.says
    BY <2>3 DEF AllLinks
  <2> HIDE DEF mine
  <2>5. SaysOf(mine) = SaysOf(link[device]) /\ SaysOf(end) = SaysOf(link[device])
    BY <2>3, <2>4 DEF SaysOf
  <2>6. SaysOf(Pushed(end, rows[device])) \subseteq SaysOf(link[device]) \cup {Owed(rows[device])}
    BY <2>3, <2>5, PushedSays
  <2>7. QED
    BY <2>1, <2>5, <2>6, LinkSheets
<1>8. CASE HearStale(device)
  <2> DEFINE end == [link[device] EXCEPT !.compacting = 0, !.stale = FALSE]
  <2>1. SetLink(device, end) /\ UNCHANGED server
    BY <1>8 DEF HearStale
  <2>2. end.says = link[device].says
    BY <1>1 DEF AllLinks
  <2> HIDE DEF end
  <2>3. SaysOf(end) = SaysOf(link[device])
    BY <2>2 DEF SaysOf
  <2>4. QED
    BY <2>1, <2>3, LinkSheets
<1>9. QED
  BY <1>3, <1>4, <1>5, <1>6, <1>7, <1>8 DEF Hear

LEMMA DownSheets ==
  ASSUME Going, Remembered', NEW device \in Devices, Connect(device) \/ Break(device) \/ Dies(device)
  PROVE  OneNoteAKey'
<1>1. PICK end : SetLink(device, end) /\ UNCHANGED server /\ end.says = <<>>
  <2>1. CASE Connect(device)
    <3> DEFINE caught == read[device].cursor >= server.head
               end == [Down EXCEPT !.up = TRUE, !.caughtUp = caught,
                                   !.head = IF caught THEN 0 ELSE server.head]
    <3>1. SetLink(device, end) /\ UNCHANGED server
      BY <2>1 DEF Connect
    <3>2. end.says = <<>>
      BY DEF Down
    <3>3. QED
      BY <3>1, <3>2
  <2>2. CASE Break(device) \/ Dies(device)
    <3>1. SetLink(device, Down) /\ UNCHANGED server
      BY <2>2 DEF Break, Dies, Die, DieWhileLooking, DieWhileHearing, DieBeforeTheClock
    <3>2. QED
      BY <3>1 DEF Down
  <2>3. QED
    BY <2>1, <2>2
<1>2. SaysOf(end) = {}
  BY <1>1 DEF SaysOf
<1>3. QED
  BY <1>1, <1>2, LinkSheets

LEMMA TakeSheets ==
  ASSUME Going, Remembered', NEW device \in Devices, Take(device)
  PROVE  OneNoteAKey'
<1> DEFINE asked == Head(link[device].says)
           took == Took(device)
<1>1. TypeOK /\ link[device] \in AllLinks /\ link[device].says # <<>>
  BY OwnsUp DEF Going, WordsInv, Take, TakeAppend, TakeCompact, RefuseCompact, TakesOf
<1>2. took.says = Tail(link[device].says)
  BY <1>1 DEF Took, AllLinks
<1>3. SaysOf(took) \subseteq SaysOf(link[device]) /\ asked.notes \in SaysOf(link[device])
  BY <1>1, <1>2, TakenSays
<1>4. Sheet(asked.notes)
  BY <1>3 DEF Going, OneNoteAKey
<1>5. took \in AllLinks
  BY <1>1, TookLink DEF Going
<1> HIDE DEF took, asked
<1>6. CASE TakeAppend(device)
  <2> DEFINE end == [took EXCEPT !.appended = server'.head]
  <2>1. SetLink(device, end) /\ Appended(device, asked.notes)
    BY <1>6 DEF TakeAppend, took, asked
  <2>2. end.says = took.says
    BY <1>5 DEF AllLinks
  <2> HIDE DEF end
  <2>3. SaysOf(end) = SaysOf(took)
    BY <2>2 DEF SaysOf
  <2>4. link'[device] = end /\ \A other \in Devices \ {device} : link'[other] = link[other]
    BY <1>1, <2>1, OneLink
  <2>5. /\ server'.snapshot = server.snapshot
        /\ \A record \in server'.log : record \in server.log \/ record.notes = asked.notes
    <3>1. CASE UNCHANGED server
      BY <3>1
    <3>2. CASE server' = [server EXCEPT
                 !.head = server.head + 1,
                 !.log = server.log \cup {[from |-> device, notes |-> asked.notes,
                                          through |-> server.head + 1]}]
      BY <1>1, <3>2 DEF TypeOK, AllSpaces
    <3>3. QED
      BY <2>1, <3>1, <3>2 DEF Appended
  <2>6. QED
    BY <1>3, <1>4, <2>3, <2>4, <2>5 DEF Going, OneNoteAKey
<1>7. CASE TakeCompact(device)
  <2> DEFINE end(one) == IF one = device THEN took ELSE link[one]
             told(one) == [end(one) EXCEPT !.notices = Append(end(one).notices, asked.through)]
  <2>1. /\ Compacted(asked.through, asked.notes)
        /\ link' = [one \in Devices |-> IF end(one).up THEN told(one) ELSE end(one)]
    BY <1>7 DEF TakeCompact, took, asked
  <2>2. server'.snapshot.notes = asked.notes /\ server'.log \subseteq server.log
    BY <1>1, <2>1 DEF Compacted, TypeOK, AllSpaces
  <2>3. ASSUME NEW one \in Devices
        PROVE  SaysOf(link'[one]) \subseteq SaysOf(link[one])
    <3>1. end(one) \in AllLinks /\ SaysOf(end(one)) \subseteq SaysOf(link[one])
      BY <1>1, <1>3, <1>5, LinkType
    <3> HIDE DEF end
    <3>2. told(one).says = end(one).says
      BY <3>1 DEF AllLinks
    <3> HIDE DEF told
    <3>3. SaysOf(told(one)) = SaysOf(end(one))
      BY <3>2 DEF SaysOf
    <3>4. link'[one] \in {end(one), told(one)}
      BY <2>1
    <3>5. QED
      BY <3>1, <3>3, <3>4
  <2>4. QED
    BY <1>4, <2>2, <2>3 DEF Going, OneNoteAKey
<1>8. CASE RefuseCompact(device)
  <2> DEFINE end == [took EXCEPT !.stale = TRUE]
  <2>1. SetLink(device, end) /\ UNCHANGED server
    BY <1>8 DEF RefuseCompact, took
  <2>2. end.says = took.says
    BY <1>5 DEF AllLinks
  <2> HIDE DEF end
  <2>3. SaysOf(end) = SaysOf(took)
    BY <2>2 DEF SaysOf
  <2>4. QED
    BY <1>3, <2>1, <2>3, LinkSheets
<1>9. QED
  BY <1>6, <1>7, <1>8 DEF Take

LEMMA LoseSheets ==
  ASSUME Lose
  PROVE  OneNoteAKey'
<1>1. /\ server' = [NoSpace EXCEPT !.space = server.space + 1]
      /\ link' = [device \in Devices |-> Down]
  BY DEF Lose
<1>2. server'.snapshot.notes = {} /\ server'.log = {}
  BY <1>1 DEF NoSpace
<1>3. \A device \in Devices : SaysOf(link'[device]) = {}
  BY <1>1 DEF SaysOf, Down
<1>4. QED
  BY <1>2, <1>3 DEF OneNoteAKey, Sheet

-----------------------------------------------------------------------------
(* The invariant, and the theorems.                                        *)

PromiseInv == WordsInv /\ ReachInv /\ OneNoteAKey

LEMMA InitPromise == Init => PromiseInv
<1> SUFFICES ASSUME Init PROVE PromiseInv
  OBVIOUS
<1>1. WordsInv
  BY InitWords
<1>2. /\ rows = [device \in Devices |-> [key \in Keys |-> NoRow]]
      /\ read = [device \in Devices |-> [cursor |-> 0, since |-> 0, space |-> 0]]
      /\ link = [device \in Devices |-> Down]
      /\ server.head = 0 /\ server.log = {} /\ server.snapshot.through = 0
      /\ server.snapshot.notes = {} /\ server.space = 1
  BY DEF Init, NoSpace
<1>3. /\ Carried(Down) = {} /\ Answering(Down) = {} /\ Compactions(Down) = {} /\ ~Down.up
      /\ SaysOf(Down) = {} /\ LinkHolds(Down, 0, 0)
  <2>1. /\ Down.says = <<>> /\ Down.inFlight = {} /\ Down.appended = 0 /\ Down.notices = <<>>
        /\ ~Down.up
    BY DEF Down
  <2>2. QED
    BY <2>1, EmptyLink DEF Carried, Answering, Compactions, Said, SaysOf
<1>4. \A device \in Devices :
        /\ link[device] = Down /\ read[device].space = 0 /\ read[device].cursor = 0
        /\ \A key \in Keys : ~Known(rows[device][key]) /\ rows[device][key].owed = FALSE
  BY <1>2 DEF NoRow, Known
<1>5. Ledgers(rows) = {} /\ \A device \in Devices : OwesWhatItKnows(rows[device])
  BY <1>4 DEF Ledgers, Whole, OwesWhatItKnows
<1>6. Readers = {} /\ Astray = {}
  BY <1>4 DEF Readers, Astray
<1>7. ServerInOrder
  BY <1>2 DEF ServerInOrder
<1>8. ReadsInOrder
  BY <1>2, <1>3, <1>4 DEF ReadsInOrder, ReadInOrder
<1>9. LinksInOrder
  BY <1>2, <1>3, <1>4 DEF LinksInOrder
<1>10. Remembered
  BY <1>2, <1>3, <1>4, <1>5 DEF Remembered, Subsumes
<1>11. Survives
  BY <1>5 DEF Survives, Subsumes
<1>12. CopiesAreUpToDate
  BY <1>2, <1>3, <1>4, <1>5 DEF CopiesAreUpToDate, UpToDate, Subsumes, Behind, NotesIn
<1>13. OneNoteAKey
  BY <1>2, <1>3, <1>4 DEF OneNoteAKey, Sheet
<1>14. QED
  BY <1>1, <1>7, <1>8, <1>9, <1>10, <1>11, <1>12, <1>13 DEF PromiseInv, ReachInv, InOrder

LEMMA NextReaches ==
  ASSUME Going, Next
  PROVE  ReachInv' /\ OneNoteAKey'
<1>1. ASSUME NEW device \in Devices, Works(device) \/ Break(device) \/ Dies(device)
      PROVE  ReachInv' /\ OneNoteAKey'
  <2>1. CASE Look(device) \/ Hear(device)
    <3>1. ReachInv'
      BY <2>1, LookReaches, HearSnapshotReaches, HearRecordReaches, HearAppendedReaches,
         HearCompactedReaches, HearStaleReaches DEF Hear
    <3>2. QED
      BY <2>1, <3>1, HearSheets DEF ReachInv, InOrder
  <2>2. CASE FindAnew(device)
    <3>1. UNCHANGED <<link, server>>
      BY <2>2 DEF FindAnew
    <3>2. QED
      BY <2>2, <3>1, FindAnewReaches, QuietSheets DEF Going
  <2>3. CASE Connect(device) \/ Break(device) \/ Dies(device)
    <3>1. ReachInv'
      BY <2>3, ConnectReaches, BreakReaches, DieWhileLookingReaches, DieWhileHearingReaches DEF Dies
    <3>2. QED
      BY <2>3, <3>1, DownSheets DEF ReachInv, InOrder
  <2>4. CASE Take(device)
    <3>1. ReachInv'
      BY <2>4, TakeAppendReaches, TakeCompactReaches, RefuseCompactReaches DEF Take
    <3>2. QED
      BY <2>4, <3>1, TakeSheets DEF ReachInv, InOrder
  <2>5. QED
    BY <1>1, <2>1, <2>2, <2>3, <2>4 DEF Works, Links
<1>2. ASSUME NEW device \in Devices, NEW key \in Keys, Edit(device, key) \/ Land(device, key)
      PROVE  ReachInv' /\ OneNoteAKey'
  <2>1. UNCHANGED <<link, server>>
    BY <1>2 DEF Edit, Land
  <2>2. QED
    BY <1>2, <2>1, EditReaches, QuietSheets DEF Going
<1>3. ASSUME NEW teller \in Devices, NEW device \in Devices, Tell(teller, device)
      PROVE  ReachInv' /\ OneNoteAKey'
  <2>1. UNCHANGED <<link, server>>
    BY <1>3 DEF Tell
  <2>2. QED
    BY <1>3, <2>1, TellReaches, QuietSheets DEF Going
<1>4. CASE Lose
  BY <1>4, LoseReaches, LoseSheets
<1>5. QED
  BY <1>1, <1>2, <1>3, <1>4 DEF Next

LEMMA NextKeepsPromise ==
  ASSUME WallMovesOn, PromiseInv, [Next]_vars
  PROVE  PromiseInv'
<1>1. WordsInv' /\ RowsMoved /\ Going
  BY NextKeepsTheWords DEF PromiseInv, Going, WordsInv
<1>2. CASE Next
  BY <1>1, <1>2, NextReaches DEF PromiseInv
<1>3. CASE UNCHANGED vars
  <2>1. UNCHANGED <<rows, read, link, server>>
    BY <1>3 DEF vars
  <2>2. QED
    BY <1>1, <2>1, ReachStands, QuietSheets DEF PromiseInv
<1>4. QED
  BY <1>2, <1>3

LEMMA PromiseAlways ==
  ASSUME WallMovesOn
  PROVE  Spec => []PromiseInv
<1>1. PromiseInv /\ [Next]_vars => PromiseInv'
  BY NextKeepsPromise, WallMovesOn
<1>2. QED
  BY <1>1, InitPromise, PTL DEF Spec

\* Where every reader read the space the server holds, all copies are up to date.
LEMMA NoneAstray ==
  ASSUME PromiseInv, OneSpaceRead
  PROVE  Astray = {} /\ Sound /\ \A copy \in Copies : UpToDate(copy)
<1>1. Astray = {}
  BY DEF Astray, Readers, OneSpaceRead
<1>2. QED
  BY <1>1 DEF Sound, PromiseInv, ReachInv, CopiesAreUpToDate

\* What is still answered for when nobody is astray is what is owed.
LEMMA AnswersAreOwed ==
  ASSUME TypeOK, NEW word \in Answers(rows, {})
  PROVE  \E device \in Devices : /\ word \in Owed(rows[device])
                                 /\ word.key \in Keys /\ rows[device][word.key].owed
                                 /\ word.stamp = rows[device][word.key].stamp
<1>1. PICK device \in Devices : word \in Owed(rows[device])
  BY DEF Answers, Answer
<1>2. rows \in AllLedgers /\ rows[device] \in [Keys -> AllRows]
  BY RowsType
<1>3. word.key \in Keys /\ word = Note(rows[device], word.key) /\ rows[device][word.key].owed
  BY <1>1, <1>2, NoteOfOwed
<1>4. QED
  BY <1>1, <1>2, <1>3, RowOfLedgers

\* A later word than a device at rest knows is one that some device owes.
LEMMA LaterIsOwed ==
  ASSUME PromiseInv, OneSpaceRead, NEW one \in Devices, AtRest(one), NEW other \in Devices,
         NEW key \in Keys, Later(rows[other][key].stamp, rows[one][key].stamp)
  PROVE  \E owing \in Devices :
           /\ rows[owing][key].owed
           /\ ~Later(rows[one][key].stamp, rows[owing][key].stamp)
           /\ ~Later(rows[other][key].stamp, rows[owing][key].stamp)
<1> DEFINE copy == OwnCopy(one)
           word == Note(rows[other], key)
<1>1. TypeOK /\ rows \in AllLedgers
  BY RowsType DEF PromiseInv, WordsInv
<1>2. /\ rows[one][key] \in AllRows /\ rows[other][key] \in AllRows
      /\ rows[one][key].stamp \in Stamps /\ rows[other][key].stamp \in Stamps
      /\ rows[one] \in [Keys -> AllRows]
      /\ word.key = key /\ word.stamp = rows[other][key].stamp
  BY <1>1, RowOfLedgers
<1>3. one \in Readers \ Astray
  <2>1. ReadInOrder(read[one], link[one].up, server.space, server.head)
    BY DEF PromiseInv, ReachInv, InOrder, ReadsInOrder
  <2>2. read[one].space # 0
    BY <2>1 DEF AtRest, ReadInOrder
  <2>3. QED
    BY <2>2, NoneAstray DEF Readers
<1>4. UpToDate(copy)
  BY <1>3, NoneAstray DEF Copies
<1>5. copy.cursor = read[one].cursor /\ copy.notes = Whole(rows[one])
  BY DEF OwnCopy, Copy
<1> HIDE DEF copy
<1>6. copy.cursor >= server.snapshot.through
  BY <1>1, <1>5, ReadingType, ServerType DEF AtRest, HasRead, BehindTheSnapshot
<1>7. Past(server.log, copy.cursor) = {}
  BY <1>5 DEF AtRest, HasRead, RecordsPast, Past, NotesIn
<1>8. Subsumes(Whole(rows[one]) \cup Answers(rows, {}), Ledgers(rows))
  BY <1>4, <1>5, <1>6, <1>7, NoneAstray DEF UpToDate
<1>9. word \in Ledgers(rows)
  BY <1>2, LaterIsKnown DEF Ledgers, Whole
<1> HIDE DEF word
<1>10. PICK note \in Whole(rows[one]) \cup Answers(rows, {}) : StandsFor(note, word)
  BY <1>8, <1>9 DEF Subsumes
<1>11. note.key = key /\ ~Later(rows[other][key].stamp, note.stamp)
  BY <1>2, <1>10 DEF StandsFor
<1>12. note \notin Whole(rows[one])
  <2> SUFFICES ASSUME note \in Whole(rows[one]) PROVE FALSE
    OBVIOUS
  <2>1. note = Note(rows[one], key)
    BY <1>2, <1>11, NoteOfWhole
  <2>2. note.stamp = rows[one][key].stamp
    BY <1>1, <2>1, RowOfLedgers
  <2>3. QED
    BY <1>11, <2>2
<1>13. PICK owing \in Devices : rows[owing][key].owed /\ note.stamp = rows[owing][key].stamp
  BY <1>1, <1>10, <1>11, <1>12, AnswersAreOwed
<1>14. ~Later(rows[other][key].stamp, rows[owing][key].stamp)
  BY <1>11, <1>13
<1>15. rows[owing][key].stamp \in Stamps
  BY <1>1, RowOfLedgers
<1>16. ~Later(rows[one][key].stamp, rows[owing][key].stamp)
  BY <1>2, <1>14, <1>15 DEF Later, Stamps
<1>17. QED
  BY <1>13, <1>14, <1>16

\* Where no device reads another space than the server holds, what a device knows of a
\* recording is with the server, or owed by some device, or a later word is: no crash, lost
\* link, told neighbour, compaction or swept space loses the last word (service.rs, store.rs),
\* so long as a device that dies between its rows and its clock finds its wall moved on.
THEOREM NoWordIsForgottenAlways ==
  ASSUME WallMovesOn
  PROVE  Spec => []NoWordIsForgotten
<1>1. ASSUME PromiseInv, OneSpaceRead, NEW device \in Devices, NEW key \in Keys,
             Known(rows[device][key])
      PROVE  \/ \E note \in server.snapshot.notes \cup Logged :
                  note.key = key /\ ~Later(rows[device][key].stamp, note.stamp)
             \/ \E other \in Devices : /\ rows[other][key].owed
                                       /\ ~Later(rows[device][key].stamp, rows[other][key].stamp)
  <2> DEFINE copy == Copy(server.snapshot.through, server.snapshot.notes)
             word == Note(rows[device], key)
  <2>1. TypeOK /\ rows \in AllLedgers
    BY <1>1, RowsType DEF PromiseInv, WordsInv
  <2>2. UpToDate(copy)
    BY <1>1, NoneAstray DEF Copies
  <2>3. copy.cursor = server.snapshot.through /\ copy.notes = server.snapshot.notes
    BY DEF Copy
  <2> HIDE DEF copy
  <2>4. copy.cursor >= server.snapshot.through
    BY <2>1, <2>3, ServerType
  <2>5. Subsumes((server.snapshot.notes \cup Past(server.log, copy.cursor)) \cup Answers(rows, {}),
                 Ledgers(rows))
    BY <1>1, <2>2, <2>3, <2>4, NoneAstray DEF UpToDate
  <2>6. Past(server.log, copy.cursor) \subseteq Logged
    BY DEF Past, NotesIn, Logged
  <2>7. word \in Ledgers(rows) /\ word.key = key /\ word.stamp = rows[device][key].stamp
    BY <1>1, <2>1, RowOfLedgers DEF Ledgers, Whole
  <2> HIDE DEF word
  <2>8. PICK note \in (server.snapshot.notes \cup Past(server.log, copy.cursor)) \cup Answers(rows, {}) :
          StandsFor(note, word)
    BY <2>5, <2>7 DEF Subsumes
  <2>9. note.key = key /\ ~Later(rows[device][key].stamp, note.stamp)
    BY <2>7, <2>8 DEF StandsFor
  <2>10. CASE note \in Answers(rows, {})
    BY <2>1, <2>9, <2>10, AnswersAreOwed
  <2>11. CASE note \notin Answers(rows, {})
    BY <2>6, <2>8, <2>9, <2>11
  <2>12. QED
    BY <2>10, <2>11
<1>2. PromiseInv => NoWordIsForgotten
  BY <1>1 DEF NoWordIsForgotten
<1>3. Spec => []PromiseInv
  BY PromiseAlways, WallMovesOn
<1>4. QED
  BY <1>2, <1>3, PTL

\* Where no device reads another space than the server holds, two devices that have read all
\* the log holds and owe nothing know the same word of every recording, but for one that a
\* third device still owes (service.rs, ledger.rs, store.rs); on the same terms.
THEOREM RestedReadersAgreeAlways ==
  ASSUME WallMovesOn
  PROVE  Spec => []RestedReadersAgree
<1>1. ASSUME PromiseInv, OneSpaceRead, NEW one \in Devices, NEW other \in Devices,
             AtRest(one), AtRest(other), NEW key \in Keys
      PROVE  \/ Note(rows[one], key) = Note(rows[other], key)
             \/ \E owing \in Devices \ {one, other} :
                  /\ rows[owing][key].owed
                  /\ \A device \in {one, other} :
                       ~Later(rows[device][key].stamp, rows[owing][key].stamp)
  <2>1. TypeOK /\ rows \in AllLedgers
    BY <1>1, RowsType DEF PromiseInv, WordsInv
  <2>2. /\ rows[one][key].stamp \in Stamps /\ rows[other][key].stamp \in Stamps
        /\ Note(rows[one], key).key = key /\ Note(rows[one], key).stamp = rows[one][key].stamp
        /\ Note(rows[other], key).key = key /\ Note(rows[other], key).stamp = rows[other][key].stamp
    BY <2>1, RowOfLedgers
  <2>3. CASE rows[one][key].stamp = rows[other][key].stamp
    <3>1. Note(rows[one], key) \in Words /\ Note(rows[other], key) \in Words
      BY WordsOfLedgers DEF NotesOf
    <3>2. QED
      BY <1>1, <2>2, <2>3, <3>1 DEF PromiseInv, WordsInv, OneWord
  <2>4. CASE rows[one][key].stamp # rows[other][key].stamp
    <3>1. \/ Later(rows[other][key].stamp, rows[one][key].stamp)
          \/ Later(rows[one][key].stamp, rows[other][key].stamp)
      BY <2>2, <2>4 DEF Later, Stamps
    <3>2. PICK owing \in Devices : /\ rows[owing][key].owed
                                   /\ ~Later(rows[one][key].stamp, rows[owing][key].stamp)
                                   /\ ~Later(rows[other][key].stamp, rows[owing][key].stamp)
      BY <1>1, <3>1, LaterIsOwed
    <3>3. Note(rows[owing], key) \in Owed(rows[owing])
      BY <3>2 DEF Owed
    <3>4. owing # one /\ owing # other
      BY <1>1, <3>3 DEF AtRest
    <3>5. QED
      BY <3>2, <3>4
  <2>5. QED
    BY <2>3, <2>4
<1>2. PromiseInv => RestedReadersAgree
  BY <1>1 DEF RestedReadersAgree, AgreeOrAreOwed
<1>3. Spec => []PromiseInv
  BY PromiseAlways, WallMovesOn
<1>4. QED
  BY <1>2, <1>3, PTL

-----------------------------------------------------------------------------
(* Favourites set by hand: what undoes one is a word of another device,    *)
(* later than the hand's.  It rests on what a row says of itself and on a  *)
(* device's own words never being past its own rows.                       *)

(* What a row says of itself.                                              *)

\* What is here is favoured, and what is favoured is known.
Agreed(row) == (row.here => row.favoured) /\ (row.favoured => Known(row))
AllAgreed(ledger) == \A key \in Keys : Agreed(ledger[key])

LEMMA FreshIsKnown ==
  ASSUME NEW device \in Devices, NEW last \in Nat, NEW next \in Nat, NEW stamp \in Stamps,
         Fresh(stamp, device, last, next)
  PROVE  stamp # NoStamp
  BY DEF Fresh, NoStamp, Stamps

\* What the hand set where the ledger neither shows it nor waits to take it up.
Unlooked(marked, row, key) == (key \in marked) # row.here /\ (key \in marked) # row.favoured

\* A look stamps a known row the hand has set; of one not known it makes a favourite, or
\* leaves it when it looks at what is held alone.
LEMMA LookedAgrees ==
  ASSUME NEW device \in Devices, NEW last \in Nat, NEW wall \in Nat, NEW marked \in SUBSET Keys,
         NEW ledger \in [Keys -> AllRows], NEW everything \in BOOLEAN, AllAgreed(ledger),
         NEW key \in Keys
  PROVE  LET looked == Looked(device, marked, ledger, last, wall, everything)
             next == Ticked(last, wall, Differing(marked, ledger))
         IN  /\ Agreed(looked[key])
             /\ \/ /\ looked[key].stamp = ledger[key].stamp
                   /\ Unlooked(marked, ledger[key], key) =>
                        key \in marked /\ ~Known(ledger[key])
                \/ /\ Fresh(looked[key].stamp, device, last, next)
                   /\ everything \/ Known(ledger[key])
<1> DEFINE asked == Differing(marked, ledger)
           looked == Looked(device, marked, ledger, last, wall, everything)
           next == Ticked(last, wall, asked)
           stamp == Stamped(device, last, wall, marked, asked, key)
           row == ledger[key]
           newly == [favoured |-> TRUE, here |-> TRUE, stamp |-> stamp, owed |-> TRUE]
           gone == [favoured |-> FALSE, here |-> FALSE, stamp |-> stamp, owed |-> TRUE]
<1>1. asked \in SUBSET Keys /\ IsFiniteSet(asked)
  BY DifferingKeys
<1>2. row \in AllRows /\ row.here \in BOOLEAN /\ row.favoured \in BOOLEAN /\ Agreed(row)
  BY DEF AllRows, AllAgreed
<1>3. next \in Nat
  BY <1>1, TickedType
<1>4. ASSUME key \in asked
      PROVE  stamp \in Stamps /\ Fresh(stamp, device, last, next) /\ stamp # NoStamp
  <2>1. stamp \in Stamps /\ Fresh(stamp, device, last, next)
    BY <1>1, <1>4, StampedPastTheClock DEF Fresh
  <2>2. QED
    BY <1>3, <2>1, FreshIsKnown
<1>5. key \in asked <=> (key \in marked) # row.here
  BY <1>2 DEF Differing
<1>6. looked[key] =
        CASE key \notin asked -> row
          [] key \in asked \ marked -> gone
          [] key \in asked \cap marked /\ ~Known(row) -> IF everything THEN newly ELSE row
          [] key \in asked \cap marked /\ Known(row) ->
               IF row.favoured THEN [row EXCEPT !.here = TRUE] ELSE newly
  BY DEF Looked
<1> HIDE DEF asked, looked, next, stamp, row
<1>7. CASE key \notin asked
  <2>1. looked[key] = row
    BY <1>6, <1>7
  <2>2. QED
    BY <1>2, <1>5, <1>7, <2>1 DEF Unlooked, row, looked, next, asked
<1>8. CASE key \in asked \ marked
  <2>1. looked[key] = gone
    BY <1>6, <1>8
  <2>2. Known(row)
    BY <1>2, <1>5, <1>8 DEF Agreed
  <2>3. QED
    BY <1>4, <1>8, <2>1, <2>2 DEF Agreed, row, looked, next, asked
<1>9. CASE key \in asked \cap marked /\ ~Known(row)
  <2>1. looked[key] = IF everything THEN newly ELSE row
    BY <1>6, <1>9
  <2>2. CASE everything
    <3>1. looked[key] = newly /\ newly.stamp = stamp
      BY <2>1, <2>2
    <3>2. Agreed(newly)
      BY <1>4, <1>9 DEF Agreed, Known
    <3>3. QED
      BY <1>4, <1>9, <2>2, <3>1, <3>2 DEF looked, next, asked
  <2>3. CASE ~everything
    BY <1>2, <1>9, <2>1, <2>3 DEF row, looked, next, asked
  <2>4. QED
    BY <2>2, <2>3
<1>10. CASE key \in asked \cap marked /\ Known(row)
  <2>1. looked[key] = IF row.favoured THEN [row EXCEPT !.here = TRUE] ELSE newly
    BY <1>6, <1>10
  <2>2. CASE row.favoured
    <3>1. looked[key] = [row EXCEPT !.here = TRUE]
      BY <2>1, <2>2
    <3>2. /\ looked[key].stamp = row.stamp /\ looked[key].favoured
      BY <1>2, <2>2, <3>1 DEF AllRows
    <3>3. Agreed(looked[key])
      BY <1>10, <3>2 DEF Agreed, Known
    <3>4. ~Unlooked(marked, row, key)
      BY <1>10, <2>2 DEF Unlooked
    <3>5. QED
      BY <3>2, <3>3, <3>4 DEF row, looked, next, asked
  <2>3. CASE ~row.favoured
    <3>1. looked[key] = newly /\ newly.stamp = stamp
      BY <2>1, <2>3
    <3>2. Agreed(newly)
      BY <1>4, <1>10 DEF Agreed, Known
    <3>3. QED
      BY <1>4, <1>10, <3>1, <3>2 DEF row, looked, next, asked
  <2>4. QED
    BY <2>2, <2>3
<1>11. QED
  BY <1>7, <1>8, <1>9, <1>10

LEMMA SettledAgrees ==
  ASSUME TypeOK, NEW device \in Devices, AllAgreed(rows[device])
  PROVE  AllAgreed(Settled(device))
<1> SUFFICES ASSUME NEW key \in Keys
             PROVE  Agreed(Settled(device)[key])
  BY DEF AllAgreed
<1>1. rows[device][key] \in AllRows /\ Agreed(rows[device][key])
  BY DEF TypeOK, AllAgreed
<1>2. Settled(device)[key]
        = [rows[device][key] EXCEPT !.here = rows[device][key].here \/ key \in TakenUp(device)]
  BY DEF Settled
<1>3. key \in TakenUp(device) => rows[device][key].favoured
  BY DEF TakenUp
<1>4. QED
  BY <1>1, <1>2, <1>3 DEF Agreed, Known, AllRows

\* What a device took for a recording is a note of it that came later than its row.
LEMMA TakenAgrees ==
  ASSUME NEW device \in Devices, NEW ledger \in [Keys -> AllRows], NEW notes \in SUBSET AllNotes,
         AllAgreed(ledger)
  PROVE  AllAgreed(Taken(device, ledger, notes))
<1> DEFINE taken == Taken(device, ledger, notes)
           won == Winning(ledger, notes)
<1> SUFFICES ASSUME NEW key \in Keys
             PROVE  Agreed(taken[key])
  BY DEF AllAgreed
<1>1. ledger[key] \in AllRows /\ ledger[key].stamp \in Stamps /\ Agreed(ledger[key])
  BY DEF AllRows, AllAgreed
<1>2. taken \in [Keys -> AllRows] /\ taken[key] \in AllRows
      /\ (taken[key] = ledger[key] \/ Later(taken[key].stamp, ledger[key].stamp))
  BY TakenRows
<1>3. CASE taken[key] = ledger[key]
  BY <1>1, <1>3
<1>4. CASE Later(taken[key].stamp, ledger[key].stamp)
  <2>1. Known(taken[key])
    BY <1>1, <1>2, <1>4, LaterIsKnown
  <2>2. taken[key].here => taken[key].favoured
    <3>1. CASE \E note \in won : note.key = key
      BY <3>1 DEF Taken
    <3>2. CASE ~\E note \in won : note.key = key
      <4>1. taken[key] = ledger[key]
        BY <3>2 DEF Taken
      <4>2. QED
        BY <1>1, <4>1 DEF Agreed
    <3>3. QED
      BY <3>1, <3>2
  <2>3. QED
    BY <2>1, <2>2 DEF Agreed
<1>5. QED
  BY <1>2, <1>3, <1>4

LEMMA SentAgrees ==
  ASSUME NEW ledger \in [Keys -> AllRows], NEW notes, AllAgreed(ledger)
  PROVE  AllAgreed(Sent(ledger, notes)) /\ AllAgreed(OweEverything(ledger))
<1> SUFFICES ASSUME NEW key \in Keys
             PROVE  Agreed(Sent(ledger, notes)[key]) /\ Agreed(OweEverything(ledger)[key])
  BY DEF AllAgreed
<1>1. ledger[key] \in AllRows /\ Agreed(ledger[key])
  BY DEF AllAgreed
<1>2. ASSUME NEW owed
      PROVE  Agreed([ledger[key] EXCEPT !.owed = owed])
  BY <1>1 DEF AllRows, Agreed, Known
<1>3. PICK owed : Sent(ledger, notes)[key] = [ledger[key] EXCEPT !.owed = owed]
  BY DEF Sent
<1>4. OweEverything(ledger)[key] = [ledger[key] EXCEPT !.owed = Known(ledger[key])]
  BY DEF OweEverything
<1>5. QED
  BY <1>2, <1>3, <1>4

-----------------------------------------------------------------------------
(* The inductive invariant.                                                *)

RowsAgreed == \A device \in Devices : AllAgreed(rows[device])

\* A word of a device is not past the row it made of it.
OwnWords ==
  \A device \in Devices : \A note \in Words :
    note.stamp.device = device => ~Later(note.stamp, rows[device][note.key].stamp)

EditsInv == PromiseInv /\ RowsAgreed /\ OwnWords

\* A row that does not move, or moves on, is past no less than it was.
LEMMA RowsPastTheirWords ==
  ASSUME TypeOK, TypeOK', RowsMoved, NEW device \in Devices, NEW key \in Keys, NEW stamp \in Stamps,
         ~Later(stamp, rows[device][key].stamp)
  PROVE  ~Later(stamp, rows'[device][key].stamp)
<1>1. /\ rows[device] \in [Keys -> AllRows] /\ rows'[device] \in [Keys -> AllRows]
      /\ rows[device][key].stamp \in Stamps /\ rows'[device][key].stamp \in Stamps
  <2>1. rows[device] \in [Keys -> AllRows] /\ rows'[device] \in [Keys -> AllRows]
    BY RowsType, NextRowsType
  <2>2. rows[device][key] \in AllRows /\ rows'[device][key] \in AllRows
    BY <2>1
  <2>3. QED
    BY <2>1, <2>2 DEF AllRows
<1>2. CASE Note(rows'[device], key) = Note(rows[device], key)
  <2>1. rows'[device][key].stamp = rows[device][key].stamp
    BY <1>1, <1>2, NoteType
  <2>2. QED
    BY <2>1
<1>3. CASE Later(rows'[device][key].stamp, rows[device][key].stamp)
  BY <1>1, <1>3, LaterIsTransitive
<1>4. QED
  BY <1>2, <1>3 DEF RowsMoved

LEMMA OwnWordsStand ==
  ASSUME WordsInv, OwnWords, TypeOK', RowsMoved, Moved
  PROVE  OwnWords'
<1>1. TypeOK /\ Words \in SUBSET AllNotes
  BY WordsType DEF WordsInv
<1>2. ASSUME NEW device \in Devices, NEW note \in Words, note.stamp.device = device
      PROVE  ~Later(note.stamp, rows'[device][note.key].stamp)
  <2>1. note.key \in Keys /\ note.stamp \in Stamps
    BY <1>1 DEF AllNotes
  <2>2. ~Later(note.stamp, rows[device][note.key].stamp)
    BY <1>2 DEF OwnWords
  <2>3. QED
    BY <1>1, <2>1, <2>2, RowsPastTheirWords
<1>3. CASE Words' \subseteq Words
  BY <1>2, <1>3 DEF OwnWords
<1>4. CASE \E device \in Devices : \E notes \in SUBSET Words :
             LedgerMoves(device, notes) /\ Words' \subseteq Words \cup NotesOf(rows'[device])
  <2>1. PICK maker \in Devices, notes \in SUBSET Words :
          LedgerMoves(maker, notes) /\ Words' \subseteq Words \cup NotesOf(rows'[maker])
    BY <1>4
  <2>2. ASSUME NEW device \in Devices, NEW note \in Words', note \notin Words,
               note.stamp.device = device
        PROVE  ~Later(note.stamp, rows'[device][note.key].stamp)
    <3>1. /\ note.key \in Keys /\ note = Note(rows'[maker], note.key)
          /\ note.stamp.device = maker
      BY <1>1, <2>1, <2>2, NewWordsAreFresh DEF Fresh
    <3>2. rows'[maker] \in [Keys -> AllRows]
      BY NextRowsType
    <3>3. note.stamp = rows'[maker][note.key].stamp /\ note.stamp \in Stamps
      BY <3>1, <3>2, NoteType DEF AllNotes
    <3>4. ~Later(note.stamp, note.stamp)
      BY <3>3 DEF Later, Stamps
    <3>5. QED
      BY <2>2, <3>1, <3>3, <3>4
  <2>3. QED
    BY <1>2, <2>2 DEF OwnWords
<1>5. QED
  BY <1>3, <1>4 DEF Moved

-----------------------------------------------------------------------------
(* Notes that arrive, after a look at what is held.                        *)

LEMMA ArrivedAgrees ==
  ASSUME TypeOK, NEW device \in Devices, AllAgreed(rows[device]), NEW notes \in SUBSET AllNotes,
         Arrives(device, notes)
  PROVE  AllAgreed(rows'[device])
<1> DEFINE marked == favourites[device]
           ledger == Looked(device, marked, rows[device], clock[device], Wall[device], FALSE)
           taken == Taken(device, ledger, notes)
<1>1. /\ marked \in SUBSET Keys /\ rows[device] \in [Keys -> AllRows] /\ clock[device] \in Nat
      /\ Wall[device] \in Nat /\ FALSE \in BOOLEAN
  BY LedgerAssumption DEF TypeOK, LedgerAssumption
<1>2. ledger \in [Keys -> AllRows]
  BY <1>1, LookedRows
<1>3. \A key \in Keys : Agreed(ledger[key])
  BY <1>1, LookedAgrees
<1>4. rows' = [rows EXCEPT ![device] = taken]
  BY DEF Arrives
<1> HIDE DEF ledger
<1>5. AllAgreed(ledger)
  BY <1>3 DEF AllAgreed
<1>6. AllAgreed(taken)
  BY <1>2, <1>5, TakenAgrees
<1> HIDE DEF taken
<1>7. rows'[device] = taken
  BY <1>4 DEF TypeOK
<1>8. QED
  BY <1>6, <1>7

\* Of a sheet, the note that won is the row that is taken.
LEMMA TakenIsWhatWon ==
  ASSUME NEW device \in Devices, NEW ledger, NEW notes \in SUBSET AllNotes, Sheet(notes),
         NEW note \in Winning(ledger, notes)
  PROVE  Taken(device, ledger, notes)[note.key].stamp = note.stamp
<1>1. note.key \in Keys
  BY DEF Winning, AllNotes
<1>2. \A other \in Winning(ledger, notes) : other.key = note.key => other = note
  BY DEF Sheet, Winning
<1>3. (CHOOSE other \in Winning(ledger, notes) : other.key = note.key) = note
  BY <1>2
<1>4. QED
  BY <1>1, <1>3 DEF Taken

\* What undoes a hand, of the words that reach a device: EditsStand's second case.
Undone(device, key) ==
  /\ Later(rows'[device][key].stamp, rows[device][key].stamp)
  /\ rows'[device][key].stamp.device # device
  /\ Unlooked(favourites[device], rows[device][key], key) =>
       Known(rows[device][key]) /\ rows'[device][key].stamp.nanos > clock[device]

LEMMA ArrivedUndoes ==
  ASSUME WordsInv, RowsAgreed, OwnWords, NEW device \in Devices, NEW notes \in SUBSET Words,
         Sheet(notes), Arrives(device, notes), NEW key \in Keys,
         (key \in favourites[device]) # (key \in favourites'[device])
  PROVE  Undone(device, key)
<1> DEFINE marked == favourites[device]
           row == rows[device][key]
           asked == Differing(marked, rows[device])
           ledger == Looked(device, marked, rows[device], clock[device], Wall[device], FALSE)
           ticked == Ticked(clock[device], Wall[device], asked)
           taken == Taken(device, ledger, notes)
           won == Winning(ledger, notes)
<1>1. TypeOK /\ notes \in SUBSET AllNotes
  BY WordsType DEF WordsInv
<1>2. /\ marked \in SUBSET Keys /\ rows[device] \in [Keys -> AllRows] /\ clock[device] \in Nat
      /\ Wall[device] \in Nat /\ FALSE \in BOOLEAN
  BY <1>1, LedgerAssumption DEF TypeOK, LedgerAssumption
<1>3. asked \in SUBSET Keys /\ IsFiniteSet(asked)
  BY <1>2, DifferingKeys
<1>4. ticked \in Nat
  BY <1>2, <1>3, TickedType
<1>5. ledger \in [Keys -> AllRows]
  BY <1>2, LookedRows
<1>6. AllAgreed(rows[device])
  BY DEF RowsAgreed
<1>7. \/ /\ ledger[key].stamp = row.stamp
         /\ Unlooked(marked, row, key) => key \in marked /\ ~Known(row)
      \/ Fresh(ledger[key].stamp, device, clock[device], ticked) /\ Known(row)
  BY <1>2, <1>6, LookedAgrees
<1>8. /\ favourites' = [favourites EXCEPT ![device] = Favoured(device, marked, ledger, notes)]
      /\ rows' = [rows EXCEPT ![device] = taken]
  BY DEF Arrives
<1> HIDE DEF asked, ledger, ticked
<1>9. (key \in marked) # (key \in Favoured(device, marked, ledger, notes))
  BY <1>1, <1>8 DEF TypeOK
<1>10. PICK note \in won : note.key = key /\ (key \in marked => Known(ledger[key]))
  BY <1>9 DEF Favoured
<1>11. /\ note \in notes /\ note \in Words /\ note.stamp \in Stamps
       /\ Later(note.stamp, ledger[key].stamp)
  BY <1>1, <1>10 DEF Winning, AllNotes
<1>12. rows'[device][key].stamp = note.stamp
  <2>1. taken[key].stamp = note.stamp
    BY <1>1, <1>10, TakenIsWhatWon
  <2> HIDE DEF taken
  <2>2. rows'[device] = taken
    BY <1>1, <1>8 DEF TypeOK
  <2>3. QED
    BY <2>1, <2>2
<1>13. row.stamp \in Stamps /\ ledger[key].stamp \in Stamps
  BY <1>2, <1>5 DEF AllRows
<1>14. Later(note.stamp, row.stamp)
  <2>1. CASE ledger[key].stamp = row.stamp
    BY <1>11, <2>1
  <2>2. CASE Fresh(ledger[key].stamp, device, clock[device], ticked)
    <3>1. Later(ledger[key].stamp, row.stamp)
      BY <1>4, <1>13, <2>2, FreshIsLater
    <3>2. QED
      BY <1>11, <1>13, <3>1, LaterIsTransitive
  <2>3. QED
    BY <1>7, <2>1, <2>2
<1>15. note.stamp.device # device
  BY <1>10, <1>11, <1>14 DEF OwnWords
<1>16. Unlooked(marked, row, key) => Known(row) /\ note.stamp.nanos > clock[device]
  <2>1. CASE /\ ledger[key].stamp = row.stamp
             /\ Unlooked(marked, row, key) => key \in marked /\ ~Known(row)
    BY <1>10, <2>1 DEF Known
  <2>2. CASE Fresh(ledger[key].stamp, device, clock[device], ticked) /\ Known(row)
    BY <1>2, <1>11, <1>13, <2>2 DEF Fresh, Later, Stamps
  <2>3. QED
    BY <1>7, <2>1, <2>2
<1>17. QED
  BY <1>12, <1>14, <1>15, <1>16 DEF Undone

-----------------------------------------------------------------------------
(* What each action does to what the hand set.                             *)

\* EditsStand of one step.
HandStands ==
  \A device \in Devices, key \in Keys :
    edits' = edits /\ (key \in favourites[device]) # (key \in favourites'[device]) =>
      key \in TakenUp(device) \cap favourites'[device] \/ Undone(device, key)

Stands == RowsAgreed' /\ HandStands

LEMMA QuietStands ==
  ASSUME RowsAgreed, UNCHANGED <<favourites, rows>>
  PROVE  Stands
  BY DEF Stands, HandStands, RowsAgreed, AllAgreed

LEMMA OneLedgerStands ==
  ASSUME TypeOK, RowsAgreed, NEW device \in Devices, NEW ledger, AllAgreed(ledger),
         rows' = [rows EXCEPT ![device] = ledger]
  PROVE  RowsAgreed'
<1>1. rows'[device] = ledger /\ \A other \in Devices \ {device} : rows'[other] = rows[other]
  BY DEF TypeOK
<1>2. ASSUME NEW other \in Devices
      PROVE  AllAgreed(rows'[other])
  BY <1>1 DEF RowsAgreed
<1>3. QED
  BY <1>2 DEF RowsAgreed, AllAgreed

LEMMA LookStands ==
  ASSUME EditsInv, NEW device \in Devices, Looks(device)
  PROVE  Stands
<1> DEFINE marked == favourites[device] \cup TakenUp(device)
           settled == Settled(device)
           ledger == Looked(device, marked, settled, clock[device], Wall[device], TRUE)
<1>1. TypeOK /\ RowsAgreed
  BY DEF EditsInv, PromiseInv, WordsInv
<1>2. settled \in [Keys -> AllRows] /\ TakenUp(device) \in SUBSET Keys
  BY <1>1, SettledRows
<1>3. /\ marked \in SUBSET Keys /\ clock[device] \in Nat /\ Wall[device] \in Nat
      /\ TRUE \in BOOLEAN
  BY <1>1, <1>2, LedgerAssumption DEF TypeOK, LedgerAssumption
<1>4. AllAgreed(settled)
  BY <1>1, SettledAgrees DEF RowsAgreed
<1>5. \A key \in Keys : Agreed(ledger[key])
  BY <1>2, <1>3, <1>4, LookedAgrees
<1>6. /\ favourites' = [favourites EXCEPT ![device] = marked]
      /\ rows' = [rows EXCEPT ![device] = ledger]
  BY DEF Looks
<1> HIDE DEF ledger
<1>7. AllAgreed(ledger)
  BY <1>5 DEF AllAgreed
<1>8. RowsAgreed'
  BY <1>1, <1>6, <1>7, OneLedgerStands
<1>9. HandStands
  BY <1>1, <1>6 DEF HandStands, TypeOK
<1>10. QED
  BY <1>8, <1>9 DEF Stands

LEMMA ArrivedStands ==
  ASSUME EditsInv, NEW device \in Devices, NEW notes \in SUBSET Words, Sheet(notes),
         Arrives(device, notes)
  PROVE  Stands
<1>1. WordsInv /\ TypeOK /\ RowsAgreed /\ OwnWords /\ notes \in SUBSET AllNotes
  BY WordsType DEF EditsInv, PromiseInv, WordsInv
<1>2. AllAgreed(rows'[device])
  BY <1>1, ArrivedAgrees DEF RowsAgreed
<1>3. /\ \A other \in Devices \ {device} : rows'[other] = rows[other]
      /\ \A other \in Devices \ {device} : favourites'[other] = favourites[other]
  BY <1>1 DEF Arrives, TypeOK
<1>4. RowsAgreed'
  <2>1. ASSUME NEW other \in Devices
        PROVE  AllAgreed(rows'[other])
    BY <1>1, <1>2, <1>3 DEF RowsAgreed
  <2>2. QED
    BY <2>1 DEF RowsAgreed, AllAgreed
<1>5. HandStands
  <2>1. ASSUME NEW other \in Devices, NEW key \in Keys,
               (key \in favourites[other]) # (key \in favourites'[other])
        PROVE  Undone(other, key)
    <3>1. other = device
      BY <1>3, <2>1
    <3>2. QED
      BY <1>1, <2>1, <3>1, ArrivedUndoes
  <2>2. QED
    BY <2>1 DEF HandStands
<1>6. QED
  BY <1>4, <1>5 DEF Stands

LEMMA HearStands ==
  ASSUME EditsInv, NEW device \in Devices, Hear(device)
  PROVE  Stands
<1>1. TypeOK /\ RowsAgreed /\ OneNoteAKey
  BY DEF EditsInv, PromiseInv, WordsInv
<1>2. CASE HearSnapshot(device)
  <2>1. Arrives(device, server.snapshot.notes)
    BY <1>2 DEF HearSnapshot, Arrived
  <2>2. Sheet(server.snapshot.notes) /\ server.snapshot.notes \subseteq Words
    BY <1>1, ServedWords DEF OneNoteAKey
  <2>3. QED
    BY <2>1, <2>2, ArrivedStands
<1>3. CASE HearRecord(device)
  <2>1. PICK record \in RecordsPast(device) :
          IF record.from = device THEN UNCHANGED <<favourites, kept>>
                                  ELSE Arrives(device, record.notes)
    BY <1>3 DEF HearRecord, Arrived
  <2>2. Sheet(record.notes) /\ record.notes \subseteq Words
    BY <1>1, ServedWords DEF OneNoteAKey, RecordsPast
  <2>3. CASE record.from = device
    BY <1>1, <2>1, <2>3, QuietStands DEF kept
  <2>4. CASE record.from # device
    BY <2>1, <2>2, <2>4, ArrivedStands
  <2>5. QED
    BY <2>3, <2>4
<1>4. CASE HearAppended(device)
  <2> DEFINE ledger == Sent(rows[device], link[device].inFlight)
  <2>1. rows' = [rows EXCEPT ![device] = ledger] /\ UNCHANGED favourites
    BY <1>4 DEF HearAppended, catalogs
  <2>2. rows[device] \in [Keys -> AllRows] /\ AllAgreed(rows[device])
    BY <1>1, RowsType DEF RowsAgreed
  <2>3. AllAgreed(ledger)
    BY <2>2, SentAgrees
  <2> HIDE DEF ledger
  <2>4. QED
    BY <1>1, <2>1, <2>3, OneLedgerStands DEF Stands, HandStands
<1>5. CASE HearCompacted(device)
  BY <1>1, <1>5, QuietStands DEF HearCompacted, catalogs, kept
<1>6. CASE HearStale(device)
  BY <1>1, <1>6, QuietStands DEF HearStale, catalogs, kept
<1>7. QED
  BY <1>2, <1>3, <1>4, <1>5, <1>6 DEF Hear

LEMMA LinksStand ==
  ASSUME EditsInv, NEW device \in Devices, Links(device)
  PROVE  Stands
<1>1. TypeOK /\ RowsAgreed
  BY DEF EditsInv, PromiseInv, WordsInv
<1>2. CASE Connect(device)
  BY <1>1, <1>2, QuietStands DEF Connect, catalogs, kept
<1>3. CASE FindAnew(device)
  <2> DEFINE ledger == OweEverything(rows[device])
  <2>1. rows' = [rows EXCEPT ![device] = ledger] /\ UNCHANGED favourites
    BY <1>3 DEF FindAnew, catalogs
  <2>2. rows[device] \in [Keys -> AllRows] /\ AllAgreed(rows[device])
    BY <1>1, RowsType DEF RowsAgreed
  <2>3. AllAgreed(ledger)
    BY <2>2, SentAgrees
  <2> HIDE DEF ledger
  <2>4. QED
    BY <1>1, <2>1, <2>3, OneLedgerStands DEF Stands, HandStands
<1>4. QED
  BY <1>2, <1>3 DEF Links

LEMMA TellStands ==
  ASSUME EditsInv, NEW teller \in Devices, NEW device \in Devices, Tell(teller, device)
  PROVE  Stands
<1>1. TypeOK /\ OwesWhatItKnows(rows[teller])
  BY DEF EditsInv, PromiseInv, WordsInv, ReachInv, InOrder, Remembered
<1>2. rows[teller] \in [Keys -> AllRows]
  BY <1>1, RowsType
<1>3. Sheet(Whole(rows[teller])) /\ Whole(rows[teller]) \subseteq Words
  BY <1>1, <1>2, LedgerSheets, NotesOfType, WordsOfLedgers
<1>4. QED
  BY <1>3, ArrivedStands DEF Tell, Arrived

LEMMA NextStands ==
  ASSUME EditsInv, [Next]_vars
  PROVE  Stands
<1>1. TypeOK /\ RowsAgreed
  BY DEF EditsInv, PromiseInv, WordsInv
<1>2. ASSUME NEW device \in Devices, Works(device) \/ Break(device) \/ Dies(device)
      PROVE  Stands
  <2>1. CASE Take(device)
    BY <1>1, <2>1, QuietStands
       DEF Take, TakeAppend, TakeCompact, RefuseCompact, TakesOf, catalogs, kept
  <2>2. CASE Break(device) \/ Die(device)
    BY <1>1, <2>2, QuietStands DEF Break, Die, catalogs, kept
  <2>3. CASE DieWhileHearing(device)
    <3>1. PICK notes \in SUBSET AllNotes :
            Arrives(device, notes) /\ Sheet(notes) /\ notes \in SUBSET Words
      BY <2>3, DieWhileHearingArrives DEF EditsInv, PromiseInv
    <3>2. QED
      BY <3>1, ArrivedStands
  <2>4. CASE Look(device) \/ DieWhileLooking(device)
    BY <2>4, LookStands DEF Look, DieWhileLooking
  <2>5. QED
    BY <1>2, <2>1, <2>2, <2>3, <2>4, HearStands, LinksStand DEF Works, Dies
<1>3. ASSUME NEW device \in Devices, NEW key \in Keys, Edit(device, key)
      PROVE  Stands
  <2>1. edits' # edits /\ UNCHANGED rows
    BY <1>1, <1>3 DEF Edit, TypeOK, kept
  <2>2. QED
    BY <1>1, <2>1 DEF Stands, HandStands, RowsAgreed, AllAgreed
<1>4. ASSUME NEW device \in Devices, NEW key \in Keys, Land(device, key)
      PROVE  Stands
  BY <1>1, <1>4, QuietStands DEF Land, kept
<1>5. CASE Lose
  BY <1>1, <1>5, QuietStands DEF Lose, catalogs, kept
<1>6. CASE UNCHANGED vars
  BY <1>1, <1>6, QuietStands DEF vars
<1>7. QED
  BY <1>2, <1>3, <1>4, <1>5, <1>6, TellStands DEF Next

-----------------------------------------------------------------------------
(* The theorem.                                                            *)

LEMMA InitEdits == Init => EditsInv
<1> SUFFICES ASSUME Init PROVE EditsInv
  OBVIOUS
<1>1. PromiseInv /\ TypeOK
  BY InitPromise DEF PromiseInv, WordsInv
<1>2. /\ rows = [device \in Devices |-> [key \in Keys |-> NoRow]]
      /\ clock = [device \in Devices |-> 0]
  BY DEF Init
<1>3. ~NoRow.here /\ ~NoRow.favoured /\ NoRow.stamp = NoStamp
  BY DEF NoRow
<1>4. RowsAgreed
  BY <1>2, <1>3 DEF RowsAgreed, AllAgreed, Agreed
<1>5. OwnWords
  <2> SUFFICES ASSUME NEW device \in Devices, NEW note \in Words, note.stamp.device = device
               PROVE  ~Later(note.stamp, rows[device][note.key].stamp)
    BY DEF OwnWords
  <2>1. note.key \in Keys /\ note.stamp \in Stamps
    BY <1>1, WordsType DEF AllNotes
  <2>2. note \in NotesOf(rows[device]) \/ note.stamp = NoStamp
    <3>1. Logged = {} /\ server.snapshot.notes = {} /\ \A d \in Devices : Carried(link[d]) = {}
      BY DownLink DEF Init, NoSpace, Logged
    <3>2. PICK d \in Devices : note \in NotesOf(rows[d])
      BY <3>1 DEF Words
    <3>3. QED
      BY <1>2, <1>3, <3>2 DEF NotesOf, Note
  <2>3. rows[device][note.key].stamp = NoStamp
    BY <1>2, <1>3, <2>1
  <2>4. note.stamp = NoStamp
    BY <1>2, <1>3, <2>2 DEF NotesOf, Note
  <2>5. QED
    BY <2>3, <2>4 DEF Later, NoStamp
<1>6. QED
  BY <1>1, <1>4, <1>5 DEF EditsInv

\* Whatever arrives, is told, breaks or is lost, what undoes a favourite set by hand is a later
\* word of another device, past this device's clock where no look had stamped the hand
\* (arrived: look_at_favourites first, then favourite_arrived, ledger.rs); on the same terms.
THEOREM EditsStandAlways ==
  ASSUME WallMovesOn
  PROVE  Spec => EditsStand
<1>1. EditsInv /\ [Next]_vars => EditsInv'
  <2> SUFFICES ASSUME EditsInv, [Next]_vars
               PROVE  EditsInv'
    OBVIOUS
  <2>1. PromiseInv'
    BY NextKeepsPromise, WallMovesOn DEF EditsInv
  <2>2. TypeOK' /\ RowsMoved /\ Moved
    BY NextKeeps, NextKeepsTheWords, WallMovesOn DEF EditsInv, PromiseInv, WordsInv
  <2>3. OwnWords'
    BY <2>2, OwnWordsStand DEF EditsInv, PromiseInv
  <2>4. QED
    BY <2>1, <2>3, NextStands DEF Stands, EditsInv
<1>2. EditsInv /\ [Next]_vars => [HandStands]_vars
  BY NextStands DEF Stands
<1>3. [HandStands]_vars <=>
        [\A device \in Devices, key \in Keys :
           edits' = edits /\ (key \in favourites[device]) # (key \in favourites'[device]) =>
             LET row == rows[device][key]
                 word == rows'[device][key].stamp
                 marked == key \in favourites[device]
                 unlooked == marked # row.here /\ marked # row.favoured
             IN  \/ key \in TakenUp(device) \cap favourites'[device]
                 \/ /\ Later(word, row.stamp) /\ word.device # device
                    /\ unlooked => Known(row) /\ word.nanos > clock[device]]_vars
  BY DEF HandStands, Undone, Unlooked
<1>4. QED
  BY <1>1, <1>2, <1>3, InitEdits, PTL DEF Spec, EditsStand

=============================================================================
