---------------------------- MODULE LedgerProofs ----------------------------
(***************************************************************************)
(* What Ledger promises for any devices, recordings, clocks and bounds:    *)
(* its types, that one stamp is one word wherever it is written, and that  *)
(* a row only gives way to a later word.                                   *)
(***************************************************************************)
EXTENDS Ledger, FiniteSetTheorems, TLAPS

-----------------------------------------------------------------------------
(* The clock, and what it stamps.                                          *)

LEMMA GreatestType ==
  ASSUME NEW a \in Nat, NEW b \in Nat
  PROVE  Greatest(a, b) \in Nat /\ Greatest(a, b) >= a /\ Greatest(a, b) >= b
  BY DEF Greatest

LEMMA LaterIsTransitive ==
  ASSUME NEW a \in Stamps, NEW b \in Stamps, NEW c \in Stamps, Later(a, b), Later(b, c)
  PROVE  Later(a, c)
  BY DEF Later, Stamps

LEMMA NoteType ==
  ASSUME NEW ledger \in [Keys -> AllRows], NEW key \in Keys
  PROVE  /\ Note(ledger, key) \in AllNotes
         /\ Note(ledger, key).key = key
         /\ Note(ledger, key).stamp = ledger[key].stamp
  BY DEF Note, AllNotes, AllRows

LEMMA DifferingKeys ==
  ASSUME NEW marked \in SUBSET Keys, NEW ledger
  PROVE  Differing(marked, ledger) \in SUBSET Keys /\ IsFiniteSet(Differing(marked, ledger))
<1>1. Differing(marked, ledger) \in SUBSET Keys
  BY DEF Differing
<1>2. QED
  BY <1>1, LedgerAssumption, FS_Subset DEF LedgerAssumption

\* Every stamp of a look is past the clock, and the clock ends past every stamp.
LEMMA StampedPastTheClock ==
  ASSUME NEW device \in Devices, NEW last \in Nat, NEW wall \in Nat, NEW marked \in SUBSET Keys,
         NEW asked \in SUBSET Keys, IsFiniteSet(asked), NEW key \in asked
  PROVE  LET stamp == Stamped(device, last, wall, marked, asked, key) IN
           /\ stamp \in Stamps /\ stamp.device = device
           /\ stamp.nanos > last /\ stamp.nanos <= Ticked(last, wall, asked)
<1> DEFINE before == StampedBefore(marked, asked, key)
           base == Greatest(wall, last + 1)
<1>1. before \subseteq asked \ {key}
  BY LedgerAssumption DEF StampedBefore, LedgerAssumption
<1>2. /\ IsFiniteSet(asked \ {key})
      /\ Cardinality(asked \ {key}) = Cardinality(asked) - 1
  BY FS_RemoveElement
<1>3. IsFiniteSet(before) /\ Cardinality(before) <= Cardinality(asked) - 1
  BY <1>1, <1>2, FS_Subset
<1>4. Cardinality(before) \in Nat /\ Cardinality(asked) \in Nat
  BY <1>3, FS_CardinalityType
<1>5. base \in Nat /\ base > last
  BY GreatestType DEF Greatest
<1>6. device \in Nat
  BY LedgerAssumption DEF LedgerAssumption
<1> HIDE DEF before, base
<1>7. Stamped(device, last, wall, marked, asked, key)
        = [nanos |-> base + Cardinality(before), device |-> device]
  BY DEF Stamped, before, base
<1>8. Ticked(last, wall, asked) = base + Cardinality(asked) - 1
  BY DEF Ticked, base
<1>9. QED
  BY <1>3, <1>4, <1>5, <1>6, <1>7, <1>8 DEF Stamps

LEMMA TickedType ==
  ASSUME NEW last \in Nat, NEW wall \in Nat, NEW asked \in SUBSET Keys, IsFiniteSet(asked)
  PROVE  Ticked(last, wall, asked) \in Nat /\ Ticked(last, wall, asked) >= last
<1>1. CASE asked = {}
  BY <1>1 DEF Ticked
<1>2. CASE asked # {}
  <2>1. Cardinality(asked) \in Nat /\ Cardinality(asked) >= 1
    BY <1>2, FS_CardinalityType, FS_EmptySet
  <2>2. Greatest(wall, last + 1) \in Nat /\ Greatest(wall, last + 1) >= last + 1
    BY GreatestType
  <2>3. QED
    BY <1>2, <2>1, <2>2 DEF Ticked
<1>3. QED
  BY <1>1, <1>2

-----------------------------------------------------------------------------
(* What a look makes of a row.                                             *)

\* A word of this device past the one clock and not past the other.
Fresh(stamp, device, last, next) ==
  stamp.device = device /\ stamp.nanos > last /\ stamp.nanos <= next

LEMMA LookedRows ==
  ASSUME NEW device \in Devices, NEW last \in Nat, NEW wall \in Nat, NEW marked \in SUBSET Keys,
         NEW ledger \in [Keys -> AllRows], NEW everything \in BOOLEAN
  PROVE  LET looked == Looked(device, marked, ledger, last, wall, everything)
             next == Ticked(last, wall, Differing(marked, ledger))
         IN  /\ looked \in [Keys -> AllRows]
             /\ \A key \in Keys :
                  \/ Note(looked, key) = Note(ledger, key) /\ looked[key].owed = ledger[key].owed
                  \/ Fresh(looked[key].stamp, device, last, next) /\ looked[key].owed
<1> DEFINE asked == Differing(marked, ledger)
           looked == Looked(device, marked, ledger, last, wall, everything)
           next == Ticked(last, wall, asked)
<1>1. asked \in SUBSET Keys /\ IsFiniteSet(asked)
  BY DifferingKeys
<1> SUFFICES ASSUME NEW key \in Keys
             PROVE  /\ looked[key] \in AllRows
                    /\ \/ Note(looked, key) = Note(ledger, key)
                          /\ looked[key].owed = ledger[key].owed
                       \/ Fresh(looked[key].stamp, device, last, next) /\ looked[key].owed
  BY DEF Looked
<1> DEFINE stamp == Stamped(device, last, wall, marked, asked, key)
<1>2. ledger[key] \in AllRows
  OBVIOUS
<1>3. CASE key \notin asked
  <2>1. looked[key] = ledger[key]
    BY <1>3 DEF Looked
  <2>2. QED
    BY <1>2, <2>1 DEF Note
<1>4. CASE key \in asked
  <2>1. stamp \in Stamps /\ Fresh(stamp, device, last, next)
    BY <1>1, <1>4, StampedPastTheClock DEF Fresh
  <2> DEFINE newly == [favoured |-> TRUE, here |-> TRUE, stamp |-> stamp, owed |-> TRUE]
             gone == [favoured |-> FALSE, here |-> FALSE, stamp |-> stamp, owed |-> TRUE]
  <2>2. looked[key] \in {gone, newly, ledger[key], [ledger[key] EXCEPT !.here = TRUE]}
    BY <1>4 DEF Looked
  <2> HIDE DEF stamp, looked, next, asked
  <2>3. CASE looked[key] \in {gone, newly}
    <3>1. looked[key] \in AllRows /\ looked[key].stamp = stamp /\ looked[key].owed
      <4>1. gone \in AllRows /\ gone.stamp = stamp /\ gone.owed
        BY <2>1 DEF AllRows
      <4>2. newly \in AllRows /\ newly.stamp = stamp /\ newly.owed
        BY <2>1 DEF AllRows
      <4>3. QED
        BY <2>3, <4>1, <4>2
    <3>2. QED
      BY <2>1, <3>1
  <2>4. CASE looked[key] \in {ledger[key], [ledger[key] EXCEPT !.here = TRUE]}
    BY <1>2, <2>4 DEF AllRows, Note
  <2>5. QED
    BY <2>2, <2>3, <2>4
<1>5. QED
  BY <1>3, <1>4

LEMMA SettledRows ==
  ASSUME TypeOK, NEW device \in Devices
  PROVE  /\ Settled(device) \in [Keys -> AllRows] /\ TakenUp(device) \in SUBSET Keys
         /\ \A key \in Keys : /\ Note(Settled(device), key) = Note(rows[device], key)
                              /\ Settled(device)[key].owed = rows[device][key].owed
<1>1. TakenUp(device) \in SUBSET Keys
  BY DEF TypeOK, TakenUp
<1>2. ASSUME NEW key \in Keys
      PROVE  /\ Settled(device)[key] \in AllRows
             /\ Note(Settled(device), key) = Note(rows[device], key)
             /\ Settled(device)[key].owed = rows[device][key].owed
  <2>1. rows[device][key] \in AllRows
    BY DEF TypeOK
  <2>2. Settled(device)[key]
          = [rows[device][key] EXCEPT !.here = rows[device][key].here \/ key \in TakenUp(device)]
    BY DEF Settled
  <2>3. QED
    BY <2>1, <2>2 DEF AllRows, Note
<1>3. QED
  BY <1>1, <1>2 DEF Settled

-----------------------------------------------------------------------------
(* What notes that arrive make of a row, and of the clock.                 *)

LEMMA SawAllType ==
  ASSUME NEW last \in Nat, NEW notes \in SUBSET AllNotes, NEW nanos \in SawAll(last, notes)
  PROVE  nanos \in Nat /\ nanos >= last /\ \A note \in notes : nanos >= note.stamp.nanos
  BY DEF SawAll, AllNotes, Stamps

LEMMA TakenRows ==
  ASSUME NEW device \in Devices, NEW ledger \in [Keys -> AllRows], NEW notes \in SUBSET AllNotes
  PROVE  LET taken == Taken(device, ledger, notes) IN
           /\ taken \in [Keys -> AllRows]
           /\ \A key \in Keys : \/ taken[key] = ledger[key]
                                \/ /\ Note(taken, key) \in notes
                                   /\ Later(taken[key].stamp, ledger[key].stamp)
<1> DEFINE taken == Taken(device, ledger, notes)
           won == Winning(ledger, notes)
<1> SUFFICES ASSUME NEW key \in Keys
             PROVE  /\ taken[key] \in AllRows
                    /\ \/ taken[key] = ledger[key]
                       \/ /\ Note(taken, key) \in notes
                          /\ Later(taken[key].stamp, ledger[key].stamp)
  BY DEF Taken
<1>1. CASE ~\E note \in won : note.key = key
  BY <1>1 DEF Taken
<1>2. CASE \E note \in won : note.key = key
  <2> DEFINE note == CHOOSE n \in won : n.key = key
  <2>1. note \in won /\ note.key = key
    BY <1>2
  <2>2. taken[key] = [favoured |-> note.favoured, here |-> note.favoured /\ note.key \in holds[device],
                      stamp |-> note.stamp, owed |-> FALSE]
    BY <1>2 DEF Taken
  <2> HIDE DEF note, taken
  <2>3. note \in notes /\ note \in AllNotes /\ Later(note.stamp, ledger[key].stamp)
    BY <2>1 DEF Winning
  <2>4. note.favoured \in BOOLEAN /\ note.stamp \in Stamps
    BY <2>3 DEF AllNotes
  <2>5. taken[key] \in AllRows /\ taken[key].favoured = note.favoured /\ taken[key].stamp = note.stamp
    BY <2>2, <2>4 DEF AllRows
  <2>6. Note(taken, key) = note
    BY <2>1, <2>3, <2>5 DEF Note, AllNotes
  <2>7. QED
    BY <2>3, <2>5, <2>6
<1>3. QED
  BY <1>1, <1>2

\* How the rows of a device move when these notes reach it, and the instant its clock is at.
RowsMove(device, notes, nanos) ==
  /\ rows' \in [Devices -> [Keys -> AllRows]] /\ nanos \in Nat /\ nanos >= clock[device]
  /\ \A other \in Devices \ {device} : rows'[other] = rows[other]
  /\ \A note \in notes : note.stamp.nanos <= nanos
  /\ \A key \in Keys :
       \/ Note(rows'[device], key) = Note(rows[device], key)
       \/ Fresh(rows'[device][key].stamp, device, clock[device], nanos)
       \/ /\ Note(rows'[device], key) \in notes
          /\ \/ Later(rows'[device][key].stamp, rows[device][key].stamp)
             \/ rows'[device][key].stamp.nanos > clock[device]

\* How a ledger moves: its rows, and its clock with them.
LedgerMoves(device, notes) ==
  /\ RowsMove(device, notes, clock'[device])
  /\ clock' \in [Devices -> Nat]
  /\ \A other \in Devices \ {device} : clock'[other] = clock[other]

LEMMA ArrivesMoves ==
  ASSUME TypeOK, NEW device \in Devices, NEW notes \in SUBSET AllNotes, Arrives(device, notes),
         NEW nanos \in ArrivedAt(device, notes)
  PROVE  RowsMove(device, notes, nanos) /\ favourites' \in [Devices -> SUBSET Keys]
<1> DEFINE marked == favourites[device]
           asked == Differing(marked, rows[device])
           ledger == Looked(device, marked, rows[device], clock[device], Wall[device], FALSE)
           ticked == Ticked(clock[device], Wall[device], asked)
           taken == Taken(device, ledger, notes)
<1>1. /\ marked \in SUBSET Keys /\ rows[device] \in [Keys -> AllRows] /\ clock[device] \in Nat
      /\ Wall[device] \in Nat /\ FALSE \in BOOLEAN
  BY LedgerAssumption DEF TypeOK, LedgerAssumption
<1>2. asked \in SUBSET Keys /\ IsFiniteSet(asked)
  BY <1>1, DifferingKeys
<1>3. ticked \in Nat /\ ticked >= clock[device]
  BY <1>1, <1>2, TickedType
<1>4. /\ ledger \in [Keys -> AllRows]
      /\ \A key \in Keys : \/ Note(ledger, key) = Note(rows[device], key)
                           \/ Fresh(ledger[key].stamp, device, clock[device], ticked)
  BY <1>1, LookedRows
<1>5. /\ favourites' = [favourites EXCEPT ![device] = Favoured(device, marked, ledger, notes)]
      /\ rows' = [rows EXCEPT ![device] = taken]
      /\ nanos \in SawAll(ticked, notes)
  BY DEF Arrives, ArrivedAt
<1> HIDE DEF marked, asked, ledger, ticked
<1>6. /\ taken \in [Keys -> AllRows]
      /\ \A key \in Keys : \/ taken[key] = ledger[key]
                           \/ /\ Note(taken, key) \in notes
                              /\ Later(taken[key].stamp, ledger[key].stamp)
  BY <1>4, TakenRows
<1>7. Favoured(device, marked, ledger, notes) \in SUBSET Keys
  BY <1>1 DEF Favoured, Winning, AllNotes
<1> HIDE DEF taken
<1>9. nanos \in Nat /\ nanos >= ticked /\ \A note \in notes : nanos >= note.stamp.nanos
  BY <1>3, <1>5, SawAllType
<1>10. /\ rows' \in [Devices -> [Keys -> AllRows]] /\ rows'[device] = taken
       /\ \A other \in Devices \ {device} : rows'[other] = rows[other]
  BY <1>5, <1>6 DEF TypeOK
<1>11. ASSUME NEW key \in Keys
       PROVE  \/ Note(taken, key) = Note(rows[device], key)
              \/ Fresh(taken[key].stamp, device, clock[device], nanos)
              \/ /\ Note(taken, key) \in notes
                 /\ \/ Later(taken[key].stamp, rows[device][key].stamp)
                    \/ taken[key].stamp.nanos > clock[device]
  <2>1. /\ taken[key].stamp \in Stamps /\ ledger[key].stamp \in Stamps
        /\ rows[device][key].stamp \in Stamps
    BY <1>1, <1>4, <1>6 DEF AllRows
  <2>2. CASE taken[key] = ledger[key]
    <3>1. Note(taken, key) = Note(ledger, key)
      BY <2>2 DEF Note
    <3>2. CASE Note(ledger, key) = Note(rows[device], key)
      BY <3>1, <3>2
    <3>3. CASE Fresh(ledger[key].stamp, device, clock[device], ticked)
      BY <1>1, <1>3, <1>9, <2>1, <2>2, <3>3 DEF Fresh, Stamps
    <3>4. QED
      BY <1>4, <3>2, <3>3
  <2>3. CASE Note(taken, key) \in notes /\ Later(taken[key].stamp, ledger[key].stamp)
    <3>1. CASE Note(ledger, key) = Note(rows[device], key)
      <4>1. ledger[key].stamp = rows[device][key].stamp
        BY <1>1, <1>4, <3>1, NoteType
      <4>2. QED
        BY <2>3, <4>1
    <3>2. CASE Fresh(ledger[key].stamp, device, clock[device], ticked)
      BY <1>1, <2>1, <2>3, <3>2 DEF Fresh, Later, Stamps
    <3>3. QED
      BY <1>4, <3>1, <3>2
  <2>4. QED
    BY <1>6, <2>2, <2>3
<1>12. QED
  BY <1>1, <1>3, <1>5, <1>7, <1>9, <1>10, <1>11 DEF RowsMove, TypeOK

LEMMA LooksMoves ==
  ASSUME TypeOK, NEW device \in Devices, Looks(device)
  PROVE  RowsMove(device, {}, LookedAt(device)) /\ favourites' \in [Devices -> SUBSET Keys]
<1> DEFINE marked == favourites[device] \cup TakenUp(device)
           settled == Settled(device)
           asked == Differing(marked, settled)
           ledger == Looked(device, marked, settled, clock[device], Wall[device], TRUE)
           ticked == Ticked(clock[device], Wall[device], asked)
<1>1. /\ settled \in [Keys -> AllRows] /\ TakenUp(device) \in SUBSET Keys
      /\ \A key \in Keys : Note(settled, key) = Note(rows[device], key)
  BY SettledRows
<1>2. /\ marked \in SUBSET Keys /\ clock[device] \in Nat /\ Wall[device] \in Nat
      /\ TRUE \in BOOLEAN
  BY <1>1, LedgerAssumption DEF TypeOK, LedgerAssumption
<1>3. asked \in SUBSET Keys /\ IsFiniteSet(asked)
  BY <1>2, DifferingKeys
<1>4. ticked \in Nat /\ ticked >= clock[device]
  BY <1>2, <1>3, TickedType
<1>5. /\ ledger \in [Keys -> AllRows]
      /\ \A key \in Keys : \/ Note(ledger, key) = Note(settled, key)
                           \/ Fresh(ledger[key].stamp, device, clock[device], ticked)
  BY <1>1, <1>2, LookedRows
<1>6. /\ favourites' = [favourites EXCEPT ![device] = marked]
      /\ rows' = [rows EXCEPT ![device] = ledger]
      /\ LookedAt(device) = ticked
  BY DEF Looks, LookedAt
<1> HIDE DEF marked, settled, asked, ledger, ticked
<1>7. QED
  BY <1>1, <1>2, <1>4, <1>5, <1>6 DEF RowsMove, TypeOK

\* A clock kept at the instant the rows moved to.
LEMMA ClockMoves ==
  ASSUME TypeOK, NEW device \in Devices, NEW notes, NEW nanos, RowsMove(device, notes, nanos),
         clock' = [clock EXCEPT ![device] = nanos]
  PROVE  LedgerMoves(device, notes)
<1>1. nanos \in Nat /\ clock \in [Devices -> Nat]
  BY DEF RowsMove, TypeOK
<1>2. /\ clock'[device] = nanos /\ clock' \in [Devices -> Nat]
      /\ \A other \in Devices \ {device} : clock'[other] = clock[other]
  BY <1>1
<1>3. QED
  BY <1>2 DEF LedgerMoves

LEMMA ArrivedMoves ==
  ASSUME TypeOK, NEW device \in Devices, NEW notes \in SUBSET AllNotes, Arrived(device, notes)
  PROVE  LedgerMoves(device, notes) /\ favourites' \in [Devices -> SUBSET Keys]
<1>1. PICK nanos \in ArrivedAt(device, notes) : clock' = [clock EXCEPT ![device] = nanos]
  BY DEF Arrived
<1>2. RowsMove(device, notes, nanos) /\ favourites' \in [Devices -> SUBSET Keys]
  BY ArrivesMoves DEF Arrived
<1>3. QED
  BY <1>1, <1>2, ClockMoves

LEMMA LookMoves ==
  ASSUME TypeOK, NEW device \in Devices, Look(device)
  PROVE  LedgerMoves(device, {}) /\ favourites' \in [Devices -> SUBSET Keys]
<1>1. RowsMove(device, {}, LookedAt(device)) /\ favourites' \in [Devices -> SUBSET Keys]
  BY LooksMoves DEF Look
<1>2. clock' = [clock EXCEPT ![device] = LookedAt(device)]
  BY DEF Look
<1>3. QED
  BY <1>1, <1>2, ClockMoves

\* A ledger whose notes stand moves nowhere.
LEMMA StandingMoves ==
  ASSUME TypeOK, NEW device \in Devices, NEW ledger \in [Keys -> AllRows],
         \A key \in Keys : Note(ledger, key) = Note(rows[device], key),
         rows' = [rows EXCEPT ![device] = ledger], clock' = clock
  PROVE  LedgerMoves(device, {})
  BY DEF LedgerMoves, RowsMove, TypeOK

LEMMA SentRows ==
  ASSUME NEW ledger \in [Keys -> AllRows], NEW notes
  PROVE  /\ Sent(ledger, notes) \in [Keys -> AllRows]
         /\ \A key \in Keys : Note(Sent(ledger, notes), key) = Note(ledger, key)
<1>1. ASSUME NEW key \in Keys
      PROVE  /\ Sent(ledger, notes)[key] \in AllRows
             /\ Note(Sent(ledger, notes), key) = Note(ledger, key)
  <2>1. ledger[key] \in AllRows
    OBVIOUS
  <2>2. Sent(ledger, notes)[key] =
          [ledger[key] EXCEPT !.owed =
             ledger[key].owed /\ ~\E note \in notes : note.key = key
                                                      /\ note.stamp = ledger[key].stamp]
    BY DEF Sent
  <2>3. QED
    BY <2>1, <2>2 DEF AllRows, Note
<1>2. QED
  BY <1>1 DEF Sent

LEMMA OweEverythingRows ==
  ASSUME NEW ledger \in [Keys -> AllRows]
  PROVE  /\ OweEverything(ledger) \in [Keys -> AllRows]
         /\ \A key \in Keys : Note(OweEverything(ledger), key) = Note(ledger, key)
<1>1. ASSUME NEW key \in Keys
      PROVE  /\ OweEverything(ledger)[key] \in AllRows
             /\ Note(OweEverything(ledger), key) = Note(ledger, key)
  <2>1. ledger[key] \in AllRows /\ Known(ledger[key]) \in BOOLEAN
    BY DEF Known
  <2>2. OweEverything(ledger)[key] = [ledger[key] EXCEPT !.owed = Known(ledger[key])]
    BY DEF OweEverything
  <2>3. QED
    BY <2>1, <2>2 DEF AllRows, Note
<1>2. QED
  BY <1>1 DEF OweEverything

-----------------------------------------------------------------------------
(* What links carry.                                                       *)

\* The notes a ledger makes, and those a link carries.
NotesOf(ledger) == {Note(ledger, key) : key \in Keys}
Carried(end) == end.inFlight \cup Said(end)

LEMMA NotesOfType ==
  ASSUME NEW ledger \in [Keys -> AllRows]
  PROVE  /\ NotesOf(ledger) \in SUBSET AllNotes
         /\ Owed(ledger) \in SUBSET NotesOf(ledger) /\ Whole(ledger) \in SUBSET NotesOf(ledger)
  BY NoteType DEF NotesOf, Owed, Whole

LEMMA SaidType ==
  ASSUME NEW says \in Seq(AllSaid), NEW i \in DOMAIN says
  PROVE  says[i] \in AllSaid /\ says[i].notes \in SUBSET AllNotes
<1>1. says[i] \in AllSaid
  OBVIOUS
<1>2. QED
  BY <1>1 DEF AllSaid

LEMMA CarriedType ==
  ASSUME NEW end \in AllLinks
  PROVE  Carried(end) \in SUBSET AllNotes
<1>1. end.inFlight \in SUBSET AllNotes /\ end.says \in Seq(AllSaid)
  BY DEF AllLinks
<1>2. \A i \in DOMAIN end.says : end.says[i].notes \in SUBSET AllNotes
  BY <1>1, SaidType
<1>3. QED
  BY <1>1, <1>2 DEF Carried, Said

LEMMA SaidOfMore ==
  ASSUME NEW says \in Seq(AllSaid), NEW said \in AllSaid
  PROVE  /\ Append(says, said) \in Seq(AllSaid)
         /\ \A i \in DOMAIN Append(says, said) :
              \/ Append(says, said)[i] = said
              \/ \E j \in DOMAIN says : Append(says, said)[i] = says[j]
  OBVIOUS

LEMMA SaidOfFewer ==
  ASSUME NEW says \in Seq(AllSaid), says # <<>>
  PROVE  /\ Head(says) \in AllSaid /\ \E j \in DOMAIN says : Head(says) = says[j]
         /\ Tail(says) \in Seq(AllSaid)
         /\ \A i \in DOMAIN Tail(says) : \E j \in DOMAIN says : Tail(says)[i] = says[j]
<1>1. ASSUME NEW i \in DOMAIN Tail(says)
      PROVE  i + 1 \in DOMAIN says /\ Tail(says)[i] = says[i + 1]
  OBVIOUS
<1>2. 1 \in DOMAIN says /\ Head(says) = says[1]
  OBVIOUS
<1>3. QED
  BY <1>1, <1>2

LEMMA PushedLink ==
  ASSUME NEW end \in AllLinks, NEW ledger \in [Keys -> AllRows]
  PROVE  /\ Pushed(end, ledger) \in AllLinks
         /\ Carried(Pushed(end, ledger)) \subseteq Carried(end) \cup NotesOf(ledger)
<1> DEFINE owed == Owed(ledger)
           said == [say |-> "append", through |-> 0, notes |-> owed]
           pushed == [end EXCEPT !.inFlight = owed, !.says = Append(end.says, said)]
<1>1. owed \in SUBSET AllNotes /\ owed \in SUBSET NotesOf(ledger)
  BY NotesOfType
<1> HIDE DEF owed
<1>2. said \in AllSaid /\ said.notes = owed
  BY <1>1 DEF AllSaid
<1>3. end.says \in Seq(AllSaid)
  BY DEF AllLinks
<1> HIDE DEF said
<1>4. /\ Append(end.says, said) \in Seq(AllSaid)
      /\ \A i \in DOMAIN Append(end.says, said) :
           \/ Append(end.says, said)[i] = said
           \/ \E j \in DOMAIN end.says : Append(end.says, said)[i] = end.says[j]
  BY <1>2, <1>3, SaidOfMore
<1>5. pushed \in AllLinks /\ pushed.inFlight = owed /\ pushed.says = Append(end.says, said)
  BY <1>1, <1>4 DEF AllLinks
<1>6. Carried(pushed) \subseteq Carried(end) \cup NotesOf(ledger)
  <2> HIDE DEF pushed
  <2> SUFFICES ASSUME NEW note \in Carried(pushed) PROVE note \in Carried(end) \cup NotesOf(ledger)
    OBVIOUS
  <2>1. CASE note \in owed
    BY <1>1, <2>1
  <2>2. CASE \E i \in DOMAIN Append(end.says, said) : note \in Append(end.says, said)[i].notes
    BY <1>1, <1>2, <1>4, <2>2 DEF Carried, Said
  <2>3. QED
    BY <1>5, <2>1, <2>2 DEF Carried, Said
<1>7. Pushed(end, ledger) \in {end, pushed}
  BY DEF Pushed, owed, said
<1>8. QED
  BY <1>5, <1>6, <1>7

LEMMA CompactingLink ==
  ASSUME NEW end \in AllLinks, NEW ledger \in [Keys -> AllRows], NEW through \in Nat, NEW since
  PROVE  /\ Compacting(end, through, since, ledger) \in AllLinks
         /\ Carried(Compacting(end, through, since, ledger))
              \subseteq Carried(end) \cup NotesOf(ledger)
<1> DEFINE whole == Whole(ledger)
           said == [say |-> "compact", through |-> through, notes |-> whole]
           asking == [end EXCEPT !.compacting = through, !.says = Append(end.says, said)]
<1>1. whole \in SUBSET AllNotes /\ whole \in SUBSET NotesOf(ledger)
  BY NotesOfType
<1> HIDE DEF whole
<1>2. said \in AllSaid /\ said.notes = whole
  BY <1>1 DEF AllSaid
<1>3. end.says \in Seq(AllSaid)
  BY DEF AllLinks
<1> HIDE DEF said
<1>4. /\ Append(end.says, said) \in Seq(AllSaid)
      /\ \A i \in DOMAIN Append(end.says, said) :
           \/ Append(end.says, said)[i] = said
           \/ \E j \in DOMAIN end.says : Append(end.says, said)[i] = end.says[j]
  BY <1>2, <1>3, SaidOfMore
<1>5. asking \in AllLinks /\ asking.inFlight = end.inFlight /\ asking.says = Append(end.says, said)
  BY <1>4 DEF AllLinks
<1>6. Carried(asking) \subseteq Carried(end) \cup NotesOf(ledger)
  <2> HIDE DEF asking
  <2> SUFFICES ASSUME NEW note \in Carried(asking) PROVE note \in Carried(end) \cup NotesOf(ledger)
    OBVIOUS
  <2>1. CASE note \in end.inFlight
    BY <2>1 DEF Carried
  <2>2. CASE \E i \in DOMAIN Append(end.says, said) : note \in Append(end.says, said)[i].notes
    BY <1>1, <1>2, <1>4, <2>2 DEF Carried, Said
  <2>3. QED
    BY <1>5, <2>1, <2>2 DEF Carried, Said
<1>7. Compacting(end, through, since, ledger) \in {end, asking}
  BY DEF Compacting, whole, said
<1>8. QED
  BY <1>5, <1>6, <1>7

LEMMA CaughtUpLink ==
  ASSUME NEW end \in AllLinks, NEW through
  PROVE  /\ CaughtUpThrough(end, through) \in AllLinks
         /\ Carried(CaughtUpThrough(end, through)) = Carried(end)
  BY DEF CaughtUpThrough, Carried, Said, AllLinks

LEMMA DownLink == Down \in AllLinks /\ Carried(Down) = {}
  BY DEF Down, Carried, Said, AllLinks

\* What is said may be taken, and the link still carries less.
LEMMA TookLink ==
  ASSUME TypeOK, NEW device \in Devices, link[device].says # <<>>
  PROVE  /\ Took(device) \in AllLinks /\ Head(link[device].says) \in AllSaid
         /\ Carried(Took(device)) \subseteq Carried(link[device])
         /\ Head(link[device].says).notes \subseteq Carried(link[device])
<1> DEFINE end == link[device]
<1>1. end \in AllLinks /\ end.says \in Seq(AllSaid)
  BY DEF TypeOK, AllLinks
<1>2. /\ Head(end.says) \in AllSaid /\ \E j \in DOMAIN end.says : Head(end.says) = end.says[j]
      /\ Tail(end.says) \in Seq(AllSaid)
      /\ \A i \in DOMAIN Tail(end.says) : \E j \in DOMAIN end.says : Tail(end.says)[i] = end.says[j]
  BY <1>1, SaidOfFewer
<1>3. Took(device) = [end EXCEPT !.says = Tail(end.says)]
  BY DEF Took
<1> HIDE DEF end
<1>4. Took(device) \in AllLinks
  BY <1>1, <1>2, <1>3 DEF AllLinks
<1>5. Took(device).inFlight = end.inFlight /\ Took(device).says = Tail(end.says)
  BY <1>1, <1>3 DEF AllLinks
<1>6. Carried(Took(device)) \subseteq Carried(end)
  BY <1>2, <1>5 DEF Carried, Said
<1>7. Head(end.says).notes \subseteq Carried(end)
  BY <1>2 DEF Carried, Said
<1>8. QED
  BY <1>2, <1>4, <1>6, <1>7 DEF end

-----------------------------------------------------------------------------
(* The inductive invariant.                                                *)

\* Every word there is: the notes of all that is kept, carried, logged or in the snapshot.
Words ==
  Logged \cup server.snapshot.notes
    \cup UNION {NotesOf(rows[device]) \cup Carried(link[device]) : device \in Devices}

\* A word of a device is behind its clock: what it stamps next is new.
WordsBehindTheClock ==
  \A note \in Words, device \in Devices :
    note.stamp.device = device => note.stamp.nanos <= clock[device]

\* A row is behind the clock: what its device stamps next is later.
RowsBehindTheClock ==
  \A device \in Devices, key \in Keys : rows[device][key].stamp.nanos <= clock[device]

OneWord == \A one, other \in Words : one.key = other.key /\ one.stamp = other.stamp => one = other

WordsInv == TypeOK /\ WordsBehindTheClock /\ RowsBehindTheClock /\ OneWord

LEMMA NotesAreWords == Notes \subseteq Words
  BY DEF Notes, Words, Whole, NotesOf, Carried

LEMMA WordsNext ==
  Words' = Logged' \cup server'.snapshot.notes
             \cup UNION {NotesOf(rows'[device]) \cup Carried(link'[device]) : device \in Devices}
  BY DEF Words, NotesOf, Carried, Said, Note

LEMMA WordsOfLedgers ==
  ASSUME NEW device \in Devices
  PROVE  NotesOf(rows[device]) \subseteq Words /\ Carried(link[device]) \subseteq Words
  BY DEF Words

LEMMA WordsType ==
  ASSUME TypeOK
  PROVE  Words \in SUBSET AllNotes
<1>1. Logged \in SUBSET AllNotes /\ server.snapshot.notes \in SUBSET AllNotes
  <2>1. server.log \in SUBSET AllRecords /\ server.snapshot.notes \in SUBSET AllNotes
    BY DEF TypeOK, AllSpaces
  <2>2. QED
    BY <2>1 DEF Logged, AllRecords
<1>2. ASSUME NEW device \in Devices
      PROVE  NotesOf(rows[device]) \cup Carried(link[device]) \in SUBSET AllNotes
  <2>1. rows[device] \in [Keys -> AllRows] /\ link[device] \in AllLinks
    BY DEF TypeOK
  <2>2. QED
    BY <2>1, NotesOfType, CarriedType
<1>3. QED
  BY <1>1, <1>2 DEF Words

\* What a step does to the words: a ledger that moves may add those it makes.
Moved ==
  \/ UNCHANGED kept /\ Words' \subseteq Words
  \/ \E device \in Devices : \E notes \in SUBSET Words :
       LedgerMoves(device, notes) /\ Words' \subseteq Words \cup NotesOf(rows'[device])

\* What a step does to the rows.
RowsMoved ==
  \A device \in Devices, key \in Keys :
    Note(rows'[device], key) # Note(rows[device], key) =>
      Later(rows'[device][key].stamp, rows[device][key].stamp)

-----------------------------------------------------------------------------
(* A step that moves the words so keeps the invariant.                     *)

\* A word is an old one, or one that some device makes past its clock.
LEMMA NewWordsAreFresh ==
  ASSUME TypeOK, NEW device \in Devices, NEW notes \in SUBSET Words, LedgerMoves(device, notes),
         Words' \subseteq Words \cup NotesOf(rows'[device]), NEW note \in Words', note \notin Words
  PROVE  /\ note.key \in Keys /\ note = Note(rows'[device], note.key)
         /\ Fresh(note.stamp, device, clock[device], clock'[device])
<1>1. rows'[device] \in [Keys -> AllRows]
  BY DEF LedgerMoves, RowsMove
<1>2. PICK key \in Keys : note = Note(rows'[device], key)
  BY DEF NotesOf
<1>3. note.key = key /\ note.stamp = rows'[device][key].stamp
  BY <1>1, <1>2, NoteType
<1>4. Note(rows[device], key) \in Words
  BY WordsOfLedgers DEF NotesOf
<1>5. QED
  BY <1>2, <1>3, <1>4 DEF LedgerMoves, RowsMove

LEMMA MovedKeeps ==
  ASSUME WordsInv, TypeOK', Moved
  PROVE  WordsInv' /\ RowsMoved
<1>1. CASE UNCHANGED kept /\ Words' \subseteq Words
  <2>1. rows' = rows /\ clock' = clock
    BY <1>1 DEF kept
  <2>2. WordsBehindTheClock' /\ RowsBehindTheClock' /\ OneWord'
    BY <1>1, <2>1 DEF WordsInv, WordsBehindTheClock, RowsBehindTheClock, OneWord
  <2>3. QED
    BY <2>1, <2>2 DEF WordsInv, RowsMoved
<1>2. CASE \E device \in Devices : \E notes \in SUBSET Words :
             LedgerMoves(device, notes) /\ Words' \subseteq Words \cup NotesOf(rows'[device])
  <2>1. PICK device \in Devices, notes \in SUBSET Words :
          LedgerMoves(device, notes) /\ Words' \subseteq Words \cup NotesOf(rows'[device])
    BY <1>2
  <2>2. /\ rows \in [Devices -> [Keys -> AllRows]] /\ rows' \in [Devices -> [Keys -> AllRows]]
        /\ clock \in [Devices -> Nat] /\ clock' \in [Devices -> Nat]
    BY <2>1 DEF WordsInv, TypeOK, LedgerMoves, RowsMove
  <2>3. \A other \in Devices : clock'[other] >= clock[other]
    BY <2>1, <2>2 DEF LedgerMoves, RowsMove
  <2>4. ASSUME NEW key \in Keys
        PROVE  /\ rows[device][key].stamp \in Stamps /\ rows'[device][key].stamp \in Stamps
               /\ rows[device][key].stamp.nanos <= clock[device]
               /\ Note(rows[device], key).stamp = rows[device][key].stamp
               /\ Note(rows'[device], key).stamp = rows'[device][key].stamp
    <3>1. rows[device][key] \in AllRows /\ rows'[device][key] \in AllRows
      BY <2>2
    <3>2. QED
      BY <3>1 DEF AllRows, WordsInv, RowsBehindTheClock, Note
  <2>5. Words \in SUBSET AllNotes /\ Words' \in SUBSET AllNotes
    <3>1. NotesOf(rows'[device]) \in SUBSET AllNotes
      BY <2>2, NotesOfType
    <3>2. QED
      BY <2>1, <3>1, WordsType DEF WordsInv
  <2>6. WordsBehindTheClock'
    <3> SUFFICES ASSUME NEW note \in Words', NEW other \in Devices, note.stamp.device = other
                 PROVE  note.stamp.nanos <= clock'[other]
      BY DEF WordsBehindTheClock
    <3>1. note.stamp.nanos \in Nat /\ clock[other] \in Nat /\ clock'[other] \in Nat
      BY <2>2, <2>5 DEF AllNotes, Stamps
    <3>2. CASE note \in Words
      <4>1. note.stamp.nanos <= clock[other]
        BY <3>2 DEF WordsInv, WordsBehindTheClock
      <4>2. QED
        BY <2>3, <3>1, <4>1
    <3>3. CASE note \notin Words
      BY <2>1, <3>3, NewWordsAreFresh DEF WordsInv, Fresh
    <3>4. QED
      BY <3>2, <3>3
  <2>7. ASSUME NEW key \in Keys
        PROVE  /\ rows'[device][key].stamp.nanos <= clock'[device]
               /\ Note(rows'[device], key) # Note(rows[device], key) =>
                    Later(rows'[device][key].stamp, rows[device][key].stamp)
    <3>1. CASE Note(rows'[device], key) = Note(rows[device], key)
      <4>1. rows'[device][key].stamp = rows[device][key].stamp
        BY <2>4, <3>1
      <4>2. QED
        BY <2>2, <2>3, <2>4, <3>1, <4>1 DEF Stamps
    <3>2. CASE Fresh(rows'[device][key].stamp, device, clock[device], clock'[device])
      BY <2>2, <2>4, <3>2 DEF Fresh, Later, Stamps
    <3>3. CASE /\ Note(rows'[device], key) \in notes
               /\ \/ Later(rows'[device][key].stamp, rows[device][key].stamp)
                  \/ rows'[device][key].stamp.nanos > clock[device]
      <4>1. rows'[device][key].stamp.nanos <= clock'[device]
        BY <2>1, <2>4, <3>3 DEF LedgerMoves, RowsMove
      <4>2. QED
        BY <2>2, <2>4, <3>3, <4>1 DEF Later, Stamps
    <3>4. QED
      BY <2>1, <3>1, <3>2, <3>3 DEF LedgerMoves, RowsMove
  <2>8. \A other \in Devices \ {device} : rows'[other] = rows[other] /\ clock'[other] = clock[other]
    BY <2>1 DEF LedgerMoves, RowsMove
  <2>9. RowsBehindTheClock' /\ RowsMoved
    <3>1. RowsBehindTheClock'
      BY <2>7, <2>8 DEF WordsInv, RowsBehindTheClock
    <3>2. RowsMoved
      BY <2>7, <2>8 DEF RowsMoved
    <3>3. QED
      BY <3>1, <3>2
  <2>10. OneWord'
    <3> SUFFICES ASSUME NEW one \in Words', NEW other \in Words',
                        one.key = other.key, one.stamp = other.stamp
                 PROVE  one = other
      BY DEF OneWord
    <3>1. ASSUME NEW old \in Words, NEW new \in Words', new \notin Words, old.stamp = new.stamp
          PROVE  FALSE
      <4>1. new.stamp.device = device /\ new.stamp.nanos > clock[device]
        BY <2>1, <3>1, NewWordsAreFresh DEF WordsInv, Fresh
      <4>2. old.stamp.nanos <= clock[device]
        BY <3>1, <4>1 DEF WordsInv, WordsBehindTheClock
      <4>3. old.stamp.nanos \in Nat /\ clock[device] \in Nat
        BY <2>2, <2>5 DEF AllNotes, Stamps
      <4>4. QED
        BY <3>1, <4>1, <4>2, <4>3
    <3>2. CASE one \in Words /\ other \in Words
      BY <3>2 DEF WordsInv, OneWord
    <3>3. CASE one \notin Words /\ other \notin Words
      BY <2>1, <3>3, NewWordsAreFresh DEF WordsInv
    <3>4. QED
      BY <3>1, <3>2, <3>3
  <2>11. QED
    BY <2>6, <2>9, <2>10 DEF WordsInv
<1>3. QED
  BY <1>1, <1>2 DEF Moved

-----------------------------------------------------------------------------
(* Each action moves the words so.                                         *)

Kept == TypeOK' /\ Moved

\* One link moves, and carries no more than it did or its ledger says.
LEMMA LinkMoves ==
  ASSUME TypeOK, NEW device \in Devices, NEW end \in AllLinks, SetLink(device, end),
         Carried(end) \subseteq Words \cup NotesOf(rows'[device]),
         \A other \in Devices \ {device} : rows'[other] = rows[other],
         Logged' \cup server'.snapshot.notes \subseteq Words
  PROVE  /\ link' \in [Devices -> AllLinks]
         /\ Words' \subseteq Words \cup NotesOf(rows'[device])
<1>1. link' = [link EXCEPT ![device] = end] /\ link \in [Devices -> AllLinks]
  BY DEF SetLink, TypeOK
<1>2. link' \in [Devices -> AllLinks] /\ link'[device] = end
      /\ \A other \in Devices \ {device} : link'[other] = link[other]
  BY <1>1
<1>3. ASSUME NEW other \in Devices
      PROVE  NotesOf(rows'[other]) \cup Carried(link'[other]) \subseteq Words \cup NotesOf(rows'[device])
  <2>1. CASE other = device
    BY <1>2, <2>1
  <2>2. CASE other # device
    BY <1>2, <2>2, WordsOfLedgers
  <2>3. QED
    BY <2>1, <2>2
<1>4. QED
  BY <1>2, <1>3, WordsNext

LEMMA LinkStands ==
  ASSUME TypeOK, NEW device \in Devices, NEW end \in AllLinks, SetLink(device, end),
         UNCHANGED rows, Carried(end) \subseteq Words \cup NotesOf(rows[device]),
         Logged' \cup server'.snapshot.notes \subseteq Words
  PROVE  link' \in [Devices -> AllLinks] /\ Words' \subseteq Words
<1>1. Carried(end) \subseteq Words \cup NotesOf(rows'[device])
  OBVIOUS
<1>2. /\ link' \in [Devices -> AllLinks]
      /\ Words' \subseteq Words \cup NotesOf(rows'[device])
  BY <1>1, LinkMoves
<1>3. NotesOf(rows'[device]) = NotesOf(rows[device])
  OBVIOUS
<1>4. QED
  BY <1>2, <1>3, WordsOfLedgers

LEMMA ServerStands ==
  ASSUME UNCHANGED server
  PROVE  Logged' \cup server'.snapshot.notes \subseteq Words
  BY DEF Words, Logged

LEMMA LinkType ==
  ASSUME TypeOK, NEW device \in Devices
  PROVE  link[device] \in AllLinks
  BY DEF TypeOK

LEMMA ReachedType ==
  ASSUME TypeOK, NEW device \in Devices, NEW end, Reached(device, end)
  PROVE  caughtUp' \in [Devices -> SUBSET {"server", "neighbour"}]
  BY DEF TypeOK, Reached

LEMMA ReadType ==
  ASSUME TypeOK, NEW device \in Devices, NEW through \in Nat, NEW since \in Nat,
         Read(device, through, since)
  PROVE  /\ read' \in [Devices -> [cursor : Nat, since : Nat, space : Nat]]
         /\ read'[device].cursor \in Nat /\ read'[device].since \in Nat
<1>1. read[device] \in [cursor : Nat, since : Nat, space : Nat]
  BY DEF TypeOK
<1>2. Greatest(read[device].cursor, through) \in Nat
  BY <1>1, GreatestType
<1> DEFINE next == [read[device] EXCEPT !.cursor = Greatest(read[device].cursor, through),
                                        !.since = since]
<1>3. next \in [cursor : Nat, since : Nat, space : Nat]
  BY <1>1, <1>2
<1>4. read' = [read EXCEPT ![device] = next]
  BY DEF Read
<1> HIDE DEF next
<1>5. QED
  BY <1>3, <1>4 DEF TypeOK

LEMMA EditKeeps ==
  ASSUME TypeOK, NEW device \in Devices, NEW key \in Keys, Edit(device, key)
  PROVE  Kept
<1>1. TypeOK'
  <2>1. favourites' \in [Devices -> SUBSET Keys]
    BY DEF Edit, TypeOK
  <2>2. QED
    BY <2>1 DEF Edit, kept, TypeOK
<1>2. Words' = Words
  BY WordsNext DEF Edit, kept, Words, Logged
<1>3. QED
  BY <1>1, <1>2 DEF Kept, Moved, Edit

LEMMA LandKeeps ==
  ASSUME TypeOK, NEW device \in Devices, NEW key \in Keys, Land(device, key)
  PROVE  Kept
<1>1. TypeOK'
  <2>1. holds' \in [Devices -> SUBSET Keys]
    BY DEF Land, TypeOK
  <2>2. QED
    BY <2>1 DEF Land, kept, TypeOK
<1>2. Words' = Words
  BY WordsNext DEF Land, kept, Words, Logged
<1>3. QED
  BY <1>1, <1>2 DEF Kept, Moved, Land

LEMMA LookKeeps ==
  ASSUME TypeOK, NEW device \in Devices, Look(device)
  PROVE  Kept
<1>1. LedgerMoves(device, {}) /\ favourites' \in [Devices -> SUBSET Keys]
  BY LookMoves
<1>2. UNCHANGED <<holds, read, caughtUp, server, edits, turns>>
  BY DEF Look, bounds
<1>3. SetLink(device, Pushed(link[device], rows'[device]))
  BY DEF Look
<1>4. rows'[device] \in [Keys -> AllRows]
  BY <1>1 DEF LedgerMoves, RowsMove
<1>5. Pushed(link[device], rows'[device]) \in AllLinks
      /\ Carried(Pushed(link[device], rows'[device])) \subseteq Words \cup NotesOf(rows'[device])
  BY <1>4, LinkType, PushedLink, WordsOfLedgers
<1>6. \A other \in Devices \ {device} : rows'[other] = rows[other]
  BY <1>1 DEF LedgerMoves, RowsMove
<1>7. link' \in [Devices -> AllLinks] /\ Words' \subseteq Words \cup NotesOf(rows'[device])
  BY <1>2, <1>3, <1>5, <1>6, ServerStands, LinkMoves
<1>8. TypeOK'
  BY <1>1, <1>2, <1>7 DEF TypeOK, LedgerMoves, RowsMove
<1>9. QED
  BY <1>1, <1>7, <1>8 DEF Kept, Moved

\* What the server holds is words, and of their type.
LEMMA ServedWords ==
  ASSUME TypeOK
  PROVE  /\ server.head \in Nat /\ server.space \in Nat /\ server.snapshot.through \in Nat
         /\ server.snapshot.notes \subseteq Words /\ server.snapshot.notes \in SUBSET AllNotes
         /\ \A record \in server.log : /\ record \in AllRecords
                                       /\ record.notes \subseteq Words
                                       /\ record.notes \in SUBSET AllNotes
<1>1. server \in AllSpaces
  BY DEF TypeOK
<1>2. /\ server.head \in Nat /\ server.space \in Nat /\ server.log \in SUBSET AllRecords
      /\ server.snapshot.through \in Nat /\ server.snapshot.notes \in SUBSET AllNotes
  BY <1>1 DEF AllSpaces
<1>3. server.snapshot.notes \subseteq Words
  BY DEF Words
<1>4. ASSUME NEW record \in server.log
      PROVE  record \in AllRecords /\ record.notes \subseteq Words
             /\ record.notes \in SUBSET AllNotes
  BY <1>2, <1>4 DEF AllRecords, Words, Logged
<1>5. QED
  BY <1>2, <1>3, <1>4

LEMMA CompactingMoves ==
  ASSUME TypeOK, NEW device \in Devices, NEW end \in AllLinks,
         Carried(end) \subseteq Carried(link[device]),
         rows' \in [Devices -> [Keys -> AllRows]], NEW through \in Nat, NEW since
  PROVE  LET asking == Compacting(end, through, since, rows'[device]) IN
           /\ asking \in AllLinks
           /\ Carried(asking) \subseteq Words \cup NotesOf(rows'[device])
<1>1. rows'[device] \in [Keys -> AllRows]
  OBVIOUS
<1>2. QED
  BY <1>1, CompactingLink, WordsOfLedgers

LEMMA HearSnapshotKeeps ==
  ASSUME TypeOK, NEW device \in Devices, HearSnapshot(device)
  PROVE  Kept
<1> DEFINE end == CaughtUpThrough(link[device], server.snapshot.through)
<1>1. LedgerMoves(device, server.snapshot.notes) /\ favourites' \in [Devices -> SUBSET Keys]
  BY ServedWords, ArrivedMoves DEF HearSnapshot
<1>2. UNCHANGED <<holds, server, edits, turns>>
  BY DEF HearSnapshot, bounds
<1>3. read' \in [Devices -> [cursor : Nat, since : Nat, space : Nat]]
  BY ServedWords, ReadType DEF HearSnapshot
<1>4. caughtUp' \in [Devices -> SUBSET {"server", "neighbour"}]
  BY ReachedType DEF HearSnapshot
<1>5. end \in AllLinks /\ Carried(end) \subseteq Words
  BY LinkType, CaughtUpLink, WordsOfLedgers
<1>6. \A other \in Devices \ {device} : rows'[other] = rows[other]
  BY <1>1 DEF LedgerMoves, RowsMove
<1>7. link' \in [Devices -> AllLinks] /\ Words' \subseteq Words \cup NotesOf(rows'[device])
  <2>1. SetLink(device, end)
    BY DEF HearSnapshot
  <2> HIDE DEF end
  <2>2. QED
    BY <1>2, <1>5, <1>6, <2>1, ServerStands, LinkMoves
<1>8. TypeOK'
  BY <1>1, <1>2, <1>3, <1>4, <1>7 DEF TypeOK, LedgerMoves, RowsMove
<1>9. QED
  BY <1>1, <1>7, <1>8, ServedWords DEF Kept, Moved

LEMMA HearRecordKeeps ==
  ASSUME TypeOK, NEW device \in Devices, HearRecord(device)
  PROVE  Kept
<1>1. PICK record \in RecordsPast(device) :
        LET end == CaughtUpThrough(link[device], record.through) IN
          /\ IF record.from = device THEN UNCHANGED <<favourites, kept>>
                                     ELSE Arrived(device, record.notes)
          /\ Read(device, record.through, read[device].since + 1)
          /\ SetLink(device, Compacting(end, read'[device].cursor, read'[device].since, rows'[device]))
          /\ Reached(device, end)
          /\ UNCHANGED <<holds, server, bounds>>
  BY DEF HearRecord
<1> DEFINE end == CaughtUpThrough(link[device], record.through)
           asking == Compacting(end, read'[device].cursor, read'[device].since, rows'[device])
<1>2. record \in server.log
  BY DEF RecordsPast
<1>3. record.through \in Nat /\ record.notes \subseteq Words /\ record.notes \in SUBSET AllNotes
  BY <1>2, ServedWords DEF AllRecords
<1>4. UNCHANGED <<holds, server, edits, turns>>
  BY <1>1 DEF bounds
<1>5. /\ read' \in [Devices -> [cursor : Nat, since : Nat, space : Nat]]
      /\ read'[device].cursor \in Nat
  <2>1. read[device].since + 1 \in Nat
    BY DEF TypeOK
  <2>2. QED
    BY <1>1, <1>3, <2>1, ReadType
<1>6. caughtUp' \in [Devices -> SUBSET {"server", "neighbour"}]
  BY <1>1, ReachedType
<1>7. end \in AllLinks /\ Carried(end) \subseteq Carried(link[device])
  BY LinkType, CaughtUpLink
<1>8. SetLink(device, asking)
  BY <1>1
<1> HIDE DEF end
<1>9. CASE record.from = device
  <2>1. UNCHANGED <<favourites, rows, clock>>
    BY <1>1, <1>9 DEF kept
  <2>2. rows' \in [Devices -> [Keys -> AllRows]] /\ NotesOf(rows'[device]) = NotesOf(rows[device])
    BY <2>1 DEF TypeOK
  <2>3. asking \in AllLinks /\ Carried(asking) \subseteq Words \cup NotesOf(rows[device])
    BY <1>5, <1>7, <2>2, CompactingMoves
  <2> HIDE DEF asking
  <2>4. link' \in [Devices -> AllLinks] /\ Words' \subseteq Words
    BY <1>4, <1>8, <2>1, <2>3, ServerStands, LinkStands
  <2>5. TypeOK'
    BY <1>4, <1>5, <1>6, <2>1, <2>4 DEF TypeOK
  <2>6. QED
    BY <2>1, <2>4, <2>5 DEF Kept, Moved, kept
<1>10. CASE record.from # device
  <2>1. LedgerMoves(device, record.notes) /\ favourites' \in [Devices -> SUBSET Keys]
    BY <1>1, <1>3, <1>10, ArrivedMoves
  <2>2. rows' \in [Devices -> [Keys -> AllRows]]
        /\ \A other \in Devices \ {device} : rows'[other] = rows[other]
    BY <2>1 DEF LedgerMoves, RowsMove
  <2>3. asking \in AllLinks /\ Carried(asking) \subseteq Words \cup NotesOf(rows'[device])
    BY <1>5, <1>7, <2>2, CompactingMoves
  <2> HIDE DEF asking
  <2>4. link' \in [Devices -> AllLinks] /\ Words' \subseteq Words \cup NotesOf(rows'[device])
    BY <1>4, <1>8, <2>2, <2>3, ServerStands, LinkMoves
  <2>5. TypeOK'
    BY <1>4, <1>5, <1>6, <2>1, <2>4 DEF TypeOK, LedgerMoves, RowsMove
  <2>6. QED
    BY <1>3, <2>1, <2>4, <2>5 DEF Kept, Moved
<1>11. QED
  BY <1>9, <1>10

LEMMA HearAppendedKeeps ==
  ASSUME TypeOK, NEW device \in Devices, HearAppended(device)
  PROVE  Kept
<1> DEFINE ledger == Sent(rows[device], link[device].inFlight)
           end == [link[device] EXCEPT !.inFlight = {}, !.appended = 0]
<1>1. UNCHANGED <<favourites, holds, clock, read, caughtUp, server, edits, turns>>
  BY DEF HearAppended, catalogs, bounds
<1>2. rows' = [rows EXCEPT ![device] = ledger] /\ SetLink(device, Pushed(end, ledger))
  BY DEF HearAppended
<1>3. rows[device] \in [Keys -> AllRows]
  BY DEF TypeOK
<1>4. ledger \in [Keys -> AllRows] /\ \A key \in Keys : Note(ledger, key) = Note(rows[device], key)
  BY <1>3, SentRows
<1>5. end \in AllLinks
  BY LinkType DEF AllLinks
<1>6. Carried(end) \subseteq Carried(link[device])
  <2>1. end.inFlight = {} /\ end.says = link[device].says
    BY LinkType DEF AllLinks
  <2> HIDE DEF end
  <2>2. QED
    BY <2>1 DEF Carried, Said
<1> HIDE DEF ledger, end
<1>7. LedgerMoves(device, {})
  BY <1>1, <1>2, <1>4, StandingMoves
<1>8. /\ rows'[device] = ledger
      /\ \A other \in Devices \ {device} : rows'[other] = rows[other]
  BY <1>2, <1>4 DEF TypeOK
<1>9. /\ Pushed(end, ledger) \in AllLinks
      /\ Carried(Pushed(end, ledger)) \subseteq Words \cup NotesOf(rows'[device])
  BY <1>4, <1>5, <1>6, <1>8, PushedLink, WordsOfLedgers
<1>10. link' \in [Devices -> AllLinks] /\ Words' \subseteq Words \cup NotesOf(rows'[device])
  BY <1>1, <1>2, <1>8, <1>9, ServerStands, LinkMoves
<1>11. TypeOK'
  BY <1>1, <1>7, <1>10 DEF TypeOK, LedgerMoves, RowsMove
<1>12. QED
  BY <1>7, <1>10, <1>11 DEF Kept, Moved

LEMMA HearCompactedKeeps ==
  ASSUME TypeOK, NEW device \in Devices, HearCompacted(device)
  PROVE  Kept
<1> DEFINE through == Head(link[device].notices)
           end == [link[device] EXCEPT !.notices = Tail(link[device].notices)]
           mine == [end EXCEPT !.compacting = 0]
           asking == IF end.compacting = through THEN mine ELSE Pushed(end, rows[device])
<1>1. UNCHANGED <<favourites, holds, rows, clock, caughtUp, server, edits, turns>>
  BY DEF HearCompacted, catalogs, kept, bounds
<1>2. Read(device, through, 0) /\ SetLink(device, asking)
  BY DEF HearCompacted
<1>3. link[device] \in AllLinks /\ link[device].notices \in Seq(Nat) /\ link[device].notices # <<>>
  BY LinkType DEF HearCompacted, AllLinks
<1>4. through \in Nat /\ Tail(link[device].notices) \in Seq(Nat)
  BY <1>3
<1>5. end \in AllLinks /\ mine \in AllLinks
  BY <1>3, <1>4 DEF AllLinks
<1>6. /\ end.inFlight = link[device].inFlight /\ end.says = link[device].says
      /\ mine.inFlight = link[device].inFlight /\ mine.says = link[device].says
  BY <1>3 DEF AllLinks
<1> HIDE DEF end, mine, through
<1>7. Carried(end) = Carried(link[device]) /\ Carried(mine) = Carried(link[device])
  BY <1>6 DEF Carried, Said
<1>8. rows[device] \in [Keys -> AllRows]
  BY DEF TypeOK
<1>9. asking \in AllLinks /\ Carried(asking) \subseteq Words \cup NotesOf(rows[device])
  <2>1. mine \in AllLinks /\ Carried(mine) \subseteq Words
    BY <1>5, <1>7, WordsOfLedgers
  <2>2. /\ Pushed(end, rows[device]) \in AllLinks
        /\ Carried(Pushed(end, rows[device])) \subseteq Words \cup NotesOf(rows[device])
    BY <1>5, <1>7, <1>8, PushedLink, WordsOfLedgers
  <2>3. QED
    BY <2>1, <2>2
<1> HIDE DEF asking
<1>10. link' \in [Devices -> AllLinks] /\ Words' \subseteq Words
  BY <1>1, <1>2, <1>9, ServerStands, LinkStands
<1>11. read' \in [Devices -> [cursor : Nat, since : Nat, space : Nat]]
  BY <1>2, <1>4, ReadType
<1>12. TypeOK'
  BY <1>1, <1>10, <1>11 DEF TypeOK
<1>13. QED
  BY <1>1, <1>10, <1>12 DEF Kept, Moved, kept

LEMMA HearStaleKeeps ==
  ASSUME TypeOK, NEW device \in Devices, HearStale(device)
  PROVE  Kept
<1> DEFINE end == [link[device] EXCEPT !.compacting = 0, !.stale = FALSE]
<1>1. UNCHANGED <<favourites, holds, rows, clock, read, caughtUp, server, edits, turns>>
  BY DEF HearStale, catalogs, kept, bounds
<1>2. end \in AllLinks /\ end.inFlight = link[device].inFlight /\ end.says = link[device].says
  BY LinkType DEF AllLinks
<1>3. SetLink(device, end)
  BY DEF HearStale
<1> HIDE DEF end
<1>4. Carried(end) \subseteq Words \cup NotesOf(rows[device])
  <2>1. Carried(end) = Carried(link[device])
    BY <1>2 DEF Carried, Said
  <2>2. QED
    BY <2>1, WordsOfLedgers
<1>5. link' \in [Devices -> AllLinks] /\ Words' \subseteq Words
  BY <1>1, <1>2, <1>3, <1>4, ServerStands, LinkStands
<1>6. TypeOK'
  BY <1>1, <1>5 DEF TypeOK
<1>7. QED
  BY <1>1, <1>5, <1>6 DEF Kept, Moved, kept

LEMMA TellKeeps ==
  ASSUME TypeOK, NEW teller \in Devices, NEW device \in Devices, Tell(teller, device)
  PROVE  Kept
<1>1. rows[teller] \in [Keys -> AllRows]
  BY DEF TypeOK
<1>2. Whole(rows[teller]) \in SUBSET AllNotes /\ Whole(rows[teller]) \in SUBSET Words
  BY <1>1, NotesOfType, WordsOfLedgers
<1>3. LedgerMoves(device, Whole(rows[teller])) /\ favourites' \in [Devices -> SUBSET Keys]
  BY <1>2, ArrivedMoves DEF Tell
<1>4. UNCHANGED <<holds, read, link, server, edits>> /\ turns' = turns + 1
  BY DEF Tell
<1>5. caughtUp' \in [Devices -> SUBSET {"server", "neighbour"}]
  BY DEF Tell, TypeOK
<1>6. TypeOK'
  BY <1>3, <1>4, <1>5 DEF TypeOK, LedgerMoves, RowsMove
<1>7. \A other \in Devices \ {device} : rows'[other] = rows[other]
  BY <1>3 DEF LedgerMoves, RowsMove
<1>8. SetLink(device, link[device])
  BY <1>4 DEF SetLink, TypeOK
<1>9. Words' \subseteq Words \cup NotesOf(rows'[device])
  BY <1>4, <1>7, <1>8, LinkType, WordsOfLedgers, ServerStands, LinkMoves
<1>10. QED
  BY <1>2, <1>3, <1>6, <1>9 DEF Kept, Moved

LEMMA ConnectKeeps ==
  ASSUME TypeOK, NEW device \in Devices, Connect(device)
  PROVE  Kept
<1> DEFINE caught == read[device].cursor >= server.head
           end == [Down EXCEPT !.up = TRUE, !.caughtUp = caught,
                               !.head = IF caught THEN 0 ELSE server.head]
<1>1. UNCHANGED <<favourites, holds, rows, clock, server, edits, turns>>
  BY DEF Connect, catalogs, kept, bounds
<1>2. SetLink(device, end) /\ Reached(device, end)
  BY DEF Connect
<1>3. caught \in BOOLEAN /\ server.head \in Nat /\ server.space \in Nat
  BY ServedWords
<1> HIDE DEF caught
<1>4. end \in AllLinks /\ end.inFlight = {} /\ end.says = <<>>
  <2> DEFINE head == IF caught THEN 0 ELSE server.head
  <2>1. head \in Nat
    BY <1>3
  <2>2. Down \in AllLinks /\ Down.inFlight = {} /\ Down.says = <<>>
    BY DownLink DEF Down
  <2> HIDE DEF head
  <2>3. [Down EXCEPT !.up = TRUE, !.caughtUp = caught, !.head = head] \in AllLinks
    BY <1>3, <2>1, <2>2 DEF AllLinks
  <2>4. /\ [Down EXCEPT !.up = TRUE, !.caughtUp = caught, !.head = head].inFlight = {}
        /\ [Down EXCEPT !.up = TRUE, !.caughtUp = caught, !.head = head].says = <<>>
    BY <2>2 DEF AllLinks
  <2>5. QED
    BY <2>3, <2>4 DEF head
<1>5. read' \in [Devices -> [cursor : Nat, since : Nat, space : Nat]]
  <2>1. read[device] \in [cursor : Nat, since : Nat, space : Nat]
    BY DEF TypeOK
  <2> DEFINE next == [read[device] EXCEPT
                        !.space = IF read[device].space = 0 THEN server.space ELSE read[device].space]
  <2>2. next \in [cursor : Nat, since : Nat, space : Nat]
    BY <1>3, <2>1
  <2>3. read' = [read EXCEPT ![device] = next]
    BY <2>1 DEF Connect
  <2> HIDE DEF next
  <2>4. QED
    BY <2>2, <2>3 DEF TypeOK
<1> HIDE DEF end
<1>6. Carried(end) = {}
  BY <1>4 DEF Carried, Said
<1>7. link' \in [Devices -> AllLinks] /\ Words' \subseteq Words
  BY <1>1, <1>2, <1>4, <1>6, ServerStands, LinkStands
<1>8. TypeOK'
  BY <1>1, <1>2, <1>5, <1>7, ReachedType DEF TypeOK
<1>9. QED
  BY <1>1, <1>7, <1>8 DEF Kept, Moved, kept

LEMMA FindAnewKeeps ==
  ASSUME TypeOK, NEW device \in Devices, FindAnew(device)
  PROVE  Kept
<1> DEFINE ledger == OweEverything(rows[device])
<1>1. UNCHANGED <<favourites, holds, clock, link, caughtUp, server, edits, turns>>
  BY DEF FindAnew, catalogs, bounds
<1>2. rows[device] \in [Keys -> AllRows] /\ rows' = [rows EXCEPT ![device] = ledger]
  BY DEF FindAnew, TypeOK
<1>3. ledger \in [Keys -> AllRows] /\ \A key \in Keys : Note(ledger, key) = Note(rows[device], key)
  BY <1>2, OweEverythingRows
<1> HIDE DEF ledger
<1>4. LedgerMoves(device, {})
  BY <1>1, <1>2, <1>3, StandingMoves
<1>5. \A other \in Devices \ {device} : rows'[other] = rows[other]
  BY <1>4 DEF LedgerMoves, RowsMove
<1>6. SetLink(device, link[device])
  BY <1>1 DEF SetLink, TypeOK
<1>7. Words' \subseteq Words \cup NotesOf(rows'[device])
  BY <1>1, <1>5, <1>6, LinkType, WordsOfLedgers, ServerStands, LinkMoves
<1>8. read' \in [Devices -> [cursor : Nat, since : Nat, space : Nat]]
  BY ServedWords DEF FindAnew, TypeOK
<1>9. TypeOK'
  BY <1>1, <1>4, <1>8 DEF TypeOK, LedgerMoves, RowsMove
<1>10. QED
  BY <1>4, <1>7, <1>9 DEF Kept, Moved

LEMMA TakeAppendKeeps ==
  ASSUME TypeOK, NEW device \in Devices, TakeAppend(device)
  PROVE  Kept
<1> DEFINE said == Head(link[device].says)
           record == [from |-> device, notes |-> said.notes, through |-> server.head + 1]
           end == [Took(device) EXCEPT !.appended = server'.head]
<1>1. UNCHANGED <<favourites, holds, rows, clock, read, caughtUp, edits, turns>>
  BY DEF TakeAppend, TakesOf, catalogs, kept, bounds
<1>2. /\ Took(device) \in AllLinks /\ said \in AllSaid
      /\ Carried(Took(device)) \subseteq Words /\ said.notes \subseteq Words
  BY TookLink, WordsOfLedgers DEF TakeAppend, TakesOf
<1>3. said.notes \in SUBSET AllNotes
  BY <1>2 DEF AllSaid
<1>4. Appended(device, said.notes) /\ SetLink(device, end)
  BY DEF TakeAppend
<1> HIDE DEF said
<1>5. server' \in AllSpaces /\ Logged' \cup server'.snapshot.notes \subseteq Words
  <2>1. server \in AllSpaces
    BY DEF TypeOK
  <2>2. record \in AllRecords /\ record.notes = said.notes
    BY <1>3, <2>1 DEF AllRecords, AllSpaces
  <2>3. CASE UNCHANGED server
    BY <2>1, <2>3, ServerStands
  <2>4. CASE server' = [server EXCEPT !.head = server.head + 1, !.log = server.log \cup {record}]
    <3> DEFINE head == server.head + 1
               log == server.log \cup {record}
    <3>1. server' \in AllSpaces
      <4>1. head \in Nat /\ log \in SUBSET AllRecords
        BY <2>1, <2>2 DEF AllSpaces
      <4>2. server' = [server EXCEPT !.head = head, !.log = log]
        BY <2>4
      <4> HIDE DEF head, log
      <4>3. QED
        BY <2>1, <4>1, <4>2 DEF AllSpaces
    <3> HIDE DEF record
    <3>2. server'.log = server.log \cup {record} /\ server'.snapshot = server.snapshot
      BY <2>1, <2>4 DEF AllSpaces
    <3>3. Logged' = Logged \cup said.notes
      BY <2>2, <3>2 DEF Logged
    <3>4. QED
      BY <1>2, <3>1, <3>2, <3>3 DEF Words
  <2>5. QED
    BY <1>4, <2>3, <2>4 DEF Appended
<1>6. server'.head \in Nat
  BY <1>5 DEF AllSpaces
<1>7. end \in AllLinks /\ end.inFlight = Took(device).inFlight /\ end.says = Took(device).says
  BY <1>2, <1>6 DEF AllLinks
<1> HIDE DEF end
<1>8. Carried(end) \subseteq Words
  <2>1. Carried(end) = Carried(Took(device))
    BY <1>7 DEF Carried, Said
  <2>2. QED
    BY <1>2, <2>1
<1>9. link' \in [Devices -> AllLinks] /\ Words' \subseteq Words
  BY <1>1, <1>4, <1>5, <1>7, <1>8, LinkStands
<1>10. TypeOK'
  BY <1>1, <1>5, <1>9 DEF TypeOK
<1>11. QED
  BY <1>1, <1>9, <1>10 DEF Kept, Moved, kept

LEMMA TakeCompactKeeps ==
  ASSUME TypeOK, NEW device \in Devices, TakeCompact(device)
  PROVE  Kept
<1> DEFINE said == Head(link[device].says)
           end(d) == IF d = device THEN Took(d) ELSE link[d]
           told(d) == IF end(d).up THEN [end(d) EXCEPT !.notices = Append(end(d).notices, said.through)]
                                   ELSE end(d)
<1>1. UNCHANGED <<favourites, holds, rows, clock, read, caughtUp, edits, turns>>
  BY DEF TakeCompact, TakesOf, catalogs, kept, bounds
<1>2. /\ Took(device) \in AllLinks /\ said \in AllSaid
      /\ Carried(Took(device)) \subseteq Words /\ said.notes \subseteq Words
  BY TookLink, WordsOfLedgers DEF TakeCompact, TakesOf
<1>3. said.notes \in SUBSET AllNotes /\ said.through \in Nat
  BY <1>2 DEF AllSaid
<1>4. Compacted(said.through, said.notes) /\ link' = [d \in Devices |-> told(d)]
  BY DEF TakeCompact
<1> HIDE DEF said
<1>5. server' \in AllSpaces /\ Logged' \cup server'.snapshot.notes \subseteq Words
  <2> DEFINE past == {record \in server.log : record.through > said.through}
             shot == [through |-> said.through, notes |-> said.notes]
  <2>1. server \in AllSpaces /\ server.log \in SUBSET AllRecords
    BY DEF TypeOK, AllSpaces
  <2>2. shot \in [through : Nat, notes : SUBSET AllNotes] /\ shot.notes = said.notes
    BY <1>3
  <2>3. past \subseteq server.log
    OBVIOUS
  <2>4. server' = [server EXCEPT !.log = past, !.snapshot = shot]
    BY <1>4 DEF Compacted
  <2> HIDE DEF past, shot
  <2>5. server' \in AllSpaces
    BY <2>1, <2>2, <2>3, <2>4 DEF AllSpaces
  <2>6. server'.log = past /\ server'.snapshot = shot
    BY <2>1, <2>4 DEF AllSpaces
  <2>7. Logged' \subseteq Logged
    BY <2>3, <2>6 DEF Logged
  <2>8. QED
    BY <1>2, <2>2, <2>5, <2>6, <2>7 DEF Words
<1>6. ASSUME NEW d \in Devices
      PROVE  told(d) \in AllLinks /\ Carried(told(d)) \subseteq Words
  <2>1. end(d) \in AllLinks /\ Carried(end(d)) \subseteq Words
    BY <1>2, LinkType, WordsOfLedgers
  <2> DEFINE one == end(d)
             more == [one EXCEPT !.notices = Append(one.notices, said.through)]
  <2> HIDE DEF one
  <2>2. one \in AllLinks /\ Carried(one) \subseteq Words
    BY <2>1 DEF one
  <2>3. Append(one.notices, said.through) \in Seq(Nat)
    BY <1>3, <2>2 DEF AllLinks
  <2>4. more \in AllLinks /\ more.inFlight = one.inFlight /\ more.says = one.says
    BY <2>2, <2>3 DEF AllLinks
  <2> HIDE DEF more
  <2>5. Carried(more) = Carried(one)
    BY <2>4 DEF Carried, Said
  <2>6. told(d) \in {one, more}
    BY DEF one, more
  <2>7. QED
    BY <2>2, <2>4, <2>5, <2>6
<1> HIDE DEF told
<1>7. link' \in [Devices -> AllLinks]
  BY <1>4, <1>6
<1>8. Words' \subseteq Words
  <2>1. ASSUME NEW d \in Devices
        PROVE  NotesOf(rows'[d]) \cup Carried(link'[d]) \subseteq Words
    BY <1>1, <1>4, <1>6, WordsOfLedgers
  <2>2. QED
    BY <1>5, <2>1, WordsNext
<1>9. TypeOK'
  BY <1>1, <1>5, <1>7 DEF TypeOK
<1>10. QED
  BY <1>1, <1>8, <1>9 DEF Kept, Moved, kept

LEMMA RefuseCompactKeeps ==
  ASSUME TypeOK, NEW device \in Devices, RefuseCompact(device)
  PROVE  Kept
<1> DEFINE end == [Took(device) EXCEPT !.stale = TRUE]
<1>1. UNCHANGED <<favourites, holds, rows, clock, read, caughtUp, server, edits, turns>>
  BY DEF RefuseCompact, TakesOf, catalogs, kept, bounds
<1>2. Took(device) \in AllLinks /\ Carried(Took(device)) \subseteq Words
  BY TookLink, WordsOfLedgers DEF RefuseCompact, TakesOf
<1>3. end \in AllLinks /\ end.inFlight = Took(device).inFlight /\ end.says = Took(device).says
  BY <1>2 DEF AllLinks
<1>4. SetLink(device, end)
  BY DEF RefuseCompact
<1> HIDE DEF end
<1>5. Carried(end) \subseteq Words
  <2>1. Carried(end) = Carried(Took(device))
    BY <1>3 DEF Carried, Said
  <2>2. QED
    BY <1>2, <2>1
<1>6. link' \in [Devices -> AllLinks] /\ Words' \subseteq Words
  BY <1>1, <1>3, <1>4, <1>5, ServerStands, LinkStands
<1>7. TypeOK'
  BY <1>1, <1>6 DEF TypeOK
<1>8. QED
  BY <1>1, <1>6, <1>7 DEF Kept, Moved, kept

LEMMA BreakKeeps ==
  ASSUME TypeOK, NEW device \in Devices, Break(device)
  PROVE  Kept
<1>1. UNCHANGED <<favourites, holds, rows, clock, read, caughtUp, server, edits>>
      /\ turns' = turns + 1
  BY DEF Break, catalogs, kept
<1>2. SetLink(device, Down)
  BY DEF Break
<1>3. link' \in [Devices -> AllLinks] /\ Words' \subseteq Words
  BY <1>1, <1>2, DownLink, ServerStands, LinkStands
<1>4. TypeOK'
  BY <1>1, <1>3 DEF TypeOK
<1>5. QED
  BY <1>1, <1>3, <1>4 DEF Kept, Moved, kept

LEMMA DieKeeps ==
  ASSUME TypeOK, NEW device \in Devices, Die(device)
  PROVE  Kept
<1>1. UNCHANGED <<favourites, holds, rows, clock, read, server, edits>> /\ turns' = turns + 1
  BY DEF Die, catalogs, kept
<1>2. SetLink(device, Down) /\ caughtUp' \in [Devices -> SUBSET {"server", "neighbour"}]
  BY DEF Die, TypeOK
<1>3. link' \in [Devices -> AllLinks] /\ Words' \subseteq Words
  BY <1>1, <1>2, DownLink, ServerStands, LinkStands
<1>4. TypeOK'
  BY <1>1, <1>2, <1>3 DEF TypeOK
<1>5. QED
  BY <1>1, <1>3, <1>4 DEF Kept, Moved, kept

\* What may be reaching a device is words, and of their type.
LEMMA ReachingWords ==
  ASSUME TypeOK, NEW device \in Devices, NEW told \in Reaching(device)
  PROVE  told \subseteq Words /\ told \in SUBSET AllNotes
<1>1. CASE told = server.snapshot.notes
  BY <1>1, ServedWords
<1>2. CASE \E record \in server.log : told = record.notes
  BY <1>2, ServedWords
<1>3. CASE \E teller \in Devices : told = Whole(rows[teller])
  <2>1. PICK teller \in Devices : told = Whole(rows[teller])
    BY <1>3
  <2>2. rows[teller] \in [Keys -> AllRows]
    BY DEF TypeOK
  <2>3. QED
    BY <2>1, <2>2, NotesOfType, WordsOfLedgers
<1>4. QED
  BY <1>1, <1>2, <1>3 DEF Reaching, RecordsPast

\* A death once the rows have moved: the clock is as late as they are once the wall is.
LEMMA DieBeforeTheClockKeeps ==
  ASSUME TypeOK, NEW device \in Devices, NEW notes \in SUBSET Words, NEW nanos,
         RowsMove(device, notes, nanos), favourites' \in [Devices -> SUBSET Keys],
         DieBeforeTheClock(device, nanos)
  PROVE  TypeOK' /\ (WallMovesOn => LedgerMoves(device, notes) /\ Moved)
<1>1. UNCHANGED <<holds, read, server, edits>> /\ turns' = turns + 1 /\ SetLink(device, Down)
  BY DEF DieBeforeTheClock
<1>2. PICK last \in {nanos, clock[device]} :
        clock' = [clock EXCEPT ![device] = last] /\ (WallMovesOn => last = nanos)
  BY DEF DieBeforeTheClock
<1>3. nanos \in Nat /\ clock \in [Devices -> Nat] /\ rows' \in [Devices -> [Keys -> AllRows]]
      /\ \A other \in Devices \ {device} : rows'[other] = rows[other]
  BY DEF RowsMove, TypeOK
<1>4. clock' \in [Devices -> Nat]
  BY <1>2, <1>3
<1>5. caughtUp' \in [Devices -> SUBSET {"server", "neighbour"}]
  BY DEF DieBeforeTheClock, TypeOK
<1>6. link' \in [Devices -> AllLinks] /\ Words' \subseteq Words \cup NotesOf(rows'[device])
  BY <1>1, <1>3, DownLink, ServerStands, LinkMoves
<1>7. TypeOK'
  BY <1>1, <1>3, <1>4, <1>5, <1>6 DEF TypeOK
<1>8. WallMovesOn => LedgerMoves(device, notes)
  BY <1>2, ClockMoves
<1>9. QED
  BY <1>6, <1>7, <1>8 DEF Moved

LEMMA DieWhileLookingKeeps ==
  ASSUME TypeOK, NEW device \in Devices, DieWhileLooking(device)
  PROVE  TypeOK' /\ (WallMovesOn => LedgerMoves(device, {}) /\ Moved)
<1>1. RowsMove(device, {}, LookedAt(device)) /\ favourites' \in [Devices -> SUBSET Keys]
  BY LooksMoves DEF DieWhileLooking
<1>2. DieBeforeTheClock(device, LookedAt(device)) /\ {} \in SUBSET Words
  BY DEF DieWhileLooking
<1>3. QED
  BY <1>1, <1>2, DieBeforeTheClockKeeps

LEMMA DieWhileHearingKeeps ==
  ASSUME TypeOK, NEW device \in Devices, DieWhileHearing(device)
  PROVE  TypeOK' /\ (WallMovesOn => Moved)
<1>1. PICK told \in Reaching(device) : \E notes \in SUBSET told :
        /\ Arrives(device, notes)
        /\ \E nanos \in ArrivedAt(device, notes) : DieBeforeTheClock(device, nanos)
  BY DEF DieWhileHearing
<1>2. PICK notes \in SUBSET told :
        /\ Arrives(device, notes)
        /\ \E nanos \in ArrivedAt(device, notes) : DieBeforeTheClock(device, nanos)
  BY <1>1
<1>3. PICK nanos \in ArrivedAt(device, notes) : DieBeforeTheClock(device, nanos)
  BY <1>2
<1>4. notes \in SUBSET Words /\ notes \in SUBSET AllNotes
  BY ReachingWords
<1>5. RowsMove(device, notes, nanos) /\ favourites' \in [Devices -> SUBSET Keys]
  BY <1>2, <1>4, ArrivesMoves
<1>6. QED
  BY <1>3, <1>4, <1>5, DieBeforeTheClockKeeps

LEMMA LoseKeeps ==
  ASSUME TypeOK, Lose
  PROVE  Kept
<1>1. UNCHANGED <<favourites, holds, rows, clock, read, caughtUp, edits>> /\ turns' = turns + 1
  BY DEF Lose, catalogs, kept
<1>2. server' = [NoSpace EXCEPT !.space = server.space + 1] /\ link' = [device \in Devices |-> Down]
  BY DEF Lose
<1>3. server' \in AllSpaces /\ server'.log = {} /\ server'.snapshot.notes = {}
  BY <1>2, ServedWords DEF NoSpace, AllSpaces
<1>4. link' \in [Devices -> AllLinks]
  BY <1>2, DownLink
<1>5. Words' \subseteq Words
  <2>1. Logged' = {}
    BY <1>3 DEF Logged
  <2>2. ASSUME NEW device \in Devices
        PROVE  NotesOf(rows'[device]) \cup Carried(link'[device]) \subseteq Words
    BY <1>1, <1>2, DownLink, WordsOfLedgers
  <2>3. QED
    BY <1>3, <2>1, <2>2, WordsNext
<1>6. TypeOK'
  BY <1>1, <1>3, <1>4 DEF TypeOK
<1>7. QED
  BY <1>1, <1>5, <1>6 DEF Kept, Moved, kept

-----------------------------------------------------------------------------
(* The theorems.                                                           *)

\* At first every note is of a recording nothing is known of.
Blank(note) == note.favoured = FALSE /\ note.stamp = NoStamp

LEMMA InitWords == Init => WordsInv
<1> SUFFICES ASSUME Init PROVE WordsInv
  OBVIOUS
<1>1. NoRow \in AllRows /\ NoRow.stamp = NoStamp /\ NoRow.favoured = FALSE
  BY DEF NoRow, NoStamp, AllRows, Stamps
<1>2. server = NoSpace /\ NoSpace \in AllSpaces /\ NoSpace.log = {} /\ NoSpace.snapshot.notes = {}
  BY DEF Init, NoSpace, AllSpaces
<1>3. /\ rows = [device \in Devices |-> [key \in Keys |-> NoRow]]
      /\ clock = [device \in Devices |-> 0] /\ link = [device \in Devices |-> Down]
  BY DEF Init
<1>4. holds \in [Devices -> SUBSET Keys]
  BY LedgerAssumption DEF Init, LedgerAssumption
<1>5. TypeOK
  BY <1>1, <1>2, <1>3, <1>4, DownLink DEF Init, TypeOK
<1>6. ASSUME NEW note \in Words
      PROVE  Blank(note)
  <2>1. Logged = {}
    BY <1>2 DEF Logged
  <2>2. PICK device \in Devices : note \in NotesOf(rows[device]) \cup Carried(link[device])
    BY <1>2, <2>1 DEF Words
  <2>3. rows[device] = [key \in Keys |-> NoRow] /\ Carried(link[device]) = {}
    BY <1>3, DownLink
  <2>4. PICK key \in Keys : note = Note(rows[device], key)
    BY <2>2, <2>3 DEF NotesOf
  <2>5. note = [key |-> key, favoured |-> NoRow.favoured, stamp |-> NoRow.stamp]
    BY <2>3, <2>4 DEF Note
  <2> HIDE DEF Blank
  <2>6. QED
    BY <1>1, <2>5 DEF Blank
<1>7. Words \in SUBSET AllNotes
  BY <1>5, WordsType
<1>8. NoStamp.nanos = 0
  BY DEF NoStamp
<1>9. WordsBehindTheClock
  <2> SUFFICES ASSUME NEW note \in Words, NEW device \in Devices
               PROVE  note.stamp.nanos <= clock[device]
    BY DEF WordsBehindTheClock
  <2>1. note.stamp.nanos = 0 /\ clock[device] = 0
    BY <1>3, <1>6, <1>8 DEF Blank
  <2>2. QED
    BY <2>1
<1>10. RowsBehindTheClock
  BY <1>1, <1>3, <1>8 DEF RowsBehindTheClock
<1>11. OneWord
  <2> SUFFICES ASSUME NEW one \in Words, NEW other \in Words, one.key = other.key PROVE one = other
    BY DEF OneWord
  <2>1. one \in AllNotes /\ other \in AllNotes
    BY <1>7
  <2>2. one.favoured = other.favoured /\ one.stamp = other.stamp
    BY <1>6 DEF Blank
  <2>3. QED
    BY <2>1, <2>2 DEF AllNotes
<1>12. QED
  BY <1>5, <1>9, <1>10, <1>11 DEF WordsInv

LEMMA StandingKeeps ==
  ASSUME TypeOK, UNCHANGED vars
  PROVE  Kept
<1>1. /\ UNCHANGED <<favourites, holds, rows, clock, read, link, caughtUp, server, edits, turns>>
  BY DEF vars
<1>2. TypeOK'
  BY <1>1 DEF TypeOK
<1>3. Words' = Words
  BY <1>1, WordsNext DEF Words, Logged
<1>4. QED
  BY <1>1, <1>2, <1>3 DEF Kept, Moved, kept

LEMMA NextKeeps ==
  ASSUME TypeOK, [Next]_vars
  PROVE  TypeOK' /\ (WallMovesOn => Moved)
<1> USE DEF Kept
<1>1. CASE \E device \in Devices : Works(device) \/ Break(device) \/ Dies(device)
  <2>1. PICK device \in Devices : Works(device) \/ Break(device) \/ Dies(device)
    BY <1>1
  <2>2. CASE Look(device)
    BY <2>2, LookKeeps
  <2>3. CASE Hear(device)
    BY <2>3, HearSnapshotKeeps, HearRecordKeeps, HearAppendedKeeps, HearCompactedKeeps,
       HearStaleKeeps DEF Hear
  <2>4. CASE Links(device)
    BY <2>4, ConnectKeeps, FindAnewKeeps DEF Links
  <2>5. CASE Take(device)
    BY <2>5, TakeAppendKeeps, TakeCompactKeeps, RefuseCompactKeeps DEF Take
  <2>6. CASE Break(device)
    BY <2>6, BreakKeeps
  <2>7. CASE Dies(device)
    BY <2>7, DieKeeps, DieWhileLookingKeeps, DieWhileHearingKeeps DEF Dies
  <2>8. QED
    BY <2>1, <2>2, <2>3, <2>4, <2>5, <2>6, <2>7 DEF Works
<1>2. CASE \E device \in Devices, key \in Keys : Edit(device, key) \/ Land(device, key)
  BY <1>2, EditKeeps, LandKeeps
<1>3. CASE \E teller, device \in Devices : Tell(teller, device)
  BY <1>3, TellKeeps
<1>4. CASE Lose
  BY <1>4, LoseKeeps
<1>5. CASE UNCHANGED vars
  BY <1>5, StandingKeeps
<1>6. QED
  BY <1>1, <1>2, <1>3, <1>4, <1>5 DEF Next

LEMMA NextKeepsTheWords ==
  ASSUME WallMovesOn, WordsInv, [Next]_vars
  PROVE  WordsInv' /\ RowsMoved
<1>1. TypeOK
  BY DEF WordsInv
<1>2. TypeOK' /\ Moved
  BY <1>1, NextKeeps
<1>3. QED
  BY <1>2, MovedKeeps

LEMMA WordsAlways ==
  ASSUME WallMovesOn
  PROVE  Spec => []WordsInv
<1>1. Init => WordsInv
  BY InitWords
<1>2. WordsInv /\ [Next]_vars => WordsInv'
  BY NextKeepsTheWords, WallMovesOn
<1>3. QED
  BY <1>1, <1>2, PTL DEF Spec

\* What devices, links and the server keep is of its kind in every state, whatever the walls
\* do (ledger.rs, service.rs, store.rs).
THEOREM LedgerTypeCorrect == Spec => []TypeOK
<1>1. Init => TypeOK
  BY InitWords DEF WordsInv
<1>2. TypeOK /\ [Next]_vars => TypeOK'
  BY NextKeeps
<1>3. QED
  BY <1>1, <1>2, PTL DEF Spec

\* Where a device that dies between its rows and its clock finds its wall past what it lost,
\* two notes of a recording that have one stamp are one note, for any devices and walls,
\* whatever else breaks: Clock::now never gives out an instant it has seen (change.rs), and
\* the clock it starts from is kept only after the rows it stamped (ledger.rs 486, 638, 1887).
THEOREM OneWordAStampAlways ==
  ASSUME WallMovesOn
  PROVE  Spec => []OneWordAStamp
<1>1. WordsInv => OneWordAStamp
  BY NotesAreWords DEF WordsInv, OneWord, OneWordAStamp
<1>2. Spec => []WordsInv
  BY WordsAlways, WallMovesOn
<1>3. QED
  BY <1>1, <1>2, PTL

\* On the same terms no step of a device, a neighbour or the server has a row give way to an
\* earlier word (favourite_arrived, look_at_favourites).
THEOREM RowsMoveOn ==
  ASSUME WallMovesOn
  PROVE  Spec => RowsOnlyMoveOn
<1>1. WordsInv /\ [Next]_vars => [RowsMoved]_vars
  BY NextKeepsTheWords, WallMovesOn
<1>2. [RowsMoved]_vars <=>
        [\A device \in Devices, key \in Keys :
           Note(rows'[device], key) # Note(rows[device], key) =>
             Later(rows'[device][key].stamp, rows[device][key].stamp)]_vars
  BY DEF RowsMoved
<1>3. Spec => []WordsInv
  BY WordsAlways, WallMovesOn
<1>4. QED
  BY <1>1, <1>2, <1>3, PTL DEF Spec, RowsOnlyMoveOn
=============================================================================
